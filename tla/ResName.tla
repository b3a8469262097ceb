------------------------------- MODULE ResName -------------------------------
(***************************************************************************)
(* Resource names: ParseName, String and the names made for Java and for   *)
(* protocol buffers in tools/ak/res/naming.go.                             *)
(*                                                                         *)
(* An unparsed name is a sequence of words and of the marks ":", "/", "@", *)
(* "?" and ".".  A word is longer than one character.                      *)
(***************************************************************************)
EXTENDS ResPath

Marks == {":", "/", "@", "?", "."}
Malformed == [Package |-> << >>, Type |-> "unknown", Name |-> << >>]

Index(s, mark) == SelectInSeq(s, LAMBDA x : x = mark)
Before(s, i) == SubSeq(s, 1, i - 1)
After(s, i) == SubSeq(s, i + 1, Len(s))

\* A "@" or "?" in front of something longer than a character.
removeRef(s) ==
    IF Len(s) > 1 /\ s[1] \in {"@", "?"} /\ (Len(s) > 2 \/ s[2] \notin Marks)
    THEN Tail(s) ELSE s

ParseType(s) == IF Len(s) = 1 /\ IsType(s[1]) THEN s[1] ELSE "unknown"

\* The parts of a name without reference, by the order of its first ":" and "/".
Parts(n, resType) ==
    LET pkg == Index(n, ":")
        typ == Index(n, "/")
        Fqn(p, t, name) == [Package |-> p, Type |-> t, Name |-> name]
    IN CASE pkg = 1 \/ typ = 1 -> Malformed
         [] pkg = 0 /\ typ = 0 -> Fqn(<< >>, resType, n)
         [] pkg > 1 /\ typ = 0 -> Fqn(Before(n, pkg), resType, After(n, pkg))
         [] pkg = 0 /\ typ > 1 -> Fqn(<< >>, ParseType(Before(n, typ)), After(n, typ))
         [] 1 < pkg /\ pkg < typ ->
              Fqn(Before(n, pkg), ParseType(SubSeq(n, pkg + 1, typ - 1)), After(n, typ))
         [] 1 < typ /\ typ < pkg ->
              Fqn(SubSeq(n, typ + 1, pkg - 1), ParseType(Before(n, typ)), After(n, pkg))

ParseName(unparsed, resType) ==
    LET parts == Parts(removeRef(unparsed), resType)
    IN IF parts.Type = "unknown" \/ parts.Name = << >> THEN Malformed
       ELSE IF parts.Package = << >> THEN [parts EXCEPT !.Package = <<"res-auto">>]
       ELSE parts

String(f) == f.Package \o <<":", f.Type, "/">> \o f.Name

Replace(name, marks) == [i \in DOMAIN name |-> IF name[i] \in marks THEN "_" ELSE name[i]]

\* SetResource and SetMetaData, and JavaName; a type that is not real has none.
ProtoName(f) == IF IsType(f.Type) THEN Replace(f.Name, {"."}) ELSE << >>
JavaName(f) == IF IsType(f.Type) THEN Replace(f.Name, {":", "."}) ELSE << >>

StyleableAttrName(styleable, attr) ==
    IF styleable.Type # "styleable" \/ attr.Type # "attr" THEN << >>
    ELSE JavaName(styleable)
         \o (IF attr.Package = <<"android">> THEN <<"_", "android", "_">> ELSE <<"_">>)
         \o JavaName(attr)
-----------------------------------------------------------------------------
(* What holds of every name; MCAk checks it on the names of a bounded length. *)

\* What String writes, ParseName reads as the same name whatever the context, unless
\* the package, as "type/pkg:name" allows, has a "/" or a reference mark of its own.
RoundTrip(unparsed, t, u) ==
    LET f == ParseName(unparsed, t) IN
    f # Malformed /\ IsType(f.Type) /\ "/" \notin ToSet(f.Package)
        /\ f.Package[1] \notin {"@", "?"} => ParseName(String(f), u) = f

\* A Java name has no mark that Java does not take, and what a context adds is only
\* the type.
Sanitized(unparsed, t) ==
    LET f == ParseName(unparsed, t) IN
    f # Malformed /\ IsType(f.Type) =>
        /\ ToSet(JavaName(f)) \cap {":", "."} = {}
        /\ Len(JavaName(f)) = Len(f.Name)
        /\ Index(unparsed, "/") # 0 => f = ParseName(unparsed, "values")
=============================================================================
