--------------------------- MODULE ShadowEncoder ---------------------------
(***************************************************************************)
(* How bucketize/bucketize.go uses the encoder: the shadow encoder of      *)
(* syncParseReader and parseRes, which is given the tokens of the top      *)
(* level only, and the child encoder of extractElement, which is given a   *)
(* whole element and writes its payload.                                   *)
(*                                                                         *)
(* The environment is a document with well-formed namespaces.  A tag has   *)
(* declarations <<prefix, URI>> and one name with a prefix, its own or an  *)
(* attribute's; the decoder replaces the prefix by its URI, if it is bound. *)
(* A declare-styleable inside a declare-styleable is left out.             *)
(*                                                                         *)
(* The namespace state of an encoder (common/golang/marshal.go) is a       *)
(* record [prefixURI, up, state, fatal]: the URI of each prefix, the       *)
(* prefixes of each URI (uriPrefixMap), the entries to unwind, and whether *)
(* log.Fatalf found the state corrupt.                                     *)
(***************************************************************************)
EXTENDS Naturals, Sequences, SequencesExt, FiniteSets

CONSTANTS
    ResourcesDecls,   \* what <resources> may declare
    TagDecls,         \* what a tag beneath it may declare
    MaxTags,          \* bound: tags beneath <resources>
    MaxDepth,         \* bound: depth of the tags in one of them
    MaxChildren,      \* bound: tags directly in one of them
    UnboundNames      \* TRUE if names may have a prefix that is not bound

\* The empty string: what a Go map has for an absent key.
Absent == ""

\* What translateName returns for a name that has no prefix, and the meaning of one
\* whose prefix no open tag declares.
Unknown == "unknown namespace"
Unbound == "unbound"

Decls == UNION {Range(ds) : ds \in ResourcesDecls \cup TagDecls}
KnownPrefixes == {d[1] : d \in Decls}
KnownURIs == {d[2] : d \in Decls}

\* A prefix is no URI.
ASSUME DeclsAssumption ==
    /\ \A ds \in ResourcesDecls \cup TagDecls : ds \in Seq(STRING \X STRING)
    /\ KnownPrefixes \cap KnownURIs = {}
    /\ KnownPrefixes \cap {Absent, Unknown} = {} /\ KnownURIs \cap {Absent, Unbound} = {}
    /\ MaxTags \in Nat /\ MaxDepth \in Nat \ {0} /\ MaxChildren \in Nat
    /\ UnboundNames \in BOOLEAN

VARIABLES
    mode,             \* "start", "res", "copy", "styleable", "done", "failed" (a name has
                      \* no prefix to be written with) or "unbalanced"
    parent, child,    \* the two encoders
    scope,            \* the decoder's prefixes, one function for each open tag
    names,            \* the names of the tags that are open in the payload
    styleable,        \* the payload is that of a declare-styleable
    own,              \* its tag: [decls, prefix], the prefix of its own name as written
    children,         \* its children: [decls, prefix, ofTag, uri], as written
    wrote,            \* the last name written: [prefix, uri, scope] of the output
    tags,             \* how many tags beneath <resources> there were
    prefixed          \* the shadow encoder was given a tag whose own name has a prefix
-----------------------------------------------------------------------------
(* The encoder *)

Empty == << >>

NewEncoder == [prefixURI |-> Empty, up |-> Empty, state |-> << >>, fatal |-> FALSE]

\* Mutant of ChildEncoder: the prefixes of the URIs are not copied.
ChildEncoderBare(enc) == [enc EXCEPT !.state = << >>, !.up = Empty]

\* The maps of the parent are copied, what it has to unwind is not.
ChildEncoder(enc) == [enc EXCEPT !.state = << >>]

\* The function f with v at k.
Bind(f, k, v) == [x \in DOMAIN f \cup {k} |-> IF x = k THEN v ELSE f[x]]

\* A new key starts with one empty prefix.
put(up, uri, prefix) ==
    IF uri \in DOMAIN up THEN [up EXCEPT ![uri] = Append(@, prefix)]
    ELSE Bind(up, uri, <<Absent, prefix>>)

getLast(up, uri) == Last(up[uri])

removeLast(up, uri) ==
    IF uri \notin DOMAIN up THEN up
    ELSE IF Len(up[uri]) > 1 THEN [up EXCEPT ![uri] = Front(@)]
    ELSE Restrict(up, DOMAIN up \ {uri})

URIOf(enc, prefix) ==
    IF prefix \in DOMAIN enc.prefixURI THEN enc.prefixURI[prefix] ELSE Absent

Element(name) == [kind |-> "element", name |-> name]
Xmlns(prefix, uri) == [kind |-> "xmlns", prefix |-> prefix, uri |-> uri]

\* Mutant of Declare: the new URI is stored for the way back.
DeclareForgets(enc, d) ==
    [enc EXCEPT !.state = Append(@, Xmlns(d[1], d[2])),
                !.prefixURI = Bind(@, d[1], d[2]),
                !.up = put(@, d[2], d[1])]

\* The attribute d that declares the prefix d[1] for the URI d[2].
Declare(enc, d) ==
    [enc EXCEPT !.state = Append(@, Xmlns(d[1], URIOf(enc, d[1]))),
                !.prefixURI = Bind(@, d[1], d[2]),
                !.up = put(@, d[2], d[1])]

\* The element, and each of its declarations in order.
setUpState(enc, name, decls) ==
    LET after[n \in 0..Len(decls)] ==
            IF n = 0 THEN [enc EXCEPT !.state = Append(@, Element(name))]
            ELSE Declare(after[n - 1], decls[n])
    IN after[Len(decls)]

\* Mutant of Undo: a prefix that had no URI keeps one, the empty one.
UndoKeepsPrefix(enc, s) ==
    LET uri == URIOf(enc, s.prefix) IN
    IF uri \notin DOMAIN enc.up \/ getLast(enc.up, uri) # s.prefix
    THEN [enc EXCEPT !.fatal = TRUE]
    ELSE [enc EXCEPT !.up = removeLast(@, uri), !.prefixURI[s.prefix] = s.uri]

\* One xmlns entry is unwound.
Undo(enc, s) ==
    LET uri == URIOf(enc, s.prefix) IN
    IF uri \notin DOMAIN enc.up \/ getLast(enc.up, uri) # s.prefix
    THEN [enc EXCEPT !.fatal = TRUE]
    ELSE [enc EXCEPT !.up = removeLast(@, uri),
                     !.prefixURI = IF s.uri = Absent THEN Restrict(@, DOMAIN @ \ {s.prefix})
                                   ELSE [@ EXCEPT ![s.prefix] = s.uri]]

\* Where the innermost element is that the state has, or 0.
Innermost(enc) ==
    CHOOSE i \in 0..Len(enc.state) :
        /\ i = 0 \/ enc.state[i].kind = "element"
        /\ \A j \in (i + 1)..Len(enc.state) : enc.state[j].kind # "element"

\* The entries above the innermost element are unwound, the last one first, and it is
\* dropped.
tearDownState(enc) ==
    LET i == Innermost(enc)
        top == Len(enc.state)
        after[n \in 0..(top - i)] ==
            IF n = 0 THEN enc ELSE Undo(after[n - 1], enc.state[top - n + 1])
    IN [after[top - i] EXCEPT !.state = SubSeq(@, 1, IF i = 0 THEN 0 ELSE i - 1)]

\* The prefix that is written for a name of the given Space.
translateName(enc, space) ==
    IF space = Absent THEN Absent
    ELSE IF space \in DOMAIN enc.up THEN getLast(enc.up, space)
    ELSE IF space \in DOMAIN enc.prefixURI THEN space
    ELSE Unknown

\* Mutant of Unbalanced: "||" in place of "&&".
UnbalancedStrict(enc, name) ==
    \/ Innermost(enc) = 0
    \/ LET sn == enc.state[Innermost(enc)].name
       IN name.local # sn.local \/ name.space # sn.space

\* writeEnd refuses an end tag only if both parts of its name differ.
Unbalanced(enc, name) ==
    \/ Innermost(enc) = 0
    \/ LET sn == enc.state[Innermost(enc)].name
       IN name.local # sn.local /\ name.space # sn.space
-----------------------------------------------------------------------------
(* Its use *)

vars == <<mode, parent, child, scope, names, styleable, own, children, wrote, tags, prefixed>>

\* The prefixes in force beneath a tag with these declarations.
Extend(sc, decls) ==
    LET after[n \in 0..Len(decls)] ==
            IF n = 0 THEN sc ELSE Bind(after[n - 1], decls[n][1], decls[n][2])
    IN after[Len(decls)]

Name(local, space) == [local |-> local, space |-> space]
Nothing == [prefix |-> Absent, uri |-> Absent, scope |-> Empty]
NoTag == [decls |-> << >>, prefix |-> Absent]

TypeOK ==
    /\ mode \in {"start", "res", "copy", "styleable", "done", "failed", "unbalanced"}
    /\ \A enc \in {parent, child} :
          /\ DOMAIN enc.prefixURI \subseteq KnownPrefixes
          /\ Range(enc.prefixURI) \subseteq KnownURIs
          /\ DOMAIN enc.up \subseteq KnownURIs
    /\ Len(names) <= MaxDepth /\ Len(scope) <= MaxDepth + 1
    /\ tags \in 0..MaxTags /\ prefixed \in BOOLEAN

Init ==
    /\ mode = "start"
    /\ parent = NewEncoder /\ child = NewEncoder
    /\ scope = << >> /\ names = << >>
    /\ styleable = FALSE /\ own = NoTag /\ children = << >>
    /\ wrote = Nothing /\ tags = 0 /\ prefixed = FALSE
-----------------------------------------------------------------------------
\* The outermost tag, whose attributes are collected; its name is exactly "resources".
Resources ==
    /\ mode = "start"
    /\ \E decls \in ResourcesDecls :
          /\ parent' = setUpState(parent, Name("resources", Absent), decls)
          /\ scope' = <<Extend(Empty, decls)>>
    /\ mode' = "res"
    /\ UNCHANGED <<child, names, styleable, own, children, wrote, tags, prefixed>>

\* The prefixes a name may have, and the Space the decoder gives it: a prefix that
\* is not bound stays as it is.
Usable(sc) == (IF UnboundNames THEN KnownPrefixes ELSE DOMAIN sc) \cup {Absent}
SpaceIn(sc, p) == IF p \in DOMAIN sc THEN sc[p] ELSE p
Means(sc, p) == IF p \in DOMAIN sc \cup {Absent} THEN SpaceIn(sc, p) ELSE Unbound

\* The Space of a tag's own name; the prefix p may be that of an attribute.
TagSpace(sc, p, ofTag) == IF ofTag THEN SpaceIn(sc, p) ELSE Absent

\* A tag beneath <resources>: the shadow encoder is given its start.
TopTag(decls, p, ofTag) ==
    LET sc == Extend(scope[1], decls) IN
    /\ mode = "res" /\ tags < MaxTags
    /\ p \in Usable(sc)
    /\ tags' = tags + 1
    /\ prefixed' = (prefixed \/ (ofTag /\ p # Absent))
    /\ parent' = setUpState(parent, Name("tag", TagSpace(sc, p, ofTag)), decls)

\* A tag of ResourcesChildToSkip, whose name has no prefix: dec.Skip() reads over its
\* end.
SkipTag(decls, p) ==
    /\ TopTag(decls, p, FALSE)
    /\ mode' = IF translateName(parent', SpaceIn(Extend(scope[1], decls), p)) = Unknown
               THEN "failed" ELSE mode
    /\ UNCHANGED <<child, scope, names, styleable, own, children, wrote>>

\* What the child encoder writes for a name with prefix p in the scope sc.
Write(enc, sc, p) ==
    LET w == translateName(enc, SpaceIn(sc, p)) IN
    /\ wrote' = [prefix |-> w, uri |-> Means(sc, p), scope |-> sc]
    /\ mode' = IF w = Unknown THEN "failed" ELSE "copy"

\* extractElement: a child encoder, given the start of the tag again.
ExtractElement(decls, p, ofTag) ==
    LET sc == Extend(scope[1], decls)
        name == Name("tag", TagSpace(sc, p, ofTag))
        enc == setUpState(ChildEncoder(parent'), name, decls)
    IN /\ TopTag(decls, p, ofTag)
       /\ child' = enc
       /\ Write(enc, sc, p)
       /\ scope' = Append(scope, sc)
       /\ names' = <<name>>
       /\ styleable' \in BOOLEAN
       /\ own' = [decls |-> decls, prefix |-> IF ofTag THEN wrote'.prefix ELSE Absent]
       /\ children' = << >>

\* copyTag: a start tag in the element.
CopyStart(decls, p, ofTag) ==
    LET sc == Extend(Last(scope), decls)
        name == Name("inner", TagSpace(sc, p, ofTag))
        enc == setUpState(child, name, decls)
    IN /\ mode = "copy" /\ Len(names) < MaxDepth
       /\ Len(names) = 1 => Len(children) < MaxChildren
       /\ p \in Usable(sc)
       /\ child' = enc
       /\ Write(enc, sc, p)
       /\ scope' = Append(scope, sc)
       /\ names' = Append(names, name)
       /\ children' = IF Len(names) = 1
                      THEN Append(children, [decls |-> decls, prefix |-> wrote'.prefix,
                                             ofTag |-> ofTag, uri |-> wrote'.uri])
                      ELSE children
       /\ UNCHANGED <<parent, styleable, own, tags, prefixed>>

\* writeEnd: the name is translated, the state unwound by one tag, whichever was the last,
\* and the name compared with that of the tag.
EndMode(enc, name, next) ==
    IF translateName(enc, name.space) = Unknown THEN "failed"
    ELSE IF Unbalanced(enc, name) THEN "unbalanced" ELSE next
Ended(enc, name) ==
    IF translateName(enc, name.space) = Unknown THEN enc ELSE tearDownState(enc)

\* copyTag: an end tag; the last one ends the payload.
CopyEnd ==
    /\ mode = "copy"
    /\ child' = Ended(child, Last(names))
    /\ names' = Front(names) /\ scope' = Front(scope)
    /\ mode' = EndMode(child, Last(names), IF Len(names) > 1 THEN "copy"
                                           ELSE IF styleable THEN "styleable" ELSE "res")
    /\ UNCHANGED <<parent, styleable, own, children, wrote, tags, prefixed>>

\* parseRes on the payload of a declare-styleable, which has its own decoder: a
\* child is a tag of the top level to the shadow encoder, and gets a payload.  The
\* decoder knows the declarations in the payload alone.
StyleableChild ==
    /\ mode = "styleable" /\ children # << >>
    /\ LET x == Head(children)
           inPayload == Extend(Extend(Empty, own.decls), x.decls)
           name == Name("child", TagSpace(inPayload, x.prefix, x.ofTag))
           enc == setUpState(parent, name, x.decls)
           w == translateName(setUpState(ChildEncoder(enc), name, x.decls),
                              SpaceIn(inPayload, x.prefix))
       IN /\ parent' = enc
          /\ wrote' = [prefix |-> w, uri |-> x.uri, scope |-> Extend(scope[1], x.decls)]
          /\ mode' = IF w = Unknown THEN "failed" ELSE mode
          /\ prefixed' = (prefixed \/ (x.ofTag /\ x.prefix # Absent))
    /\ children' = Tail(children)
    /\ UNCHANGED <<child, scope, names, styleable, own, tags>>

\* The end tag of the declare-styleable, and of <resources>, is encoded.
EndOf(name, next) ==
    /\ parent' = Ended(parent, name)
    /\ mode' = EndMode(parent, name, next)
    /\ UNCHANGED <<child, scope, names, styleable, own, children, wrote, tags, prefixed>>

StyleableEnd ==
    /\ mode = "styleable" /\ children = << >>
    /\ EndOf(Name("tag", SpaceIn(Extend(Empty, own.decls), own.prefix)), "res")
ResourcesEnd == mode = "res" /\ EndOf(Name("resources", Absent), "done")
-----------------------------------------------------------------------------
Tag == \E decls \in TagDecls, p \in KnownPrefixes \cup {Absent}, ofTag \in BOOLEAN :
          /\ p = Absent => ~ofTag
          /\ \/ ~ofTag /\ SkipTag(decls, p)
             \/ ExtractElement(decls, p, ofTag)
             \/ CopyStart(decls, p, ofTag)

Returned == mode \in {"done", "failed", "unbalanced"} /\ UNCHANGED vars

Next == Resources \/ Tag \/ CopyEnd \/ StyleableChild \/ StyleableEnd \/ ResourcesEnd
        \/ Returned

Spec == Init /\ [][Next]_vars
-----------------------------------------------------------------------------
(* Properties *)

\* The document never has a second prefix for the URI.
OnePrefix(uri) == \A d, e \in Decls : d[2] = uri /\ e[2] = uri => d[1] = e[1]

\* A name in a payload means in the archive what it means in the source, if the
\* payload or <resources> declares its URI at all and the URI has one prefix: the
\* prefix written for it is bound to that URI, whatever earlier tags left behind in
\* the shadow encoder.  The code relies on less ("there should never be more than a
\* single prefix defined for any given uri within at any point in time in an xml file",
\* marshal.go:287-289), which is not enough: a prefix that only an earlier tag had for
\* the URI is still the last one the encoder knows.
PayloadResolves ==
    mode # "failed" /\ OnePrefix(wrote.uri) /\ wrote.uri \in Range(wrote.scope) =>
        /\ wrote.prefix \in DOMAIN wrote.scope
        /\ wrote.scope[wrote.prefix] = wrote.uri

\* A file with well-formed namespaces is refused only if the name of a tag beneath
\* <resources> has a prefix, although the shadow encoder never sees the end of such a
\* tag ("verify that the tags are balanced"), and no state is ever corrupt: log.Fatalf
\* in tearDownState is out of reach.  Whatever prefixes a URI has, every name can be
\* written, also where a declare-styleable is decoded again without its surroundings.
NeverFails ==
    /\ mode # "failed" /\ ~parent.fatal /\ ~child.fatal
    /\ mode = "unbalanced" => prefixed

\* After a payload its encoder is where it began: every declaration in the element
\* is undone, also one that hides another; only a URI of which no prefix is left may keep
\* its empty one.
ChildRestored ==
    [][CopyEnd /\ Len(names) = 1 /\ mode' # "failed" =>
         /\ child'.state = << >> /\ child'.prefixURI = parent.prefixURI
         /\ \A uri \in DOMAIN child'.up :
               child'.up[uri] = IF uri \in DOMAIN parent.up THEN parent.up[uri]
                                ELSE <<Absent>>]_vars

\* What the test "NamespaceUsedOutsideOfDefinition" states of the shadow encoder
\* ("Verify parent Encoder is properly shadowing the xml file"): a name whose
\* prefix is declared by an earlier tag only is an error.
UsedOutsideRefused == wrote.uri = Unbound => mode = "failed"
=============================================================================
