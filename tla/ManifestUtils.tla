---------------------------- MODULE ManifestUtils ----------------------------
(***************************************************************************)
(* manifestutils.go: the attributes of the elements of an                  *)
(* AndroidManifest.xml are replaced or added.                              *)
(*                                                                         *)
(* The attributes of an element are a function from <<space, local>> to    *)
(* values.  A document is [elems, android, broken]: its elements [name,    *)
(* attrs] in the order of the start tags, whether the first one declares   *)
(* the namespace, and whether it is cut off behind the last.  What is to   *)
(* be patched is, for names of elements, a function from local names to    *)
(* [space, value]; an argument is a sequence of parts.                     *)
(***************************************************************************)
EXTENDS Naturals, Sequences

NameSpace == "android"
ElemManifest == "manifest"
NoNSAttrs == {"package", "split", "featureName"}

Arguments(attr) == \A i \in DOMAIN attr : Len(attr[i]) >= 3

\* f with the value v for x.
Put(f, x, v) == [y \in DOMAIN f \cup {x} |-> IF y = x THEN v ELSE f[y]]

Set(patchElems, elem, attr, space, value) ==
    LET attrs == IF elem \in DOMAIN patchElems THEN patchElems[elem] ELSE << >>
    IN Put(patchElems, elem, Put(attrs, attr, [space |-> space, value |-> value]))

SpaceOf(elem, attr) == IF elem = ElemManifest /\ attr \in NoNSAttrs THEN "" ELSE NameSpace

\* Of an argument with more parts the third one is the value.
SetArgument(patchElems, a) == Set(patchElems, a[1], a[2], SpaceOf(a[1], a[2]), a[3])
CreatePatchElements(attr) ==
    LET elems[n \in 0..Len(attr)] == IF n = 0 THEN << >> ELSE SetArgument(elems[n - 1], attr[n])
    IN elems[Len(attr)]

Names(attrs) == {<<attrs[l].space, l>> : l \in DOMAIN attrs}

\* The attributes of an element with those to set, replaced or added.
Patched(e, patchElems) ==
    IF e.name \notin DOMAIN patchElems THEN e.attrs
    ELSE LET attrs == patchElems[e.name]
         IN [n \in Names(attrs) \cup DOMAIN e.attrs |->
                IF n \in Names(attrs) THEN attrs[n[2]].value ELSE e.attrs[n]]

\* The start tag of an element with a name in a namespace that is not declared is
\* lost with the error of EncodeToken; its end tag is written.
Encoded(doc, e, attrs) ==
    [name |-> e.name, attrs |-> attrs,
     start |-> doc.android \/ \A n \in DOMAIN attrs : n[1] # NameSpace]

\* What is written, up to where the document is cut off.
Patch(doc, patchElems) ==
    [i \in DOMAIN doc.elems |->
        Encoded(doc, doc.elems[i], Patched(doc.elems[i], patchElems))]
-----------------------------------------------------------------------------
(* What is asked of the attributes *)

\* The arguments for an attribute of an element; the last one of them counts.
Asked(attr, elem, local) == {i \in DOMAIN attr : attr[i][1] = elem /\ attr[i][2] = local}
LocalsAsked(attr, elem) == {attr[i][2] : i \in {i \in DOMAIN attr : attr[i][1] = elem}}
Latest(attr, elem, local) ==
    CHOOSE i \in Asked(attr, elem, local) : \A j \in Asked(attr, elem, local) : j <= i
ValueAsked(attr, elem, local) == attr[Latest(attr, elem, local)][3]

\* The attributes old of an element with those asked of it.
WithAsked(attr, elem, old) ==
    LET asked == {<<SpaceOf(elem, l), l>> : l \in LocalsAsked(attr, elem)}
    IN [n \in asked \cup DOMAIN old |-> IF n \in asked THEN ValueAsked(attr, elem, n[2]) ELSE old[n]]
=============================================================================
