---------------------------- MODULE MCBucketize ----------------------------
(***************************************************************************)
(* Two values files that differ in everything a parser can meet, and one   *)
(* drawable.  The document of each comes from a constant, so that one      *)
(* module serves a clean run and a run with an error.                      *)
(***************************************************************************)
EXTENDS Bucketize, ValuesDoc, TLC

CONSTANTS f1, f2, f3, p1, p2, a1, a2

It(kind, type, pkg, name, size, body, children) ==
    [kind |-> kind, type |-> type, pkg |-> pkg, name |-> name, size |-> size,
     body |-> body, children |-> children]
Res(type, name, size, body) == It("res", type, "res-auto", name, size, body, << >>)
Bad  == It("bad", "string", "res-auto", "x", 1, 1, << >>)
Skip == It("skip", "string", "res-auto", "x", 1, 1, << >>)
Doc(attrs, items, ends) ==
    [opens |-> TRUE, root |-> "resources", attrs |-> attrs, items |-> items,
     ends |-> ends]

\* One string twice, the second time longer.
DocLonger == Doc(<<a1, a2>>, <<Res("string", "n", 1, 1), Skip, Res("string", "n", 2, 2)>>, TRUE)
\* The string of DocLonger with another payload, and an id, which has no archive.
DocSame == Doc(<<a1>>, <<Res("string", "n", 1, 2), Res("id", "n", 1, 1)>>, TRUE)
\* An error inside a styleable of a styleable, and a file without one.
Styleable(name, children) == It("res", "styleable", "res-auto", name, 1, 1, children)
DocNested == Doc(<< >>, <<Styleable("s", <<Styleable("t", <<Bad, Skip>>)>>)>>, TRUE)
DocPlain == Doc(<<a2>>, <<Res("string", "n", 1, 1)>>, TRUE)

MCResFiles == <<f1, f3, f2>>
FaultyFiles == <<f1, f2>>
MCType == (f1 :> "values") @@ (f2 :> "values") @@ (f3 :> "drawable")
MCIsValues == (f1 :> TRUE) @@ (f2 :> TRUE) @@ (f3 :> FALSE)
MCParsers == {p1, p2}
MCTypedOutput == [string |-> 2, attr |-> 1, styleable |-> 1, drawable |-> 1]
Sends(d1, d2) == [f \in {f1, f2} |-> syncParse(IF f = f1 THEN d1 ELSE d2)]

CleanSends == Sends(DocLonger, DocSame)
FaultySends == Sends(DocNested, DocPlain)
=============================================================================
