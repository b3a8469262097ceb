------------------------------ MODULE ValuesDoc ------------------------------
(***************************************************************************)
(* What a bucketize parser sends for one file of a values directory, in    *)
(* the order it sends it: syncParse, syncParseReader and parseRes of       *)
(* bucketize/bucketize.go as a function of the document.                   *)
(*                                                                         *)
(* A document is a record                                                  *)
(*   opens   os.Open succeeds                                              *)
(*   root    "resources" if a <resources> tag is reached, "none" if the    *)
(*           file ends before, "torn" if a token before it is malformed    *)
(*   attrs   the attributes of that tag, a sequence                        *)
(*   items   the children of that tag, a sequence                          *)
(*   ends    </resources> is reached (FALSE: a token after the last item   *)
(*           is malformed)                                                 *)
(* and an item is a record whose kind is                                   *)
(*   "skip"  a tag of res.ResourcesChildToSkip                             *)
(*   "bad"   extractFQN or extractElement fails on it                      *)
(*   "res"   a resource with type, pkg, name, size and body (its payload   *)
(*           is known by its length and, among equal lengths, by its body) *)
(* and whose children are the items of a declare-styleable, else << >>.    *)
(***************************************************************************)
EXTENDS Sequences, SequencesExt, Naturals

Attribute(a) == [ch |-> "ra", attr |-> a]
Failure      == [ch |-> "err"]
Value(it)    == [ch |-> "vr", type |-> it.type, pkg |-> it.pkg,
                 name |-> it.name, size |-> it.size, body |-> it.body]

\* parseRes over the items of one level, of which item j sends sent[j]: every
\* item before the first bad one is sent; a bad item, or a malformed token where
\* the end tag should be, sends one error and ends this level.
parseRes(items, ends, sent) ==
    LET bad  == {j \in DOMAIN items : items[j].kind = "bad"}
        stop == IF bad = {} THEN Len(items) + 1 ELSE Min(bad)
    IN FlattenSeq([j \in 1..(stop - 1) |-> sent[j]])
         \o (IF bad = {} /\ ends THEN << >> ELSE <<Failure>>)

\* A tag to skip sends nothing, a resource sends its value.  Behind the value of a
\* declare-styleable its payload is parsed as one more level, at any depth.  That
\* payload is a whole element, so its end tag is always there; an error in it
\* leaves the outer level parsing.
RECURSIVE SendItem(_)
SendItem(it) ==
    CASE it.kind = "skip" -> << >>
      [] it.type # "styleable" -> <<Value(it)>>
      [] OTHER -> <<Value(it)>> \o parseRes(it.children, TRUE,
                     [j \in DOMAIN it.children |-> SendItem(it.children[j])])

\* syncParseReader: the attributes of the first <resources>, then its children;
\* a file without that tag sends nothing.
syncParseReader(doc) ==
    CASE doc.root = "none" -> << >>
      [] doc.root = "torn" -> <<Failure>>
      [] OTHER -> [j \in DOMAIN doc.attrs |-> Attribute(doc.attrs[j])]
                    \o parseRes(doc.items, doc.ends,
                           [j \in DOMAIN doc.items |-> SendItem(doc.items[j])])

syncParse(doc) == IF doc.opens THEN syncParseReader(doc) ELSE <<Failure>>
=============================================================================
