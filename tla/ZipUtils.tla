------------------------------ MODULE ZipUtils ------------------------------
(***************************************************************************)
(* common/golang/ziputils.go, fileutils.go and walk.go as functions: a     *)
(* directory maps names to bodies, an archive is a sequence of             *)
(* [name, body].                                                           *)
(***************************************************************************)
EXTENDS Naturals, Sequences, FiniteSets

CONSTANT NameBefore(_, _)     \* "<" on names

\* Copy, and the write of one entry by Unzip: a file that exists is overwritten.
Put(dir, name, body) ==
    [n \in DOMAIN dir \cup {name} |-> IF n = name THEN body ELSE dir[n]]

\* Of the entries of one name the last one is there in the end.
LastOf(zip, name) ==
    CHOOSE i \in DOMAIN zip : /\ zip[i].name = name
                              /\ \A j \in DOMAIN zip : zip[j].name = name => j <= i
Unzip(dir, zip) ==
    LET names == {zip[i].name : i \in DOMAIN zip}
    IN [n \in DOMAIN dir \cup names |-> IF n \in names THEN zip[LastOf(zip, n)].body ELSE dir[n]]

\* The files of a directory in the order of filepath.Walk, as WriteFile adds them;
\* each name has its place, the number of those before it and one.
Place(dir, name) == Cardinality({m \in DOMAIN dir : NameBefore(m, name)}) + 1
ZipDir(dir) ==
    [i \in 1..Cardinality(DOMAIN dir) |->
        LET n == CHOOSE n \in DOMAIN dir : Place(dir, n) = i
        IN [name |-> n, body |-> dir[n]]]
=============================================================================
