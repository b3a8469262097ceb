------------------------------- MODULE Compile -------------------------------
(***************************************************************************)
(* The command compile, tools/ak/compile/compile.go: the directories of a  *)
(* resource bucket that aapt2 cannot parse are renamed, one after another, *)
(* and aapt2 compiles the bucket.                                          *)
(*                                                                         *)
(* A bucket maps the names of its directories to the sets of their files.  *)
(* A name is <<type, qualifier>>.                                          *)
(***************************************************************************)
EXTENDS Naturals, Sequences

CONSTANT CompileCalls    \* the calls: records [in, bucket, ioFails, aaptFails]

VARIABLES
    call,        \* in: "none", "dir", "zip", or "file", of which the bucket is around it
    phase,       \* "idle", "sanitize", "compile", "ok" or "error"
    dirs,        \* dirs[name]: the files there
    todo,        \* the directories read that are not yet looked at
    compiled     \* what aapt2 was given, or << >>

vars == <<call, phase, dirs, todo, compiled>>

NoCall == [in |-> "none", bucket |-> << >>, ioFails |-> FALSE, aaptFails |-> FALSE]

TypeOK ==
    /\ call \in CompileCalls \cup {NoCall}
    /\ phase \in {"idle", "sanitize", "compile", "ok", "error"}
    /\ todo \subseteq DOMAIN call.bucket

Init ==
    /\ call = NoCall /\ phase = "idle" /\ dirs = << >> /\ todo = {} /\ compiled = << >>

\* Without a flag, or if an archive cannot be unzipped, the process ends.
Run ==
    /\ phase = "idle" /\ call' \in CompileCalls
    /\ phase' \in (IF call'.in = "none" THEN {"error"}
                   ELSE IF call'.ioFails THEN {"sanitize", "error"} ELSE {"sanitize"})
    /\ dirs' = call'.bucket /\ todo' = DOMAIN call'.bucket
    /\ UNCHANGED compiled

Replaced(qualifier) ==
    IF qualifier = "sr-rLatn" THEN "b+sr+Latn"
    ELSE IF qualifier = "es-419" THEN "b+es+419" ELSE qualifier
dirReplacer(name) == <<name[1], Replaced(name[2])>>

\* Mutant of CanRename: what is there is replaced.
CanAlwaysRename(to) == TRUE

\* A directory is not renamed to one that there is, empty or not.
CanRename(to) == to \notin DOMAIN dirs

Keep ==
    /\ phase = "sanitize"
    /\ \E name \in todo : dirReplacer(name) = name /\ todo' = todo \ {name}
    /\ UNCHANGED <<call, phase, dirs, compiled>>

Rename ==
    /\ phase = "sanitize"
    /\ \E name \in todo : LET to == dirReplacer(name) IN
          /\ to # name /\ CanRename(to)
          /\ dirs' = [n \in (DOMAIN dirs \ {name}) \cup {to} |->
                        dirs[IF n = to THEN name ELSE n]]
          /\ todo' = todo \ {name}
    /\ UNCHANGED <<call, phase, compiled>>

RenameFails ==
    /\ phase = "sanitize"
    /\ \E name \in todo : LET to == dirReplacer(name) IN
          to # name /\ (call.ioFails \/ ~CanRename(to))
    /\ phase' = "error"
    /\ UNCHANGED <<call, dirs, todo, compiled>>

Sanitized ==
    /\ phase = "sanitize" /\ todo = {}
    /\ phase' = "compile"
    /\ UNCHANGED <<call, dirs, todo, compiled>>

aapt2 ==
    /\ phase = "compile"
    /\ phase' = IF call.aaptFails THEN "error" ELSE "ok"
    /\ compiled' = dirs
    /\ UNCHANGED <<call, dirs, todo>>

Next == Run \/ Keep \/ Rename \/ RenameFails \/ Sanitized \/ aapt2
-----------------------------------------------------------------------------
(* Properties *)

Files(bucket) == UNION {{<<dirReplacer(n), f>> : f \in bucket[n]} : n \in DOMAIN bucket}

\* aapt2 is given each file of the bucket, in a directory of a name that it parses.
\* A failure on the way leaves the bucket with some of its directories renamed, and
\* each file once.
CompileRight ==
    /\ phase = "ok" => /\ \A n \in DOMAIN compiled : dirReplacer(n) = n
                       /\ Files(compiled) = Files(call.bucket)
    /\ phase # "idle" =>
         /\ Files(dirs) = Files(call.bucket)
         /\ \A n \in DOMAIN dirs : n \notin DOMAIN call.bucket =>
               \E m \in DOMAIN call.bucket : dirReplacer(m) = n /\ dirs[n] = call.bucket[m]
=============================================================================
