--------------------------------- MODULE Link ---------------------------------
(***************************************************************************)
(* The command link, tools/ak/link/link.go: aapt2 links the resource       *)
(* archives found under the given paths and writes R.java files, which are *)
(* put into the source jar.                                                *)
(***************************************************************************)
EXTENDS Naturals, Sequences, SequencesExt

CONSTANTS
    LinkCalls,           \* the calls: records [flags, seen, ioFails, aaptFails, rjava]
    NameBefore(_, _)     \* "<" on names

VARIABLES
    call,        \* seen: what the walks of the paths see, one after another;
                 \* rjava: what aapt2 writes
    phase,       \* "idle", "walk", "aapt2", "zip", "ok" or "error"
    args,        \* the archives that aapt2 is given, later ones overlay earlier ones
    srcJar       \* the entries of the source jar, or << >>

vars == <<call, phase, args, srcJar>>

Z == INSTANCE ZipUtils

NoCall == [flags |-> FALSE, seen |-> << >>, ioFails |-> FALSE, aaptFails |-> FALSE,
           rjava |-> << >>]

TypeOK ==
    /\ call \in LinkCalls \cup {NoCall}
    /\ phase \in {"idle", "walk", "aapt2", "zip", "ok", "error"}
    /\ ToSet(args) \subseteq ToSet(call.seen)

Init == call = NoCall /\ phase = "idle" /\ args = << >> /\ srcJar = << >>

Run ==
    /\ phase = "idle" /\ call' \in LinkCalls
    /\ phase' = IF call'.flags THEN "walk" ELSE "error"
    /\ UNCHANGED <<args, srcJar>>

\* walk.Files: the first n files that the walks see, each once.
files[n \in 0..Len(call.seen)] ==
    IF n = 0 THEN << >>
    ELSE IF call.seen[n] \in ToSet(files[n - 1]) THEN files[n - 1]
    ELSE Append(files[n - 1], call.seen[n])

Walk ==
    /\ phase = "walk" /\ phase' = "aapt2"
    /\ args' = files[Len(call.seen)]
    /\ UNCHANGED <<call, srcJar>>

aapt2 ==
    /\ phase = "aapt2" /\ ~call.aaptFails
    /\ phase' = "zip"
    /\ UNCHANGED <<call, args, srcJar>>

ZipSources ==
    /\ phase = "zip" /\ phase' = "ok"
    /\ srcJar' = Z!ZipDir(call.rjava)
    /\ UNCHANGED <<call, args>>

\* The error of the deferred Close is lost: a jar without its directory has no entries.
ZipSourcesCut ==
    /\ phase = "zip" /\ call.ioFails
    /\ phase' = "ok"
    /\ UNCHANGED <<call, args, srcJar>>

Fails ==
    /\ \/ call.ioFails /\ phase \in {"walk", "zip"}
       \/ phase = "aapt2" /\ call.aaptFails
    /\ phase' = "error"
    /\ UNCHANGED <<call, args, srcJar>>

Next == Run \/ Walk \/ aapt2 \/ ZipSources \/ ZipSourcesCut \/ Fails
-----------------------------------------------------------------------------
(* Properties *)

\* aapt2 is given each archive once, where a path first brings it, so that overlays
\* keep their order; and success means a jar of all that aapt2 wrote, unless the write of
\* its directory failed.
LinkRight ==
    /\ phase \in {"aapt2", "zip", "ok"} =>
         /\ ToSet(args) = ToSet(call.seen)
         /\ \A i, j \in DOMAIN args : i < j =>
              \E k \in DOMAIN call.seen : /\ call.seen[k] = args[i]
                                         /\ \A l \in 1..k : call.seen[l] # args[j]
    /\ phase = "ok" => \/ {e.name : e \in ToSet(srcJar)} = DOMAIN call.rjava
                       \/ call.ioFails /\ srcJar = << >>
=============================================================================
