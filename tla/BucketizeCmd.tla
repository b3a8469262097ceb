----------------------------- MODULE BucketizeCmd -----------------------------
(***************************************************************************)
(* The command bucketize around the Archiver, bucketize/bucketize.go: the  *)
(* outputs are created, emptied if they exist, before the resource paths   *)
(* are looked at.                                                          *)
(*                                                                         *)
(* A typed output is a resource type, or "malformed" without ":", or       *)
(* "unknown" with a type that ParseType refuses.  A resource path is "ok", *)
(* "dot" or "bad" for MakePathInfos.                                       *)
(***************************************************************************)
EXTENDS Naturals, Sequences, FiniteSets, SequencesExt

CONSTANT BucketizeCalls  \* the calls: records [typedOutputs, resFiles, ioFails]

VARIABLES
    call,
    phase,       \* "idle", "outputs", "paths", "archive", "ok" or "error"
    todo,        \* the typed outputs to create
    partitions   \* partitions[t]: how many outputs of type t are open, and empty

vars == <<call, phase, todo, partitions>>

NoCall == [typedOutputs |-> << >>, resFiles |-> << >>, ioFails |-> FALSE]

\* The outputs that are open, by type and number.
Outputs == UNION {{t} \X (0..(partitions[t] - 1)) : t \in DOMAIN partitions}

TypeOK ==
    /\ call \in BucketizeCalls \cup {NoCall}
    /\ phase \in {"idle", "outputs", "paths", "archive", "ok", "error"}
    /\ LET done == Len(call.typedOutputs) - Len(todo) IN
          /\ todo = SubSeq(call.typedOutputs, done + 1, Len(call.typedOutputs))
          /\ Cardinality(Outputs) = done

Init == call = NoCall /\ phase = "idle" /\ todo = << >> /\ partitions = << >>

\* A flag that is missing ends the process; walk.Files may, too.
Run ==
    /\ phase = "idle"
    /\ call' \in BucketizeCalls /\ todo' = call'.typedOutputs
    /\ phase' \in (IF call'.typedOutputs = << >> \/ call'.resFiles = << >> THEN {"error"}
                   ELSE IF call'.ioFails THEN {"outputs", "error"} ELSE {"outputs"})
    /\ UNCHANGED partitions

Creating == phase = "outputs" /\ todo # << >>
IsOutput(o) == o \notin {"malformed", "unknown"}

createPartition ==
    /\ Creating /\ IsOutput(todo[1])
    /\ LET n == IF todo[1] \in DOMAIN partitions THEN partitions[todo[1]] ELSE 0
       IN partitions' = [t \in DOMAIN partitions \cup {todo[1]} |->
                            IF t = todo[1] THEN n + 1 ELSE partitions[t]]
    /\ todo' = Tail(todo)
    /\ UNCHANGED <<call, phase>>

createPartitionFails ==
    /\ Creating /\ (~IsOutput(todo[1]) \/ call.ioFails)
    /\ phase' = "error"
    /\ UNCHANGED <<call, todo, partitions>>

makePartitionSession ==
    /\ phase = "outputs" /\ todo = << >>
    /\ phase' = "paths"
    /\ UNCHANGED <<call, todo, partitions>>

\* MakePathInfos has no place for a path that is no resource.
makeArchiver ==
    /\ phase = "paths"
    /\ phase' = IF "bad" \in ToSet(call.resFiles) THEN "error" ELSE "archive"
    /\ UNCHANGED <<call, todo, partitions>>

\* Archive returns with what closed the session, or fails before it gets there.
ArchiveReturns(closed) ==
    /\ phase = "archive" /\ closed \in {"ok", "error"}
    /\ phase' = closed
    /\ UNCHANGED <<call, todo, partitions>>

ArchiveFails ==
    /\ phase = "archive" /\ call.ioFails
    /\ phase' = "error"
    /\ UNCHANGED <<call, todo, partitions>>

Next == \/ Run \/ createPartition \/ createPartitionFails \/ makePartitionSession
        \/ makeArchiver \/ ArchiveFails
=============================================================================
