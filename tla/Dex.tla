-------------------------------- MODULE Dex --------------------------------
(***************************************************************************)
(* The command dex, tools/ak/dex/dex.go, with shard.ZipShard: the input is *)
(* desugared and dexed by other programs, and the dex files are sharded    *)
(* across the outputs.                                                     *)
(*                                                                         *)
(* A dex file is [name, dex, regular]: its name without ".dex" as a        *)
(* sequence of symbols, whether it ends in ".dex", whether it is a file.   *)
(***************************************************************************)
EXTENDS Naturals, Sequences, SequencesExt, FiniteSetsExt

CONSTANTS
    DexCalls,    \* the calls: records [sc, badFlags, code, desugar, dexed, ioFails]
    FNV(_, _)    \* the hash of a name modulo the number of shards

VARIABLES
    call,        \* sc: the number of outputs; dexed: what d8 makes of the input
    phase,       \* "idle", "start", "desugar", "dex", "create", "shard", "close",
                 \* "empty", "ok" or "error"
    next,        \* the dex file that is sharded next
    outs,        \* the outputs: [state, files]
    failed       \* zipShard returns an error

vars == <<call, phase, next, outs, failed>>

NoCall == [sc |-> 0, badFlags |-> FALSE, code |-> FALSE, desugar |-> FALSE,
           dexed |-> << >>, ioFails |-> FALSE]
Running == phase \notin {"idle", "ok", "error"}
Absent == [state |-> "absent", files |-> << >>]

TypeOK ==
    /\ call \in DexCalls \cup {NoCall}
    /\ phase \in {"idle", "start", "desugar", "dex", "create", "shard", "close", "empty",
                  "ok", "error"}
    /\ next \in 1..(Len(call.dexed) + 1) /\ failed \in BOOLEAN
    /\ \A i \in DOMAIN outs : outs[i].state \in {"absent", "open", "closed", "cut"}

Init ==
    /\ call = NoCall /\ phase = "idle" /\ next = 1
    /\ outs = << >> /\ failed = FALSE

Run ==
    /\ phase = "idle"
    /\ call' \in DexCalls /\ phase' = "start"
    /\ outs' = [i \in 1..call'.sc |-> Absent]
    /\ UNCHANGED <<next, failed>>

Go(from, to) == phase = from /\ phase' = to

\* log.Fatal: the deferred calls are not made.
Fatal ==
    /\ \/ phase = "start" /\ call.badFlags
       \/ phase \in {"start", "desugar", "dex", "empty"} /\ call.ioFails
    /\ phase' = "error"
    /\ UNCHANGED <<call, next, outs, failed>>

hasCode ==
    /\ ~call.badFlags
    /\ Go("start", IF ~call.code THEN "empty" ELSE IF call.desugar THEN "desugar" ELSE "dex")
    /\ UNCHANGED <<call, next, outs, failed>>

desugarJar == Go("desugar", "dex") /\ UNCHANGED <<call, next, outs, failed>>

\* With one output, d8 writes it.
DexToOutput ==
    /\ call.sc = 1 /\ Go("dex", "ok")
    /\ outs' = <<[state |-> "closed", files |-> call.dexed]>>
    /\ UNCHANGED <<call, next, failed>>

DexToShard ==
    /\ call.sc > 1 /\ Go("dex", "create")
    /\ UNCHANGED <<call, next, outs, failed>>

FirstAbsent == Min({i \in DOMAIN outs : outs[i].state = "absent"})

EmptyZip ==
    /\ phase = "empty"
    /\ outs' = [outs EXCEPT ![FirstAbsent].state = "closed"]
    /\ phase' = IF FirstAbsent = call.sc THEN "ok" ELSE phase
    /\ UNCHANGED <<call, next, failed>>
-----------------------------------------------------------------------------
(* zipShard *)

Create ==
    /\ phase = "create"
    /\ outs' = [outs EXCEPT ![FirstAbsent].state = "open"]
    /\ phase' = IF FirstAbsent = call.sc THEN "shard" ELSE phase
    /\ UNCHANGED <<call, next, failed>>

File == call.dexed[next]
Sharding == phase = "shard" /\ next <= Len(call.dexed)

UpTo(name, marks) ==
    LET at == {i \in DOMAIN name : name[i] \in marks}
    IN IF at = {} THEN name ELSE SubSeq(name, 1, Min(at) - 1)

\* Mutant of Context: only what is behind a "$" is cut off.
ContextOfInner(name) == UpTo(name, {"$"})

\* shardFn hashes the name up to the first "$" or "-".
Context(name) == UpTo(name, {"$", "-"})
shardFn(f) == FNV(Context(f.name), call.sc) + 1

\* log.Fatalf in shardFn, with the outputs open.
NoDexFile ==
    /\ Sharding /\ File.regular /\ ~File.dex
    /\ phase' = "error"
    /\ UNCHANGED <<call, next, outs, failed>>

SkipFile ==
    /\ Sharding /\ ~File.regular
    /\ next' = next + 1
    /\ UNCHANGED <<call, phase, outs, failed>>

ToShard == outs' = [outs EXCEPT ![shardFn(File)].files = Append(@, File)]

ShardFile ==
    /\ Sharding /\ File.regular /\ File.dex /\ ToShard
    /\ next' = next + 1
    /\ UNCHANGED <<call, phase, failed>>

\* A return with an error, which may leave an entry that is begun; the outputs that
\* are open are closed.
ShardFails ==
    /\ phase \in {"create", "shard"} /\ call.ioFails
    /\ failed' = TRUE /\ phase' = "close"
    /\ outs' = outs \/ (Sharding /\ File.regular /\ File.dex /\ ToShard)
    /\ UNCHANGED <<call, next>>

ShardDone ==
    /\ phase = "shard" /\ next > Len(call.dexed)
    /\ phase' = "close"
    /\ UNCHANGED <<call, next, outs, failed>>

LastOpen == SelectLastInSeq(outs, LAMBDA o : o.state = "open")

\* The deferred calls, the last first; what they return is lost.
CloseOut ==
    /\ phase = "close" /\ LastOpen # 0
    /\ outs' = [outs EXCEPT ![LastOpen].state = "closed"]
    /\ UNCHANGED <<call, phase, next, failed>>

CloseOutFails ==
    /\ phase = "close" /\ LastOpen # 0 /\ call.ioFails
    /\ outs' = [outs EXCEPT ![LastOpen].state = "cut"]
    /\ UNCHANGED <<call, phase, next, failed>>

Return ==
    /\ LastOpen = 0 /\ Go("close", IF failed THEN "error" ELSE "ok")
    /\ UNCHANGED <<call, next, outs, failed>>

zipShard == \/ Create \/ ShardFails \/ NoDexFile \/ SkipFile \/ ShardFile \/ ShardDone
            \/ CloseOut \/ CloseOutFails \/ Return

Next == \/ Run \/ Fatal \/ hasCode \/ desugarJar \/ DexToOutput \/ DexToShard \/ EmptyZip
        \/ zipShard
-----------------------------------------------------------------------------
(* Properties *)

Regular == {n \in DOMAIN call.dexed : call.dexed[n].regular}

\* The files of the output i are those of the positions P, in order.
Holds(i, P) ==
    \E at \in [DOMAIN outs[i].files -> P] :
        /\ \A n \in P : \E k \in DOMAIN at : at[k] = n
        /\ \A k, l \in DOMAIN at : k < l => at[k] < at[l]
        /\ \A k \in DOMAIN at : outs[i].files[k] = call.dexed[at[k]]

\* Success means that every output is there, whichever way it went, and that every
\* dex file went to one of them, in order.
Partitioned ==
    phase = "ok" =>
        /\ \A i \in DOMAIN outs : outs[i].state # "absent"
        /\ call.code /\ call.sc > 1 =>
             \E shard \in [Regular -> DOMAIN outs] :
                 \A i \in DOMAIN outs : Holds(i, {n \in Regular : shard[n] = i})

\* A class, its inner classes and their synthetics are in one output, at every
\* moment ("a class and all its inner classes are placed in the same shard").
InnerTogether ==
    \A i, j \in DOMAIN outs :
        \A f \in Range(outs[i].files), g \in Range(outs[j].files) :
            (\E mark \in {"$", "-"} : IsPrefix(Append(f.name, mark), g.name)) => i = j
=============================================================================
