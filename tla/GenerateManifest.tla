-------------------------- MODULE GenerateManifest --------------------------
(***************************************************************************)
(* The command generatemanifest, tools/ak/generatemanifest: a goroutine    *)
(* for each manifest sends its minSdkVersion on a buffered channel, and    *)
(* the maximum of them and of the flag is written.                         *)
(*                                                                         *)
(* A manifest is [kind, v]: "bad" if it cannot be read, "placeholder" if   *)
(* its minSdkVersion is no number, or "value".                             *)
(***************************************************************************)
EXTENDS Integers, Sequences, FiniteSets, FiniteSetsExt, SequencesExt

CONSTANT ManifestCalls   \* the calls: records [manifests, minSdk, ioFails]

VARIABLES
    call,        \* the call
    phase,       \* "idle", "start", "wait", "collect", "ok" or "error"
    at,          \* at[m]: "parse", "sent" or "done"
    results,     \* the channel, [minSdk, err] in the order they were sent
    written      \* the minSdkVersion written

vars == <<call, phase, at, results, written>>

NoCall == [manifests |-> << >>, minSdk |-> 0, ioFails |-> FALSE]
Running == phase \notin {"idle", "ok", "error"}

TypeOK ==
    /\ call \in ManifestCalls \cup {NoCall}
    /\ phase \in {"idle", "start", "wait", "collect", "ok", "error"}
    /\ \A m \in DOMAIN at : at[m] \in {"parse", "sent", "done"}
    /\ Len(results) <= Len(call.manifests)
    /\ \A i \in DOMAIN results : results[i].err => results[i].minSdk = 0

Init ==
    /\ call = NoCall /\ phase = "idle" /\ at = << >>
    /\ results = << >> /\ written = 0

Run ==
    /\ phase = "idle"
    /\ call' \in ManifestCalls /\ phase' = "start"
    /\ UNCHANGED <<at, results, written>>

Fails ==
    /\ call.ioFails /\ phase \in {"start", "collect"}
    /\ phase' = "error"
    /\ UNCHANGED <<call, at, results, written>>

Open ==
    /\ phase = "start" /\ phase' = "wait"
    /\ at' = [m \in DOMAIN call.manifests |-> "parse"]
    /\ UNCHANGED <<call, results, written>>

extractMinSdkFromManifest(m) ==
    [minSdk |-> IF m.kind = "value" THEN m.v ELSE 0, err |-> m.kind = "bad"]

\* Mutant of Capacity: the channel is not buffered, and nobody receives yet.
CapacityNone == 0

\* make(chan result, len(manifests)).
Capacity == Len(call.manifests)

Send(m) ==
    /\ at[m] = "parse" /\ Len(results) < Capacity
    /\ results' = Append(results, extractMinSdkFromManifest(call.manifests[m]))
    /\ at' = [at EXCEPT ![m] = "sent"]
    /\ UNCHANGED <<call, phase, written>>

Done(m) ==
    /\ at[m] = "sent"
    /\ at' = [at EXCEPT ![m] = "done"]
    /\ UNCHANGED <<call, phase, results, written>>

\* Mutant of WaitReturns: wg.Add(1) for all goroutines.
WaitReturnsOne ==
    /\ phase = "wait" /\ at # << >> /\ \E m \in DOMAIN at : at[m] = "done"
    /\ phase' = "collect"
    /\ UNCHANGED <<call, at, results, written>>

\* wg.Wait() and close(results).
WaitReturns ==
    /\ phase = "wait" /\ \A m \in DOMAIN at : at[m] = "done"
    /\ phase' = "collect"
    /\ UNCHANGED <<call, at, results, written>>

\* The first result with an error, or 0.
FirstError == SelectInSeq(results, LAMBDA r : r.err)

ReturnsError ==
    /\ phase = "collect" /\ FirstError # 0
    /\ phase' = "error"
    /\ UNCHANGED <<call, at, results, written>>

\* max of the flag and the first i results.
minSdk[i \in 0..Len(results)] ==
    IF i = 0 THEN call.minSdk
    ELSE IF minSdk[i - 1] < results[i].minSdk THEN results[i].minSdk ELSE minSdk[i - 1]

writeManifest ==
    /\ phase = "collect" /\ FirstError = 0
    /\ written' = minSdk[Len(results)]
    /\ phase' = "ok"
    /\ UNCHANGED <<call, at, results>>

extract == \E m \in DOMAIN at : Send(m) \/ Done(m)

Next == \/ Run \/ Fails \/ Open \/ extract \/ WaitReturns \/ ReturnsError
        \/ writeManifest
-----------------------------------------------------------------------------
(* Properties *)

\* What is written is the maximum of all numbers and the flag, in any order of the
\* goroutines ("taking the max value found between the manifests and the minsdk
\* flag"); a manifest that cannot be read makes the command fail.
MaxWritten ==
    phase = "ok" =>
        LET OfKind(k) == {m \in Range(call.manifests) : m.kind = k}
        IN /\ OfKind("bad") = {}
           /\ written = Max({call.minSdk} \cup {m.v : m \in OfKind("value")}
                                          \cup {0 : m \in OfKind("placeholder")})

=============================================================================
