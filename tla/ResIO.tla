-------------------------------- MODULE ResIO --------------------------------
(***************************************************************************)
(* ResInput.Produce and ResOutput.Consume of respipe/res_io.go: resources  *)
(* are read, each behind its length, into a channel, and written from one. *)
(* In one use the first feeds the second and the caller selects on their   *)
(* errors; in the other, "direct", the caller itself sends the resources,  *)
(* selecting on the errors of Consume (as the tests do).                   *)
(*                                                                         *)
(* A record is "ok", "unencodable" (only a direct one can be), or one that *)
(* cannot be read: "tornLen", "tornData", "badProto".  What is written of  *)
(* record k is the units <<k, "len">> and <<k, "data">>.                   *)
(***************************************************************************)
EXTENDS Naturals, Sequences, SequencesExt

CONSTANTS
    ResInputs,      \* records [recs, direct, stops, writeFails]: the records, whether
                    \* the caller returns at the first error, whether writes may fail
    BufSize         \* units the bufio.Writer holds

VARIABLES
    input,
    at,             \* the next record
    producer,       \* "read", "err" or "closed"
    consumer,       \* "range", "write", "err", "flush", "flushErr" or "closed"
    pending,        \* units of the current record still to write
    buf, broken,    \* the bufio.Writer: its buffer and its sticky error
    out,            \* the units in the output
    ctxDone,
    caller,         \* "select" or "returned"
    errs            \* the errors it received

outVars == <<pending, buf, broken, out>>
callVars == <<ctxDone, caller, errs>>
vars == <<input, at, producer, consumer, outVars, callVars>>

Init ==
    /\ input \in ResInputs
    /\ at = 1 /\ producer = "read" /\ consumer = "range"
    /\ pending = << >> /\ buf = << >> /\ broken = FALSE /\ out = << >>
    /\ ctxDone = FALSE /\ caller = "select" /\ errs = << >>

Reading == producer = "read" /\ at <= Len(input.recs)
Sendable == input.recs[at] \in {"ok", "unencodable"}

\* The caller receives an error, and returns if it stops there: its deferred
\* cancel runs.
Receive(err) ==
    /\ caller = "select"
    /\ errs' = Append(errs, err)
    /\ caller' = IF input.stops THEN "returned" ELSE caller
    /\ ctxDone' = (ctxDone \/ input.stops)
-----------------------------------------------------------------------------
(* Produce, or the caller that sends *)

\* SendRes: Consume ranges over the channel, and encodes what it got.
SendRes ==
    /\ Reading /\ Sendable /\ consumer = "range"
    /\ (input.direct => caller = "select")
    /\ at' = at + 1
    /\ IF input.recs[at] = "ok"
       THEN consumer' = "write" /\ pending' = << <<at, "len">>, <<at, "data">> >>
       ELSE consumer' = "err" /\ UNCHANGED pending
    /\ UNCHANGED <<input, producer, buf, broken, out, callVars>>

SendResCancelled ==
    /\ Reading /\ Sendable /\ ctxDone
    /\ producer' = "closed"
    /\ UNCHANGED <<input, at, consumer, outVars, callVars>>

\* Mutant of ReadFails: what io.ReadFull says of the data is taken for the end.
ReadFailsAsEnd ==
    /\ Reading /\ ~Sendable
    /\ producer' = IF input.recs[at] = "tornData" THEN "closed" ELSE "err"
    /\ UNCHANGED <<input, at, consumer, outVars, callVars>>

ReadFails ==
    /\ Reading /\ ~Sendable
    /\ producer' = "err"
    /\ UNCHANGED <<input, at, consumer, outVars, callVars>>

ReadErr ==
    /\ producer = "err" /\ Receive("read")
    /\ producer' = "closed"
    /\ UNCHANGED <<input, at, consumer, outVars>>

ReadErrCancelled ==
    /\ producer = "err" /\ ctxDone
    /\ producer' = "closed"
    /\ UNCHANGED <<input, at, consumer, outVars, callVars>>

\* io.EOF instead of a length.
ProduceEnds ==
    /\ producer = "read" /\ at > Len(input.recs)
    /\ producer' = "closed"
    /\ UNCHANGED <<input, at, consumer, outVars, callVars>>

Produce == \/ SendRes \/ SendResCancelled \/ ReadFails \/ ReadErr \/ ReadErrCancelled
           \/ ProduceEnds
-----------------------------------------------------------------------------
(* Consume *)

Writing == consumer = "write" /\ pending # << >>
Full == Len(buf) = BufSize

\* Write into the buffer, flushed first when it is full.
Write ==
    /\ Writing
    /\ out' = IF Full THEN out \o buf ELSE out
    /\ buf' = IF Full THEN <<pending[1]>> ELSE Append(buf, pending[1])
    /\ pending' = Tail(pending)
    /\ UNCHANGED <<input, at, producer, consumer, broken, callVars>>

\* A flush writes a part of the buffer; the error stays in the writer.
ShortWrite ==
    \E n \in 0..(Len(buf) - 1) :
        /\ out' = out \o SubSeq(buf, 1, n)
        /\ buf' = SubSeq(buf, n + 1, Len(buf))
        /\ broken' = TRUE

WriteFails ==
    /\ Writing /\ Full /\ input.writeFails /\ ShortWrite
    /\ consumer' = "err"
    /\ UNCHANGED <<input, at, producer, pending, callVars>>

Written ==
    /\ consumer = "write" /\ pending = << >>
    /\ consumer' = "range"
    /\ UNCHANGED <<input, at, producer, outVars, callVars>>

ConsumeErr ==
    /\ consumer = "err" /\ Receive("write")
    /\ consumer' = "flush"
    /\ UNCHANGED <<input, at, producer, outVars>>

ConsumeErrCancelled ==
    /\ consumer = "err" /\ ctxDone
    /\ consumer' = "flush"
    /\ UNCHANGED <<input, at, producer, outVars, callVars>>

RangeEnds ==
    /\ consumer = "range" /\ producer = "closed"
    /\ consumer' = "flush"
    /\ UNCHANGED <<input, at, producer, outVars, callVars>>

\* Mutant of Flush: the deferred flush is missing.
FlushNothing ==
    /\ consumer = "flush" /\ ~broken
    /\ consumer' = "closed"
    /\ UNCHANGED <<input, at, producer, outVars, callVars>>

\* The deferred flush, and close(errC).
Flush ==
    /\ consumer = "flush" /\ ~broken
    /\ out' = out \o buf /\ buf' = << >>
    /\ consumer' = "closed"
    /\ UNCHANGED <<input, at, producer, pending, broken, callVars>>

\* It fails, or the error of an earlier write is still there.
FlushFails ==
    /\ consumer = "flush"
    /\ IF broken THEN UNCHANGED <<buf, broken, out>> ELSE input.writeFails /\ ShortWrite
    /\ consumer' = "flushErr"
    /\ UNCHANGED <<input, at, producer, pending, callVars>>

FlushErr ==
    /\ consumer = "flushErr" /\ Receive("write")
    /\ consumer' = "closed"
    /\ UNCHANGED <<input, at, producer, outVars>>

FlushErrCancelled ==
    /\ consumer = "flushErr" /\ ctxDone
    /\ consumer' = "closed"
    /\ UNCHANGED <<input, at, producer, outVars, callVars>>

Consume == \/ Write \/ WriteFails \/ Written \/ ConsumeErr \/ ConsumeErrCancelled
           \/ RangeEnds \/ Flush \/ FlushFails \/ FlushErr \/ FlushErrCancelled
-----------------------------------------------------------------------------
(* The caller *)

BothClosed == producer = "closed" /\ consumer = "closed"

CallerReturns ==
    /\ caller = "select" /\ BothClosed
    /\ caller' = "returned" /\ ctxDone' = TRUE
    /\ UNCHANGED <<input, at, producer, consumer, outVars, errs>>

CallerCancels ==
    /\ ~ctxDone /\ ctxDone' = TRUE
    /\ UNCHANGED <<input, at, producer, consumer, outVars, caller, errs>>

AllReturned == BothClosed /\ caller = "returned"
Done == AllReturned /\ UNCHANGED vars

Next == Produce \/ Consume \/ CallerReturns \/ CallerCancels \/ Done
-----------------------------------------------------------------------------
(* Properties *)

Unreadable == {k \in DOMAIN input.recs : input.recs[k] # "ok"}
\* The encoding of the records before the first that cannot pass.
Encoding ==
    LET n == IF Unreadable = {} THEN Len(input.recs) ELSE Min(Unreadable) - 1
    IN [i \in 1..(2 * n) |-> <<(i + 1) \div 2, IF i % 2 = 1 THEN "len" ELSE "data">>]

\* The output is at every moment the encoding cut off somewhere, also behind a
\* failed write; and a caller that saw both channels close and no error, without a
\* cancellation, has all of the input in the output.
WrittenRight ==
    /\ IsPrefix(out, Encoding)
    /\ BothClosed /\ errs = << >> /\ ~ctxDone => out = Encoding /\ Unreadable = {}

\* A caller that drains the errors instead of stopping at the first one: Consume
\* returned behind its error and nobody takes what Produce has to send.
Leak == /\ ~input.stops /\ consumer = "closed" /\ errs # << >>
        /\ Reading /\ Sendable /\ ~ctxDone
=============================================================================
