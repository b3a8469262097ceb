-------------------------------- MODULE FanIn --------------------------------
(***************************************************************************)
(* The goroutines behind one merged stream: mergeValuesResourceStreams,    *)
(* mergeResourcesAttributeStreams and mergeErrStreams of bucketize/pipe.go *)
(* and MergePathInfoStreams, MergeResStreams and MergeErrStreams of        *)
(* respipe/streams.go are this one algorithm at six element types.         *)
(*                                                                         *)
(* One forwarder per input ranges over its channel and sends what it took  *)
(* to the output channel, or gives up when the context is done; a closer   *)
(* waits for every forwarder and closes the output.  All channels are      *)
(* unbuffered, so a send and its receive are one step.  This module has    *)
(* the forwarders' half of each such step: the module that instantiates    *)
(* it conjoins Take with the sender's half and Hand with the receiver's.   *)
(***************************************************************************)
CONSTANTS Inputs,     \* the channels merged
          None        \* no element

VARIABLES fwd,        \* fwd[i]: where the forwarder of input i is
          held,       \* held[i]: the element that forwarder took and not yet sent
          outClosed,  \* the merged channel is closed
          inClosed,   \* inClosed[i]: input i is closed (kept by the instantiating module)
          ctxDone     \* the context is cancelled (kept by the instantiating module)

fanVars == <<fwd, held, outClosed>>

FanTypeOK(Elem) ==
    /\ fwd \in [Inputs -> {"range", "send", "done"}]
    /\ held \in [Inputs -> Elem \cup {None}]
    /\ outClosed \in BOOLEAN

FanInit == /\ fwd = [i \in Inputs |-> "range"]
           /\ held = [i \in Inputs |-> None]
           /\ outClosed = FALSE

\* Mutant of Take: a second element is taken while one is still held.
TakeOverHeld(i, m) == /\ fwd[i] # "done"
                      /\ fwd' = [fwd EXCEPT ![i] = "send"]
                      /\ held' = [held EXCEPT ![i] = m]
                      /\ UNCHANGED outClosed

\* The forwarder of input i receives m: one turn of "for r := range c".
Take(i, m) == /\ fwd[i] = "range"
              /\ fwd' = [fwd EXCEPT ![i] = "send"]
              /\ held' = [held EXCEPT ![i] = m]
              /\ UNCHANGED outClosed

\* The forwarder of input i sends what it holds to the merged channel.
Hand(i) == /\ fwd[i] = "send"
           /\ fwd' = [fwd EXCEPT ![i] = "range"]
           /\ held' = [held EXCEPT ![i] = None]
           /\ UNCHANGED outClosed

\* Mutant of GiveUp: the send is retried after the context is done.
GiveUpRetries(i) == fwd[i] = "send" /\ ctxDone /\ UNCHANGED fanVars

\* The select took <-ctx.Done(): the element is dropped and the forwarder returns.
GiveUp(i) == /\ fwd[i] = "send" /\ ctxDone
             /\ fwd' = [fwd EXCEPT ![i] = "done"]
             /\ held' = [held EXCEPT ![i] = None]
             /\ UNCHANGED outClosed

\* The range ends because the input is closed; the deferred wg.Done runs.
Finish(i) == /\ fwd[i] = "range" /\ inClosed[i]
             /\ fwd' = [fwd EXCEPT ![i] = "done"]
             /\ UNCHANGED <<held, outClosed>>

\* Mutant of CloseOut: wg.Add(1), so the first forwarder to return ends the wait.
CloseOutEarly == /\ \E i \in Inputs : fwd[i] = "done"
                 /\ ~outClosed
                 /\ outClosed' = TRUE
                 /\ UNCHANGED <<fwd, held>>

\* wg.Wait returns and the closer closes the merged channel.
CloseOut == /\ \A i \in Inputs : fwd[i] = "done"
            /\ ~outClosed
            /\ outClosed' = TRUE
            /\ UNCHANGED <<fwd, held>>

\* The steps a merged stream takes on its own.
FanStep == \/ \E i \in Inputs : GiveUp(i) \/ Finish(i)
           \/ CloseOut
=============================================================================
