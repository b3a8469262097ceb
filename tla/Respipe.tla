------------------------------- MODULE Respipe -------------------------------
(***************************************************************************)
(* The package respipe: the merged streams of streams.go, the emitters of  *)
(* path_emitter.go and the producer and consumer of res_io.go.  Its users  *)
(* run one of them, the part.                                              *)
(*                                                                         *)
(* A merged stream at work, as streams.go is used: one sender per input    *)
(* that sends with SendRes or SendErr and closes its channel when it       *)
(* returns, the FanIn goroutines, and a receiver that ranges over the      *)
(* merged stream.  The receiver may return before the end (a collected     *)
(* value was bad, say), and its deferred cancel then ends the context; the *)
(* caller's context may also be cancelled at any time.                     *)
(*                                                                         *)
(* The k-th element of input i is <<i, k>>.                                *)
(***************************************************************************)
EXTENDS Integers, Sequences
-----------------------------------------------------------------------------
(* A merged stream *)

CONSTANTS Inputs, None, Count

ASSUME CountAssumption == Count \in [Inputs -> Nat]
ASSUME NoneAssumption == None \notin Inputs \X Nat

VARIABLES sender,     \* sender[i]: "send", or "closed" once it returned
          sent,       \* sent[i]: how many elements the sender of i has sent
          fwd, held, outClosed,
          ctxDone,    \* the context is cancelled
          receiver,   \* "range", or "returned"
          got         \* got[i]: the elements of input i received, in order

inClosed == [i \in Inputs |-> sender[i] = "closed"]

Fan == INSTANCE FanIn

fan == <<fwd, held, outClosed>>
vars == <<sender, sent, fwd, held, outClosed, ctxDone, receiver, got>>

Element == {e \in Inputs \X Nat : e[2] \in 1..Count[e[1]]}

TypeOK == /\ sender \in [Inputs -> {"send", "closed"}]
          /\ sent \in [Inputs -> Nat]
          /\ \A i \in Inputs : sent[i] <= Count[i]
          /\ Fan!FanTypeOK(Element)
          /\ ctxDone \in BOOLEAN
          /\ receiver \in {"range", "returned"}
          /\ got \in [Inputs -> Seq(Nat)]

Init == /\ sender = [i \in Inputs |-> "send"]
        /\ sent = [i \in Inputs |-> 0]
        /\ Fan!FanInit
        /\ ctxDone = FALSE
        /\ receiver = "range"
        /\ got = [i \in Inputs |-> << >>]

\* Mutant of SendRes: one element too many.
SendResPast(i) == /\ sender[i] = "send" /\ sent[i] <= Count[i]
                  /\ Fan!Take(i, <<i, sent[i] + 1>>)
                  /\ sent' = [sent EXCEPT ![i] = @ + 1]
                  /\ UNCHANGED <<sender, ctxDone, receiver, got>>

\* SendRes(ctx, resC, r) returns true: the forwarder of i took the element.
SendRes(i) == /\ sender[i] = "send" /\ sent[i] < Count[i]
              /\ Fan!Take(i, <<i, sent[i] + 1>>)
              /\ sent' = [sent EXCEPT ![i] = @ + 1]
              /\ UNCHANGED <<sender, ctxDone, receiver, got>>

\* SendRes returns false because the context is done; the sender returns and
\* its deferred close runs.
SendCancelled(i) == /\ sender[i] = "send" /\ sent[i] < Count[i] /\ ctxDone
                    /\ sender' = [sender EXCEPT ![i] = "closed"]
                    /\ UNCHANGED <<sent, fan, ctxDone, receiver, got>>

\* The sender has nothing more to send and closes its channel.
CloseIn(i) == /\ sender[i] = "send" /\ sent[i] = Count[i]
              /\ sender' = [sender EXCEPT ![i] = "closed"]
              /\ UNCHANGED <<sent, fan, ctxDone, receiver, got>>

\* The receiver gets the element the forwarder of i holds.
Receive(i) == /\ receiver = "range"
              /\ Fan!Hand(i)
              /\ got' = [got EXCEPT ![i] = Append(@, held[i][2])]
              /\ UNCHANGED <<sender, sent, ctxDone, receiver>>

\* The receiver's range ends: the merged channel is closed.
RangeEnds == /\ receiver = "range" /\ outClosed
             /\ receiver' = "returned"
             /\ ctxDone' = TRUE
             /\ UNCHANGED <<sender, sent, fan, got>>

\* The receiver returns early; its deferred cancel() runs.
ReturnEarly == /\ receiver = "range"
               /\ receiver' = "returned"
               /\ ctxDone' = TRUE
               /\ UNCHANGED <<sender, sent, fan, got>>

\* The caller cancels the context.
CallerCancels == /\ ~ctxDone
                 /\ ctxDone' = TRUE
                 /\ UNCHANGED <<sender, sent, fan, receiver, got>>

FanStep == /\ Fan!FanStep
           /\ UNCHANGED <<sender, sent, ctxDone, receiver, got>>

Sender(i) == SendRes(i) \/ SendCancelled(i) \/ CloseIn(i)
Receiver == (\E i \in Inputs : Receive(i)) \/ RangeEnds

\* Every goroutine has returned: nothing is left to do.
AllReturned == /\ receiver = "returned" /\ outClosed
               /\ \A i \in Inputs : sender[i] = "closed"
Terminated == AllReturned /\ UNCHANGED vars

Next == \/ \E i \in Inputs : Sender(i)
        \/ FanStep
        \/ Receiver \/ ReturnEarly \/ CallerCancels
        \/ Terminated

Spec == Init /\ [][Next]_vars

\* The Go scheduler runs every goroutine that can run; nobody has to cancel
\* or to return early.
Fairness == /\ \A i \in Inputs : WF_vars(Sender(i))
            /\ WF_vars(FanStep)
            /\ WF_vars(Receiver)
FairSpec == Spec /\ Fairness
-----------------------------------------------------------------------------
\* Elements the sender of i sent that were neither received nor dropped.
InFlight(i) == IF fwd[i] = "send" THEN 1 ELSE 0

\* Exactly once and in order: what was received of an input is the sequence
\* 1, 2, ... up to its length, whatever the interleaving and whenever the
\* context is cancelled (the merge functions of streams.go).
InOrder == \A i \in Inputs : got[i] = [k \in 1..Len(got[i]) |-> k]

\* The end of the merged stream is the end of every input: when the channel is
\* closed and nobody cancelled, every element of every input was received
\* (the WaitGroup of the merge functions counts every forwarder).
NothingLost == outClosed /\ ~ctxDone => \A i \in Inputs : Len(got[i]) = Count[i]

\* No send on a closed channel: while a forwarder still holds an element the
\* merged channel is open (close(resC) only after wg.Wait).
NoSendOnClosed == outClosed => \A i \in Inputs : fwd[i] = "done"

\* The merge implements its promise.
Promise == INSTANCE MergedStream
             WITH delivered <- got, ended <- outClosed, cancelled <- ctxDone
ImplementsPromise == Promise!MSSafe

\* Nothing hangs or leaks: the receiver reaches the end of the stream or stops
\* early, and every sender, forwarder and closer returns too (SendRes, SendErr and
\* the forwarders watch ctx.Done).
Ends == <>AllReturned
-----------------------------------------------------------------------------
(* The three parts *)

CONSTANTS Dirs, Tree, ResInputs, BufSize

VARIABLES
    part,                          \* "merge", "emit" or "io"
    walk, at, piFwd, piHeld, piClosed, erFwd, erHeld, erClosed,
    peDone, peReceiver, gotInfos, gotErrs,
    input, next, producer, consumer, pending, buf, broken, out,
    ioDone, caller, errs

emitter == INSTANCE PathEmitter WITH ctxDone <- peDone, receiver <- peReceiver
io == INSTANCE ResIO WITH at <- next, ctxDone <- ioDone

\* A walk of Tree[d]: a directory's visits are together, and what is below the directory
\* that lists a visit is below all that this visit is below.
ASSUME TreeAssumption == \A d \in Dirs :
    /\ Tree[d] \in Seq([what : {"file", "dir", "error"},
                        path : [dot : BOOLEAN, type : STRING,
                                quals : Seq([word : STRING, dpi : BOOLEAN, num : Int])],
                        dir : STRING, under : SUBSET STRING])
    /\ \A k \in DOMAIN Tree[d] : Tree[d][k].what = "file" => Tree[d][k].dir \in Tree[d][k].under
    /\ \A i, j, k \in DOMAIN Tree[d] :
          i < j /\ j < k => Tree[d][i].under \cap Tree[d][k].under \subseteq Tree[d][j].under
    /\ \A j, k \in DOMAIN Tree[d] :
          Tree[d][k].dir \in Tree[d][j].under => Tree[d][k].under \subseteq Tree[d][j].under
\* The words of strToDensity end in "dpi", behind letters.
ASSUME QualifierAssumption ==
    \A d \in Dirs : \A k \in DOMAIN Tree[d] : LET q == Tree[d][k].path.quals IN
        \A j \in DOMAIN q : q[j].word \in DOMAIN emitter!R!strToDensity => q[j].dpi /\ q[j].num = -1
ASSUME VisitsAssumption == None \notin Nat
ASSUME ResInputsAssumption == \A i \in ResInputs :
    /\ i.recs \in Seq({"ok", "unencodable", "tornLen", "tornData", "badProto"})
    /\ i.direct \in BOOLEAN /\ i.stops \in BOOLEAN /\ i.writeFails \in BOOLEAN

peVars == <<walk, at, piFwd, piHeld, piClosed, erFwd, erHeld, erClosed, peDone, peReceiver,
            gotInfos, gotErrs>>
ioVars == <<input, next, producer, consumer, pending, buf, broken, out, ioDone, caller, errs>>
allVars == <<part, vars, peVars, ioVars>>

\* A step of one part; only the call of res_io.go has an input to choose.
MergeStep(A) == part = "merge" /\ A /\ UNCHANGED <<part, peVars, ioVars>>
EmitStep(A) == part = "emit" /\ A /\ UNCHANGED <<part, vars, ioVars>>
IOStep(A) == part = "io" /\ A /\ UNCHANGED <<part, vars, peVars>>

InitAll == /\ part \in {"merge", "emit", "io"}
           /\ Init /\ emitter!Init /\ io!Init
           /\ part = "io" \/ input = CHOOSE i \in ResInputs : TRUE

NextAll == MergeStep(Next) \/ EmitStep(emitter!Next) \/ IOStep(io!Next)

\* Every goroutine of the part goes on when it can; nobody has to cancel or to
\* return early.
FairnessAll ==
    /\ \A i \in Inputs : WF_allVars(MergeStep(Sender(i)))
    /\ WF_allVars(MergeStep(FanStep)) /\ WF_allVars(MergeStep(Receiver))
    /\ \A d \in Dirs : WF_allVars(EmitStep(emitter!emit(d)))
    /\ WF_allVars(EmitStep(emitter!MergePathInfoStreams))
    /\ WF_allVars(EmitStep(emitter!MergeErrStreams))
    /\ WF_allVars(EmitStep(emitter!Receiver))
    /\ WF_allVars(IOStep(io!Produce)) /\ WF_allVars(IOStep(io!Consume))
    /\ WF_allVars(IOStep(io!CallerReturns))

RespipeSpec == InitAll /\ [][NextAll]_allVars /\ FairnessAll
-----------------------------------------------------------------------------
(* Properties *)

Emitted == part = "emit" => emitter!Emitted
WrittenRight == part = "io" => io!WrittenRight

\* Nothing hangs or leaks: the receiver comes to the end of the stream or stops
\* early, and every sender, walker, forwarder and closer returns (SendRes, SendErr
\* and the forwarders watch ctx.Done).  Produce and Consume return too, but for one
\* case: a caller that goes on behind an error of Consume without a cancellation
\* leaves Produce at its send, and waits for it.
AllEnds == /\ part = "merge" => Ends
           /\ part = "emit" => <>emitter!AllReturned
           /\ part = "io" => <>(io!AllReturned \/ io!Leak)
=============================================================================
