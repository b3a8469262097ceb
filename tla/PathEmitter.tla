----------------------------- MODULE PathEmitter -----------------------------
(***************************************************************************)
(* EmitPathInfosDirs of respipe/path_emitter.go: a goroutine walks each    *)
(* directory, sends the files it can make out on one channel and its       *)
(* errors on another; the channels of a kind are merged, and a receiver    *)
(* selects on the two merged ones.                                         *)
(*                                                                         *)
(* Tree[d] is what filepath.Walk visits in d: records [what, path, dir,    *)
(* under], with what in {"file", "dir", "error"}, the directory that lists *)
(* the visited one and the set of the directories it is below.             *)
(***************************************************************************)
EXTENDS Integers, Sequences, SequencesExt

CONSTANTS Dirs, Tree, None

VARIABLES
    walk,                          \* walk[d]: "walk", "failed" or "returned"
    at,                            \* at[d]: the next visit
    piFwd, piHeld, piClosed,       \* the merged path infos
    erFwd, erHeld, erClosed,       \* the merged errors
    ctxDone,
    receiver,                      \* "select" or "returned"
    gotInfos, gotErrs              \* what it received of each directory, as visits

R == INSTANCE ResPath

inClosed == [d \in Dirs |-> walk[d] = "returned"]
Infos == INSTANCE FanIn WITH
    Inputs <- Dirs, fwd <- piFwd, held <- piHeld, outClosed <- piClosed
Errs == INSTANCE FanIn WITH
    Inputs <- Dirs, fwd <- erFwd, held <- erHeld, outClosed <- erClosed

piVars == <<piFwd, piHeld, piClosed>>
erVars == <<erFwd, erHeld, erClosed>>
gotVars == <<receiver, gotInfos, gotErrs>>
vars == <<walk, at, piVars, erVars, ctxDone, gotVars>>

Init ==
    /\ walk = [d \in Dirs |-> "walk"] /\ at = [d \in Dirs |-> 1]
    /\ Infos!FanInit /\ Errs!FanInit
    /\ ctxDone = FALSE /\ receiver = "select"
    /\ gotInfos = [d \in Dirs |-> << >>] /\ gotErrs = [d \in Dirs |-> << >>]
-----------------------------------------------------------------------------
(* The walk of one directory *)

Walking(d) == walk[d] = "walk" /\ at[d] <= Len(Tree[d])
Visit(d) == Tree[d][at[d]]
\* What emit finds at the visit.
Found(d) == IF Visit(d).what = "file" THEN R!ParsePath(Visit(d).path).is ELSE Visit(d).what

Step(d) == at' = [at EXCEPT ![d] = @ + 1] /\ UNCHANGED walk
Returns(d) == walk' = [walk EXCEPT ![d] = "returned"]

\* A directory, a dot file, or a file that is not in a resource directory.
Ignore(d) ==
    /\ Walking(d) /\ Found(d) \in {"dir", "skip", "not"}
    /\ Step(d) /\ UNCHANGED <<piVars, erVars, ctxDone, gotVars>>

SendInfo(d) ==
    /\ Walking(d) /\ Found(d) = "info"
    /\ Infos!Take(d, at[d])
    /\ Step(d) /\ UNCHANGED <<erVars, ctxDone, gotVars>>

SendBadPath(d) ==
    /\ Walking(d) /\ Found(d) = "bad"
    /\ Errs!Take(d, at[d])
    /\ Step(d) /\ UNCHANGED <<piVars, ctxDone, gotVars>>

\* Mutant of SkipRest: only the file is skipped.
SkipFile(d) == at' = [at EXCEPT ![d] = @ + 1]

\* filepath.SkipDir, returned for a file: the walk goes on behind its directory.
SkipRest(d) ==
    LET after == {k \in at[d]..Len(Tree[d]) : Visit(d).dir \notin Tree[d][k].under}
    IN at' = [at EXCEPT ![d] = IF after = {} THEN Len(Tree[d]) + 1 ELSE Min(after)]

\* The select took <-ctx.Done().
Cancelled(d) ==
    /\ Walking(d) /\ Found(d) \in {"info", "bad"} /\ ctxDone
    /\ SkipRest(d) /\ UNCHANGED <<walk, piVars, erVars, ctxDone, gotVars>>

\* An error of the file system ends the walk.
WalkFails(d) ==
    /\ Walking(d) /\ Found(d) = "error"
    /\ walk' = [walk EXCEPT ![d] = "failed"]
    /\ UNCHANGED <<at, piVars, erVars, ctxDone, gotVars>>

SendWalkErr(d) ==
    /\ walk[d] = "failed"
    /\ Errs!Take(d, at[d]) /\ Returns(d)
    /\ UNCHANGED <<at, piVars, ctxDone, gotVars>>

WalkErrCancelled(d) ==
    /\ walk[d] = "failed" /\ ctxDone /\ Returns(d)
    /\ UNCHANGED <<at, piVars, erVars, ctxDone, gotVars>>

WalkEnds(d) ==
    /\ walk[d] = "walk" /\ at[d] > Len(Tree[d]) /\ Returns(d)
    /\ UNCHANGED <<at, piVars, erVars, ctxDone, gotVars>>

emit(d) == \/ Ignore(d) \/ SendInfo(d) \/ SendBadPath(d) \/ Cancelled(d) \/ WalkFails(d)
           \/ SendWalkErr(d) \/ WalkErrCancelled(d) \/ WalkEnds(d)
-----------------------------------------------------------------------------
(* The merged streams and the receiver *)

MergePathInfoStreams == Infos!FanStep /\ UNCHANGED <<walk, at, erVars, ctxDone, gotVars>>
MergeErrStreams == Errs!FanStep /\ UNCHANGED <<walk, at, piVars, ctxDone, gotVars>>

ReceiveInfo(d) ==
    /\ receiver = "select" /\ Infos!Hand(d)
    /\ gotInfos' = [gotInfos EXCEPT ![d] = Append(@, piHeld[d])]
    /\ UNCHANGED <<walk, at, erVars, ctxDone, receiver, gotErrs>>

ReceiveErr(d) ==
    /\ receiver = "select" /\ Errs!Hand(d)
    /\ gotErrs' = [gotErrs EXCEPT ![d] = Append(@, erHeld[d])]
    /\ UNCHANGED <<walk, at, piVars, ctxDone, receiver, gotInfos>>

\* The receiver returns, at the end of both streams or before (an error, say), and
\* its deferred cancel runs.
Return ==
    /\ receiver = "select"
    /\ receiver' = "returned" /\ ctxDone' = TRUE
    /\ UNCHANGED <<walk, at, piVars, erVars, gotInfos, gotErrs>>
ReturnAtEnd == piClosed /\ erClosed /\ Return
ReturnEarly == ~(piClosed /\ erClosed) /\ Return

CallerCancels ==
    /\ ~ctxDone /\ ctxDone' = TRUE
    /\ UNCHANGED <<walk, at, piVars, erVars, gotVars>>

Receiver == (\E d \in Dirs : ReceiveInfo(d) \/ ReceiveErr(d)) \/ ReturnAtEnd

AllReturned == /\ receiver = "returned" /\ piClosed /\ erClosed
               /\ \A d \in Dirs : walk[d] = "returned"
Done == AllReturned /\ UNCHANGED vars

Next == \/ \E d \in Dirs : emit(d)
        \/ MergePathInfoStreams \/ MergeErrStreams
        \/ Receiver \/ ReturnEarly \/ CallerCancels \/ Done
-----------------------------------------------------------------------------
(* Properties *)

\* The visits that are resource files, told by their directory names alone.
ResFiles(d) == {k \in DOMAIN Tree[d] : Tree[d][k].what = "file" /\ ~Tree[d][k].path.dot
                                        /\ R!Kind(Tree[d][k].path.type) # "Unknown"}
\* A qualifier that ends in "dpi" and is no density, before every other density.
Malformed(k, d) == LET q == Tree[d][k].path.quals IN
    \E j \in DOMAIN q :
        /\ q[j].dpi /\ q[j].word \notin DOMAIN R!strToDensity /\ q[j].num \notin 0..65535
        /\ \A i \in 1..(j - 1) : ~q[i].dpi \/ q[i].num = 0
Good(d) == {k \in ResFiles(d) : ~Malformed(k, d)}
Failing(d) == {k \in DOMAIN Tree[d] : Tree[d][k].what = "error"}
Bad(d) == {k \in ResFiles(d) : Malformed(k, d)} \cup Failing(d)
\* What the walk comes to when nobody cancels.
Reached(d) == {k \in DOMAIN Tree[d] : \A j \in Failing(d) : k <= j}

UpTo(got, all) == \A i \in DOMAIN got : \A k \in all : k < got[i] => k \in ToSet(got)

\* Each file of each directory once, in the order of the walk, and each error, and
\* all of them up to the one that ends the walk when the streams end.  A
\* cancellation may lose files, but never in the middle of a directory: behind a
\* file that was given up nothing of the same directory is sent, though the walk goes
\* on and later directories may be, even behind an error that was passed over.
Emitted ==
    \A d \in Dirs :
        /\ ToSet(gotInfos[d]) \subseteq Good(d) /\ ToSet(gotErrs[d]) \subseteq Bad(d)
        /\ \A i \in 1..(Len(gotInfos[d]) - 1) : gotInfos[d][i] < gotInfos[d][i + 1]
        /\ \A i \in DOMAIN gotInfos[d] : \A k \in Good(d) :
             LET j == gotInfos[d][i] IN
             k < j /\ Tree[d][k].dir \in Tree[d][j].under => k \in ToSet(gotInfos[d])
        /\ ~ctxDone => UpTo(gotInfos[d], Good(d)) /\ UpTo(gotErrs[d], Bad(d))
        /\ ~ctxDone /\ piClosed => ToSet(gotInfos[d]) = Good(d) \cap Reached(d)
        /\ ~ctxDone /\ erClosed => ToSet(gotErrs[d]) = Bad(d) \cap Reached(d)
=============================================================================
