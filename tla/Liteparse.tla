------------------------------ MODULE Liteparse ------------------------------
(***************************************************************************)
(* ParseAll and ParseAllContents of liteparse/liteparse.go with their      *)
(* goroutines: the dispatcher of ResParse (resParseContents is the same    *)
(* with the contents in memory), numParsers XML parsers, the two merged    *)
(* streams (an instance of FanIn each), the two readers and the select of  *)
(* processResAndErr.                                                       *)
(*                                                                         *)
(* A path is a record [dot, type, ext, asRes]: whether its base name       *)
(* starts with a dot, its resource type, its extension, and what pathAsRes *)
(* and ParseName make of it: "none", "res" or "bad".  Contents are a       *)
(* record [header, emits, torn]: the first five bytes ("xml", "other",     *)
(* "empty", or "short" for one to four bytes), what valuesParse or         *)
(* nonValuesParse emits for them in order ("res" or "err"), and whether    *)
(* the XML decoder fails at their end (ValuesParse models that pipeline).  *)
(***************************************************************************)
EXTENDS Naturals, Sequences, FiniteSets

CONSTANTS
    Path,             \* Path[p]: the record of the path named p
    Calls,            \* the calls: records [paths, Contents, unreadable, memory, cancels]
    Parsers,          \* the XML parsers (numParsers of them)
    Dispatcher,       \* the goroutine that dispatches and sends path resources
    None              \* no element

ASSUME DispatcherAssumption == Dispatcher \notin Parsers
ASSUME CallsAssumption == \A c \in Calls : c.memory => c.unreadable = {}
\* What the types of the code say: paths and emissions are sequences.
ASSUME SequencesAssumption ==
    \A c \in Calls :
        /\ c.paths \in Seq(DOMAIN Path)
        /\ \A p \in DOMAIN Path : c.Contents[p].emits \in Seq({"res", "err"})

VARIABLES
    call,             \* the call, which never changes
    turn, stage,      \* the dispatcher: its file and where it is with that file
    parser,           \* parser[p]: "range", "parse", or "closed" (returned)
    file, pos,        \* its file, and the next emission of that file
    late,             \* late[p]: errors that its inner merged stream holds
    resFwd, resHeld, resClosed,    \* the merged resource stream
    errFwd, errHeld, errClosed,    \* the merged error stream
    got,              \* res of processResAndErr
    resReader,        \* its second goroutine: "range", or "done" (doneChan is full)
    parseErr,         \* what parseErrChan holds; its first goroutine has returned
    result,           \* "running", or how the call returned
    ctxDone, callerDone

paths == call.paths                  \* the sequence of path names
Contents == call.Contents            \* Contents[p]: the contents of the file named p
Unreadable == call.unreadable        \* the files os.Open may fail on
FromMemory == call.memory            \* ParseAllContents, or else ParseAll
CallerCancels == call.cancels        \* the caller's context may be cancelled

\* res.MakePathInfos after n of the paths: files whose name starts with a dot are
\* dropped.
pis[n \in 0..Len(paths)] ==
    IF n = 0 THEN << >>
    ELSE IF Path[paths[n]].dot THEN pis[n - 1] ELSE Append(pis[n - 1], paths[n])

MakePathInfos == pis[Len(paths)]

pifs == MakePathInfos
Files == DOMAIN pifs

\* What is parsed for the i-th PathInfo: ParseAllContents pairs it with
\* contents[i], where contents runs along paths; ParseAll opens its own file.
contents(i) == Contents[IF FromMemory THEN paths[i] ELSE pifs[i]]

\* needsParseContents, of a file it can read.
needsParse(i) == LET pi == Path[pifs[i]] IN
    /\ pi.type # "raw"
    /\ pi.ext = "xml" \/ (pi.ext = "" /\ contents(i).header = "xml")

\* io.ReadFull reports an unexpected EOF: log.Fatal.
readFails(i) == LET pi == Path[pifs[i]] IN
    pi.type # "raw" /\ pi.ext = "" /\ contents(i).header = "short"

mayFailToOpen(i) == pifs[i] \in Unreadable

Emits(i) == {<<i, "emit", k>> : k \in DOMAIN contents(i).emits}
Kind(e) == contents(e[1]).emits[e[3]]
PathElement(i) == <<i, "path", 0>>
XmlError(i) == <<i, "xml", 0>>
OpenError(i) == <<i, "open", 0>>

Resources == (UNION {{e \in Emits(i) : needsParse(i) /\ Kind(e) = "res"} : i \in Files})
               \cup {PathElement(i) : i \in {j \in Files : Path[pifs[j]].asRes = "res"}}
Errors == (UNION {{e \in Emits(i) : needsParse(i) /\ Kind(e) = "err"} : i \in Files})
            \cup {PathElement(i) : i \in {j \in Files : Path[pifs[j]].asRes = "bad"}}
            \cup {XmlError(i) : i \in {j \in Files : needsParse(j) /\ contents(j).torn}}
            \cup {OpenError(i) : i \in {j \in Files : mayFailToOpen(j)}}

Inputs == Parsers \cup {Dispatcher}

inClosed == [i \in Inputs |-> IF i = Dispatcher THEN stage = "done"
                                                ELSE parser[i] = "closed"]

RS == INSTANCE FanIn WITH fwd <- resFwd, held <- resHeld, outClosed <- resClosed
ER == INSTANCE FanIn WITH fwd <- errFwd, held <- errHeld, outClosed <- errClosed

dispatcherVars == <<turn, stage>>
parserVars == <<parser, file, pos, late>>
resVars == <<resFwd, resHeld, resClosed>>
errVars == <<errFwd, errHeld, errClosed>>
readerVars == <<got, resReader, parseErr>>
mainVars == <<call, result, ctxDone, callerDone>>
vars == <<dispatcherVars, parserVars, resVars, errVars, readerVars, mainVars>>

TypeOK ==
    /\ call \in Calls
    /\ turn \in 1..(Len(pifs) + 1) /\ stage \in {"parse", "failed", "path", "done"}
    /\ parser \in [Parsers -> {"range", "parse", "closed"}]
    /\ file \in [Parsers -> Files \cup {None}]
    /\ \A p \in Parsers : pos[p] \in Nat \ {0} /\ late[p] \subseteq Errors
    /\ RS!FanTypeOK(Resources) /\ ER!FanTypeOK(Errors)
    /\ got \in Seq(Resources)
    /\ resReader \in {"range", "done"} /\ parseErr \in Errors \cup {None}
    /\ result \in {"running", "ok", "err", "fatal"}
    /\ ctxDone \in BOOLEAN /\ callerDone \in BOOLEAN

Init ==
    /\ call \in Calls
    /\ turn = 1 /\ stage = "parse"
    /\ parser = [p \in Parsers |-> "range"]
    /\ file = [p \in Parsers |-> None]
    /\ pos = [p \in Parsers |-> 1]
    /\ late = [p \in Parsers |-> {}]
    /\ RS!FanInit /\ ER!FanInit
    /\ got = << >> /\ resReader = "range" /\ parseErr = None
    \* no PathInfo at all: the call returns before it starts anything
    /\ result = IF pifs = << >> THEN "ok" ELSE "running"
    /\ ctxDone = FALSE /\ callerDone = FALSE
-----------------------------------------------------------------------------
(* The dispatcher *)

At(s) == turn \in Files /\ stage = s

\* needsParse cannot open the file.
OpenFails ==
    /\ At("parse") /\ mayFailToOpen(turn)
    /\ stage' = "failed"
    /\ UNCHANGED <<turn, parserVars, resVars, errVars, readerVars, mainVars>>

\* "pathErrC <- err" does not watch the context.
SendOpenError ==
    /\ At("failed")
    /\ ER!Take(Dispatcher, OpenError(turn))
    /\ stage' = "done"
    /\ UNCHANGED <<turn, parserVars, resVars, readerVars, mainVars>>

\* The process exits, even when the call has returned.
Fatal ==
    /\ At("parse") /\ readFails(turn)
    /\ result # "fatal" /\ result' = "fatal"
    /\ UNCHANGED <<dispatcherVars, parserVars, resVars, errVars, readerVars,
                   call, ctxDone, callerDone>>

SkipParse ==
    /\ At("parse") /\ ~readFails(turn) /\ ~needsParse(turn)
    /\ stage' = "path"
    /\ UNCHANGED <<turn, parserVars, resVars, errVars, readerVars, mainVars>>

\* syncParse opens the file and starts the pipeline, or has an error to send.
\* The XML decoder runs ahead of what is emitted: its error may come any time.
OpenFile(p, i) ==
    \/ /\ pos' = [pos EXCEPT ![p] = 1]
       /\ late' = [late EXCEPT ![p] = IF contents(i).torn THEN {XmlError(i)} ELSE {}]
    \/ /\ mayFailToOpen(i)
       /\ pos' = [pos EXCEPT ![p] = Len(contents(i).emits) + 1]
       /\ late' = [late EXCEPT ![p] = {OpenError(i)}]

\* "parserC <- pi", which does not watch the context either, received by p, which
\* opens the file.
SendFile(p) ==
    /\ At("parse") /\ needsParse(turn)
    /\ parser[p] = "range"
    /\ parser' = [parser EXCEPT ![p] = "parse"]
    /\ file' = [file EXCEPT ![p] = turn]
    /\ OpenFile(p, turn)
    /\ stage' = "path"
    /\ UNCHANGED <<turn, resVars, errVars, readerVars, mainVars>>

\* Mutant of NextFile: a file is skipped.
SkipFile == turn' = turn + 2 /\ stage' = "parse"

NextFile == turn' = turn + 1 /\ stage' = "parse"

\* parsePathInfo: nothing to send, SendRes, or SendErr.
NoPathResource ==
    /\ At("path") /\ Path[pifs[turn]].asRes = "none"
    /\ NextFile
    /\ UNCHANGED <<parserVars, resVars, errVars, readerVars, mainVars>>

SendPathResource ==
    /\ At("path") /\ Path[pifs[turn]].asRes = "res"
    /\ RS!Take(Dispatcher, PathElement(turn))
    /\ NextFile
    /\ UNCHANGED <<parserVars, errVars, readerVars, mainVars>>

SendPathError ==
    /\ At("path") /\ Path[pifs[turn]].asRes = "bad"
    /\ ER!Take(Dispatcher, PathElement(turn))
    /\ NextFile
    /\ UNCHANGED <<parserVars, resVars, readerVars, mainVars>>

\* The send took <-ctx.Done(), or every file was dispatched: the three deferred
\* closes run.
DispatcherReturns ==
    /\ \/ At("path") /\ Path[pifs[turn]].asRes # "none" /\ ctxDone
       \/ turn > Len(pifs) /\ stage # "done"
    /\ stage' = "done"
    /\ UNCHANGED <<turn, parserVars, resVars, errVars, readerVars, mainVars>>

Dispatch == \/ OpenFails \/ SendOpenError \/ Fatal \/ SkipParse
            \/ \E p \in Parsers : SendFile(p)
            \/ NoPathResource \/ SendPathResource \/ SendPathError
            \/ DispatcherReturns
-----------------------------------------------------------------------------
(* xmlParser, over the pipeline of parseContents *)

Emitting(p, kind) == /\ parser[p] = "parse"
                     /\ pos[p] \in DOMAIN contents(file[p]).emits
                     /\ contents(file[p]).emits[pos[p]] = kind

\* The pipeline emits an error, which its own merged stream holds: an error
\* before it must have left that stream.
EmitError(p) ==
    /\ Emitting(p, "err")
    /\ late[p] \subseteq {XmlError(file[p])}
    /\ late' = [late EXCEPT ![p] = @ \cup {<<file[p], "emit", pos[p]>>}]
    /\ pos' = [pos EXCEPT ![p] = @ + 1]
    /\ UNCHANGED <<parser, file, dispatcherVars, resVars, errVars, readerVars,
                   mainVars>>

\* The pipeline emits a resource and syncParseContents sends it on.
SendResource(p) ==
    /\ Emitting(p, "res")
    /\ RS!Take(p, <<file[p], "emit", pos[p]>>)
    /\ pos' = [pos EXCEPT ![p] = @ + 1]
    /\ UNCHANGED <<parser, file, late, dispatcherVars, errVars, readerVars,
                   mainVars>>

\* syncParseContents receives an error of the inner stream and sends it on.
SendError(p) ==
    /\ parser[p] = "parse"
    /\ \E e \in late[p] : /\ ER!Take(p, e)
                          /\ late' = [late EXCEPT ![p] = @ \ {e}]
    /\ UNCHANGED <<parser, file, pos, dispatcherVars, resVars, readerVars,
                   mainVars>>

\* SendRes or SendErr returns false; the parser returns.
SendCancelled(p) ==
    /\ parser[p] = "parse" /\ ctxDone
    /\ Emitting(p, "res") \/ late[p] # {}
    /\ parser' = [parser EXCEPT ![p] = "closed"]
    /\ UNCHANGED <<file, pos, late, dispatcherVars, resVars, errVars,
                   readerVars, mainVars>>

\* Both channels of the pipeline are closed: nothing is left to emit, or the
\* pipeline itself saw the context done.
FileDone(p) ==
    /\ parser[p] = "parse"
    /\ \/ late[p] = {} /\ pos[p] \notin DOMAIN contents(file[p]).emits
       \/ ctxDone /\ OpenError(file[p]) \notin late[p]
    /\ parser' = [parser EXCEPT ![p] = "range"]
    /\ late' = [late EXCEPT ![p] = {}]
    /\ UNCHANGED <<file, pos, dispatcherVars, resVars, errVars, readerVars,
                   mainVars>>

\* The range over parserC ends.
NoMoreFiles(p) ==
    /\ parser[p] = "range" /\ stage = "done"
    /\ parser' = [parser EXCEPT ![p] = "closed"]
    /\ UNCHANGED <<file, pos, late, dispatcherVars, resVars, errVars,
                   readerVars, mainVars>>

Parser(p) == \/ EmitError(p) \/ SendResource(p) \/ SendError(p)
             \/ SendCancelled(p) \/ FileDone(p) \/ NoMoreFiles(p)
-----------------------------------------------------------------------------
(* The merged streams and processResAndErr *)

StreamRes == RS!FanStep /\ UNCHANGED <<dispatcherVars, parserVars, errVars,
                                       readerVars, mainVars>>
StreamErr == ER!FanStep /\ UNCHANGED <<dispatcherVars, parserVars, resVars,
                                       readerVars, mainVars>>

\* The first goroutine: one error into parseErrChan, then it returns.
ReadError(i) ==
    /\ parseErr = None
    /\ ER!Hand(i)
    /\ parseErr' = errHeld[i]
    /\ UNCHANGED <<got, resReader, dispatcherVars, parserVars, resVars, mainVars>>

\* Mutant of ReadResource: the newest comes first.
ReadResourceFirst(i) ==
    /\ resReader = "range"
    /\ RS!Hand(i)
    /\ got' = <<resHeld[i]>> \o got
    /\ UNCHANGED <<resReader, parseErr, dispatcherVars, parserVars, errVars,
                   mainVars>>

\* The second goroutine: append, and fill doneChan when resC is closed.
ReadResource(i) ==
    /\ resReader = "range"
    /\ RS!Hand(i)
    /\ got' = Append(got, resHeld[i])
    /\ UNCHANGED <<resReader, parseErr, dispatcherVars, parserVars, errVars,
                   mainVars>>

\* Mutant of ReadDone: the reader stops with the dispatcher's own resources.
ReadDoneEarly ==
    /\ resReader = "range" /\ resFwd[Dispatcher] = "done"
    /\ resReader' = "done"
    /\ UNCHANGED <<got, parseErr, dispatcherVars, parserVars, resVars, errVars,
                   mainVars>>

ReadDone ==
    /\ resReader = "range" /\ resClosed
    /\ resReader' = "done"
    /\ UNCHANGED <<got, parseErr, dispatcherVars, parserVars, resVars, errVars,
                   mainVars>>

\* Mutant of Return: only a full doneChan ends the select.
ReturnDoneOnly ==
    /\ result = "running" /\ resReader = "done"
    /\ result' = IF parseErr = None THEN "ok" ELSE "err"
    /\ ctxDone' = TRUE
    /\ UNCHANGED <<call, callerDone, dispatcherVars, parserVars, resVars, errVars,
                   readerVars>>

\* The select of processResAndErr: either channel may be ready, and both.
Return ==
    /\ result = "running"
    /\ \/ parseErr # None /\ result' = "err"
       \/ resReader = "done" /\ result' = "ok"
    /\ ctxDone' = TRUE
    /\ UNCHANGED <<call, callerDone, dispatcherVars, parserVars, resVars, errVars,
                   readerVars>>

\* The caller cancels the context it passed.
Cancel ==
    /\ CallerCancels /\ ~callerDone
    /\ callerDone' = TRUE /\ ctxDone' = TRUE
    /\ UNCHANGED <<call, result, dispatcherVars, parserVars, resVars, errVars,
                   readerVars>>
-----------------------------------------------------------------------------
Readers == \/ \E i \in Inputs : ReadError(i) \/ ReadResource(i)
           \/ ReadDone

\* The call has returned: the goroutines left behind may never step again.
\* (log.Fatal ends them; that they go on here shows in no property.)
Returned == result # "running" /\ UNCHANGED vars

Next == \/ Dispatch
        \/ \E p \in Parsers : Parser(p)
        \/ StreamRes \/ StreamErr
        \/ Readers \/ Return \/ Cancel
        \/ Returned

Spec == Init /\ [][Next]_vars

\* Every goroutine that can run is scheduled; nobody has to cancel.
Fairness == /\ WF_vars(Dispatch)
            /\ \A p \in Parsers : WF_vars(Parser(p))
            /\ WF_vars(StreamRes) /\ WF_vars(StreamErr)
            /\ WF_vars(Readers) /\ WF_vars(Return)
FairSpec == Spec /\ Fairness
-----------------------------------------------------------------------------
(* Properties *)

Succeeded == result = "ok" /\ ~callerDone

\* A call that succeeds returns every resource of every file exactly once, when
\* every file can be opened: processResAndErr reads doneChan only
\* after resC is closed behind all numParsers + 1 senders.
NothingLost ==
    Succeeded /\ Unreadable = {} =>
        /\ {got[j] : j \in DOMAIN got} = Resources
        /\ Len(got) = Cardinality(Resources)

\* What the doc of processResAndErr promises: "returns the resources if
\* successful or the first encountered error" - a call that succeeds met none.
ErrorSurfaces == Succeeded /\ Unreadable = {} => Errors = {}

\* The resources of one file come in the order of the file, whatever other
\* parsers and the dispatcher send in between.
FileOrder ==
    \A j, k \in DOMAIN got :
        j < k /\ got[j][1] = got[k][1] /\ got[j][2] = "emit" /\ got[k][2] = "emit"
            => got[j][3] < got[k][3]

\* What the doc of ParseAllContents promises: "a file with paths[i] file path has
\* file contents contents[i]" - no resource comes from another file's contents.
Paired == \A j \in DOMAIN got :
    got[j][2] = "emit" => contents(got[j][1]) = Contents[pifs[got[j][1]]]

\* The dispatcher waits on a send nobody will receive: parserC when every parser
\* has returned, or pathErrC when its forwarder has.
Stuck == \/ At("parse") /\ needsParse(turn)
              /\ \A p \in Parsers : parser[p] = "closed"
         \/ At("failed") /\ errFwd[Dispatcher] = "done"

AllExited == /\ stage = "done" /\ \A p \in Parsers : parser[p] = "closed"
             /\ resClosed /\ errClosed /\ resReader = "done"

\* The call returns and all its goroutines exit, unless the file of a needed parse
\* ends the process or the dispatcher is stuck in a send that does not watch the
\* context, when the call returned or its caller cancelled: a second error never
\* blocks what the first needs to be read.
Ends ==
    <>(\/ result = "fatal"
       \/ result # "running" /\ AllExited
       \/ (result # "running" \/ callerDone) /\ Stuck)
=============================================================================
