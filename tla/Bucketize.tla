------------------------------ MODULE Bucketize ------------------------------
(***************************************************************************)
(* Archiver.Archive of bucketize/bucketize.go with all its goroutines: the *)
(* separator, numParsers parsers, the three merged streams (an instance of *)
(* FanIn each) and the goroutine of Archive itself, which collects into    *)
(* the partitioner and closes it.                                          *)
(*                                                                         *)
(* A file's parser sends the elements of sends[f] in order; <<f, k>> is    *)
(* the k-th of them.  A channel without a buffer passes an element in one  *)
(* step of its sender and its receiver together.  The deferred closes of   *)
(* one goroutine are one step: nothing between them can block or be seen   *)
(* by anyone but a receiver of that one channel.                           *)
(***************************************************************************)
EXTENDS Naturals, Sequences

CONSTANTS
    typedOutput,      \* typedOutput[t]: the number of archives of type t
    ResFiles,         \* the sequence of PathInfos, as walk.Files gives them
    Type,             \* Type[f]: the PathInfo's Type
    IsValues,         \* IsValues[f]: parsed as a values file
    sends,            \* sends[f]: what a parser sends for the values file f
    Parsers,          \* the parsers (numParsers of them)
    None,             \* no element, no file
    CallerCancels     \* TRUE if the caller's context may be cancelled

-----------------------------------------------------------------------------
(* What a PartitionSession collects (bucketize/partitioner.go): the Collect
   methods as operators on the session's three maps.  A map is a function whose
   domain is the keys present. *)

isTypeAccepted(t) == t \in DOMAIN typedOutput

Put(map, k, v) == [x \in DOMAIN map \cup {k} |-> IF x = k THEN v ELSE map[x]]

EmptyMap == [x \in {} |-> x]

\* CollectPathResource: a path whose type has an archive is remembered.
CollectPathResource(paths, f, type) ==
    IF isTypeAccepted(type) THEN paths \cup {f} ELSE paths

\* Mutant of CollectResourcesAttribute: the newest first.
PrependAttribute(ras, f, attr) ==
    Put(ras, f, IF f \in DOMAIN ras THEN <<attr>> \o ras[f] ELSE <<attr>>)

\* CollectResourcesAttribute: appended to what the file already has.
CollectResourcesAttribute(ras, f, attr) ==
    Put(ras, f, IF f \in DOMAIN ras THEN Append(ras[f], attr) ELSE <<attr>>)

\* The key of a value: its valuesKey {source path, type} and its full name.
ValueKey(f, vr) == <<f, vr.type, vr.pkg, vr.name>>

Payload(vr) == [size |-> vr.size, body |-> vr.body]

\* CollectValues keeps only accepted types, and no attr of another package.
Stored(vr) == /\ isTypeAccepted(vr.type)
              /\ ~(vr.type = "attr" /\ vr.pkg # "res-auto")

\* CollectValues reports two different payloads of one length for one name.
Conflict(vals, f, vr) ==
    /\ Stored(vr)
    /\ ValueKey(f, vr) \in DOMAIN vals
    /\ vals[ValueKey(f, vr)].size = vr.size
    /\ vals[ValueKey(f, vr)].body # vr.body

\* Mutant of CollectValues: the first payload stays.
KeepFirst(vals, f, vr) ==
    IF Stored(vr) /\ ValueKey(f, vr) \notin DOMAIN vals
    THEN Put(vals, ValueKey(f, vr), Payload(vr))
    ELSE vals

\* CollectValues otherwise keeps the longer payload.
CollectValues(vals, f, vr) ==
    IF /\ Stored(vr)
       /\ \/ ValueKey(f, vr) \notin DOMAIN vals
          \/ vals[ValueKey(f, vr)].size < vr.size
    THEN Put(vals, ValueKey(f, vr), Payload(vr))
    ELSE vals
-----------------------------------------------------------------------------
Files  == {ResFiles[j] : j \in DOMAIN ResFiles}
Values == {f \in Files : IsValues[f]}
Indices == UNION {DOMAIN sends[f] : f \in Values}
Elements == {e \in Values \X Indices : e[2] \in DOMAIN sends[e[1]]}
At(e) == sends[e[1]][e[2]]
ElementsOf(ch) == {e \in Elements : At(e).ch = ch}

\* The keys values may be stored under.
Keys == {ValueKey(e[1], At(e)) : e \in {x \in ElementsOf("vr") : Stored(At(x))}}

Channels == {"pi", "vr", "ra", "err"}

ASSUME ResFilesAssumption ==
    /\ ResFiles \in Seq(Files)
    \* walk.Files returns no path twice
    /\ \A i, j \in DOMAIN ResFiles : ResFiles[i] = ResFiles[j] => i = j
ASSUME SendsAssumption ==
    /\ \A f \in Values : sends[f] \in Seq({At(e) : e \in Elements})
    /\ \A e \in Elements : At(e).ch \in {"vr", "ra", "err"}
\* syncParseReader sends the attributes of the <resources> tag before what is in it.
ASSUME AttributesAssumption ==
    \A f \in Values : \A i, j \in DOMAIN sends[f] :
        i < j /\ sends[f][j].ch = "ra" => sends[f][i].ch = "ra"
\* The size of a payload is a length.
ASSUME SizesAssumption == \A e \in ElementsOf("vr") : At(e).size \in Nat
ASSUME NoneAssumption == None \notin Files /\ None \notin Elements
ASSUME CancelAssumption == CallerCancels \in BOOLEAN

VARIABLES
    sepPos,           \* the separator's next index into ResFiles
    sepDone,          \* it returned and closed both its channels
    parser,           \* parser[p]: "range", "parse", or "closed" (returned)
    file,             \* file[p]: the file p parses
    pos,              \* pos[p]: the next element p sends
    vrFwd, vrHeld, vrClosed,       \* the merged ValuesResource stream
    raFwd, raHeld, raClosed,       \* the merged ResourcesAttribute stream
    errFwd, errHeld, errClosed,    \* the merged error stream
    open,             \* the channels archive has not yet set to nil
    result,           \* "running", or how Archive returned
    paths, vals, ras, \* what the partitioner collected
    delivered,        \* the elements archive received
    ctxDone,          \* the context of Archive is cancelled
    callerDone        \* the caller's context is cancelled

inClosed == [p \in Parsers |-> parser[p] = "closed"]

VR == INSTANCE FanIn WITH Inputs <- Parsers,
        fwd <- vrFwd, held <- vrHeld, outClosed <- vrClosed
RA == INSTANCE FanIn WITH Inputs <- Parsers,
        fwd <- raFwd, held <- raHeld, outClosed <- raClosed
ER == INSTANCE FanIn WITH Inputs <- Parsers,
        fwd <- errFwd, held <- errHeld, outClosed <- errClosed

vrVars  == <<vrFwd, vrHeld, vrClosed>>
raVars  == <<raFwd, raHeld, raClosed>>
errVars == <<errFwd, errHeld, errClosed>>
sepVars == <<sepPos, sepDone>>
parserVars == <<parser, file, pos>>
collected == <<paths, vals, ras, delivered>>
archiveVars == <<open, result>>
ctxVars == <<ctxDone, callerDone>>
vars == <<sepVars, parserVars, vrVars, raVars, errVars, archiveVars,
          collected, ctxVars>>

TypeOK ==
    /\ sepPos \in 1..(Len(ResFiles) + 1)
    /\ sepDone \in BOOLEAN
    /\ parser \in [Parsers -> {"range", "parse", "closed"}]
    /\ file \in [Parsers -> Values \cup {None}]
    /\ pos \in [Parsers -> Nat \ {0}]
    /\ VR!FanTypeOK(ElementsOf("vr"))
    /\ RA!FanTypeOK(ElementsOf("ra"))
    /\ ER!FanTypeOK(ElementsOf("err"))
    /\ open \subseteq Channels
    /\ result \in {"running", "ok", "errors", "values", "close"}
    /\ paths \subseteq Files
    /\ DOMAIN vals \subseteq Keys /\ DOMAIN ras \subseteq Values
    /\ delivered \subseteq Elements
    /\ ctxDone \in BOOLEAN /\ callerDone \in BOOLEAN

Init ==
    /\ sepPos = 1 /\ sepDone = FALSE
    /\ parser = [p \in Parsers |-> "range"]
    /\ file = [p \in Parsers |-> None]
    /\ pos = [p \in Parsers |-> 1]
    /\ VR!FanInit /\ RA!FanInit /\ ER!FanInit
    /\ open = Channels /\ result = "running"
    /\ paths = {} /\ vals = EmptyMap /\ ras = EmptyMap /\ delivered = {}
    /\ ctxDone = FALSE /\ callerDone = FALSE
-----------------------------------------------------------------------------
(* separatePathInfosByValues *)

Current == ResFiles[sepPos]
Emitting == ~sepDone /\ sepPos <= Len(ResFiles)

\* The select took <-ctx.Done(), or every PathInfo was sent: both channels close.
SeparatorReturns ==
    /\ ~sepDone
    /\ ctxDone \/ sepPos > Len(ResFiles)
    /\ sepDone' = TRUE
    /\ UNCHANGED <<sepPos, parserVars, vrVars, raVars, errVars, archiveVars,
                   collected, ctxVars>>
-----------------------------------------------------------------------------
(* handleValuesPathInfos *)

\* Mutant of TakeFile: every file counts as a values file.
TakeAnyFile(p) ==
    /\ Emitting
    /\ parser[p] = "range"
    /\ parser' = [parser EXCEPT ![p] = "parse"]
    /\ file' = [file EXCEPT ![p] = Current]
    /\ pos' = [pos EXCEPT ![p] = 1]
    /\ sepPos' = sepPos + 1
    /\ UNCHANGED <<sepDone, vrVars, raVars, errVars, archiveVars, collected,
                   ctxVars>>

\* The separator sends a values file and parser p receives it.
TakeFile(p) ==
    /\ Emitting /\ IsValues[Current]
    /\ parser[p] = "range"
    /\ parser' = [parser EXCEPT ![p] = "parse"]
    /\ file' = [file EXCEPT ![p] = Current]
    /\ pos' = [pos EXCEPT ![p] = 1]
    /\ sepPos' = sepPos + 1
    /\ UNCHANGED <<sepDone, vrVars, raVars, errVars, archiveVars, collected,
                   ctxVars>>

Sending(p, ch) == /\ parser[p] = "parse"
                  /\ pos[p] \in DOMAIN sends[file[p]]
                  /\ sends[file[p]][pos[p]].ch = ch

Sent(p) == /\ pos' = [pos EXCEPT ![p] = @ + 1]
           /\ UNCHANGED <<parser, file>>

\* raC <- &ResourcesAttribute{...}: this send does not watch the context.
SendAttribute(p) ==
    /\ Sending(p, "ra")
    /\ RA!Take(p, <<file[p], pos[p]>>)
    /\ Sent(p)
    /\ UNCHANGED <<sepVars, vrVars, errVars, archiveVars, collected, ctxVars>>

\* sendVR returns true.
SendValue(p) ==
    /\ Sending(p, "vr")
    /\ VR!Take(p, <<file[p], pos[p]>>)
    /\ Sent(p)
    /\ UNCHANGED <<sepVars, raVars, errVars, archiveVars, collected, ctxVars>>

\* sendErr returns true.
SendError(p) ==
    /\ Sending(p, "err")
    /\ ER!Take(p, <<file[p], pos[p]>>)
    /\ Sent(p)
    /\ UNCHANGED <<sepVars, vrVars, raVars, archiveVars, collected, ctxVars>>

\* Mutant of SendCancelled: sendVR does not watch the context.
SendCancelledErr(p) ==
    /\ Sending(p, "err")
    /\ ctxDone
    /\ parser' = [parser EXCEPT ![p] = "closed"]
    /\ UNCHANGED <<file, pos, sepVars, vrVars, raVars, errVars, archiveVars,
                   collected, ctxVars>>

\* sendVR or sendErr returns false; syncParse does too and the parser returns,
\* its deferred closes run.
SendCancelled(p) ==
    /\ Sending(p, "vr") \/ Sending(p, "err")
    /\ ctxDone
    /\ parser' = [parser EXCEPT ![p] = "closed"]
    /\ UNCHANGED <<file, pos, sepVars, vrVars, raVars, errVars, archiveVars,
                   collected, ctxVars>>

\* syncParse returns true: on to the next file.
FileDone(p) ==
    /\ parser[p] = "parse" /\ pos[p] \notin DOMAIN sends[file[p]]
    /\ parser' = [parser EXCEPT ![p] = "range"]
    /\ UNCHANGED <<file, pos, sepVars, vrVars, raVars, errVars, archiveVars,
                   collected, ctxVars>>

\* The range over the PathInfo channel ends; the deferred closes run.
NoMoreFiles(p) ==
    /\ parser[p] = "range" /\ sepDone
    /\ parser' = [parser EXCEPT ![p] = "closed"]
    /\ UNCHANGED <<file, pos, sepVars, vrVars, raVars, errVars, archiveVars,
                   collected, ctxVars>>
-----------------------------------------------------------------------------
(* The forwarders and closers of the merged streams *)

StreamVR == /\ VR!FanStep
            /\ UNCHANGED <<sepVars, parserVars, raVars, errVars, archiveVars,
                           collected, ctxVars>>
StreamRA == /\ RA!FanStep
            /\ UNCHANGED <<sepVars, parserVars, vrVars, errVars, archiveVars,
                           collected, ctxVars>>
StreamErr == /\ ER!FanStep
             /\ UNCHANGED <<sepVars, parserVars, vrVars, raVars, archiveVars,
                            collected, ctxVars>>
-----------------------------------------------------------------------------
(* archive *)

Looping(ch) == result = "running" /\ ch \in open

\* Archive returns r and its deferred cancel() runs.
Return(r) == result' = r /\ ctxDone' = TRUE

\* Mutant of ReceiveError: the error is logged and the loop goes on.
ReceiveErrorGoesOn(p) ==
    /\ Looping("err")
    /\ ER!Hand(p)
    /\ delivered' = delivered \cup {errHeld[p]}
    /\ UNCHANGED <<sepVars, parserVars, vrVars, raVars, archiveVars, paths, vals,
                   ras, ctxVars>>

\* e, ok := <-errC: the loop breaks and Archive returns the error.
ReceiveError(p) ==
    /\ Looping("err")
    /\ ER!Hand(p)
    /\ delivered' = delivered \cup {errHeld[p]}
    /\ Return("errors")
    /\ UNCHANGED <<sepVars, parserVars, vrVars, raVars, open, paths, vals, ras,
                   callerDone>>

ReceiveAttribute(p) ==
    /\ Looping("ra")
    /\ RA!Hand(p)
    /\ delivered' = delivered \cup {raHeld[p]}
    /\ ras' = CollectResourcesAttribute(ras, raHeld[p][1], At(raHeld[p]).attr)
    /\ UNCHANGED <<sepVars, parserVars, vrVars, errVars, archiveVars, paths,
                   vals, ctxVars>>

\* The separator sends a file that is not a values file and archive collects it.
ReceivePath ==
    /\ Looping("pi")
    /\ Emitting /\ ~IsValues[Current]
    /\ sepPos' = sepPos + 1
    /\ paths' = CollectPathResource(paths, Current, Type[Current])
    /\ UNCHANGED <<sepDone, parserVars, vrVars, raVars, errVars, archiveVars,
                   vals, ras, delivered, ctxVars>>

ReceiveValue(p) ==
    /\ Looping("vr")
    /\ VR!Hand(p)
    /\ delivered' = delivered \cup {vrHeld[p]}
    /\ IF Conflict(vals, vrHeld[p][1], At(vrHeld[p]))
       THEN Return("values") /\ UNCHANGED vals
       ELSE /\ vals' = CollectValues(vals, vrHeld[p][1], At(vrHeld[p]))
            /\ UNCHANGED <<result, ctxDone>>
    /\ UNCHANGED <<sepVars, parserVars, raVars, errVars, open, paths, ras,
                   callerDone>>

ChannelClosed == [pi |-> sepDone, vr |-> vrClosed, ra |-> raClosed,
                  err |-> errClosed]

\* Mutant of SeeClosed: the closed channel is not set to nil.
SeeClosedKeeps(ch) == Looping(ch) /\ ChannelClosed[ch] /\ UNCHANGED vars

\* A receive on a closed channel: archive sets the channel to nil.
SeeClosed(ch) ==
    /\ Looping(ch) /\ ChannelClosed[ch]
    /\ open' = open \ {ch}
    /\ UNCHANGED <<result, sepVars, parserVars, vrVars, raVars, errVars,
                   collected, ctxVars>>

\* Mutant of ClosePartitioner: the loop does not wait for raC to be nil.
CloseWithoutRA ==
    /\ result = "running" /\ open \subseteq {"ra"}
    /\ \E r \in {"ok", "close"} : Return(r)
    /\ UNCHANGED <<open, sepVars, parserVars, vrVars, raVars, errVars,
                   collected, callerDone>>

\* Every channel is nil: Partitioner.Close, which succeeds or not (the session's
\* Close is module PartitionClose).
ClosePartitioner ==
    /\ result = "running" /\ open = {}
    /\ \E r \in {"ok", "close"} : Return(r)
    /\ UNCHANGED <<open, sepVars, parserVars, vrVars, raVars, errVars,
                   collected, callerDone>>

\* The caller cancels the context it passed to Archive.
Cancel ==
    /\ CallerCancels /\ ~callerDone
    /\ callerDone' = TRUE /\ ctxDone' = TRUE
    /\ UNCHANGED <<sepVars, parserVars, vrVars, raVars, errVars, archiveVars,
                   collected>>
-----------------------------------------------------------------------------
Parser(p) == \/ TakeFile(p)
             \/ SendAttribute(p) \/ SendValue(p) \/ SendError(p)
             \/ SendCancelled(p)
             \/ FileDone(p) \/ NoMoreFiles(p)

Archive == \/ \E p \in Parsers : \/ ReceiveError(p) \/ ReceiveAttribute(p)
                                 \/ ReceiveValue(p)
           \/ ReceivePath
           \/ \E ch \in Channels : SeeClosed(ch)
           \/ ClosePartitioner

\* Archive has returned: main exits, the goroutines left behind end with it.
Returned == result # "running" /\ UNCHANGED vars

Next == \/ SeparatorReturns
        \/ \E p \in Parsers : Parser(p)
        \/ StreamVR \/ StreamRA \/ StreamErr
        \/ Archive
        \/ Cancel
        \/ Returned

Spec == Init /\ [][Next]_vars

\* Every goroutine that can run is scheduled; nobody has to cancel.
Fairness == /\ WF_vars(SeparatorReturns)
            /\ \A p \in Parsers : WF_vars(Parser(p))
            /\ WF_vars(StreamVR) /\ WF_vars(StreamRA) /\ WF_vars(StreamErr)
            /\ WF_vars(Archive)
FairSpec == Spec /\ Fairness
-----------------------------------------------------------------------------
(* Properties *)

Succeeded == result = "ok" /\ ~callerDone

\* Success means everything was seen: when Archive returns nil, every element
\* any parser had to send was received and every accepted path collected (the
\* loop of archive ends only when all four channels are closed).
NothingLost ==
    Succeeded => /\ delivered = Elements
                 /\ paths = {f \in Files \ Values : isTypeAccepted(Type[f])}

\* An error of any file makes Archive fail: no schedule of the parsers, the
\* mergers and the select of archive loses one ("errs = append(errs, e)").
ErrorSurfaces == Succeeded => ElementsOf("err") = {}

\* The stored values of file f under key k, by their index in sends[f].
Candidates(f, k) == {j \in DOMAIN sends[f] :
    At(<<f, j>>).ch = "vr" /\ Stored(At(<<f, j>>)) /\ ValueKey(f, At(<<f, j>>)) = k}

Longest(S, f) == {j \in S : \A i \in S : At(<<f, i>>).size <= At(<<f, j>>).size}

\* What is collected does not depend on the schedule: on success each name of
\* each file has the longest of its payloads, and that one is unique (doc of
\* CollectValues: "stores the xml representation of a particular resource from
\* a particular file").
ValuesDetermined ==
    Succeeded =>
        /\ DOMAIN vals = Keys
        /\ \A k \in Keys : \A j \in Longest(Candidates(k[1], k), k[1]) :
               vals[k] = Payload(At(<<k[1], j>>))

\* The attributes collected for a file are, at every moment, the first of those
\* its <resources> tag has, in document order, however the files of other
\* parsers interleave (CollectResourcesAttribute appends what raC delivers).
AttributesInOrder ==
    \A f \in DOMAIN ras :
        /\ Len(ras[f]) <= Len(sends[f])
        /\ \A j \in DOMAIN ras[f] : sends[f][j].ch = "ra" /\ sends[f][j].attr = ras[f][j]

\* A parser that sends an attribute to a stream whose forwarder gave up.
Stuck(p) == Sending(p, "ra") /\ raFwd[p] = "done"

Exited(p) == /\ sepDone /\ parser[p] = "closed"
             /\ vrFwd[p] = "done" /\ raFwd[p] = "done" /\ errFwd[p] = "done"

\* Archive returns, and every parser and its forwarders exit, except a parser that
\* has attributes to send when the context is done: "raC <- ..." is the one send
\* of a parser that does not watch the context.  Only if its caller cancels can
\* Archive itself hang, behind such a parser.
Ends ==
    <>(/\ \A p \in Parsers : Exited(p) \/ Stuck(p)
       /\ result # "running" \/ (callerDone /\ \E p \in Parsers : Stuck(p)))
=============================================================================
