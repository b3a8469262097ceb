----------------------------- MODULE ValuesParse -----------------------------
(***************************************************************************)
(* The pipeline that liteparse runs for the contents of one file:          *)
(* StreamDoc and ForwardChildren of res/resxml/xml_parser.go, valuesParse  *)
(* of liteparse/values_parse.go and nonValuesParse of                      *)
(* liteparse/non_values_parse.go.                                          *)
(*                                                                         *)
(* A document is a sequence of tokens [t, tag, name]: t is "start", "end"  *)
(* or "text", name what extractName and ParseName make of the name         *)
(* attribute of a start tag ("ok", "bad", "none", or "android" for an attr *)
(* of that package; for a file that is not a values file, what its @+id    *)
(* attribute is).  An event is the position of its token in the document,  *)
(* and a goroutine of ForwardChildren is named by its start event.  The    *)
(* consumer of the two output channels always receives, so that a send is  *)
(* an append to out.                                                       *)
(***************************************************************************)
EXTENDS Naturals, Sequences, FiniteSets, SequencesExt

CONSTANTS
    Inputs,           \* the files: records [doc, torn, isValues]
    Types,            \* the tags of res.ResourcesTagToType
    CallerCancels     \* TRUE if the context may be cancelled

ASSUME InputsAssumption == \A f \in Inputs :
    /\ f.doc \in Seq([t : {"start", "end", "text"}, tag : STRING,
                      name : {"ok", "bad", "none", "android"}])
    /\ f.torn \in BOOLEAN /\ f.isValues \in BOOLEAN

VARIABLES
    input,            \* the file, which never changes
    sent,             \* StreamDoc sent doc[1..sent]
    streamDone,       \* StreamDoc returned: xmlC and its error channel are closed
    xmlErr,           \* StreamDoc sent its error
    fwd,              \* fwd[f]: "off", "range", or "done" (its channel is closed)
    parent,           \* the channel that forwarder f receives from
    count,            \* forwarder f: its count of open tags
    queue,            \* forwarder f: what it received and nobody took (hand and buffer)
    main,             \* where valuesParse or nonValuesParse is
    root,             \* the <resources> whose children it reads
    cur,              \* the start tag beneath <resources> that it handles
    sub,              \* the <attr> of a styleable that it handles
    out,              \* the resources and errors it sent, in order
    ctxDone

doc == input.doc           \* the tokens, up to the end or to the malformed one
torn == input.torn         \* decoder.Token fails after them
IsValues == input.isValues \* the file lies in a values directory

ctxVars == <<input, ctxDone>>
streamVars == <<sent, streamDone, xmlErr>>
fwdVars == <<fwd, parent, count, queue>>
mainVars == <<main, root, cur, sub, out>>
vars == <<streamVars, fwdVars, mainVars, ctxVars>>

Xml == 0          \* the channel of StreamDoc; that of forwarder f is f
Channels == {Xml} \cup DOMAIN doc

TypeOK ==
    /\ input \in Inputs
    /\ sent \in 0..Len(doc) /\ streamDone \in BOOLEAN /\ xmlErr \in BOOLEAN
    /\ fwd \in [DOMAIN doc -> {"off", "range", "done"}]
    /\ parent \in [DOMAIN doc -> Channels]
    /\ count \in [DOMAIN doc -> Nat]
    /\ \A f \in DOMAIN doc : queue[f] \in Seq(DOMAIN doc) /\ Len(queue[f]) <= 2
    /\ main \in {"ids", "seek", "children", "tag", "send", "styleable", "subattr",
                 "sendattr", "attr", "drain", "nilmeta", "done", "panic"}
    /\ {root, cur, sub} \subseteq Channels
    /\ out \in Seq({"res", "err"} \X DOMAIN doc)
    /\ ctxDone \in BOOLEAN

Init ==
    /\ input \in Inputs
    /\ sent = 0 /\ streamDone = FALSE /\ xmlErr = FALSE
    /\ fwd = [f \in DOMAIN doc |-> "off"]
    /\ parent = [f \in DOMAIN doc |-> Xml]
    /\ count = [f \in DOMAIN doc |-> 0]
    /\ queue = [f \in DOMAIN doc |-> << >>]
    /\ main = IF IsValues THEN "seek" ELSE "ids"
    /\ root = Xml /\ cur = Xml /\ sub = Xml
    /\ out = << >>
    /\ ctxDone = FALSE
-----------------------------------------------------------------------------
CanTake(c) == IF c = Xml THEN ~streamDone /\ sent < Len(doc) ELSE queue[c] # << >>
NextOf(c) == IF c = Xml THEN sent + 1 ELSE Head(queue[c])
Closed(c) == IF c = Xml THEN streamDone ELSE fwd[c] = "done" /\ queue[c] = << >>

\* What is left in the queues once an event was received from c.
Rest(c) == IF c = Xml THEN queue ELSE [queue EXCEPT ![c] = Tail(@)]

\* Receiving from c.
Took(c) == /\ sent' = IF c = Xml THEN sent + 1 ELSE sent
           /\ UNCHANGED <<streamDone, xmlErr>>

\* A receive of the main goroutine that starts no forwarder, and one that starts
\* the forwarder of the event x.
TookMain(c) == Took(c) /\ queue' = Rest(c) /\ UNCHANGED <<fwd, parent, count>>
TookToForward(c, x) ==
    /\ Took(c) /\ queue' = Rest(c)
    /\ fwd' = [fwd EXCEPT ![x] = "range"]
    /\ parent' = [parent EXCEPT ![x] = c]
    /\ count' = [count EXCEPT ![x] = 1]

\* A panic of one goroutine ends the process.
Running == main # "panic"
-----------------------------------------------------------------------------
(* StreamDoc *)

\* The decoder reports the end of the file, or SendXML the end of the context.
StreamReturns ==
    /\ Running /\ ~streamDone
    /\ (sent = Len(doc) /\ ~torn) \/ ctxDone
    /\ streamDone' = TRUE
    /\ UNCHANGED <<sent, xmlErr, fwdVars, mainVars, ctxVars>>

\* The decoder fails: SendErr, and both channels close.
StreamFails ==
    /\ Running /\ ~streamDone /\ sent = Len(doc) /\ torn
    /\ streamDone' = TRUE /\ xmlErr' = TRUE
    /\ UNCHANGED <<sent, fwdVars, mainVars, ctxVars>>
-----------------------------------------------------------------------------
(* ForwardChildren, one goroutine for each call.  Nothing stops the one whose   *)
(* channel is no longer read: it goes on receiving from its parent until it is  *)
(* blocked with its own channel full.                                           *)

\* Mutant of Depth: tags of the same name are not counted.
DepthFlat(f, x) == IF doc[x].t = "end" /\ doc[x].tag = doc[f].tag THEN 0 ELSE count[f]

\* The count of forwarder f after the event x.
Depth(f, x) == CASE doc[x].tag # doc[f].tag -> count[f]
                 [] doc[x].t = "start" -> count[f] + 1
                 [] doc[x].t = "end" -> count[f] - 1
                 [] OTHER -> count[f]

\* Mutant of Forward: the channel has no bound.
ForwardUnbounded(f) ==
    /\ Running /\ fwd[f] = "range" /\ CanTake(parent[f])
    /\ LET c == parent[f]
           x == NextOf(c)
           ends == Depth(f, x) = 0 IN
        /\ Took(c)
        /\ count' = [count EXCEPT ![f] = Depth(f, x)]
        /\ fwd' = IF ends THEN [fwd EXCEPT ![f] = "done"] ELSE fwd
        /\ queue' = IF ends THEN Rest(c) ELSE [Rest(c) EXCEPT ![f] = Append(@, x)]
    /\ UNCHANGED <<parent, mainVars, ctxVars>>

\* The forwarder receives an event: the matching end closes its channel, any
\* other is sent on (channel of capacity 1, one more event in its hand).
Forward(f) ==
    /\ Running /\ fwd[f] = "range" /\ Len(queue[f]) < 2 /\ CanTake(parent[f])
    /\ LET c == parent[f]
           x == NextOf(c)
           ends == Depth(f, x) = 0 IN
        /\ Took(c)
        /\ count' = [count EXCEPT ![f] = Depth(f, x)]
        /\ fwd' = IF ends THEN [fwd EXCEPT ![f] = "done"] ELSE fwd
        /\ queue' = IF ends THEN Rest(c) ELSE [Rest(c) EXCEPT ![f] = Append(@, x)]
    /\ UNCHANGED <<parent, mainVars, ctxVars>>

\* Mutant of ForwardEnds: SendXML does not watch the context.
ForwardEndsClosed(f) ==
    /\ Running /\ fwd[f] = "range" /\ Closed(parent[f]) /\ Len(queue[f]) < 2
    /\ fwd' = [fwd EXCEPT ![f] = "done"]
    /\ UNCHANGED <<parent, count, queue, streamVars, mainVars, ctxVars>>

\* Its range ends, or SendXML sees the context done and drops what it has in hand.
ForwardEnds(f) ==
    /\ Running /\ fwd[f] = "range"
    /\ \/ Closed(parent[f]) /\ Len(queue[f]) < 2 /\ UNCHANGED queue
       \/ queue[f] # << >> /\ ctxDone /\ queue' = [queue EXCEPT ![f] = Front(@)]
    /\ fwd' = [fwd EXCEPT ![f] = "done"]
    /\ UNCHANGED <<parent, count, streamVars, mainVars, ctxVars>>
-----------------------------------------------------------------------------
(* The goroutine of valuesParse and nonValuesParse *)

IsStart(x) == doc[x].t = "start"
Named(x) == doc[x].name \in {"ok", "android"}

\* A send whose select took the channel.
Send(kind, x) == out' = Append(out, <<kind, x>>)

\* "for xe := range xmlC" of nonValuesParse.
ParseIds ==
    /\ main = "ids" /\ CanTake(Xml)
    /\ LET x == NextOf(Xml) IN
        IF IsStart(x) /\ doc[x].name # "none"
        THEN Send(IF Named(x) THEN "res" ELSE "err", x)
        ELSE UNCHANGED out
    /\ TookMain(Xml)
    /\ UNCHANGED <<main, root, cur, sub, ctxVars>>

\* ConsumeUntil: on <resources>, ForwardChildren.
Seek ==
    /\ main = "seek" /\ CanTake(Xml)
    /\ LET x == NextOf(Xml) IN
        IF IsStart(x) /\ doc[x].tag = "resources"
        THEN main' = "children" /\ root' = x /\ TookToForward(Xml, x)
        ELSE TookMain(Xml) /\ UNCHANGED <<main, root>>
    /\ UNCHANGED <<cur, sub, out, ctxVars>>

\* What the start tag x beneath <resources> is to valuesParse.
Handle(x) ==
    CASE doc[x].tag \notin Types \cup {"item"} -> "drain"
      [] ~Named(x) -> "send"
      [] doc[x].tag = "declare-styleable" -> "styleable"
      [] doc[x].tag = "attr" -> "attr"
      [] OTHER -> "send"

\* The range over the children of <resources>: a start tag gets a forwarder.
Child ==
    /\ main = "children" /\ CanTake(root)
    /\ LET x == NextOf(root) IN
        IF IsStart(x)
        THEN main' = Handle(x) /\ cur' = x /\ TookToForward(root, x)
        ELSE TookMain(root) /\ UNCHANGED <<main, cur>>
    /\ UNCHANGED <<root, sub, out, ctxVars>>

\* The channel of each range loop, and what the loop is followed by.
After == [ids |-> "done", seek |-> "done", children |-> "seek", drain |-> "children",
          styleable |-> "send", attr |-> "send", subattr |-> "sendattr"]
Channel == [ids |-> Xml, seek |-> Xml, children |-> root, drain |-> cur,
            styleable |-> cur, attr |-> cur, subattr |-> sub]

RangeEnds ==
    /\ main \in DOMAIN After
    /\ Closed(Channel[main])
    /\ main' = After[main]
    /\ UNCHANGED <<root, cur, sub, out, fwdVars, streamVars, ctxVars>>

\* The resource of the tag itself, or the error that it has none; then the
\* events left of the tag are read.
SendTag ==
    /\ main = "send"
    /\ Send(IF Named(cur) THEN "res" ELSE "err", cur)
    /\ main' = "drain"
    /\ UNCHANGED <<root, cur, sub, fwdVars, streamVars, ctxVars>>

Drain ==
    /\ main = "drain" /\ CanTake(cur)
    /\ TookMain(cur)
    /\ UNCHANGED <<mainVars, ctxVars>>

\* Mutant of EnumTag: an error ends the loop without being sent.
EnumTagSilent(c, at, next) ==
    /\ main = at /\ CanTake(c)
    /\ LET x == NextOf(c) IN
        IF IsStart(x) /\ doc[x].tag \in {"enum", "flag"}
        THEN IF Named(x) THEN Send("res", x) /\ main' = at ELSE main' = next /\ UNCHANGED out
        ELSE UNCHANGED <<out, main>>
    /\ TookMain(c)
    /\ UNCHANGED <<root, cur, sub, ctxVars>>

\* parseAttrChildren: an <enum> or <flag> is an id; an error ends the loop, with
\* the rest of the channel unread, and the caller goes on with next.
EnumTag(c, at, next) ==
    /\ main = at /\ CanTake(c)
    /\ LET x == NextOf(c) IN
        IF IsStart(x) /\ doc[x].tag \in {"enum", "flag"}
        THEN /\ Send(IF Named(x) THEN "res" ELSE "err", x)
             /\ main' = IF Named(x) THEN at ELSE next
        ELSE UNCHANGED <<out, main>>
    /\ TookMain(c)
    /\ UNCHANGED <<root, cur, sub, ctxVars>>

EnumOfAttr == EnumTag(cur, "attr", "send")
EnumOfSubAttr == EnumTag(sub, "subattr", "sendattr")

\* parseStyleableChildren: a bad name ends the loop with a nil StyleableMetaData;
\* a tag without a name, or an attr of android, is passed over, its children are
\* not; another gets a forwarder for its children.
StyleableChild ==
    /\ main = "styleable" /\ CanTake(cur)
    /\ LET x == NextOf(cur) IN
        \/ /\ ~IsStart(x) \/ doc[x].name \in {"none", "android"}
           /\ TookMain(cur) /\ UNCHANGED <<main, sub, out>>
        \/ /\ IsStart(x) /\ doc[x].name = "bad"
           /\ Send("err", x) /\ main' = "nilmeta"
           /\ TookMain(cur) /\ UNCHANGED sub
        \/ /\ IsStart(x) /\ doc[x].name = "ok"
           /\ main' = "subattr" /\ sub' = x
           /\ TookToForward(cur, x) /\ UNCHANGED out
    /\ UNCHANGED <<root, cur, ctxVars>>

\* SetMetaData writes to the nil StyleableMetaData that came with the error.
SetMetaData ==
    /\ main = "nilmeta"
    /\ main' = "panic"
    /\ UNCHANGED <<root, cur, sub, out, fwdVars, streamVars, ctxVars>>

SendSubAttr ==
    /\ main = "sendattr"
    /\ Send("res", sub)
    /\ main' = "styleable"
    /\ UNCHANGED <<root, cur, sub, fwdVars, streamVars, ctxVars>>

\* The events of its loop that make it send something.
Sends(x) == IsStart(x) /\ CASE main = "ids" -> doc[x].name # "none"
                             [] main = "styleable" -> doc[x].name = "bad"
                             [] main \in {"attr", "subattr"} -> doc[x].tag \in {"enum", "flag"}
                             [] OTHER -> FALSE

\* A send saw the context done: the goroutine returns.
SendCancelled ==
    /\ ctxDone
    /\ \/ main \in {"send", "sendattr"}
       \/ main \in DOMAIN Channel /\ CanTake(Channel[main])
            /\ Sends(NextOf(Channel[main]))
    /\ main' = "done"
    /\ UNCHANGED <<root, cur, sub, out, fwdVars, streamVars, ctxVars>>

Cancel ==
    /\ Running /\ CallerCancels /\ ~ctxDone /\ ctxDone' = TRUE
    /\ UNCHANGED <<input, streamVars, fwdVars, mainVars>>
-----------------------------------------------------------------------------
StreamDoc == StreamReturns \/ StreamFails
ForwardChildren(f) == Forward(f) \/ ForwardEnds(f)
Parse == \/ ParseIds \/ Seek \/ Child \/ RangeEnds \/ SendTag \/ Drain
         \/ EnumOfAttr \/ EnumOfSubAttr \/ StyleableChild \/ SetMetaData
         \/ SendSubAttr \/ SendCancelled

\* The main goroutine returned, or took the process with it.
Parsed == main \in {"done", "panic"}

Next == \/ StreamDoc
        \/ \E f \in DOMAIN doc : ForwardChildren(f)
        \/ Parse
        \/ Cancel
        \/ Parsed /\ UNCHANGED vars

Spec == Init /\ [][Next]_vars

\* The positions of the longest document.
Positions == UNION {DOMAIN f.doc : f \in Inputs}

\* Every goroutine that can run is scheduled; nobody has to cancel.
FairSpec == /\ Spec /\ WF_vars(StreamDoc) /\ WF_vars(Parse)
            /\ \A f \in Positions : WF_vars(f \in DOMAIN doc /\ ForwardChildren(f))
-----------------------------------------------------------------------------
(* What the document says, read in order without any pipeline. *)

Starts(S) == {j \in S : IsStart(j)}
Opened(i, j) == Cardinality({k \in i..j : IsStart(k) /\ doc[k].tag = doc[i].tag})
Ended(i, j) == Cardinality({k \in i..j : doc[k].t = "end" /\ doc[k].tag = doc[i].tag})

\* The tokens between the start tag at i and its end, or the end of the document.
Inside(i) ==
    LET ends == {j \in i..Len(doc) : Opened(i, j) = Ended(i, j)}
    IN (i + 1)..(IF ends = {} THEN Len(doc) ELSE Min(ends) - 1)

\* The start tags of S that lie in no other of them.
Outermost(S) == {i \in S : \A j \in S : j < i => i \notin Inside(j)}

\* The indices of S in order, each replaced by what Emit has for it, up to and
\* including the first that Stop has.
InOrderUpTo(S, Stop, Emit) ==
    LET upTo == IF S \cap Stop = {} THEN S ELSE {i \in S : i <= Min(S \cap Stop)}
        order == SelectSeq([k \in DOMAIN doc |-> k], LAMBDA k : k \in upTo)
    IN FlattenSeq([k \in DOMAIN order |-> Emit[order[k]]])

Bad == {i \in Starts(DOMAIN doc) : ~Named(i)}
Itself == [i \in DOMAIN doc |-> <<<<IF Named(i) THEN "res" ELSE "err", i>>>>]

\* parseAttrChildren beneath the tag at i.
Ids(i) == InOrderUpTo({j \in Starts(Inside(i)) : doc[j].tag \in {"enum", "flag"}}, Bad, Itself)

\* parseStyleableChildren beneath the tag at i.
Attrs(i) ==
    LET named == {j \in Starts(Inside(i)) : doc[j].name # "none"}
        read  == {j \in named : \A k \in named :
                    k < j /\ doc[k].name = "ok" => j \notin Inside(k)}
    IN InOrderUpTo(read, Bad, [j \in DOMAIN doc |->
           IF doc[j].name = "android" THEN << >>
           ELSE (IF doc[j].name = "ok" THEN Ids(j) ELSE << >>) \o Itself[j]])

OfTag(i) == CASE Handle(i) = "drain" -> << >>
              [] Handle(i) = "styleable" -> Attrs(i) \o Itself[i]
              [] Handle(i) = "attr" -> Ids(i) \o Itself[i]
              [] OTHER -> Itself[i]

Expected ==
    IF IsValues
    THEN LET roots == Outermost({i \in Starts(DOMAIN doc) : doc[i].tag = "resources"})
             tags == UNION {Outermost(Starts(Inside(i))) : i \in roots}
         IN InOrderUpTo(tags, {}, [i \in DOMAIN doc |-> IF i \in tags THEN OfTag(i) ELSE << >>])
    ELSE InOrderUpTo({i \in Starts(DOMAIN doc) : doc[i].name # "none"}, {}, Itself)
-----------------------------------------------------------------------------
(* Properties *)

\* out up to and including its first error.
UpToError == LET errs == {j \in DOMAIN out : out[j][1] = "err"}
             IN IF errs = {} THEN out ELSE SubSeq(out, 1, Min(errs))

\* Whatever the schedule of the pipeline, what is sent is what the document says,
\* in its order, up to the first error: no event is lost, doubled or read by the
\* wrong level (the nested ForwardChildren of valuesParse).  A document without an
\* error is sent completely; so is, error or not, one that is not a values file.
SendsWhatIsThere ==
    /\ ~ctxDone => IsPrefix(UpToError, Expected)
    /\ main = "done" /\ ~ctxDone /\ ~torn
         /\ (IsValues => \A j \in DOMAIN Expected : Expected[j][1] = "res")
         => out = Expected

\* What the doc of valuesParse promises: "Any encountered resources or errors are
\* passed back on the returned channels" - also behind a tag that has an error.
AllPassedBack == main = "done" /\ ~ctxDone /\ ~torn => out = Expected

\* The first error of the document is always sent, the decoder's or a tag's: no
\* schedule hides it, and no panic of SetMetaData comes before it.
ErrorSent ==
    Parsed /\ ~ctxDone =>
        /\ torn /\ streamDone => xmlErr
        /\ \A j \in DOMAIN Expected :
             Expected[j][1] = "err" /\ (\A k \in 1..(j - 1) : Expected[k][1] = "res")
                => Contains(out, Expected[j])

\* The file is parsed, unless the context is cancelled or the process panics: no
\* error and no cut leaves the main goroutine waiting behind a forwarder, though
\* one may stay behind with a full channel.  When the context is done, every
\* goroutine of the pipeline exits.
Ends ==
    /\ <>(Parsed \/ ctxDone)
    /\ ctxDone ~> \/ main = "panic"
                  \/ main = "done" /\ streamDone /\ \A f \in DOMAIN doc : fwd[f] # "range"
=============================================================================
