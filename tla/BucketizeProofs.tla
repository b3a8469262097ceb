--------------------------- MODULE BucketizeProofs ---------------------------
(***************************************************************************)
(* For any files, any number of parsers and any documents: Archive reports *)
(* success only after it received every element of every file, and so      *)
(* never when a file has an error; what it has collected then is the same  *)
(* for every schedule, and the attributes of a file are always collected   *)
(* in document order.                                                      *)
(***************************************************************************)
EXTENDS Bucketize, TLAPS

\* The files the separator has sent.
Taken == {ResFiles[j] : j \in 1..(sepPos - 1)}

\* A parser at work has a values file, which it got from the separator and
\* which no other parser works on.
Assigned ==
    /\ \A p \in Parsers : parser[p] = "parse" => file[p] \in Values \cap Taken
    /\ \A p, q \in Parsers : p # q /\ parser[p] = "parse" /\ parser[q] = "parse"
                             => file[p] # file[q]

\* A forwarder holds an element only while it sends; it returns uncancelled
\* only after its parser; the merged channel closes only after every forwarder.
Flow(fwd, held, closed) ==
    /\ \A p \in Parsers : fwd[p] = "send" <=> held[p] # None
    /\ \A p \in Parsers : fwd[p] = "done" /\ ~ctxDone => parser[p] = "closed"
    /\ closed => \A p \in Parsers : fwd[p] = "done"

\* Without a cancellation the separator returns after the last file and the
\* parsers return after it; archive gives up a channel only when it is closed.
Closing ==
    /\ ~ctxDone /\ sepDone => sepPos = Len(ResFiles) + 1
    /\ \A p \in Parsers : ~ctxDone /\ parser[p] = "closed" => sepDone
    /\ \A ch \in Channels \ open : ChannelClosed[ch]

\* Element e has left its parser.
Emitted(e) == /\ e[1] \in Taken
              /\ \A p \in Parsers : parser[p] = "parse" /\ file[p] = e[1]
                                    => e[2] < pos[p]

InForwarder(e) ==
    \E p \in Parsers : e = vrHeld[p] \/ e = raHeld[p] \/ e = errHeld[p]

\* Until the context ends, what left a parser is with a forwarder or with archive.
Located == ~ctxDone => \A e \in Elements :
                          Emitted(e) => e \in delivered \/ InForwarder(e)

PathsTaken == paths = {f \in Taken \ Values : isTypeAccepted(Type[f])}

\* An error received ends Archive with it.
ErrorsEnd == delivered \cap ElementsOf("err") # {} => result = "errors"

\* The context of Archive ends with Archive, or with the caller's.
Context == ctxDone => result # "running" \/ callerDone

\* The inductive invariant.
IInv == /\ TypeOK /\ Assigned /\ Closing
        /\ Flow(vrFwd, vrHeld, vrClosed)
        /\ Flow(raFwd, raHeld, raClosed)
        /\ Flow(errFwd, errHeld, errClosed)
        /\ Located /\ PathsTaken /\ ErrorsEnd /\ Context
        /\ NothingLost

USE DEF inClosed, vrVars, raVars, errVars, sepVars, parserVars, collected,
        archiveVars, ctxVars
-----------------------------------------------------------------------------
(* Facts about the constants and about what the separator has sent *)

\* A file's elements are numbered from 1.
LEMMA SendsDomain ==
    ASSUME NEW f \in Values
    PROVE  \E n \in Nat : DOMAIN sends[f] = 1..n
  BY SendsAssumption

LEMMA ElementFacts ==
    ASSUME NEW e \in Elements
    PROVE  /\ e[1] \in Values /\ e[2] \in DOMAIN sends[e[1]] /\ e[2] \in Nat \ {0}
           /\ e = <<e[1], e[2]>>
           /\ At(e).ch \in {"vr", "ra", "err"}
  <1>1. /\ e[1] \in Values /\ e[2] \in DOMAIN sends[e[1]]
        /\ e = <<e[1], e[2]>>
    BY DEF Elements
  <1>2. e[2] \in Nat \ {0}
    BY <1>1, SendsDomain
  <1> QED
    BY <1>1, <1>2, SendsAssumption

\* The element a parser is about to send.
LEMMA SendingFacts ==
    ASSUME TypeOK, Assigned, NEW p \in Parsers, NEW ch \in {"vr", "ra", "err"},
           Sending(p, ch)
    PROVE  /\ <<file[p], pos[p]>> \in ElementsOf(ch)
           /\ file[p] \in Values /\ file[p] \in Taken
  <1> DEFINE e == <<file[p], pos[p]>>
  <1>1. file[p] \in Values /\ file[p] \in Taken
    BY DEF Sending, Assigned
  <1>2. pos[p] \in DOMAIN sends[file[p]]
    BY DEF Sending
  <1>3. pos[p] \in Indices
    BY <1>1, <1>2 DEF Indices
  <1>4. e \in Values \X Indices /\ e[1] = file[p] /\ e[2] = pos[p]
    BY <1>1, <1>3
  <1>5. At(e).ch = ch
    BY <1>4 DEF At, Sending
  <1> HIDE DEF e
  <1>6. e \in Elements
    BY <1>2, <1>4 DEF Elements
  <1>7. e \in ElementsOf(ch)
    BY <1>5, <1>6 DEF ElementsOf
  <1>8. <<file[p], pos[p]>> \in ElementsOf(ch)
    BY <1>7 DEF e
  <1> QED
    BY <1>1, <1>8

\* Sending one more file: it was not sent before.
LEMMA TakenGrows ==
    ASSUME TypeOK, sepPos <= Len(ResFiles), sepPos' = sepPos + 1
    PROVE  /\ Taken' = Taken \cup {Current}
           /\ Current \notin Taken
           /\ Current \in Files
  <1>1. sepPos \in Nat \ {0} /\ Len(ResFiles) \in Nat /\ DOMAIN ResFiles = 1..Len(ResFiles)
    BY ResFilesAssumption DEF TypeOK
  <1>2. 1..(sepPos' - 1) = (1..(sepPos - 1)) \cup {sepPos}
    BY <1>1
  <1>3. Taken' = Taken \cup {Current}
    BY <1>2 DEF Taken, Current
  <1>4. sepPos \in DOMAIN ResFiles /\ 1..(sepPos - 1) \subseteq DOMAIN ResFiles
    BY <1>1
  <1>5. Current \notin Taken
    <2> SUFFICES ASSUME NEW j \in 1..(sepPos - 1), ResFiles[j] = ResFiles[sepPos]
                 PROVE  FALSE
      BY DEF Taken, Current
    <2>1. j \in DOMAIN ResFiles /\ j # sepPos
      BY <1>1, <1>4
    <2> QED
      BY <1>4, <2>1, ResFilesAssumption
  <1>6. Current \in Files
    BY <1>4 DEF Current, Files
  <1> QED
    BY <1>3, <1>5, <1>6

\* Once it sent all, the separator has sent every file.
LEMMA TakenAll ==
    ASSUME sepPos = Len(ResFiles) + 1 PROVE Taken = Files
  <1>1. Len(ResFiles) \in Nat /\ DOMAIN ResFiles = 1..Len(ResFiles)
    BY ResFilesAssumption
  <1>2. 1..(sepPos - 1) = DOMAIN ResFiles
    BY <1>1
  <1> QED
    BY <1>2 DEF Taken, Files

LEMMA TakenSubset == TypeOK => Taken \subseteq Files
  <1> SUFFICES ASSUME TypeOK PROVE Taken \subseteq Files
    OBVIOUS
  <1>1. sepPos \in Nat /\ sepPos <= Len(ResFiles) + 1 /\ Len(ResFiles) \in Nat
        /\ DOMAIN ResFiles = 1..Len(ResFiles)
    BY ResFilesAssumption DEF TypeOK
  <1>2. 1..(sepPos - 1) \subseteq DOMAIN ResFiles
    BY <1>1
  <1> QED
    BY <1>2 DEF Taken, Files
-----------------------------------------------------------------------------
(* The parts of the invariant that steps of other goroutines leave alone *)

LEMMA ArchiveIdle ==
    ASSUME IInv, UNCHANGED <<sepPos, archiveVars, collected, ctxVars>>
    PROVE  PathsTaken' /\ ErrorsEnd' /\ Context' /\ NothingLost'
  BY DEF IInv, PathsTaken, Taken, ErrorsEnd, Context, NothingLost, Succeeded

LEMMA VRFlowIdle ==
    ASSUME IInv, UNCHANGED <<vrVars, parser>>, ctxDone => ctxDone'
    PROVE  Flow(vrFwd, vrHeld, vrClosed)'
  BY DEF IInv, Flow

LEMMA RAFlowIdle ==
    ASSUME IInv, UNCHANGED <<raVars, parser>>, ctxDone => ctxDone'
    PROVE  Flow(raFwd, raHeld, raClosed)'
  BY DEF IInv, Flow

LEMMA ErrFlowIdle ==
    ASSUME IInv, UNCHANGED <<errVars, parser>>, ctxDone => ctxDone'
    PROVE  Flow(errFwd, errHeld, errClosed)'
  BY DEF IInv, Flow
-----------------------------------------------------------------------------
(* Each action preserves the invariant *)

LEMMA SeparatorReturnsInv == ASSUME IInv, SeparatorReturns PROVE IInv'
  <1> USE DEF SeparatorReturns
  <1>1. TypeOK'
    BY DEF IInv, TypeOK, VR!FanTypeOK, RA!FanTypeOK, ER!FanTypeOK
  <1>2. Assigned'
    BY DEF IInv, Assigned, Taken
  <1>3. Closing'
    BY ResFilesAssumption DEF IInv, Closing, TypeOK, ChannelClosed, Channels
  <1>4. Located'
    BY DEF IInv, Located, Emitted, InForwarder, Taken
  <1> QED
    BY <1>1, <1>2, <1>3, <1>4, ArchiveIdle, VRFlowIdle, RAFlowIdle, ErrFlowIdle
    DEF IInv

LEMMA TakeFileInv == ASSUME IInv, NEW p \in Parsers, TakeFile(p) PROVE IInv'
  <1> USE DEF TakeFile
  <1>0. /\ TypeOK /\ Assigned /\ Closing /\ Located
        /\ sepPos <= Len(ResFiles) /\ sepPos' = sepPos + 1
    BY DEF IInv, Emitting
  <1>1. Taken' = Taken \cup {Current} /\ Current \notin Taken /\ Current \in Files
    BY <1>0, TakenGrows
  <1>2. Current \in Values
    BY <1>1 DEF Values
  <1>3. TypeOK'
    <2>1. sepPos' \in 1..(Len(ResFiles) + 1)
      BY <1>0, ResFilesAssumption DEF TypeOK
    <2>2. /\ parser' \in [Parsers -> {"range", "parse", "closed"}]
          /\ file' \in [Parsers -> Values \cup {None}]
          /\ pos' \in [Parsers -> Nat \ {0}]
      BY <1>0, <1>2 DEF TypeOK
    <2> QED
      BY <1>0, <2>1, <2>2
      DEF TypeOK, VR!FanTypeOK, RA!FanTypeOK, ER!FanTypeOK
  <1>4. Assigned'
    <2>1. /\ parser'[p] = "parse" /\ file'[p] = Current
          /\ \A q \in Parsers \ {p} : parser'[q] = parser[q] /\ file'[q] = file[q]
      BY <1>0 DEF TypeOK
    <2>2. \A q \in Parsers \ {p} : parser[q] = "parse" => file[q] # Current
      BY <1>0, <1>1 DEF Assigned
    <2> QED
      BY <1>0, <1>1, <1>2, <2>1, <2>2 DEF Assigned
  <1>5. Closing'
    BY <1>0, ResFilesAssumption
    DEF Closing, TypeOK, ChannelClosed, Channels, Emitting
  <1>6. Located'
    <2> SUFFICES ASSUME ~ctxDone, NEW e \in Elements, Emitted(e)'
                 PROVE  (e \in delivered \/ InForwarder(e))'
      BY DEF Located
    <2>1. e[2] \in Nat \ {0}
      BY ElementFacts
    <2>2. parser'[p] = "parse" /\ file'[p] = Current /\ pos'[p] = 1
      BY <1>0 DEF TypeOK
    <2>3. e[1] # Current
      BY <2>1, <2>2 DEF Emitted
    <2>4. Emitted(e)
      <3>1. e[1] \in Taken
        BY <1>1, <2>3 DEF Emitted
      <3>2. ASSUME NEW q \in Parsers, parser[q] = "parse", file[q] = e[1]
            PROVE  e[2] < pos[q]
        <4>1. q # p
          BY <3>2
        <4>2. parser'[q] = parser[q] /\ file'[q] = file[q] /\ pos'[q] = pos[q]
          BY <1>0, <4>1 DEF TypeOK
        <4> QED
          BY <3>2, <4>2 DEF Emitted
      <3> QED
        BY <3>1, <3>2 DEF Emitted
    <2> QED
      BY <1>0, <2>4 DEF Located, InForwarder
  <1>7. Flow(vrFwd, vrHeld, vrClosed)' /\ Flow(raFwd, raHeld, raClosed)'
        /\ Flow(errFwd, errHeld, errClosed)'
    BY <1>0 DEF IInv, Flow, TypeOK
  <1>8. PathsTaken'
    BY <1>1, <1>2 DEF IInv, PathsTaken
  <1>9. ErrorsEnd' /\ Context' /\ NothingLost'
    BY DEF IInv, ErrorsEnd, Context, NothingLost, Succeeded
  <1> QED
    BY <1>3, <1>4, <1>5, <1>6, <1>7, <1>8, <1>9 DEF IInv

\* What the three sends have in common: element <<file[p], pos[p]>> leaves the
\* parser, some forwarder has it and keeps what the forwarders had.
LEMMA SentLocated ==
    ASSUME IInv, NEW p \in Parsers, NEW ch \in {"vr", "ra", "err"}, Sending(p, ch),
           Sent(p), UNCHANGED <<sepPos, delivered, ctxDone>>,
           NEW d, d = <<file[p], pos[p]>>, InForwarder(d)',
           \A e \in Elements : InForwarder(e) => InForwarder(e)'
    PROVE  Located'
  <1> SUFFICES ASSUME ~ctxDone, NEW e \in Elements, Emitted(e)'
               PROVE  (e \in delivered \/ InForwarder(e))'
    BY DEF Located
  <1>0. TypeOK /\ Located
    BY DEF IInv
  <1>1. /\ parser[p] = "parse" /\ pos[p] \in Nat /\ e[2] \in Nat
        /\ e = <<e[1], e[2]>>
    BY <1>0, ElementFacts DEF Sending, TypeOK
  <1>2. /\ pos'[p] = pos[p] + 1
        /\ \A q \in Parsers \ {p} : pos'[q] = pos[q]
        /\ parser' = parser /\ file' = file /\ Taken' = Taken
    BY <1>0 DEF Sent, TypeOK, Taken
  <1>3. CASE e = d
    BY <1>3
  <1>4. CASE e # d
    <2>1. file[p] = e[1] => e[2] < pos[p]
      <3> SUFFICES ASSUME file[p] = e[1] PROVE e[2] < pos[p]
        OBVIOUS
      <3>1. e[2] < pos[p] + 1
        BY <1>1, <1>2 DEF Emitted
      <3>2. e[2] # pos[p]
        BY <1>1, <1>4
      <3> QED
        BY <1>1, <3>1, <3>2
    <2>2. Emitted(e)
      <3>1. e[1] \in Taken
        BY <1>2 DEF Emitted
      <3>2. ASSUME NEW q \in Parsers, parser[q] = "parse", file[q] = e[1]
            PROVE  e[2] < pos[q]
        <4>1. CASE q = p
          BY <2>1, <3>2, <4>1
        <4>2. CASE q # p
          BY <1>2, <3>2, <4>2 DEF Emitted
        <4> QED
          BY <4>1, <4>2
      <3> QED
        BY <3>1, <3>2 DEF Emitted
    <2> QED
      BY <1>0, <2>2 DEF Located
  <1> QED
    BY <1>3, <1>4

LEMMA SendAttributeInv ==
    ASSUME IInv, NEW p \in Parsers, SendAttribute(p) PROVE IInv'
  <1> USE DEF SendAttribute, RA!Take, Sent
  <1>0. /\ TypeOK /\ Assigned /\ Closing
        /\ Flow(raFwd, raHeld, raClosed) /\ Sending(p, "ra")
    BY DEF IInv
  <1>1. <<file[p], pos[p]>> \in ElementsOf("ra")
    BY <1>0, SendingFacts
  <1>d. PICK d \in ElementsOf("ra") : d = <<file[p], pos[p]>>
    BY <1>1
  <1>2. raHeld' = [raHeld EXCEPT ![p] = d]
    BY <1>d
  <1>3. TypeOK'
    <2>1. RA!FanTypeOK(ElementsOf("ra"))'
      BY <1>0, <1>2 DEF TypeOK, RA!FanTypeOK
    <2>2. pos' \in [Parsers -> Nat \ {0}]
      BY <1>0 DEF TypeOK
    <2> QED
      BY <1>0, <2>1, <2>2 DEF TypeOK, VR!FanTypeOK, ER!FanTypeOK
  <1>4. Assigned' /\ Closing'
    BY <1>0 DEF Assigned, Closing, Taken, ChannelClosed, Channels
  <1>5. Flow(raFwd, raHeld, raClosed)'
    BY <1>0, <1>2, NoneAssumption DEF Flow, TypeOK, RA!FanTypeOK, Sending, ElementsOf
  <1>6. raHeld[p] = None
    BY <1>0 DEF Flow
  <1>7. InForwarder(d)'
    BY <1>0, <1>2 DEF InForwarder, TypeOK, RA!FanTypeOK
  <1>8. \A e \in Elements : InForwarder(e) => InForwarder(e)'
    BY <1>0, <1>2, <1>6, NoneAssumption DEF InForwarder, TypeOK, RA!FanTypeOK
  <1>9. Located'
    BY <1>0, <1>d, <1>7, <1>8, SentLocated
  <1> QED
    BY <1>3, <1>4, <1>5, <1>9, ArchiveIdle, VRFlowIdle, ErrFlowIdle DEF IInv

LEMMA SendValueInv ==
    ASSUME IInv, NEW p \in Parsers, SendValue(p) PROVE IInv'
  <1> USE DEF SendValue, VR!Take, Sent
  <1>0. /\ TypeOK /\ Assigned /\ Closing
        /\ Flow(vrFwd, vrHeld, vrClosed) /\ Sending(p, "vr")
    BY DEF IInv
  <1>1. <<file[p], pos[p]>> \in ElementsOf("vr")
    BY <1>0, SendingFacts
  <1>d. PICK d \in ElementsOf("vr") : d = <<file[p], pos[p]>>
    BY <1>1
  <1>2. vrHeld' = [vrHeld EXCEPT ![p] = d]
    BY <1>d
  <1>3. TypeOK'
    <2>1. VR!FanTypeOK(ElementsOf("vr"))'
      BY <1>0, <1>2 DEF TypeOK, VR!FanTypeOK
    <2>2. pos' \in [Parsers -> Nat \ {0}]
      BY <1>0 DEF TypeOK
    <2> QED
      BY <1>0, <2>1, <2>2 DEF TypeOK, RA!FanTypeOK, ER!FanTypeOK
  <1>4. Assigned' /\ Closing'
    BY <1>0 DEF Assigned, Closing, Taken, ChannelClosed, Channels
  <1>5. Flow(vrFwd, vrHeld, vrClosed)'
    BY <1>0, <1>2, NoneAssumption DEF Flow, TypeOK, VR!FanTypeOK, Sending, ElementsOf
  <1>6. vrHeld[p] = None
    BY <1>0 DEF Flow
  <1>7. InForwarder(d)'
    BY <1>0, <1>2 DEF InForwarder, TypeOK, VR!FanTypeOK
  <1>8. \A e \in Elements : InForwarder(e) => InForwarder(e)'
    BY <1>0, <1>2, <1>6, NoneAssumption DEF InForwarder, TypeOK, VR!FanTypeOK
  <1>9. Located'
    BY <1>0, <1>d, <1>7, <1>8, SentLocated
  <1> QED
    BY <1>3, <1>4, <1>5, <1>9, ArchiveIdle, RAFlowIdle, ErrFlowIdle DEF IInv

LEMMA SendErrorInv ==
    ASSUME IInv, NEW p \in Parsers, SendError(p) PROVE IInv'
  <1> USE DEF SendError, ER!Take, Sent
  <1>0. /\ TypeOK /\ Assigned /\ Closing
        /\ Flow(errFwd, errHeld, errClosed) /\ Sending(p, "err")
    BY DEF IInv
  <1>1. <<file[p], pos[p]>> \in ElementsOf("err")
    BY <1>0, SendingFacts
  <1>d. PICK d \in ElementsOf("err") : d = <<file[p], pos[p]>>
    BY <1>1
  <1>2. errHeld' = [errHeld EXCEPT ![p] = d]
    BY <1>d
  <1>3. TypeOK'
    <2>1. ER!FanTypeOK(ElementsOf("err"))'
      BY <1>0, <1>2 DEF TypeOK, ER!FanTypeOK
    <2>2. pos' \in [Parsers -> Nat \ {0}]
      BY <1>0 DEF TypeOK
    <2> QED
      BY <1>0, <2>1, <2>2 DEF TypeOK, VR!FanTypeOK, RA!FanTypeOK
  <1>4. Assigned' /\ Closing'
    BY <1>0 DEF Assigned, Closing, Taken, ChannelClosed, Channels
  <1>5. Flow(errFwd, errHeld, errClosed)'
    BY <1>0, <1>2, NoneAssumption DEF Flow, TypeOK, ER!FanTypeOK, Sending, ElementsOf
  <1>6. errHeld[p] = None
    BY <1>0 DEF Flow
  <1>7. InForwarder(d)'
    BY <1>0, <1>2 DEF InForwarder, TypeOK, ER!FanTypeOK
  <1>8. \A e \in Elements : InForwarder(e) => InForwarder(e)'
    BY <1>0, <1>2, <1>6, NoneAssumption DEF InForwarder, TypeOK, ER!FanTypeOK
  <1>9. Located'
    BY <1>0, <1>d, <1>7, <1>8, SentLocated
  <1> QED
    BY <1>3, <1>4, <1>5, <1>9, ArchiveIdle, VRFlowIdle, RAFlowIdle DEF IInv

\* A parser that stops because the context is done, or goes on to its next file.
LEMMA ParserTurnsInv ==
    ASSUME IInv, NEW p \in Parsers,
           SendCancelled(p) \/ FileDone(p) \/ NoMoreFiles(p)
    PROVE  IInv'
  <1> USE DEF SendCancelled, FileDone, NoMoreFiles
  <1>0. /\ TypeOK /\ Assigned /\ Closing /\ Located
        /\ UNCHANGED <<file, pos, sepVars, vrVars, raVars, errVars, archiveVars,
                       collected, ctxVars>>
    BY DEF IInv
  <1>1. \E s \in {"range", "closed"} :
           /\ parser' = [parser EXCEPT ![p] = s]
           /\ parser[p] = "closed" => s = "closed"
           /\ s = "closed" => ctxDone \/ sepDone
    BY DEF Sending
  <1>2. TypeOK'
    BY <1>0, <1>1 DEF TypeOK, VR!FanTypeOK, RA!FanTypeOK, ER!FanTypeOK
  <1>3. Assigned'
    BY <1>0, <1>1 DEF Assigned, Taken, TypeOK
  <1>4. Closing'
    BY <1>0, <1>1 DEF Closing, TypeOK, ChannelClosed, Channels
  <1>5. Flow(vrFwd, vrHeld, vrClosed)' /\ Flow(raFwd, raHeld, raClosed)'
        /\ Flow(errFwd, errHeld, errClosed)'
    BY <1>0, <1>1 DEF IInv, Flow, TypeOK
  <1>6. Located'
    <2> SUFFICES ASSUME ~ctxDone, NEW e \in Elements, Emitted(e)'
                 PROVE  (e \in delivered \/ InForwarder(e))'
      BY <1>0 DEF Located
    <2>1. e[1] \in Values /\ e[2] \in DOMAIN sends[e[1]]
      BY ElementFacts
    <2>2. parser[p] = "parse" /\ file[p] = e[1] => e[2] < pos[p]
      <3>1. CASE FileDone(p) /\ file[p] = e[1]
        <4>1. PICK n \in Nat : DOMAIN sends[e[1]] = 1..n
          BY <2>1, SendsDomain
        <4>2. pos[p] \in Nat \ {0} /\ pos[p] \notin 1..n
          BY <1>0, <3>1, <4>1 DEF TypeOK
        <4> QED
          BY <2>1, <4>1, <4>2
      <3> QED
        BY <3>1
    <2>3. Emitted(e)
      <3>1. e[1] \in Taken
        BY <1>0 DEF Emitted, Taken
      <3>2. ASSUME NEW q \in Parsers, parser[q] = "parse", file[q] = e[1]
            PROVE  e[2] < pos[q]
        <4>1. CASE q = p
          BY <2>2, <3>2, <4>1
        <4>2. CASE q # p
          <5>1. parser'[q] = "parse"
            BY <1>0, <1>1, <3>2, <4>2 DEF TypeOK
          <5> QED
            BY <1>0, <3>2, <5>1 DEF Emitted
        <4> QED
          BY <4>1, <4>2
      <3> QED
        BY <3>1, <3>2 DEF Emitted
    <2> QED
      BY <1>0, <2>3 DEF Located, InForwarder
  <1> QED
    BY <1>0, <1>2, <1>3, <1>4, <1>5, <1>6, ArchiveIdle DEF IInv
LEMMA StreamVRInv == ASSUME IInv, StreamVR PROVE IInv'
  <1> USE DEF StreamVR
  <1>0. /\ TypeOK /\ Assigned /\ Closing /\ Located
        /\ Flow(vrFwd, vrHeld, vrClosed)
    BY DEF IInv
  <1>1. /\ \A q \in Parsers : vrHeld'[q] = vrHeld[q] \/ ctxDone
        /\ VR!FanTypeOK(ElementsOf("vr"))'
        /\ vrClosed => vrClosed'
        /\ Flow(vrFwd, vrHeld, vrClosed)'
    <2>1. ASSUME NEW q \in Parsers, VR!GiveUp(q) PROVE <1>1!:
      BY <1>0, <2>1 DEF VR!GiveUp, Flow, TypeOK, VR!FanTypeOK
    <2>2. ASSUME NEW q \in Parsers, VR!Finish(q) PROVE <1>1!:
      BY <1>0, <2>2 DEF VR!Finish, Flow, TypeOK, VR!FanTypeOK
    <2>3. CASE VR!CloseOut
      BY <1>0, <2>3 DEF VR!CloseOut, Flow, TypeOK, VR!FanTypeOK
    <2> QED
      BY <2>1, <2>2, <2>3 DEF VR!FanStep
  <1>2. TypeOK'
    BY <1>0, <1>1 DEF TypeOK, RA!FanTypeOK, ER!FanTypeOK
  <1>3. Assigned' /\ Closing'
    BY <1>0, <1>1 DEF Assigned, Closing, Taken, ChannelClosed, Channels
  <1>4. Located'
    BY <1>0, <1>1 DEF Located, Emitted, InForwarder, Taken
  <1> QED
    BY <1>1, <1>2, <1>3, <1>4, ArchiveIdle, RAFlowIdle, ErrFlowIdle DEF IInv

LEMMA StreamRAInv == ASSUME IInv, StreamRA PROVE IInv'
  <1> USE DEF StreamRA
  <1>0. /\ TypeOK /\ Assigned /\ Closing /\ Located
        /\ Flow(raFwd, raHeld, raClosed)
    BY DEF IInv
  <1>1. /\ \A q \in Parsers : raHeld'[q] = raHeld[q] \/ ctxDone
        /\ RA!FanTypeOK(ElementsOf("ra"))'
        /\ raClosed => raClosed'
        /\ Flow(raFwd, raHeld, raClosed)'
    <2>1. ASSUME NEW q \in Parsers, RA!GiveUp(q) PROVE <1>1!:
      BY <1>0, <2>1 DEF RA!GiveUp, Flow, TypeOK, RA!FanTypeOK
    <2>2. ASSUME NEW q \in Parsers, RA!Finish(q) PROVE <1>1!:
      BY <1>0, <2>2 DEF RA!Finish, Flow, TypeOK, RA!FanTypeOK
    <2>3. CASE RA!CloseOut
      BY <1>0, <2>3 DEF RA!CloseOut, Flow, TypeOK, RA!FanTypeOK
    <2> QED
      BY <2>1, <2>2, <2>3 DEF RA!FanStep
  <1>2. TypeOK'
    BY <1>0, <1>1 DEF TypeOK, VR!FanTypeOK, ER!FanTypeOK
  <1>3. Assigned' /\ Closing'
    BY <1>0, <1>1 DEF Assigned, Closing, Taken, ChannelClosed, Channels
  <1>4. Located'
    BY <1>0, <1>1 DEF Located, Emitted, InForwarder, Taken
  <1> QED
    BY <1>1, <1>2, <1>3, <1>4, ArchiveIdle, VRFlowIdle, ErrFlowIdle DEF IInv

LEMMA StreamErrInv == ASSUME IInv, StreamErr PROVE IInv'
  <1> USE DEF StreamErr
  <1>0. /\ TypeOK /\ Assigned /\ Closing /\ Located
        /\ Flow(errFwd, errHeld, errClosed)
    BY DEF IInv
  <1>1. /\ \A q \in Parsers : errHeld'[q] = errHeld[q] \/ ctxDone
        /\ ER!FanTypeOK(ElementsOf("err"))'
        /\ errClosed => errClosed'
        /\ Flow(errFwd, errHeld, errClosed)'
    <2>1. ASSUME NEW q \in Parsers, ER!GiveUp(q) PROVE <1>1!:
      BY <1>0, <2>1 DEF ER!GiveUp, Flow, TypeOK, ER!FanTypeOK
    <2>2. ASSUME NEW q \in Parsers, ER!Finish(q) PROVE <1>1!:
      BY <1>0, <2>2 DEF ER!Finish, Flow, TypeOK, ER!FanTypeOK
    <2>3. CASE ER!CloseOut
      BY <1>0, <2>3 DEF ER!CloseOut, Flow, TypeOK, ER!FanTypeOK
    <2> QED
      BY <2>1, <2>2, <2>3 DEF ER!FanStep
  <1>2. TypeOK'
    BY <1>0, <1>1 DEF TypeOK, VR!FanTypeOK, RA!FanTypeOK
  <1>3. Assigned' /\ Closing'
    BY <1>0, <1>1 DEF Assigned, Closing, Taken, ChannelClosed, Channels
  <1>4. Located'
    BY <1>0, <1>1 DEF Located, Emitted, InForwarder, Taken
  <1> QED
    BY <1>1, <1>2, <1>3, <1>4, ArchiveIdle, VRFlowIdle, RAFlowIdle DEF IInv

LEMMA ReceiveErrorInv ==
    ASSUME IInv, NEW p \in Parsers, ReceiveError(p) PROVE IInv'
  <1> USE DEF ReceiveError, Return, ER!Hand
  <1>0. TypeOK /\ Assigned /\ Closing /\ Flow(errFwd, errHeld, errClosed)
    BY DEF IInv
  <1>1. errHeld[p] \in Elements
    BY <1>0 DEF Flow, TypeOK, ER!FanTypeOK, ElementsOf
  <1>2. TypeOK'
    <2>1. ER!FanTypeOK(ElementsOf("err"))'
      BY <1>0 DEF TypeOK, ER!FanTypeOK
    <2> QED
      BY <1>0, <1>1, <2>1 DEF TypeOK, VR!FanTypeOK, RA!FanTypeOK
  <1>3. Assigned' /\ Closing'
    BY <1>0 DEF Assigned, Closing, Taken, ChannelClosed, Channels
  <1>4. Flow(errFwd, errHeld, errClosed)'
    BY <1>0 DEF Flow, TypeOK, ER!FanTypeOK
  <1>5. Located' /\ PathsTaken' /\ ErrorsEnd' /\ Context' /\ NothingLost'
    BY DEF IInv, Located, PathsTaken, Taken, ErrorsEnd, Context, NothingLost,
           Succeeded
  <1> QED
    BY <1>2, <1>3, <1>4, <1>5, VRFlowIdle, RAFlowIdle DEF IInv

LEMMA ReceiveAttributeInv ==
    ASSUME IInv, NEW p \in Parsers, ReceiveAttribute(p) PROVE IInv'
  <1> USE DEF ReceiveAttribute, Looping, RA!Hand
  <1>0. /\ TypeOK /\ Assigned /\ Closing /\ Located
        /\ Flow(raFwd, raHeld, raClosed)
    BY DEF IInv
  <1>1. raHeld[p] \in ElementsOf("ra") /\ raHeld[p] \in Elements
    BY <1>0 DEF Flow, TypeOK, RA!FanTypeOK, ElementsOf
  <1>2. TypeOK'
    <2>1. RA!FanTypeOK(ElementsOf("ra"))'
      BY <1>0 DEF TypeOK, RA!FanTypeOK
    <2>2. DOMAIN ras' \subseteq Values
      BY <1>0, <1>1, ElementFacts DEF CollectResourcesAttribute, Put, TypeOK
    <2> QED
      BY <1>0, <1>1, <2>1, <2>2 DEF TypeOK, VR!FanTypeOK, ER!FanTypeOK
  <1>3. Assigned' /\ Closing'
    BY <1>0 DEF Assigned, Closing, Taken, ChannelClosed, Channels
  <1>4. Flow(raFwd, raHeld, raClosed)'
    BY <1>0 DEF Flow, TypeOK, RA!FanTypeOK
  <1>5. Located'
    BY <1>0 DEF Located, Emitted, InForwarder, Taken, TypeOK, RA!FanTypeOK
  <1>6. ErrorsEnd'
    BY <1>1 DEF IInv, ErrorsEnd, ElementsOf
  <1>7. PathsTaken' /\ Context' /\ NothingLost'
    BY DEF IInv, PathsTaken, Taken, Context, NothingLost, Succeeded
  <1> QED
    BY <1>2, <1>3, <1>4, <1>5, <1>6, <1>7, VRFlowIdle, ErrFlowIdle DEF IInv

LEMMA ReceiveValueInv ==
    ASSUME IInv, NEW p \in Parsers, ReceiveValue(p) PROVE IInv'
  <1> USE DEF ReceiveValue, Looping, VR!Hand, Return
  <1>0. /\ TypeOK /\ Assigned /\ Closing /\ Located
        /\ Flow(vrFwd, vrHeld, vrClosed)
    BY DEF IInv
  <1>1. vrHeld[p] \in ElementsOf("vr") /\ vrHeld[p] \in Elements
    BY <1>0 DEF Flow, TypeOK, VR!FanTypeOK, ElementsOf
  <1>2. TypeOK'
    <2>1. VR!FanTypeOK(ElementsOf("vr"))'
      BY <1>0 DEF TypeOK, VR!FanTypeOK
    <2>2. DOMAIN vals' \subseteq Keys
      BY <1>0, <1>1 DEF CollectValues, Put, TypeOK, Keys
    <2>3. result' \in {"running", "ok", "errors", "values", "close"}
          /\ ctxDone' \in BOOLEAN
      BY <1>0 DEF TypeOK
    <2> QED
      BY <1>0, <1>1, <2>1, <2>2, <2>3 DEF TypeOK, RA!FanTypeOK, ER!FanTypeOK
  <1>c. ctxDone => ctxDone'
    OBVIOUS
  <1>3. Assigned' /\ Closing'
    BY <1>0, <1>c DEF Assigned, Closing, Taken, ChannelClosed, Channels
  <1>4. Flow(vrFwd, vrHeld, vrClosed)'
    BY <1>0, <1>c DEF Flow, TypeOK, VR!FanTypeOK
  <1>5. Located'
    BY <1>0, <1>c DEF Located, Emitted, InForwarder, Taken, TypeOK, VR!FanTypeOK
  <1>6. ErrorsEnd'
    BY <1>1 DEF IInv, ErrorsEnd, ElementsOf
  <1>7. PathsTaken' /\ Context' /\ NothingLost'
    BY DEF IInv, PathsTaken, Taken, Context, NothingLost, Succeeded
  <1> QED
    BY <1>c, <1>2, <1>3, <1>4, <1>5, <1>6, <1>7, RAFlowIdle, ErrFlowIdle DEF IInv

LEMMA ReceivePathInv == ASSUME IInv, ReceivePath PROVE IInv'
  <1> USE DEF ReceivePath, Looping
  <1>0. /\ TypeOK /\ Assigned /\ Closing /\ Located /\ PathsTaken
        /\ sepPos <= Len(ResFiles) /\ sepPos' = sepPos + 1
    BY DEF IInv, Emitting
  <1>1. Taken' = Taken \cup {Current} /\ Current \notin Taken /\ Current \in Files
    BY <1>0, TakenGrows
  <1>2. Current \notin Values
    BY DEF Values
  <1>3. TypeOK'
    <2>1. sepPos' \in 1..(Len(ResFiles) + 1)
      BY <1>0, ResFilesAssumption DEF TypeOK
    <2>2. paths' \subseteq Files
      BY <1>0, <1>1 DEF TypeOK, CollectPathResource
    <2> QED
      BY <1>0, <2>1, <2>2
      DEF TypeOK, VR!FanTypeOK, RA!FanTypeOK, ER!FanTypeOK
  <1>4. Assigned'
    BY <1>0, <1>1 DEF Assigned
  <1>5. Closing'
    BY <1>0 DEF Closing, ChannelClosed, Channels, Emitting
  <1>6. Located'
    <2> SUFFICES ASSUME ~ctxDone, NEW e \in Elements, Emitted(e)'
                 PROVE  (e \in delivered \/ InForwarder(e))'
      BY DEF Located
    <2>1. e[1] # Current
      BY <1>2, ElementFacts
    <2>2. Emitted(e)
      BY <1>1, <2>1 DEF Emitted
    <2> QED
      BY <1>0, <2>2 DEF Located, InForwarder
  <1>7. PathsTaken'
    BY <1>0, <1>1, <1>2 DEF PathsTaken, CollectPathResource
  <1>8. ErrorsEnd' /\ Context' /\ NothingLost'
    BY DEF IInv, ErrorsEnd, Context, NothingLost, Succeeded
  <1> QED
    BY <1>3, <1>4, <1>5, <1>6, <1>7, <1>8, VRFlowIdle, RAFlowIdle, ErrFlowIdle
    DEF IInv

LEMMA SeeClosedInv ==
    ASSUME IInv, NEW ch \in Channels, SeeClosed(ch) PROVE IInv'
  <1> USE DEF SeeClosed
  <1>1. TypeOK'
    BY DEF IInv, TypeOK, VR!FanTypeOK, RA!FanTypeOK, ER!FanTypeOK
  <1>2. Assigned' /\ Located'
    BY DEF IInv, Assigned, Taken, Located, Emitted, InForwarder
  <1>3. Closing'
    BY DEF IInv, Closing, ChannelClosed, Channels
  <1>4. PathsTaken' /\ ErrorsEnd' /\ Context' /\ NothingLost'
    BY DEF IInv, PathsTaken, Taken, ErrorsEnd, Context, NothingLost, Succeeded
  <1> QED
    BY <1>1, <1>2, <1>3, <1>4, VRFlowIdle, RAFlowIdle, ErrFlowIdle DEF IInv

\* The step the theorem is about: with every channel nil, nothing is in flight.
LEMMA AllReceived ==
    ASSUME IInv, result = "running", open = {}, ~callerDone
    PROVE  /\ delivered = Elements
           /\ paths = {f \in Files \ Values : isTypeAccepted(Type[f])}
  <1>0. ~ctxDone /\ TypeOK /\ Closing /\ Located /\ PathsTaken
    BY DEF IInv, Context
  <1>1. sepDone /\ vrClosed /\ raClosed /\ errClosed
    BY <1>0 DEF Closing, Channels, ChannelClosed
  <1>2. Taken = Files
    BY <1>0, <1>1, TakenAll DEF Closing
  <1>3. \A p \in Parsers : /\ parser[p] = "closed"
                           /\ vrHeld[p] = None /\ raHeld[p] = None
                           /\ errHeld[p] = None
    BY <1>0, <1>1 DEF IInv, Flow
  <1>4. ASSUME NEW e \in Elements PROVE e \in delivered
    <2>1. Emitted(e)
      BY <1>2, <1>3, ElementFacts DEF Emitted, Values
    <2>2. ~InForwarder(e)
      BY <1>3, NoneAssumption DEF InForwarder
    <2> QED
      BY <1>0, <2>1, <2>2 DEF Located
  <1> QED
    BY <1>0, <1>2, <1>4 DEF PathsTaken, TypeOK

LEMMA ClosePartitionerInv == ASSUME IInv, ClosePartitioner PROVE IInv'
  <1> USE DEF ClosePartitioner, Return
  <1>1. TypeOK'
    BY DEF IInv, TypeOK, VR!FanTypeOK, RA!FanTypeOK, ER!FanTypeOK
  <1>2. Assigned' /\ Closing' /\ Located'
    BY DEF IInv, Assigned, Taken, Closing, ChannelClosed, Channels, Located
  <1>3. PathsTaken' /\ ErrorsEnd' /\ Context'
    BY DEF IInv, PathsTaken, Taken, ErrorsEnd, Context
  <1>4. NothingLost'
    BY AllReceived DEF NothingLost, Succeeded
  <1> QED
    BY <1>1, <1>2, <1>3, <1>4, VRFlowIdle, RAFlowIdle, ErrFlowIdle DEF IInv

LEMMA CancelInv == ASSUME IInv, Cancel PROVE IInv'
  <1> USE DEF Cancel
  <1>1. TypeOK'
    BY DEF IInv, TypeOK, VR!FanTypeOK, RA!FanTypeOK, ER!FanTypeOK
  <1>2. Assigned' /\ Closing' /\ Located'
    BY DEF IInv, Assigned, Taken, Closing, ChannelClosed, Channels, Located
  <1>3. PathsTaken' /\ ErrorsEnd' /\ Context' /\ NothingLost'
    BY DEF IInv, PathsTaken, Taken, ErrorsEnd, Context, NothingLost, Succeeded
  <1> QED
    BY <1>1, <1>2, <1>3, VRFlowIdle, RAFlowIdle, ErrFlowIdle DEF IInv

LEMMA StutterInv == ASSUME IInv, UNCHANGED vars PROVE IInv'
  <1> USE DEF vars
  <1>1. TypeOK'
    BY DEF IInv, TypeOK, VR!FanTypeOK, RA!FanTypeOK, ER!FanTypeOK
  <1>2. Assigned' /\ Closing' /\ Located'
    BY DEF IInv, Assigned, Taken, Closing, ChannelClosed, Channels, Located,
           Emitted, InForwarder
  <1> QED
    BY <1>1, <1>2, ArchiveIdle, VRFlowIdle, RAFlowIdle, ErrFlowIdle DEF IInv
-----------------------------------------------------------------------------
LEMMA IInvInit == Init => IInv
  <1> SUFFICES ASSUME Init PROVE IInv
    OBVIOUS
  <1> USE DEF Init, VR!FanInit, RA!FanInit, ER!FanInit
  <1>0. Taken = {}
    BY DEF Taken
  <1>1. TypeOK
    <2>1. sepPos \in 1..(Len(ResFiles) + 1)
      BY ResFilesAssumption
    <2>2. DOMAIN vals = {} /\ DOMAIN ras = {}
      BY DEF EmptyMap
    <2>3. /\ VR!FanTypeOK(ElementsOf("vr")) /\ RA!FanTypeOK(ElementsOf("ra"))
          /\ ER!FanTypeOK(ElementsOf("err"))
      BY DEF VR!FanTypeOK, RA!FanTypeOK, ER!FanTypeOK
    <2>4. /\ parser \in [Parsers -> {"range", "parse", "closed"}]
          /\ file \in [Parsers -> Values \cup {None}]
          /\ pos \in [Parsers -> Nat \ {0}]
      OBVIOUS
    <2>5. /\ paths \subseteq Files /\ delivered \subseteq Elements
          /\ open \subseteq Channels
      OBVIOUS
    <2>6. /\ DOMAIN vals \subseteq Keys /\ DOMAIN ras \subseteq Values
      BY <2>2
    <2> HIDE DEF Init
    <2>7. /\ sepDone \in BOOLEAN /\ ctxDone \in BOOLEAN /\ callerDone \in BOOLEAN
          /\ result \in {"running", "ok", "errors", "values", "close"}
      BY DEF Init
    <2> QED
      BY <2>1, <2>3, <2>4, <2>5, <2>6, <2>7 DEF TypeOK
  <1>2. Assigned /\ Closing /\ Located /\ PathsTaken /\ ErrorsEnd /\ Context
    BY <1>0 DEF Assigned, Closing, Located, Emitted, PathsTaken, ErrorsEnd, Context
  <1>3. Flow(vrFwd, vrHeld, vrClosed) /\ Flow(raFwd, raHeld, raClosed)
        /\ Flow(errFwd, errHeld, errClosed)
    BY DEF Flow
  <1>4. NothingLost
    BY DEF NothingLost, Succeeded
  <1> QED
    BY <1>1, <1>2, <1>3, <1>4 DEF IInv

LEMMA IInvNext == IInv /\ [Next]_vars => IInv'
  BY SeparatorReturnsInv, TakeFileInv, SendAttributeInv, SendValueInv,
     SendErrorInv, ParserTurnsInv, StreamVRInv, StreamRAInv, StreamErrInv,
     ReceiveErrorInv, ReceiveAttributeInv, ReceiveValueInv, ReceivePathInv,
     SeeClosedInv, ClosePartitionerInv, CancelInv, StutterInv
  DEF Next, Parser, Archive, Returned

LEMMA IInvHolds == Spec => []IInv
  BY IInvInit, IInvNext, PTL DEF Spec

\* The variables of Archive and its goroutines keep their types.
THEOREM TypeCorrect == Spec => []TypeOK
  <1>1. IInv => TypeOK
    BY DEF IInv
  <1> QED
    BY IInvHolds, <1>1, PTL

\* For any number of parsers and any documents, Archive returns nil only after
\* every element of every values file was received and every accepted path
\* collected (the loop of archive and the closes it waits for).
THEOREM NoneLost == Spec => []NothingLost
  <1>1. IInv => NothingLost
    BY DEF IInv
  <1> QED
    BY IInvHolds, <1>1, PTL

\* For any number of parsers and any documents, an error in a values file makes
\* Archive fail ("errs = append(errs, e)" in archive).
THEOREM ErrorsSurface == Spec => []ErrorSurfaces
  <1>1. IInv => ErrorSurfaces
    BY DEF IInv, NothingLost, ErrorSurfaces, ErrorsEnd, Succeeded, ElementsOf
  <1> QED
    BY IInvHolds, <1>1, PTL
-----------------------------------------------------------------------------
(* What is collected *)

\* The values received that the partitioner stores, and the key of each.
Received == {e \in delivered : At(e).ch = "vr" /\ Stored(At(e))}
KeyOf(e) == ValueKey(e[1], At(e))

\* Of the payloads received for a key, the one stored is a longest, and no other has its
\* length.
Kept == /\ DOMAIN vals = {KeyOf(e) : e \in Received}
        /\ \A k \in DOMAIN vals : \E e \in Received : KeyOf(e) = k /\ vals[k] = Payload(At(e))
        /\ \A e \in Received : \/ At(e).size < vals[KeyOf(e)].size
                               \/ vals[KeyOf(e)] = Payload(At(e))
\* A conflict ends Archive with an error.
ValuesKept == result # "values" => Kept

LEMMA KeptStill ==
    ASSUME ValuesKept, vals' = vals, Received' = Received,
           result' # "values" => result # "values"
    PROVE  ValuesKept'
BY DEF ValuesKept, Kept

LEMMA ReceivedSizes ==
    ASSUME IInv, NEW e \in Received
    PROVE  e \in Elements /\ At(e).size \in Nat
BY SizesAssumption DEF IInv, TypeOK, Received, ElementsOf

\* CollectValues keeps what it has, or takes the longer one.
LEMMA CollectKeeps ==
    ASSUME IInv, Kept, NEW e \in ElementsOf("vr"), ~Conflict(vals, e[1], At(e)),
           vals' = CollectValues(vals, e[1], At(e)),
           delivered' = delivered \cup {e}
    PROVE  Kept'
<1>. DEFINE k == KeyOf(e)
            m == At(e)
<1>1. /\ m.ch = "vr" /\ m.size \in Nat /\ e \in Elements
      /\ k = ValueKey(e[1], m)
    BY SizesAssumption DEF ElementsOf, KeyOf
<1>2. \A d \in Received : At(d).size \in Nat
    BY ReceivedSizes
<1>3. ASSUME NEW x \in DOMAIN vals PROVE vals[x].size \in Nat
    <2>1. PICK d \in Received : vals[x] = Payload(At(d))
        BY DEF Kept
    <2>2. vals[x].size = At(d).size
        BY <2>1 DEF Payload
    <2>. QED
        BY <1>2, <2>2
<1>4. Received' = IF Stored(m) THEN Received \cup {e} ELSE Received
    BY <1>1 DEF Received
<1>. HIDE DEF k, m
<1>5. CASE ~Stored(m)
    BY <1>4, <1>5 DEF Kept, CollectValues, m
<1>6. CASE Stored(m) /\ k \notin DOMAIN vals
    <2>1. vals' = Put(vals, k, Payload(m))
        BY <1>1, <1>6 DEF CollectValues, m
    <2>2. /\ DOMAIN vals' = DOMAIN vals \cup {k} /\ vals'[k] = Payload(m)
          /\ \A d \in DOMAIN vals : d # k /\ vals'[d] = vals[d]
        BY <1>6, <2>1 DEF Put
    <2>3. Received' = Received \cup {e} /\ KeyOf(e) = k /\ At(e) = m
        BY <1>4, <1>6 DEF k, m
    <2>4. \A d \in Received : KeyOf(d) \in DOMAIN vals
        BY DEF Kept
    <2>. QED
        BY <2>2, <2>3, <2>4 DEF Kept
<1>7. CASE Stored(m) /\ k \in DOMAIN vals /\ vals[k].size < m.size
    <2>1. vals' = Put(vals, k, Payload(m))
        BY <1>1, <1>7 DEF CollectValues, m
    <2>2. /\ DOMAIN vals' = DOMAIN vals /\ vals'[k] = Payload(m) /\ vals'[k].size = m.size
          /\ \A d \in DOMAIN vals : d # k => vals'[d] = vals[d]
        BY <1>7, <2>1 DEF Put, Payload
    <2>3. Received' = Received \cup {e} /\ KeyOf(e) = k /\ At(e) = m
        BY <1>4, <1>7 DEF k, m
    <2>4. ASSUME NEW d \in Received, KeyOf(d) = k
          PROVE  At(d).size < m.size
        <3>1. At(d).size < vals[k].size \/ vals[k] = Payload(At(d))
            BY <2>4 DEF Kept
        <3>2. At(d).size < vals[k].size \/ vals[k].size = At(d).size
            BY <3>1 DEF Payload
        <3>3. \A x, y, z \in Nat : (x < y \/ y = x) /\ y < z => x < z
            OBVIOUS
        <3>. QED
            BY <1>1, <1>2, <1>3, <1>7, <3>2, <3>3
    <2>5. \A d \in Received : KeyOf(d) \in DOMAIN vals
        BY DEF Kept
    <2>6. DOMAIN vals' = {KeyOf(d) : d \in Received'}
        BY <1>7, <2>2, <2>3 DEF Kept
    <2>7. \A x \in DOMAIN vals' : \E d \in Received' : KeyOf(d) = x /\ vals'[x] = Payload(At(d))
        BY <2>2, <2>3 DEF Kept
    <2>8. \A d \in Received' : \/ At(d).size < vals'[KeyOf(d)].size
                               \/ vals'[KeyOf(d)] = Payload(At(d))
        BY <2>2, <2>3, <2>4, <2>5 DEF Kept
    <2>. QED
        BY <2>6, <2>7, <2>8 DEF Kept
<1>8. CASE Stored(m) /\ k \in DOMAIN vals /\ ~(vals[k].size < m.size)
    <2>1. vals' = vals
        BY <1>1, <1>8 DEF CollectValues, m
    <2>2. Received' = Received \cup {e} /\ KeyOf(e) = k /\ At(e) = m
        BY <1>4, <1>8 DEF k, m
    <2>3. m.size < vals[k].size \/ (vals[k].size = m.size /\ vals[k].body = m.body)
        BY <1>1, <1>3, <1>8 DEF Conflict, m
    <2>4. PICK d \in Received : vals[k] = Payload(At(d))
        BY <1>8 DEF Kept
    <2>5. m.size < vals[k].size \/ vals[k] = Payload(m)
        BY <2>3, <2>4 DEF Payload
    <2>. QED
        BY <1>8, <2>1, <2>2, <2>5 DEF Kept
<1>. QED
    BY <1>5, <1>6, <1>7, <1>8

LEMMA ValuesKeptStep ==
    ASSUME IInv, ValuesKept, [Next]_vars
    PROVE  ValuesKept'
<1>1. ASSUME NEW p \in Parsers, ReceiveValue(p) PROVE ValuesKept'
    <2>. DEFINE e == vrHeld[p]
    <2>1. e \in ElementsOf("vr") /\ result = "running" /\ delivered' = delivered \cup {e}
        BY <1>1 DEF ReceiveValue, VR!Hand, Looping, IInv, Flow, TypeOK, VR!FanTypeOK
    <2>2. CASE Conflict(vals, e[1], At(e))
        BY <1>1, <2>2 DEF ReceiveValue, Return, ValuesKept
    <2>3. CASE ~Conflict(vals, e[1], At(e))
        <3>1. vals' = CollectValues(vals, e[1], At(e)) /\ Kept
            BY <1>1, <2>1, <2>3 DEF ReceiveValue, ValuesKept
        <3>. HIDE DEF e
        <3>. QED
            BY <2>1, <2>3, <3>1, CollectKeeps DEF ValuesKept
    <2>. QED
        BY <2>2, <2>3
<1>2. ASSUME NEW p \in Parsers, ReceiveError(p) \/ ReceiveAttribute(p) PROVE ValuesKept'
    <2>1. PICK e \in ElementsOf("err") \cup ElementsOf("ra") : delivered' = delivered \cup {e}
        BY <1>2 DEF ReceiveError, ReceiveAttribute, ER!Hand, RA!Hand, IInv, Flow, TypeOK,
                    ER!FanTypeOK, RA!FanTypeOK
    <2>2. Received' = Received
        BY <2>1 DEF Received, ElementsOf
    <2>. QED
        BY <1>2, <2>2, KeptStill DEF ReceiveError, ReceiveAttribute, Looping, Return
<1>3. ASSUME UNCHANGED <<vals, delivered>>, result' # "values" => result # "values"
      PROVE  ValuesKept'
    BY <1>3, KeptStill DEF Received
<1>4. CASE ClosePartitioner
    BY <1>3, <1>4 DEF ClosePartitioner, Return
<1>5. CASE ReceivePath \/ SeparatorReturns \/ StreamVR \/ StreamRA \/ StreamErr \/ Cancel
           \/ UNCHANGED vars
    BY <1>3, <1>5 DEF ReceivePath, SeparatorReturns, StreamVR, StreamRA, StreamErr, Cancel, vars
<1>6. ASSUME NEW ch \in Channels, SeeClosed(ch) PROVE ValuesKept'
    BY <1>3, <1>6 DEF SeeClosed
<1>7. ASSUME NEW p \in Parsers, Parser(p) PROVE ValuesKept'
    BY <1>3, <1>7 DEF Parser, TakeFile, SendAttribute, SendValue, SendError, SendCancelled,
                      FileDone, NoMoreFiles
<1>. QED
    BY <1>1, <1>2, <1>4, <1>5, <1>6, <1>7 DEF Next, Archive, Returned

LEMMA ValuesKeptInit == Init => ValuesKept
BY DEF Init, ValuesKept, Kept, Received, EmptyMap

LEMMA KeptDetermined == IInv /\ ValuesKept => ValuesDetermined
<1>. SUFFICES ASSUME IInv, ValuesKept, Succeeded
              PROVE  /\ DOMAIN vals = Keys
                     /\ \A k \in Keys : \A j \in Longest(Candidates(k[1], k), k[1]) :
                            vals[k] = Payload(At(<<k[1], j>>))
    BY DEF ValuesDetermined
<1>1. delivered = Elements /\ Kept
    BY DEF IInv, NothingLost, ValuesKept, Succeeded
<1>2. Keys = {KeyOf(e) : e \in Received}
    BY <1>1 DEF Keys, KeyOf, Received, ElementsOf
<1>3. ASSUME NEW k \in Keys, NEW j \in Longest(Candidates(k[1], k), k[1])
      PROVE  vals[k] = Payload(At(<<k[1], j>>))
    <2>1. PICK d \in Received : KeyOf(d) = k /\ vals[k] = Payload(At(d))
        BY <1>1, <1>2, <1>3 DEF Kept
    <2>2. d \in Elements /\ d[1] = k[1] /\ k[1] \in Values /\ d = <<k[1], d[2]>>
          /\ d[2] \in DOMAIN sends[k[1]]
        BY <2>1, ElementFacts, ReceivedSizes DEF KeyOf, ValueKey
    <2>3. d[2] \in Candidates(k[1], k)
        BY <2>1, <2>2 DEF Candidates, Received, KeyOf
    <2>. DEFINE e == <<k[1], j>>
    <2>4. j \in Candidates(k[1], k) /\ At(d).size <= At(e).size
        BY <1>3, <2>2, <2>3 DEF Longest
    <2>5. e \in Received /\ KeyOf(e) = k
        <3>1. j \in DOMAIN sends[k[1]] /\ e[1] = k[1] /\ e[2] = j
              /\ At(e).ch = "vr" /\ Stored(At(e)) /\ ValueKey(k[1], At(e)) = k
            BY <2>4 DEF Candidates
        <3>2. e \in Elements
            BY <2>2, <3>1 DEF Elements, Indices
        <3>. QED
            BY <1>1, <3>1, <3>2 DEF Received, KeyOf
    <2>. HIDE DEF e
    <2>6. ~(At(e).size < vals[k].size)
        BY <2>1, <2>4, <2>5, ReceivedSizes DEF Payload
    <2>7. vals[k] = Payload(At(e))
        BY <1>1, <2>5, <2>6 DEF Kept
    <2>. QED
        BY <2>7 DEF e
<1>. QED
    BY <1>1, <1>2, <1>3 DEF Kept

\* For any parsers, documents and interleaving: when Archive succeeds each name of each
\* file has the longest of its payloads (CollectValues keeps the longer of two and fails
\* on two of one length that differ).
THEOREM ValuesAreDetermined == Spec => []ValuesDetermined
<1>1. Init => ValuesKept
    BY ValuesKeptInit
<1>2. IInv /\ ValuesKept /\ [Next]_vars => ValuesKept'
    BY ValuesKeptStep
<1>3. IInv /\ ValuesKept => ValuesDetermined
    BY KeptDetermined
<1>. QED
    BY IInvHolds, <1>1, <1>2, <1>3, PTL DEF Spec
-----------------------------------------------------------------------------
(* The attributes of a file *)

\* How many attributes of the file were collected, and those a forwarder holds.
CountIn(m, f) == IF f \in DOMAIN m THEN Len(m[f]) ELSE 0
Carries(p, f) == raHeld[p] # None /\ raHeld[p][1] = f
Attributes == {At(e).attr : e \in ElementsOf("ra")}

\* Only files that were taken have attributes, and one forwarder has those of a file:
\* the one of the parser that works on it.
Owned ==
    /\ DOMAIN ras \subseteq Taken
    /\ \A f \in DOMAIN ras : ras[f] \in Seq(Attributes)
    /\ \A p \in Parsers : raHeld[p] # None => raHeld[p][1] \in Taken
    /\ \A p, q \in Parsers : raHeld[p] # None /\ Carries(q, raHeld[p][1]) => p = q
    /\ \A p, q \in Parsers : parser[p] = "parse" /\ Carries(q, file[p]) => p = q

\* A forwarder holds the attribute that is next of its file, and a parser sends the one
\* after that.
InTurn ==
    /\ \A p \in Parsers : raHeld[p] # None => raHeld[p][2] = CountIn(ras, raHeld[p][1]) + 1
    /\ \A p \in Parsers : Sending(p, "ra") /\ raFwd[p] # "done" =>
          pos[p] = CountIn(ras, file[p]) + (IF Carries(p, file[p]) THEN 2 ELSE 1)

AttributesInTurn == Owned /\ InTurn /\ AttributesInOrder

LEMMA TurnStill ==
    ASSUME AttributesInTurn, Taken \subseteq Taken',
           UNCHANGED <<parser, file, pos, raHeld, raFwd, ras>>
    PROVE  AttributesInTurn'
<1>1. Owned'
    BY DEF AttributesInTurn, Owned, Carries
<1>2. InTurn'
    BY DEF AttributesInTurn, InTurn, Carries, CountIn, Sending
<1>3. AttributesInOrder'
    BY DEF AttributesInTurn, AttributesInOrder
<1>. QED
    BY <1>1, <1>2, <1>3 DEF AttributesInTurn

\* Parsers that stop, and forwarders that drop what they hold.
LEMMA TurnFewer ==
    ASSUME AttributesInTurn, UNCHANGED <<sepPos, file, pos, ras>>,
           \A p \in Parsers : parser'[p] = "parse" => parser[p] = "parse",
           \A p \in Parsers : /\ raHeld'[p] = raHeld[p] \/ (raHeld'[p] = None /\ raFwd'[p] = "done")
                              /\ raFwd[p] = "done" => raFwd'[p] = "done"
    PROVE  AttributesInTurn'
<1>0. Taken' = Taken
    BY DEF Taken
<1>1. \A p \in Parsers : \A f : Carries(p, f)' => Carries(p, f)
    BY DEF Carries
<1>2. Owned'
    BY <1>0, <1>1 DEF AttributesInTurn, Owned
<1>3. InTurn'
    BY DEF AttributesInTurn, InTurn, Carries, CountIn, Sending
<1>4. AttributesInOrder'
    BY DEF AttributesInTurn, AttributesInOrder
<1>. QED
    BY <1>2, <1>3, <1>4 DEF AttributesInTurn

LEMMA TakeFileTurn ==
    ASSUME IInv, AttributesInTurn, NEW p \in Parsers, TakeFile(p)
    PROVE  AttributesInTurn'
<1>1. /\ sepPos <= Len(ResFiles) /\ sepPos' = sepPos + 1
      /\ parser' = [parser EXCEPT ![p] = "parse"]
      /\ file' = [file EXCEPT ![p] = Current]
      /\ pos' = [pos EXCEPT ![p] = 1]
      /\ UNCHANGED <<raHeld, raFwd, ras>>
    BY DEF TakeFile, Emitting
<1>2. Taken' = Taken \cup {Current} /\ Current \notin Taken
    BY <1>1, TakenGrows DEF IInv
<1>3. /\ parser'[p] = "parse" /\ file'[p] = Current /\ pos'[p] = 1
      /\ \A q \in Parsers : q # p => parser'[q] = parser[q] /\ file'[q] = file[q] /\ pos'[q] = pos[q]
    BY <1>1 DEF IInv, TypeOK
<1>4. (\A q \in Parsers : ~Carries(q, Current)) /\ Current \notin DOMAIN ras
    BY <1>2 DEF AttributesInTurn, Owned, Carries
<1>5. \A q \in Parsers : \A f : Carries(q, f)' <=> Carries(q, f)
    BY <1>1 DEF Carries
<1>6. Owned'
    BY <1>1, <1>2, <1>3, <1>4, <1>5 DEF AttributesInTurn, Owned
<1>7. InTurn'
    <2>1. \A f : CountIn(ras', f) = CountIn(ras, f)
        BY <1>1 DEF CountIn
    <2>2. CountIn(ras, Current) = 0
        BY <1>4 DEF CountIn
    <2>3. \A q \in Parsers : q # p => (Sending(q, "ra")' <=> Sending(q, "ra"))
        BY <1>3 DEF Sending
    <2>4. \A q \in Parsers : raHeld'[q] # None => raHeld'[q][2] = CountIn(ras', raHeld'[q][1]) + 1
        BY <1>1, <2>1 DEF AttributesInTurn, InTurn
    <2>5. ASSUME NEW q \in Parsers, Sending(q, "ra")', raFwd[q] # "done"
          PROVE  pos'[q] = CountIn(ras', file'[q]) + (IF Carries(q, file[q])' THEN 2 ELSE 1)
        <3>1. CASE q = p
            <4>1. CountIn(ras', file'[q]) = 0
                BY <1>3, <2>1, <2>2, <3>1
            <4>2. ~Carries(q, file[q])'
                BY <1>1, <1>3, <1>4, <3>1 DEF Carries
            <4>. QED
                BY <1>3, <3>1, <4>1, <4>2
        <3>2. CASE q # p
            <4>1. file'[q] = file[q] /\ pos'[q] = pos[q] /\ Sending(q, "ra")
                BY <1>3, <2>3, <2>5, <3>2
            <4>2. pos[q] = CountIn(ras, file[q]) + (IF Carries(q, file[q]) THEN 2 ELSE 1)
                BY <2>5, <4>1 DEF AttributesInTurn, InTurn
            <4>3. CountIn(ras', file'[q]) = CountIn(ras, file[q]) /\ (Carries(q, file[q])' <=> Carries(q, file[q]))
                BY <1>1, <4>1 DEF CountIn, Carries
            <4>. QED
                BY <4>1, <4>2, <4>3
        <3>. QED
            BY <3>1, <3>2
    <2>. QED
        BY <1>1, <2>4, <2>5 DEF InTurn
<1>8. AttributesInOrder'
    BY <1>1 DEF AttributesInTurn, AttributesInOrder
<1>. QED
    BY <1>6, <1>7, <1>8 DEF AttributesInTurn

LEMMA SendAttributeTurn ==
    ASSUME IInv, AttributesInTurn, NEW p \in Parsers, SendAttribute(p)
    PROVE  AttributesInTurn'
<1>. DEFINE e == <<file[p], pos[p]>>
<1>1. /\ Sending(p, "ra") /\ parser[p] = "parse" /\ raFwd[p] = "range"
      /\ pos' = [pos EXCEPT ![p] = @ + 1]
      /\ raFwd' = [raFwd EXCEPT ![p] = "send"]
      /\ raHeld' = [raHeld EXCEPT ![p] = e]
      /\ UNCHANGED <<sepPos, parser, file, ras>>
    BY DEF SendAttribute, Sending, Sent, RA!Take
<1>2. raHeld[p] = None /\ file[p] \in Taken /\ pos[p] \in Nat /\ e \in Elements
      /\ e[1] = file[p] /\ e[2] = pos[p]
    BY <1>1, SendingFacts DEF IInv, Flow, TypeOK, ElementsOf
<1>3. e # None
    BY <1>2, NoneAssumption
<1>4. pos[p] = CountIn(ras, file[p]) + 1
    BY <1>1, <1>2 DEF AttributesInTurn, InTurn, Carries
<1>. HIDE DEF e
<1>5. /\ raHeld'[p] = e /\ pos'[p] = pos[p] + 1
      /\ \A q \in Parsers : q # p => raHeld'[q] = raHeld[q] /\ pos'[q] = pos[q] /\ raFwd'[q] = raFwd[q]
    BY <1>1 DEF IInv, TypeOK, RA!FanTypeOK
<1>6. Taken' = Taken
    BY <1>1 DEF Taken
\* No other forwarder has attributes of this file.
<1>7. \A q \in Parsers : q # p => ~Carries(q, file[p])
    BY <1>1 DEF AttributesInTurn, Owned
<1>8. Owned'
    <2>1. /\ DOMAIN ras' \subseteq Taken'
          /\ \A f \in DOMAIN ras' : ras'[f] \in Seq(Attributes)
          /\ \A q \in Parsers : raHeld'[q] # None => raHeld'[q][1] \in Taken'
        BY <1>1, <1>2, <1>5, <1>6 DEF AttributesInTurn, Owned
    <2>2. \A q, r \in Parsers : raHeld'[q] # None /\ raHeld'[r] # None
                                    /\ raHeld'[r][1] = raHeld'[q][1] => q = r
        BY <1>2, <1>5, <1>7 DEF AttributesInTurn, Owned, Carries
    <2>3. \A q, r \in Parsers : parser'[q] = "parse" /\ raHeld'[r] # None
                                    /\ raHeld'[r][1] = file'[q] => q = r
        BY <1>1, <1>2, <1>5, <1>7 DEF AttributesInTurn, Owned, Carries, IInv, Assigned
    <2>. QED
        BY <2>1, <2>2, <2>3 DEF Owned, Carries
<1>9. InTurn'
    <2>1. \A f : CountIn(ras', f) = CountIn(ras, f)
        BY <1>1 DEF CountIn
    <2>2. CountIn(ras, file[p]) \in Nat
        BY DEF AttributesInTurn, Owned, CountIn
    <2>3. \A q \in Parsers : raHeld'[q] # None => raHeld'[q][2] = CountIn(ras', raHeld'[q][1]) + 1
        <3>1. \A q \in Parsers : raHeld'[q] # None => raHeld'[q][2] = CountIn(ras, raHeld'[q][1]) + 1
            BY <1>2, <1>4, <1>5 DEF AttributesInTurn, InTurn
        <3>. QED
            BY <1>1, <3>1 DEF CountIn
    <2>4. ASSUME NEW q \in Parsers, Sending(q, "ra")', raFwd'[q] # "done"
          PROVE  pos'[q] = CountIn(ras', file'[q]) + (IF Carries(q, file[q])' THEN 2 ELSE 1)
        <3>1. CASE q = p
            <4>1. pos'[p] = CountIn(ras, file[p]) + 2
                BY <1>4, <1>5, <2>2
            <4>2. CountIn(ras', file'[p]) = CountIn(ras, file[p]) /\ Carries(p, file[p])'
                BY <1>1, <1>2, <1>3, <1>5 DEF CountIn, Carries
            <4>. QED
                BY <3>1, <4>1, <4>2
        <3>2. CASE q # p
            <4>1. Sending(q, "ra") /\ raFwd[q] # "done" /\ pos'[q] = pos[q] /\ raHeld'[q] = raHeld[q]
                BY <1>1, <1>5, <2>4, <3>2 DEF Sending
            <4>2. pos[q] = CountIn(ras, file[q]) + (IF Carries(q, file[q]) THEN 2 ELSE 1)
                BY <4>1 DEF AttributesInTurn, InTurn
            <4>3. CountIn(ras', file'[q]) = CountIn(ras, file[q]) /\ (Carries(q, file[q])' <=> Carries(q, file[q]))
                BY <1>1, <4>1 DEF CountIn, Carries
            <4>. QED
                BY <4>1, <4>2, <4>3
        <3>. QED
            BY <3>1, <3>2
    <2>. QED
        BY <2>3, <2>4 DEF InTurn
<1>10. AttributesInOrder'
    BY <1>1 DEF AttributesInTurn, AttributesInOrder
<1>. QED
    BY <1>8, <1>9, <1>10 DEF AttributesInTurn

\* After another element no attribute comes any more.
LEMMA SendOtherTurn ==
    ASSUME IInv, AttributesInTurn, NEW p \in Parsers, SendValue(p) \/ SendError(p)
    PROVE  AttributesInTurn'
<1>1. /\ \E ch \in {"vr", "err"} : Sending(p, ch)
      /\ parser[p] = "parse" /\ pos' = [pos EXCEPT ![p] = @ + 1]
      /\ UNCHANGED <<sepPos, parser, file, raHeld, raFwd, ras>>
    BY DEF SendValue, SendError, Sending, Sent
<1>2. /\ file[p] \in Values /\ pos[p] \in DOMAIN sends[file[p]] /\ pos[p] \in Nat
      /\ sends[file[p]][pos[p]].ch # "ra"
    BY <1>1 DEF Sending, IInv, Assigned, TypeOK
<1>3. /\ pos'[p] = pos[p] + 1 /\ pos[p] < pos'[p]
      /\ \A q \in Parsers : q # p => pos'[q] = pos[q]
    BY <1>1, <1>2 DEF IInv, TypeOK
<1>4. ~Sending(p, "ra")'
    BY <1>1, <1>2, <1>3, AttributesAssumption DEF Sending
<1>5. Taken' = Taken
    BY <1>1 DEF Taken
<1>6. Owned'
    BY <1>1, <1>5 DEF AttributesInTurn, Owned, Carries
<1>7. InTurn'
    BY <1>1, <1>3, <1>4 DEF AttributesInTurn, InTurn, Carries, CountIn, Sending
<1>8. AttributesInOrder'
    BY <1>1 DEF AttributesInTurn, AttributesInOrder
<1>. QED
    BY <1>6, <1>7, <1>8 DEF AttributesInTurn

LEMMA ReceiveAttributeTurn ==
    ASSUME IInv, AttributesInTurn, NEW p \in Parsers, ReceiveAttribute(p)
    PROVE  AttributesInTurn'
<1>. DEFINE e == raHeld[p]
            f == e[1]
            a == At(e).attr
            n == CountIn(ras, f)
<1>1. /\ raFwd[p] = "send"
      /\ raFwd' = [raFwd EXCEPT ![p] = "range"]
      /\ raHeld' = [raHeld EXCEPT ![p] = None]
      /\ ras' = CollectResourcesAttribute(ras, f, a)
      /\ UNCHANGED <<sepPos, parser, file, pos>>
    BY DEF ReceiveAttribute, RA!Hand
<1>2. e # None /\ e \in ElementsOf("ra") /\ a \in Attributes
    BY <1>1 DEF IInv, Flow, TypeOK, RA!FanTypeOK, Attributes
<1>3. /\ f \in Values /\ f \in Taken /\ e[2] \in DOMAIN sends[f] /\ e[2] = n + 1
      /\ sends[f][e[2]].ch = "ra" /\ sends[f][e[2]].attr = a
    BY <1>2, ElementFacts DEF ElementsOf, At, AttributesInTurn, Owned, InTurn
<1>4. n \in Nat /\ sends[f] \in Seq({At(d) : d \in Elements})
    BY <1>3, SendsAssumption DEF AttributesInTurn, Owned, CountIn
<1>5. /\ raHeld'[p] = None /\ raFwd'[p] = "range"
      /\ \A q \in Parsers : q # p => raHeld'[q] = raHeld[q] /\ raFwd'[q] = raFwd[q]
    BY <1>1 DEF IInv, TypeOK, RA!FanTypeOK
<1>6. \A q \in Parsers : /\ q # p => ~Carries(q, f)
                         /\ parser[q] = "parse" /\ file[q] = f => q = p
    BY <1>2 DEF AttributesInTurn, Owned, Carries
<1>. HIDE DEF a, n
<1>7. /\ DOMAIN ras' = DOMAIN ras \cup {f}
      /\ \A g \in DOMAIN ras : g # f => ras'[g] = ras[g]
      /\ ras'[f] \in Seq(Attributes) /\ Len(ras'[f]) = n + 1 /\ ras'[f][n + 1] = a
      /\ \A j \in 1..n : f \in DOMAIN ras /\ ras'[f][j] = ras[f][j] /\ j \in DOMAIN ras[f]
    <2>1. CASE f \in DOMAIN ras
        <3>1. ras' = Put(ras, f, Append(ras[f], a)) /\ n = Len(ras[f])
              /\ ras[f] \in Seq(Attributes)
            BY <1>1, <2>1 DEF CollectResourcesAttribute, AttributesInTurn, Owned, n, CountIn
        <3>2. /\ DOMAIN ras' = DOMAIN ras \cup {f} /\ ras'[f] = Append(ras[f], a)
              /\ \A g \in DOMAIN ras : g # f => ras'[g] = ras[g]
            BY <3>1 DEF Put
        <3>. QED
            BY <1>2, <2>1, <3>1, <3>2
    <2>2. CASE f \notin DOMAIN ras
        <3>1. ras' = Put(ras, f, <<a>>) /\ n = 0
            BY <1>1, <2>2 DEF CollectResourcesAttribute, n, CountIn
        <3>2. /\ DOMAIN ras' = DOMAIN ras \cup {f} /\ ras'[f] = <<a>>
              /\ \A g \in DOMAIN ras : g # f => ras'[g] = ras[g]
            BY <3>1 DEF Put
        <3>3. ras'[f] \in Seq(Attributes) /\ Len(ras'[f]) = 1 /\ ras'[f][1] = a
            BY <1>2, <3>2
        <3>4. n + 1 = 1 /\ 1..n = {}
            BY <3>1
        <3>. QED
            BY <3>2, <3>3, <3>4
    <2>. QED
        BY <2>1, <2>2
<1>8. /\ \A g : g # f => CountIn(ras, g) = IF g \in DOMAIN ras THEN Len(ras[g]) ELSE 0
      /\ CountIn(ras, f) = n
    BY <1>7 DEF CountIn, n
<1>. DEFINE c(g) == CountIn(ras', g)
<1>9. /\ \A g : g # f => c(g) = CountIn(ras, g)
      /\ c(f) = n + 1
    BY <1>7 DEF CountIn
<1>. HIDE DEF f
<1>10. Owned'
    <2>1. Taken' = Taken
        BY <1>1 DEF Taken
    <2>2. /\ DOMAIN ras' \subseteq Taken'
          /\ \A g \in DOMAIN ras' : ras'[g] \in Seq(Attributes)
        BY <1>3, <1>7, <2>1 DEF AttributesInTurn, Owned
    <2>3. \A q \in Parsers : raHeld'[q] # None => raHeld'[q] = raHeld[q]
        BY <1>5
    <2>. QED
        BY <1>1, <2>1, <2>2, <2>3 DEF AttributesInTurn, Owned, Carries
<1>11. InTurn'
    <2>1. ASSUME NEW q \in Parsers, raHeld'[q] # None
          PROVE  raHeld'[q][2] = c(raHeld'[q][1]) + 1
        <3>1. q # p /\ raHeld'[q] = raHeld[q] /\ raHeld[q][1] # f
            BY <1>5, <1>6, <2>1 DEF Carries
        <3>2. raHeld[q][2] = CountIn(ras, raHeld[q][1]) + 1
            BY <2>1, <3>1 DEF AttributesInTurn, InTurn
        <3>. QED
            BY <1>9, <3>1, <3>2
    <2>2. ASSUME NEW q \in Parsers, Sending(q, "ra")', raFwd'[q] # "done"
          PROVE  pos[q] = c(file[q]) + (IF Carries(q, file[q])' THEN 2 ELSE 1)
        <3>1. Sending(q, "ra") /\ raFwd[q] # "done" /\ parser[q] = "parse"
            BY <1>1, <1>5, <2>2 DEF Sending
        <3>2. pos[q] = CountIn(ras, file[q]) + (IF Carries(q, file[q]) THEN 2 ELSE 1)
            BY <3>1 DEF AttributesInTurn, InTurn
        <3>3. CASE file[q] = f
            <4>1. q = p /\ Carries(q, file[q]) /\ ~Carries(q, file[q])'
                BY <1>1, <1>2, <1>5, <1>6, <3>1, <3>3 DEF Carries, f
            <4>2. pos[q] = n + 2
                BY <1>8, <3>2, <3>3, <4>1
            <4>. QED
                BY <1>4, <1>9, <3>3, <4>1, <4>2
        <3>4. CASE file[q] # f
            <4>1. Carries(q, file[q])' <=> Carries(q, file[q])
                BY <1>1, <1>5, <3>4 DEF Carries, f
            <4>. QED
                BY <1>9, <3>2, <3>4, <4>1
        <3>. QED
            BY <3>3, <3>4
    <2>. QED
        BY <1>1, <2>1, <2>2 DEF InTurn, CountIn
<1>12. AttributesInOrder'
    <2>. SUFFICES ASSUME NEW g \in DOMAIN ras'
                  PROVE  /\ Len(ras'[g]) <= Len(sends[g])
                         /\ \A j \in DOMAIN ras'[g] : /\ sends[g][j].ch = "ra"
                                                      /\ sends[g][j].attr = ras'[g][j]
        BY DEF AttributesInOrder
    <2>1. CASE g # f
        BY <1>7, <2>1 DEF AttributesInTurn, AttributesInOrder
    <2>2. CASE g = f
        <3>1. n + 1 <= Len(sends[f])
            BY <1>3, <1>4
        <3>2. DOMAIN ras'[f] = 1..(n + 1)
            BY <1>4, <1>7
        <3>3. \A j \in 1..n : sends[f][j].ch = "ra" /\ sends[f][j].attr = ras'[f][j]
            BY <1>7 DEF AttributesInTurn, AttributesInOrder
        <3>4. \A j \in 1..(n + 1) : j = n + 1 \/ j \in 1..n
            BY <1>4
        <3>. QED
            BY <1>3, <1>7, <2>2, <3>1, <3>2, <3>3, <3>4
    <2>. QED
        BY <2>1, <2>2
<1>. QED
    BY <1>10, <1>11, <1>12 DEF AttributesInTurn

LEMMA TurnStep ==
    ASSUME IInv, AttributesInTurn, [Next]_vars
    PROVE  AttributesInTurn'
<1>1. ASSUME NEW p \in Parsers, Parser(p) PROVE AttributesInTurn'
    <2>1. CASE SendCancelled(p) \/ FileDone(p) \/ NoMoreFiles(p)
        <3>1. \A q \in Parsers : parser'[q] = "parse" => parser[q] = "parse"
            BY <2>1 DEF SendCancelled, FileDone, NoMoreFiles, IInv, TypeOK
        <3>. QED
            BY <2>1, <3>1, TurnFewer DEF SendCancelled, FileDone, NoMoreFiles
    <2>. QED
        BY <1>1, <2>1, TakeFileTurn, SendAttributeTurn, SendOtherTurn DEF Parser
<1>2. CASE StreamRA
    <2>1. \A p \in Parsers : /\ raHeld'[p] = raHeld[p] \/ (raHeld'[p] = None /\ raFwd'[p] = "done")
                             /\ raFwd[p] = "done" => raFwd'[p] = "done"
        BY <1>2 DEF StreamRA, RA!FanStep, RA!GiveUp, RA!Finish, RA!CloseOut, IInv, TypeOK,
                    RA!FanTypeOK
    <2>. QED
        BY <1>2, <2>1, TurnFewer DEF StreamRA
<1>3. ASSUME UNCHANGED <<sepPos, parser, file, pos, raHeld, raFwd, ras>>
      PROVE  AttributesInTurn'
    BY <1>3, TurnStill DEF Taken
<1>4. CASE SeparatorReturns \/ StreamVR \/ StreamErr \/ ClosePartitioner \/ Cancel
           \/ UNCHANGED vars
    BY <1>3, <1>4 DEF SeparatorReturns, StreamVR, StreamErr, ClosePartitioner, Cancel, vars
<1>5. ASSUME NEW p \in Parsers, ReceiveError(p) \/ ReceiveValue(p) PROVE AttributesInTurn'
    BY <1>3, <1>5 DEF ReceiveError, ReceiveValue
<1>6. ASSUME NEW ch \in Channels, SeeClosed(ch) PROVE AttributesInTurn'
    BY <1>3, <1>6 DEF SeeClosed
<1>7. CASE ReceivePath
    <2>1. Taken' = Taken \cup {Current}
        BY <1>7, TakenGrows DEF ReceivePath, Emitting, IInv
    <2>. QED
        BY <1>7, <2>1, TurnStill DEF ReceivePath
<1>. QED
    BY <1>1, <1>2, <1>4, <1>5, <1>6, <1>7, ReceiveAttributeTurn DEF Next, Archive, Returned

LEMMA TurnInit == Init => AttributesInTurn
<1>. SUFFICES ASSUME Init PROVE AttributesInTurn
    OBVIOUS
<1>1. /\ DOMAIN ras = {} /\ \A p \in Parsers : raHeld[p] = None /\ parser[p] = "range"
    BY DEF Init, EmptyMap, RA!FanInit
<1>. QED
    BY <1>1 DEF AttributesInTurn, Owned, InTurn, AttributesInOrder, Carries, Sending

\* For any parsers, documents and interleaving: the attributes collected for a file are
\* always the first ones of its <resources> tag, in document order.
THEOREM AttributesKeepOrder == Spec => []AttributesInOrder
<1>1. Init => AttributesInTurn
    BY TurnInit
<1>2. IInv /\ AttributesInTurn /\ [Next]_vars => AttributesInTurn'
    BY TurnStep
<1>3. AttributesInTurn => AttributesInOrder
    BY DEF AttributesInTurn
<1>. QED
    BY IInvHolds, <1>1, <1>2, <1>3, PTL DEF Spec
=============================================================================
