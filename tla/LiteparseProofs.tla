--------------------------- MODULE LiteparseProofs ----------------------------
(***************************************************************************)
(* For any files, any number of parsers and any contents: the resources of *)
(* one file are received in the order of the file, although they pass a    *)
(* merged stream that other parsers and the dispatcher send on too; and a  *)
(* call that succeeds undisturbed returns each resource exactly once.      *)
(***************************************************************************)
EXTENDS Liteparse, Recursion, FiniteSetTheorems, TLAPS

\* What the merged resource stream carries: a file, where in it, and the place.
Element == Nat \X {"emit", "path"} \X Nat

Types ==
    /\ turn \in Nat
    /\ parser \in [Parsers -> {"range", "parse", "closed"}]
    /\ DOMAIN file = Parsers
    /\ pos \in [Parsers -> Nat]
    /\ resFwd \in [Inputs -> {"range", "send", "done"}]
    /\ DOMAIN resHeld = Inputs
    /\ got \in Seq(Element)

\* The file was given to a parser, or passed over.
Dispatched(f) == f < turn \/ (f = turn /\ stage # "parse")

\* A resource in a forwarder, and one that comes from file f.
Holds(i) == resFwd[i] = "send"
From(e, f) == e[1] = f /\ e[2] = "emit"

\* Parsers work on different files, that were dispatched.
Assigned ==
    /\ \A p \in Parsers : parser[p] = "parse" => file[p] \in Nat /\ Dispatched(file[p])
    /\ \A p, q \in Parsers : p # q /\ parser[p] = "parse" /\ parser[q] = "parse"
                                => file[p] # file[q]

\* What was sent is of a file that was dispatched.
Sent == /\ \A i \in Inputs : Holds(i) => resHeld[i] \in Element
        /\ \A i \in Inputs : Holds(i) /\ resHeld[i][2] = "emit" => Dispatched(resHeld[i][1])
        /\ \A j \in DOMAIN got : got[j][2] = "emit" => Dispatched(got[j][1])

\* A parser is behind all that was sent of its file; what a forwarder holds of that
\* file, it holds for this parser.
Behind ==
    \A p \in Parsers : parser[p] = "parse" =>
        /\ \A i \in Inputs : Holds(i) /\ From(resHeld[i], file[p])
                                => i = p /\ resHeld[i][3] < pos[p]
        /\ \A j \in DOMAIN got : From(got[j], file[p]) => got[j][3] < pos[p]

\* No two forwarders hold resources of one file, and what is held is behind what was
\* received of its file.
HeldOrder ==
    \A i \in Inputs : Holds(i) /\ resHeld[i][2] = "emit" =>
        /\ \A k \in Inputs : Holds(k) /\ From(resHeld[k], resHeld[i][1]) => k = i
        /\ \A j \in DOMAIN got : From(got[j], resHeld[i][1]) => got[j][3] < resHeld[i][3]

\* The inductive invariant.
IInv == Types /\ Assigned /\ Sent /\ Behind /\ HeldOrder /\ FileOrder

\* What the invariant is about.
orderVars == <<turn, stage, parser, file, pos, resFwd, resHeld, got>>

USE DEF dispatcherVars, parserVars, resVars, errVars, readerVars, mainVars
-----------------------------------------------------------------------------
LEMMA InitOrder == Init => IInv
<1>. SUFFICES ASSUME Init PROVE IInv
    OBVIOUS
<1>1. Types
    BY DEF Init, Types, RS!FanInit
<1>2. \A p \in Parsers : parser[p] # "parse"
    BY DEF Init
<1>3. (\A i \in Inputs : ~Holds(i)) /\ DOMAIN got = {}
    BY DEF Init, Holds, RS!FanInit
<1>. QED
    BY <1>1, <1>2, <1>3 DEF IInv, Assigned, Sent, Behind, HeldOrder, FileOrder

\* The steps that change nothing of the order: the error stream and its reader, the end
\* of the call, cancellations.
LEMMA OtherSteps == IInv /\ UNCHANGED orderVars => IInv'
BY DEF IInv, orderVars, Types, Assigned, Sent, Behind, HeldOrder, FileOrder, Dispatched,
       Holds, From

\* The dispatcher goes on, and what was dispatched still is.
LEMMA DispatcherSteps ==
    ASSUME IInv, turn' \in Nat, \A f \in Nat : Dispatched(f) => Dispatched(f)',
           UNCHANGED <<parser, file, pos, resFwd, resHeld, got>>
    PROVE  IInv'
<1>1. Types'
    BY DEF IInv, Types
<1>2. Assigned'
    BY DEF IInv, Assigned
<1>3. Sent'
    <2>1. \A e \in Element : e[1] \in Nat
        BY DEF Element
    <2>2. \A j \in DOMAIN got : got[j] \in Element
        BY DEF IInv, Types
    <2>. QED
        BY <2>1, <2>2 DEF IInv, Sent, Holds
<1>4. Behind' /\ HeldOrder' /\ FileOrder'
    BY DEF IInv, Behind, HeldOrder, FileOrder, Holds, From
<1>. QED
    BY <1>1, <1>2, <1>3, <1>4 DEF IInv

\* NextFile leaves the file behind.
LEMMA NextFileGrows ==
    ASSUME IInv, NextFile
    PROVE  turn' \in Nat /\ \A f \in Nat : Dispatched(f) => Dispatched(f)'
BY DEF IInv, Types, NextFile, Dispatched

LEMMA SendFileStep ==
    ASSUME IInv, NEW p \in Parsers, SendFile(p)
    PROVE  IInv'
<1>1. /\ turn \in Nat /\ turn' = turn /\ stage = "parse" /\ stage' = "path"
      /\ parser' = [parser EXCEPT ![p] = "parse"]
      /\ file' = [file EXCEPT ![p] = turn]
      /\ UNCHANGED <<resFwd, resHeld, got>>
    BY DEF SendFile, At, IInv, Types
<1>2. pos' \in [Parsers -> Nat] /\ \A q \in Parsers : q # p => pos'[q] = pos[q]
    <2>1. CASE pos' = [pos EXCEPT ![p] = 1]
        BY <2>1 DEF IInv, Types
    <2>2. CASE pos' = [pos EXCEPT ![p] = Len(contents(turn).emits) + 1]
        BY <2>2 DEF IInv, Types
    <2>. QED
        BY <2>1, <2>2 DEF SendFile, OpenFile
<1>3. ~Dispatched(turn)
    BY <1>1 DEF Dispatched
<1>4. \A f \in Nat : Dispatched(f)' <=> Dispatched(f) \/ f = turn
    BY <1>1 DEF Dispatched
<1>5. /\ parser'[p] = "parse" /\ file'[p] = turn
      /\ \A q \in Parsers : q # p => parser'[q] = parser[q] /\ file'[q] = file[q]
    BY <1>1 DEF IInv, Types
<1>6. /\ \A i \in Inputs : Holds(i) => ~From(resHeld[i], turn)
      /\ \A j \in DOMAIN got : ~From(got[j], turn)
    BY <1>3 DEF IInv, Sent, From
<1>7. Types'
    BY <1>1, <1>2 DEF IInv, Types
<1>8. Assigned'
    BY <1>1, <1>3, <1>4, <1>5 DEF IInv, Assigned
<1>9. Sent'
    <2>1. \A e \in Element : e[1] \in Nat
        BY DEF Element
    <2>2. \A j \in DOMAIN got : got[j] \in Element
        BY DEF IInv, Types
    <2>. QED
        BY <1>1, <1>4, <2>1, <2>2 DEF IInv, Sent, Holds
<1>10. Behind'
    <2>. SUFFICES ASSUME NEW q \in Parsers, parser'[q] = "parse"
                  PROVE  /\ \A i \in Inputs : Holds(i) /\ From(resHeld[i], file'[q])
                                                 => i = q /\ resHeld[i][3] < pos'[q]
                         /\ \A j \in DOMAIN got : From(got[j], file'[q])
                                                 => got[j][3] < pos'[q]
        BY <1>1 DEF Behind, Holds, From
    <2>1. CASE q = p
        BY <1>5, <1>6, <2>1
    <2>2. CASE q # p
        BY <1>2, <1>5, <2>2 DEF IInv, Behind
    <2>. QED
        BY <2>1, <2>2
<1>11. HeldOrder' /\ FileOrder'
    BY <1>1 DEF IInv, HeldOrder, FileOrder, Holds, From
<1>. QED
    BY <1>7, <1>8, <1>9, <1>10, <1>11 DEF IInv

\* A parser stops, or comes to the end of its file.
LEMMA ParserStops ==
    ASSUME IInv, NEW p \in Parsers, NEW s \in {"range", "closed"},
           parser' = [parser EXCEPT ![p] = s],
           UNCHANGED <<turn, stage, file, pos, resFwd, resHeld, got>>
    PROVE  IInv'
<1>1. \A q \in Parsers : parser'[q] = "parse" => parser[q] = "parse"
    BY DEF IInv, Types
<1>2. Types'
    BY DEF IInv, Types
<1>3. Assigned'
    BY <1>1 DEF IInv, Assigned, Dispatched
<1>4. Sent'
    BY DEF IInv, Sent, Holds, Dispatched
<1>5. Behind'
    BY <1>1 DEF IInv, Behind, Holds, From
<1>6. HeldOrder' /\ FileOrder'
    BY DEF IInv, HeldOrder, FileOrder, Holds, From
<1>. QED
    BY <1>2, <1>3, <1>4, <1>5, <1>6 DEF IInv

LEMMA EmitErrorStep ==
    ASSUME IInv, NEW p \in Parsers, EmitError(p)
    PROVE  IInv'
<1>1. /\ pos' = [pos EXCEPT ![p] = @ + 1]
      /\ UNCHANGED <<turn, stage, parser, file, resFwd, resHeld, got>>
    BY DEF EmitError
<1>2. pos' \in [Parsers -> Nat] /\ \A q \in Parsers : pos[q] <= pos'[q]
    BY <1>1 DEF IInv, Types
<1>3. Types'
    BY <1>1, <1>2 DEF IInv, Types
<1>4. Assigned' /\ Sent' /\ HeldOrder' /\ FileOrder'
    BY <1>1 DEF IInv, Assigned, Sent, HeldOrder, FileOrder, Dispatched, Holds, From
<1>5. Behind'
    <2>1. \A e \in Element : e[3] \in Nat
        BY DEF Element
    <2>2. \A j \in DOMAIN got : got[j][3] \in Nat
        BY <2>1 DEF IInv, Types
    <2>3. \A i \in Inputs : Holds(i) => resHeld[i][3] \in Nat
        BY <2>1 DEF IInv, Sent
    <2>4. \A q \in Parsers : pos[q] \in Nat /\ pos'[q] \in Nat
        BY <1>2 DEF IInv, Types
    <2>5. \A n, a, b \in Nat : n < a /\ a <= b => n < b
        OBVIOUS
    <2>. SUFFICES ASSUME NEW q \in Parsers, parser[q] = "parse"
                  PROVE  /\ \A i \in Inputs : Holds(i) /\ From(resHeld[i], file[q])
                                                 => i = q /\ resHeld[i][3] < pos'[q]
                         /\ \A j \in DOMAIN got : From(got[j], file[q])
                                                 => got[j][3] < pos'[q]
        BY <1>1 DEF Behind, Holds, From
    <2>. QED
        BY <1>2, <2>2, <2>3, <2>4, <2>5 DEF IInv, Behind
<1>. QED
    BY <1>3, <1>4, <1>5 DEF IInv

LEMMA SendResourceStep ==
    ASSUME IInv, NEW p \in Parsers, SendResource(p)
    PROVE  IInv'
<1>. DEFINE e == <<file[p], "emit", pos[p]>>
<1>1. /\ parser[p] = "parse" /\ resFwd[p] = "range"
      /\ pos' = [pos EXCEPT ![p] = @ + 1]
      /\ resFwd' = [resFwd EXCEPT ![p] = "send"]
      /\ resHeld' = [resHeld EXCEPT ![p] = e]
      /\ UNCHANGED <<turn, stage, parser, file, got>>
    BY DEF SendResource, Emitting, RS!Take
<1>2. file[p] \in Nat /\ Dispatched(file[p]) /\ pos[p] \in Nat /\ p \in Inputs
    BY <1>1 DEF IInv, Types, Assigned, Inputs
<1>3. e \in Element /\ e[1] = file[p] /\ e[2] = "emit" /\ e[3] = pos[p]
    BY <1>2 DEF Element
<1>4. /\ Holds(p)' /\ resHeld'[p] = e
      /\ \A i \in Inputs : i # p => (Holds(i)' <=> Holds(i)) /\ resHeld'[i] = resHeld[i]
    BY <1>1, <1>2 DEF IInv, Types, Holds
<1>. HIDE DEF e
<1>5. /\ pos' \in [Parsers -> Nat] /\ pos'[p] = pos[p] + 1
      /\ \A q \in Parsers : q # p => pos'[q] = pos[q]
    BY <1>1 DEF IInv, Types
<1>6. Types'
    BY <1>1, <1>5 DEF IInv, Types
<1>7. Assigned'
    BY <1>1 DEF IInv, Assigned, Dispatched
<1>8. Sent'
    <2>1. \A i \in Inputs : Holds(i)' => resHeld'[i] \in Element
        BY <1>3, <1>4 DEF IInv, Sent
    <2>2. \A i \in Inputs : Holds(i)' /\ resHeld'[i][2] = "emit" => Dispatched(resHeld'[i][1])
        BY <1>2, <1>3, <1>4 DEF IInv, Sent
    <2>3. \A f : Dispatched(f)' <=> Dispatched(f)
        BY <1>1 DEF Dispatched
    <2>. QED
        BY <1>1, <2>1, <2>2, <2>3 DEF IInv, Sent
\* No other forwarder holds a resource of this file.
<1>9. \A i \in Inputs : i # p /\ Holds(i) => ~From(resHeld[i], file[p])
    BY <1>1 DEF IInv, Behind
<1>10. \A j \in DOMAIN got : got[j] \in Element /\ got[j][3] \in Nat
    <2>1. \A d \in Element : d[3] \in Nat
        BY DEF Element
    <2>. QED
        BY <2>1 DEF IInv, Types
<1>11. \A j \in DOMAIN got : From(got[j], file[p]) => got[j][3] < pos[p] /\ got[j][3] < pos'[p]
    BY <1>1, <1>2, <1>5, <1>10 DEF IInv, Behind
<1>12. Behind'
    <2>. SUFFICES ASSUME NEW q \in Parsers, parser[q] = "parse"
                  PROVE  /\ \A i \in Inputs : Holds(i)' /\ From(resHeld'[i], file[q])
                                                 => i = q /\ resHeld'[i][3] < pos'[q]
                         /\ \A j \in DOMAIN got : From(got[j], file[q])
                                                 => got[j][3] < pos'[q]
        BY <1>1 DEF Behind, From
    <2>1. CASE q = p
        BY <1>2, <1>3, <1>4, <1>5, <1>9, <1>11, <2>1
    <2>2. CASE q # p
        <3>1. file[q] # file[p]
            BY <1>1, <2>2 DEF IInv, Assigned
        <3>2. ~From(e, file[q])
            BY <1>3, <3>1 DEF From
        <3>. QED
            BY <1>4, <1>5, <2>2, <3>2 DEF IInv, Behind
    <2>. QED
        BY <2>1, <2>2
<1>13. HeldOrder'
    <2>. SUFFICES ASSUME NEW i \in Inputs, Holds(i)', resHeld'[i][2] = "emit"
                  PROVE  /\ \A k \in Inputs : Holds(k)' /\ From(resHeld'[k], resHeld'[i][1])
                                                 => k = i
                         /\ \A j \in DOMAIN got : From(got[j], resHeld'[i][1])
                                                 => got[j][3] < resHeld'[i][3]
        BY <1>1 DEF HeldOrder, From
    <2>1. CASE i = p
        BY <1>3, <1>4, <1>9, <1>11, <2>1
    <2>2. CASE i # p
        <3>1. resHeld[i][1] # file[p]
            BY <1>4, <1>9, <2>2 DEF From
        <3>2. ~From(e, resHeld[i][1])
            BY <1>3, <3>1 DEF From
        <3>. QED
            BY <1>4, <2>2, <3>2 DEF IInv, HeldOrder
    <2>. QED
        BY <2>1, <2>2
<1>14. FileOrder'
    BY <1>1 DEF IInv, FileOrder
<1>. QED
    BY <1>6, <1>7, <1>8, <1>12, <1>13, <1>14 DEF IInv

\* The dispatcher sends what the path of a file is; that is no resource from a file.
LEMMA SendPathResourceStep ==
    ASSUME IInv, SendPathResource
    PROVE  IInv'
<1>. DEFINE e == <<turn, "path", 0>>
<1>1. /\ NextFile
      /\ resFwd' = [resFwd EXCEPT ![Dispatcher] = "send"]
      /\ resHeld' = [resHeld EXCEPT ![Dispatcher] = e]
      /\ UNCHANGED <<parser, file, pos, got>>
    BY DEF SendPathResource, RS!Take, PathElement
<1>2. Dispatcher \in Inputs
    BY DEF Inputs
<1>3. e \in Element /\ e[2] # "emit"
    BY DEF Element, IInv, Types
<1>4. /\ resHeld'[Dispatcher] = e
      /\ \A i \in Inputs : i # Dispatcher
                              => (Holds(i)' <=> Holds(i)) /\ resHeld'[i] = resHeld[i]
    BY <1>1, <1>2 DEF IInv, Types, Holds
<1>. HIDE DEF e
<1>5. turn' \in Nat /\ \A f \in Nat : Dispatched(f) => Dispatched(f)'
    BY <1>1, NextFileGrows
<1>6. Types'
    BY <1>1, <1>5 DEF IInv, Types
<1>7. Assigned'
    BY <1>1, <1>5 DEF IInv, Assigned
<1>8. \A d \in Element : d[1] \in Nat
    BY DEF Element
<1>9. Sent'
    <2>1. \A i \in Inputs : Holds(i)' => resHeld'[i] \in Element
        BY <1>3, <1>4 DEF IInv, Sent
    <2>2. \A i \in Inputs : Holds(i)' /\ resHeld'[i][2] = "emit" => Dispatched(resHeld[i][1])'
        BY <1>3, <1>4, <1>5, <1>8 DEF IInv, Sent
    <2>3. \A j \in DOMAIN got : got[j][2] = "emit" => Dispatched(got[j][1])'
        BY <1>1, <1>5, <1>8 DEF IInv, Sent, Types
    <2>. QED
        BY <1>1, <2>1, <2>2, <2>3 DEF Sent
<1>10. \A f : ~From(e, f)
    BY <1>3 DEF From
<1>11. Behind'
    <2>. SUFFICES ASSUME NEW q \in Parsers, parser[q] = "parse"
                  PROVE  /\ \A i \in Inputs : Holds(i)' /\ From(resHeld'[i], file[q])
                                                 => i = q /\ resHeld'[i][3] < pos[q]
                         /\ \A j \in DOMAIN got : From(got[j], file[q])
                                                 => got[j][3] < pos[q]
        BY <1>1 DEF Behind, From
    <2>. QED
        BY <1>4, <1>10 DEF IInv, Behind
<1>12. HeldOrder'
    <2>. SUFFICES ASSUME NEW i \in Inputs, Holds(i)', resHeld'[i][2] = "emit"
                  PROVE  /\ \A k \in Inputs : Holds(k)' /\ From(resHeld'[k], resHeld'[i][1])
                                                 => k = i
                         /\ \A j \in DOMAIN got : From(got[j], resHeld'[i][1])
                                                 => got[j][3] < resHeld'[i][3]
        BY <1>1 DEF HeldOrder, From
    <2>1. i # Dispatcher
        BY <1>3, <1>4
    <2>. QED
        BY <1>4, <1>10, <2>1 DEF IInv, HeldOrder
<1>13. FileOrder'
    BY <1>1 DEF IInv, FileOrder
<1>. QED
    BY <1>6, <1>7, <1>9, <1>11, <1>12, <1>13 DEF IInv

\* Forwarders that give up or return, and the closer.
LEMMA StreamResStep ==
    ASSUME IInv, StreamRes
    PROVE  IInv'
<1>1. UNCHANGED <<turn, stage, parser, file, pos, got>>
    BY DEF StreamRes
<1>2. /\ resFwd' \in [Inputs -> {"range", "send", "done"}] /\ DOMAIN resHeld' = Inputs
      /\ \A i \in Inputs : Holds(i)' => Holds(i) /\ resHeld'[i] = resHeld[i]
    BY DEF StreamRes, RS!FanStep, RS!GiveUp, RS!Finish, RS!CloseOut, IInv, Types, Holds
<1>3. Types'
    BY <1>1, <1>2 DEF IInv, Types
<1>4. Assigned' /\ FileOrder'
    BY <1>1 DEF IInv, Assigned, FileOrder, Dispatched
<1>5. Sent'
    BY <1>1, <1>2 DEF IInv, Sent, Dispatched
<1>6. Behind'
    BY <1>1, <1>2 DEF IInv, Behind, From
<1>7. HeldOrder'
    BY <1>1, <1>2 DEF IInv, HeldOrder, From
<1>. QED
    BY <1>3, <1>4, <1>5, <1>6, <1>7 DEF IInv

LEMMA ReadResourceStep ==
    ASSUME IInv, NEW i \in Inputs, ReadResource(i)
    PROVE  IInv'
<1>. DEFINE e == resHeld[i]
<1>. DEFINE n == Len(got) + 1
<1>1. /\ Holds(i) /\ got' = Append(got, e)
      /\ resFwd' = [resFwd EXCEPT ![i] = "range"]
      /\ resHeld' = [resHeld EXCEPT ![i] = None]
      /\ UNCHANGED <<turn, stage, parser, file, pos>>
    BY DEF ReadResource, RS!Hand, Holds
<1>2. e \in Element
    BY <1>1 DEF IInv, Sent
<1>3. \A k \in Inputs : Holds(k)' => k # i /\ Holds(k) /\ resHeld'[k] = resHeld[k]
    BY <1>1 DEF IInv, Types, Holds
<1>. HIDE DEF e
<1>4. /\ got' \in Seq(Element) /\ DOMAIN got' = DOMAIN got \union {n} /\ n \in Nat \ DOMAIN got
      /\ got'[n] = e /\ \A j \in DOMAIN got : got'[j] = got[j] /\ j \in Nat /\ j < n
    BY <1>1, <1>2 DEF IInv, Types
<1>. HIDE DEF n
<1>5. Types'
    BY <1>1, <1>4 DEF IInv, Types
<1>6. Assigned'
    BY <1>1 DEF IInv, Assigned, Dispatched
<1>7. Sent'
    <2>1. \A f : Dispatched(f)' <=> Dispatched(f)
        BY <1>1 DEF Dispatched
    <2>2. e[2] = "emit" => Dispatched(e[1])
        BY <1>1 DEF IInv, Sent, e
    <2>. QED
        BY <1>3, <1>4, <2>1, <2>2 DEF IInv, Sent
<1>8. Behind'
    <2>. SUFFICES ASSUME NEW q \in Parsers, parser[q] = "parse"
                  PROVE  /\ \A k \in Inputs : Holds(k)' /\ From(resHeld'[k], file[q])
                                                 => k = q /\ resHeld'[k][3] < pos[q]
                         /\ \A j \in DOMAIN got' : From(got'[j], file[q])
                                                 => got'[j][3] < pos[q]
        BY <1>1 DEF Behind, From
    <2>1. From(e, file[q]) => e[3] < pos[q]
        BY <1>1 DEF IInv, Behind, e
    <2>. QED
        BY <1>3, <1>4, <2>1 DEF IInv, Behind
<1>9. HeldOrder'
    <2>. SUFFICES ASSUME NEW k \in Inputs, Holds(k)', resHeld[k][2] = "emit"
                  PROVE  /\ \A l \in Inputs : Holds(l)' /\ From(resHeld'[l], resHeld[k][1])
                                                 => l = k
                         /\ \A j \in DOMAIN got' : From(got'[j], resHeld[k][1])
                                                 => got'[j][3] < resHeld[k][3]
        BY <1>3 DEF HeldOrder, From
    <2>1. k # i /\ Holds(k)
        BY <1>3
    <2>2. ~From(e, resHeld[k][1])
        BY <1>1, <2>1 DEF IInv, HeldOrder, e
    <2>. QED
        BY <1>3, <1>4, <2>1, <2>2 DEF IInv, HeldOrder
<1>10. FileOrder'
    <2>. SUFFICES ASSUME NEW j \in DOMAIN got', NEW k \in DOMAIN got', j < k,
                         got'[j][1] = got'[k][1], got'[j][2] = "emit", got'[k][2] = "emit"
                  PROVE  got'[j][3] < got'[k][3]
        BY DEF FileOrder
    <2>1. j \in DOMAIN got
        BY <1>4
    <2>2. CASE k \in DOMAIN got
        BY <1>4, <2>1, <2>2 DEF IInv, FileOrder
    <2>3. CASE k = n
        <3>1. got'[k] = e /\ got'[j] = got[j] /\ From(got[j], e[1])
            BY <1>4, <2>1, <2>3 DEF From
        <3>. QED
            BY <1>1, <2>1, <3>1 DEF IInv, HeldOrder, e
    <2>. QED
        BY <1>4, <2>2, <2>3
<1>. QED
    BY <1>5, <1>6, <1>7, <1>8, <1>9, <1>10 DEF IInv
-----------------------------------------------------------------------------
LEMMA DispatchStep ==
    ASSUME IInv, Dispatch
    PROVE  IInv'
<1>1. CASE OpenFails
    BY <1>1, DispatcherSteps DEF OpenFails, At, Dispatched, IInv, Types
<1>2. CASE SendOpenError
    BY <1>2, DispatcherSteps DEF SendOpenError, At, Dispatched, IInv, Types
<1>3. CASE Fatal
    BY <1>3, OtherSteps DEF Fatal, orderVars
<1>4. CASE SkipParse
    BY <1>4, DispatcherSteps DEF SkipParse, At, Dispatched, IInv, Types
<1>5. CASE \E p \in Parsers : SendFile(p)
    BY <1>5, SendFileStep
<1>6. CASE NoPathResource
    <2>1. NextFile /\ UNCHANGED <<parser, file, pos, resFwd, resHeld, got>>
        BY <1>6 DEF NoPathResource
    <2>. QED
        BY <2>1, NextFileGrows, DispatcherSteps
<1>7. CASE SendPathResource
    BY <1>7, SendPathResourceStep
<1>8. CASE SendPathError
    <2>1. NextFile /\ UNCHANGED <<parser, file, pos, resFwd, resHeld, got>>
        BY <1>8 DEF SendPathError
    <2>. QED
        BY <2>1, NextFileGrows, DispatcherSteps
<1>9. CASE DispatcherReturns
    BY <1>9, DispatcherSteps DEF DispatcherReturns, Dispatched, IInv, Types
<1>. QED
    BY <1>1, <1>2, <1>3, <1>4, <1>5, <1>6, <1>7, <1>8, <1>9 DEF Dispatch

LEMMA ParserStep ==
    ASSUME IInv, NEW p \in Parsers, Parser(p)
    PROVE  IInv'
<1>1. CASE EmitError(p)
    BY <1>1, EmitErrorStep
<1>2. CASE SendResource(p)
    BY <1>2, SendResourceStep
<1>3. CASE SendError(p)
    BY <1>3, OtherSteps DEF SendError, orderVars
<1>4. CASE SendCancelled(p)
    BY <1>4, ParserStops DEF SendCancelled
<1>5. CASE FileDone(p)
    BY <1>5, ParserStops DEF FileDone
<1>6. CASE NoMoreFiles(p)
    BY <1>6, ParserStops DEF NoMoreFiles
<1>. QED
    BY <1>1, <1>2, <1>3, <1>4, <1>5, <1>6 DEF Parser

LEMMA ReadersStep ==
    ASSUME IInv, Readers
    PROVE  IInv'
<1>1. CASE \E i \in Inputs : ReadError(i)
    BY <1>1, OtherSteps DEF ReadError, orderVars
<1>2. CASE \E i \in Inputs : ReadResource(i)
    BY <1>2, ReadResourceStep
<1>3. CASE ReadDone
    BY <1>3, OtherSteps DEF ReadDone, orderVars
<1>. QED
    BY <1>1, <1>2, <1>3 DEF Readers

LEMMA Inductive == IInv /\ [Next]_vars => IInv'
<1>. SUFFICES ASSUME IInv, [Next]_vars PROVE IInv'
    OBVIOUS
<1>1. CASE Dispatch
    BY <1>1, DispatchStep
<1>2. CASE \E p \in Parsers : Parser(p)
    BY <1>2, ParserStep
<1>3. CASE StreamRes
    BY <1>3, StreamResStep
<1>4. CASE StreamErr
    BY <1>4, OtherSteps DEF StreamErr, orderVars
<1>5. CASE Readers
    BY <1>5, ReadersStep
<1>6. CASE Return \/ Cancel
    BY <1>6, OtherSteps DEF Return, Cancel, orderVars
<1>7. CASE UNCHANGED vars
    BY <1>7, OtherSteps DEF vars, orderVars
<1>. QED
    BY <1>1, <1>2, <1>3, <1>4, <1>5, <1>6, <1>7 DEF Next, Returned

\* The resources of one file come in the order of the file, whatever the other parsers
\* and the dispatcher send on the same stream, with and without a cancellation.
THEOREM OrderKept == Spec => []FileOrder
<1>1. IInv => FileOrder
    BY DEF IInv
<1>. QED
    BY <1>1, InitOrder, Inductive, PTL DEF Spec
-----------------------------------------------------------------------------
(* The paths and the contents of a call *)

LEMMA CallSame ==
    ASSUME call' = call
    PROVE  /\ pifs' = pifs /\ Files' = Files /\ Unreadable' = Unreadable
           /\ Resources' = Resources /\ Errors' = Errors
           /\ \A i : (needsParse(i)' <=> needsParse(i)) /\ contents(i)' = contents(i)
<1>1. pifs' = pifs
    BY Zenon DEF pifs, MakePathInfos, pis, paths
<1>2. Files' = Files /\ Unreadable' = Unreadable
    BY <1>1 DEF Files, Unreadable
<1>3. \A i : contents(i)' = contents(i)
    BY <1>1 DEF contents, Contents, FromMemory, paths
<1>4. \A i : needsParse(i)' <=> needsParse(i)
    BY <1>1, <1>3 DEF needsParse
<1>5. \A i : Emits(i)' = Emits(i)
    BY <1>3 DEF Emits
<1>6. \A e : Kind(e)' = Kind(e)
    BY <1>3 DEF Kind
<1>7. \A r : r \in Resources' <=> r \in Resources
    BY <1>1, <1>2, <1>4, <1>5, <1>6 DEF Resources, PathElement
<1>8. \A r : r \in Errors' <=> r \in Errors
    BY <1>1, <1>2, <1>3, <1>4, <1>5, <1>6 DEF Errors, mayFailToOpen, PathElement, XmlError, OpenError
<1>9. Resources' = Resources /\ Errors' = Errors
    BY <1>7, <1>8
<1>. QED
    BY <1>1, <1>2, <1>3, <1>4, <1>9

LEMMA PathInfos ==
    ASSUME call \in Calls
    PROVE  /\ pifs \in Seq(DOMAIN Path) /\ Len(pifs) \in Nat /\ Files = 1..Len(pifs)
           /\ paths \in Seq(DOMAIN Path) /\ Len(pifs) <= Len(paths)
<1>. DEFINE n == Len(paths)
            V == Seq(DOMAIN Path)
            v0 == << >>
            step == [kv \in (1..n) \X V |-> IF Path[paths[kv[1]]].dot THEN kv[2]
                                            ELSE Append(kv[2], paths[kv[1]])]
            Def(f) == [k \in 0..n |->
                          IF k = 0 THEN << >>
                          ELSE IF Path[paths[k]].dot THEN f[k - 1]
                          ELSE Append(f[k - 1], paths[k])]
<1>1. /\ paths \in Seq(DOMAIN Path) /\ n \in Nat
      /\ \A k \in 1..n : paths[k] \in DOMAIN Path
    BY SequencesAssumption DEF paths
<1>2. v0 \in V
    OBVIOUS
<1>. HIDE DEF n
<1>3. ASSUME NEW k \in 1..n, NEW v \in V
      PROVE  /\ step[<<k, v>>] = IF Path[paths[k]].dot THEN v ELSE Append(v, paths[k])
             /\ step[<<k, v>>] \in V
    <2>1. <<k, v>> \in (1..n) \X V /\ paths[k] \in DOMAIN Path
        BY <1>1
    <2>2. step[<<k, v>>] = IF Path[paths[k]].dot THEN v ELSE Append(v, paths[k])
        BY <2>1
    <2>3. Append(v, paths[k]) \in V
        BY <2>1
    <2>. QED
        BY <2>2, <2>3
<1>. HIDE DEF V, step, v0
<1>4. PICK f : Recursive(f, n, V, v0, step)
    <2>1. Steps(n, V, step)
        BY <1>3 DEF Steps
    <2>. QED
        BY <1>1, <1>2, <2>1, PrimitiveRecursion
<1>5. f = Def(f)
    <2>1. \A k \in 0..n : k # 0 => k \in 1..n
        BY <1>1
    <2>2. ASSUME NEW k \in 1..n
          PROVE  f[k] = IF Path[paths[k]].dot THEN f[k - 1] ELSE Append(f[k - 1], paths[k])
        <3>1. f[k - 1] \in V /\ f[k] = step[<<k, f[k - 1]>>]
            BY <1>1, <1>4 DEF Recursive
        <3>. QED
            BY <1>3, <3>1
    <2>. QED
        BY <1>4, <2>1, <2>2 DEF v0, Recursive
<1>. HIDE DEF Def
<1>6. pis = Def(pis)
    BY <1>5 DEF pis, Def, n
<1>7. pis[0] = v0
    BY <1>1, <1>6 DEF Def, v0
<1>8. ASSUME NEW k \in 1..n
      PROVE  pis[k] = IF Path[paths[k]].dot THEN pis[k - 1] ELSE Append(pis[k - 1], paths[k])
    <2>1. k \in 0..n /\ k # 0
        BY <1>1
    <2>. QED
        BY <1>6, <2>1 DEF Def
<1>. DEFINE T == {k \in 0..n : pis[k] \in V /\ Len(pis[k]) <= k}
<1>9. 0..n \subseteq T
    <2>1. 0 \in T
        <3>1. Len(v0) = 0 /\ 0 \in 0..n
            BY <1>1 DEF v0
        <3>. QED
            BY <1>2, <1>7, <3>1
    <2>2. ASSUME NEW k \in 0..n, k # n, k \in T
          PROVE  k + 1 \in T
        <3>1. /\ k + 1 \in 1..n /\ k + 1 \in 0..n /\ (k + 1) - 1 = k
              /\ pis[k] \in V /\ Len(pis[k]) <= k
            BY <1>1, <2>2
        <3>2. CASE Path[paths[k + 1]].dot
            <4>1. pis[k + 1] = pis[k]
                BY <1>8, <3>1, <3>2
            <4>2. Len(pis[k]) \in Nat
                BY <3>1 DEF V
            <4>. QED
                BY <3>1, <4>1, <4>2
        <3>3. CASE ~Path[paths[k + 1]].dot
            <4>1. pis[k + 1] = Append(pis[k], paths[k + 1])
                BY <1>8, <3>1, <3>3
            <4>2. Append(pis[k], paths[k + 1]) \in V
                BY <1>1, <3>1 DEF V
            <4>3. Len(Append(pis[k], paths[k + 1])) = Len(pis[k]) + 1 /\ Len(pis[k]) \in Nat
                BY <3>1 DEF V
            <4>4. Len(pis[k + 1]) <= k + 1
                BY <1>1, <3>1, <4>1, <4>3
            <4>. QED
                BY <3>1, <4>1, <4>2, <4>4
        <3>. QED
            BY <3>2, <3>3
    <2>. HIDE DEF T
    <2>. QED
        BY <1>1, <2>1, <2>2, Reaches
<1>10. pis[n] \in V /\ Len(pis[n]) <= n
    BY <1>1, <1>9
<1>. QED
    BY <1>1, <1>10 DEF pifs, MakePathInfos, Files, n, V

\* The contents of a file emit a sequence.
LEMMA ContentsEmit ==
    ASSUME call \in Calls, NEW i \in Files
    PROVE  contents(i).emits \in Seq({"res", "err"})
<1>1. paths[i] \in DOMAIN Path /\ pifs[i] \in DOMAIN Path
    BY PathInfos
<1>. DEFINE q == IF FromMemory THEN paths[i] ELSE pifs[i]
<1>2. q \in DOMAIN Path
    BY <1>1
<1>3. contents(i) = call.Contents[q]
    BY DEF contents, Contents
<1>. HIDE DEF q
<1>. QED
    BY <1>2, <1>3, SequencesAssumption

LEMMA Members ==
    ASSUME NEW i \in Files
    PROVE  /\ \A k \in DOMAIN contents(i).emits : needsParse(i) =>
                /\ contents(i).emits[k] = "res" => <<i, "emit", k>> \in Resources
                /\ contents(i).emits[k] = "err" => <<i, "emit", k>> \in Errors
           /\ Path[pifs[i]].asRes = "res" => PathElement(i) \in Resources
           /\ Path[pifs[i]].asRes = "bad" => PathElement(i) \in Errors
           /\ needsParse(i) /\ contents(i).torn => XmlError(i) \in Errors
           /\ mayFailToOpen(i) => OpenError(i) \in Errors
<1>1. \A k \in DOMAIN contents(i).emits :
          <<i, "emit", k>> \in Emits(i) /\ Kind(<<i, "emit", k>>) = contents(i).emits[k]
    BY DEF Emits, Kind
<1>2. \A k \in DOMAIN contents(i).emits : needsParse(i) =>
         /\ contents(i).emits[k] = "res" => <<i, "emit", k>> \in Resources
         /\ contents(i).emits[k] = "err" => <<i, "emit", k>> \in Errors
    BY <1>1 DEF Resources, Errors
<1>3. /\ Path[pifs[i]].asRes = "res" => PathElement(i) \in Resources
      /\ Path[pifs[i]].asRes = "bad" => PathElement(i) \in Errors
    BY DEF Resources, Errors
<1>4. /\ needsParse(i) /\ contents(i).torn => XmlError(i) \in Errors
      /\ mayFailToOpen(i) => OpenError(i) \in Errors
    BY DEF Errors
<1>. QED
    BY <1>2, <1>3, <1>4

\* A resource is from the contents of a file, or is its path.
LEMMA ResourceCases ==
    ASSUME NEW r \in Resources
    PROVE  /\ r[1] \in Files
           /\ \/ /\ r = <<r[1], "emit", r[3]>> /\ needsParse(r[1])
                 /\ r[3] \in DOMAIN contents(r[1]).emits
                 /\ contents(r[1]).emits[r[3]] = "res"
              \/ r = PathElement(r[1]) /\ Path[pifs[r[1]]].asRes = "res"
<1>1. CASE \E i \in Files : r \in {e \in Emits(i) : needsParse(i) /\ Kind(e) = "res"}
    BY <1>1 DEF Emits, Kind
<1>2. CASE \E i \in Files : r = PathElement(i) /\ Path[pifs[i]].asRes = "res"
    BY <1>2 DEF PathElement
<1>. QED
    BY <1>1, <1>2 DEF Resources
-----------------------------------------------------------------------------
(* Types *)

DispatcherTyped == /\ call \in Calls
                   /\ turn \in 1..(Len(pifs) + 1) /\ stage \in {"parse", "failed", "path", "done"}
                   /\ stage = "failed" => turn \in Files /\ mayFailToOpen(turn)

\* A parser at work has a file that is to be parsed.
ParsersTyped ==
    /\ parser \in [Parsers -> {"range", "parse", "closed"}]
    /\ file \in [Parsers -> Files \cup {None}]
    /\ pos \in [Parsers -> Nat \ {0}]
    /\ late \in [Parsers -> SUBSET Errors]
    /\ \A p \in Parsers : parser[p] = "parse" => file[p] \in Files /\ needsParse(file[p])

\* A forwarder that sends holds what it sends.
ResTyped == /\ RS!FanTypeOK(Resources)
            /\ \A i \in Inputs : resFwd[i] = "send" => resHeld[i] \in Resources
ErrTyped == /\ ER!FanTypeOK(Errors)
            /\ \A i \in Inputs : errFwd[i] = "send" => errHeld[i] \in Errors

ReadersTyped == /\ got \in Seq(Resources)
                /\ resReader \in {"range", "done"} /\ parseErr \in Errors \cup {None}

MainTyped == /\ result \in {"running", "ok", "err", "fatal"}
             /\ ctxDone \in BOOLEAN /\ callerDone \in BOOLEAN

Typed == /\ DispatcherTyped /\ ParsersTyped /\ ResTyped /\ ErrTyped
         /\ ReadersTyped /\ MainTyped

LEMMA TypedImplies == Typed => TypeOK
BY DEF Typed, DispatcherTyped, ParsersTyped, ResTyped, ErrTyped, ReadersTyped, MainTyped,
       TypeOK

LEMMA TypedInit == Init => Typed
<1>. SUFFICES ASSUME Init PROVE Typed
    OBVIOUS
<1>1. DispatcherTyped
    BY PathInfos DEF Init, DispatcherTyped
<1>2. ParsersTyped
    BY DEF Init, ParsersTyped
<1>3. ResTyped /\ ErrTyped
    BY DEF Init, ResTyped, ErrTyped, RS!FanInit, ER!FanInit, RS!FanTypeOK, ER!FanTypeOK
<1>4. ReadersTyped
    BY DEF Init, ReadersTyped
<1>5. MainTyped
    BY DEF Init, MainTyped
<1>. QED
    BY <1>1, <1>2, <1>3, <1>4, <1>5 DEF Typed

\* What is typed stays so as long as it is not changed.
LEMMA TypedKept ==
    ASSUME Typed, call' = call
    PROVE  /\ UNCHANGED dispatcherVars => DispatcherTyped'
           /\ UNCHANGED parserVars => ParsersTyped'
           /\ UNCHANGED resVars => ResTyped'
           /\ UNCHANGED errVars => ErrTyped'
           /\ UNCHANGED readerVars => ReadersTyped'
           /\ UNCHANGED mainVars => MainTyped'
<1>1. UNCHANGED dispatcherVars => DispatcherTyped'
    BY CallSame DEF Typed, DispatcherTyped, mayFailToOpen
<1>2. UNCHANGED parserVars => ParsersTyped'
    BY CallSame DEF Typed, ParsersTyped
<1>3. UNCHANGED resVars => ResTyped'
    BY CallSame DEF Typed, ResTyped, RS!FanTypeOK
<1>4. UNCHANGED errVars => ErrTyped'
    BY CallSame DEF Typed, ErrTyped, ER!FanTypeOK
<1>5. UNCHANGED readerVars => ReadersTyped'
    BY CallSame DEF Typed, ReadersTyped
<1>6. UNCHANGED mainVars => MainTyped'
    BY DEF Typed, MainTyped
<1>. QED
    BY <1>1, <1>2, <1>3, <1>4, <1>5, <1>6

\* A forwarder takes, hands over, or goes on by itself.
LEMMA ResTakes ==
    ASSUME Typed, call' = call, NEW i \in Inputs, NEW e \in Resources, RS!Take(i, e)
    PROVE  ResTyped'
BY CallSame DEF Typed, ResTyped, RS!FanTypeOK, RS!Take

LEMMA ErrTakes ==
    ASSUME Typed, call' = call, NEW i \in Inputs, NEW e \in Errors, ER!Take(i, e)
    PROVE  ErrTyped'
BY CallSame DEF Typed, ErrTyped, ER!FanTypeOK, ER!Take

LEMMA DispatcherTypes ==
    ASSUME Typed, Dispatch
    PROVE  Typed'
<1>. /\ Dispatcher \in Inputs
     /\ DispatcherTyped /\ MainTyped /\ turn \in Nat /\ Len(pifs) \in Nat /\ Files = 1..Len(pifs)
    BY PathInfos DEF Typed, DispatcherTyped, Inputs
<1>1. ASSUME At("path"), NextFile, call' = call PROVE DispatcherTyped'
    BY <1>1, CallSame DEF NextFile, At, DispatcherTyped
<1>2. ASSUME UNCHANGED turn, stage' \in {"path", "done"}, call' = call PROVE DispatcherTyped'
    BY <1>2, CallSame DEF DispatcherTyped
<1>3. CASE OpenFails
    <2>1. DispatcherTyped'
        BY <1>3, CallSame DEF OpenFails, At, DispatcherTyped, mayFailToOpen
    <2>. QED
        BY <1>3, <2>1, TypedKept DEF OpenFails, Typed
<1>4. CASE SendOpenError
    BY <1>2, <1>4, TypedKept, ErrTakes, Members DEF SendOpenError, At, DispatcherTyped, Typed
<1>5. CASE Fatal
    BY <1>5, TypedKept DEF Fatal, Typed, MainTyped
<1>6. CASE SkipParse
    BY <1>2, <1>6, TypedKept DEF SkipParse, Typed
<1>8. CASE NoPathResource
    BY <1>1, <1>8, TypedKept DEF NoPathResource, Typed
<1>9. CASE SendPathResource
    BY <1>1, <1>9, TypedKept, ResTakes, Members DEF SendPathResource, At, Typed
<1>10. CASE SendPathError
    BY <1>1, <1>10, TypedKept, ErrTakes, Members DEF SendPathError, At, Typed
<1>11. CASE DispatcherReturns
    BY <1>2, <1>11, TypedKept DEF DispatcherReturns, Typed
<1>7. ASSUME NEW p \in Parsers, SendFile(p) PROVE Typed'
    <2>1. /\ turn \in Files /\ needsParse(turn) /\ call' = call
          /\ parser' = [parser EXCEPT ![p] = "parse"] /\ file' = [file EXCEPT ![p] = turn]
        BY <1>7 DEF SendFile, At
    <2>2. pos' \in [Parsers -> Nat \ {0}] /\ late' \in [Parsers -> SUBSET Errors]
        <3>1. Len(contents(turn).emits) \in Nat
            BY <2>1, ContentsEmit DEF DispatcherTyped
        <3>2. CASE pos' = [pos EXCEPT ![p] = 1]
                    /\ late' = [late EXCEPT ![p] = IF contents(turn).torn THEN {XmlError(turn)} ELSE {}]
            BY <2>1, <3>2, Members DEF Typed, ParsersTyped
        <3>3. CASE mayFailToOpen(turn) /\ pos' = [pos EXCEPT ![p] = Len(contents(turn).emits) + 1]
                    /\ late' = [late EXCEPT ![p] = {OpenError(turn)}]
            BY <2>1, <3>1, <3>3, Members DEF Typed, ParsersTyped
        <3>. QED
            BY <1>7, <3>2, <3>3 DEF SendFile, OpenFile
    <2>3. ParsersTyped'
        BY <2>1, <2>2, CallSame DEF Typed, ParsersTyped
    <2>. QED
        BY <1>2, <1>7, <2>1, <2>3, TypedKept DEF SendFile, Typed
<1>. QED
    BY <1>3, <1>4, <1>5, <1>6, <1>7, <1>8, <1>9, <1>10, <1>11 DEF Dispatch

LEMMA ParserTypes ==
    ASSUME Typed, NEW p \in Parsers, Parser(p)
    PROVE  Typed'
<1>. /\ p \in Inputs /\ call' = call
     /\ ParsersTyped /\ DispatcherTyped
    BY DEF Parser, EmitError, SendResource, SendError, SendCancelled, FileDone, NoMoreFiles,
           Inputs, Typed
<1>0. parser[p] = "parse" =>
         /\ file[p] \in Files /\ needsParse(file[p]) /\ pos[p] \in Nat \ {0}
         /\ contents(file[p]).emits \in Seq({"res", "err"})
    BY ContentsEmit DEF ParsersTyped, DispatcherTyped
<1>1. CASE EmitError(p)
    <2>1. <<file[p], "emit", pos[p]>> \in Errors
        BY <1>0, <1>1, Members DEF EmitError, Emitting
    <2>2. pos' \in [Parsers -> Nat \ {0}] /\ late' \in [Parsers -> SUBSET Errors]
        BY <1>1, <2>1 DEF EmitError, ParsersTyped
    <2>3. ParsersTyped'
        BY <1>1, <2>2, CallSame DEF EmitError, ParsersTyped
    <2>. QED
        BY <1>1, <2>3, TypedKept DEF EmitError, Typed
<1>2. CASE SendResource(p)
    <2>1. <<file[p], "emit", pos[p]>> \in Resources
        BY <1>0, <1>2, Members DEF SendResource, Emitting
    <2>2. pos' \in [Parsers -> Nat \ {0}]
        BY <1>2 DEF SendResource, ParsersTyped
    <2>3. ParsersTyped'
        BY <1>2, <2>2, CallSame DEF SendResource, ParsersTyped
    <2>4. ResTyped'
        BY <1>2, <2>1, ResTakes DEF SendResource
    <2>. QED
        BY <1>2, <2>3, <2>4, TypedKept DEF SendResource, Typed
<1>3. CASE SendError(p)
    <2>1. PICK e \in late[p] : ER!Take(p, e) /\ late' = [late EXCEPT ![p] = @ \ {e}]
        BY <1>3 DEF SendError
    <2>2. e \in Errors /\ late' \in [Parsers -> SUBSET Errors]
        BY <2>1 DEF ParsersTyped
    <2>3. ParsersTyped'
        BY <1>3, <2>2, CallSame DEF SendError, ParsersTyped
    <2>4. ErrTyped'
        BY <2>1, <2>2, ErrTakes
    <2>. QED
        BY <1>3, <2>3, <2>4, TypedKept DEF SendError, Typed
<1>4. CASE SendCancelled(p)
    <2>1. ParsersTyped'
        BY <1>4, CallSame DEF SendCancelled, ParsersTyped
    <2>. QED
        BY <1>4, <2>1, TypedKept DEF SendCancelled, Typed
<1>5. CASE FileDone(p)
    <2>1. ParsersTyped'
        BY <1>5, CallSame DEF FileDone, ParsersTyped
    <2>. QED
        BY <1>5, <2>1, TypedKept DEF FileDone, Typed
<1>6. CASE NoMoreFiles(p)
    <2>1. ParsersTyped'
        BY <1>6, CallSame DEF NoMoreFiles, ParsersTyped
    <2>. QED
        BY <1>6, <2>1, TypedKept DEF NoMoreFiles, Typed
<1>. QED
    BY <1>1, <1>2, <1>3, <1>4, <1>5, <1>6 DEF Parser

LEMMA StreamTypes ==
    ASSUME Typed, StreamRes \/ StreamErr
    PROVE  Typed'
<1>. call' = call
    BY DEF StreamRes, StreamErr
<1>1. CASE StreamRes
    <2>1. ResTyped'
        BY <1>1, CallSame DEF StreamRes, RS!FanStep, RS!GiveUp, RS!Finish, RS!CloseOut,
                              Typed, ResTyped, RS!FanTypeOK
    <2>. QED
        BY <1>1, <2>1, TypedKept DEF StreamRes, Typed
<1>2. CASE StreamErr
    <2>1. ErrTyped'
        BY <1>2, CallSame DEF StreamErr, ER!FanStep, ER!GiveUp, ER!Finish, ER!CloseOut,
                              Typed, ErrTyped, ER!FanTypeOK
    <2>. QED
        BY <1>2, <2>1, TypedKept DEF StreamErr, Typed
<1>. QED
    BY <1>1, <1>2

LEMMA ReaderTypes ==
    ASSUME Typed, Readers
    PROVE  Typed'
<1>. call' = call
    BY DEF Readers, ReadError, ReadResource, ReadDone
<1>1. ASSUME NEW i \in Inputs, ReadError(i) PROVE Typed'
    <2>1. ErrTyped' /\ ReadersTyped'
        BY <1>1, CallSame DEF ReadError, ER!Hand, Typed, ErrTyped, ER!FanTypeOK, ReadersTyped
    <2>. QED
        BY <1>1, <2>1, TypedKept DEF ReadError, Typed
<1>2. ASSUME NEW i \in Inputs, ReadResource(i) PROVE Typed'
    <2>1. ResTyped'
        BY <1>2, CallSame DEF ReadResource, RS!Hand, Typed, ResTyped, RS!FanTypeOK
    <2>2. resHeld[i] \in Resources
        BY <1>2 DEF ReadResource, RS!Hand, Typed, ResTyped
    <2>3. ReadersTyped'
        BY <1>2, <2>2, CallSame DEF ReadResource, Typed, ReadersTyped
    <2>. QED
        BY <1>2, <2>1, <2>3, TypedKept DEF ReadResource, Typed
<1>3. CASE ReadDone
    <2>1. ReadersTyped'
        BY <1>3, CallSame DEF ReadDone, Typed, ReadersTyped
    <2>. QED
        BY <1>3, <2>1, TypedKept DEF ReadDone, Typed
<1>. QED
    BY <1>1, <1>2, <1>3 DEF Readers

LEMMA TypesInductive == Typed /\ [Next]_vars => Typed'
<1>. SUFFICES ASSUME Typed, [Next]_vars PROVE Typed'
    OBVIOUS
<1>1. CASE Dispatch
    BY <1>1, DispatcherTypes
<1>2. CASE \E p \in Parsers : Parser(p)
    BY <1>2, ParserTypes
<1>3. CASE StreamRes \/ StreamErr
    BY <1>3, StreamTypes
<1>4. CASE Readers
    BY <1>4, ReaderTypes
<1>5. CASE Return \/ Cancel
    <2>1. MainTyped' /\ call' = call
        BY <1>5 DEF Return, Cancel, Typed, MainTyped
    <2>. QED
        BY <1>5, <2>1, TypedKept DEF Return, Cancel, Typed
<1>6. CASE UNCHANGED vars
    BY <1>6, TypedKept DEF vars, Typed
<1>. QED
    BY <1>1, <1>2, <1>3, <1>4, <1>5, <1>6 DEF Next, Returned

\* Whatever is cancelled or cannot be opened, every stream and variable holds only what it
\* is for: no resource that is no resource of a file, no error that nothing could cause.
THEOREM TypeCorrect == Spec => []TypeOK
BY TypedInit, TypesInductive, TypedImplies, PTL DEF Spec
-----------------------------------------------------------------------------
(* Nothing is lost *)

\* No path is received twice: its resource is in the dispatcher's forwarder only, and
\* the dispatcher has left the file behind.
PathsOnce ==
    /\ \A i \in Inputs : Holds(i) /\ resHeld[i][2] = "path" =>
          i = Dispatcher /\ resHeld[i][1] < turn /\ \A j \in DOMAIN got : got[j] # resHeld[i]
    /\ \A j \in DOMAIN got : got[j][2] = "path" => got[j][1] < turn
    /\ \A j, k \in DOMAIN got : j < k /\ got[j][2] = "path" => got[j] # got[k]

Received(r) == \E j \in DOMAIN got : got[j] = r

\* Where a resource is: still to come from the dispatcher or from a parser, in a
\* forwarder, or received.
Located(r) ==
    \/ r[2] = "path" /\ r[1] >= turn
    \/ r[2] = "emit" /\ ~Dispatched(r[1])
    \/ r[2] = "emit" /\ \E p \in Parsers : parser[p] = "parse" /\ file[p] = r[1] /\ pos[p] <= r[3]
    \/ \E i \in Inputs : Holds(i) /\ resHeld[i] = r
    \/ Received(r)

\* The goroutines end in order: dispatcher, parsers, forwarders and closer.
Closing ==
    /\ stage # "failed"
    /\ stage = "done" => turn > Len(pifs)
    /\ \A p \in Parsers : parser[p] = "closed" => stage = "done"
    /\ \A i \in Inputs : resFwd[i] = "done" => inClosed[i]
    /\ resClosed => \A i \in Inputs : resFwd[i] = "done"

\* As long as nothing was cancelled and every file opens, they do, and no resource is
\* dropped on its way.
Undisturbed == ~ctxDone /\ Unreadable = {}
Flow == Undisturbed => Closing /\ \A r \in Resources : Located(r)

\* Unless the caller cancels, the context is done by the end of the call only, and a call
\* does not succeed before its reader has all.
Ending ==
    /\ ctxDone /\ ~callerDone => result # "running"
    /\ result = "ok" => resReader = "done" \/ pifs = << >>
    /\ ~callerDone /\ Unreadable = {} /\ result \in {"running", "ok"} /\ resReader = "done"
           => \A r \in Resources : Received(r)

\* The inductive invariant.
DInv == IInv /\ Typed /\ PathsOnce /\ Flow /\ Ending

\* The elements of the merged stream, by their parts.
LEMMA ElementParts ==
    ASSUME IInv
    PROVE  /\ \A i \in Inputs : Holds(i) => resHeld[i][1] \in Nat
           /\ \A j \in DOMAIN got : got[j][1] \in Nat
           /\ turn \in Nat
<1>1. \A e \in Element : e[1] \in Nat
    BY DEF Element
<1>2. \A j \in DOMAIN got : got[j] \in Element
    BY DEF IInv, Types
<1>3. turn \in Nat
    BY DEF IInv, Types
<1>. QED
    BY <1>1, <1>2, <1>3 DEF IInv, Sent

\* The dispatcher goes on, or forwarders drop what they hold.
LEMMA PathsOnceFewer ==
    ASSUME IInv, PathsOnce, turn' \in Nat, turn <= turn', got' = got,
           \A i \in Inputs : Holds(i)' => Holds(i) /\ resHeld'[i] = resHeld[i]
    PROVE  PathsOnce'
<1>1. \A i \in Inputs : Holds(i)' /\ resHeld'[i][2] = "path" =>
          i = Dispatcher /\ resHeld'[i][1] < turn' /\ \A j \in DOMAIN got : got[j] # resHeld'[i]
    BY ElementParts DEF PathsOnce
<1>2. \A j \in DOMAIN got : got[j][2] = "path" => got[j][1] < turn'
    BY ElementParts DEF PathsOnce
<1>. QED
    BY <1>1, <1>2 DEF PathsOnce

LEMMA PathsOnceSend ==
    ASSUME IInv, PathsOnce, SendPathResource
    PROVE  PathsOnce'
<1>. DEFINE e == <<turn, "path", 0>>
<1>1. /\ turn' = turn + 1 /\ turn \in Nat /\ UNCHANGED got
      /\ resFwd' = [resFwd EXCEPT ![Dispatcher] = "send"]
      /\ resHeld' = [resHeld EXCEPT ![Dispatcher] = e]
    BY ElementParts DEF SendPathResource, RS!Take, PathElement, NextFile
<1>2. /\ Dispatcher \in Inputs /\ resHeld'[Dispatcher] = e
      /\ \A i \in Inputs : i # Dispatcher
                              => (Holds(i)' <=> Holds(i)) /\ resHeld'[i] = resHeld[i]
    BY <1>1 DEF IInv, Types, Holds, Inputs
<1>3. e[1] = turn /\ e[2] = "path"
    OBVIOUS
<1>. HIDE DEF e
<1>4. \A j \in DOMAIN got : got[j][2] = "path" => got[j][1] < turn /\ got[j] # e
    BY <1>1, <1>3, ElementParts DEF PathsOnce
<1>5. \A j \in DOMAIN got : got[j][2] = "path" => got[j][1] < turn'
    BY <1>1, <1>4, ElementParts
<1>6. \A i \in Inputs : Holds(i)' /\ resHeld'[i][2] = "path" =>
          i = Dispatcher /\ resHeld'[i][1] < turn' /\ \A j \in DOMAIN got : got[j] # resHeld'[i]
    BY <1>1, <1>2, <1>3, <1>4 DEF PathsOnce
<1>. QED
    BY <1>1, <1>5, <1>6 DEF PathsOnce

LEMMA PathsOnceRead ==
    ASSUME IInv, PathsOnce, NEW i \in Inputs, ReadResource(i)
    PROVE  PathsOnce'
<1>. DEFINE e == resHeld[i]
            n == Len(got) + 1
<1>1. /\ Holds(i) /\ got' = Append(got, e) /\ UNCHANGED turn
      /\ resFwd' = [resFwd EXCEPT ![i] = "range"]
      /\ resHeld' = [resHeld EXCEPT ![i] = None]
    BY DEF ReadResource, RS!Hand, Holds
<1>2. \A k \in Inputs : Holds(k)' => k # i /\ Holds(k) /\ resHeld'[k] = resHeld[k]
    BY <1>1 DEF IInv, Types, Holds
<1>3. e \in Element
    BY <1>1 DEF IInv, Sent
<1>4. e[2] = "path" => i = Dispatcher /\ e[1] < turn /\ \A j \in DOMAIN got : got[j] # e
    BY <1>1 DEF PathsOnce
<1>. HIDE DEF e
<1>5. /\ DOMAIN got' = DOMAIN got \cup {n} /\ n \in Nat \ DOMAIN got
      /\ got'[n] = e /\ \A j \in DOMAIN got : got'[j] = got[j] /\ j \in Nat /\ j < n
    BY <1>1, <1>3 DEF IInv, Types
<1>. HIDE DEF n
<1>6. \A j \in DOMAIN got' : got'[j][2] = "path" => got'[j][1] < turn'
    BY <1>1, <1>4, <1>5 DEF PathsOnce
<1>7. \A k \in Inputs : Holds(k)' /\ resHeld'[k][2] = "path" =>
          k = Dispatcher /\ resHeld'[k][1] < turn' /\ \A j \in DOMAIN got' : got'[j] # resHeld'[k]
    <2>1. ASSUME NEW k \in Inputs, Holds(k)', resHeld'[k][2] = "path"
          PROVE  k = Dispatcher /\ resHeld'[k][1] < turn' /\ \A j \in DOMAIN got : got[j] # resHeld'[k]
        BY <1>1, <1>2, <2>1 DEF PathsOnce
    <2>2. ASSUME NEW k \in Inputs, Holds(k)', resHeld'[k][2] = "path"
          PROVE  e # resHeld'[k]
        BY <1>2, <1>4, <2>1, <2>2
    <2>. QED
        BY <1>5, <2>1, <2>2
<1>8. ASSUME NEW j \in DOMAIN got', NEW k \in DOMAIN got', j < k, got'[j][2] = "path"
      PROVE  got'[j] # got'[k]
    <2>1. j \in DOMAIN got /\ got'[j] = got[j]
        BY <1>5, <1>8
    <2>2. CASE k \in DOMAIN got
        BY <1>5, <1>8, <2>1, <2>2 DEF PathsOnce
    <2>3. CASE k = n
        BY <1>4, <1>5, <1>8, <2>1, <2>3
    <2>. QED
        BY <1>5, <2>2, <2>3
<1>. QED
    BY <1>6, <1>7, <1>8 DEF PathsOnce

LEMMA PathsOnceStep ==
    ASSUME IInv, PathsOnce, [Next]_vars
    PROVE  PathsOnce'
<1>1. ASSUME UNCHANGED <<resFwd, resHeld, got>>, turn' = turn \/ NextFile PROVE PathsOnce'
    BY <1>1, PathsOnceFewer, ElementParts DEF NextFile, Holds
<1>2. CASE Dispatch
    <2>1. CASE SendPathResource
        BY <2>1, PathsOnceSend
    <2>2. CASE ~SendPathResource
        BY <1>1, <1>2, <2>2
           DEF Dispatch, OpenFails, SendOpenError, Fatal, SkipParse, SendFile, NoPathResource,
               SendPathError, DispatcherReturns
    <2>. QED
        BY <2>1, <2>2
<1>3. ASSUME NEW p \in Parsers, Parser(p) PROVE PathsOnce'
    <2>1. CASE SendResource(p)
        <3>. DEFINE e == <<file[p], "emit", pos[p]>>
        <3>1. /\ UNCHANGED <<turn, got>> /\ p \in Inputs
              /\ resFwd' = [resFwd EXCEPT ![p] = "send"]
              /\ resHeld' = [resHeld EXCEPT ![p] = e]
            BY <2>1 DEF SendResource, RS!Take, Inputs
        <3>2. e[2] # "path"
            OBVIOUS
        <3>. HIDE DEF e
        <3>3. \A i \in Inputs : Holds(i)' /\ resHeld'[i][2] = "path"
                                   => Holds(i) /\ resHeld'[i] = resHeld[i]
            BY <3>1, <3>2 DEF IInv, Types, Holds
        <3>. QED
            BY <3>1, <3>3 DEF PathsOnce
    <2>2. CASE ~SendResource(p)
        BY <1>1, <1>3, <2>2 DEF Parser, EmitError, SendError, SendCancelled, FileDone, NoMoreFiles
    <2>. QED
        BY <2>1, <2>2
<1>4. CASE StreamRes
    <2>1. /\ UNCHANGED <<turn, got>>
          /\ \A i \in Inputs : Holds(i)' => Holds(i) /\ resHeld'[i] = resHeld[i]
        BY <1>4 DEF StreamRes, RS!FanStep, RS!GiveUp, RS!Finish, RS!CloseOut, IInv, Types, Holds
    <2>. QED
        BY <2>1, PathsOnceFewer, ElementParts
<1>5. CASE StreamErr
    BY <1>1, <1>5 DEF StreamErr
<1>6. CASE Readers
    <2>1. ASSUME NEW i \in Inputs, ReadResource(i) PROVE PathsOnce'
        BY <2>1, PathsOnceRead
    <2>2. CASE ReadDone \/ \E i \in Inputs : ReadError(i)
        BY <1>1, <2>2 DEF ReadDone, ReadError
    <2>. QED
        BY <1>6, <2>1, <2>2 DEF Readers
<1>7. CASE Return \/ Cancel
    BY <1>1, <1>7 DEF Return, Cancel
<1>8. CASE UNCHANGED vars
    BY <1>1, <1>8 DEF vars
<1>. QED
    BY <1>2, <1>3, <1>4, <1>5, <1>6, <1>7, <1>8 DEF Next, Returned

\* Where a resource is does not change while what Located speaks of does not.
LEMMA LocatedKept ==
    ASSUME NEW r, Located(r), UNCHANGED orderVars
    PROVE  Located(r)'
BY DEF Located, Received, Holds, Dispatched, orderVars

\* What is received stays received.
LEMMA ReceivedKept ==
    ASSUME IInv, [Next]_vars, NEW r, Received(r)
    PROVE  Received(r)'
<1>1. CASE got' = got
    BY <1>1 DEF Received
<1>2. ASSUME NEW i \in Inputs, ReadResource(i) PROVE Received(r)'
    <2>1. got' = Append(got, resHeld[i]) /\ got \in Seq(Element)
        BY <1>2 DEF ReadResource, IInv, Types
    <2>. QED
        BY <2>1 DEF Received
<1>3. got' = got \/ \E i \in Inputs : ReadResource(i)
    BY DEF Next, Returned, vars, Dispatch, OpenFails, SendOpenError, Fatal, SkipParse, SendFile,
           NoPathResource, SendPathResource, SendPathError, DispatcherReturns, Parser,
           EmitError, SendResource, SendError, SendCancelled, FileDone, NoMoreFiles,
           StreamRes, StreamErr, Readers, ReadError, ReadDone, Return, Cancel
<1>. QED
    BY <1>1, <1>2, <1>3

\* The parts of a resource that the steps compare.
LEMMA ResourceParts ==
    ASSUME Typed, NEW r \in Resources
    PROVE  /\ r[1] \in Files /\ r[1] \in Nat /\ r[1] <= Len(pifs) /\ Len(pifs) \in Nat
           /\ \/ /\ r[2] = "emit" /\ r = <<r[1], "emit", r[3]>> /\ needsParse(r[1])
                 /\ contents(r[1]).emits \in Seq({"res", "err"})
                 /\ r[3] \in DOMAIN contents(r[1]).emits /\ r[3] \in Nat \ {0}
                 /\ contents(r[1]).emits[r[3]] = "res"
              \/ r[2] = "path" /\ r = <<r[1], "path", 0>> /\ Path[pifs[r[1]]].asRes = "res"
<1>1. /\ call \in Calls /\ Files = 1..Len(pifs) /\ Len(pifs) \in Nat
    BY PathInfos DEF Typed, DispatcherTyped
<1>2. r[1] \in Files
    BY ResourceCases
<1>3. contents(r[1]).emits \in Seq({"res", "err"})
    BY <1>1, <1>2, ContentsEmit
<1>4. CASE /\ r = <<r[1], "emit", r[3]>> /\ needsParse(r[1])
           /\ r[3] \in DOMAIN contents(r[1]).emits
           /\ contents(r[1]).emits[r[3]] = "res"
    BY <1>1, <1>2, <1>3, <1>4
<1>5. CASE r = PathElement(r[1]) /\ Path[pifs[r[1]]].asRes = "res"
    BY <1>1, <1>2, <1>5 DEF PathElement
<1>. QED
    BY <1>4, <1>5, ResourceCases

LEMMA DispatcherLocates ==
    ASSUME IInv, Typed, Closing, Undisturbed, Undisturbed', Dispatch,
           NEW r \in Resources, Located(r)
    PROVE  Located(r)'
<1>. /\ turn \in Nat /\ call' = call /\ stage # "failed" /\ ~ctxDone
     /\ turn \in 1..(Len(pifs) + 1)
    BY ElementParts DEF Closing, Undisturbed, Typed, DispatcherTyped, Dispatch, OpenFails,
           SendOpenError, Fatal, SkipParse, SendFile, NoPathResource, SendPathResource,
           SendPathError, DispatcherReturns
<1>0. /\ r[1] \in Nat /\ r[1] <= Len(pifs) /\ Len(pifs) \in Nat
      /\ r[2] = "emit" => needsParse(r[1])
      /\ r[2] = "path" => Path[pifs[r[1]]].asRes = "res" /\ r = <<r[1], "path", 0>>
      /\ r[2] = "emit" => r[3] \in Nat \ {0}
    BY ResourceParts
\* Sending a file to a parser, or not having to, leaves nothing of it behind.
<1>1. CASE OpenFails
    BY <1>1 DEF OpenFails, mayFailToOpen, Undisturbed
<1>2. CASE SendOpenError
    BY <1>2 DEF SendOpenError, At
<1>3. CASE Fatal
    BY <1>3, LocatedKept DEF Fatal, orderVars
<1>4. CASE SkipParse
    BY <1>0, <1>4 DEF SkipParse, At, Located, Received, Holds, Dispatched
<1>5. ASSUME NEW p \in Parsers, SendFile(p) PROVE Located(r)'
    <2>1. /\ turn' = turn /\ stage = "parse" /\ stage' = "path" /\ parser[p] # "parse"
          /\ parser' = [parser EXCEPT ![p] = "parse"]
          /\ file' = [file EXCEPT ![p] = turn]
          /\ pos' = [pos EXCEPT ![p] = 1]
          /\ UNCHANGED <<resFwd, resHeld, got>>
        BY <1>5 DEF SendFile, OpenFile, At, mayFailToOpen, Undisturbed
    <2>2. /\ parser'[p] = "parse" /\ file'[p] = turn /\ pos'[p] = 1
          /\ \A q \in Parsers : parser[q] = "parse" =>
                parser'[q] = "parse" /\ file'[q] = file[q] /\ pos'[q] = pos[q]
        BY <2>1 DEF IInv, Types
    <2>3. Dispatched(r[1])' <=> Dispatched(r[1]) \/ r[1] = turn
        BY <2>1 DEF Dispatched
    <2>4. CASE r[2] = "emit" /\ r[1] = turn
        BY <1>0, <2>2, <2>4 DEF Located
    <2>5. CASE ~(r[2] = "emit" /\ r[1] = turn)
        BY <2>1, <2>2, <2>3, <2>5 DEF Located, Received, Holds
    <2>. QED
        BY <2>4, <2>5
<1>6. ASSUME At("path"), NextFile, UNCHANGED <<parser, file, pos, got>>,
             \/ r[1] # turn
             \/ r[2] # "path"
             \/ \E i \in Inputs : Holds(i)' /\ resHeld'[i] = r,
             \A i \in Inputs : Holds(i) => Holds(i)' /\ resHeld'[i] = resHeld[i]
      PROVE  Located(r)'
    <2>1. stage = "path" /\ turn' = turn + 1 /\ stage' = "parse"
        BY <1>6 DEF At, NextFile
    <2>2. Dispatched(r[1])' <=> Dispatched(r[1])
        BY <1>0, <2>1 DEF Dispatched
    <2>3. r[1] # turn /\ r[1] >= turn => r[1] >= turn'
        BY <1>0, <2>1
    <2>. QED
        BY <1>6, <2>2, <2>3 DEF Located, Received
<1>7. CASE NoPathResource
    BY <1>0, <1>6, <1>7 DEF NoPathResource, Holds
<1>8. CASE SendPathResource
    <2>. DEFINE e == <<turn, "path", 0>>
    <2>1. /\ At("path") /\ NextFile /\ UNCHANGED <<parser, file, pos, got>>
          /\ resFwd[Dispatcher] = "range"
          /\ resFwd' = [resFwd EXCEPT ![Dispatcher] = "send"]
          /\ resHeld' = [resHeld EXCEPT ![Dispatcher] = e]
        BY <1>8 DEF SendPathResource, RS!Take, PathElement
    <2>2. r[1] # turn \/ r[2] # "path" \/ r = e
        BY <1>0
    <2>. HIDE DEF e
    <2>3. /\ Dispatcher \in Inputs /\ Holds(Dispatcher)' /\ resHeld'[Dispatcher] = e
          /\ \A i \in Inputs : Holds(i) => Holds(i)' /\ resHeld'[i] = resHeld[i]
        BY <2>1 DEF IInv, Types, Holds, Inputs
    <2>. QED
        BY <1>6, <2>1, <2>2, <2>3
<1>9. CASE SendPathError
    BY <1>0, <1>6, <1>9 DEF SendPathError, Holds
<1>10. CASE DispatcherReturns
    <2>1. /\ turn > Len(pifs) /\ stage' = "done" /\ turn' = turn
          /\ UNCHANGED <<parser, file, pos, resFwd, resHeld, got>>
        BY <1>10 DEF DispatcherReturns
    <2>2. Dispatched(r[1]) /\ Dispatched(r[1])'
        BY <1>0, <2>1 DEF Dispatched
    <2>. QED
        BY <2>1, <2>2 DEF Located, Received, Holds
<1>. QED
    BY <1>1, <1>2, <1>3, <1>4, <1>5, <1>7, <1>8, <1>9, <1>10 DEF Dispatch

LEMMA ParserLocates ==
    ASSUME IInv, Typed, Undisturbed, NEW p \in Parsers, Parser(p),
           NEW r \in Resources, Located(r)
    PROVE  Located(r)'
<1>. /\ UNCHANGED <<turn, stage, got, file>> /\ pos \in [Parsers -> Nat \ {0}]
     /\ p \in Inputs /\ ~ctxDone
    BY DEF Typed, ParsersTyped, Undisturbed, Inputs, Parser, EmitError, SendResource, SendError,
           SendCancelled, FileDone, NoMoreFiles
<1>0. r[2] = "emit" => /\ r = <<r[1], "emit", r[3]>>
                       /\ contents(r[1]).emits \in Seq({"res", "err"})
                       /\ r[3] \in DOMAIN contents(r[1]).emits /\ r[3] \in Nat \ {0}
                       /\ contents(r[1]).emits[r[3]] = "res"
    BY ResourceParts
<1>1. Dispatched(r[1])' <=> Dispatched(r[1])
    BY DEF Dispatched
\* Nothing that was held is dropped, and p leaves no resource behind but one it sends.
<1>2. ASSUME \A i \in Inputs : Holds(i) => Holds(i)' /\ resHeld'[i] = resHeld[i],
             \A q \in Parsers : q # p => parser'[q] = parser[q] /\ pos'[q] = pos[q],
             r[2] = "emit" /\ parser[p] = "parse" /\ file[p] = r[1] /\ pos[p] <= r[3]
                => \/ parser'[p] = "parse" /\ pos'[p] <= r[3]
                   \/ \E i \in Inputs : Holds(i)' /\ resHeld'[i] = r
      PROVE  Located(r)'
    BY <1>1, <1>2 DEF Located, Received
<1>3. CASE EmitError(p)
    <2>1. /\ pos' = [pos EXCEPT ![p] = @ + 1] /\ UNCHANGED <<parser, resFwd, resHeld>>
          /\ contents(file[p]).emits[pos[p]] = "err"
        BY <1>3 DEF EmitError, Emitting
    <2>2. pos'[p] = pos[p] + 1 /\ \A q \in Parsers : q # p => pos'[q] = pos[q]
        BY <2>1
    <2>3. r[2] = "emit" /\ file[p] = r[1] => pos[p] # r[3]
        BY <1>0, <2>1
    <2>4. r[2] = "emit" /\ file[p] = r[1] /\ pos[p] <= r[3] => pos'[p] <= r[3]
        BY <1>0, <2>2, <2>3
    <2>. QED
        BY <1>2, <2>1, <2>2, <2>4 DEF Holds
<1>4. CASE SendResource(p)
    <2>. DEFINE e == <<file[p], "emit", pos[p]>>
    <2>1. /\ pos' = [pos EXCEPT ![p] = @ + 1] /\ UNCHANGED parser
          /\ resFwd[p] = "range"
          /\ resFwd' = [resFwd EXCEPT ![p] = "send"]
          /\ resHeld' = [resHeld EXCEPT ![p] = e]
        BY <1>4 DEF SendResource, RS!Take
    <2>2. pos'[p] = pos[p] + 1 /\ \A q \in Parsers : q # p => pos'[q] = pos[q]
        BY <2>1
    <2>3. r[2] = "emit" /\ file[p] = r[1] /\ pos[p] = r[3] => r = e
        BY <1>0
    <2>. HIDE DEF e
    <2>4. /\ Holds(p)' /\ resHeld'[p] = e
          /\ \A i \in Inputs : Holds(i) => Holds(i)' /\ resHeld'[i] = resHeld[i]
        BY <2>1 DEF IInv, Types, Holds
    <2>5. r[2] = "emit" /\ pos[p] <= r[3] => pos[p] = r[3] \/ pos'[p] <= r[3]
        BY <1>0, <2>2
    <2>. QED
        BY <1>2, <2>1, <2>2, <2>3, <2>4, <2>5
<1>5. CASE SendError(p)
    BY <1>5, LocatedKept DEF SendError, orderVars
<1>6. CASE SendCancelled(p)
    BY <1>6 DEF SendCancelled
<1>7. CASE FileDone(p)
    <2>1. /\ pos[p] \notin DOMAIN contents(file[p]).emits
          /\ parser' = [parser EXCEPT ![p] = "range"] /\ UNCHANGED <<pos, resFwd, resHeld>>
        BY <1>7 DEF FileDone
    <2>2. r[2] = "emit" /\ file[p] = r[1] => ~(pos[p] <= r[3])
        BY <1>0, <2>1
    <2>3. \A q \in Parsers : q # p => parser'[q] = parser[q]
        BY <2>1 DEF IInv, Types
    <2>. QED
        BY <1>2, <2>1, <2>2, <2>3 DEF Holds
<1>8. CASE NoMoreFiles(p)
    <2>1. /\ parser[p] # "parse"
          /\ parser' = [parser EXCEPT ![p] = "closed"] /\ UNCHANGED <<pos, resFwd, resHeld>>
        BY <1>8 DEF NoMoreFiles
    <2>2. \A q \in Parsers : q # p => parser'[q] = parser[q]
        BY <2>1 DEF IInv, Types
    <2>. QED
        BY <1>2, <2>1, <2>2 DEF Holds
<1>. QED
    BY <1>3, <1>4, <1>5, <1>6, <1>7, <1>8 DEF Parser

LEMMA OthersLocate ==
    ASSUME IInv, Undisturbed, NEW r, Located(r),
           \/ StreamRes \/ StreamErr \/ Readers \/ Return \/ Cancel \/ UNCHANGED vars
    PROVE  Located(r)'
<1>1. CASE StreamRes
    <2>1. /\ UNCHANGED <<turn, stage, parser, file, pos, got>>
          /\ \A i \in Inputs : Holds(i) => Holds(i)' /\ resHeld'[i] = resHeld[i]
        BY <1>1 DEF StreamRes, RS!FanStep, RS!GiveUp, RS!Finish, RS!CloseOut, Undisturbed,
                    IInv, Types, Holds
    <2>. QED
        BY <2>1 DEF Located, Received, Dispatched
<1>2. ASSUME NEW i \in Inputs, ReadResource(i) PROVE Located(r)'
    <2>1. /\ UNCHANGED <<turn, stage, parser, file, pos>> /\ Holds(i)
          /\ got' = Append(got, resHeld[i]) /\ got \in Seq(Element)
          /\ resFwd' = [resFwd EXCEPT ![i] = "range"]
          /\ resHeld' = [resHeld EXCEPT ![i] = None]
        BY <1>2 DEF ReadResource, RS!Hand, IInv, Types, Holds
    <2>2. \A k \in Inputs : Holds(k) /\ k # i => Holds(k)' /\ resHeld'[k] = resHeld[k]
        BY <2>1 DEF IInv, Types, Holds
    <2>3. resHeld[i] \in Element
        BY <2>1 DEF IInv, Sent
    <2>4. /\ \A j \in DOMAIN got : j \in DOMAIN got' /\ got'[j] = got[j]
          /\ Len(got) + 1 \in DOMAIN got' /\ got'[Len(got) + 1] = resHeld[i]
        BY <2>1, <2>3
    <2>5. (Received(r) => Received(r)') /\ (resHeld[i] = r => Received(r)')
        BY <2>4 DEF Received
    <2>. QED
        BY <2>1, <2>2, <2>5 DEF Located, Dispatched
<1>3. CASE \/ StreamErr \/ ReadDone \/ Return \/ Cancel \/ UNCHANGED vars
           \/ \E i \in Inputs : ReadError(i)
    BY <1>3, LocatedKept DEF StreamErr, ReadDone, Return, Cancel, vars, ReadError, orderVars
<1>. QED
    BY <1>1, <1>2, <1>3 DEF Readers

\* Nothing in the order of the ends is undone: a step that ends none of them keeps it.
LEMMA ClosingKept ==
    ASSUME IInv, Closing, pifs' = pifs, stage' # "failed", resClosed' = resClosed,
           stage = "done" => UNCHANGED <<stage, turn>>,
           stage' = "done" => turn' > Len(pifs),
           \A p \in Parsers : parser[p] = "closed" <=> parser'[p] = "closed",
           \A i \in Inputs : resFwd[i] = "done" <=> resFwd'[i] = "done"
    PROVE  Closing'
<1>1. \A i \in Inputs : inClosed[i] <=> IF i = Dispatcher THEN stage = "done" ELSE parser[i] = "closed"
    BY DEF inClosed
<1>2. \A i \in Inputs : inClosed'[i] <=> IF i = Dispatcher THEN stage' = "done" ELSE parser'[i] = "closed"
    BY DEF inClosed
<1>3. \A i \in Inputs : inClosed[i] => inClosed'[i]
    BY <1>1, <1>2 DEF Inputs
<1>. QED
    BY <1>3 DEF Closing

LEMMA ClosingStep ==
    ASSUME IInv, Typed, Closing, Undisturbed, Undisturbed', [Next]_vars, call' = call
    PROVE  Closing'
<1>. /\ pifs' = pifs /\ stage # "failed" /\ ~ctxDone /\ ~ctxDone' /\ turn \in Nat
     /\ turn \in 1..(Len(pifs) + 1) /\ Len(pifs) \in Nat /\ Files = 1..Len(pifs)
     /\ parser \in [Parsers -> {"range", "parse", "closed"}]
     /\ resFwd \in [Inputs -> {"range", "send", "done"}]
    BY CallSame, PathInfos, ElementParts
       DEF Closing, Undisturbed, Typed, DispatcherTyped, IInv, Types
<1>0. ~OpenFails /\ ~SendOpenError
    BY DEF OpenFails, SendOpenError, At, mayFailToOpen, Undisturbed
<1>1. CASE Dispatch
    <2>1. ASSUME NEW p \in Parsers, SendFile(p) PROVE Closing'
        <3>1. \A q \in Parsers : parser[q] = "closed" <=> parser'[q] = "closed"
            BY <2>1 DEF SendFile
        <3>. QED
            BY <2>1, <3>1, ClosingKept DEF SendFile, At
    <2>2. CASE Fatal \/ SkipParse
        BY <2>2, ClosingKept DEF Fatal, SkipParse, At, Closing
    <2>3. CASE NoPathResource \/ SendPathError
        BY <2>3, ClosingKept DEF NoPathResource, SendPathError, At, NextFile
    <2>4. CASE SendPathResource
        <3>1. \A i \in Inputs : resFwd[i] = "done" <=> resFwd'[i] = "done"
            BY <2>4 DEF SendPathResource, RS!Take
        <3>. QED
            BY <2>4, <3>1, ClosingKept DEF SendPathResource, At, NextFile, RS!Take
    <2>5. CASE DispatcherReturns
        BY <2>5, ClosingKept DEF DispatcherReturns
    <2>. QED
        BY <1>0, <1>1, <2>1, <2>2, <2>3, <2>4, <2>5 DEF Dispatch
<1>2. ASSUME NEW p \in Parsers, Parser(p) PROVE Closing'
    <2>0. UNCHANGED <<stage, turn>> /\ UNCHANGED resClosed
        BY <1>2 DEF Parser, EmitError, SendResource, SendError, SendCancelled, FileDone,
                    NoMoreFiles, RS!Take
    <2>1. CASE EmitError(p) \/ SendError(p)
        BY <2>0, <2>1, ClosingKept DEF EmitError, SendError, Closing
    <2>2. CASE SendResource(p)
        <3>1. \A i \in Inputs : resFwd[i] = "done" <=> resFwd'[i] = "done"
            BY <2>2 DEF SendResource, RS!Take
        <3>. QED
            BY <2>0, <2>2, <3>1, ClosingKept DEF SendResource, Closing
    <2>3. CASE FileDone(p)
        <3>1. \A q \in Parsers : parser[q] = "closed" <=> parser'[q] = "closed"
            BY <2>3 DEF FileDone
        <3>. QED
            BY <2>0, <2>3, <3>1, ClosingKept DEF FileDone, Closing
    <2>4. CASE NoMoreFiles(p)
        <3>1. /\ stage = "done" /\ UNCHANGED <<resFwd, resClosed>>
              /\ \A q \in Parsers : parser[q] = "closed" => parser'[q] = "closed"
            BY <2>4 DEF NoMoreFiles
        <3>2. \A i \in Inputs : inClosed[i] => inClosed'[i]
            BY <2>0, <3>1 DEF inClosed, Inputs
        <3>. QED
            BY <2>0, <3>1, <3>2 DEF Closing
    <2>. QED
        BY <1>2, <2>1, <2>2, <2>3, <2>4 DEF Parser, SendCancelled
<1>3. CASE StreamRes
    <2>1. UNCHANGED <<stage, turn, parser>> /\ inClosed' = inClosed
        BY <1>3 DEF StreamRes, inClosed
    <2>2. ASSUME NEW i \in Inputs, RS!Finish(i) PROVE Closing'
        BY <2>1, <2>2 DEF RS!Finish, Closing
    <2>3. CASE RS!CloseOut
        BY <2>1, <2>3 DEF RS!CloseOut, Closing
    <2>. QED
        BY <1>3, <2>2, <2>3 DEF StreamRes, RS!FanStep, RS!GiveUp
<1>4. ASSUME NEW i \in Inputs, ReadResource(i) PROVE Closing'
    <2>1. \A k \in Inputs : resFwd[k] = "done" <=> resFwd'[k] = "done"
        BY <1>4 DEF ReadResource, RS!Hand
    <2>. QED
        BY <1>4, <2>1, ClosingKept DEF ReadResource, RS!Hand, Closing
<1>5. CASE StreamErr \/ ReadDone \/ (\E i \in Inputs : ReadError(i)) \/ UNCHANGED vars
    BY <1>5, ClosingKept DEF StreamErr, ReadDone, ReadError, vars, Closing
<1>6. ~Return /\ (Cancel => UNCHANGED <<stage, turn, parser, resFwd, resClosed>>)
    BY DEF Return, Cancel
<1>7. CASE Cancel
    BY <1>6, <1>7, ClosingKept DEF Closing
<1>. QED
    BY <1>1, <1>2, <1>3, <1>4, <1>5, <1>6, <1>7 DEF Next, Returned, Readers

\* A context that is done stays done, and the call stays the same.
LEMMA Monotone ==
    ASSUME [Next]_vars
    PROVE  call' = call /\ (ctxDone' = ctxDone \/ ctxDone' = TRUE)
BY DEF Next, Returned, vars, Dispatch, OpenFails, SendOpenError, Fatal, SkipParse, SendFile,
       NoPathResource, SendPathResource, SendPathError, DispatcherReturns, Parser,
       EmitError, SendResource, SendError, SendCancelled, FileDone, NoMoreFiles,
       StreamRes, StreamErr, Readers, ReadError, ReadResource, ReadDone, Return, Cancel

LEMMA FlowStep ==
    ASSUME IInv, Typed, Flow, [Next]_vars
    PROVE  Flow'
<1>. SUFFICES ASSUME Undisturbed' PROVE Closing' /\ \A r \in Resources' : Located(r)'
    BY DEF Flow
<1>1. call' = call /\ Undisturbed
    <2>1. call' = call /\ (ctxDone' = ctxDone \/ ctxDone' = TRUE)
        BY Monotone
    <2>2. ~ctxDone' /\ Unreadable' = {}
        BY DEF Undisturbed
    <2>3. ~ctxDone
        BY <2>1, <2>2, Zenon
    <2>. QED
        BY <2>1, <2>2, <2>3, CallSame DEF Undisturbed
<1>2. Closing /\ (\A r \in Resources : Located(r)) /\ Resources' = Resources
    BY <1>1, CallSame DEF Flow
<1>3. Closing'
    BY <1>1, <1>2, ClosingStep
<1>4. ASSUME NEW r \in Resources PROVE Located(r)'
    <2>1. Located(r)
        BY <1>2
    <2>2. CASE Dispatch
        BY <1>1, <1>2, <2>1, <2>2, DispatcherLocates
    <2>3. ASSUME NEW p \in Parsers, Parser(p) PROVE Located(r)'
        BY <1>1, <2>1, <2>3, ParserLocates
    <2>4. CASE \/ StreamRes \/ StreamErr \/ Readers \/ Return \/ Cancel \/ UNCHANGED vars
        BY <1>1, <2>1, <2>4, OthersLocate
    <2>. QED
        BY <2>2, <2>3, <2>4 DEF Next, Returned
<1>. QED
    BY <1>2, <1>3, <1>4

\* When the merged stream is closed in order, every resource has been received.
LEMMA ClosedReceived ==
    ASSUME IInv, Typed, Closing, resClosed, NEW r \in Resources, Located(r)
    PROVE  Received(r)
<1>1. \A i \in Inputs : resFwd[i] = "done" /\ inClosed[i]
    BY DEF Closing
<1>2. stage = "done" /\ \A p \in Parsers : parser[p] = "closed"
    BY <1>1, DispatcherAssumption DEF inClosed, Inputs
<1>3. turn > Len(pifs) /\ turn \in Nat
    BY <1>2, ElementParts DEF Closing
<1>4. r[1] \in Nat /\ r[1] <= Len(pifs) /\ Len(pifs) \in Nat
    BY ResourceParts
<1>5. r[1] < turn
    BY <1>3, <1>4
<1>6. Dispatched(r[1]) /\ ~(r[1] >= turn)
    BY <1>3, <1>4, <1>5 DEF Dispatched
<1>. QED
    BY <1>1, <1>2, <1>6 DEF Located, Holds

LEMMA NoFiles == ASSUME Typed, pifs = << >> PROVE Resources = {}
<1>1. Files = {}
    BY DEF Files
<1>. QED
    BY <1>1, ResourceCases

LEMMA EndingStep ==
    ASSUME IInv, Typed, Flow, Ending, [Next]_vars
    PROVE  Ending'
<1>1. call' = call /\ pifs' = pifs /\ Resources' = Resources /\ Unreadable' = Unreadable
    BY Monotone, CallSame
<1>2. \A r \in Resources : Received(r) => Received(r)'
    BY ReceivedKept
<1>3. ASSUME UNCHANGED <<resReader, result>>,
             ctxDone' /\ ~callerDone' => ctxDone /\ ~callerDone,
             ~callerDone' => ~callerDone
      PROVE  Ending'
    BY <1>1, <1>2, <1>3 DEF Ending
<1>4. CASE Return
    BY <1>1, <1>2, <1>4 DEF Return, Ending
<1>5. CASE Cancel
    BY <1>1, <1>2, <1>5 DEF Cancel, Ending
<1>6. CASE Fatal
    BY <1>1, <1>2, <1>6 DEF Fatal, Ending
<1>7. CASE ReadDone
    <2>1. UNCHANGED <<result, ctxDone, callerDone>> /\ resReader = "range" /\ resClosed
        BY <1>7 DEF ReadDone
    <2>2. ASSUME ~callerDone, Unreadable = {}, result \in {"running", "ok"}, NEW r \in Resources
          PROVE  Received(r)
        <3>1. CASE ctxDone
            BY <2>1, <2>2, <3>1, NoFiles DEF Ending
        <3>2. CASE ~ctxDone
            BY <2>1, <2>2, <3>2, ClosedReceived DEF Flow, Undisturbed
        <3>. QED
            BY <3>1, <3>2
    <2>3. ctxDone' /\ ~callerDone' => result' # "running"
        BY <2>1 DEF Ending
    <2>4. result' = "ok" => resReader' = "done"
        BY <1>7 DEF ReadDone
    <2>. QED
        BY <1>1, <1>2, <2>1, <2>2, <2>3, <2>4 DEF Ending
<1>8. CASE OpenFails \/ SendOpenError \/ SkipParse \/ (\E p \in Parsers : SendFile(p) \/ Parser(p))
           \/ NoPathResource \/ SendPathResource \/ SendPathError \/ DispatcherReturns
           \/ StreamRes \/ StreamErr \/ (\E i \in Inputs : ReadError(i) \/ ReadResource(i))
           \/ UNCHANGED vars
    <2>1. UNCHANGED <<resReader, result, ctxDone, callerDone>>
        BY <1>8 DEF OpenFails, SendOpenError, SkipParse, SendFile, NoPathResource,
           SendPathResource, SendPathError, DispatcherReturns, Parser, EmitError, SendResource,
           SendError, SendCancelled, FileDone, NoMoreFiles, StreamRes, StreamErr, ReadError,
           ReadResource, vars
    <2>. QED
        BY <1>3, <2>1
<1>. QED
    BY <1>4, <1>5, <1>6, <1>7, <1>8 DEF Next, Returned, Dispatch, Readers

LEMMA DeliveryInit == Init => DInv
<1>. SUFFICES ASSUME Init PROVE DInv
    OBVIOUS
<1>1. IInv /\ Typed
    BY InitOrder, TypedInit
<1>2. /\ turn = 1 /\ stage = "parse" /\ ~ctxDone /\ resReader = "range" /\ ~resClosed
      /\ (\A i \in Inputs : ~Holds(i) /\ resFwd[i] # "done") /\ DOMAIN got = {}
      /\ \A p \in Parsers : parser[p] = "range"
    BY DEF Init, Holds, RS!FanInit
<1>3. PathsOnce
    BY <1>2 DEF PathsOnce
<1>4. Flow
    <2>1. Closing
        BY <1>2 DEF Closing
    <2>2. ASSUME NEW r \in Resources PROVE Located(r)
        <3>1. /\ r[1] \in Nat /\ r[1] \in 1..Len(pifs)
              /\ r[2] \in {"path", "emit"}
            BY <1>1, ResourceParts, PathInfos DEF Typed, DispatcherTyped
        <3>2. r[1] >= 1 /\ ~(r[1] < 1)
            BY <3>1
        <3>. QED
            BY <1>2, <3>1, <3>2 DEF Located, Dispatched
    <2>. QED
        BY <2>1, <2>2 DEF Flow
<1>5. Ending
    BY <1>2 DEF Ending, Init
<1>. QED
    BY <1>1, <1>3, <1>4, <1>5 DEF DInv

LEMMA DeliveryStep == DInv /\ [Next]_vars => DInv'
BY Inductive, TypesInductive, PathsOnceStep, FlowStep, EndingStep DEF DInv

\* No resource is received twice.
LEMMA GotOnce ==
    ASSUME DInv, NEW j \in DOMAIN got, NEW k \in DOMAIN got, j < k
    PROVE  got[j] # got[k]
<1>1. got[j] \in Resources /\ Typed /\ got \in Seq(Element)
    BY DEF DInv, Typed, ReadersTyped, IInv, Types
<1>2. CASE got[j][2] = "path"
    BY <1>2 DEF DInv, PathsOnce
<1>3. CASE got[j][2] = "emit"
    <2>1. got[j][3] \in Nat
        BY <1>1, <1>3, ResourceParts
    <2>2. got[j] = got[k] => got[j][3] < got[k][3]
        BY <1>3 DEF DInv, IInv, FileOrder
    <2>. QED
        BY <2>1, <2>2
<1>. QED
    BY <1>1, <1>2, <1>3, ResourceParts

LEMMA DeliveryImplies == DInv => NothingLost
<1>. SUFFICES ASSUME DInv, Succeeded, Unreadable = {}
              PROVE  /\ {got[j] : j \in DOMAIN got} = Resources
                     /\ Len(got) = Cardinality(Resources)
    BY DEF NothingLost
<1>1. got \in Seq(Resources) /\ Typed
    BY DEF DInv, Typed, ReadersTyped
<1>2. \A r \in Resources : Received(r)
    BY <1>1, NoFiles DEF DInv, Ending, Succeeded
<1>3. {got[j] : j \in DOMAIN got} = Resources
    BY <1>1, <1>2 DEF Received
<1>4. Len(got) \in Nat /\ DOMAIN got = 1..Len(got) /\ got \in [1..Len(got) -> Resources]
    BY <1>1
<1>5. got \in Bijection(1..Len(got), Resources)
    <2>1. \A j, k \in 1..Len(got) : got[j] = got[k] => j = k
        BY <1>4, GotOnce
    <2>2. \A r \in Resources : \E j \in 1..Len(got) : got[j] = r
        BY <1>2, <1>4 DEF Received
    <2>. QED
        BY <1>4, <2>1, <2>2 DEF Bijection, Injection, Surjection, IsInjective
<1>6. Cardinality(Resources) = Len(got)
    BY <1>4, <1>5, FS_CountingElements DEF ExistsBijection
<1>. QED
    BY <1>3, <1>6

\* A call that succeeds, that nobody cancels and whose files all open, returns every resource
\* of every file, and each exactly once: however many parsers, whatever the contents, in
\* whatever order the streams are merged.
THEOREM AllDelivered == Spec => []NothingLost
BY DeliveryInit, DeliveryStep, DeliveryImplies, PTL DEF Spec
=============================================================================
