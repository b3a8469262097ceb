--------------------------- MODULE RespipeProofs ---------------------------
(***************************************************************************)
(* For every tree, every input of the pipe, every size of its buffer and   *)
(* whatever the schedule and the cancellations: the emitters send what     *)
(* Emitted says of each directory, and the output of the pipe is what      *)
(* WrittenRight says.                                                      *)
(*                                                                         *)
(* The invariant of the pipe accounts for every unit: what is written, in  *)
(* the buffer and still to write is, together, the encoding of a number of *)
(* records.  That of the emitters says of each directory and kind what was *)
(* taken of the visits the walk has passed, and that a walk which left a   *)
(* file out is outside that file's directory before it sends again.        *)
(*                                                                         *)
(* A merged stream alone delivers each input in order and exactly once,    *)
(* loses nothing unless cancelled, never sends on its closed output, and   *)
(* so implements the promise of MergedStream, for every set of inputs and  *)
(* every number of elements on each.                                       *)
(***************************************************************************)
EXTENDS Respipe, Recursion, SequenceTheorems

USE DEF io!outVars, io!callVars, emitter!piVars, emitter!erVars, emitter!gotVars

(* res_io.go: the invariant *)

Kinds == {"ok", "unencodable", "tornLen", "tornData", "badProto"}
Unit == Nat \X {"len", "data"}
Enc(n) == [i \in 1..(2 * n) |-> <<(i + 1) \div 2, IF i % 2 = 1 THEN "len" ELSE "data">>]
\* The records before the first that cannot pass.
Passing == IF io!Unreadable = {} THEN Len(input.recs) ELSE io!Min(io!Unreadable) - 1

IOTyped ==
    /\ input \in ResInputs
    /\ next \in 1..(Len(input.recs) + 1)
    /\ out \in Seq(Unit) /\ buf \in Seq(Unit) /\ pending \in Seq(Unit)
    /\ errs \in Seq({"read", "write"})
    /\ broken \in BOOLEAN /\ ioDone \in BOOLEAN

\* The encoding of one more record ends in its length and its data.
LEMMA EncNext ==
    ASSUME NEW n \in Nat
    PROVE  /\ Enc(n) \in Seq(Unit)
           /\ Enc(n) \o << <<n + 1, "len">>, <<n + 1, "data">> >> = Enc(n + 1)
<1>1. \A i \in 1..(2 * n) : (i + 1) \div 2 \in Nat
    OBVIOUS
<1>2. Enc(n) \in Seq(Unit) /\ Len(Enc(n)) = 2 * n
    BY <1>1 DEF Enc, Unit
<1>3. Enc(n + 1) \in Seq(Unit) /\ Len(Enc(n + 1)) = 2 * n + 2
    <2>1. \A i \in 1..(2 * (n + 1)) : (i + 1) \div 2 \in Nat
        OBVIOUS
    <2>2. 2 * (n + 1) = 2 * n + 2
        OBVIOUS
    <2>. QED
        BY <2>1, <2>2 DEF Enc, Unit
<1>. DEFINE t == << <<n + 1, "len">>, <<n + 1, "data">> >>
<1>4. t \in Seq(Unit) /\ Len(t) = 2 /\ t[1] = <<n + 1, "len">> /\ t[2] = <<n + 1, "data">>
    BY DEF Unit
<1>. HIDE DEF t
<1>5. /\ Enc(n) \o t \in Seq(Unit) /\ Len(Enc(n) \o t) = 2 * n + 2
      /\ \A i \in 1..(2 * n + 2) : (Enc(n) \o t)[i] = IF i <= 2 * n THEN Enc(n)[i]
                                                      ELSE t[i - 2 * n]
    <2>1. /\ Enc(n) \o t \in Seq(Unit) /\ Len(Enc(n) \o t) = Len(Enc(n)) + Len(t)
          /\ \A i \in 1..(Len(Enc(n)) + Len(t)) :
                (Enc(n) \o t)[i] = IF i <= Len(Enc(n)) THEN Enc(n)[i] ELSE t[i - Len(Enc(n))]
        BY <1>2, <1>4, ConcatProperties
    <2>. QED
        BY <1>2, <1>4, <2>1
<1>6. ASSUME NEW i \in 1..(2 * n + 2) PROVE (Enc(n) \o t)[i] = Enc(n + 1)[i]
    <2>1. CASE i <= 2 * n
        BY <1>5, <2>1 DEF Enc
    <2>2. CASE i = 2 * n + 1
        <3>1. (Enc(n) \o t)[i] = <<n + 1, "len">>
            BY <1>4, <1>5, <2>2
        <3>2. (i + 1) \div 2 = n + 1 /\ i % 2 = 1 /\ i \in 1..(2 * (n + 1))
            BY <2>2
        <3>3. Enc(n + 1)[i] = <<(i + 1) \div 2, "len">>
            BY <3>2 DEF Enc
        <3>. QED
            BY <3>1, <3>2, <3>3
    <2>3. CASE i = 2 * n + 2
        <3>1. (Enc(n) \o t)[i] = <<n + 1, "data">>
            BY <1>4, <1>5, <2>3
        <3>2. (i + 1) \div 2 = n + 1 /\ i % 2 # 1 /\ i \in 1..(2 * (n + 1))
            BY <2>3
        <3>3. Enc(n + 1)[i] = <<(i + 1) \div 2, "data">>
            BY <3>2 DEF Enc
        <3>. QED
            BY <3>1, <3>2, <3>3
    <2>4. i <= 2 * n \/ i = 2 * n + 1 \/ i = 2 * n + 2
        OBVIOUS
    <2>. QED
        BY <2>1, <2>2, <2>3, <2>4
<1>7. Enc(n) \o t = Enc(n + 1)
    <2>. DEFINE a == Enc(n) \o t
                b == Enc(n + 1)
    <2>1. a \in Seq(Unit) /\ b \in Seq(Unit) /\ Len(a) = 2 * n + 2 /\ Len(b) = 2 * n + 2
        BY <1>3, <1>5
    <2>2. \A i \in 1..(2 * n + 2) : a[i] = b[i]
        BY <1>6
    <2>. HIDE DEF a, b
    <2>3. a = b
        BY <2>1, <2>2, SeqEqual
    <2>. QED
        BY <2>3 DEF a, b
<1>. QED
    BY <1>2, <1>7 DEF t

OKUpTo(n) == \A k \in 1..n : input.recs[k] = "ok"
Total == (out \o buf) \o pending

\* What is written, buffered or about to be is the encoding of some of the records.
Whole == \E n \in 0..Passing : Total = Enc(n)
\* While Consume ranges, it is that of all it received.
Ranging ==
    /\ consumer \in {"range", "write"} => OKUpTo(next - 1) /\ Total = Enc(next - 1)
    /\ consumer = "range" => pending = << >>
\* A caller without an error or a cancellation.
Unseen == errs = << >> /\ ~ioDone =>
    /\ producer = "closed" => next = Len(input.recs) + 1
    /\ broken = TRUE => consumer \in {"err", "flushErr"}
    /\ consumer \in {"flush", "closed"} => /\ pending = << >> /\ OKUpTo(next - 1)
                                           /\ Total = Enc(next - 1) /\ producer = "closed"
    /\ consumer = "closed" => buf = << >>

IOInv == IOTyped /\ Whole /\ Ranging /\ Unseen

\* The encoding of n records has 2n units.
LEMMA EncFacts ==
    ASSUME NEW n \in Nat
    PROVE  Enc(n) \in Seq(Unit) /\ Len(Enc(n)) = 2 * n
<1>1. \A i \in 1..(2 * n) : (i + 1) \div 2 \in Nat
    OBVIOUS
<1>. QED
    BY <1>1 DEF Enc, Unit

\* An input as ResInputsAssumption has it.
LEMMA InputFacts ==
    ASSUME input \in ResInputs
    PROVE  input.recs \in Seq(Kinds) /\ Len(input.recs) \in Nat
BY ResInputsAssumption DEF Kinds

\* The records before the first that cannot pass, and the encoding that a run comes to.
LEMMA PassingFacts ==
    ASSUME input \in ResInputs
    PROVE  /\ io!Encoding = Enc(Passing)
           /\ Passing \in 0..Len(input.recs)
           /\ \A n \in 0..Len(input.recs) : OKUpTo(n) => n <= Passing
           /\ OKUpTo(Len(input.recs)) => io!Unreadable = {} /\ Passing = Len(input.recs)
<1>. DEFINE T == io!Unreadable
<1>1. T = {k \in 1..Len(input.recs) : input.recs[k] # "ok"}
    BY InputFacts DEF io!Unreadable
<1>2. CASE T = {}
    BY <1>1, <1>2, InputFacts DEF Passing, io!Encoding, Enc, OKUpTo
<1>3. CASE T # {}
    <2>. DEFINE m == io!Min(T)
    <2>1. T \subseteq Nat
        BY <1>1, InputFacts
    <2>. HIDE DEF T
    <2>2. \E x \in T : \A y \in T : x <= y
        BY <1>3, <2>1, LeastOf
    <2>3. m \in T /\ \A y \in T : m <= y
        BY <2>2 DEF io!Min
    <2>4. Passing = m - 1
        BY <1>3 DEF Passing, T
    <2>. HIDE DEF m
    <2>5. m \in 1..Len(input.recs) /\ input.recs[m] # "ok"
        BY <1>1, <2>3
    <2>6. Passing \in 0..Len(input.recs)
        BY <2>4, <2>5, InputFacts
    <2>7. ASSUME NEW n \in 0..Len(input.recs), OKUpTo(n) PROVE n <= Passing
        <3>1. ~(m \in 1..n)
            BY <2>5, <2>7 DEF OKUpTo
        <3>. QED
            BY <2>4, <2>5, <3>1, InputFacts
    <2>8. ~OKUpTo(Len(input.recs))
        BY <2>5 DEF OKUpTo
    <2>9. io!Encoding = Enc(Passing)
        BY <1>3, <2>4 DEF io!Encoding, Enc, T, m
    <2>. QED
        BY <2>6, <2>7, <2>8, <2>9
<1>. QED
    BY <1>2, <1>3

-----------------------------------------------------------------------------
(* res_io.go: the steps *)

\* What Consume received is among the records that pass.
LEMMA RangingWhole ==
    ASSUME IOTyped, OKUpTo(next - 1), Total = Enc(next - 1)
    PROVE  Whole
<1>1. next - 1 \in 0..Len(input.recs)
    BY InputFacts DEF IOTyped
<1>. QED
    BY <1>1, PassingFacts DEF Whole, IOTyped

\* A step that writes nothing, and what it has to show.
LEMMA Quiet ==
    ASSUME IOInv, UNCHANGED <<input, next, out, buf, pending>>,
           errs' \in Seq({"read", "write"}), broken' \in BOOLEAN, ioDone' \in BOOLEAN,
           Ranging', Unseen'
    PROVE  IOInv'
<1>1. IOTyped'
    BY DEF IOInv, IOTyped
<1>2. Passing' = Passing /\ Total' = Total
    BY DEF Passing, Total, io!Unreadable
<1>3. Whole'
    BY <1>2 DEF IOInv, Whole
<1>. QED
    BY <1>1, <1>3 DEF IOInv

\* A step after which the errors or the end of the context are seen.
LEMMA SeenNow ==
    ASSUME errs' # << >> \/ ioDone' = TRUE
    PROVE  Unseen'
BY DEF Unseen

\* A record sent, or one that cannot be encoded.
LEMMA SendResIO ==
    ASSUME IOInv, io!SendRes
    PROVE  IOInv'
<1>. DEFINE t == << <<next, "len">>, <<next, "data">> >>
<1>1. /\ producer = "read" /\ consumer = "range" /\ next <= Len(input.recs)
      /\ next' = next + 1
      /\ UNCHANGED <<input, producer, out, buf, broken, ioDone, caller, errs>>
      /\ \/ input.recs[next] = "ok" /\ consumer' = "write" /\ pending' = t
         \/ consumer' = "err" /\ pending' = pending
    BY DEF io!SendRes, io!Reading
<1>2. /\ next \in 1..Len(input.recs) /\ next \in Nat /\ next - 1 \in Nat
      /\ next' - 1 = next /\ Len(input.recs) \in Nat /\ next' \in 1..(Len(input.recs) + 1)
    BY <1>1, InputFacts DEF IOInv, IOTyped
<1>3. OKUpTo(next - 1) /\ Total = Enc(next - 1) /\ pending = << >>
    BY <1>1 DEF IOInv, Ranging
<1>4. Passing' = Passing
    BY <1>1 DEF Passing, io!Unreadable
<1>5. Unseen'
    BY <1>1 DEF IOInv, Unseen
<1>6. CASE input.recs[next] = "ok" /\ consumer' = "write" /\ pending' = t
    <2>1. t \in Seq(Unit)
        BY <1>2 DEF Unit
    <2>. HIDE DEF t
    <2>2. IOTyped'
        BY <1>1, <1>2, <1>6, <2>1 DEF IOInv, IOTyped
    <2>3. OKUpTo(next)
        BY <1>2, <1>3, <1>6 DEF OKUpTo
    <2>4. OKUpTo(next - 1)'
        BY <1>1, <1>2, <2>3 DEF OKUpTo
    <2>5. out \o buf \in Seq(Unit)
        BY DEF IOInv, IOTyped
    <2>6. Total = out \o buf
        BY <1>3, <2>5, ConcatEmptySeq DEF Total
    <2>7. Total' = Enc(next - 1) \o t
        BY <1>1, <1>3, <1>6, <2>6 DEF Total
    <2>8. Enc(next - 1) \o t = Enc(next)
        <3>1. \A n \in Nat : Enc(n) \o << <<n + 1, "len">>, <<n + 1, "data">> >> = Enc(n + 1)
            BY EncNext
        <3>2. (next - 1) + 1 = next
            BY <1>2
        <3>. QED
            BY <1>2, <3>1, <3>2 DEF t
    <2>9. Total' = Enc(next' - 1)
        BY <1>2, <2>7, <2>8
    <2>10. Ranging'
        BY <1>6, <2>4, <2>9 DEF Ranging, Enc
    <2>11. Whole'
        <3>1. next \in 0..Len(input.recs)
            BY <1>2
        <3>2. next \in 0..Passing
            BY <1>2, <2>3, <3>1, PassingFacts DEF IOInv, IOTyped
        <3>. QED
            BY <1>2, <1>4, <2>9, <3>2 DEF Whole, Enc
    <2>. QED
        BY <1>5, <2>2, <2>10, <2>11 DEF IOInv
<1>7. CASE consumer' = "err" /\ pending' = pending
    <2>1. IOTyped'
        BY <1>1, <1>2, <1>7 DEF IOInv, IOTyped
    <2>2. Total' = Total
        BY <1>1, <1>7 DEF Total
    <2>3. Whole'
        BY <1>4, <2>2 DEF IOInv, Whole
    <2>4. Ranging'
        BY <1>7 DEF Ranging
    <2>. QED
        BY <1>5, <2>1, <2>3, <2>4 DEF IOInv
<1>. QED
    BY <1>1, <1>6, <1>7

\* A write into the buffer, flushed first when it is full.
LEMMA WriteIO ==
    ASSUME IOInv, io!Write
    PROVE  IOInv'
<1>1. /\ consumer = "write" /\ pending # << >>
      /\ out' = IF io!Full THEN out \o buf ELSE out
      /\ buf' = IF io!Full THEN <<pending[1]>> ELSE Append(buf, pending[1])
      /\ pending' = Tail(pending)
      /\ UNCHANGED <<input, next, producer, consumer, broken, ioDone, caller, errs>>
    BY DEF io!Write, io!Writing
<1>2. out \in Seq(Unit) /\ buf \in Seq(Unit) /\ pending \in Seq(Unit)
    BY DEF IOInv, IOTyped
<1>. DEFINE x == <<pending[1]>>
<1>3. /\ pending[1] \in Unit /\ x \in Seq(Unit) /\ Tail(pending) \in Seq(Unit)
      /\ x \o Tail(pending) = pending
    <2>1. Len(pending) \in Nat \ {0} /\ pending[1] \in Unit /\ x \in Seq(Unit)
          /\ Tail(pending) \in Seq(Unit)
        BY <1>1, <1>2, EmptySeq
    <2>2. x \o Tail(pending) = pending
        BY <1>1, <1>2, <2>1
    <2>. QED
        BY <2>1, <2>2
<1>4. Append(buf, pending[1]) = buf \o x
    BY <1>2, <1>3
<1>. HIDE DEF x
<1>5. /\ out' \in Seq(Unit) /\ buf' \in Seq(Unit) /\ out' \o buf' = (out \o buf) \o x
    <2>1. CASE io!Full
        BY <1>1, <1>2, <1>3, <2>1, ConcatProperties DEF x
    <2>2. CASE ~io!Full
        <3>1. out' = out /\ buf' = buf \o x
            BY <1>1, <1>4, <2>2
        <3>. QED
            BY <1>2, <1>3, <3>1, ConcatAssociative, ConcatProperties
    <2>. QED
        BY <2>1, <2>2
<1>6. Total' = Total
    <2>1. out \o buf \in Seq(Unit)
        BY <1>2, ConcatProperties
    <2>2. ((out \o buf) \o x) \o Tail(pending) = (out \o buf) \o (x \o Tail(pending))
        BY <1>3, <2>1, ConcatAssociative
    <2>. QED
        BY <1>1, <1>3, <1>5, <2>2 DEF Total
<1>7. IOTyped'
    BY <1>1, <1>3, <1>5 DEF IOInv, IOTyped
<1>8. Passing' = Passing
    BY <1>1 DEF Passing, io!Unreadable
<1>9. Whole'
    BY <1>6, <1>8 DEF IOInv, Whole
<1>10. Ranging' /\ Unseen'
    BY <1>1, <1>6 DEF IOInv, Ranging, Unseen, OKUpTo
<1>. QED
    BY <1>7, <1>9, <1>10 DEF IOInv

\* A short write moves a part of the buffer to the output.
LEMMA ShortWriteIO ==
    ASSUME IOTyped, io!ShortWrite, pending' = pending
    PROVE  /\ Total' = Total /\ out' \in Seq(Unit) /\ buf' \in Seq(Unit)
           /\ broken' = TRUE
<1>1. PICK n \in 0..(Len(buf) - 1) : /\ out' = out \o SubSeq(buf, 1, n)
                                     /\ buf' = SubSeq(buf, n + 1, Len(buf))
    BY DEF io!ShortWrite
<1>2. out \in Seq(Unit) /\ buf \in Seq(Unit) /\ Len(buf) \in Nat /\ n \in Nat /\ n < Len(buf)
    BY <1>1 DEF IOTyped
<1>. DEFINE a == SubSeq(buf, 1, n)
            b == SubSeq(buf, n + 1, Len(buf))
<1>3. a \in Seq(Unit) /\ b \in Seq(Unit) /\ a \o b = buf
    <2>1. a \in Seq(Unit) /\ Len(a) = n /\ \A i \in 1..n : a[i] = buf[i]
        BY <1>2
    <2>2. b \in Seq(Unit) /\ Len(b) = Len(buf) - n /\ \A i \in 1..(Len(buf) - n) : b[i] = buf[n + i]
        BY <1>2
    <2>. HIDE DEF a, b
    <2>3. a \o b \in Seq(Unit) /\ Len(a \o b) = Len(buf)
          /\ \A i \in 1..Len(buf) : (a \o b)[i] = IF i <= n THEN a[i] ELSE b[i - n]
        <3>1. /\ a \o b \in Seq(Unit) /\ Len(a \o b) = Len(a) + Len(b)
              /\ \A i \in 1..(Len(a) + Len(b)) :
                    (a \o b)[i] = IF i <= Len(a) THEN a[i] ELSE b[i - Len(a)]
            BY <2>1, <2>2, ConcatProperties
        <3>2. Len(a) = n /\ Len(a) + Len(b) = Len(buf)
            BY <1>2, <2>1, <2>2
        <3>. QED
            BY <3>1, <3>2
    <2>4. \A i \in 1..Len(buf) : (a \o b)[i] = buf[i]
        <3>. SUFFICES ASSUME NEW i \in 1..Len(buf) PROVE (a \o b)[i] = buf[i]
            OBVIOUS
        <3>1. CASE i <= n
            BY <1>2, <2>1, <2>3, <3>1
        <3>2. CASE n < i
            <4>1. i - n \in 1..(Len(buf) - n) /\ n + (i - n) = i
                BY <1>2, <3>2
            <4>. QED
                BY <1>2, <2>2, <2>3, <3>2, <4>1
        <3>3. i <= n \/ n < i
            BY <1>2
        <3>. QED
            BY <3>1, <3>2, <3>3
    <2>. QED
        BY <1>2, <2>1, <2>2, <2>3, <2>4, SeqEqual
<1>. HIDE DEF a, b
<1>4. out' \o buf' = out \o buf /\ out' \in Seq(Unit)
    <2>1. out' = out \o a /\ buf' = b
        BY <1>1 DEF a, b
    <2>2. (out \o a) \o b = out \o (a \o b)
        <3>1. out \in Seq(Unit) /\ a \in Seq(Unit) /\ b \in Seq(Unit)
            BY <1>2, <1>3
        <3>. QED
            BY <3>1, ConcatAssociative
    <2>3. out \o a \in Seq(Unit)
        BY <1>2, <1>3, ConcatProperties
    <2>. QED
        BY <1>3, <2>1, <2>2, <2>3
<1>. QED
    BY <1>1, <1>3, <1>4 DEF Total, io!ShortWrite, b

\* A write that fails in the flush before it.
LEMMA WriteFailsIO ==
    ASSUME IOInv, io!WriteFails
    PROVE  IOInv'
<1>1. /\ consumer' = "err" /\ io!ShortWrite
      /\ UNCHANGED <<input, next, producer, pending, ioDone, caller, errs>>
    BY DEF io!WriteFails
<1>2. /\ Total' = Total /\ out' \in Seq(Unit) /\ buf' \in Seq(Unit)
      /\ broken' \in BOOLEAN
    BY <1>1, ShortWriteIO DEF IOInv
<1>3. IOTyped' /\ Passing' = Passing
    BY <1>1, <1>2 DEF IOInv, IOTyped, Passing, io!Unreadable
<1>4. Whole'
    BY <1>2, <1>3 DEF IOInv, Whole
<1>5. Ranging' /\ Unseen'
    BY <1>1 DEF IOInv, Ranging, Unseen
<1>. QED
    BY <1>3, <1>4, <1>5 DEF IOInv

\* The deferred flush.
LEMMA FlushIO ==
    ASSUME IOInv, io!Flush
    PROVE  IOInv'
<1>1. /\ consumer = "flush" /\ consumer' = "closed"
      /\ out' = out \o buf /\ buf' = << >>
      /\ UNCHANGED <<input, next, producer, pending, broken, ioDone, caller, errs>>
      /\ ~broken
    BY DEF io!Flush
<1>2. out \in Seq(Unit) /\ buf \in Seq(Unit) /\ out \o buf \in Seq(Unit)
    BY ConcatProperties DEF IOInv, IOTyped
<1>3. out' \o buf' = out \o buf
    BY <1>1, <1>2, ConcatEmptySeq
<1>4. Total' = Total
    BY <1>1, <1>3 DEF Total
<1>5. IOTyped' /\ Passing' = Passing
    BY <1>1, <1>2 DEF IOInv, IOTyped, Passing, io!Unreadable
<1>6. Whole'
    BY <1>4, <1>5 DEF IOInv, Whole
<1>7. Ranging'
    BY <1>1 DEF Ranging
<1>8. Unseen'
    BY <1>1, <1>4 DEF IOInv, Unseen, OKUpTo
<1>. QED
    BY <1>5, <1>6, <1>7, <1>8 DEF IOInv

\* The deferred flush fails, or finds the sticky error.
LEMMA FlushFailsIO ==
    ASSUME IOInv, io!FlushFails
    PROVE  IOInv'
<1>1. /\ consumer' = "flushErr"
      /\ UNCHANGED <<input, next, producer, pending, ioDone, caller, errs>>
      /\ io!ShortWrite \/ UNCHANGED <<buf, broken, out>>
    BY DEF io!FlushFails
<1>2. /\ Total' = Total /\ out' \in Seq(Unit) /\ buf' \in Seq(Unit)
      /\ broken' \in BOOLEAN
    BY <1>1, ShortWriteIO DEF IOInv, Total, IOTyped
<1>3. IOTyped' /\ Passing' = Passing
    BY <1>1, <1>2 DEF IOInv, IOTyped, Passing, io!Unreadable
<1>4. Whole'
    BY <1>2, <1>3 DEF IOInv, Whole
<1>5. Ranging' /\ Unseen'
    BY <1>1 DEF IOInv, Ranging, Unseen
<1>. QED
    BY <1>3, <1>4, <1>5 DEF IOInv

\* An error received is seen.
LEMMA ReceiveIO ==
    ASSUME IOInv, NEW err \in {"read", "write"}, io!Receive(err)
    PROVE  errs' \in Seq({"read", "write"}) /\ errs' # << >>
<1>1. errs' = Append(errs, err) /\ errs \in Seq({"read", "write"})
    BY DEF io!Receive, IOInv, IOTyped
<1>2. Len(errs') = Len(errs) + 1 /\ Len(errs) \in Nat
    BY <1>1
<1>. QED
    BY <1>1, <1>2

\* Every step of the pipe preserves its invariant.
LEMMA IONext ==
    ASSUME IOInv, io!Next \/ UNCHANGED ioVars
    PROVE  IOInv'
<1>1. ASSUME NEW err \in {"read", "write"}, io!Receive(err),
             UNCHANGED <<input, next, out, buf, pending, broken>>,
             consumer' = consumer \/ consumer' \in {"flush", "closed"}
      PROVE  IOInv'
    <2>1. errs' \in Seq({"read", "write"}) /\ errs' # << >>
        BY <1>1, ReceiveIO
    <2>2. Ranging'
        BY <1>1 DEF IOInv, Ranging, Total, OKUpTo
    <2>3. broken' \in BOOLEAN /\ ioDone' \in BOOLEAN
        BY <1>1, ResInputsAssumption DEF IOInv, IOTyped, io!Receive
    <2>. QED
        BY <1>1, <2>1, <2>2, <2>3, Quiet, SeenNow
<1>2. CASE io!SendResCancelled \/ io!ReadErrCancelled \/ io!ConsumeErrCancelled
           \/ io!FlushErrCancelled \/ io!CallerReturns \/ io!CallerCancels
    <2>1. /\ UNCHANGED <<input, next, out, buf, pending, errs>>
          /\ ioDone' = TRUE /\ broken' = broken
          /\ consumer' = consumer \/ consumer' \in {"flush", "closed"}
        BY <1>2 DEF io!SendResCancelled, io!ReadErrCancelled, io!ConsumeErrCancelled,
                    io!FlushErrCancelled, io!CallerReturns, io!CallerCancels, IOInv, IOTyped
    <2>2. Ranging'
        BY <2>1 DEF IOInv, Ranging, Total, OKUpTo
    <2>3. errs' \in Seq({"read", "write"}) /\ broken' \in BOOLEAN /\ ioDone' \in BOOLEAN
        BY <2>1 DEF IOInv, IOTyped
    <2>. QED
        BY <2>1, <2>2, <2>3, Quiet, SeenNow
<1>3. CASE io!ReadFails \/ io!ProduceEnds \/ io!Written \/ io!RangeEnds
    <2>1. UNCHANGED <<input, next, out, buf, pending, broken, errs, ioDone>>
        BY <1>3 DEF io!ReadFails, io!ProduceEnds, io!Written, io!RangeEnds
    <2>2. Total' = Total /\ \A n : OKUpTo(n)' <=> OKUpTo(n)
        BY <2>1 DEF Total, OKUpTo
    <2>3. Ranging'
        BY <1>3, <2>1, <2>2 DEF IOInv, Ranging, io!ReadFails, io!ProduceEnds, io!Written,
                                io!RangeEnds
    <2>4. Unseen'
        <3>1. CASE io!ReadFails
            BY <2>1, <2>2, <3>1 DEF IOInv, Unseen, io!ReadFails, io!Reading
        <3>2. CASE io!ProduceEnds
            <4>1. next = Len(input.recs) + 1
                BY <3>2, InputFacts DEF IOInv, IOTyped, io!ProduceEnds
            <4>. QED
                BY <2>1, <2>2, <3>2, <4>1 DEF IOInv, Unseen, io!ProduceEnds
        <3>3. CASE io!Written
            BY <2>1, <2>2, <3>3 DEF IOInv, Unseen, io!Written
        <3>4. CASE io!RangeEnds
            BY <2>1, <2>2, <3>4 DEF IOInv, Ranging, Unseen, io!RangeEnds
        <3>. QED
            BY <1>3, <3>1, <3>2, <3>3, <3>4
    <2>5. errs' \in Seq({"read", "write"}) /\ broken' \in BOOLEAN /\ ioDone' \in BOOLEAN
        BY <2>1 DEF IOInv, IOTyped
    <2>. QED
        BY <2>1, <2>3, <2>4, <2>5, Quiet
<1>4. CASE UNCHANGED ioVars
    <2>1. Ranging' /\ Unseen'
        BY <1>4 DEF ioVars, IOInv, Ranging, Unseen, Total, OKUpTo
    <2>2. /\ errs' \in Seq({"read", "write"}) /\ broken' \in BOOLEAN /\ ioDone' \in BOOLEAN
          /\ UNCHANGED <<input, next, out, buf, pending>>
        BY <1>4 DEF ioVars, IOInv, IOTyped
    <2>. QED
        BY <2>1, <2>2, Quiet
<1>5. CASE io!ReadErr \/ io!ConsumeErr \/ io!FlushErr
    BY <1>1, <1>5 DEF io!ReadErr, io!ConsumeErr, io!FlushErr
<1>6. CASE io!Done
    BY <1>4, <1>6 DEF io!Done, io!vars, ioVars
<1>. QED
    BY <1>2, <1>3, <1>4, <1>5, <1>6, SendResIO, WriteIO, WriteFailsIO, FlushIO, FlushFailsIO
    DEF io!Next, io!Produce, io!Consume

\* The pipe starts in its invariant.
LEMMA IOInit == io!Init => IOInv
<1>. SUFFICES ASSUME io!Init PROVE IOInv
    OBVIOUS
<1>1. /\ input \in ResInputs /\ next = 1 /\ producer = "read" /\ consumer = "range"
      /\ pending = << >> /\ buf = << >> /\ broken = FALSE /\ out = << >> /\ errs = << >>
      /\ ioDone = FALSE
    BY DEF io!Init
<1>2. IOTyped
    <2>1. 1 \in 1..(Len(input.recs) + 1)
        BY <1>1, InputFacts
    <2>2. \A S : << >> \in Seq(S)
        BY EmptySeq
    <2>. QED
        BY <1>1, <2>1, <2>2 DEF IOTyped
<1>3. Total = << >> /\ Enc(0) = << >>
    <2>1. \A i : i \notin 1..(2 * 0)
        OBVIOUS
    <2>. QED
        BY <1>1, <2>1 DEF Total, Enc
<1>4. Ranging
    BY <1>1, <1>3 DEF Ranging, OKUpTo
<1>5. Whole
    BY <1>1, <1>2, <1>4, RangingWhole DEF Ranging
<1>6. Unseen
    BY <1>1 DEF Unseen
<1>. QED
    BY <1>2, <1>4, <1>5, <1>6 DEF IOInv

\* What comes first of a sequence of which this comes first.
LEMMA PrefixOf ==
    ASSUME NEW s \in Seq(Unit), NEW t \in Seq(Unit), NEW n \in Nat, NEW m \in Nat,
           s \o t = Enc(n), n <= m
    PROVE  io!IsPrefix(s, Enc(m))
<1>1. /\ Len(s \o t) = Len(s) + Len(t) /\ Len(s) \in Nat /\ Len(t) \in Nat
      /\ \A i \in 1..Len(s) : (s \o t)[i] = s[i]
    BY ConcatProperties, LenProperties
<1>2. Len(s) <= 2 * n /\ 2 * n <= 2 * m /\ Len(Enc(m)) = 2 * m
    <2>1. Len(Enc(n)) = 2 * n /\ Len(Enc(m)) = 2 * m
        BY EncFacts
    <2>2. Len(s) + Len(t) = 2 * n
        BY <1>1, <2>1
    <2>. QED
        BY <1>1, <2>1, <2>2
<1>3. \A i \in 1..Len(s) : s[i] = Enc(m)[i]
    <2>. SUFFICES ASSUME NEW i \in 1..Len(s) PROVE s[i] = Enc(m)[i]
        OBVIOUS
    <2>1. i \in 1..(2 * n) /\ i \in 1..(2 * m)
        BY <1>1, <1>2
    <2>2. Enc(n)[i] = Enc(m)[i]
        BY <2>1 DEF Enc
    <2>. QED
        BY <1>1, <2>2
<1>. DEFINE a == SubSeq(s, 1, Len(s))
            b == SubSeq(Enc(m), 1, Len(s))
<1>4. a = s
    BY SubSeqFull
<1>5. b \in Seq(Unit) /\ Len(b) = Len(s) /\ \A i \in 1..Len(s) : b[i] = Enc(m)[i]
    <2>1. Enc(m) \in Seq(Unit)
        BY EncFacts
    <2>2. \A i \in 1..Len(s) : Enc(m)[i] \in Unit
        BY <1>1, <1>2, <2>1, ElementOfSeq
    <2>3. /\ b \in Seq(Unit) /\ Len(b) = (IF 1 <= Len(s) THEN Len(s) - 1 + 1 ELSE 0)
          /\ \A i \in 1..(Len(s) - 1 + 1) : b[i] = Enc(m)[1 + i - 1]
        BY <1>1, <2>2, SubSeqProperties
    <2>. HIDE DEF b
    <2>. QED
        BY <1>1, <2>3
<1>. HIDE DEF a, b
<1>6. b = s
    BY <1>3, <1>5, SeqEqual
<1>. QED
    BY <1>1, <1>2, <1>4, <1>6 DEF io!IsPrefix, a, b

\* The invariant of the pipe implies the property.
LEMMA IORight == IOInv => io!WrittenRight
<1>. SUFFICES ASSUME IOInv PROVE io!WrittenRight
    OBVIOUS
<1>1. /\ out \in Seq(Unit) /\ buf \in Seq(Unit) /\ pending \in Seq(Unit)
      /\ input \in ResInputs /\ Passing \in Nat
    BY PassingFacts, InputFacts DEF IOInv, IOTyped
<1>2. io!IsPrefix(out, io!Encoding)
    <2>1. PICK n \in 0..Passing : Total = Enc(n)
        BY DEF IOInv, Whole
    <2>2. Total = out \o (buf \o pending)
        BY <1>1, ConcatAssociative DEF Total
    <2>3. buf \o pending \in Seq(Unit)
        BY <1>1, ConcatProperties
    <2>4. n \in Nat /\ n <= Passing
        BY <1>1, <2>1
    <2>5. io!IsPrefix(out, Enc(Passing))
        BY <1>1, <2>1, <2>2, <2>3, <2>4, PrefixOf
    <2>. QED
        BY <1>1, <2>5, PassingFacts
<1>3. ASSUME producer = "closed", consumer = "closed", errs = << >>, ~ioDone
      PROVE  out = io!Encoding /\ io!Unreadable = {}
    <2>1. /\ next = Len(input.recs) + 1 /\ pending = << >> /\ buf = << >>
          /\ OKUpTo(next - 1) /\ Total = Enc(next - 1)
        BY <1>3 DEF IOInv, Unseen
    <2>2. next - 1 = Len(input.recs)
        BY <1>1, <2>1, InputFacts
    <2>3. Total = out
        <3>1. out \o << >> = out
            BY <1>1, ConcatEmptySeq
        <3>. QED
            BY <2>1, <3>1 DEF Total
    <2>. QED
        BY <1>1, <2>1, <2>2, <2>3, PassingFacts
<1>. QED
    BY <1>2, <1>3 DEF io!WrittenRight, io!BothClosed
-----------------------------------------------------------------------------
(* path_emitter.go: what a visit is *)

Quals == Seq([word : STRING, dpi : BOOLEAN, num : Int])
Says(q) == emitter!R!ParseDensity(q)
Telling(quals) == {i \in 1..Len(quals) : Says(quals[i]) # 0}

\* The density of a path is what its first qualifier that tells one says.
LEMMA DensityIs ==
    ASSUME NEW quals
    PROVE  emitter!R!Density(quals) =
             LET at1 == IF Telling(quals) # {} THEN emitter!R!Min(Telling(quals)) ELSE 0
             IN IF at1 = 0 THEN 0 ELSE Says(quals[at1])
BY DEF emitter!R!Density, emitter!R!SelectInSeq, Says, emitter!R!UnspecifiedDensity, Telling

Visits(d) == DOMAIN Tree[d]
PathOf(k, d) == Tree[d][k].path

\* A visit as TreeAssumption has it.
LEMMA TreeFacts ==
    ASSUME NEW d \in Dirs
    PROVE  /\ Len(Tree[d]) \in Nat /\ Visits(d) = 1..Len(Tree[d])
           /\ \A k \in Visits(d) :
                /\ Tree[d][k].what \in {"file", "dir", "error"}
                /\ PathOf(k, d).dot \in BOOLEAN /\ PathOf(k, d).type \in STRING
                /\ PathOf(k, d).quals \in Quals
           /\ \A k \in Visits(d) :
                Tree[d][k].what = "file" => Tree[d][k].dir \in Tree[d][k].under
           /\ \A i, j, k \in Visits(d) :
                i < j /\ j < k => Tree[d][i].under \cap Tree[d][k].under \subseteq Tree[d][j].under
           /\ \A j, k \in Visits(d) :
                Tree[d][k].dir \in Tree[d][j].under => Tree[d][k].under \subseteq Tree[d][j].under
<1>. DEFINE V == [what : {"file", "dir", "error"},
                  path : [dot : BOOLEAN, type : STRING, quals : Quals],
                  dir : STRING, under : SUBSET STRING]
<1>1. Tree[d] \in Seq(V)
    BY TreeAssumption DEF Quals
<1>. DEFINE t == Tree[d]
<1>. HIDE DEF V, t
<1>3. Len(t) \in Nat /\ DOMAIN t = 1..Len(t) /\ \A k \in 1..Len(t) : t[k] \in V
    BY <1>1 DEF t
<1>2. \A k \in Visits(d) : Tree[d][k] \in V
    BY <1>3 DEF Visits, t
<1>. USE DEF V, t
<1>4. \A k \in Visits(d) :
                /\ Tree[d][k].what \in {"file", "dir", "error"}
                /\ PathOf(k, d).dot \in BOOLEAN /\ PathOf(k, d).type \in STRING
                /\ PathOf(k, d).quals \in Quals
    BY <1>2 DEF PathOf
<1>. QED
    BY <1>3, <1>4, TreeAssumption DEF Visits

\* What fits in the uint16 of a density.
Fits == 0..65535

\* Zero does.
LEMMA FitsFacts == Fits \subseteq Nat /\ 0 \in Fits
BY DEF Fits

\* What ParseDensity says of a qualifier, in the words of Malformed.
LEMMA SaysFacts ==
    ASSUME NEW x \in [word : STRING, dpi : BOOLEAN, num : Int],
           x.word \in DOMAIN emitter!R!strToDensity => x.dpi /\ x.num = -1
    PROVE  /\ (Says(x) = -1) <=> (/\ x.dpi /\ x.word \notin DOMAIN emitter!R!strToDensity
                                 /\ x.num \notin Fits)
           /\ (Says(x) = 0) <=> (~x.dpi \/ x.num = 0)
<1>1. \A w \in DOMAIN emitter!R!strToDensity : 0 < emitter!R!strToDensity[w]
    BY DEF emitter!R!strToDensity
<1>2. Says(x) = IF x.word \in DOMAIN emitter!R!strToDensity THEN emitter!R!strToDensity[x.word]
                ELSE IF ~x.dpi THEN 0 ELSE IF x.num \in Fits THEN x.num ELSE -1
    BY DEF Says, emitter!R!ParseDensity, emitter!R!UnspecifiedDensity, emitter!R!Unparsable, Fits
<1>3. CASE x.word \in DOMAIN emitter!R!strToDensity
    <2>1. 0 < Says(x)
        BY <1>1, <1>2, <1>3
    <2>. QED
        BY <1>3, <2>1
<1>4. CASE x.word \notin DOMAIN emitter!R!strToDensity
    <2>1. Says(x) = IF ~x.dpi THEN 0 ELSE IF x.num \in Fits THEN x.num ELSE -1
        BY <1>2, <1>4
    <2>. QED
        BY <1>4, <2>1, FitsFacts
<1>. QED
    BY <1>3, <1>4

\* A qualifier as TreeAssumption and QualifierAssumption have it.
LEMMA QualFacts ==
    ASSUME NEW d \in Dirs, NEW k \in Visits(d), NEW j \in DOMAIN PathOf(k, d).quals
    PROVE  LET q == PathOf(k, d).quals[j] IN
           /\ q \in [word : STRING, dpi : BOOLEAN, num : Int]
           /\ q.word \in DOMAIN emitter!R!strToDensity => q.dpi /\ q.num = -1
<1>. DEFINE s == PathOf(k, d).quals
            V == [word : STRING, dpi : BOOLEAN, num : Int]
<1>1. s \in Seq(V)
    BY TreeFacts DEF Quals
<1>2. s[j] \in V
    <2>. HIDE DEF V, s
    <2>1. DOMAIN s = 1..Len(s) /\ \A i \in 1..Len(s) : s[i] \in V
        BY <1>1
    <2>. QED
        BY <2>1 DEF s
<1>. QED
    BY <1>2, QualifierAssumption DEF PathOf, Visits

\* The loop of ParsePath over the qualifiers fails for the malformed paths.
LEMMA DensityBad ==
    ASSUME NEW d \in Dirs, NEW k \in Visits(d)
    PROVE  (emitter!R!Density(PathOf(k, d).quals) = -1) <=> emitter!Malformed(k, d)
<1>. DEFINE q == PathOf(k, d).quals
            T == Telling(q)
<1>0. q \in Quals
    BY TreeFacts
<1>1. Len(q) \in Nat /\ DOMAIN q = 1..Len(q)
    BY <1>0 DEF Quals
<1>2. T \subseteq Nat /\ T = {i \in DOMAIN q : Says(q[i]) # 0}
    BY <1>1 DEF Telling
<1>3. emitter!Malformed(k, d) <=>
        \E j \in DOMAIN q : Says(q[j]) = -1 /\ \A i \in 1..(j - 1) : Says(q[i]) = 0
    <2>1. \A j \in DOMAIN q : \A i \in 1..(j - 1) : i \in DOMAIN q
        BY <1>1
    <2>2. \A j \in DOMAIN q :
            /\ (Says(q[j]) = -1) <=> (/\ q[j].dpi
                                      /\ q[j].word \notin DOMAIN emitter!R!strToDensity
                                      /\ q[j].num \notin Fits)
            /\ (Says(q[j]) = 0) <=> (~q[j].dpi \/ q[j].num = 0)
        BY QualFacts, SaysFacts
    <2>3. emitter!Malformed(k, d) <=>
            \E j \in DOMAIN q :
                /\ q[j].dpi /\ q[j].word \notin DOMAIN emitter!R!strToDensity
                /\ q[j].num \notin Fits
                /\ \A i \in 1..(j - 1) : ~q[i].dpi \/ q[i].num = 0
        BY DEF emitter!Malformed, PathOf, Fits
    <2>. HIDE DEF q
    <2>. QED
        BY <2>1, <2>2, <2>3
<1>4. emitter!R!Density(q) =
        LET at1 == IF T # {} THEN emitter!R!Min(T) ELSE 0
        IN IF at1 = 0 THEN 0 ELSE Says(q[at1])
    BY DensityIs
<1>. HIDE DEF T, q
<1>5. CASE T = {}
    <2>1. emitter!R!Density(q) = 0
        BY <1>4, <1>5
    <2>2. \A j \in DOMAIN q : Says(q[j]) = 0
        BY <1>2, <1>5
    <2>. QED
        BY <1>3, <2>1, <2>2 DEF q
<1>6. CASE T # {}
    <2>. DEFINE m == emitter!R!Min(T)
    <2>1. m \in T /\ \A y \in T : m <= y
        <3>1. \E x \in T : \A y \in T : x <= y
            BY <1>2, <1>6, LeastOf
        <3>. QED
            BY <3>1 DEF emitter!R!Min
    <2>2. emitter!R!Density(q) = IF m = 0 THEN 0 ELSE Says(q[m])
        BY <1>4, <1>6
    <2>. HIDE DEF m
    <2>3. m \in 1..Len(q) /\ Says(q[m]) # 0
        BY <1>1, <1>2, <2>1
    <2>4. emitter!R!Density(q) = Says(q[m])
        BY <2>2, <2>3
    <2>5. \A i \in 1..(m - 1) : Says(q[i]) = 0
        BY <1>1, <1>2, <2>1, <2>3
    <2>6. ASSUME NEW j \in DOMAIN q, Says(q[j]) = -1, \A i \in 1..(j - 1) : Says(q[i]) = 0
          PROVE  Says(q[m]) = -1
        <3>1. j \in T
            BY <1>2, <2>6
        <3>2. m <= j /\ ~(m \in 1..(j - 1))
            BY <2>1, <2>3, <2>6, <3>1
        <3>3. m = j
            BY <1>1, <2>3, <3>2
        <3>. QED
            BY <2>6, <3>3
    <2>7. m \in DOMAIN q
        BY <1>1, <2>3
    <2>8. emitter!Malformed(k, d) <=> Says(q[m]) = -1
        BY <1>3, <2>5, <2>6, <2>7
    <2>. QED
        BY <2>4, <2>8 DEF q
<1>. QED
    BY <1>5, <1>6 DEF q

\* IsValueOrType and Kind agree on what is no resource directory.
LEMMA KindKnown ==
    ASSUME NEW t
    PROVE  emitter!R!IsValueOrType(t) <=> emitter!R!Kind(t) # "Unknown"
<1>1. emitter!R!IsValueOrType(t) <=>
        \/ t \in emitter!R!ValueTypes \cup {"values"}
        \/ t \in emitter!R!NonValueTypes \/ t = "color"
    BY DEF emitter!R!IsValueOrType, emitter!R!IsType, emitter!R!AllTypes
<1>2. CASE t \in emitter!R!ValueTypes \cup {"values"}
    <2>1. t \notin emitter!R!NonValueTypes /\ t # "color"
        BY <1>2 DEF emitter!R!ValueTypes, emitter!R!NonValueTypes
    <2>2. emitter!R!Kind(t) = "Value"
        BY <1>2, <2>1 DEF emitter!R!Kind
    <2>. QED
        BY <1>1, <1>2, <2>2
<1>3. CASE t \in emitter!R!NonValueTypes
    <2>1. t \notin emitter!R!ValueTypes \cup {"values"} /\ t # "color"
        BY <1>3 DEF emitter!R!ValueTypes, emitter!R!NonValueTypes
    <2>2. emitter!R!Kind(t) = "NonValue"
        BY <1>3, <2>1 DEF emitter!R!Kind
    <2>. QED
        BY <1>1, <1>3, <2>2
<1>4. CASE t = "color"
    <2>1. t \notin emitter!R!ValueTypes \cup {"values"} /\ t \notin emitter!R!NonValueTypes
        BY <1>4 DEF emitter!R!ValueTypes, emitter!R!NonValueTypes
    <2>2. emitter!R!Kind(t) = "Both"
        BY <1>4, <2>1 DEF emitter!R!Kind
    <2>. QED
        BY <1>1, <1>4, <2>2
<1>5. CASE ~(\/ t \in emitter!R!ValueTypes \cup {"values"}
             \/ t \in emitter!R!NonValueTypes \/ t = "color")
    <2>1. emitter!R!Kind(t) = "Unknown"
        BY <1>5 DEF emitter!R!Kind
    <2>. QED
        BY <1>1, <1>5, <2>1
<1>. QED
    BY <1>2, <1>3, <1>4, <1>5

\* What emit makes of a visit is what the properties say of it.
LEMMA FoundIs ==
    ASSUME NEW d \in Dirs, at[d] \in Visits(d)
    PROVE  /\ emitter!Found(d) \in {"dir", "skip", "not", "info", "bad", "error"}
           /\ emitter!Found(d) = "info" <=> at[d] \in emitter!Good(d)
           /\ emitter!Found(d) \in {"bad", "error"} <=> at[d] \in emitter!Bad(d)
           /\ emitter!Found(d) = "error" <=> at[d] \in emitter!Failing(d)
           /\ emitter!Found(d) \in {"info", "bad"} => Tree[d][at[d]].what = "file"
<1>. DEFINE k == at[d]
            p == PathOf(k, d)
            w == Tree[d][k].what
<1>1. /\ emitter!Failing(d) = {j \in Visits(d) : Tree[d][j].what = "error"}
      /\ k \in emitter!ResFiles(d) <=> /\ w = "file" /\ ~p.dot
                                       /\ emitter!R!IsValueOrType(p.type)
    BY KindKnown DEF emitter!Failing, emitter!ResFiles, Visits, PathOf
<1>2. /\ k \in emitter!Good(d) <=> k \in emitter!ResFiles(d) /\ ~emitter!Malformed(k, d)
      /\ k \in emitter!Bad(d) <=> \/ k \in emitter!ResFiles(d) /\ emitter!Malformed(k, d)
                                  \/ k \in emitter!Failing(d)
    BY DEF emitter!Good, emitter!Bad
<1>3. w \in {"file", "dir", "error"} /\ p.dot \in BOOLEAN
    BY TreeFacts
<1>4. emitter!Malformed(k, d) <=> emitter!R!Density(p.quals) = -1
    BY DensityBad
<1>5. emitter!Found(d) = IF w = "file" THEN emitter!R!ParsePath(p).is ELSE w
    BY DEF emitter!Found, emitter!Visit, PathOf
<1>6. emitter!R!ParsePath(p).is =
        IF p.dot THEN "skip" ELSE IF ~emitter!R!IsValueOrType(p.type) THEN "not"
        ELSE IF emitter!R!Density(p.quals) = -1 THEN "bad" ELSE "info"
    BY DEF emitter!R!ParsePath, emitter!R!Unparsable
<1>7. k \in emitter!Failing(d) <=> w = "error"
    BY <1>1
<1>. HIDE DEF k, p, w
<1>. QED
    BY <1>1, <1>2, <1>3, <1>4, <1>5, <1>6, <1>7 DEF k, w
-----------------------------------------------------------------------------
(* path_emitter.go: one stream of one directory *)

\* What a stream took of an input: what the receiver got and what is held.
Taken(h, s) == emitter!ToSet(s) \cup ({h} \ {None})
Rising(s) == \A i, j \in DOMAIN s : i < j => s[i] < s[j]
\* The stream of one input, of which the visits P are passed.
Line(f, h, s, P) ==
    /\ f \in {"range", "send", "done"} /\ h \in Nat \cup {None} /\ s \in Seq(Nat)
    /\ f = "send" => h # None
    /\ f # "send" => h = None
    /\ Taken(h, s) \subseteq P
    /\ h # None => \A i \in DOMAIN s : s[i] < h
    /\ Rising(s)

\* A stream begins with nothing taken.
LEMMA LineStarts ==
    ASSUME NEW P
    PROVE  Line("range", None, << >>, P) /\ Taken(None, << >>) = {}
<1>1. emitter!ToSet(<< >>) = {}
    BY DEF emitter!ToSet
<1>. QED
    BY <1>1 DEF Line, Taken, Rising

\* An element taken is held.
LEMMA Takes ==
    ASSUME NEW s, NEW m \in Nat
    PROVE  Taken(m, s) = Taken(None, s) \cup {m}
BY VisitsAssumption DEF Taken

\* A forwarder takes a visit behind all that it took before.
LEMMA LineTakes ==
    ASSUME NEW h, NEW s, NEW P, NEW m \in Nat, Line("range", h, s, P), \A k \in P : k < m
    PROVE  Line("send", m, s, P \cup {m})
<1>1. h = None /\ m # None
    BY VisitsAssumption DEF Line
<1>2. Taken(m, s) = Taken(None, s) \cup {m}
    BY Takes
<1>3. \A i \in DOMAIN s : s[i] < m
    <2>1. \A i \in DOMAIN s : s[i] \in Taken(h, s)
        BY DEF Taken, emitter!ToSet
    <2>. QED
        BY <2>1 DEF Line
<1>4. Taken(m, s) \subseteq P \cup {m}
    BY <1>1, <1>2 DEF Line
<1>. QED
    BY <1>1, <1>3, <1>4 DEF Line

\* It hands the visit on: the receiver has it now.
LEMMA LineHands ==
    ASSUME NEW h, NEW s, NEW P, Line("send", h, s, P)
    PROVE  Line("range", None, Append(s, h), P) /\ Taken(None, Append(s, h)) = Taken(h, s)
<1>. DEFINE t == Append(s, h)
<1>1. h \in Nat /\ s \in Seq(Nat) /\ h # None
    BY VisitsAssumption DEF Line
<1>2. /\ t \in Seq(Nat) /\ Len(s) \in Nat /\ Len(t) = Len(s) + 1 /\ t[Len(t)] = h
      /\ \A i \in 1..Len(s) : t[i] = s[i]
      /\ DOMAIN s = 1..Len(s) /\ DOMAIN t = 1..(Len(s) + 1)
    BY <1>1
<1>. HIDE DEF t
<1>3. emitter!ToSet(t) = emitter!ToSet(s) \cup {h}
    <2>1. ASSUME NEW x \in emitter!ToSet(t) PROVE x \in emitter!ToSet(s) \cup {h}
        <3>1. PICK i \in DOMAIN t : x = t[i]
            BY <2>1 DEF emitter!ToSet
        <3>2. i \in 1..Len(s) \/ i = Len(t)
            BY <1>2
        <3>. QED
            BY <1>2, <3>1, <3>2 DEF emitter!ToSet
    <2>2. ASSUME NEW x \in emitter!ToSet(s) PROVE x \in emitter!ToSet(t)
        <3>1. PICK i \in DOMAIN s : x = s[i]
            BY <2>2 DEF emitter!ToSet
        <3>2. i \in DOMAIN t /\ t[i] = x
            BY <1>2, <3>1
        <3>. QED
            BY <3>2 DEF emitter!ToSet
    <2>3. h \in emitter!ToSet(t)
        <3>1. Len(t) \in DOMAIN t
            BY <1>2
        <3>. QED
            BY <1>2, <3>1 DEF emitter!ToSet
    <2>. QED
        BY <2>1, <2>2, <2>3
<1>4. Taken(None, t) = Taken(h, s)
    BY <1>1, <1>3 DEF Taken
<1>5. Rising(t)
    <2>1. Rising(s) /\ \A i \in DOMAIN s : s[i] < h
        BY <1>1 DEF Line
    <2>2. ASSUME NEW i \in DOMAIN t, NEW j \in DOMAIN t, i < j PROVE t[i] < t[j]
        <3>1. CASE j = Len(t)
            <4>1. i \in DOMAIN s
                BY <1>2, <2>2, <3>1
            <4>. QED
                BY <1>2, <2>1, <3>1, <4>1
        <3>2. CASE j # Len(t)
            <4>1. i \in DOMAIN s /\ j \in DOMAIN s
                BY <1>2, <2>2, <3>2
            <4>2. s[i] < s[j]
                BY <2>1, <2>2, <4>1 DEF Rising
            <4>. QED
                BY <1>2, <4>1, <4>2
        <3>. QED
            BY <3>1, <3>2
    <2>. QED
        BY <2>2 DEF Rising
<1>6. Taken(None, t) \subseteq P
    BY <1>4 DEF Line
<1>. QED
    BY <1>2, <1>4, <1>5, <1>6 DEF Line, t

\* It gives the visit up, the last of what it took.
LEMMA LineGivesUp ==
    ASSUME NEW h, NEW s, NEW P, Line("send", h, s, P)
    PROVE  /\ Line("done", None, s, P)
           /\ Taken(None, s) \subseteq Taken(h, s)
           /\ \A k \in Taken(h, s) \ Taken(None, s) : \A j \in Taken(None, s) : j < k
<1>1. Taken(None, s) = emitter!ToSet(s) /\ Taken(h, s) = emitter!ToSet(s) \cup {h} /\ h # None
    BY DEF Taken, Line
<1>2. \A j \in emitter!ToSet(s) : j < h
    BY <1>1 DEF Line, emitter!ToSet
<1>3. Taken(None, s) \subseteq P
    BY <1>1 DEF Line
<1>. QED
    BY <1>1, <1>2, <1>3 DEF Line

\* It returns with nothing held.
LEMMA LineFinishes ==
    ASSUME NEW h, NEW s, NEW P, Line("range", h, s, P)
    PROVE  Line("done", h, s, P)
BY DEF Line

\* The walk goes on and the stream stays.
LEMMA LineGrows ==
    ASSUME NEW f, NEW h, NEW s, NEW P, NEW Q, Line(f, h, s, P), P \subseteq Q
    PROVE  Line(f, h, s, Q)
BY DEF Line

\* Between a visit and a later one of the same directory nothing was left out.
Kept(d, S) == \A j \in S : \A k \in emitter!Good(d) :
    k < j /\ Tree[d][k].dir \in Tree[d][j].under => k \in S
\* The walk is out of the directories of the files it left out before visit a.
Out(d, S, a) == \A k \in emitter!Good(d) : k < a /\ k \notin S =>
    \A j \in Visits(d) : a <= j => Tree[d][k].dir \notin Tree[d][j].under

GoodUpTo(d, a) == {k \in emitter!Good(d) : k < a}

\* Files are sent on one stream and errors on the other.
LEMMA GoodFacts ==
    ASSUME NEW d \in Dirs
    PROVE  /\ emitter!Good(d) \subseteq Visits(d) /\ emitter!Bad(d) \subseteq Visits(d)
           /\ emitter!Failing(d) \subseteq emitter!Bad(d)
           /\ emitter!Good(d) \cap emitter!Bad(d) = {}
           /\ \A k \in emitter!Good(d) : Tree[d][k].what = "file"
           /\ Visits(d) \subseteq Nat
<1>1. Visits(d) \subseteq Nat
    BY TreeFacts
<1>2. emitter!ResFiles(d) \subseteq {k \in Visits(d) : Tree[d][k].what = "file"}
    BY DEF emitter!ResFiles, Visits
<1>3. emitter!Failing(d) = {k \in Visits(d) : Tree[d][k].what = "error"}
    BY DEF emitter!Failing, Visits
<1>. QED
    BY <1>1, <1>2, <1>3 DEF emitter!Good, emitter!Bad

\* A file taken leaves no gap in its directory, for the walk is out of all others.
LEMMA TakeKeeps ==
    ASSUME NEW d \in Dirs, NEW a \in emitter!Good(d), NEW S \in SUBSET Nat,
           Kept(d, S), Out(d, S, a)
    PROVE  Kept(d, S \cup {a}) /\ Out(d, S \cup {a}, a + 1)
<1>1. a \in Visits(d) /\ \A k \in Visits(d) : k \in Nat
    BY GoodFacts
<1>2. Kept(d, S \cup {a})
    <2>1. ASSUME NEW k \in emitter!Good(d), k < a, Tree[d][k].dir \in Tree[d][a].under
          PROVE  k \in S
        BY <1>1, <2>1 DEF Out
    <2>. QED
        BY <2>1 DEF Kept
<1>3. Out(d, S \cup {a}, a + 1)
    <2>1. ASSUME NEW k \in emitter!Good(d), k < a + 1, k \notin S \cup {a},
                 NEW j \in Visits(d), a + 1 <= j
          PROVE  Tree[d][k].dir \notin Tree[d][j].under
        <3>1. k \in Nat /\ a \in Nat /\ j \in Nat
            BY <1>1, GoodFacts
        <3>2. k < a /\ a <= j /\ k \notin S
            BY <2>1, <3>1
        <3>. QED
            BY <3>2 DEF Out
    <2>. QED
        BY <2>1 DEF Out
<1>. QED
    BY <1>2, <1>3

\* Nor does a visit that is no file to send.
LEMMA PassKeeps ==
    ASSUME NEW d \in Dirs, NEW a \in Visits(d), a \notin emitter!Good(d), NEW S, Out(d, S, a)
    PROVE  Out(d, S, a + 1) /\ GoodUpTo(d, a + 1) = GoodUpTo(d, a)
<1>1. \A k \in Visits(d) : k \in Nat
    BY GoodFacts
<1>2. \A k \in emitter!Good(d) : (k < a + 1) <=> (k < a)
    BY <1>1, GoodFacts
<1>3. \A j \in Visits(d) : a + 1 <= j => a <= j
    BY <1>1
<1>. QED
    BY <1>2, <1>3 DEF Out, GoodUpTo

\* Behind a cancelled file the walk goes on where its directory ends.
After(d, a) == {k \in a..Len(Tree[d]) : Tree[d][a].dir \notin Tree[d][k].under}
Skipped(d, a) == IF After(d, a) = {} THEN Len(Tree[d]) + 1 ELSE emitter!Min(After(d, a))

\* The walk goes on where the file's directory ends, by the contiguity of TreeAssumption.
LEMMA SkipFacts ==
    ASSUME NEW d \in Dirs, NEW a \in Visits(d), Tree[d][a].what = "file"
    PROVE  /\ Skipped(d, a) \in (a + 1)..(Len(Tree[d]) + 1)
           /\ \A k \in Visits(d) : a <= k /\ k < Skipped(d, a) =>
                Tree[d][a].dir \in Tree[d][k].under
           /\ \A j \in Visits(d) : Skipped(d, a) <= j => Tree[d][a].dir \notin Tree[d][j].under
<1>. DEFINE T == After(d, a)
            n == Skipped(d, a)
            N == Len(Tree[d])
<1>1. N \in Nat /\ Visits(d) = 1..N /\ a \in 1..N
    BY TreeFacts
<1>2. T \subseteq Nat /\ T = {k \in a..N : Tree[d][a].dir \notin Tree[d][k].under}
    BY <1>1 DEF After
<1>3. Tree[d][a].dir \in Tree[d][a].under
    BY TreeFacts
<1>4. n = IF T = {} THEN N + 1 ELSE emitter!Min(T)
    BY DEF Skipped
<1>5. CASE T = {}
    <2>1. n = N + 1
        BY <1>4, <1>5
    <2>. HIDE DEF n
    <2>2. \A k \in a..N : Tree[d][a].dir \in Tree[d][k].under
        BY <1>2, <1>5
    <2>. QED
        BY <1>1, <2>1, <2>2 DEF n
<1>6. CASE T # {}
    <2>1. n \in T /\ \A y \in T : n <= y
        <3>1. \E x \in T : \A y \in T : x <= y
            <4>. HIDE DEF T
            <4>. QED
                BY <1>2, <1>6, LeastOf
        <3>2. n = CHOOSE x \in T : \A y \in T : x <= y
            BY <1>4, <1>6 DEF emitter!Min
        <3>. HIDE DEF n, T
        <3>. QED
            BY <3>1, <3>2
    <2>. HIDE DEF n, T
    <2>2. n \in a..N /\ Tree[d][a].dir \notin Tree[d][n].under
        BY <1>2, <2>1
    <2>3. n # a
        BY <1>3, <2>2
    <2>4. ASSUME NEW k \in Visits(d), a <= k, k < n PROVE Tree[d][a].dir \in Tree[d][k].under
        <3>1. k \in a..N /\ ~(n <= k)
            BY <1>1, <2>2, <2>4
        <3>2. k \notin T
            BY <2>1, <3>1
        <3>. QED
            BY <1>2, <3>1, <3>2
    <2>5. ASSUME NEW j \in Visits(d), n <= j PROVE Tree[d][a].dir \notin Tree[d][j].under
        <3>1. CASE j = n
            BY <2>2, <3>1
        <3>2. CASE n < j
            <4>1. Tree[d][a].under \cap Tree[d][j].under \subseteq Tree[d][n].under
                <5>1. a < n /\ n < j /\ n \in Visits(d)
                    BY <1>1, <2>2, <2>3, <3>2
                <5>. QED
                    BY <5>1, TreeFacts
            <4>. QED
                BY <1>3, <2>2, <4>1
        <3>3. j = n \/ n < j
            BY <1>1, <2>2, <2>5
        <3>. QED
            BY <3>1, <3>2, <3>3
    <2>6. n \in (a + 1)..(N + 1)
        BY <1>1, <2>2, <2>3
    <2>. QED
        BY <2>4, <2>5, <2>6 DEF n
<1>. QED
    BY <1>5, <1>6

\* Behind a file that was cancelled the walk is outside its directory, and outside those
\* of the files it skipped, which are below it.
LEMMA SkipKeeps ==
    ASSUME NEW d \in Dirs, NEW a \in Visits(d), Tree[d][a].what = "file", NEW S,
           Out(d, S, a)
    PROVE  Out(d, S, Skipped(d, a)) /\ GoodUpTo(d, a) \subseteq GoodUpTo(d, Skipped(d, a))
<1>. DEFINE n == Skipped(d, a)
<1>1. Len(Tree[d]) \in Nat /\ Visits(d) = 1..Len(Tree[d])
    BY TreeFacts
<1>2. n \in Nat /\ a < n /\ a \in Nat
    BY <1>1, SkipFacts
<1>3. /\ \A k \in Visits(d) : a <= k /\ k < n => Tree[d][a].dir \in Tree[d][k].under
      /\ \A j \in Visits(d) : n <= j => Tree[d][a].dir \notin Tree[d][j].under
    BY SkipFacts
<1>. HIDE DEF n
<1>4. ASSUME NEW k \in emitter!Good(d), k < n, k \notin S, NEW j \in Visits(d), n <= j
      PROVE  Tree[d][k].dir \notin Tree[d][j].under
    <2>1. k \in Visits(d) /\ k \in Nat /\ j \in Nat
        BY <1>1, GoodFacts
    <2>2. CASE k < a
        <3>1. a <= j
            BY <1>2, <1>4, <2>1
        <3>. QED
            BY <1>4, <2>2, <3>1 DEF Out
    <2>3. CASE a <= k
        <3>1. Tree[d][a].dir \in Tree[d][k].under /\ Tree[d][a].dir \notin Tree[d][j].under
            BY <1>3, <1>4, <2>1, <2>3
        <3>2. Tree[d][k].dir \in Tree[d][j].under => Tree[d][k].under \subseteq Tree[d][j].under
            BY <2>1, TreeFacts
        <3>. QED
            BY <3>1, <3>2
    <2>. QED
        BY <1>2, <2>1, <2>2, <2>3
<1>5. \A k \in emitter!Good(d) : k < a => k < n
    BY <1>1, <1>2, GoodFacts
<1>. QED
    BY <1>4, <1>5 DEF Out, GoodUpTo, n
-----------------------------------------------------------------------------
(* path_emitter.go: the invariant *)

PETyped ==
    /\ walk \in [Dirs -> {"walk", "failed", "returned"}] /\ at \in [Dirs -> Nat]
    /\ piFwd \in [Dirs -> {"range", "send", "done"}] /\ piHeld \in [Dirs -> Nat \cup {None}]
    /\ erFwd \in [Dirs -> {"range", "send", "done"}] /\ erHeld \in [Dirs -> Nat \cup {None}]
    /\ gotInfos \in [Dirs -> Seq(Nat)] /\ gotErrs \in [Dirs -> Seq(Nat)]
    /\ piClosed \in BOOLEAN /\ erClosed \in BOOLEAN /\ peDone \in BOOLEAN

\* Where the walk of d is.
Walks(d) ==
    /\ at[d] \in 1..(Len(Tree[d]) + 1)
    /\ walk[d] = "failed" => at[d] \in emitter!Failing(d)
    /\ walk[d] = "returned" => at[d] = Len(Tree[d]) + 1 \/ at[d] \in emitter!Failing(d)
    /\ peDone = FALSE => \A k \in emitter!Failing(d) : at[d] <= k

\* The path infos of d.
InfosOf(d) == Taken(piHeld[d], gotInfos[d])
InfoRight(d) ==
    /\ Line(piFwd[d], piHeld[d], gotInfos[d], GoodUpTo(d, at[d]))
    /\ Kept(d, InfosOf(d))
    /\ piFwd[d] # "done" => Out(d, InfosOf(d), at[d])
    /\ peDone = FALSE => GoodUpTo(d, at[d]) \subseteq InfosOf(d)
    /\ peDone = FALSE /\ piFwd[d] = "done" => walk[d] = "returned"
    /\ piClosed = TRUE => piFwd[d] = "done"

\* The errors of d: behind one of the file system the walk returns.
BadUpTo(d, a, w) == {k \in emitter!Bad(d) : k < a \/ (w = "returned" /\ k = a)}
ErrsOf(d) == Taken(erHeld[d], gotErrs[d])
ErrRight(d) ==
    /\ Line(erFwd[d], erHeld[d], gotErrs[d], BadUpTo(d, at[d], walk[d]))
    /\ peDone = FALSE => BadUpTo(d, at[d], walk[d]) \subseteq ErrsOf(d)
    /\ peDone = FALSE /\ erFwd[d] = "done" => walk[d] = "returned"
    /\ erClosed = TRUE => erFwd[d] = "done"

PEInv == PETyped /\ \A d \in Dirs : Walks(d) /\ InfoRight(d) /\ ErrRight(d)

\* The invariant says of each directory what Emitted says.
LEMMA WalkPassed ==
    ASSUME NEW d \in Dirs, PETyped, Walks(d), peDone = FALSE, walk[d] = "returned"
    PROVE  /\ emitter!Good(d) \cap emitter!Reached(d) = GoodUpTo(d, at[d])
           /\ emitter!Bad(d) \cap emitter!Reached(d) = BadUpTo(d, at[d], walk[d])
<1>1. /\ Len(Tree[d]) \in Nat /\ Visits(d) = 1..Len(Tree[d])
      /\ emitter!Failing(d) \subseteq Visits(d)
      /\ at[d] \in Nat
    BY TreeFacts, GoodFacts DEF Walks
<1>2. emitter!Reached(d) = {k \in Visits(d) : \A j \in emitter!Failing(d) : k <= j}
    BY DEF emitter!Reached, Visits
<1>3. \A k \in emitter!Failing(d) : at[d] <= k
    BY DEF Walks
<1>4. CASE at[d] \in emitter!Failing(d)
    <2>1. \A k \in Visits(d) : k \in emitter!Reached(d) <=> (k < at[d] \/ k = at[d])
        BY <1>1, <1>2, <1>3, <1>4
    <2>2. at[d] \in emitter!Bad(d) /\ at[d] \notin emitter!Good(d)
        BY <1>4, GoodFacts
    <2>. QED
        BY <2>1, <2>2, GoodFacts DEF GoodUpTo, BadUpTo
<1>5. CASE at[d] = Len(Tree[d]) + 1
    <2>1. emitter!Failing(d) = {}
        BY <1>1, <1>3, <1>5
    <2>2. \A k \in Visits(d) : k \in emitter!Reached(d) /\ k < at[d]
        BY <1>1, <1>2, <1>5, <2>1
    <2>. QED
        BY <1>2, <2>2, GoodFacts DEF GoodUpTo, BadUpTo
<1>. QED
    BY <1>4, <1>5 DEF Walks

\* What a rising stream that took all of P gave the receiver has no gap.
LEMMA LineUpTo ==
    ASSUME NEW f, NEW h, NEW s, NEW A, NEW P, Line(f, h, s, P), P \subseteq Taken(h, s),
           A \subseteq Nat, P \subseteq A, \A k \in A : \A m \in P : k < m => k \in P
    PROVE  emitter!UpTo(s, A)
<1>1. ASSUME NEW i \in DOMAIN s, NEW k \in A, k < s[i] PROVE k \in emitter!ToSet(s)
    <2>1. s[i] \in emitter!ToSet(s) /\ s[i] \in P /\ s[i] \in Nat
        BY DEF emitter!ToSet, Line, Taken
    <2>2. k \in Taken(h, s) /\ k \in Nat
        BY <1>1, <2>1
    <2>3. k # h
        <3>1. CASE h = None
            BY <2>2, <3>1, VisitsAssumption
        <3>2. CASE h # None
            <4>1. s[i] < h /\ h \in Nat
                BY <3>2 DEF Line
            <4>. QED
                BY <1>1, <2>1, <2>2, <4>1
        <3>. QED
            BY <3>1, <3>2
    <2>. QED
        BY <2>2, <2>3 DEF Taken
<1>. QED
    BY <1>1 DEF emitter!UpTo

\* No gap in what the receiver has of a directory.
LEMMA InfosKept ==
    ASSUME NEW d \in Dirs, PETyped, InfoRight(d), NEW i \in DOMAIN gotInfos[d],
           NEW k \in emitter!Good(d), k < gotInfos[d][i],
           Tree[d][k].dir \in Tree[d][gotInfos[d][i]].under
    PROVE  k \in emitter!ToSet(gotInfos[d])
<1>. DEFINE s == gotInfos[d]
            h == piHeld[d]
<1>1. Line(piFwd[d], h, s, GoodUpTo(d, at[d]))
    BY DEF InfoRight
<1>2. s[i] \in Taken(h, s) /\ s[i] \in Nat /\ k \in Nat
    BY <1>1, GoodFacts DEF emitter!ToSet, Taken, Line
<1>3. k \in Taken(h, s)
    BY <1>2 DEF InfoRight, Kept, InfosOf
<1>4. k # h
    <2>1. CASE h = None
        BY <1>2, <2>1, VisitsAssumption
    <2>2. CASE h # None
        <3>1. s[i] < h /\ h \in Nat
            BY <1>1, <2>2 DEF Line
        <3>. QED
            BY <1>2, <3>1
    <2>. QED
        BY <2>1, <2>2
<1>. QED
    BY <1>3, <1>4 DEF Taken

\* A rising sequence has neighbours that rise.
LEMMA Rises ==
    ASSUME NEW s \in Seq(Nat), Rising(s)
    PROVE  \A i \in 1..(Len(s) - 1) : s[i] < s[i + 1]
BY DEF Rising

\* The invariant of the emitters implies the property.
LEMMA PERight == PEInv => emitter!Emitted
<1>. SUFFICES ASSUME PEInv, NEW d \in Dirs
             PROVE  emitter!Emitted!(d)
    BY DEF emitter!Emitted
<1>. USE DEF PEInv
<1>. DEFINE I == gotInfos[d]
            E == gotErrs[d]
            P == GoodUpTo(d, at[d])
            Q == BadUpTo(d, at[d], walk[d])
<1>1. /\ Line(piFwd[d], piHeld[d], I, P) /\ Line(erFwd[d], erHeld[d], E, Q)
      /\ P \subseteq emitter!Good(d) /\ Q \subseteq emitter!Bad(d)
    BY DEF InfoRight, ErrRight, GoodUpTo, BadUpTo
<1>2. emitter!ToSet(I) \subseteq emitter!Good(d) /\ emitter!ToSet(E) \subseteq emitter!Bad(d)
    BY <1>1 DEF Line, Taken
<1>3. \A i \in 1..(Len(I) - 1) : I[i] < I[i + 1]
    BY <1>1, Rises DEF Line
<1>4. \A i \in DOMAIN I : \A k \in emitter!Good(d) :
        k < I[i] /\ Tree[d][k].dir \in Tree[d][I[i]].under => k \in emitter!ToSet(I)
    BY InfosKept
<1>5. ASSUME ~peDone PROVE emitter!UpTo(I, emitter!Good(d)) /\ emitter!UpTo(E, emitter!Bad(d))
    <2>1. peDone = FALSE /\ at[d] \in Nat
        BY <1>5 DEF PETyped
    <2>2. \A k \in emitter!Good(d) : \A m \in P : k < m => k \in P
        BY <2>1, GoodFacts DEF GoodUpTo
    <2>3. \A k \in emitter!Bad(d) : \A m \in Q : k < m => k \in Q
        BY <2>1, GoodFacts DEF BadUpTo
    <2>4. P \subseteq Taken(piHeld[d], I) /\ Q \subseteq Taken(erHeld[d], E)
        BY <2>1 DEF InfoRight, ErrRight, InfosOf, ErrsOf
    <2>5. emitter!Good(d) \subseteq Nat /\ emitter!Bad(d) \subseteq Nat
        BY GoodFacts
    <2>. HIDE DEF I, E, P, Q
    <2>6. emitter!UpTo(I, emitter!Good(d))
        BY <1>1, <2>2, <2>4, <2>5, LineUpTo
    <2>7. emitter!UpTo(E, emitter!Bad(d))
        BY <1>1, <2>3, <2>4, <2>5, LineUpTo
    <2>. QED
        BY <2>6, <2>7
<1>6. ASSUME ~peDone, piClosed PROVE emitter!ToSet(I) = emitter!Good(d) \cap emitter!Reached(d)
    <2>1. peDone = FALSE /\ piClosed = TRUE
        BY <1>6 DEF PETyped
    <2>2. piFwd[d] = "done" /\ walk[d] = "returned" /\ piHeld[d] = None
        BY <1>1, <2>1 DEF InfoRight, Line
    <2>3. emitter!ToSet(I) = P
        BY <1>1, <2>1, <2>2 DEF InfoRight, InfosOf, Taken, Line
    <2>. QED
        BY <2>1, <2>2, <2>3, WalkPassed
<1>7. ASSUME ~peDone, erClosed PROVE emitter!ToSet(E) = emitter!Bad(d) \cap emitter!Reached(d)
    <2>1. peDone = FALSE /\ erClosed = TRUE
        BY <1>7 DEF PETyped
    <2>2. erFwd[d] = "done" /\ walk[d] = "returned" /\ erHeld[d] = None
        BY <1>1, <2>1 DEF ErrRight, Line
    <2>3. emitter!ToSet(E) = Q
        BY <1>1, <2>1, <2>2 DEF ErrRight, ErrsOf, Taken, Line
    <2>. QED
        BY <2>1, <2>2, <2>3, WalkPassed
<1>. QED
    BY <1>2, <1>3, <1>4, <1>5, <1>6, <1>7
-----------------------------------------------------------------------------
(* path_emitter.go: the steps *)

\* The emitters start in their invariant.
LEMMA PEInit == emitter!Init => PEInv
<1>. SUFFICES ASSUME emitter!Init PROVE PEInv
    OBVIOUS
<1>. USE DEF emitter!Init, emitter!Infos!FanInit, emitter!Errs!FanInit
<1>1. PETyped
    <2>1. [d \in Dirs |-> << >>] \in [Dirs -> Seq(Nat)]
        OBVIOUS
    <2>2. [d \in Dirs |-> 1] \in [Dirs -> Nat]
        OBVIOUS
    <2>3. gotInfos \in [Dirs -> Seq(Nat)] /\ gotErrs \in [Dirs -> Seq(Nat)]
        BY <2>1
    <2>4. at \in [Dirs -> Nat]
        BY <2>2
    <2>. QED
        BY <2>3, <2>4 DEF PETyped
<1>2. ASSUME NEW d \in Dirs PROVE Walks(d) /\ InfoRight(d) /\ ErrRight(d)
    <2>1. /\ walk[d] = "walk" /\ at[d] = 1 /\ peDone = FALSE
          /\ piFwd[d] = "range" /\ piHeld[d] = None /\ gotInfos[d] = << >>
          /\ erFwd[d] = "range" /\ erHeld[d] = None /\ gotErrs[d] = << >>
          /\ piClosed = FALSE /\ erClosed = FALSE
        BY <1>2
    <2>2. Len(Tree[d]) \in Nat /\ Visits(d) = 1..Len(Tree[d])
          /\ emitter!Good(d) \subseteq Visits(d) /\ emitter!Bad(d) \subseteq Visits(d)
          /\ emitter!Failing(d) \subseteq Visits(d)
        BY TreeFacts, GoodFacts
    <2>3. GoodUpTo(d, 1) = {} /\ BadUpTo(d, 1, "walk") = {}
        BY <2>2 DEF GoodUpTo, BadUpTo
    <2>4. Line("range", None, << >>, {}) /\ Taken(None, << >>) = {}
        BY LineStarts
    <2>5. Walks(d)
        BY <2>1, <2>2 DEF Walks
    <2>6. Kept(d, {}) /\ Out(d, {}, 1)
        BY <2>2 DEF Kept, Out
    <2>. QED
        BY <2>1, <2>3, <2>4, <2>5, <2>6 DEF InfoRight, ErrRight, InfosOf, ErrsOf
<1>. QED
    BY <1>1, <1>2 DEF PEInv

\* A step that leaves what the invariant says of d alone, but for a cancellation.
LEMMA WalksStay ==
    ASSUME NEW d \in Dirs, Walks(d), walk'[d] = walk[d], at'[d] = at[d],
           peDone' = FALSE => peDone = FALSE
    PROVE  Walks(d)'
BY DEF Walks

\* The same of the path infos, for a walk that may return.
LEMMA InfosStay ==
    ASSUME NEW d \in Dirs, InfoRight(d), piFwd'[d] = piFwd[d], piHeld'[d] = piHeld[d],
           gotInfos'[d] = gotInfos[d], at'[d] = at[d],
           walk[d] = "returned" => walk'[d] = "returned",
           peDone' = FALSE => peDone = FALSE,
           piClosed' = TRUE => piClosed = TRUE
    PROVE  InfoRight(d)'
<1>1. InfosOf(d)' = InfosOf(d)
    BY DEF InfosOf
<1>. QED
    BY <1>1 DEF InfoRight

\* The same of the errors.
LEMMA ErrsStay ==
    ASSUME NEW d \in Dirs, ErrRight(d), erFwd'[d] = erFwd[d], erHeld'[d] = erHeld[d],
           gotErrs'[d] = gotErrs[d], at'[d] = at[d], walk'[d] = walk[d],
           peDone' = FALSE => peDone = FALSE,
           erClosed' = TRUE => erClosed = TRUE
    PROVE  ErrRight(d)'
<1>1. ErrsOf(d)' = ErrsOf(d)
    BY DEF ErrsOf
<1>. QED
    BY <1>1 DEF ErrRight

\* The walk goes on behind a visit it sent nothing of.
LEMMA InfosPass ==
    ASSUME NEW d \in Dirs, InfoRight(d), at[d] \in Visits(d), at[d] \notin emitter!Good(d),
           piFwd'[d] = piFwd[d], piHeld'[d] = piHeld[d], gotInfos'[d] = gotInfos[d],
           at'[d] = at[d] + 1, walk'[d] = walk[d], peDone' = peDone, piClosed' = piClosed
    PROVE  InfoRight(d)'
<1>1. InfosOf(d)' = InfosOf(d)
    BY DEF InfosOf
<1>2. piFwd[d] # "done" => Out(d, InfosOf(d), at[d] + 1)
    BY PassKeeps DEF InfoRight
<1>3. GoodUpTo(d, at[d] + 1) = GoodUpTo(d, at[d])
    <2>1. \A k \in emitter!Good(d) : (k < at[d] + 1) <=> (k < at[d])
        BY GoodFacts
    <2>. QED
        BY <2>1 DEF GoodUpTo
<1>. QED
    BY <1>1, <1>2, <1>3 DEF InfoRight

\* The errors up to a visit, before and behind it.
LEMMA BadNext ==
    ASSUME NEW d \in Dirs, NEW a \in Visits(d)
    PROVE  /\ BadUpTo(d, a, "walk") \cup ({a} \cap emitter!Bad(d)) = BadUpTo(d, a + 1, "walk")
           /\ \A k \in BadUpTo(d, a, "walk") : k < a
           /\ BadUpTo(d, a, "failed") = BadUpTo(d, a, "walk")
           /\ BadUpTo(d, a, "returned") = BadUpTo(d, a, "walk") \cup ({a} \cap emitter!Bad(d))
<1>1. \A k \in emitter!Bad(d) : (k < a + 1) <=> (k < a \/ k = a)
    BY GoodFacts
<1>. QED
    BY <1>1 DEF BadUpTo

\* The same of the errors.
LEMMA ErrsPass ==
    ASSUME NEW d \in Dirs, ErrRight(d), at[d] \in Visits(d), at[d] \notin emitter!Bad(d),
           erFwd'[d] = erFwd[d], erHeld'[d] = erHeld[d], gotErrs'[d] = gotErrs[d],
           at'[d] = at[d] + 1, walk[d] = "walk", walk'[d] = walk[d], peDone' = peDone,
           erClosed' = erClosed
    PROVE  ErrRight(d)'
<1>1. ErrsOf(d)' = ErrsOf(d)
    BY DEF ErrsOf
<1>2. BadUpTo(d, at[d] + 1, "walk") = BadUpTo(d, at[d], "walk")
    <2>1. {at[d]} \cap emitter!Bad(d) = {}
        OBVIOUS
    <2>. QED
        BY <2>1, BadNext
<1>. QED
    BY <1>1, <1>2 DEF ErrRight

\* The walk itself goes on.
LEMMA WalksOn ==
    ASSUME NEW d \in Dirs, Walks(d), walk[d] = "walk", walk'[d] = "walk", at[d] \in Visits(d),
           at[d] \notin emitter!Failing(d), at'[d] = at[d] + 1, peDone' = peDone
    PROVE  Walks(d)'
<1>1. Len(Tree[d]) \in Nat /\ Visits(d) = 1..Len(Tree[d])
    BY TreeFacts
<1>2. at'[d] \in 1..(Len(Tree[d]) + 1)
    BY <1>1
<1>3. \A k \in emitter!Failing(d) : at[d] <= k => at[d] + 1 <= k
    BY <1>1, GoodFacts
<1>. QED
    BY <1>2, <1>3 DEF Walks

\* A step of one directory.
Elsewhere(d) == \A e \in Dirs \ {d} :
    /\ walk'[e] = walk[e] /\ at'[e] = at[e]
    /\ piFwd'[e] = piFwd[e] /\ piHeld'[e] = piHeld[e] /\ gotInfos'[e] = gotInfos[e]
    /\ erFwd'[e] = erFwd[e] /\ erHeld'[e] = erHeld[e] /\ gotErrs'[e] = gotErrs[e]

\* A step of one directory has to be looked at there alone.
LEMMA OneDir ==
    ASSUME PEInv, NEW d \in Dirs, Elsewhere(d), PETyped',
           peDone' = peDone, piClosed' = piClosed, erClosed' = erClosed,
           Walks(d)', InfoRight(d)', ErrRight(d)'
    PROVE  PEInv'
<1>1. ASSUME NEW e \in Dirs PROVE Walks(e)' /\ InfoRight(e)' /\ ErrRight(e)'
    <2>1. CASE e = d
        BY <2>1
    <2>2. CASE e # d
        <3>1. /\ walk'[e] = walk[e] /\ at'[e] = at[e]
              /\ piFwd'[e] = piFwd[e] /\ piHeld'[e] = piHeld[e] /\ gotInfos'[e] = gotInfos[e]
              /\ erFwd'[e] = erFwd[e] /\ erHeld'[e] = erHeld[e] /\ gotErrs'[e] = gotErrs[e]
            BY <2>2 DEF Elsewhere
        <3>2. Walks(e) /\ InfoRight(e) /\ ErrRight(e)
            BY DEF PEInv
        <3>. QED
            BY <3>1, <3>2, WalksStay, InfosStay, ErrsStay
    <2>. QED
        BY <2>1, <2>2
<1>. QED
    BY <1>1 DEF PEInv

\* The invariant at one directory.
LEMMA Here ==
    ASSUME PEInv, NEW d \in Dirs
    PROVE  /\ Walks(d) /\ InfoRight(d) /\ ErrRight(d)
           /\ at[d] \in Nat /\ Len(Tree[d]) \in Nat /\ Visits(d) = 1..Len(Tree[d])
           /\ at[d] \in 1..(Len(Tree[d]) + 1)
           /\ emitter!Walking(d) => at[d] \in Visits(d) /\ walk[d] = "walk"
<1>1. Walks(d) /\ InfoRight(d) /\ ErrRight(d) /\ PETyped
    BY DEF PEInv
<1>2. Len(Tree[d]) \in Nat /\ Visits(d) = 1..Len(Tree[d])
    BY TreeFacts
<1>3. at[d] \in 1..(Len(Tree[d]) + 1)
    BY <1>1 DEF Walks
<1>. QED
    BY <1>1, <1>2, <1>3 DEF emitter!Walking

\* A visit that is nothing to send.
LEMMA IgnorePE ==
    ASSUME PEInv, NEW d \in Dirs, emitter!Ignore(d)
    PROVE  PEInv'
<1>. USE DEF emitter!Ignore, emitter!Step
<1>1. /\ at[d] \in Visits(d) /\ walk[d] = "walk" /\ Walks(d) /\ InfoRight(d) /\ ErrRight(d)
      /\ at[d] \in Nat
    BY Here
<1>2. at[d] \notin emitter!Good(d) /\ at[d] \notin emitter!Bad(d)
      /\ at[d] \notin emitter!Failing(d)
    BY <1>1, FoundIs
<1>3. PETyped'
    BY <1>1 DEF PEInv, PETyped
<1>4. at' = [at EXCEPT ![d] = @ + 1] /\ at'[d] = at[d] + 1
    BY DEF PEInv, PETyped
<1>5. Elsewhere(d)
    BY <1>4 DEF Elsewhere
<1>6. Walks(d)' /\ InfoRight(d)' /\ ErrRight(d)'
    BY <1>1, <1>2, <1>4, WalksOn, InfosPass, ErrsPass
<1>. QED
    BY <1>3, <1>5, <1>6, OneDir

\* A path info is sent.
LEMMA SendInfoPE ==
    ASSUME PEInv, NEW d \in Dirs, emitter!SendInfo(d)
    PROVE  PEInv'
<1>. USE DEF emitter!SendInfo, emitter!Step, emitter!Infos!Take
<1>1. /\ at[d] \in Visits(d) /\ walk[d] = "walk" /\ Walks(d) /\ InfoRight(d) /\ ErrRight(d)
      /\ at[d] \in Nat
    BY Here
<1>2. /\ at[d] \in emitter!Good(d) /\ at[d] \notin emitter!Bad(d)
      /\ at[d] \notin emitter!Failing(d)
    BY <1>1, FoundIs, GoodFacts
<1>3. PETyped'
    BY <1>1 DEF PEInv, PETyped
<1>4. /\ at'[d] = at[d] + 1 /\ piFwd[d] = "range" /\ piFwd'[d] = "send" /\ piHeld'[d] = at[d]
      /\ gotInfos' = gotInfos /\ piClosed' = piClosed /\ peDone' = peDone /\ walk' = walk
    BY DEF PEInv, PETyped
<1>5. Elsewhere(d)
    BY DEF Elsewhere, PEInv, PETyped
<1>6. InfoRight(d)'
    <2>. DEFINE h == piHeld[d]
                s == gotInfos[d]
                a == at[d]
                P == GoodUpTo(d, a)
                Q == GoodUpTo(d, a + 1)
                S == InfosOf(d)
    <2>1. /\ Line("range", h, s, P) /\ Kept(d, S) /\ Out(d, S, a)
          /\ peDone = FALSE => P \subseteq S
          /\ piClosed = FALSE \/ piClosed # TRUE
        BY <1>1, <1>4 DEF InfoRight
    <2>2. Q = P \cup {a} /\ \A k \in P : k < a
        BY <1>1, <1>2, GoodFacts DEF GoodUpTo
    <2>3. Line("send", a, s, Q) /\ Taken(a, s) = S \cup {a}
        <3>1. S = Taken(h, s)
            BY DEF InfosOf
        <3>. HIDE DEF h, s, a, P, Q, S
        <3>2. a \in Nat
            BY <1>1 DEF a
        <3>3. Line("send", a, s, P \cup {a})
            BY <2>1, <2>2, <3>2, LineTakes
        <3>4. h = None
            BY <2>1 DEF Line
        <3>5. Taken(a, s) = Taken(None, s) \cup {a}
            BY <3>2, Takes
        <3>. QED
            BY <2>2, <3>1, <3>3, <3>4, <3>5
    <2>4. S \in SUBSET Nat
        BY <2>1, GoodFacts DEF InfosOf, Line, GoodUpTo
    <2>5. Kept(d, S \cup {a}) /\ Out(d, S \cup {a}, a + 1)
        BY <1>2, <2>1, <2>4, TakeKeeps
    <2>6. InfosOf(d)' = S \cup {a}
        BY <1>4, <2>3 DEF InfosOf
    <2>7. Line(piFwd'[d], piHeld'[d], gotInfos'[d], GoodUpTo(d, at'[d]))
        BY <1>4, <2>3
    <2>8. Kept(d, InfosOf(d)') /\ Out(d, InfosOf(d)', at'[d])
        BY <1>4, <2>5, <2>6
    <2>9. peDone' = FALSE => GoodUpTo(d, at'[d]) \subseteq InfosOf(d)'
        BY <1>4, <2>1, <2>2, <2>6
    <2>10. piClosed' = TRUE => piFwd'[d] = "done"
        BY <1>1, <1>4 DEF InfoRight
    <2>. QED
        BY <1>4, <2>7, <2>8, <2>9, <2>10 DEF InfoRight
<1>7. Walks(d)' /\ ErrRight(d)'
    BY <1>1, <1>2, <1>4, WalksOn, ErrsPass
<1>. QED
    BY <1>3, <1>4, <1>5, <1>6, <1>7, OneDir

\* The error of a path is sent.
LEMMA SendBadPathPE ==
    ASSUME PEInv, NEW d \in Dirs, emitter!SendBadPath(d)
    PROVE  PEInv'
<1>. USE DEF emitter!SendBadPath, emitter!Step, emitter!Errs!Take
<1>1. /\ at[d] \in Visits(d) /\ walk[d] = "walk" /\ Walks(d) /\ InfoRight(d) /\ ErrRight(d)
      /\ at[d] \in Nat
    BY Here
<1>2. /\ at[d] \notin emitter!Good(d) /\ at[d] \in emitter!Bad(d)
      /\ at[d] \notin emitter!Failing(d)
    BY <1>1, FoundIs, GoodFacts
<1>3. PETyped'
    BY <1>1 DEF PEInv, PETyped
<1>4. /\ at'[d] = at[d] + 1 /\ erFwd[d] = "range" /\ erFwd'[d] = "send" /\ erHeld'[d] = at[d]
      /\ gotErrs' = gotErrs /\ erClosed' = erClosed /\ peDone' = peDone /\ walk' = walk
    BY DEF PEInv, PETyped
<1>5. Elsewhere(d)
    BY DEF Elsewhere, PEInv, PETyped
<1>6. ErrRight(d)'
    <2>. DEFINE h == erHeld[d]
                s == gotErrs[d]
                a == at[d]
                P == BadUpTo(d, a, "walk")
                Q == BadUpTo(d, a + 1, "walk")
                S == ErrsOf(d)
    <2>1. peDone = FALSE => P \subseteq S
        BY <1>1, <1>4 DEF ErrRight
    <2>2. Line("range", h, s, P)
        BY <1>1, <1>4 DEF ErrRight
    <2>3. Q = P \cup {a} /\ \A k \in P : k < a
        BY <1>1, <1>2, BadNext
    <2>4. Line("send", a, s, Q) /\ Taken(a, s) = S \cup {a}
        <3>1. S = Taken(h, s)
            BY DEF ErrsOf
        <3>. HIDE DEF h, s, a, P, Q, S
        <3>2. a \in Nat
            BY <1>1 DEF a
        <3>3. Line("send", a, s, P \cup {a})
            BY <2>2, <2>3, <3>2, LineTakes
        <3>4. h = None
            BY <2>2 DEF Line
        <3>5. Taken(a, s) = Taken(None, s) \cup {a}
            BY <3>2, Takes
        <3>. QED
            BY <2>3, <3>1, <3>3, <3>4, <3>5
    <2>5. ErrsOf(d)' = S \cup {a}
        BY <1>4, <2>4 DEF ErrsOf
    <2>6. Line(erFwd'[d], erHeld'[d], gotErrs'[d], BadUpTo(d, at'[d], walk'[d]))
        BY <1>1, <1>4, <2>4
    <2>7. peDone' = FALSE => BadUpTo(d, at'[d], walk'[d]) \subseteq ErrsOf(d)'
        BY <1>1, <1>4, <2>1, <2>2, <2>3, <2>5
    <2>8. erClosed' = TRUE => erFwd'[d] = "done"
        BY <1>1, <1>4 DEF ErrRight
    <2>. QED
        BY <1>4, <2>6, <2>7, <2>8 DEF ErrRight
<1>7. Walks(d)' /\ InfoRight(d)'
    BY <1>1, <1>2, <1>4, WalksOn, InfosPass
<1>. QED
    BY <1>3, <1>4, <1>5, <1>6, <1>7, OneDir

\* A send gives way to the cancellation.
LEMMA CancelledPE ==
    ASSUME PEInv, NEW d \in Dirs, emitter!Cancelled(d)
    PROVE  PEInv'
<1>. USE DEF emitter!Cancelled
<1>. DEFINE a == at[d]
            n == Skipped(d, a)
<1>1. /\ a \in Visits(d) /\ walk[d] = "walk" /\ Walks(d) /\ InfoRight(d) /\ ErrRight(d)
      /\ a \in Nat /\ Len(Tree[d]) \in Nat /\ Visits(d) = 1..Len(Tree[d])
    BY Here
<1>2. Tree[d][a].what = "file" /\ a \notin emitter!Failing(d)
    BY <1>1, FoundIs
<1>3. n \in (a + 1)..(Len(Tree[d]) + 1)
    BY <1>1, <1>2, SkipFacts
<1>4. at' = [at EXCEPT ![d] = n]
    BY DEF emitter!SkipRest, emitter!Visit, Skipped, After
<1>5. at'[d] = n /\ n \in Nat /\ a < n
    BY <1>1, <1>3, <1>4 DEF PEInv, PETyped
<1>6. PETyped' /\ peDone = TRUE /\ peDone' = TRUE
    <2>1. n \in Nat
        BY <1>5
    <2>. HIDE DEF n
    <2>2. at' \in [Dirs -> Nat]
        BY <1>4, <2>1 DEF PEInv, PETyped
    <2>. QED
        BY <2>2 DEF PEInv, PETyped
<1>7. Elsewhere(d)
    BY <1>4 DEF Elsewhere, PEInv, PETyped
<1>8. Walks(d)'
    BY <1>1, <1>3, <1>5, <1>6 DEF Walks
<1>9. InfoRight(d)'
    <2>1. InfosOf(d)' = InfosOf(d)
        BY DEF InfosOf
    <2>2. GoodUpTo(d, a) \subseteq GoodUpTo(d, n)
        BY <1>1, <1>5, GoodFacts DEF GoodUpTo
    <2>3. piFwd[d] # "done" => Out(d, InfosOf(d), n)
        BY <1>1, <1>2, SkipKeeps DEF InfoRight
    <2>. HIDE DEF a, n
    <2>4. Line(piFwd[d], piHeld[d], gotInfos[d], GoodUpTo(d, n))
        <3>1. Line(piFwd[d], piHeld[d], gotInfos[d], GoodUpTo(d, a))
            BY <1>1 DEF InfoRight, a
        <3>. QED
            BY <2>2, <3>1, LineGrows
    <2>. QED
        BY <1>1, <1>5, <1>6, <2>1, <2>3, <2>4 DEF InfoRight
<1>10. ErrRight(d)'
    <2>1. ErrsOf(d)' = ErrsOf(d)
        BY DEF ErrsOf
    <2>2. BadUpTo(d, a, "walk") \subseteq BadUpTo(d, n, "walk")
        BY <1>1, <1>5, GoodFacts DEF BadUpTo
    <2>. HIDE DEF a, n
    <2>3. Line(erFwd[d], erHeld[d], gotErrs[d], BadUpTo(d, n, "walk"))
        <3>1. Line(erFwd[d], erHeld[d], gotErrs[d], BadUpTo(d, a, "walk"))
            BY <1>1 DEF ErrRight, a
        <3>. QED
            BY <2>2, <3>1, LineGrows
    <2>. QED
        BY <1>1, <1>5, <1>6, <2>1, <2>3 DEF ErrRight
<1>. QED
    BY <1>6, <1>7, <1>8, <1>9, <1>10, OneDir

\* An error of the file system.
LEMMA WalkFailsPE ==
    ASSUME PEInv, NEW d \in Dirs, emitter!WalkFails(d)
    PROVE  PEInv'
<1>. USE DEF emitter!WalkFails
<1>1. /\ at[d] \in Visits(d) /\ walk[d] = "walk" /\ Walks(d) /\ InfoRight(d) /\ ErrRight(d)
    BY Here
<1>2. at[d] \in emitter!Failing(d)
    BY <1>1, FoundIs
<1>3. PETyped' /\ walk'[d] = "failed"
    BY DEF PEInv, PETyped
<1>4. Elsewhere(d)
    BY DEF Elsewhere, PEInv, PETyped
<1>5. Walks(d)'
    BY <1>1, <1>2, <1>3 DEF Walks
<1>6. InfoRight(d)'
    BY <1>1, InfosStay
<1>7. ErrRight(d)'
    <2>1. ErrsOf(d)' = ErrsOf(d)
        BY DEF ErrsOf
    <2>2. BadUpTo(d, at[d], "failed") = BadUpTo(d, at[d], "walk")
        BY DEF BadUpTo
    <2>. QED
        BY <1>1, <1>3, <2>1, <2>2 DEF ErrRight
<1>. QED
    BY <1>3, <1>4, <1>5, <1>6, <1>7, OneDir

\* It is sent, and the walk returns.
LEMMA SendWalkErrPE ==
    ASSUME PEInv, NEW d \in Dirs, emitter!SendWalkErr(d)
    PROVE  PEInv'
<1>. USE DEF emitter!SendWalkErr, emitter!Returns, emitter!Errs!Take
<1>1. /\ walk[d] = "failed" /\ Walks(d) /\ InfoRight(d) /\ ErrRight(d)
      /\ at[d] \in Nat /\ PETyped
    BY Here DEF PEInv
<1>2. at[d] \in emitter!Failing(d) /\ at[d] \in emitter!Bad(d) /\ at[d] \in Visits(d)
    BY <1>1, GoodFacts DEF Walks
<1>3. PETyped'
    BY <1>1 DEF PEInv, PETyped
<1>4. /\ at' = at /\ erFwd[d] = "range" /\ erFwd'[d] = "send" /\ erHeld'[d] = at[d]
      /\ gotErrs' = gotErrs /\ erClosed' = erClosed /\ peDone' = peDone
      /\ walk'[d] = "returned"
    BY DEF PEInv, PETyped
<1>5. Elsewhere(d)
    BY DEF Elsewhere, PEInv, PETyped
<1>6. ErrRight(d)'
    <2>. DEFINE h == erHeld[d]
                s == gotErrs[d]
                a == at[d]
                P == BadUpTo(d, a, "failed")
                Q == BadUpTo(d, a, "returned")
                S == ErrsOf(d)
    <2>1. peDone = FALSE => P \subseteq S
        BY <1>1, <1>4 DEF ErrRight
    <2>2. Line("range", h, s, P)
        BY <1>1, <1>4 DEF ErrRight
    <2>3. Q = P \cup {a} /\ \A k \in P : k < a
        BY <1>1, <1>2, BadNext
    <2>4. Line("send", a, s, Q) /\ Taken(a, s) = S \cup {a}
        <3>1. S = Taken(h, s)
            BY DEF ErrsOf
        <3>. HIDE DEF h, s, a, P, Q, S
        <3>2. a \in Nat
            BY <1>1 DEF a
        <3>3. Line("send", a, s, P \cup {a})
            BY <2>2, <2>3, <3>2, LineTakes
        <3>4. h = None
            BY <2>2 DEF Line
        <3>5. Taken(a, s) = Taken(None, s) \cup {a}
            BY <3>2, Takes
        <3>. QED
            BY <2>3, <3>1, <3>3, <3>4, <3>5
    <2>5. ErrsOf(d)' = S \cup {a}
        BY <1>4, <2>4 DEF ErrsOf
    <2>6. Line(erFwd'[d], erHeld'[d], gotErrs'[d], BadUpTo(d, at'[d], walk'[d]))
        BY <1>4, <2>4
    <2>7. peDone' = FALSE => BadUpTo(d, at'[d], walk'[d]) \subseteq ErrsOf(d)'
        BY <1>4, <2>1, <2>3, <2>5
    <2>8. erClosed' = TRUE => erFwd'[d] = "done"
        BY <1>1, <1>4 DEF ErrRight
    <2>. QED
        BY <1>4, <2>6, <2>7, <2>8 DEF ErrRight
<1>7. Walks(d)'
    BY <1>1, <1>2, <1>4 DEF Walks
<1>8. InfoRight(d)'
    BY <1>1, <1>4, InfosStay
<1>. QED
    BY <1>3, <1>4, <1>5, <1>6, <1>7, <1>8, OneDir

\* It is dropped, and the walk returns.
LEMMA WalkErrCancelledPE ==
    ASSUME PEInv, NEW d \in Dirs, emitter!WalkErrCancelled(d)
    PROVE  PEInv'
<1>. USE DEF emitter!WalkErrCancelled, emitter!Returns
<1>1. /\ walk[d] = "failed" /\ Walks(d) /\ InfoRight(d) /\ ErrRight(d) /\ PETyped
      /\ peDone = TRUE /\ peDone' = TRUE
    BY Here DEF PEInv, PETyped
<1>2. at[d] \in emitter!Failing(d)
    BY <1>1 DEF Walks
<1>3. PETyped' /\ walk'[d] = "returned"
    BY <1>1 DEF PEInv, PETyped
<1>4. Elsewhere(d)
    BY DEF Elsewhere, PEInv, PETyped
<1>5. Walks(d)'
    BY <1>1, <1>2, <1>3 DEF Walks
<1>6. InfoRight(d)'
    BY <1>1, InfosStay
<1>7. ErrRight(d)'
    <2>1. BadUpTo(d, at[d], "failed") \subseteq BadUpTo(d, at[d], "returned")
        BY DEF BadUpTo
    <2>2. Line(erFwd[d], erHeld[d], gotErrs[d], BadUpTo(d, at[d], "failed"))
        BY <1>1 DEF ErrRight
    <2>3. Line(erFwd[d], erHeld[d], gotErrs[d], BadUpTo(d, at[d], "returned"))
        BY <2>1, <2>2, LineGrows
    <2>. QED
        BY <1>1, <1>3, <2>3 DEF ErrRight
<1>. QED
    BY <1>3, <1>4, <1>5, <1>6, <1>7, OneDir

\* The walk returns at its end.
LEMMA WalkEndsPE ==
    ASSUME PEInv, NEW d \in Dirs, emitter!WalkEnds(d)
    PROVE  PEInv'
<1>. USE DEF emitter!WalkEnds, emitter!Returns
<1>1. /\ walk[d] = "walk" /\ Walks(d) /\ InfoRight(d) /\ ErrRight(d) /\ PETyped
      /\ Len(Tree[d]) \in Nat /\ Visits(d) = 1..Len(Tree[d])
    BY Here DEF PEInv
<1>2. at[d] = Len(Tree[d]) + 1 /\ at[d] \notin Visits(d)
    BY <1>1 DEF Walks
<1>3. PETyped' /\ walk'[d] = "returned"
    BY <1>1 DEF PEInv, PETyped
<1>4. Elsewhere(d)
    BY DEF Elsewhere, PEInv, PETyped
<1>5. Walks(d)'
    BY <1>1, <1>2, <1>3 DEF Walks
<1>6. InfoRight(d)'
    BY <1>1, InfosStay
<1>7. ErrRight(d)'
    <2>1. BadUpTo(d, at[d], "walk") = BadUpTo(d, at[d], "returned")
        BY <1>2, GoodFacts DEF BadUpTo
    <2>2. ErrsOf(d)' = ErrsOf(d)
        BY DEF ErrsOf
    <2>. QED
        BY <1>1, <1>3, <2>1, <2>2 DEF ErrRight
<1>. QED
    BY <1>3, <1>4, <1>5, <1>6, <1>7, OneDir

\* A forwarder of path infos gives up: what it dropped is behind all it handed on.
LEMMA InfoGiveUpPE ==
    ASSUME PEInv, NEW d \in Dirs, emitter!Infos!GiveUp(d),
           UNCHANGED <<walk, at, emitter!erVars, peDone, emitter!gotVars>>
    PROVE  PEInv'
<1>. USE DEF emitter!Infos!GiveUp
<1>1. Walks(d) /\ InfoRight(d) /\ ErrRight(d) /\ PETyped
    BY DEF PEInv
<1>2. PETyped' /\ Elsewhere(d)
    BY DEF PEInv, PETyped, Elsewhere
<1>3. /\ piFwd[d] = "send" /\ piFwd'[d] = "done" /\ piHeld'[d] = None /\ gotInfos' = gotInfos
      /\ peDone = TRUE /\ peDone' = TRUE /\ piClosed' = piClosed /\ at' = at
    BY DEF PEInv, PETyped
<1>4. InfoRight(d)'
    <2>. DEFINE h == piHeld[d]
                s == gotInfos[d]
                P == GoodUpTo(d, at[d])
    <2>1. Line("send", h, s, P) /\ Kept(d, Taken(h, s))
        BY <1>1, <1>3 DEF InfoRight, InfosOf
    <2>2. P \subseteq Nat
        BY GoodFacts DEF GoodUpTo
    <2>. HIDE DEF h, s, P
    <2>3. /\ Line("done", None, s, P) /\ Taken(None, s) \subseteq Taken(h, s)
          /\ \A k \in Taken(h, s) \ Taken(None, s) : \A j \in Taken(None, s) : j < k
        BY <2>1, LineGivesUp
    <2>4. Kept(d, Taken(None, s))
        <3>1. Taken(h, s) \subseteq Nat
            BY <2>1, <2>2 DEF Line
        <3>2. \A j \in Taken(None, s) : \A k \in Taken(h, s) : k < j => k \in Taken(None, s)
            BY <2>3, <3>1
        <3>. QED
            BY <2>1, <2>3, <3>2 DEF Kept
    <2>5. InfosOf(d)' = Taken(None, s)
        BY <1>3 DEF InfosOf, s
    <2>6. Line(piFwd'[d], piHeld'[d], gotInfos'[d], GoodUpTo(d, at'[d]))
        BY <1>3, <2>3 DEF s, P
    <2>. QED
        BY <1>3, <2>4, <2>5, <2>6 DEF InfoRight
<1>5. Walks(d)' /\ ErrRight(d)'
    BY <1>1, WalksStay, ErrsStay
<1>. QED
    BY <1>2, <1>3, <1>4, <1>5, OneDir

\* It returns because the walk did.
LEMMA InfoFinishPE ==
    ASSUME PEInv, NEW d \in Dirs, emitter!Infos!Finish(d),
           UNCHANGED <<walk, at, emitter!erVars, peDone, emitter!gotVars>>
    PROVE  PEInv'
<1>. USE DEF emitter!Infos!Finish
<1>1. Walks(d) /\ InfoRight(d) /\ ErrRight(d) /\ PETyped
    BY DEF PEInv
<1>2. PETyped' /\ Elsewhere(d)
    BY DEF PEInv, PETyped, Elsewhere
<1>3. /\ piFwd[d] = "range" /\ piFwd'[d] = "done" /\ walk[d] = "returned"
      /\ piHeld' = piHeld /\ gotInfos' = gotInfos /\ piClosed' = piClosed
    BY DEF PEInv, PETyped, emitter!inClosed
<1>4. InfoRight(d)'
    <2>1. InfosOf(d)' = InfosOf(d)
        BY <1>3 DEF InfosOf
    <2>2. Line("done", piHeld[d], gotInfos[d], GoodUpTo(d, at[d]))
        BY <1>1, <1>3, LineFinishes DEF InfoRight
    <2>. QED
        BY <1>1, <1>3, <2>1, <2>2 DEF InfoRight
<1>5. Walks(d)' /\ ErrRight(d)'
    BY <1>1, WalksStay, ErrsStay
<1>. QED
    BY <1>2, <1>3, <1>4, <1>5, OneDir

\* A forwarder of errors gives up.
LEMMA ErrGiveUpPE ==
    ASSUME PEInv, NEW d \in Dirs, emitter!Errs!GiveUp(d),
           UNCHANGED <<walk, at, emitter!piVars, peDone, emitter!gotVars>>
    PROVE  PEInv'
<1>. USE DEF emitter!Errs!GiveUp
<1>1. Walks(d) /\ InfoRight(d) /\ ErrRight(d) /\ PETyped
    BY DEF PEInv
<1>2. PETyped' /\ Elsewhere(d)
    BY DEF PEInv, PETyped, Elsewhere
<1>3. /\ erFwd[d] = "send" /\ erFwd'[d] = "done" /\ erHeld'[d] = None /\ gotErrs' = gotErrs
      /\ peDone = TRUE /\ peDone' = TRUE /\ erClosed' = erClosed /\ at' = at /\ walk' = walk
    BY DEF PEInv, PETyped
<1>4. ErrRight(d)'
    <2>. DEFINE h == erHeld[d]
                s == gotErrs[d]
                P == BadUpTo(d, at[d], walk[d])
    <2>1. Line("send", h, s, P)
        BY <1>1, <1>3 DEF ErrRight
    <2>. HIDE DEF h, s, P
    <2>2. Line("done", None, s, P)
        BY <2>1, LineGivesUp
    <2>3. Line(erFwd'[d], erHeld'[d], gotErrs'[d], BadUpTo(d, at'[d], walk'[d]))
        BY <1>3, <2>2 DEF s, P
    <2>. QED
        BY <1>3, <2>3 DEF ErrRight
<1>5. Walks(d)' /\ InfoRight(d)'
    BY <1>1, WalksStay, InfosStay
<1>. QED
    BY <1>2, <1>3, <1>4, <1>5, OneDir

\* It returns because the walk did.
LEMMA ErrFinishPE ==
    ASSUME PEInv, NEW d \in Dirs, emitter!Errs!Finish(d),
           UNCHANGED <<walk, at, emitter!piVars, peDone, emitter!gotVars>>
    PROVE  PEInv'
<1>. USE DEF emitter!Errs!Finish
<1>1. Walks(d) /\ InfoRight(d) /\ ErrRight(d) /\ PETyped
    BY DEF PEInv
<1>2. PETyped' /\ Elsewhere(d)
    BY DEF PEInv, PETyped, Elsewhere
<1>3. /\ erFwd[d] = "range" /\ erFwd'[d] = "done" /\ walk[d] = "returned"
      /\ erHeld' = erHeld /\ gotErrs' = gotErrs /\ erClosed' = erClosed
    BY DEF PEInv, PETyped, emitter!inClosed
<1>4. ErrRight(d)'
    <2>1. ErrsOf(d)' = ErrsOf(d)
        BY <1>3 DEF ErrsOf
    <2>2. Line("done", erHeld[d], gotErrs[d], BadUpTo(d, at[d], walk[d]))
        BY <1>1, <1>3, LineFinishes DEF ErrRight
    <2>. QED
        BY <1>1, <1>3, <2>1, <2>2 DEF ErrRight
<1>5. Walks(d)' /\ InfoRight(d)'
    BY <1>1, WalksStay, InfosStay
<1>. QED
    BY <1>2, <1>3, <1>4, <1>5, OneDir

\* The steps of the merged path infos.
LEMMA MergeInfosPE ==
    ASSUME PEInv, emitter!MergePathInfoStreams
    PROVE  PEInv'
<1>. USE DEF emitter!MergePathInfoStreams
<1>1. CASE emitter!Infos!CloseOut
    <2>. USE <1>1 DEF emitter!Infos!CloseOut
    <2>1. PETyped'
        BY DEF PEInv, PETyped
    <2>2. ASSUME NEW d \in Dirs PROVE Walks(d)' /\ InfoRight(d)' /\ ErrRight(d)'
        <3>1. Walks(d) /\ InfoRight(d) /\ ErrRight(d) /\ piFwd[d] = "done"
            BY DEF PEInv
        <3>2. InfosOf(d)' = InfosOf(d)
            BY DEF InfosOf
        <3>3. InfoRight(d)'
            BY <3>1, <3>2 DEF InfoRight
        <3>. QED
            BY <3>1, <3>3, WalksStay, ErrsStay
    <2>. QED
        BY <2>1, <2>2 DEF PEInv
<1>. QED
    BY <1>1, InfoGiveUpPE, InfoFinishPE DEF emitter!Infos!FanStep

\* The steps of the merged errors.
LEMMA MergeErrsPE ==
    ASSUME PEInv, emitter!MergeErrStreams
    PROVE  PEInv'
<1>. USE DEF emitter!MergeErrStreams
<1>1. CASE emitter!Errs!CloseOut
    <2>. USE <1>1 DEF emitter!Errs!CloseOut
    <2>1. PETyped'
        BY DEF PEInv, PETyped
    <2>2. ASSUME NEW d \in Dirs PROVE Walks(d)' /\ InfoRight(d)' /\ ErrRight(d)'
        <3>1. Walks(d) /\ InfoRight(d) /\ ErrRight(d) /\ erFwd[d] = "done"
            BY DEF PEInv
        <3>2. ErrsOf(d)' = ErrsOf(d)
            BY DEF ErrsOf
        <3>3. ErrRight(d)'
            BY <3>1, <3>2 DEF ErrRight
        <3>. QED
            BY <3>1, <3>3, WalksStay, InfosStay
    <2>. QED
        BY <2>1, <2>2 DEF PEInv
<1>. QED
    BY <1>1, ErrGiveUpPE, ErrFinishPE DEF emitter!Errs!FanStep

\* The receiver gets a path info.
LEMMA ReceiveInfoPE ==
    ASSUME PEInv, NEW d \in Dirs, emitter!ReceiveInfo(d)
    PROVE  PEInv'
<1>. USE DEF emitter!ReceiveInfo, emitter!Infos!Hand
<1>1. Walks(d) /\ InfoRight(d) /\ ErrRight(d) /\ PETyped
    BY DEF PEInv
<1>2. /\ piFwd[d] = "send" /\ piFwd'[d] = "range" /\ piHeld'[d] = None /\ piClosed' = piClosed
      /\ gotInfos'[d] = Append(gotInfos[d], piHeld[d])
    BY DEF PEInv, PETyped
<1>3. Line("send", piHeld[d], gotInfos[d], GoodUpTo(d, at[d]))
    BY <1>1, <1>2 DEF InfoRight
<1>. DEFINE h == piHeld[d]
            s == gotInfos[d]
            t == Append(s, h)
<1>4. Line("range", None, t, GoodUpTo(d, at[d])) /\ Taken(None, t) = Taken(h, s)
    BY <1>3, LineHands
<1>5. PETyped'
    <2>1. t \in Seq(Nat)
        BY <1>4 DEF Line
    <2>2. gotInfos' = [gotInfos EXCEPT ![d] = t]
        OBVIOUS
    <2>. HIDE DEF t
    <2>3. gotInfos' \in [Dirs -> Seq(Nat)]
        BY <1>1, <2>1, <2>2 DEF PETyped
    <2>. QED
        BY <1>1, <2>3 DEF PETyped
<1>6. Elsewhere(d)
    BY DEF PEInv, PETyped, Elsewhere
<1>7. InfoRight(d)'
    <2>1. InfosOf(d)' = InfosOf(d)
        BY <1>2, <1>4 DEF InfosOf
    <2>. HIDE DEF t
    <2>2. gotInfos'[d] = t
        BY <1>2 DEF t
    <2>. QED
        BY <1>1, <1>2, <1>4, <2>1, <2>2 DEF InfoRight
<1>8. Walks(d)' /\ ErrRight(d)'
    BY <1>1, WalksStay, ErrsStay
<1>. QED
    BY <1>2, <1>5, <1>6, <1>7, <1>8, OneDir

\* The receiver gets an error.
LEMMA ReceiveErrPE ==
    ASSUME PEInv, NEW d \in Dirs, emitter!ReceiveErr(d)
    PROVE  PEInv'
<1>. USE DEF emitter!ReceiveErr, emitter!Errs!Hand
<1>1. Walks(d) /\ InfoRight(d) /\ ErrRight(d) /\ PETyped
    BY DEF PEInv
<1>2. /\ erFwd[d] = "send" /\ erFwd'[d] = "range" /\ erHeld'[d] = None /\ erClosed' = erClosed
      /\ gotErrs'[d] = Append(gotErrs[d], erHeld[d])
    BY DEF PEInv, PETyped
<1>3. Line("send", erHeld[d], gotErrs[d], BadUpTo(d, at[d], walk[d]))
    BY <1>1, <1>2 DEF ErrRight
<1>. DEFINE h == erHeld[d]
            s == gotErrs[d]
            t == Append(s, h)
<1>4. Line("range", None, t, BadUpTo(d, at[d], walk[d])) /\ Taken(None, t) = Taken(h, s)
    BY <1>3, LineHands
<1>5. PETyped'
    <2>1. t \in Seq(Nat)
        BY <1>4 DEF Line
    <2>2. gotErrs' = [gotErrs EXCEPT ![d] = t]
        OBVIOUS
    <2>. HIDE DEF t
    <2>3. gotErrs' \in [Dirs -> Seq(Nat)]
        BY <1>1, <2>1, <2>2 DEF PETyped
    <2>. QED
        BY <1>1, <2>3 DEF PETyped
<1>6. Elsewhere(d)
    BY DEF PEInv, PETyped, Elsewhere
<1>7. ErrRight(d)'
    <2>1. ErrsOf(d)' = ErrsOf(d)
        BY <1>2, <1>4 DEF ErrsOf
    <2>. HIDE DEF t
    <2>2. gotErrs'[d] = t
        BY <1>2 DEF t
    <2>. QED
        BY <1>1, <1>2, <1>4, <2>1, <2>2 DEF ErrRight
<1>8. Walks(d)' /\ InfoRight(d)'
    BY <1>1, WalksStay, InfosStay
<1>. QED
    BY <1>2, <1>5, <1>6, <1>7, <1>8, OneDir

\* A cancellation, a return, or nothing.
LEMMA CancelPE ==
    ASSUME PEInv, peDone' = TRUE \/ peDone' = peDone,
           UNCHANGED <<walk, at, emitter!piVars, emitter!erVars, gotInfos, gotErrs>>
    PROVE  PEInv'
<1>1. PETyped'
    BY DEF PEInv, PETyped
<1>2. ASSUME NEW d \in Dirs PROVE Walks(d)' /\ InfoRight(d)' /\ ErrRight(d)'
    <2>1. Walks(d) /\ InfoRight(d) /\ ErrRight(d)
        BY DEF PEInv
    <2>2. peDone' = FALSE => peDone = FALSE
        BY DEF PEInv, PETyped
    <2>. QED
        BY <2>1, <2>2, WalksStay, InfosStay, ErrsStay
<1>. QED
    BY <1>1, <1>2 DEF PEInv

\* Every step of the emitters preserves their invariant.
LEMMA PENext == ASSUME PEInv, emitter!Next \/ UNCHANGED peVars PROVE PEInv'
<1>1. CASE \E d \in Dirs : emitter!emit(d)
    BY <1>1, IgnorePE, SendInfoPE, SendBadPathPE, CancelledPE, WalkFailsPE, SendWalkErrPE,
       WalkErrCancelledPE, WalkEndsPE DEF emitter!emit
<1>2. CASE emitter!MergePathInfoStreams
    BY <1>2, MergeInfosPE
<1>3. CASE emitter!MergeErrStreams
    BY <1>3, MergeErrsPE
<1>4. CASE \E d \in Dirs : emitter!ReceiveInfo(d) \/ emitter!ReceiveErr(d)
    BY <1>4, ReceiveInfoPE, ReceiveErrPE
<1>5. CASE emitter!Return
    BY <1>5, CancelPE DEF emitter!Return
<1>6. CASE emitter!CallerCancels
    BY <1>6, CancelPE DEF emitter!CallerCancels
<1>7. CASE emitter!Done \/ UNCHANGED peVars
    BY <1>7, CancelPE DEF emitter!Done, peVars, emitter!vars
<1>. QED
    BY <1>1, <1>2, <1>3, <1>4, <1>5, <1>6, <1>7
    DEF emitter!Next, emitter!Receiver, emitter!ReturnAtEnd, emitter!ReturnEarly

\* Every file and every error of a directory is sent once and in the order of the walk,
\* all of them up to the error that ends it when nobody cancels, and a cancellation
\* leaves no gap within a directory (EmitPathInfosDirs, path_emitter.go).
THEOREM FilesEmitted == RespipeSpec => []Emitted
<1>1. InitAll => PEInv
    BY PEInit DEF InitAll
<1>2. PEInv /\ [NextAll]_allVars => PEInv'
    <2>. SUFFICES ASSUME PEInv, [NextAll]_allVars PROVE PEInv'
        OBVIOUS
    <2>1. emitter!Next \/ UNCHANGED peVars
        BY DEF NextAll, MergeStep, EmitStep, IOStep, allVars
    <2>. QED
        BY <2>1, PENext
<1>3. PEInv => Emitted
    BY PERight DEF Emitted
<1>. QED
    BY <1>1, <1>2, <1>3, PTL DEF RespipeSpec

\* The output is a beginning of the encoding of the records at every moment, and all of
\* it when both channels closed without an error or a cancellation (Produce and Consume,
\* res_io.go).
THEOREM OutputWritten == RespipeSpec => []WrittenRight
<1>1. InitAll => IOInv
    BY IOInit DEF InitAll
<1>2. IOInv /\ [NextAll]_allVars => IOInv'
    <2>. SUFFICES ASSUME IOInv, [NextAll]_allVars PROVE IOInv'
        OBVIOUS
    <2>1. io!Next \/ UNCHANGED ioVars
        BY DEF NextAll, MergeStep, EmitStep, IOStep, allVars
    <2>. QED
        BY <2>1, IONext
<1>3. IOInv => WrittenRight
    BY IORight DEF WrittenRight
<1>. QED
    BY <1>1, <1>2, <1>3, PTL DEF RespipeSpec

-----------------------------------------------------------------------------
(* streams.go: the merge alone *)

\* Where the elements of input i are: a live forwarder accounts for all that
\* was sent; one that returned without a cancellation saw a closed channel.
Accounted(i) ==
    /\ fwd[i] # "done" => sent[i] = Len(got[i]) + InFlight(i)
    /\ fwd[i] = "send" => held[i] = <<i, Len(got[i]) + 1>>
    /\ fwd[i] = "done" /\ ~ctxDone =>
           sender[i] = "closed" /\ sent[i] = Len(got[i])
    /\ sender[i] = "closed" /\ ~ctxDone => sent[i] = Count[i]
    /\ Len(got[i]) <= sent[i]

\* The inductive invariant.
IInv == /\ TypeOK
        /\ \A i \in Inputs : Accounted(i)
        /\ InOrder
        /\ NoSendOnClosed

USE DEF fan, inClosed

\* The empty sequence counts up to zero.
LEMMA EmptyCount ==
    /\ << >> \in Seq(Nat)
    /\ Len(<< >>) = 0
    /\ << >> = [k \in 1..Len(<< >>) |-> k]
  OBVIOUS

LEMMA TypeInit == Init => TypeOK
  <1> SUFFICES ASSUME Init PROVE TypeOK
    OBVIOUS
  <1> USE DEF Init
  <1>1. got \in [Inputs -> Seq(Nat)]
    BY EmptyCount
  <1>2. Fan!FanTypeOK(Element)
    BY DEF Fan!FanInit, Fan!FanTypeOK
  <1>3. /\ sent \in [Inputs -> Nat]
        /\ \A i \in Inputs : sent[i] <= Count[i]
    BY CountAssumption
  <1> QED
    BY <1>1, <1>2, <1>3 DEF TypeOK

\* Counting up by one: the list 1, 2, ..., n with n + 1 appended.
LEMMA AppendNext ==
    ASSUME NEW s \in Seq(Nat), s = [k \in 1..Len(s) |-> k]
    PROVE  /\ Append(s, Len(s) + 1) \in Seq(Nat)
           /\ Len(Append(s, Len(s) + 1)) = Len(s) + 1
           /\ Append(s, Len(s) + 1)
                = [k \in 1..Len(Append(s, Len(s) + 1)) |-> k]
  OBVIOUS

LEMMA IInvInit == Init => IInv
  <1> SUFFICES ASSUME Init PROVE IInv
    OBVIOUS
  <1>1. TypeOK
    BY TypeInit
  <1>2. \A i \in Inputs : Accounted(i)
    <2> SUFFICES ASSUME NEW i \in Inputs PROVE Accounted(i)
      OBVIOUS
    <2>1. /\ fwd[i] = "range" /\ sender[i] = "send"
          /\ sent[i] = 0 /\ got[i] = << >>
      BY DEF Init, Fan!FanInit
    <2> QED
      BY <2>1, EmptyCount DEF Accounted, InFlight
  <1>3. InOrder
    BY EmptyCount DEF Init, InOrder
  <1>4. NoSendOnClosed
    BY DEF Init, NoSendOnClosed, Fan!FanInit
  <1> QED
    BY <1>1, <1>2, <1>3, <1>4 DEF IInv

LEMMA SendResInv ==
    ASSUME IInv, NEW i \in Inputs, SendRes(i) PROVE IInv'
  <1> USE DEF IInv, SendRes, Fan!Take
  <1>1. sent[i] + 1 \in 1..Count[i]
    <2>1. sent[i] \in Nat
      BY DEF TypeOK
    <2>2. Count[i] \in Nat
      BY CountAssumption
    <2>3. sent[i] < Count[i]
      OBVIOUS
    <2> QED
      BY <2>1, <2>2, <2>3
  <1>2. <<i, sent[i] + 1>> \in Element
    <2> DEFINE e == <<i, sent[i] + 1>>
    <2>0. sent[i] + 1 \in Nat
      BY DEF TypeOK
    <2>1. e \in Inputs \X Nat /\ e[1] = i /\ e[2] = sent[i] + 1
      BY <2>0
    <2> HIDE DEF e
    <2>2. e[2] \in 1..Count[e[1]]
      BY <1>1, <2>1
    <2>3. e \in Element
      BY <2>1, <2>2 DEF Element
    <2> QED
      BY <2>3 DEF e
  <1>3. TypeOK'
    BY <1>1, <1>2 DEF TypeOK, Fan!FanTypeOK
  <1>4. \A j \in Inputs : Accounted(j)'
    BY CountAssumption DEF Accounted, InFlight, TypeOK, Fan!FanTypeOK
  <1>5. InOrder' /\ NoSendOnClosed'
    BY DEF InOrder, NoSendOnClosed, TypeOK, Fan!FanTypeOK
  <1> QED
    BY <1>3, <1>4, <1>5

LEMMA SendCancelledInv ==
    ASSUME IInv, NEW i \in Inputs, SendCancelled(i) PROVE IInv'
  BY DEF IInv, SendCancelled, TypeOK, Fan!FanTypeOK, Element, Accounted,
         InFlight, InOrder, NoSendOnClosed

LEMMA CloseInInv ==
    ASSUME IInv, NEW i \in Inputs, CloseIn(i) PROVE IInv'
  BY DEF IInv, CloseIn, TypeOK, Fan!FanTypeOK, Element, Accounted,
         InFlight, InOrder, NoSendOnClosed

LEMMA ReceiveInv ==
    ASSUME IInv, NEW i \in Inputs, Receive(i) PROVE IInv'
  <1> USE DEF IInv, Receive, Fan!Hand
  <1>1. held[i] = <<i, Len(got[i]) + 1>> /\ sent[i] = Len(got[i]) + 1
    BY DEF Accounted, InFlight
  <1>2. got' = [got EXCEPT ![i] = Append(got[i], Len(got[i]) + 1)]
    BY <1>1
  <1>3. got[i] \in Seq(Nat) /\ got[i] = [k \in 1..Len(got[i]) |-> k]
    BY DEF TypeOK, InOrder
  <1>4. /\ got'[i] \in Seq(Nat)
        /\ Len(got'[i]) = Len(got[i]) + 1
        /\ got'[i] = [k \in 1..Len(got'[i]) |-> k]
    BY <1>2, <1>3, AppendNext DEF TypeOK
  <1>5. \A j \in Inputs \ {i} : got'[j] = got[j]
    BY <1>2 DEF TypeOK
  <1>6. TypeOK'
    BY <1>2, <1>4, <1>5 DEF TypeOK, Fan!FanTypeOK, Element
  <1>7. \A j \in Inputs : Accounted(j)'
    <2>1. CASE ~ctxDone
      BY <1>1, <1>4, <1>5, <2>1
      DEF Accounted, InFlight, TypeOK, Fan!FanTypeOK
    <2>2. CASE ctxDone
      BY <1>1, <1>4, <1>5, <2>2
      DEF Accounted, InFlight, TypeOK, Fan!FanTypeOK
    <2> QED
      BY <2>1, <2>2
  <1>8. InOrder'
    BY <1>4, <1>5 DEF InOrder
  <1>9. NoSendOnClosed'
    BY DEF NoSendOnClosed, TypeOK, Fan!FanTypeOK
  <1> QED
    BY <1>6, <1>7, <1>8, <1>9

LEMMA ReturnInv ==
    ASSUME IInv, RangeEnds \/ ReturnEarly \/ CallerCancels PROVE IInv'
  <1>1. /\ UNCHANGED <<sender, sent, fwd, held, outClosed, got>>
        /\ ctxDone' = TRUE
        /\ receiver' \in {"range", "returned"}
    BY DEF IInv, TypeOK, RangeEnds, ReturnEarly, CallerCancels
  <1>2. TypeOK'
    BY <1>1 DEF IInv, TypeOK, Fan!FanTypeOK, Element
  <1>3. \A i \in Inputs : Accounted(i)'
    BY <1>1 DEF IInv, Accounted, InFlight
  <1>4. InOrder' /\ NoSendOnClosed'
    BY <1>1 DEF IInv, InOrder, NoSendOnClosed
  <1> QED
    BY <1>2, <1>3, <1>4 DEF IInv

LEMMA FanStepInv ==
    ASSUME IInv, FanStep PROVE IInv'
  <1> USE DEF IInv, FanStep
  <1>1. ASSUME NEW i \in Inputs, Fan!GiveUp(i) PROVE IInv'
    BY <1>1 DEF Fan!GiveUp, TypeOK, Fan!FanTypeOK, Element, Accounted,
                InFlight, InOrder, NoSendOnClosed
  <1>2. ASSUME NEW i \in Inputs, Fan!Finish(i) PROVE IInv'
    BY <1>2 DEF Fan!Finish, TypeOK, Fan!FanTypeOK, Element, Accounted,
                InFlight, InOrder, NoSendOnClosed
  <1>3. CASE Fan!CloseOut
    BY <1>3 DEF Fan!CloseOut, TypeOK, Fan!FanTypeOK, Element, Accounted,
                InFlight, InOrder, NoSendOnClosed
  <1> QED
    BY <1>1, <1>2, <1>3 DEF Fan!FanStep

LEMMA StutterInv ==
    ASSUME IInv, UNCHANGED vars PROVE IInv'
  BY DEF IInv, vars, TypeOK, Fan!FanTypeOK, Element, Accounted,
         InFlight, InOrder, NoSendOnClosed

LEMMA IInvNext == IInv /\ [Next]_vars => IInv'
  BY SendResInv, SendCancelledInv, CloseInInv, ReceiveInv, ReturnInv,
     FanStepInv, StutterInv
  DEF Next, Sender, Receiver, Terminated

LEMMA IInvHolds == Spec => []IInv
  BY IInvInit, IInvNext, PTL DEF Spec

-----------------------------------------------------------------------------
\* The variables of a merged stream keep their types (the type invariant that
\* the run of MCRespipe checks on three inputs).
THEOREM TypeCorrect == Spec => []TypeOK
  <1>1. IInv => TypeOK
    BY DEF IInv
  <1> QED
    BY IInvHolds, <1>1, PTL

\* Exactly once and in order, for any number of inputs (the forwarders of the
\* merge functions in streams.go and pipe.go).
THEOREM OrderKept == Spec => []InOrder
  <1>1. IInv => InOrder
    BY DEF IInv
  <1> QED
    BY IInvHolds, <1>1, PTL

\* A closed merged stream that nobody cancelled delivered everything (the
\* WaitGroup in the merge functions).
THEOREM NoneLost == Spec => []NothingLost
  <1>1. IInv => NothingLost
    BY DEF IInv, NothingLost, Accounted, NoSendOnClosed
  <1> QED
    BY IInvHolds, <1>1, PTL

\* No forwarder ever sends on the closed output (close after wg.Wait).
THEOREM NoPanic == Spec => []NoSendOnClosed
  <1>1. IInv => NoSendOnClosed
    BY DEF IInv
  <1> QED
    BY IInvHolds, <1>1, PTL

\* The initial states map to initial states of the promise.
LEMMA PromiseInit == Init => Promise!MSInit
  BY DEF Init, Promise!MSInit, Fan!FanInit

\* Every step is a step of the promise or leaves its variables alone.
LEMMA PromiseStep ==
    IInv /\ [Next]_vars => [Promise!MSNext]_(Promise!msVars)
  <1> SUFFICES ASSUME IInv, [Next]_vars
               PROVE  [Promise!MSNext]_(Promise!msVars)
    OBVIOUS
  <1> USE DEF Promise!msVars
  <1>1. ASSUME NEW i \in Inputs, Sender(i) PROVE UNCHANGED Promise!msVars
    BY <1>1 DEF Sender, SendRes, SendCancelled, CloseIn, Fan!Take
  <1>2. CASE FanStep
    <2>1. CASE Fan!CloseOut
      <3>1. ctxDone \/ \A i \in Inputs : Len(got[i]) = Count[i]
        BY <2>1 DEF IInv, Accounted, Fan!CloseOut
      <3> QED
        BY <1>2, <2>1, <3>1
        DEF FanStep, Fan!CloseOut, Promise!MSNext, Promise!End
    <2>2. ASSUME NEW i \in Inputs, Fan!GiveUp(i) \/ Fan!Finish(i)
          PROVE  UNCHANGED Promise!msVars
      BY <1>2, <2>2 DEF FanStep, Fan!GiveUp, Fan!Finish
    <2> QED
      BY <1>2, <2>1, <2>2 DEF FanStep, Fan!FanStep
  <1>3. ASSUME NEW i \in Inputs, Receive(i) PROVE Promise!Deliver(i)
    <2>1. ~outClosed
      BY <1>3 DEF IInv, NoSendOnClosed, Receive, Fan!Hand
    <2>2. held[i] = <<i, Len(got[i]) + 1>> /\ sent[i] = Len(got[i]) + 1
      BY <1>3 DEF IInv, Accounted, InFlight, Receive, Fan!Hand
    <2>3. Len(got[i]) < Count[i]
      BY <2>2, CountAssumption DEF IInv, TypeOK
    <2> QED
      BY <1>3, <2>1, <2>2, <2>3 DEF Receive, Fan!Hand, Promise!Deliver
  <1>4. CASE RangeEnds \/ ReturnEarly \/ CallerCancels
    BY <1>4 DEF IInv, TypeOK, RangeEnds, ReturnEarly, CallerCancels,
                Promise!MSNext, Promise!Cancel
  <1>5. CASE UNCHANGED vars
    BY <1>5 DEF vars
  <1> QED
    BY <1>1, <1>2, <1>3, <1>4, <1>5
    DEF Next, Receiver, Terminated, Promise!MSNext

\* The goroutines implement the promise of a merged stream, for every set of
\* inputs (MergeResStreams, MergeErrStreams and their four twins).
THEOREM Implements == Spec => ImplementsPromise
  BY PromiseInit, PromiseStep, IInvHolds, PTL
  DEF Spec, ImplementsPromise, Promise!MSSafe
=============================================================================
