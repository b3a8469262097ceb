------------------------- MODULE AkPackageProofs ----------------------------
(***************************************************************************)
(* What the commands of ak that unpack, generate and split put into their  *)
(* outputs, for every AAR, list of packages, set of R.txt files and        *)
(* partition session, and whatever the schedule of their goroutines and    *)
(* the order of the maps they walk.                                        *)
(*                                                                         *)
(* A step of the tool is a step of one command or leaves its state as it   *)
(* is, and each command has an invariant of its own:                       *)
(*   - extractaar: what is copied and what is still to be copied are       *)
(*     together the groups of the AAR, and all of them are valid;          *)
(*   - rjar: the sources written are those of the plain packages before    *)
(*     the next one, in a list that has each package once;                 *)
(*   - finalrjar: the map has one resource for each type and ID of the     *)
(*     lines sent, and a closed channel means that all lines were;         *)
(*   - bucketize: at any moment an archive is the expected one, cut off in *)
(*     its last entry, and when PartitionSession.Close gives it its        *)
(*     directory it is complete; the command succeeds only with an archive *)
(*     for each output.                                                    *)
(* The last section has, for their TypeOK, what these do not say.          *)
(*                                                                         *)
(* The entries of an archive of a session have places: the number of those *)
(* that come before, plus one.  The keys are taken in an order in which    *)
(* none that is left comes before one that is flushed, so what stands      *)
(* before the entry of the key at hand is what is written (PsNext), and it *)
(* is appended at its place.  The values of a file are taken by their      *)
(* names in the same way: those written to an entry have the first ranks   *)
(* (PsRanks).                                                              *)
(***************************************************************************)
EXTENDS Ak, Recursion, SequenceTheorems, FiniteSetTheorems

-----------------------------------------------------------------------------
(* extractaar.go: the outputs have what the groups have, or nothing *)

LEMMA EaCardinality == \A S : extractaar!Cardinality(S) = Cardinality(S)
BY DEF Cardinality, extractaar!Cardinality

LEMMA EaSteps == [Next]_vars => [extractaar!Next]_eaVars
BY DEF Next, vars, runCmd, RunFinalrjar, RunGeneratemanifest, RunDex, RunExtractaar,
       RunRepack, RunRjar, RunNativelib, RunShellapk, RunPatch, RunManifest, RunCompile,
       RunLink, RunFlagfile, RunBucketize, RunSession, ArchiveReturns

EaFile == [group : STRING, id : Nat]
EaGroup(g) == {f \in EaFile : f.group = g}

\* The ids of the group g: in the AAR, and in what is still to be copied.
EaAll(g) == {f.id : f \in extractaar!Range(extractaar!groupAARFiles(g))}
EaIds(s, g) == {s[i].id : i \in {i \in DOMAIN s : s[i].group = g}}
EaLeft(g) == EaIds(eaCopy, g)
EaValid == \A g \in extractaar!Groups : extractaar!Valid(g)

EaTyped ==
    /\ eaCall \in AarCalls \cup {extractaar!NoCall}
    /\ eaPhase \in {"idle", "start", "validate", "copy", "res", "assets", "ok", "error"}
    /\ eaTodo \subseteq extractaar!Groups
    /\ eaCopy \in Seq({f \in EaFile : f.group \in extractaar!Groups})
    /\ eaErrs \in Seq(extractaar!Groups)
    /\ DOMAIN eaOut = extractaar!Groups
\* Before the copies, the outputs are empty.
EaFresh ==
    /\ eaPhase \in {"idle", "start"} => eaCopy = << >> /\ eaErrs = << >>
    /\ eaPhase \in {"idle", "start", "validate"} => eaOut = extractaar!NoOutput
\* The errors are of the groups that are not valid, and the others are to be copied.
EaValidating ==
    eaPhase = "validate" =>
        /\ \A i \in DOMAIN eaErrs : ~extractaar!Valid(eaErrs[i])
        /\ \A g \in extractaar!Groups \ eaTodo :
              IF extractaar!Valid(g) THEN EaLeft(g) = EaAll(g) ELSE eaErrs # << >>
        /\ \A g \in eaTodo : EaLeft(g) = {}
\* What is behind the validation has valid groups only.
EaPassed == eaPhase \in {"copy", "res", "assets", "ok"} => EaValid
\* Copied, or still to be copied.
EaCopying == eaPhase = "copy" => \A g \in extractaar!Groups : eaOut[g] \cup EaLeft(g) = EaAll(g)
EaFilled(g) == eaOut[g] = IF extractaar!groupAARFiles(g) = << >> THEN {extractaar!Placeholder}
                          ELSE EaAll(g)
EaCopied ==
    /\ eaPhase \in {"res", "assets", "ok"} => eaOut["manifest"] = EaAll("manifest")
    /\ IF eaPhase = "res" THEN eaOut["res"] = EaAll("res")
       ELSE eaPhase \in {"assets", "ok"} => EaFilled("res")
    /\ IF eaPhase = "ok" THEN EaFilled("assets")
       ELSE eaPhase \in {"res", "assets"} => eaOut["assets"] = EaAll("assets")
EaFailed == eaPhase = "error" /\ ~eaCall.ioFails => ~EaValid

EaInv == /\ EaTyped /\ EaFresh /\ EaValidating /\ EaPassed /\ EaCopying /\ EaCopied
         /\ EaFailed /\ extractaar!AllOrNothing

USE DEF extractaar!vars

\* A call as AarCallsAssumption has it.
LEMMA EaCallFacts ==
    ASSUME EaTyped
    PROVE  eaCall.files \in Seq(EaFile) /\ eaCall.ioFails \in BOOLEAN
<1>1. CASE eaCall \in AarCalls
    BY <1>1, AarCallsAssumption DEF EaFile
<1>2. CASE eaCall = extractaar!NoCall
    <2>1. eaCall.files = << >>
        BY <1>2 DEF extractaar!NoCall
    <2>2. eaCall.ioFails \in BOOLEAN
        BY <1>2 DEF extractaar!NoCall
    <2>. QED
        BY <2>1, <2>2
<1>. QED
    BY <1>1, <1>2 DEF EaTyped

\* The loop over the files puts each into its group, and nothing else.
LEMMA EaGroups ==
    ASSUME EaTyped
    PROVE  \A g \in extractaar!Groups : extractaar!groupAARFiles(g) \in Seq(EaGroup(g))
<1>. DEFINE n == Len(eaCall.files)
            G == extractaar!Groups
            f == extractaar!filesMap
            V == {m \in [G -> Seq(EaFile)] : \A g \in G : m[g] \in Seq(EaGroup(g))}
            v0 == [g \in G |-> << >>]
            Put(k, v) == IF eaCall.files[k].group \in G
                         THEN [v EXCEPT ![eaCall.files[k].group] = Append(@, eaCall.files[k])]
                         ELSE v
            step == [kv \in (1..n) \X V |-> Put(kv[1], kv[2])]
            Def(h) == [k \in 0..n |-> IF k = 0 THEN v0 ELSE Put(k, h[k - 1])]
<1>1. n \in Nat /\ \A k \in 1..n : eaCall.files[k] \in EaFile
    BY EaCallFacts
<1>2. v0 \in V
    <2>1. \A S : << >> \in Seq(S)
        OBVIOUS
    <2>2. v0 \in [G -> Seq(EaFile)] /\ \A g \in G : v0[g] = << >>
        BY <2>1
    <2>. QED
        BY <2>1, <2>2
<1>3. ASSUME NEW k \in 1..n, NEW v \in V PROVE Put(k, v) \in V
    <2>. DEFINE x == eaCall.files[k]
    <2>1. CASE x.group \in G
        <3>1. x \in EaFile /\ x \in EaGroup(x.group)
            BY <1>1 DEF EaGroup
        <3>2. /\ Append(v[x.group], x) \in Seq(EaFile)
              /\ Append(v[x.group], x) \in Seq(EaGroup(x.group))
            BY <2>1, <3>1
        <3>. HIDE DEF x
        <3>3. [v EXCEPT ![x.group] = Append(@, x)] \in V
            BY <2>1, <3>2
        <3>. QED
            BY <2>1, <3>3 DEF x
    <2>2. CASE x.group \notin G
        BY <2>2
    <2>. QED
        BY <2>1, <2>2
<1>4. \A k \in 1..n, v \in V : step[<<k, v>>] = Put(k, v) /\ step[<<k, v>>] \in V
    BY <1>3
<1>. HIDE DEF step, V, v0, Put
<1>5. PICK h : Recursive(h, n, V, v0, step)
    <2>1. Steps(n, V, step)
        BY <1>4 DEF Steps
    <2>. QED
        BY <1>1, <1>2, <2>1, PrimitiveRecursion
<1>6. h = Def(h)
    <2>1. \A k \in 0..n : k # 0 => k \in 1..n
        BY <1>1
    <2>2. ASSUME NEW k \in 1..n PROVE h[k] = Put(k, h[k - 1])
        <3>1. k - 1 \in 0..n
            BY <1>1
        <3>2. h[k - 1] \in V /\ h[k] = step[<<k, h[k - 1]>>]
            BY <1>5, <3>1 DEF Recursive
        <3>. QED
            BY <1>4, <3>2
    <2>. QED
        BY <1>5, <2>1, <2>2 DEF Recursive
<1>7. f = CHOOSE e : e = Def(e)
    BY DEF extractaar!filesMap, Put, v0
<1>8. f = Def(f)
    BY <1>6, <1>7
<1>. HIDE DEF f
<1>9. \A k \in 0..n : f[k] \in V
    <2>. DEFINE T == {k \in 0..n : f[k] \in V}
    <2>1. 0 \in T
        BY <1>1, <1>2, <1>8
    <2>2. ASSUME NEW k \in 0..n, k # n, k \in T PROVE k + 1 \in T
        <3>1. k + 1 \in 0..n /\ k + 1 \in 1..n /\ k + 1 # 0 /\ (k + 1) - 1 = k
            BY <1>1, <2>2
        <3>2. f[k + 1] = Put(k + 1, f[k])
            BY <1>8, <3>1
        <3>3. Put(k + 1, f[k]) \in V
            BY <1>4, <2>2, <3>1
        <3>. QED
            BY <3>1, <3>2, <3>3
    <2>. HIDE DEF T
    <2>3. 0..n \subseteq T
        BY <1>1, <2>1, <2>2, Reaches
    <2>. QED
        BY <2>3 DEF T
<1>10. f[n] \in V /\ \A g \in G : extractaar!groupAARFiles(g) = f[n][g]
    BY <1>1, <1>9 DEF extractaar!groupAARFiles, f
<1>. QED
    BY <1>10 DEF V

\* The groups stay as they are while the call does.
LEMMA EaSame ==
    ASSUME eaCall' = eaCall
    PROVE  /\ \A g : extractaar!groupAARFiles(g)' = extractaar!groupAARFiles(g)
           /\ \A g : extractaar!Valid(g)' = extractaar!Valid(g)
           /\ \A g : EaAll(g)' = EaAll(g)
           /\ EaValid' = EaValid
<1>1. extractaar!filesMap' = extractaar!filesMap
    BY DEF extractaar!filesMap
<1>2. \A g : extractaar!groupAARFiles(g)' = extractaar!groupAARFiles(g)
    BY <1>1 DEF extractaar!groupAARFiles
<1>3. \A g : extractaar!Valid(g)' = extractaar!Valid(g)
    BY <1>2 DEF extractaar!Valid
<1>4. \A g : EaAll(g)' = EaAll(g)
    BY <1>2 DEF EaAll, extractaar!Range
<1>. QED
    BY <1>2, <1>3, <1>4 DEF EaValid

LEMMA EaInitial == Init => EaInv
<1>. SUFFICES ASSUME Init PROVE EaInv
    OBVIOUS
<1>1. /\ eaCall = extractaar!NoCall /\ eaPhase = "idle" /\ eaTodo = {}
      /\ eaCopy = << >> /\ eaErrs = << >> /\ eaOut = extractaar!NoOutput
    BY DEF Init, extractaar!Init
<1>2. eaCopy \in Seq({f \in EaFile : f.group \in extractaar!Groups})
      /\ eaErrs \in Seq(extractaar!Groups) /\ DOMAIN eaOut = extractaar!Groups
    BY <1>1 DEF extractaar!NoOutput
<1>. QED
    BY <1>1, <1>2 DEF EaInv, EaTyped, EaFresh, EaValidating, EaPassed, EaCopying, EaCopied,
                      EaFailed, extractaar!AllOrNothing

LEMMA EaRun == EaInv /\ extractaar!Run => EaInv'
BY DEF extractaar!Run, EaInv, EaTyped, EaFresh, EaValidating, EaPassed, EaCopying, EaCopied,
       EaFailed, extractaar!AllOrNothing, extractaar!NoOutput, extractaar!Groups

LEMMA EaStart == EaInv /\ extractaar!extractAAR => EaInv'
<1>. SUFFICES ASSUME EaInv, extractaar!extractAAR PROVE EaInv'
    OBVIOUS
<1>1. /\ eaPhase = "start" /\ eaPhase' = "validate" /\ eaTodo' = extractaar!Groups
      /\ eaCall' = eaCall /\ eaCopy' = eaCopy /\ eaErrs' = eaErrs /\ eaOut' = eaOut
    BY DEF extractaar!extractAAR
<1>2. eaCopy = << >> /\ eaErrs = << >> /\ eaOut = extractaar!NoOutput
    BY <1>1 DEF EaInv, EaFresh
<1>3. EaValidating'
    <2>1. \A g : EaLeft(g)' = {}
        BY <1>1, <1>2 DEF EaLeft, EaIds
    <2>. QED
        BY <1>1, <1>2, <2>1 DEF EaValidating
<1>. QED
    BY <1>1, <1>2, <1>3 DEF EaInv, EaTyped, EaFresh, EaPassed, EaCopying, EaCopied, EaFailed,
                            extractaar!AllOrNothing, extractaar!NoOutput

\* c is s with t behind it.
EaJoined(c, s, t) ==
    /\ Len(s) \in Nat /\ Len(t) \in Nat
    /\ DOMAIN s = 1..Len(s) /\ DOMAIN t = 1..Len(t) /\ DOMAIN c = 1..(Len(s) + Len(t))
    /\ \A i \in 1..(Len(s) + Len(t)) : c[i] = IF i <= Len(s) THEN s[i] ELSE t[i - Len(s)]

\* It has the ids of both.
LEMMA EaConcat ==
    ASSUME NEW s, NEW t, NEW c, NEW g, EaJoined(c, s, t)
    PROVE  EaIds(c, g) = EaIds(s, g) \cup EaIds(t, g)
<1>. DEFINE A == EaIds(c, g)
            B == EaIds(s, g)
            C == EaIds(t, g)
<1>1. /\ Len(s) \in Nat /\ Len(t) \in Nat
      /\ DOMAIN s = 1..Len(s) /\ DOMAIN t = 1..Len(t) /\ DOMAIN c = 1..(Len(s) + Len(t))
      /\ \A i \in 1..(Len(s) + Len(t)) : c[i] = IF i <= Len(s) THEN s[i] ELSE t[i - Len(s)]
    BY DEF EaJoined
<1>2. \A i \in DOMAIN c : c[i].group = g => c[i].id \in B \cup C
    <2>. SUFFICES ASSUME NEW i \in DOMAIN c, c[i].group = g PROVE c[i].id \in B \cup C
        OBVIOUS
    <2>1. CASE i <= Len(s)
        <3>1. i \in DOMAIN s /\ c[i] = s[i]
            BY <1>1, <2>1
        <3>. QED
            BY <3>1 DEF EaIds
    <2>2. CASE ~(i <= Len(s))
        <3>1. i - Len(s) \in DOMAIN t /\ c[i] = t[i - Len(s)]
            BY <1>1, <2>2
        <3>. QED
            BY <3>1 DEF EaIds
    <2>. QED
        BY <2>1, <2>2
<1>3. \A i \in DOMAIN s : s[i].group = g => s[i].id \in A
    <2>1. \A i \in DOMAIN s : i \in DOMAIN c /\ c[i] = s[i]
        BY <1>1
    <2>. QED
        BY <2>1 DEF EaIds
<1>4. \A i \in DOMAIN t : t[i].group = g => t[i].id \in A
    <2>1. \A i \in DOMAIN t : Len(s) + i \in DOMAIN c /\ c[Len(s) + i] = t[i]
        BY <1>1
    <2>. QED
        BY <2>1 DEF EaIds
<1>5. A \subseteq B \cup C
    BY <1>2 DEF EaIds
<1>6. B \subseteq A /\ C \subseteq A
    BY <1>3, <1>4 DEF EaIds
<1>. QED
    BY <1>5, <1>6

LEMMA EaValidates == EaInv /\ (\E g \in extractaar!Groups : extractaar!Validate(g)) => EaInv'
<1>. SUFFICES ASSUME EaInv, NEW g \in extractaar!Groups, extractaar!Validate(g) PROVE EaInv'
    OBVIOUS
<1>. DEFINE s == extractaar!groupAARFiles(g)
            ok == extractaar!Valid(g)
            E == {f \in EaFile : f.group \in extractaar!Groups}
<1>1. /\ eaPhase = "validate" /\ g \in eaTodo /\ eaTodo' = eaTodo \ {g}
      /\ eaCopy' = (IF ok THEN eaCopy \o s ELSE eaCopy)
      /\ eaErrs' = (IF ok THEN eaErrs ELSE Append(eaErrs, g))
      /\ eaPhase' = (IF eaTodo' # {} THEN eaPhase
                     ELSE IF eaErrs' # << >> THEN "error" ELSE "copy")
      /\ eaCall' = eaCall /\ eaOut' = eaOut
    BY DEF extractaar!Validate
<1>2. EaTyped /\ EaValidating /\ eaOut = extractaar!NoOutput
    BY <1>1 DEF EaInv, EaFresh
<1>3. s \in Seq(EaGroup(g)) /\ s \in Seq(E)
    <2>1. s \in Seq(EaGroup(g))
        BY <1>2, EaGroups
    <2>2. EaGroup(g) \subseteq E
        BY DEF EaGroup
    <2>. QED
        BY <2>1, <2>2
<1>4. eaCopy \in Seq(E) /\ eaErrs \in Seq(extractaar!Groups)
    BY <1>2 DEF EaTyped
<1>5. /\ \A x : extractaar!groupAARFiles(x)' = extractaar!groupAARFiles(x)
      /\ \A x : extractaar!Valid(x)' = extractaar!Valid(x)
      /\ \A x : EaAll(x)' = EaAll(x)
      /\ EaValid' = EaValid
    BY <1>1, EaSame
<1>6. EaTyped'
    <2>1. eaCopy' \in Seq(E)
        BY <1>1, <1>3, <1>4
    <2>2. eaErrs' \in Seq(extractaar!Groups)
        BY <1>1, <1>4
    <2>. QED
        BY <1>1, <1>2, <2>1, <2>2 DEF EaTyped
<1>7. /\ \A i \in DOMAIN eaErrs' : ~extractaar!Valid(eaErrs'[i])
      /\ ~ok => eaErrs' # << >>
      /\ eaErrs # << >> => eaErrs' # << >>
    <2>1. CASE ok
        BY <1>1, <1>2, <2>1 DEF EaValidating
    <2>2. CASE ~ok
        <3>1. eaErrs' = Append(eaErrs, g)
            BY <1>1, <2>2
        <3>2. /\ \A i \in DOMAIN eaErrs' :
                    \/ i \in DOMAIN eaErrs /\ eaErrs'[i] = eaErrs[i]
                    \/ eaErrs'[i] = g
              /\ eaErrs' # << >>
            BY <1>4, <3>1
        <3>. QED
            BY <1>1, <1>2, <2>2, <3>2 DEF EaValidating
    <2>. QED
        BY <2>1, <2>2
<1>8. \A x \in extractaar!Groups : EaLeft(x)' = IF ok /\ x = g THEN EaAll(g) ELSE EaLeft(x)
    <2>1. CASE ~ok
        BY <1>1, <2>1 DEF EaLeft, EaIds
    <2>2. ASSUME ok, NEW x \in extractaar!Groups
          PROVE  EaLeft(x)' = IF x = g THEN EaAll(g) ELSE EaLeft(x)
        <3>1. eaCopy' = eaCopy \o s
            BY <1>1, <2>2
        <3>2. EaLeft(x)' = EaLeft(x) \cup EaIds(s, x)
            <4>. HIDE DEF s
            <4>1. PICK c, k, r : c = eaCopy' /\ k = eaCopy /\ r = s
                OBVIOUS
            <4>2. k \in Seq(E) /\ r \in Seq(E) /\ c = k \o r
                BY <1>3, <1>4, <3>1, <4>1
            <4>3. EaJoined(c, k, r)
                BY <4>2 DEF EaJoined
            <4>4. EaIds(c, x) = EaIds(k, x) \cup EaIds(r, x)
                BY <4>3, EaConcat
            <4>. QED
                BY <4>1, <4>4 DEF EaLeft
        <3>3. \A i \in DOMAIN s : s[i].group = g
            BY <1>3 DEF EaGroup
        <3>4. CASE x = g
            <4>1. EaLeft(x) = {}
                BY <1>1, <1>2, <3>4 DEF EaValidating
            <4>2. EaIds(s, x) = EaAll(g)
                BY <3>3, <3>4 DEF EaIds, EaAll, extractaar!Range
            <4>. QED
                BY <3>2, <3>4, <4>1, <4>2
        <3>5. CASE x # g
            <4>1. EaIds(s, x) = {}
                BY <3>3, <3>5 DEF EaIds
            <4>. QED
                BY <3>2, <3>5, <4>1
        <3>. QED
            BY <3>4, <3>5
    <2>. QED
        BY <2>1, <2>2
<1>. HIDE DEF s, ok
<1>9. \A x \in extractaar!Groups \ eaTodo' :
         IF extractaar!Valid(x) THEN EaLeft(x)' = EaAll(x) ELSE eaErrs' # << >>
    <2>. TAKE x \in extractaar!Groups \ eaTodo'
    <2>1. CASE x = g
        BY <1>7, <1>8, <2>1 DEF ok
    <2>2. CASE x # g
        <3>1. x \in extractaar!Groups \ eaTodo
            BY <1>1, <2>2
        <3>2. IF extractaar!Valid(x) THEN EaLeft(x) = EaAll(x) ELSE eaErrs # << >>
            BY <1>1, <1>2, <3>1 DEF EaValidating
        <3>. QED
            BY <1>7, <1>8, <2>2, <3>2
    <2>. QED
        BY <2>1, <2>2
<1>10. \A x \in eaTodo' : EaLeft(x)' = {}
    BY <1>1, <1>2, <1>8 DEF EaValidating, EaTyped
<1>11. EaValidating'
    BY <1>5, <1>7, <1>9, <1>10 DEF EaValidating
<1>12. eaPhase' = "copy" => EaValid
    <2>1. eaPhase' = "copy" => eaTodo' = {} /\ eaErrs' = << >>
        BY <1>1
    <2>. QED
        BY <1>9, <2>1 DEF EaValid
<1>13. EaCopying'
    <2>1. eaPhase' = "copy" => eaTodo' = {}
        BY <1>1
    <2>2. eaPhase' = "copy" => \A x \in extractaar!Groups : EaLeft(x)' = EaAll(x)
        BY <1>9, <1>12, <2>1 DEF EaValid
    <2>3. \A x \in extractaar!Groups : eaOut'[x] = {}
        BY <1>1, <1>2 DEF extractaar!NoOutput
    <2>. QED
        BY <1>5, <2>2, <2>3 DEF EaCopying
<1>14. eaPhase' = "error" => ~EaValid
    <2>1. eaPhase' = "error" => eaErrs' # << >>
        BY <1>1
    <2>2. eaErrs' # << >> => 1 \in DOMAIN eaErrs' /\ eaErrs'[1] \in extractaar!Groups
        BY <1>6 DEF EaTyped
    <2>. QED
        BY <1>7, <2>1, <2>2 DEF EaValid
<1>15. eaPhase' \in {"validate", "copy", "error"}
    BY <1>1
<1>. QED
    BY <1>1, <1>2, <1>5, <1>6, <1>11, <1>12, <1>13, <1>14, <1>15
       DEF EaInv, EaFresh, EaPassed, EaCopied, EaFailed, extractaar!AllOrNothing,
           extractaar!NoOutput

LEMMA EaCopyFile == EaInv /\ extractaar!copyFile => EaInv'
<1>. SUFFICES ASSUME EaInv, extractaar!copyFile PROVE EaInv'
    OBVIOUS
<1>. DEFINE E == {f \in EaFile : f.group \in extractaar!Groups}
<1>1. /\ eaPhase = "copy" /\ eaPhase' = "copy" /\ eaCopy # << >> /\ eaCopy' = Tail(eaCopy)
      /\ eaOut' = [eaOut EXCEPT ![eaCopy[1].group] = @ \cup {eaCopy[1].id}]
      /\ eaCall' = eaCall /\ eaTodo' = eaTodo /\ eaErrs' = eaErrs
    BY DEF extractaar!copyFile
<1>2. EaTyped /\ EaValid
    BY <1>1 DEF EaInv, EaPassed
<1>3. eaCopy \in Seq(E)
    BY <1>2 DEF EaTyped
<1>4. /\ \A x : EaAll(x)' = EaAll(x)
      /\ EaValid' = EaValid
    BY <1>1, EaSame
<1>5. EaTyped'
    <2>1. Tail(eaCopy) \in Seq(E)
        BY <1>1, <1>3
    <2>. QED
        BY <1>1, <1>2, <2>1 DEF EaTyped
<1>6. /\ Len(eaCopy) \in Nat /\ 1 \in DOMAIN eaCopy /\ DOMAIN eaCopy = 1..Len(eaCopy)
      /\ DOMAIN eaCopy' = 1..(Len(eaCopy) - 1)
      /\ \A i \in DOMAIN eaCopy' : eaCopy'[i] = eaCopy[i + 1]
    BY <1>1, <1>3
<1>7. ASSUME NEW g \in extractaar!Groups
      PROVE  EaLeft(g) = EaLeft(g)' \cup (IF eaCopy[1].group = g THEN {eaCopy[1].id} ELSE {})
    <2>1. PICK c : c = eaCopy'
        OBVIOUS
    <2>2. /\ DOMAIN c = 1..(Len(eaCopy) - 1)
          /\ \A i \in DOMAIN c : c[i] = eaCopy[i + 1]
        BY <1>6, <2>1
    <2>3. \A i \in DOMAIN c : i + 1 \in DOMAIN eaCopy
        BY <1>6, <2>2
    <2>4. \A i \in DOMAIN eaCopy : i # 1 => i - 1 \in DOMAIN c /\ c[i - 1] = eaCopy[i]
        BY <1>6, <2>2
    <2>5. EaLeft(g)' = EaIds(c, g)
        BY <2>1 DEF EaLeft
    <2>. QED
        BY <1>6, <2>2, <2>3, <2>4, <2>5 DEF EaLeft, EaIds
<1>8. \A g \in extractaar!Groups :
        eaOut'[g] = eaOut[g] \cup (IF eaCopy[1].group = g THEN {eaCopy[1].id} ELSE {})
    BY <1>1, <1>2 DEF EaTyped
<1>9. EaCopying'
    <2>1. \A g \in extractaar!Groups : eaOut[g] \cup EaLeft(g) = EaAll(g)
        BY <1>1 DEF EaInv, EaCopying
    <2>2. \A g \in extractaar!Groups : eaOut'[g] \cup EaLeft(g)' = EaAll(g)
        BY <1>7, <1>8, <2>1
    <2>. QED
        BY <1>4, <2>2 DEF EaCopying
<1>10. extractaar!AllOrNothing'
    BY <1>2, <1>4 DEF extractaar!AllOrNothing, EaValid
<1>. QED
    BY <1>1, <1>2, <1>4, <1>5, <1>9, <1>10
       DEF EaInv, EaFresh, EaValidating, EaPassed, EaCopied, EaFailed

\* A group is empty if and only if it has no ids.
LEMMA EaEmpty ==
    ASSUME EaTyped, NEW g \in extractaar!Groups
    PROVE  EaAll(g) = {} <=> extractaar!groupAARFiles(g) = << >>
<1>. DEFINE s == extractaar!groupAARFiles(g)
<1>1. s \in Seq(EaGroup(g))
    BY EaGroups
<1>. HIDE DEF s
<1>2. s # << >> => 1 \in DOMAIN s
    BY <1>1
<1>3. EaAll(g) = {s[i].id : i \in DOMAIN s}
    BY DEF EaAll, s, extractaar!Range
<1>4. s = << >> => DOMAIN s = {}
    OBVIOUS
<1>5. EaAll(g) = {} <=> s = << >>
    BY <1>2, <1>3, <1>4
<1>. QED
    BY <1>5 DEF s

LEMMA EaFinish ==
    EaInv /\ (\/ extractaar!Copied \/ extractaar!createIfEmpty("res", "assets")
             \/ extractaar!createIfEmpty("assets", "ok")) => EaInv'
<1>. SUFFICES ASSUME EaInv, \/ extractaar!Copied \/ extractaar!createIfEmpty("res", "assets")
                            \/ extractaar!createIfEmpty("assets", "ok")
              PROVE  EaInv'
    OBVIOUS
<1>1. /\ eaPhase \in {"copy", "res", "assets"} /\ eaPhase' \in {"res", "assets", "ok"}
      /\ eaCall' = eaCall /\ eaTodo' = eaTodo /\ eaErrs' = eaErrs /\ eaCopy' = eaCopy
      /\ DOMAIN eaOut' = DOMAIN eaOut
    BY DEF extractaar!Copied, extractaar!createIfEmpty
<1>2. EaTyped /\ EaValid
    BY <1>1 DEF EaInv, EaPassed
<1>3. /\ \A x : extractaar!groupAARFiles(x)' = extractaar!groupAARFiles(x)
      /\ \A x : EaAll(x)' = EaAll(x)
      /\ EaValid' = EaValid
    BY <1>1, EaSame
<1>4. EaTyped'
    BY <1>1, <1>2 DEF EaTyped
<1>5. EaCopied'
    <2>1. {"manifest", "res", "assets"} = extractaar!Groups
        BY DEF extractaar!Groups
    <2>2. CASE extractaar!Copied
        <3>1. /\ eaPhase = "copy" /\ eaPhase' = "res" /\ eaCopy = << >> /\ eaOut' = eaOut
            BY <2>2 DEF extractaar!Copied
        <3>2. \A g \in extractaar!Groups : EaLeft(g) = {}
            BY <3>1 DEF EaLeft, EaIds
        <3>3. \A g \in extractaar!Groups : eaOut[g] = EaAll(g)
            BY <3>1, <3>2 DEF EaInv, EaCopying
        <3>. QED
            BY <1>3, <2>1, <3>1, <3>3 DEF EaCopied
    <2>3. CASE extractaar!createIfEmpty("res", "assets")
        <3>1. /\ eaPhase = "res" /\ eaPhase' = "assets"
              /\ eaOut' = IF eaOut["res"] = {}
                          THEN [eaOut EXCEPT !["res"] = {extractaar!Placeholder}] ELSE eaOut
            BY <2>3 DEF extractaar!createIfEmpty
        <3>2. /\ eaOut["manifest"] = EaAll("manifest") /\ eaOut["res"] = EaAll("res")
              /\ eaOut["assets"] = EaAll("assets")
            BY <3>1 DEF EaInv, EaCopied
        <3>3. EaAll("res") = {} <=> extractaar!groupAARFiles("res") = << >>
            BY <1>2, <2>1, EaEmpty
        <3>4. /\ eaOut'["manifest"] = eaOut["manifest"] /\ eaOut'["assets"] = eaOut["assets"]
              /\ eaOut'["res"] = IF eaOut["res"] = {} THEN {extractaar!Placeholder} ELSE eaOut["res"]
            BY <1>2, <2>1, <3>1 DEF EaTyped
        <3>. QED
            BY <1>3, <3>1, <3>2, <3>3, <3>4 DEF EaCopied, EaFilled, extractaar!Placeholder
    <2>4. CASE extractaar!createIfEmpty("assets", "ok")
        <3>1. /\ eaPhase = "assets" /\ eaPhase' = "ok"
              /\ eaOut' = IF eaOut["assets"] = {}
                          THEN [eaOut EXCEPT !["assets"] = {extractaar!Placeholder}] ELSE eaOut
            BY <2>4 DEF extractaar!createIfEmpty
        <3>2. /\ eaOut["manifest"] = EaAll("manifest") /\ EaFilled("res")
              /\ eaOut["assets"] = EaAll("assets")
            BY <3>1 DEF EaInv, EaCopied
        <3>3. EaAll("assets") = {} <=> extractaar!groupAARFiles("assets") = << >>
            BY <1>2, <2>1, EaEmpty
        <3>4. /\ eaOut'["manifest"] = eaOut["manifest"] /\ eaOut'["res"] = eaOut["res"]
              /\ eaOut'["assets"] = IF eaOut["assets"] = {} THEN {extractaar!Placeholder}
                                    ELSE eaOut["assets"]
            BY <1>2, <2>1, <3>1 DEF EaTyped
        <3>. QED
            BY <1>3, <3>1, <3>2, <3>3, <3>4 DEF EaCopied, EaFilled, extractaar!Placeholder
    <2>. QED
        BY <2>2, <2>3, <2>4
<1>6. extractaar!AllOrNothing'
    BY <1>2, <1>3 DEF extractaar!AllOrNothing, EaValid
<1>. QED
    BY <1>1, <1>2, <1>3, <1>4, <1>5, <1>6
       DEF EaInv, EaFresh, EaValidating, EaPassed, EaCopying, EaFailed

LEMMA EaFails == EaInv /\ (extractaar!Fails \/ UNCHANGED eaVars) => EaInv'
<1>1. ASSUME EaInv, extractaar!Fails PROVE EaInv'
    <2>1. /\ eaPhase \in {"start", "copy", "res", "assets"} /\ eaPhase' = "error"
          /\ eaCall.ioFails = TRUE
          /\ eaCall' = eaCall /\ eaTodo' = eaTodo /\ eaErrs' = eaErrs /\ eaCopy' = eaCopy
          /\ DOMAIN eaOut' = DOMAIN eaOut /\ (eaPhase # "copy" => eaOut' = eaOut)
        BY <1>1, EaCallFacts DEF extractaar!Fails, EaInv
    <2>2. /\ \A x : extractaar!Valid(x)' = extractaar!Valid(x)
          /\ EaValid' = EaValid
        BY <2>1, EaSame
    <2>3. EaTyped'
        BY <1>1, <2>1 DEF EaInv, EaTyped
    <2>4. extractaar!AllOrNothing'
        <3>1. CASE eaPhase = "start"
            BY <1>1, <2>1, <3>1 DEF extractaar!AllOrNothing, EaInv, EaFresh, extractaar!NoOutput
        <3>2. CASE eaPhase # "start"
            BY <1>1, <2>1, <2>2, <3>2 DEF extractaar!AllOrNothing, EaInv, EaPassed, EaValid
        <3>. QED
            BY <3>1, <3>2
    <2>. QED
        BY <2>1, <2>3, <2>4 DEF EaInv, EaFresh, EaValidating, EaPassed, EaCopying, EaCopied,
                                EaFailed
<1>2. ASSUME EaInv, UNCHANGED eaVars PROVE EaInv'
    <2>1. /\ eaCall' = eaCall /\ eaPhase' = eaPhase /\ eaTodo' = eaTodo /\ eaErrs' = eaErrs
          /\ eaCopy' = eaCopy /\ eaOut' = eaOut
        BY <1>2 DEF eaVars
    <2>2. /\ \A x : extractaar!groupAARFiles(x)' = extractaar!groupAARFiles(x)
          /\ \A x : extractaar!Valid(x)' = extractaar!Valid(x)
          /\ \A x : EaAll(x)' = EaAll(x)
          /\ EaValid' = EaValid
        BY <2>1, EaSame
    <2>3. \A x : EaLeft(x)' = EaLeft(x)
        BY <2>1 DEF EaLeft, EaIds
    <2>. QED
        BY <1>2, <2>1, <2>2, <2>3
           DEF EaInv, EaTyped, EaFresh, EaValidating, EaPassed, EaCopying, EaCopied, EaFilled,
               EaFailed, extractaar!AllOrNothing, extractaar!NoOutput
<1>. QED
    BY <1>1, <1>2

LEMMA EaInductive == EaInv /\ [extractaar!Next]_eaVars => EaInv'
BY EaRun, EaStart, EaValidates, EaCopyFile, EaFinish, EaFails DEF extractaar!Next

\* The invariant says what the properties say.
LEMMA EaImplies == EaInv => OutputsRight
<1>. SUFFICES ASSUME EaInv PROVE extractaar!OutputsRight
    BY DEF OutputsRight, EaInv
<1>. DEFINE s(g) == extractaar!groupAARFiles(g)
<1>1. EaTyped /\ {"manifest", "res", "assets"} = extractaar!Groups
    BY DEF EaInv, extractaar!Groups
<1>2. \A g \in extractaar!Groups : s(g) \in Seq(EaGroup(g))
    BY <1>1, EaGroups
<1>3. \A g \in extractaar!Groups : Len(s(g)) \in Nat /\ (Len(s(g)) = 0 <=> s(g) = << >>)
    BY <1>2
<1>4. eaPhase = "ok" => /\ extractaar!Cardinality(eaOut["manifest"]) = 1
                        /\ \A g \in extractaar!Groups : EaFilled(g)
    <2>. SUFFICES ASSUME eaPhase = "ok"
                  PROVE  /\ extractaar!Cardinality(eaOut["manifest"]) = 1
                         /\ \A g \in extractaar!Groups : EaFilled(g)
        OBVIOUS
    <2>1. EaFilled("res") /\ EaFilled("assets") /\ eaOut["manifest"] = EaAll("manifest")
        BY DEF EaInv, EaCopied
    <2>2. Len(s("manifest")) = 1
        <3>1. extractaar!Valid("manifest")
            BY <1>1 DEF EaInv, EaPassed, EaValid
        <3>. QED
            BY <3>1 DEF extractaar!Valid
    <2>3. EaAll("manifest") = {s("manifest")[1].id}
        <3>1. s("manifest") \in Seq(EaGroup("manifest"))
            BY <1>1, <1>2
        <3>2. DOMAIN s("manifest") = {1}
            BY <2>2, <3>1
        <3>. QED
            BY <3>2 DEF EaAll, extractaar!Range
    <2>4. extractaar!Cardinality(EaAll("manifest")) = 1
        BY <2>3, FS_Singleton, EaCardinality
    <2>5. EaFilled("manifest")
        <3>1. s("manifest") # << >>
            BY <1>1, <1>3, <2>2
        <3>. QED
            BY <2>1, <3>1 DEF EaFilled
    <2>. QED
        BY <1>1, <2>1, <2>4, <2>5
<1>5. eaPhase = "error" /\ ~eaCall.ioFails =>
        \/ Len(s("manifest")) # 1
        \/ \E g \in {"res", "assets"} :
              \/ eaCall.has[g] = 1 /\ s(g) = << >>
              \/ eaCall.has[g] = -1 /\ s(g) # << >>
    <2>. SUFFICES ASSUME eaPhase = "error", ~eaCall.ioFails, Len(s("manifest")) = 1
                  PROVE  \E g \in {"res", "assets"} :
                            \/ eaCall.has[g] = 1 /\ s(g) = << >>
                            \/ eaCall.has[g] = -1 /\ s(g) # << >>
        OBVIOUS
    <2>1. PICK g \in extractaar!Groups : ~extractaar!Valid(g)
        BY DEF EaInv, EaFailed, EaValid
    <2>2. g # "manifest" /\ g \in {"res", "assets"}
        BY <1>1, <2>1 DEF extractaar!Valid
    <2>3. /\ eaCall.has[g] \in {1, -1}
          /\ ~((Len(s(g)) > 0) <=> (eaCall.has[g] = 1))
        BY <2>1, <2>2 DEF extractaar!Valid, extractaar!isSet
    <2>. QED
        BY <1>3, <2>1, <2>2, <2>3
<1>. QED
    BY <1>4, <1>5 DEF extractaar!OutputsRight, EaFilled, EaAll

\* Whatever the order of the groups: extractaar leaves the files of a valid AAR in its outputs,
\* and no file of another.
THEOREM OutputsAreRight == FairSpec => []OutputsRight
BY EaInitial, EaSteps, EaInductive, EaImplies, PTL DEF FairSpec

-----------------------------------------------------------------------------
(* rjar.go: each package gets its R class, and the first has the classes *)

LEMMA RjSteps == [Next]_vars => [rjar!Next]_rjVars
BY DEF Next, vars, runCmd, RunFinalrjar, RunGeneratemanifest, RunDex, RunExtractaar,
       RunRepack, RunRjar, RunNativelib, RunShellapk, RunPatch, RunManifest, RunCompile,
       RunLink, RunFlagfile, RunBucketize, RunSession, ArchiveReturns

LEMMA RjCardinality == \A S : rjar!Cardinality(S) = Cardinality(S)
BY DEF Cardinality, rjar!Cardinality

RjPkg == [name : STRING, kind : {"odd", "reserved", "long", "plain"}]
RjAll == rjCall.pkgs
\* The packages that are to be written, and how many of them were.
RjList == rjar!pkgs[Len(RjAll)]
RjCount == Len(RjList) - Len(rjTodo)
RjWritten == {RjList[j] : j \in {j \in 1..RjCount : RjList[j].kind = "plain"}}

\* The list ps of the first n packages: each is there once, and stands behind all but odd
\* ones that come before it.
RjListed(ps, n) ==
    /\ ps \in Seq(RjPkg)
    /\ \A j \in DOMAIN ps : ps[j].kind # "odd"
    /\ \A j, k \in DOMAIN ps : ps[j] = ps[k] => j = k
    /\ \A i \in 1..n : RjAll[i].kind # "odd" => \E j \in DOMAIN ps : ps[j] = RjAll[i]
    /\ \A j \in DOMAIN ps : \E i \in 1..n :
          /\ RjAll[i] = ps[j]
          /\ \A k \in 1..(i - 1) : RjAll[k].kind = "odd"
                                      \/ \E l \in 1..(j - 1) : ps[l] = RjAll[k]

RjSource == [pkg : STRING, base : STRING, cut : BOOLEAN,
             classes : {<< >>, rjCall.classes, rjar!Scanned(rjCall.classes)}]
RjTyped ==
    /\ rjCall \in RJavaCalls \cup {rjar!NoCall}
    /\ rjPhase \in {"idle", "start", "write", "compile", "ok", "error"}
    /\ rjSrcs \in Seq(RjSource)
RjFresh == rjPhase \in {"idle", "start"} => rjSrcs = << >>
\* What is left of the list.
RjLeft ==
    rjPhase = "write" =>
        /\ rjCall.rjava = "text"
        /\ \A i \in 1..Len(RjAll) : RjAll[i].kind # "long"
        /\ RjListed(RjList, Len(RjAll))
        /\ rjTodo \in Seq(RjPkg) /\ Len(rjTodo) <= Len(RjList)
        /\ \A i \in 1..Len(rjTodo) : rjTodo[i] = RjList[RjCount + i]
\* The sources written are those of the packages before.
RjSources(P) ==
    /\ Len(rjSrcs) = Cardinality(P) /\ IsFiniteSet(P)
    /\ {s.pkg : s \in rjar!ToSet(rjSrcs)} = {p.name : p \in P}
    /\ \A i \in DOMAIN rjSrcs :
          /\ rjar!IsBase(rjSrcs[i].base)
          /\ rjSrcs[i].base = rjSrcs[1].base /\ rjSrcs[1].base = rjSrcs[1].pkg
          /\ i = 1 => rjSrcs[i].classes = rjCall.classes
          /\ i > 1 /\ rjSrcs[i].cut = FALSE => rjSrcs[i].classes = rjar!Scanned(rjCall.classes)
          /\ rjSrcs[i].cut = TRUE => rjCall.ioFails = TRUE
    /\ rjSrcs # << >> => rjTemplate = rjar!Scanned(rjCall.classes)
RjWriting == rjPhase = "write" => RjSources(RjWritten)
RjDone ==
    /\ rjPhase = "compile" => rjCall.rjava = "text" /\ rjJar = "none"
    /\ rjPhase = "compile" \/ rjJar = "compiled" => RjSources(rjar!Plain)
    /\ rjPhase = "ok" => rjJar = IF rjCall.rjava = "text" THEN "compiled" ELSE "empty"
    /\ rjJar = "compiled" => rjPhase = "ok"

RjInv == RjTyped /\ RjFresh /\ RjLeft /\ RjWriting /\ RjDone

USE DEF rjar!vars

\* A call as RJavaCallsAssumption has it.
LEMMA RjCallFacts ==
    ASSUME RjTyped
    PROVE  /\ RjAll \in Seq(RjPkg) /\ rjCall.ioFails \in BOOLEAN
           /\ Len(RjAll) \in Nat /\ DOMAIN RjAll = 1..Len(RjAll)
           /\ \A i \in 1..Len(RjAll) : RjAll[i] \in RjPkg
<1>1. RjAll \in Seq(RjPkg) /\ rjCall.ioFails \in BOOLEAN
    <2>1. CASE rjCall \in RJavaCalls
        BY <2>1, RJavaCallsAssumption DEF RjPkg, RjAll
    <2>2. CASE rjCall = rjar!NoCall
        <3>1. RjAll = << >>
            BY <2>2 DEF rjar!NoCall, RjAll
        <3>2. rjCall.ioFails \in BOOLEAN
            BY <2>2 DEF rjar!NoCall
        <3>. QED
            BY <3>1, <3>2
    <2>. QED
        BY <2>1, <2>2 DEF RjTyped
<1>. QED
    BY <1>1

\* One package more.
LEMMA RjListsNext ==
    ASSUME RjTyped, NEW n \in 1..Len(RjAll), NEW ps, RjListed(ps, n - 1)
    PROVE  LET p == RjAll[n] IN
           RjListed(IF p.kind = "odd" \/ rjar!Contains(ps, p) THEN ps ELSE Append(ps, p), n)
<1>. DEFINE p == RjAll[n]
            qs == Append(ps, p)
<1>1. p \in RjPkg /\ ps \in Seq(RjPkg) /\ n \in Nat /\ n >= 1
    BY RjCallFacts DEF RjListed
<1>2. /\ \A j \in DOMAIN ps : ps[j].kind # "odd"
      /\ \A j, k \in DOMAIN ps : ps[j] = ps[k] => j = k
      /\ \A i \in 1..(n - 1) : RjAll[i].kind # "odd" => \E j \in DOMAIN ps : ps[j] = RjAll[i]
      /\ \A j \in DOMAIN ps : \E i \in 1..(n - 1) :
            /\ RjAll[i] = ps[j]
            /\ \A k \in 1..(i - 1) : RjAll[k].kind = "odd"
                                        \/ \E l \in 1..(j - 1) : ps[l] = RjAll[k]
    BY DEF RjListed
<1>3. Len(ps) \in Nat /\ DOMAIN ps = 1..Len(ps)
    BY <1>1
<1>4. \A i \in 1..n : i # n => i \in 1..(n - 1)
    BY <1>1
<1>4a. \A i \in 1..(n - 1) : i \in 1..n
    BY <1>1
<1>5. rjar!Contains(ps, p) <=> \E j \in DOMAIN ps : ps[j] = p
    BY <1>3 DEF rjar!Contains
<1>6. CASE p.kind = "odd" \/ rjar!Contains(ps, p)
    <2>1. \A i \in 1..n : RjAll[i].kind # "odd" => \E j \in DOMAIN ps : ps[j] = RjAll[i]
        BY <1>2, <1>4, <1>5, <1>6
    <2>2. \A j \in DOMAIN ps : \E i \in 1..n :
            /\ RjAll[i] = ps[j]
            /\ \A k \in 1..(i - 1) : RjAll[k].kind = "odd"
                                        \/ \E l \in 1..(j - 1) : ps[l] = RjAll[k]
        BY <1>2, <1>4a
    <2>3. RjListed(ps, n)
        BY <1>1, <1>2, <2>1, <2>2 DEF RjListed
    <2>. QED
        BY <1>6, <2>3
<1>7. CASE p.kind # "odd" /\ ~rjar!Contains(ps, p)
    <2>1. /\ qs \in Seq(RjPkg) /\ DOMAIN qs = 1..(Len(ps) + 1) /\ qs[Len(ps) + 1] = p
          /\ \A j \in DOMAIN ps : j \in DOMAIN qs /\ qs[j] = ps[j]
          /\ \A j \in DOMAIN qs : j # Len(ps) + 1 => j \in DOMAIN ps
        BY <1>1, <1>3
    <2>. HIDE DEF qs
    <2>2. \A j, k \in DOMAIN qs : qs[j] = qs[k] => j = k
        BY <1>2, <1>5, <1>7, <2>1
    <2>3. \A i \in 1..n : RjAll[i].kind # "odd" => \E j \in DOMAIN qs : qs[j] = RjAll[i]
        <3>1. Len(ps) + 1 \in DOMAIN qs
            BY <1>3, <2>1
        <3>. QED
            BY <1>2, <1>4, <2>1, <3>1
    <2>4. ASSUME NEW j \in DOMAIN qs
          PROVE  \E i \in 1..n :
            /\ RjAll[i] = qs[j]
            /\ \A k \in 1..(i - 1) : RjAll[k].kind = "odd"
                                        \/ \E l \in 1..(j - 1) : qs[l] = RjAll[k]
        <3>1. CASE j = Len(ps) + 1
            <4>1. n \in 1..n /\ RjAll[n] = qs[j]
                BY <1>1, <2>1, <3>1
            <4>2. 1..(j - 1) = DOMAIN ps
                BY <1>3, <3>1
            <4>3. \A k \in 1..(n - 1) : RjAll[k].kind = "odd"
                                           \/ \E l \in 1..(j - 1) : qs[l] = RjAll[k]
                <5>. SUFFICES ASSUME NEW k \in 1..(n - 1), RjAll[k].kind # "odd"
                              PROVE  \E l \in 1..(j - 1) : qs[l] = RjAll[k]
                    OBVIOUS
                <5>1. PICK l \in DOMAIN ps : ps[l] = RjAll[k]
                    BY <1>2
                <5>. QED
                    BY <2>1, <4>2, <5>1
            <4>. QED
                BY <4>1, <4>3
        <3>2. CASE j # Len(ps) + 1
            <4>1. j \in DOMAIN ps /\ qs[j] = ps[j]
                BY <2>1, <3>2
            <4>2. \A l \in 1..(j - 1) : l \in DOMAIN ps
                BY <1>3, <4>1
            <4>3. \A l \in 1..(j - 1) : qs[l] = ps[l]
                BY <2>1, <4>2
            <4>4. PICK i \in 1..(n - 1) :
                    /\ RjAll[i] = ps[j]
                    /\ \A k \in 1..(i - 1) : RjAll[k].kind = "odd"
                                                \/ \E l \in 1..(j - 1) : ps[l] = RjAll[k]
                BY <1>2, <4>1
            <4>5. i \in 1..n /\ RjAll[i] = qs[j]
                BY <1>4a, <4>1, <4>4
            <4>6. \A k \in 1..(i - 1) : RjAll[k].kind = "odd"
                                           \/ \E l \in 1..(j - 1) : qs[l] = RjAll[k]
                BY <4>3, <4>4
            <4>. QED
                BY <4>5, <4>6
        <3>. QED
            BY <3>1, <3>2
    <2>5. RjListed(qs, n)
        <3>1. \A j \in DOMAIN qs : qs[j].kind # "odd"
            BY <1>2, <1>7, <2>1
        <3>. QED
            BY <2>1, <2>2, <2>3, <2>4, <3>1 DEF RjListed
    <2>. QED
        BY <1>7, <2>5 DEF qs
<1>. QED
    BY <1>6, <1>7

\* The loop over the packages gives such a list.
LEMMA RjLists ==
    ASSUME RjTyped
    PROVE  RjListed(RjList, Len(RjAll))
<1>. DEFINE n == Len(RjAll)
            f == rjar!pkgs
            V == Seq(RjPkg)
            Put(k, ps) == IF RjAll[k].kind = "odd" \/ rjar!Contains(ps, RjAll[k]) THEN ps
                          ELSE Append(ps, RjAll[k])
            step == [kv \in (1..n) \X V |-> Put(kv[1], kv[2])]
            Def(h) == [k \in 0..n |-> IF k = 0 THEN << >> ELSE Put(k, h[k - 1])]
<1>1. n \in Nat /\ \A k \in 1..n : RjAll[k] \in RjPkg
    BY RjCallFacts
<1>2. << >> \in V
    OBVIOUS
<1>3. ASSUME NEW k \in 1..n, NEW v \in V PROVE Put(k, v) \in V
    BY <1>1
<1>4. \A k \in 1..n, v \in V : step[<<k, v>>] = Put(k, v) /\ step[<<k, v>>] \in V
    BY <1>3
<1>5. ASSUME NEW k \in 1..n, NEW v, RjListed(v, k - 1) PROVE RjListed(Put(k, v), k)
    BY <1>5, RjListsNext
<1>. HIDE DEF step, V, Put
<1>6. PICK h : Recursive(h, n, V, << >>, step)
    <2>1. Steps(n, V, step)
        BY <1>4 DEF Steps
    <2>. QED
        BY <1>1, <1>2, <2>1, PrimitiveRecursion
<1>7. h = Def(h)
    <2>1. \A k \in 0..n : k # 0 => k \in 1..n
        BY <1>1
    <2>2. ASSUME NEW k \in 1..n PROVE h[k] = Put(k, h[k - 1])
        <3>1. k - 1 \in 0..n
            BY <1>1
        <3>2. h[k - 1] \in V /\ h[k] = step[<<k, h[k - 1]>>]
            BY <1>6, <3>1 DEF Recursive
        <3>. QED
            BY <1>4, <3>2
    <2>. QED
        BY <1>6, <2>1, <2>2 DEF Recursive
<1>8. f = CHOOSE e : e = Def(e)
    BY DEF rjar!pkgs, Put, RjAll
<1>9. f = Def(f)
    BY <1>7, <1>8
<1>. HIDE DEF f
<1>10. \A k \in 0..n : RjListed(f[k], k)
    <2>. DEFINE T == {k \in 0..n : RjListed(f[k], k)}
    <2>1. 0 \in T
        <3>1. 0 \in 0..n /\ f[0] = << >>
            BY <1>1, <1>9
        <3>2. RjListed(<< >>, 0)
            <4>1. << >> \in Seq(RjPkg) /\ DOMAIN << >> = {} /\ 1..0 = {}
                OBVIOUS
            <4>. QED
                BY <4>1 DEF RjListed
        <3>. QED
            BY <3>1, <3>2
    <2>2. ASSUME NEW k \in 0..n, k # n, k \in T PROVE k + 1 \in T
        <3>1. k + 1 \in 0..n /\ k + 1 \in 1..n /\ k + 1 # 0 /\ (k + 1) - 1 = k
            BY <1>1, <2>2
        <3>2. f[k + 1] = Put(k + 1, f[k])
            BY <1>9, <3>1
        <3>3. RjListed(Put(k + 1, f[k]), k + 1)
            BY <1>5, <2>2, <3>1
        <3>. QED
            BY <3>1, <3>2, <3>3
    <2>. HIDE DEF T
    <2>3. 0..n \subseteq T
        BY <1>1, <2>1, <2>2, Reaches
    <2>. QED
        BY <2>3 DEF T
<1>11. RjListed(f[n], n)
    BY <1>1, <1>10
<1>. QED
    BY <1>11 DEF RjList, f

\* The list stays as it is while the call does.
LEMMA RjSame ==
    ASSUME rjCall' = rjCall
    PROVE  /\ RjAll' = RjAll /\ RjList' = RjList /\ RjSource' = RjSource
           /\ rjar!Plain' = rjar!Plain
           /\ \A ps, n : RjListed(ps, n)' = RjListed(ps, n)
           /\ \A name : rjar!IsBase(name)' = rjar!IsBase(name)
<1>1. RjAll' = RjAll
    BY DEF RjAll
<1>2. rjar!pkgs' = rjar!pkgs
    BY DEF rjar!pkgs
<1>3. RjList' = RjList
    BY <1>1, <1>2 DEF RjList
<1>. QED
    BY <1>1, <1>3 DEF RjSource, rjar!Plain, RjListed, rjar!IsBase

\* Before anything is written there are the sources of no package.
LEMMA RjNoSources == rjSrcs = << >> => RjSources({})
<1>1. rjSrcs = << >> => Len(rjSrcs) = 0 /\ DOMAIN rjSrcs = {}
    OBVIOUS
<1>2. Cardinality({}) = 0 /\ IsFiniteSet({})
    BY FS_EmptySet
<1>. QED
    BY <1>1, <1>2 DEF RjSources, rjar!ToSet

LEMMA RjInitial == Init => RjInv
<1>. SUFFICES ASSUME Init PROVE RjInv
    OBVIOUS
<1>1. /\ rjCall = rjar!NoCall /\ rjPhase = "idle" /\ rjSrcs = << >> /\ rjJar = "none"
    BY DEF Init, rjar!Init
<1>2. rjSrcs \in Seq(RjSource)
    BY <1>1
<1>. QED
    BY <1>1, <1>2 DEF RjInv, RjTyped, RjFresh, RjLeft, RjWriting, RjDone

LEMMA RjRun == RjInv /\ rjar!Run => RjInv'
<1>. SUFFICES ASSUME RjInv, rjar!Run PROVE RjInv'
    OBVIOUS
<1>1. /\ rjPhase = "idle" /\ rjPhase' = "start" /\ rjCall' \in RJavaCalls
      /\ rjJar' # "compiled" /\ rjSrcs' = rjSrcs
    BY DEF rjar!Run
<1>2. rjSrcs = << >>
    BY <1>1 DEF RjInv, RjFresh
<1>3. rjSrcs' \in Seq(RjSource)'
    BY <1>1, <1>2
<1>. QED
    BY <1>1, <1>2, <1>3 DEF RjInv, RjTyped, RjFresh, RjLeft, RjWriting, RjDone

LEMMA RjEmpty == RjInv /\ rjar!EmptyZip => RjInv'
<1>. SUFFICES ASSUME RjInv, rjar!EmptyZip PROVE RjInv'
    OBVIOUS
<1>1. /\ rjPhase = "start" /\ rjCall.rjava # "text" /\ rjPhase' = "ok" /\ rjJar' = "empty"
      /\ rjCall' = rjCall /\ rjTodo' = rjTodo /\ rjSrcs' = rjSrcs
    BY DEF rjar!EmptyZip
<1>2. RjSource' = RjSource
    BY <1>1, RjSame
<1>. QED
    BY <1>1, <1>2 DEF RjInv, RjTyped, RjFresh, RjLeft, RjWriting, RjDone

LEMMA RjGetPkgs == RjInv /\ rjar!getPkgs => RjInv'
<1>. SUFFICES ASSUME RjInv, rjar!getPkgs PROVE RjInv'
    OBVIOUS
<1>1. /\ rjPhase = "start" /\ rjCall.rjava = "text" /\ rjPhase' = "write"
      /\ \A i \in DOMAIN RjAll : RjAll[i].kind # "long"
      /\ rjTodo' = RjList
      /\ rjCall' = rjCall /\ rjSrcs' = rjSrcs /\ rjTemplate' = rjTemplate /\ rjJar' = rjJar
    BY DEF rjar!getPkgs, RjAll, RjList
<1>2. /\ RjAll' = RjAll /\ RjList' = RjList /\ RjSource' = RjSource
      /\ rjar!Plain' = rjar!Plain
      /\ \A ps, n : RjListed(ps, n)' = RjListed(ps, n)
      /\ \A name : rjar!IsBase(name)' = rjar!IsBase(name)
    BY <1>1, RjSame
<1>3. RjTyped /\ rjSrcs = << >>
    BY <1>1 DEF RjInv, RjFresh
<1>4. RjListed(RjList, Len(RjAll)) /\ DOMAIN RjAll = 1..Len(RjAll)
    BY <1>3, RjLists, RjCallFacts
<1>5. RjList \in Seq(RjPkg) /\ Len(RjList) \in Nat
    BY <1>4 DEF RjListed
<1>6. RjCount' = 0
    BY <1>1, <1>2, <1>5 DEF RjCount
<1>7. RjLeft'
    <2>1. \A i \in 1..Len(RjList) : RjList[i] = RjList[0 + i]
        BY <1>5
    <2>. QED
        BY <1>1, <1>2, <1>4, <1>5, <1>6, <2>1 DEF RjLeft
<1>8. RjWriting'
    <2>1. RjWritten' = {}
        BY <1>6 DEF RjWritten
    <2>2. (rjSrcs = << >> => RjSources({}))'
        BY RjNoSources, PTL
    <2>3. RjSources({})'
        BY <1>1, <1>3, <2>2
    <2>. QED
        BY <2>1, <2>3 DEF RjWriting, RjSources
<1>. QED
    BY <1>1, <1>2, <1>3, <1>7, <1>8 DEF RjInv, RjTyped, RjFresh, RjDone

LEMMA RjFails == RjInv /\ (rjar!getPkgsFails \/ rjar!Fails) => RjInv'
<1>. SUFFICES ASSUME RjInv, rjar!getPkgsFails \/ rjar!Fails PROVE RjInv'
    OBVIOUS
<1>1. /\ rjPhase \in {"start", "write", "compile"} /\ rjPhase' = "error"
      /\ rjCall' = rjCall /\ rjSrcs' = rjSrcs
      /\ rjJar' \in {rjJar, "cut", "none"}
    BY DEF rjar!getPkgsFails, rjar!Fails, rjar!JarAfterFailure, rjar!Running
<1>2. RjSource' = RjSource
    BY <1>1, RjSame
<1>. QED
    BY <1>1, <1>2 DEF RjInv, RjTyped, RjFresh, RjLeft, RjWriting, RjDone

\* The package at hand is the next of the list.
LEMMA RjNext ==
    ASSUME RjInv, rjar!Writing, rjTodo' = Tail(rjTodo), rjPhase' = rjPhase, rjCall' = rjCall
    PROVE  /\ RjLeft' /\ RjCount + 1 \in DOMAIN RjList /\ RjCount \in Nat
           /\ rjar!Pkg = RjList[RjCount + 1] /\ rjar!Pkg \notin RjWritten
           /\ rjar!Pkg.kind \in {"reserved", "plain"}
           /\ RjWritten' = RjWritten \cup (IF rjar!Pkg.kind = "plain" THEN {rjar!Pkg} ELSE {})
<1>. DEFINE c == RjCount
            n == Len(RjList)
            m == Len(rjTodo)
<1>1. /\ rjPhase = "write" /\ rjTodo # << >> /\ rjCall.rjava = "text"
      /\ RjListed(RjList, Len(RjAll)) /\ rjTodo \in Seq(RjPkg) /\ m <= n
      /\ \A j \in 1..m : rjTodo[j] = RjList[c + j]
      /\ \A j \in 1..Len(RjAll) : RjAll[j].kind # "long"
    BY DEF RjInv, RjLeft, rjar!Writing
<1>2. /\ RjList \in Seq(RjPkg) /\ n \in Nat /\ DOMAIN RjList = 1..n /\ m \in Nat /\ m >= 1
    <2>1. RjList \in Seq(RjPkg)
        BY <1>1 DEF RjListed
    <2>. QED
        BY <1>1, <2>1
<1>3. c = n - m
    BY DEF RjCount
<1>. HIDE DEF n, m, c
<1>4. c \in Nat /\ c + 1 \in 1..n /\ 1 \in 1..m /\ c < n
    BY <1>1, <1>2, <1>3
<1>5. rjar!Pkg = RjList[c + 1]
    BY <1>1, <1>4 DEF rjar!Pkg
<1>6. /\ RjAll' = RjAll /\ RjList' = RjList
      /\ \A ps, k : RjListed(ps, k)' = RjListed(ps, k)
    BY RjSame
<1>7. /\ Len(rjTodo') = m - 1 /\ rjTodo' \in Seq(RjPkg)
      /\ \A j \in 1..(m - 1) : rjTodo'[j] = rjTodo[j + 1]
    BY <1>1, <1>2 DEF m
<1>8. RjCount' = c + 1
    BY <1>2, <1>3, <1>6, <1>7 DEF RjCount, n
<1>9. RjLeft'
    <2>1. \A j \in 1..(m - 1) : rjTodo'[j] = RjList[(c + 1) + j]
        <3>. TAKE j \in 1..(m - 1)
        <3>1. j + 1 \in 1..m /\ c + (j + 1) = (c + 1) + j
            BY <1>2, <1>4
        <3>2. rjTodo[j + 1] = RjList[c + (j + 1)]
            BY <1>1, <3>1
        <3>. QED
            BY <1>7, <3>1, <3>2
    <2>2. m - 1 <= n
        BY <1>1, <1>2
    <2>. QED
        BY <1>1, <1>6, <1>7, <1>8, <2>1, <2>2 DEF RjLeft, n
<1>10. rjar!Pkg \notin RjWritten
    <2>1. \A j, k \in DOMAIN RjList : RjList[j] = RjList[k] => j = k
        BY <1>1 DEF RjListed
    <2>2. \A j \in 1..c : j \in 1..n /\ j # c + 1
        BY <1>2, <1>4
    <2>. QED
        BY <1>2, <1>4, <1>5, <2>1, <2>2 DEF RjWritten, c
<1>11. rjar!Pkg.kind \in {"reserved", "plain"}
    <2>1. rjar!Pkg.kind # "odd"
        BY <1>1, <1>2, <1>4, <1>5 DEF RjListed
    <2>2. PICK j \in 1..Len(RjAll) : RjAll[j] = RjList[c + 1]
        BY <1>1, <1>2, <1>4 DEF RjListed
    <2>3. rjar!Pkg.kind # "long"
        BY <1>1, <1>5, <2>2
    <2>4. rjar!Pkg \in RjPkg
        BY <1>2, <1>4, <1>5
    <2>. QED
        BY <2>1, <2>3, <2>4 DEF RjPkg
<1>12. RjWritten' = RjWritten \cup (IF rjar!Pkg.kind = "plain" THEN {rjar!Pkg} ELSE {})
    <2>1. RjWritten' = {RjList[j] : j \in {j \in 1..(c + 1) : RjList[j].kind = "plain"}}
        BY <1>6, <1>8 DEF RjWritten
    <2>2. \A j \in 1..(c + 1) : j = c + 1 \/ j \in 1..c
        BY <1>4
    <2>3. c + 1 \in 1..(c + 1) /\ \A j \in 1..c : j \in 1..(c + 1)
        BY <1>4
    <2>. QED
        BY <1>5, <2>1, <2>2, <2>3 DEF RjWritten, c
<1>. QED
    BY <1>2, <1>4, <1>5, <1>9, <1>10, <1>11, <1>12 DEF c

LEMMA RjSkip == RjInv /\ rjar!SkipReserved => RjInv'
<1>. SUFFICES ASSUME RjInv, rjar!SkipReserved PROVE RjInv'
    OBVIOUS
<1>1. /\ rjar!Writing /\ rjar!Pkg.kind = "reserved" /\ rjTodo' = Tail(rjTodo)
      /\ rjCall' = rjCall /\ rjPhase' = rjPhase /\ rjSrcs' = rjSrcs
      /\ rjTemplate' = rjTemplate /\ rjJar' = rjJar
    BY DEF rjar!SkipReserved, rjar!hasInvalid
<1>2. RjLeft' /\ RjWritten' = RjWritten
    BY <1>1, RjNext
<1>3. /\ RjSource' = RjSource /\ rjar!Plain' = rjar!Plain
      /\ \A name : rjar!IsBase(name)' = rjar!IsBase(name)
    BY <1>1, RjSame
<1>4. RjWriting'
    BY <1>1, <1>2, <1>3 DEF RjInv, RjWriting, RjSources
<1>5. RjDone'
    BY <1>1 DEF RjInv, RjDone, rjar!Writing
<1>. QED
    BY <1>1, <1>2, <1>3, <1>4, <1>5 DEF RjInv, RjTyped, RjFresh, rjar!Writing

\* The first package that is written is the first plain one of all.
LEMMA RjFirst ==
    ASSUME RjInv, rjar!Writing, rjSrcs = << >>, rjar!Pkg.kind = "plain",
           RjCount + 1 \in DOMAIN RjList, RjCount \in Nat, rjar!Pkg = RjList[RjCount + 1]
    PROVE  RjWritten = {} /\ rjar!IsBase(rjar!Pkg.name)
<1>. DEFINE c == RjCount
<1>1. RjListed(RjList, Len(RjAll)) /\ RjSources(RjWritten)
    BY DEF RjInv, RjLeft, RjWriting, rjar!Writing
<1>2. RjWritten = {}
    <2>1. Len(rjSrcs) = 0
        OBVIOUS
    <2>. QED
        BY <1>1, <2>1, FS_EmptySet DEF RjSources
<1>. HIDE DEF c
<1>3. \A j \in 1..c : RjList[j].kind # "plain"
    BY <1>2 DEF RjWritten, c
<1>4. PICK i \in 1..Len(RjAll) :
        /\ RjAll[i] = RjList[c + 1]
        /\ \A k \in 1..(i - 1) : RjAll[k].kind = "odd"
                                    \/ \E l \in 1..((c + 1) - 1) : RjList[l] = RjAll[k]
    BY <1>1 DEF RjListed, c
<1>5. (c + 1) - 1 = c
    BY DEF c
<1>6. \A k \in 1..(i - 1) : RjAll[k].kind # "plain"
    BY <1>3, <1>4, <1>5
<1>7. DOMAIN RjAll = 1..Len(RjAll)
    BY RjCallFacts DEF RjInv
<1>8. rjar!Pkg = RjAll[i]
    BY <1>4 DEF c
<1>. QED
    BY <1>2, <1>4, <1>6, <1>7, <1>8 DEF rjar!IsBase, RjAll

LEMMA RjWriteFirst == RjInv /\ rjar!WriteFirst => RjInv'
<1>. SUFFICES ASSUME RjInv, rjar!WriteFirst PROVE RjInv'
    OBVIOUS
<1>. DEFINE x == [pkg |-> rjar!Pkg.name, base |-> rjar!Pkg.name, classes |-> rjCall.classes,
                  cut |-> FALSE]
<1>1. /\ rjar!Writing /\ rjar!Pkg.kind # "reserved" /\ rjSrcs = << >> /\ rjSrcs' = <<x>>
      /\ rjTodo' = Tail(rjTodo) /\ rjTemplate' = rjar!Scanned(rjCall.classes)
      /\ rjCall' = rjCall /\ rjPhase' = rjPhase /\ rjJar' = rjJar
    BY DEF rjar!WriteFirst, rjar!hasInvalid, rjar!Source
<1>2. /\ RjLeft' /\ RjCount + 1 \in DOMAIN RjList /\ RjCount \in Nat
      /\ rjar!Pkg = RjList[RjCount + 1]
      /\ rjar!Pkg.kind = "plain" /\ RjWritten' = RjWritten \cup {rjar!Pkg}
    BY <1>1, RjNext
<1>3. RjWritten' = {rjar!Pkg} /\ rjar!IsBase(rjar!Pkg.name)
    BY <1>1, <1>2, RjFirst
<1>4. /\ RjSource' = RjSource
      /\ \A name : rjar!IsBase(name)' = rjar!IsBase(name)
    BY <1>1, RjSame
<1>5. rjar!Pkg \in RjPkg
    <2>1. RjList \in Seq(RjPkg)
        BY <1>1 DEF RjInv, RjLeft, RjListed, rjar!Writing
    <2>. QED
        BY <1>2, <2>1
<1>6. x \in RjSource
    BY <1>5 DEF RjPkg, RjSource
<1>. HIDE DEF x
<1>7. /\ rjSrcs' \in Seq(RjSource) /\ DOMAIN rjSrcs' = {1} /\ Len(rjSrcs') = 1
      /\ rjSrcs'[1] = x
    BY <1>1, <1>6
<1>8. RjWriting'
    <2>1. /\ x.pkg = rjar!Pkg.name /\ x.base = rjar!Pkg.name /\ x.classes = rjCall.classes
          /\ x.cut = FALSE
        BY DEF x
    <2>2. Cardinality({rjar!Pkg}) = 1 /\ IsFiniteSet({rjar!Pkg})
        BY FS_Singleton
    <2>3. {s.pkg : s \in rjar!ToSet(rjSrcs)'} = {p.name : p \in {rjar!Pkg}}
        BY <1>7, <2>1 DEF rjar!ToSet
    <2>. QED
        BY <1>1, <1>3, <1>4, <1>7, <2>1, <2>2, <2>3 DEF RjWriting, RjSources
<1>9. RjDone'
    BY <1>1 DEF RjInv, RjDone, rjar!Writing
<1>. QED
    BY <1>1, <1>2, <1>4, <1>7, <1>8, <1>9 DEF RjInv, RjTyped, RjFresh, rjar!Writing

LEMMA RjWriteSubclass == RjInv /\ rjar!WriteSubclass => RjInv'
<1>. SUFFICES ASSUME RjInv, rjar!WriteSubclass PROVE RjInv'
    OBVIOUS
<1>1. PICK cut \in {FALSE, rjCall.ioFails} :
        rjSrcs' = Append(rjSrcs, rjar!Source(rjSrcs[1].pkg, IF cut THEN << >> ELSE rjTemplate, cut))
    BY DEF rjar!WriteSubclass
<1>2. PICK x : /\ x.pkg = rjar!Pkg.name /\ x.base = rjSrcs[1].pkg
               /\ x = [pkg |-> x.pkg, base |-> x.base, classes |-> x.classes, cut |-> x.cut]
               /\ x.classes = (IF cut THEN << >> ELSE rjTemplate) /\ x.cut = cut
               /\ rjSrcs' = Append(rjSrcs, x)
    BY <1>1 DEF rjar!Source
<1>3. /\ rjar!Writing /\ rjar!Pkg.kind # "reserved" /\ rjSrcs # << >>
      /\ rjTodo' = Tail(rjTodo) /\ rjTemplate' = rjTemplate
      /\ rjCall' = rjCall /\ rjPhase' = rjPhase /\ rjJar' = rjJar
    BY DEF rjar!WriteSubclass, rjar!hasInvalid
<1>4. /\ RjLeft' /\ RjCount + 1 \in DOMAIN RjList /\ rjar!Pkg = RjList[RjCount + 1]
      /\ rjar!Pkg.kind = "plain" /\ rjar!Pkg \notin RjWritten
      /\ RjWritten' = RjWritten \cup {rjar!Pkg}
    BY <1>3, RjNext
<1>5. /\ RjSource' = RjSource
      /\ \A name : rjar!IsBase(name)' = rjar!IsBase(name)
    BY <1>3, RjSame
<1>6. RjSources(RjWritten) /\ rjSrcs \in Seq(RjSource) /\ rjCall.ioFails \in BOOLEAN
    BY <1>3, RjCallFacts DEF RjInv, RjTyped, RjWriting, rjar!Writing
<1>7. /\ Len(rjSrcs) \in Nat /\ DOMAIN rjSrcs = 1..Len(rjSrcs) /\ 1 \in DOMAIN rjSrcs
    BY <1>3, <1>6
<1>8. rjar!Pkg \in RjPkg
    <2>1. RjList \in Seq(RjPkg)
        BY <1>3 DEF RjInv, RjLeft, RjListed, rjar!Writing
    <2>. QED
        BY <1>4, <2>1
<1>9. /\ cut \in BOOLEAN /\ (cut = TRUE => rjCall.ioFails = TRUE)
      /\ x.classes = IF cut THEN << >> ELSE rjar!Scanned(rjCall.classes)
    BY <1>2, <1>3, <1>6 DEF RjSources
<1>10. x \in RjSource
    <2>1. rjSrcs[1] \in RjSource
        BY <1>6, <1>7
    <2>2. x.pkg \in STRING /\ x.base \in STRING
        BY <1>2, <1>8, <2>1 DEF RjPkg, RjSource
    <2>3. x.classes \in {<< >>, rjCall.classes, rjar!Scanned(rjCall.classes)} /\ x.cut \in BOOLEAN
        BY <1>2, <1>9
    <2>. QED
        BY <1>2, <2>2, <2>3 DEF RjSource
<1>11. /\ rjSrcs' \in Seq(RjSource) /\ Len(rjSrcs') = Len(rjSrcs) + 1
       /\ \A i \in DOMAIN rjSrcs : i \in DOMAIN rjSrcs' /\ rjSrcs'[i] = rjSrcs[i]
       /\ rjSrcs'[Len(rjSrcs) + 1] = x /\ Len(rjSrcs) + 1 \in DOMAIN rjSrcs'
       /\ \A i \in DOMAIN rjSrcs' : i \in DOMAIN rjSrcs \/ i = Len(rjSrcs) + 1
    BY <1>2, <1>6, <1>7, <1>10
<1>12. RjWriting'
    <2>1. /\ Cardinality(RjWritten') = Len(rjSrcs) + 1 /\ IsFiniteSet(RjWritten')
        BY <1>4, <1>6, FS_AddElement DEF RjSources
    <2>2. {s.pkg : s \in rjar!ToSet(rjSrcs)'} = {p.name : p \in RjWritten'}
        <3>1. {s.pkg : s \in rjar!ToSet(rjSrcs)'} = {s.pkg : s \in rjar!ToSet(rjSrcs)} \cup {x.pkg}
            BY <1>11 DEF rjar!ToSet
        <3>2. {s.pkg : s \in rjar!ToSet(rjSrcs)} = {p.name : p \in RjWritten}
            BY <1>6 DEF RjSources
        <3>. QED
            BY <1>2, <1>4, <3>1, <3>2
    <2>3. ASSUME NEW i \in DOMAIN rjSrcs'
          PROVE  /\ rjar!IsBase(rjSrcs'[i].base)
                 /\ rjSrcs'[i].base = rjSrcs'[1].base /\ rjSrcs'[1].base = rjSrcs'[1].pkg
                 /\ i = 1 => rjSrcs'[i].classes = rjCall.classes
                 /\ i > 1 /\ rjSrcs'[i].cut = FALSE
                       => rjSrcs'[i].classes = rjar!Scanned(rjCall.classes)
                 /\ rjSrcs'[i].cut = TRUE => rjCall.ioFails = TRUE
        <3>1. rjSrcs'[1] = rjSrcs[1]
            BY <1>7, <1>11
        <3>2. CASE i \in DOMAIN rjSrcs
            BY <1>6, <1>11, <3>1, <3>2 DEF RjSources
        <3>3. CASE i = Len(rjSrcs) + 1
            <4>1. rjSrcs'[i] = x /\ i # 1
                BY <1>7, <1>11, <3>3
            <4>2. /\ rjSrcs[1].base = rjSrcs[1].pkg /\ rjar!IsBase(rjSrcs[1].base)
                BY <1>6, <1>7 DEF RjSources
            <4>. QED
                BY <1>2, <1>9, <3>1, <4>1, <4>2
        <3>. QED
            BY <1>11, <3>2, <3>3
    <2>4. rjTemplate' = rjar!Scanned(rjCall.classes)
        BY <1>3, <1>6 DEF RjSources
    <2>. QED
        BY <1>3, <1>5, <1>11, <2>1, <2>2, <2>3, <2>4 DEF RjWriting, RjSources
<1>13. RjDone'
    BY <1>3 DEF RjInv, RjDone, rjar!Writing
<1>. QED
    BY <1>3, <1>4, <1>5, <1>11, <1>12, <1>13 DEF RjInv, RjTyped, RjFresh, rjar!Writing

\* With all packages written, the plain ones are.
LEMMA RjRemoveOld == RjInv /\ rjar!removeOld => RjInv'
<1>. SUFFICES ASSUME RjInv, rjar!removeOld PROVE RjInv'
    OBVIOUS
<1>1. /\ rjPhase = "write" /\ rjTodo = << >> /\ rjPhase' = "compile" /\ rjJar' = "none"
      /\ rjCall' = rjCall /\ rjTodo' = rjTodo /\ rjSrcs' = rjSrcs /\ rjTemplate' = rjTemplate
    BY DEF rjar!removeOld
<1>2. /\ RjSource' = RjSource /\ rjar!Plain' = rjar!Plain
      /\ \A name : rjar!IsBase(name)' = rjar!IsBase(name)
    BY <1>1, RjSame
<1>3. RjListed(RjList, Len(RjAll)) /\ rjCall.rjava = "text" /\ RjSources(RjWritten)
    BY <1>1 DEF RjInv, RjLeft, RjWriting
<1>4. RjWritten = rjar!Plain
    <2>1. RjList \in Seq(RjPkg)
        BY <1>3 DEF RjListed
    <2>2. RjCount = Len(RjList) /\ DOMAIN RjList = 1..Len(RjList)
        BY <1>1, <2>1 DEF RjCount
    <2>3. DOMAIN RjAll = 1..Len(RjAll)
        BY RjCallFacts DEF RjInv
    <2>4. rjar!Plain = {p \in {RjAll[i] : i \in 1..Len(RjAll)} : p.kind = "plain"}
        BY <2>3 DEF rjar!Plain, rjar!ToSet, RjAll
    <2>5. \A i \in 1..Len(RjAll) : RjAll[i].kind = "plain" =>
             \E j \in 1..RjCount : RjList[j] = RjAll[i]
        BY <1>3, <2>2 DEF RjListed
    <2>6. \A j \in 1..RjCount : \E i \in 1..Len(RjAll) : RjAll[i] = RjList[j]
        BY <1>3, <2>2 DEF RjListed
    <2>. QED
        BY <2>4, <2>5, <2>6 DEF RjWritten
<1>5. RjSources(rjar!Plain)
    BY <1>3, <1>4
<1>6. RjSources(rjar!Plain)'
    BY <1>1, <1>2, <1>5 DEF RjSources
<1>. QED
    BY <1>1, <1>2, <1>3, <1>6 DEF RjInv, RjTyped, RjFresh, RjLeft, RjWriting, RjDone

LEMMA RjCompile == RjInv /\ (rjar!compileRJar \/ UNCHANGED rjVars) => RjInv'
<1>. SUFFICES ASSUME RjInv, rjar!compileRJar \/ UNCHANGED rjVars PROVE RjInv'
    OBVIOUS
<1>1. /\ rjCall' = rjCall /\ rjTodo' = rjTodo /\ rjSrcs' = rjSrcs /\ rjTemplate' = rjTemplate
      /\ \/ rjPhase = "compile" /\ rjPhase' = "ok" /\ rjJar' = "compiled"
         \/ rjPhase' = rjPhase /\ rjJar' = rjJar
    BY DEF rjar!compileRJar, rjVars
<1>2. /\ RjAll' = RjAll /\ RjList' = RjList
      /\ RjSource' = RjSource /\ rjar!Plain' = rjar!Plain
      /\ \A ps, n : RjListed(ps, n)' = RjListed(ps, n)
      /\ \A name : rjar!IsBase(name)' = rjar!IsBase(name)
    BY <1>1, RjSame
<1>3. RjCount' = RjCount /\ RjWritten' = RjWritten
    BY <1>1, <1>2 DEF RjCount, RjWritten
<1>4. RjSources(RjWritten)' = RjSources(RjWritten)
    BY <1>1, <1>2, <1>3 DEF RjSources
<1>5. RjSources(rjar!Plain)' = RjSources(rjar!Plain)
    BY <1>1, <1>2 DEF RjSources
<1>6. RjLeft' /\ RjWriting'
    BY <1>1, <1>2, <1>3, <1>4 DEF RjInv, RjLeft, RjWriting
<1>7. RjDone'
    BY <1>1, <1>5 DEF RjInv, RjDone
<1>. QED
    BY <1>1, <1>2, <1>6, <1>7 DEF RjInv, RjTyped, RjFresh

LEMMA RjInductive == RjInv /\ [rjar!Next]_rjVars => RjInv'
BY RjRun, RjEmpty, RjGetPkgs, RjFails, RjSkip, RjWriteFirst, RjWriteSubclass, RjRemoveOld,
   RjCompile DEF rjar!Next

LEMMA RjImplies == RjInv => SubclassesRight
<1>. SUFFICES ASSUME RjInv PROVE rjar!SubclassesRight
    BY DEF SubclassesRight
<1>1. RjDone /\ RjTyped
    BY DEF RjInv
<1>2. ASSUME rjJar = "compiled"
      PROVE  /\ Len(rjSrcs) = rjar!Cardinality(rjar!Plain)
             /\ {s.pkg : s \in rjar!ToSet(rjSrcs)} = {p.name : p \in rjar!Plain}
             /\ \A i \in DOMAIN rjSrcs :
                   /\ rjar!IsBase(rjSrcs[i].base)
                   /\ i = 1 => rjSrcs[i].classes = rjCall.classes
                   /\ i > 1 /\ ~rjSrcs[i].cut => rjSrcs[i].classes = rjar!Scanned(rjSrcs[1].classes)
                   /\ rjSrcs[i].cut => rjCall.ioFails
    <2>1. RjSources(rjar!Plain)
        BY <1>1, <1>2 DEF RjDone
    <2>2. /\ rjSrcs \in Seq(RjSource) /\ rjCall.ioFails \in BOOLEAN
        BY <1>1, RjCallFacts DEF RjTyped
    <2>3. \A i \in DOMAIN rjSrcs : rjSrcs[i].cut \in BOOLEAN /\ 1 \in DOMAIN rjSrcs
        <3>1. \A i \in DOMAIN rjSrcs : rjSrcs[i] \in RjSource /\ 1 \in DOMAIN rjSrcs
            BY <2>2
        <3>. QED
            BY <3>1 DEF RjSource
    <2>4. \A i \in DOMAIN rjSrcs :
                   /\ rjar!IsBase(rjSrcs[i].base)
                   /\ i = 1 => rjSrcs[i].classes = rjCall.classes
                   /\ i > 1 /\ rjSrcs[i].cut = FALSE
                         => rjSrcs[i].classes = rjar!Scanned(rjSrcs[1].classes)
                   /\ rjSrcs[i].cut = TRUE => rjCall.ioFails = TRUE
        BY <2>1, <2>3 DEF RjSources
    <2>. QED
        BY <2>1, <2>2, <2>3, <2>4, RjCardinality DEF RjSources
<1>. QED
    BY <1>1, <1>2 DEF rjar!SubclassesRight, RjDone

\* Every package of rjar that can be one has one R class on success: the first has the classes,
\* and the others extend it.
THEOREM SubclassesAreRight == FairSpec => []SubclassesRight
BY RjInitial, RjSteps, RjInductive, RjImplies, PTL DEF FairSpec

-----------------------------------------------------------------------------
(* finalrjar.go: the R class has each resource of each file once *)

LEMMA FrSteps == [Next]_vars => [finalrjar!Next]_frVars
BY DEF Next, vars, runCmd, RunFinalrjar, RunGeneratemanifest, RunDex, RunExtractaar,
       RunRepack, RunRjar, RunNativelib, RunShellapk, RunPatch, RunManifest, RunCompile,
       RunLink, RunFlagfile, RunBucketize, RunSession, ArchiveReturns

FrLine == [kind : {"res", "skipped", "long"}, type : Types, id : Nat, var : STRING]
FrField == [id : Nat, var : STRING]
FrFieldOf(l) == [id |-> l.id, var |-> l.var]
FrLines(f) == frCall.files[f]
\* A scanner gets to the line n of f, and sends it.
FrSends(f, n) == FrLines(f)[n].kind = "res" /\ \A j \in 1..n : FrLines(f)[j].kind # "long"
\* The lines sent so far.
FrTaken ==
    {l \in FrLine : \E f \in DOMAIN frAt : \E n \in 1..(frAt[f] - 1) :
                       FrSends(f, n) /\ l = FrLines(f)[n]}
\* The map m has each type and ID of the lines L, once, with what is of one of its lines.
FrHas(m, L) ==
    \A t \in Types :
        /\ \A i, j \in DOMAIN m[t] : m[t][i].id = m[t][j].id => i = j
        /\ \A i \in DOMAIN m[t] : \E l \in L : l.type = t /\ m[t][i] = FrFieldOf(l)
        /\ \A l \in L : l.type = t => \E i \in DOMAIN m[t] : m[t][i].id = l.id

FrTyped ==
    /\ frCall \in RJarCalls \cup {finalrjar!NoCall}
    /\ frPhase \in {"idle", "start", "ids", "write", "compile", "filter", "ok", "error"}
    /\ frMap \in [Types -> Seq(FrField)]
    /\ frOpen \subseteq DOMAIN frAt /\ DOMAIN frAt \subseteq DOMAIN frCall.files
    /\ frAt \in [DOMAIN frAt -> Nat]
    /\ \A f \in DOMAIN frAt : frAt[f] \in 1..(Len(FrLines(f)) + 1)
\* A scanner that is not at its end has not met a long line.
FrClear ==
    \A f \in DOMAIN frAt : frAt[f] <= Len(FrLines(f)) =>
        \A j \in 1..(frAt[f] - 1) : FrLines(f)[j].kind # "long"
\* The order in which the goroutines and the channel end.
FrClosing ==
    /\ frPhase \in {"idle", "start"} => frAt = << >> /\ ~frClosed
    /\ frPhase = "ids" => DOMAIN frAt = DOMAIN frCall.files
    /\ \A f \in DOMAIN frAt : f \notin frOpen => frAt[f] = Len(FrLines(f)) + 1
    /\ frClosed => frOpen = {} /\ DOMAIN frAt = DOMAIN frCall.files
    /\ frPhase \in {"write", "compile", "filter"} => frClosed
\* What is written is the map, sorted, and what is kept are the classes of that.
FrWritten ==
    /\ frPhase \in {"compile", "filter", "ok"} /\ ~frCall.reserved =>
          frClosed /\ \A t \in resTypes : frJava[t] \in finalrjar!Sorted(frMap[t])
    /\ frPhase = "ok" /\ ~frCall.reserved /\ ~frJar.cut =>
          frJar.classes = {c \in finalrjar!Compiled : ~finalrjar!Ignored(c)}

FrInv == FrTyped /\ FrHas(frMap, FrTaken) /\ FrClear /\ FrClosing /\ FrWritten

USE DEF finalrjar!vars

\* A call as RJarCallsAssumption has it.
LEMMA FrCallFacts ==
    ASSUME FrTyped
    PROVE  \A f \in DOMAIN frCall.files :
              /\ Len(FrLines(f)) \in Nat /\ DOMAIN FrLines(f) = 1..Len(FrLines(f))
              /\ \A n \in 1..Len(FrLines(f)) : FrLines(f)[n] \in FrLine
<1>1. frCall.files \in Seq(Seq(FrLine))
    <2>1. CASE frCall \in RJarCalls
        BY <2>1, RJarCallsAssumption DEF FrLine
    <2>2. CASE frCall = finalrjar!NoCall
        <3>1. frCall.files = << >>
            BY <2>2 DEF finalrjar!NoCall
        <3>. HIDE DEF FrLine
        <3>. QED
            BY <3>1
    <2>. QED
        BY <2>1, <2>2 DEF FrTyped
<1>. HIDE DEF FrLine
<1>. TAKE f \in DOMAIN frCall.files
<1>2. FrLines(f) \in Seq(FrLine)
    BY <1>1 DEF FrLines
<1>. QED
    BY <1>2

\* What depends on the call alone stays.
LEMMA FrSame ==
    ASSUME frCall' = frCall
    PROVE  /\ \A f : FrLines(f)' = FrLines(f)
           /\ \A f, n : FrSends(f, n)' = FrSends(f, n)
           /\ \A m, L : FrHas(m, L)' = FrHas(m, L)
           /\ \A s : finalrjar!Sorted(s)' = finalrjar!Sorted(s)
           /\ \A c : finalrjar!Ignored(c)' = finalrjar!Ignored(c)
<1>1. \A f : FrLines(f)' = FrLines(f)
    BY DEF FrLines
<1>2. \A f, n : FrSends(f, n)' = FrSends(f, n)
    BY <1>1 DEF FrSends
<1>3. \A m, L : FrHas(m, L)' = FrHas(m, L)
    BY DEF FrHas
<1>4. \A s : finalrjar!Sorted(s)' = finalrjar!Sorted(s)
    BY DEF finalrjar!Sorted
<1>5. \A c : finalrjar!Ignored(c)' = finalrjar!Ignored(c)
    BY DEF finalrjar!Ignored
<1>. QED
    BY <1>1, <1>2, <1>3, <1>4, <1>5

\* One line more.
LEMMA FrGroups ==
    ASSUME NEW m \in [Types -> Seq(FrField)], NEW L, NEW l \in FrLine, FrHas(m, L)
    PROVE  /\ finalrjar!groupResByType(m, l) \in [Types -> Seq(FrField)]
           /\ FrHas(finalrjar!groupResByType(m, l), L \cup {l})
<1>. DEFINE t == l.type
            r == FrFieldOf(l)
            s == m[t]
            M == [m EXCEPT ![t] = Append(@, r)]
<1>1. t \in Types /\ r \in FrField /\ r.id = l.id
    BY DEF FrLine, FrField, FrFieldOf
<1>2. s \in Seq(FrField) /\ DOMAIN s = 1..Len(s) /\ Len(s) \in Nat
    BY <1>1
<1>3. CASE \E i \in DOMAIN s : s[i].id = l.id
    <2>1. finalrjar!groupResByType(m, l) = m
        BY <1>3 DEF finalrjar!groupResByType
    <2>2. FrHas(m, L \cup {l})
        BY <1>3 DEF FrHas
    <2>. QED
        BY <2>1, <2>2
<1>4. CASE ~\E i \in DOMAIN s : s[i].id = l.id
    <2>1. finalrjar!groupResByType(m, l) = M
        BY <1>4 DEF finalrjar!groupResByType, FrFieldOf
    <2>. DEFINE q == Append(s, r)
    <2>2. /\ q \in Seq(FrField) /\ DOMAIN q = 1..(Len(s) + 1) /\ q[Len(s) + 1] = r
          /\ \A i \in DOMAIN s : i \in DOMAIN q /\ q[i] = s[i]
          /\ \A i \in DOMAIN q : i # Len(s) + 1 => i \in DOMAIN s
          /\ Len(s) + 1 \in DOMAIN q
        BY <1>1, <1>2
    <2>3. M \in [Types -> Seq(FrField)] /\ M[t] = q /\ \A u \in Types : u # t => M[u] = m[u]
        BY <1>1, <2>2
    <2>. HIDE DEF q, M, s, r, t
    <2>4. /\ \A i, j \in DOMAIN s : s[i].id = s[j].id => i = j
          /\ \A i \in DOMAIN s : \E k \in L : k.type = t /\ s[i] = FrFieldOf(k)
          /\ \A k \in L : k.type = t => \E i \in DOMAIN s : s[i].id = k.id
        BY <1>1 DEF FrHas, s
    <2>5. \A i, j \in DOMAIN q : q[i].id = q[j].id => i = j
        BY <1>1, <1>4, <2>2, <2>4
    <2>6. \A i \in DOMAIN q : \E k \in L \cup {l} :
              k.type = t /\ q[i] = FrFieldOf(k)
        <3>. TAKE i \in DOMAIN q
        <3>1. CASE i = Len(s) + 1
            BY <2>2, <3>1 DEF r, t
        <3>2. CASE i # Len(s) + 1
            BY <2>2, <2>4, <3>2
        <3>. QED
            BY <3>1, <3>2
    <2>7. \A k \in L \cup {l} : k.type = t => \E i \in DOMAIN q : q[i].id = k.id
        BY <1>1, <2>2, <2>4
    <2>8. ASSUME NEW u \in Types, u # t
          PROVE  /\ \A i, j \in DOMAIN M[u] : M[u][i].id = M[u][j].id => i = j
                 /\ \A i \in DOMAIN M[u] : \E k \in L \cup {l} :
                       k.type = u /\ M[u][i] = FrFieldOf(k)
                 /\ \A k \in L \cup {l} : k.type = u => \E i \in DOMAIN M[u] : M[u][i].id = k.id
        <3>1. M[u] = m[u] /\ \A k \in L \cup {l} : k.type = u => k \in L
            BY <2>3, <2>8 DEF t
        <3>2. /\ \A i, j \in DOMAIN m[u] : m[u][i].id = m[u][j].id => i = j
              /\ \A i \in DOMAIN m[u] : \E k \in L : k.type = u /\ m[u][i] = FrFieldOf(k)
              /\ \A k \in L : k.type = u => \E i \in DOMAIN m[u] : m[u][i].id = k.id
            BY DEF FrHas
        <3>. QED
            BY <3>1, <3>2
    <2>9. \A u \in Types :
             /\ \A i, j \in DOMAIN M[u] : M[u][i].id = M[u][j].id => i = j
             /\ \A i \in DOMAIN M[u] : \E k \in L \cup {l} : k.type = u /\ M[u][i] = FrFieldOf(k)
             /\ \A k \in L \cup {l} : k.type = u => \E i \in DOMAIN M[u] : M[u][i].id = k.id
        <3>. TAKE u \in Types
        <3>1. CASE u = t
            BY <2>3, <2>5, <2>6, <2>7, <3>1
        <3>2. CASE u # t
            BY <2>8, <3>2
        <3>. QED
            BY <3>1, <3>2
    <2>10. FrHas(M, L \cup {l})
        BY <2>9 DEF FrHas
    <2>. QED
        BY <2>1, <2>3, <2>10
<1>. QED
    BY <1>3, <1>4

LEMMA FrInitial == Init => FrInv
<1>. SUFFICES ASSUME Init PROVE FrInv
    OBVIOUS
<1>1. finalrjar!Init
    BY DEF Init
<1>2. /\ frCall = finalrjar!NoCall /\ frPhase = "idle" /\ frAt = << >> /\ frOpen = {}
      /\ frClosed = FALSE /\ frMap = [t \in Types |-> << >>]
    BY <1>1 DEF finalrjar!Init
<1>3. frMap \in [Types -> Seq(FrField)]
    BY <1>2
<1>4. FrTaken = {}
    BY <1>2 DEF FrTaken
<1>5. FrHas(frMap, {})
    BY <1>2 DEF FrHas
<1>. QED
    BY <1>2, <1>3, <1>4, <1>5 DEF FrInv, FrTyped, FrClear, FrClosing, FrWritten

\* A step that changes nothing but the phase and the output.
LEMMA FrStart == FrInv /\ (finalrjar!Run \/ finalrjar!EmptyZip) => FrInv'
<1>. SUFFICES ASSUME FrInv, finalrjar!Run \/ finalrjar!EmptyZip PROVE FrInv'
    OBVIOUS
<1>1. /\ frPhase \in {"idle", "start"} /\ frPhase' \in {"start", "ok"}
      /\ frCall' \in RJarCalls \cup {finalrjar!NoCall}
      /\ frPhase' = "ok" => frCall'.reserved
      /\ frAt' = frAt /\ frOpen' = frOpen /\ frClosed' = frClosed /\ frMap' = frMap
    BY DEF FrInv, FrTyped, finalrjar!Run, finalrjar!EmptyZip, finalrjar!Go
<1>2. frAt = << >> /\ ~frClosed /\ frOpen = {}
    BY <1>1 DEF FrInv, FrClosing, FrTyped
<1>3. FrTaken = {} /\ FrTaken' = {}
    BY <1>1, <1>2 DEF FrTaken
<1>4. FrHas(frMap, {})'
    BY <1>1, <1>3 DEF FrInv, FrHas
<1>5. FrTyped'
    BY <1>1, <1>2 DEF FrInv, FrTyped
<1>6. FrClear' /\ FrClosing'
    BY <1>1, <1>2 DEF FrClear, FrClosing
<1>7. FrWritten'
    BY <1>1 DEF FrWritten
<1>. QED
    BY <1>1, <1>3, <1>4, <1>5, <1>6, <1>7 DEF FrInv

LEMMA FrOpens == FrInv /\ finalrjar!openRtxts => FrInv'
<1>. SUFFICES ASSUME FrInv, finalrjar!openRtxts PROVE FrInv'
    OBVIOUS
<1>1. /\ frPhase = "start" /\ frPhase' = "ids" /\ frOpen' = DOMAIN frCall.files
      /\ frAt' = [f \in DOMAIN frCall.files |-> 1]
      /\ frCall' = frCall /\ frClosed' = frClosed /\ frMap' = frMap
    BY DEF finalrjar!openRtxts, finalrjar!Go
<1>2. frAt = << >> /\ ~frClosed
    BY <1>1 DEF FrInv, FrClosing
<1>3. \A f : FrLines(f)' = FrLines(f)
    BY <1>1, FrSame
<1>4. FrTaken = {} /\ FrTaken' = {}
    BY <1>1, <1>2 DEF FrTaken
<1>5. FrHas(frMap, FrTaken)'
    BY <1>1, <1>4 DEF FrInv, FrHas
<1>6. FrTyped'
    BY <1>1, <1>3, FrCallFacts DEF FrInv, FrTyped
<1>7. FrClear' /\ FrClosing' /\ FrWritten'
    BY <1>1, <1>2 DEF FrClear, FrClosing, FrWritten
<1>. QED
    BY <1>5, <1>6, <1>7 DEF FrInv

\* A scanner goes on, by a line or to its end.
LEMMA FrScan ==
    ASSUME FrInv, NEW f \in frOpen, frAt[f] <= Len(FrLines(f)), NEW x \in 1..(Len(FrLines(f)) + 1),
           frAt' = [frAt EXCEPT ![f] = x], x > frAt[f],
           x <= Len(FrLines(f)) => x = frAt[f] + 1 /\ FrLines(f)[frAt[f]].kind # "long",
           frCall' = frCall, frOpen' = frOpen, frClosed' = frClosed, frPhase' = frPhase,
           frJava' = frJava, frJar' = frJar, frMap' \in [Types -> Seq(FrField)],
           FrHas(frMap', FrTaken')
    PROVE  FrInv'
<1>1. FrTyped /\ f \in DOMAIN frAt /\ f \in DOMAIN frCall.files
    BY DEF FrInv, FrTyped
<1>2. /\ \A g : FrLines(g)' = FrLines(g)
      /\ DOMAIN frAt' = DOMAIN frAt /\ frAt'[f] = x
      /\ \A g \in DOMAIN frAt : g # f => frAt'[g] = frAt[g]
      /\ frAt[f] \in Nat /\ Len(FrLines(f)) \in Nat
    BY <1>1, FrSame, FrCallFacts DEF FrTyped
<1>3. FrTyped'
    BY <1>1, <1>2 DEF FrTyped
<1>4. FrClear'
    <2>1. ASSUME x <= Len(FrLines(f)), NEW j \in 1..(x - 1)
          PROVE  FrLines(f)[j].kind # "long"
        <3>1. j = frAt[f] \/ j \in 1..(frAt[f] - 1)
            BY <1>2, <2>1
        <3>. QED
            BY <1>1, <2>1, <3>1 DEF FrInv, FrClear
    <2>. QED
        BY <1>2, <2>1 DEF FrInv, FrClear
<1>5. ~frClosed /\ frPhase \notin {"idle", "start", "write", "compile", "filter"}
    BY <1>1 DEF FrInv, FrClosing
<1>6. FrClosing'
    BY <1>2, <1>5 DEF FrInv, FrClosing
<1>7. FrWritten'
    BY <1>5 DEF FrInv, FrWritten, finalrjar!Compiled, finalrjar!Ignored
<1>8. FrHas(frMap, FrTaken)'
    BY FrSame
<1>. QED
    BY <1>3, <1>4, <1>6, <1>7, <1>8 DEF FrInv

\* What is taken when a scanner goes on.
LEMMA FrTakes ==
    ASSUME FrInv, NEW f \in frOpen, frAt[f] <= Len(FrLines(f)), frCall' = frCall,
           NEW x \in {frAt[f] + 1, Len(FrLines(f)) + 1},
           x = frAt[f] + 1 \/ FrLines(f)[frAt[f]].kind = "long",
           frAt' = [frAt EXCEPT ![f] = x]
    PROVE  /\ FrLines(f)[frAt[f]] \in FrLine
           /\ FrTaken' = IF FrLines(f)[frAt[f]].kind = "res" THEN FrTaken \cup {FrLines(f)[frAt[f]]}
                         ELSE FrTaken
<1>. DEFINE a == frAt[f]
            l == FrLines(f)[a]
<1>1. FrTyped /\ f \in DOMAIN frAt /\ f \in DOMAIN frCall.files /\ FrClear
    BY DEF FrInv, FrTyped
<1>2. /\ \A g, n : FrSends(g, n)' = FrSends(g, n)
      /\ \A g : FrLines(g)' = FrLines(g)
      /\ DOMAIN frAt' = DOMAIN frAt /\ frAt'[f] = x
      /\ \A g \in DOMAIN frAt : g # f => frAt'[g] = frAt[g]
      /\ a \in Nat /\ a >= 1 /\ Len(FrLines(f)) \in Nat /\ a \in 1..Len(FrLines(f))
    BY <1>1, FrSame, FrCallFacts DEF FrTyped
<1>3. l \in FrLine
    BY <1>1, <1>2, FrCallFacts
<1>4. \A j \in 1..(a - 1) : FrLines(f)[j].kind # "long"
    BY <1>1 DEF FrClear
<1>5. FrSends(f, a) <=> l.kind = "res"
    <2>1. \A j \in 1..a : j = a \/ j \in 1..(a - 1)
        BY <1>2
    <2>2. a \in 1..a
        BY <1>2
    <2>. QED
        BY <1>4, <2>1, <2>2 DEF FrSends
<1>6. \A n \in 1..(x - 1) : n \in 1..(a - 1) \/ n = a \/ ~FrSends(f, n)
    <2>1. CASE x = a + 1
        BY <1>2, <2>1
    <2>2. CASE x # a + 1
        <3>1. l.kind = "long"
            BY <2>2
        <3>2. \A n \in 1..(x - 1) : n \in 1..(a - 1) \/ a \in 1..n
            BY <1>2, <2>2
        <3>. QED
            BY <3>1, <3>2 DEF FrSends
    <2>. QED
        BY <2>1, <2>2
<1>7. \A n \in 1..(a - 1) : n \in 1..(x - 1)
    BY <1>2
<1>7a. a \in 1..(x - 1)
    BY <1>2
<1>. HIDE DEF a, l
<1>8. \A k \in FrLine : k \in FrTaken' <=> k \in FrTaken \/ (l.kind = "res" /\ k = l)
    <2>. TAKE k \in FrLine
    <2>1. ASSUME k \in FrTaken PROVE k \in FrTaken'
        <3>1. PICK g \in DOMAIN frAt : \E n \in 1..(frAt[g] - 1) : FrSends(g, n) /\ k = FrLines(g)[n]
            BY <2>1 DEF FrTaken
        <3>2. PICK n \in 1..(frAt[g] - 1) : FrSends(g, n) /\ k = FrLines(g)[n]
            BY <3>1
        <3>3. n \in 1..(frAt'[g] - 1)
            BY <1>2, <1>7, <3>2 DEF a
        <3>. QED
            BY <1>2, <3>2, <3>3 DEF FrTaken
    <2>2. ASSUME l.kind = "res", k = l PROVE k \in FrTaken'
        BY <1>1, <1>2, <1>5, <1>7a, <2>2 DEF FrTaken, l
    <2>3. ASSUME k \in FrTaken' PROVE k \in FrTaken \/ (l.kind = "res" /\ k = l)
        <3>1. PICK g \in DOMAIN frAt : \E n \in 1..(frAt'[g] - 1) : FrSends(g, n) /\ k = FrLines(g)[n]
            BY <1>2, <2>3 DEF FrTaken
        <3>2. PICK n \in 1..(frAt'[g] - 1) : FrSends(g, n) /\ k = FrLines(g)[n]
            BY <3>1
        <3>3. CASE g # f
            BY <1>2, <3>2, <3>3 DEF FrTaken
        <3>4. CASE g = f /\ n \in 1..(a - 1)
            BY <3>2, <3>4 DEF FrTaken, a
        <3>5. CASE g = f /\ n = a
            BY <1>5, <3>2, <3>5 DEF l
        <3>. QED
            BY <1>2, <1>6, <3>2, <3>3, <3>4, <3>5
    <2>. QED
        BY <2>1, <2>2, <2>3
<1>9. FrTaken \subseteq FrLine /\ FrTaken' \subseteq FrLine
    BY DEF FrTaken, FrLine
<1>. QED
    BY <1>3, <1>8, <1>9 DEF l, a

LEMMA FrScans == ASSUME FrInv, NEW f \in frOpen,
                        finalrjar!Skip(f) \/ finalrjar!Send(f) \/ finalrjar!ScanStops(f)
                 PROVE  FrInv'
<1>. DEFINE l == FrLines(f)[frAt[f]]
            x == IF l.kind = "long" THEN Len(FrLines(f)) + 1 ELSE frAt[f] + 1
<1>1. /\ frAt[f] <= Len(FrLines(f)) /\ frCall' = frCall /\ frOpen' = frOpen
      /\ frClosed' = frClosed /\ frPhase' = frPhase /\ frJava' = frJava /\ frJar' = frJar
      /\ frAt' = [frAt EXCEPT ![f] = x]
      /\ frMap' = IF l.kind = "res" THEN finalrjar!groupResByType(frMap, l) ELSE frMap
    BY DEF finalrjar!Skip, finalrjar!Send, finalrjar!ScanStops, finalrjar!Scanning,
           finalrjar!Line, FrLines
<1>2. FrTyped /\ f \in DOMAIN frAt /\ f \in DOMAIN frCall.files
    BY DEF FrInv, FrTyped
<1>3. Len(FrLines(f)) \in Nat /\ frAt[f] \in Nat /\ frAt[f] >= 1
    BY <1>2, FrCallFacts DEF FrTyped
<1>4. /\ x \in {frAt[f] + 1, Len(FrLines(f)) + 1} /\ x \in 1..(Len(FrLines(f)) + 1)
      /\ x > frAt[f] /\ (x = frAt[f] + 1 \/ l.kind = "long")
      /\ x <= Len(FrLines(f)) => x = frAt[f] + 1 /\ l.kind # "long"
    BY <1>1, <1>3
<1>. HIDE DEF x
<1>5. l \in FrLine /\ FrTaken' = IF l.kind = "res" THEN FrTaken \cup {l} ELSE FrTaken
    BY <1>1, <1>4, FrTakes
<1>. HIDE DEF l
<1>6. frMap' \in [Types -> Seq(FrField)] /\ FrHas(frMap', FrTaken')
    BY <1>1, <1>2, <1>5, FrGroups DEF FrInv, FrTyped
<1>. QED
    BY <1>1, <1>4, <1>6, FrScan DEF l

\* The files and the channel end, and the lines stay.
LEMMA FrEnds ==
    ASSUME FrInv, (\E f \in frOpen : finalrjar!FileDone(f)) \/ finalrjar!CloseResC \/ finalrjar!RangeEnds
    PROVE  FrInv'
<1>1. /\ frCall' = frCall /\ frAt' = frAt /\ frMap' = frMap /\ frJava' = frJava /\ frJar' = frJar
      /\ \/ \E f \in frOpen : /\ frAt[f] > Len(FrLines(f)) /\ frOpen' = frOpen \ {f}
                              /\ frPhase' = frPhase /\ frClosed' = frClosed
         \/ /\ frPhase = "ids" /\ frOpen = {} /\ frClosed' = TRUE
            /\ frPhase' = frPhase /\ frOpen' = frOpen
         \/ /\ frClosed /\ frPhase = "ids" /\ frPhase' = "write"
            /\ frClosed' = frClosed /\ frOpen' = frOpen
    BY DEF finalrjar!FileDone, finalrjar!CloseResC, finalrjar!RangeEnds, finalrjar!Go, FrLines
<1>2. /\ \A f : FrLines(f)' = FrLines(f)
      /\ \A f, n : FrSends(f, n)' = FrSends(f, n)
    BY <1>1, FrSame
<1>3. FrTaken' = FrTaken
    BY <1>1, <1>2 DEF FrTaken
<1>4. FrHas(frMap, FrTaken)'
    BY <1>1, <1>3, FrSame DEF FrInv
<1>5. FrTyped'
    BY <1>1, <1>2 DEF FrInv, FrTyped
<1>6. FrClear'
    BY <1>1, <1>2 DEF FrInv, FrClear
<1>7. \A f \in DOMAIN frAt : f \in frOpen /\ f \notin frOpen' => frAt[f] = Len(FrLines(f)) + 1
    <2>. TAKE f \in DOMAIN frAt
    <2>1. frAt[f] \in 1..(Len(FrLines(f)) + 1) /\ Len(FrLines(f)) \in Nat
        BY FrCallFacts DEF FrInv, FrTyped
    <2>. QED
        BY <1>1, <2>1
<1>8. FrClosing'
    BY <1>1, <1>2, <1>7 DEF FrInv, FrClosing
<1>9. FrWritten'
    BY <1>1, FrSame DEF FrInv, FrWritten, finalrjar!Compiled
<1>. QED
    BY <1>4, <1>5, <1>6, <1>8, <1>9 DEF FrInv

\* What comes behind the channel.
LEMMA FrOutputs ==
    ASSUME FrInv,
           \/ finalrjar!writeRJavas \/ finalrjar!compileRJar \/ finalrjar!filterZip
           \/ finalrjar!filterZipCut \/ finalrjar!Fails \/ UNCHANGED frVars
    PROVE  FrInv'
<1>1. /\ frCall' = frCall /\ frAt' = frAt /\ frMap' = frMap /\ frOpen' = frOpen
      /\ frClosed' = frClosed
      /\ \/ frPhase = "write" /\ frPhase' = "compile"
         \/ frPhase = "compile" /\ frPhase' = "filter" /\ frJava' = frJava /\ frJar' = frJar
         \/ frPhase = "filter" /\ frPhase' = "ok" /\ frJava' = frJava
         \/ frPhase' = "error"
         \/ frPhase' = frPhase /\ frJava' = frJava /\ frJar' = frJar
    BY DEF finalrjar!writeRJavas, finalrjar!compileRJar, finalrjar!filterZip,
           finalrjar!filterZipCut, finalrjar!Fails, frVars, finalrjar!Go
<1>2. /\ \A f : FrLines(f)' = FrLines(f)
      /\ \A f, n : FrSends(f, n)' = FrSends(f, n)
    BY <1>1, FrSame
<1>3. FrTaken' = FrTaken
    BY <1>1, <1>2 DEF FrTaken
<1>4. FrHas(frMap, FrTaken)'
    BY <1>1, <1>3, FrSame DEF FrInv
<1>5. FrTyped'
    BY <1>1, <1>2 DEF FrInv, FrTyped
<1>6. FrClear'
    BY <1>1, <1>2 DEF FrInv, FrClear
<1>7. FrClosing'
    BY <1>1, <1>2 DEF FrInv, FrClosing
<1>8. CASE finalrjar!writeRJavas
    <2>1. /\ frPhase = "write" /\ frPhase' = "compile"
          /\ \A t \in resTypes : frJava'[t] \in finalrjar!Sorted(frMap[t])
        BY <1>8 DEF finalrjar!writeRJavas, finalrjar!Go
    <2>2. frClosed
        BY <2>1 DEF FrInv, FrClosing
    <2>3. FrWritten'
        BY <1>1, <2>1, <2>2, FrSame DEF FrWritten
    <2>. QED
        BY <1>4, <1>5, <1>6, <1>7, <2>3 DEF FrInv
<1>9. CASE finalrjar!filterZip \/ finalrjar!filterZipCut
    <2>1. /\ frPhase = "filter" /\ frPhase' = "ok" /\ frJava' = frJava
          /\ frJar'.cut \/ frJar'.classes = {c \in finalrjar!Compiled : ~finalrjar!Ignored(c)}
        BY <1>9 DEF finalrjar!filterZip, finalrjar!filterZipCut, finalrjar!Go
    <2>2. finalrjar!Compiled' = finalrjar!Compiled
        BY <2>1 DEF finalrjar!Compiled
    <2>3. frJar'.cut \/ frJar'.classes = {c \in finalrjar!Compiled : ~finalrjar!Ignored(c)}'
        BY <1>1, <2>1, <2>2 DEF finalrjar!Ignored
    <2>4. FrWritten'
        BY <1>1, <2>1, <2>3, FrSame DEF FrInv, FrWritten
    <2>. QED
        BY <1>4, <1>5, <1>6, <1>7, <2>4 DEF FrInv
<1>10. CASE finalrjar!compileRJar \/ finalrjar!Fails \/ UNCHANGED frVars
    <2>1. \/ frPhase = "compile" /\ frPhase' = "filter" /\ frJava' = frJava /\ frJar' = frJar
          \/ frPhase' = "error"
          \/ frPhase' = frPhase /\ frJava' = frJava /\ frJar' = frJar
        BY <1>10 DEF finalrjar!compileRJar, finalrjar!Fails, frVars, finalrjar!Go
    <2>2. frJava' = frJava => finalrjar!Compiled' = finalrjar!Compiled
        BY DEF finalrjar!Compiled
    <2>3. frJava' = frJava =>
             {c \in finalrjar!Compiled : ~finalrjar!Ignored(c)}'
                = {c \in finalrjar!Compiled : ~finalrjar!Ignored(c)}
        BY <1>1, <2>2 DEF finalrjar!Ignored
    <2>4. FrWritten'
        BY <1>1, <2>1, <2>3, FrSame DEF FrInv, FrWritten
    <2>. QED
        BY <1>4, <1>5, <1>6, <1>7, <2>4 DEF FrInv
<1>. QED
    BY <1>8, <1>9, <1>10

LEMMA FrInductive == FrInv /\ [finalrjar!Next]_frVars => FrInv'
BY FrStart, FrOpens, FrScans, FrEnds, FrOutputs DEF finalrjar!Next, finalrjar!getIds

\* Sorting keeps what is there, and IDs that differ rise.
LEMMA FrSorts ==
    ASSUME NEW s \in Seq(FrField), \A i, j \in DOMAIN s : s[i].id = s[j].id => i = j,
           NEW r \in finalrjar!Sorted(s)
    PROVE  /\ r \in Seq(FrField) /\ DOMAIN r = DOMAIN s
           /\ \A i \in DOMAIN r : \E j \in DOMAIN s : r[i] = s[j]
           /\ \A j \in DOMAIN s : \E i \in DOMAIN r : r[i] = s[j]
           /\ \A i, j \in DOMAIN r : i < j => r[i].id < r[j].id
<1>1. PICK p \in finalrjar!Bijection(DOMAIN s, DOMAIN s) : r = [i \in DOMAIN s |-> s[p[i]]]
    BY DEF finalrjar!Sorted
<1>2. /\ p \in [DOMAIN s -> DOMAIN s]
      /\ \A a, b \in DOMAIN s : p[a] = p[b] => a = b
      /\ \A t \in DOMAIN s : \E u \in DOMAIN s : p[u] = t
    BY DEF finalrjar!Bijection, finalrjar!Injection, finalrjar!Surjection, finalrjar!IsInjective
<1>3. DOMAIN s = 1..Len(s) /\ Len(s) \in Nat /\ \A i \in DOMAIN s : s[i] \in FrField
    OBVIOUS
<1>4. DOMAIN r = DOMAIN s /\ \A i \in DOMAIN r : p[i] \in DOMAIN s /\ r[i] = s[p[i]]
    BY <1>1, <1>2
<1>5. r \in [1..Len(s) -> FrField]
    BY <1>1, <1>2, <1>3
<1>6. r \in Seq(FrField)
    BY <1>3, <1>5, SeqDef
<1>7. \A i, j \in DOMAIN r : i < j => r[i].id <= r[j].id
    BY DEF finalrjar!Sorted
<1>8. \A i, j \in DOMAIN r : i < j => r[i].id < r[j].id
    <2>. TAKE i, j \in DOMAIN r
    <2>. HAVE i < j
    <2>1. i # j
        <3>1. i \in Int /\ j \in Int
            BY <1>3, <1>4
        <3>. QED
            BY <3>1
    <2>4. r[i].id <= r[j].id
        BY <1>7
    <2>2. r[i].id # r[j].id
        <3>1. i \in DOMAIN s /\ j \in DOMAIN s
            BY <1>4
        <3>2. p[i] \in DOMAIN s /\ p[j] \in DOMAIN s /\ p[i] # p[j]
            BY <1>2, <1>4, <2>1, <3>1, Zenon
        <3>3. s[p[i]].id # s[p[j]].id
            BY <3>2, Zenon
        <3>4. r[i] = s[p[i]] /\ r[j] = s[p[j]]
            BY <1>4, Zenon
        <3>. QED
            BY <3>3, <3>4, Zenon
    <2>3. r[i].id \in Nat /\ r[j].id \in Nat
        BY <1>3, <1>4 DEF FrField
    <2>. QED
        BY <2>2, <2>3, <2>4
<1>. QED
    BY <1>2, <1>4, <1>6, <1>8

\* Behind the close, all lines that scanners get to were sent.
LEMMA FrAll ==
    ASSUME FrInv, frClosed
    PROVE  finalrjar!AllScanned = FrTaken
<1>1. /\ DOMAIN frAt = DOMAIN frCall.files /\ FrTyped
      /\ \A f \in DOMAIN frAt : frAt[f] = Len(FrLines(f)) + 1
    BY DEF FrInv, FrClosing
<1>2. \A f \in DOMAIN frAt : /\ Len(FrLines(f)) \in Nat /\ DOMAIN FrLines(f) = 1..Len(FrLines(f))
                             /\ 1..(frAt[f] - 1) = 1..Len(FrLines(f))
                             /\ \A n \in 1..Len(FrLines(f)) : FrLines(f)[n] \in FrLine
    BY <1>1, FrCallFacts
<1>3. \A f \in DOMAIN frAt :
         finalrjar!Scanned(f) = {FrLines(f)[n] : n \in {n \in 1..Len(FrLines(f)) : FrSends(f, n)}}
    BY <1>2 DEF finalrjar!Scanned, FrLines, FrSends
<1>. QED
    BY <1>1, <1>2, <1>3 DEF finalrjar!AllScanned, FrTaken

\* The class of a type has its lines.
LEMMA FrClass ==
    ASSUME FrInv, frPhase \in {"compile", "filter", "ok"}, ~frCall.reserved, NEW t \in resTypes
    PROVE  /\ frJava[t] \in Seq({[id |-> l.id, var |-> l.var] : l \in finalrjar!Of(t)})
           /\ \A i, j \in DOMAIN frJava[t] : i < j => frJava[t][i].id < frJava[t][j].id
           /\ {frJava[t][i].id : i \in DOMAIN frJava[t]} = {l.id : l \in finalrjar!Of(t)}
           /\ frJava[t] # << >> <=> \E l \in FrTaken : l.type = t
<1>. DEFINE r == frJava[t]
            s == frMap[t]
<1>1. t \in Types
    BY RJarCallsAssumption
<1>2. frClosed /\ r \in finalrjar!Sorted(s) /\ s \in Seq(FrField)
    BY <1>1 DEF FrInv, FrWritten, FrTyped
<1>3. /\ \A i, j \in DOMAIN s : s[i].id = s[j].id => i = j
      /\ \A i \in DOMAIN s : \E l \in FrTaken : l.type = t /\ s[i] = FrFieldOf(l)
      /\ \A l \in FrTaken : l.type = t => \E i \in DOMAIN s : s[i].id = l.id
    BY <1>1 DEF FrInv, FrHas
<1>. HIDE DEF r, s
<1>4. /\ r \in Seq(FrField) /\ DOMAIN r = DOMAIN s
      /\ \A i \in DOMAIN r : \E j \in DOMAIN s : r[i] = s[j]
      /\ \A j \in DOMAIN s : \E i \in DOMAIN r : r[i] = s[j]
      /\ \A i, j \in DOMAIN r : i < j => r[i].id < r[j].id
    BY <1>2, <1>3, FrSorts
<1>5. finalrjar!Of(t) = {l \in FrTaken : l.type = t}
    BY <1>2, FrAll DEF finalrjar!Of
<1>. DEFINE F == {FrFieldOf(l) : l \in finalrjar!Of(t)}
<1>5a. F = {[id |-> l.id, var |-> l.var] : l \in finalrjar!Of(t)}
       /\ \A l : FrFieldOf(l).id = l.id
    BY DEF FrFieldOf
<1>6. \A i \in DOMAIN r : r[i] \in F
    BY <1>3, <1>4, <1>5
<1>7. r \in Seq(F)
    <2>1. r \in [1..Len(r) -> FrField] /\ Len(r) \in Nat /\ DOMAIN r = 1..Len(r)
        BY <1>4
    <2>. HIDE DEF F
    <2>2. r \in [1..Len(r) -> F]
        BY <1>6, <2>1
    <2>. QED
        BY <2>1, <2>2, SeqDef
<1>8. {r[i].id : i \in DOMAIN r} = {l.id : l \in finalrjar!Of(t)}
    <2>. HIDE DEF F
    <2>1. ASSUME NEW i \in DOMAIN r PROVE \E l \in finalrjar!Of(t) : r[i].id = l.id
        <3>1. PICK j \in DOMAIN s : r[i] = s[j]
            BY <1>4
        <3>2. PICK l \in FrTaken : l.type = t /\ s[j] = FrFieldOf(l)
            BY <1>3
        <3>3. l \in finalrjar!Of(t)
            BY <1>5, <3>2
        <3>. QED
            BY <1>5a, <3>1, <3>2, <3>3
    <2>2. ASSUME NEW l \in finalrjar!Of(t) PROVE \E i \in DOMAIN r : r[i].id = l.id
        <3>1. l \in FrTaken /\ l.type = t
            BY <1>5
        <3>2. PICK j \in DOMAIN s : s[j].id = l.id
            BY <1>3, <3>1
        <3>3. PICK i \in DOMAIN r : r[i] = s[j]
            BY <1>4
        <3>. QED
            BY <3>2, <3>3
    <2>. QED
        BY <2>1, <2>2
<1>9. r # << >> <=> \E l \in FrTaken : l.type = t
    <2>1. r # << >> <=> \E i : i \in DOMAIN r
        BY <1>4
    <2>. QED
        BY <1>3, <1>4, <2>1
<1>. QED
    BY <1>4, <1>5a, <1>7, <1>8, <1>9 DEF r

LEMMA FrImplies == FrInv => RJarRight
<1>. SUFFICES ASSUME FrInv PROVE RJarRight
    OBVIOUS
<1>1. finalrjar!RComplete
    BY FrClass DEF finalrjar!RComplete
<1>2. finalrjar!JarRight
    <2>. SUFFICES ASSUME frPhase = "ok", ~frCall.reserved, ~frJar.cut, ~frCall.hidden
                  PROVE  frJar.classes
                            = {"pkg"} \X ({"R"} \cup ({l.type : l \in finalrjar!AllScanned} \cap resTypes))
        BY DEF finalrjar!JarRight
    <2>1. frClosed /\ frJar.classes = {c \in finalrjar!Compiled : ~finalrjar!Ignored(c)}
        BY DEF FrInv, FrWritten
    <2>2. \A t \in resTypes : frJava[t] # << >> <=> \E l \in FrTaken : l.type = t
        BY FrClass
    <2>3. {t \in resTypes : frJava[t] # << >>} = {l.type : l \in finalrjar!AllScanned} \cap resTypes
        BY <2>1, <2>2, FrAll
    <2>4. \A c : finalrjar!Ignored(c) <=> c[1] = "root"
        BY DEF finalrjar!Ignored
    <2>. DEFINE K == {"R"} \cup ({l.type : l \in finalrjar!AllScanned} \cap resTypes)
    <2>5. finalrjar!Compiled = {"pkg", "root"} \X K
        BY <2>3 DEF finalrjar!Compiled
    <2>. HIDE DEF K
    <2>6. {c \in {"pkg", "root"} \X K : c[1] # "root"} = {"pkg"} \X K
        OBVIOUS
    <2>7. frJar.classes = {"pkg"} \X K
        BY <2>1, <2>4, <2>5, <2>6
    <2>. QED
        BY <2>7 DEF K
<1>. QED
    BY <1>1, <1>2 DEF RJarRight

\* The R class of finalrjar has one field for each type and ID of any file, sorted, and its
\* jar one class for each type that has a resource, whatever the order of the goroutines.
THEOREM RJarIsRight == FairSpec => []RJarRight
BY FrInitial, FrSteps, FrInductive, FrImplies, PTL DEF FairSpec

-----------------------------------------------------------------------------
(* partitioner.go: the archives are written in order, and closed when they are complete *)

LEMMA PsSteps == [Next]_vars => [session!Next]_psVars
BY DEF Next, vars, runCmd, RunFinalrjar, RunGeneratemanifest, RunDex, RunExtractaar,
       RunRepack, RunRjar, RunNativelib, RunShellapk, RunPatch, RunManifest, RunCompile,
       RunLink, RunFlagfile, RunBucketize, RunSession, ArchiveReturns

PsEntry == [name : STRING, attrs : Seq(STRING), body : Seq(Nat), done : BOOLEAN]

\* The key that is being flushed, and those that were.
PsCur == {psKey} \ {session!None}
PsKeySet == IF psPhase = "paths" THEN session!PathKeys ELSE DOMAIN psSession.vals
PsStage == IF psPhase = "paths" THEN "path" ELSE "vals"
PsFlushed == PsKeySet \ (psTodo \cup PsCur)
\* The entries of an archive that are written, and whether it has one that is begun.
PsIsPast(e) ==
    IF psPhase \in {"paths", "vals"}
    THEN \/ e[1] = PsStage /\ e[2] \in PsFlushed
         \/ e[1] = "path" /\ psPhase = "vals"
    ELSE TRUE
PsWritten(a) == {e \in session!Entries(a) : PsIsPast(e)}
PsBegun(a) == psPhase = "vals" /\ PsCur # {} /\ a[1] = psKey[2] /\ a[2] < Len(psWs)

PsTyped ==
    /\ psSession \in Sessions \cup {session!NoSession}
    /\ psPhase \in {"idle", "paths", "vals", "close", "ok", "error", "panic"}
    /\ psPhase = "idle" => psSession = session!NoSession /\ psKey = session!None
    /\ psArch \in [session!Archives -> Seq(PsEntry)]
\* The keys to do come after the others.
PsSorted ==
    psPhase \in {"paths", "vals"} =>
        /\ psTodo \subseteq PsKeySet /\ PsCur \subseteq PsKeySet /\ PsCur \cap psTodo = {}
        /\ \A t \in psTodo, d \in PsFlushed \cup PsCur : ~session!Less(t, d)
        /\ \A t \in PsCur, d \in PsFlushed : ~session!Less(t, d)
\* The writers are those of the first archives of the type, and the names to do come
\* after the others.
PsWriting ==
    psPhase = "vals" /\ PsCur # {} =>
        /\ psWs \in Seq(session!Archives \X Nat) /\ Len(psWs) <= session!Writers
        /\ \A i \in 1..Len(psWs) :
              psWs[i] = <<<<psKey[2], i - 1>>, Len(psArch[<<psKey[2], i - 1>>])>>
        /\ psNames \subseteq DOMAIN psSession.vals[psKey]
        /\ \A n \in DOMAIN psSession.vals[psKey] \ psNames, m \in psNames : n < m
        /\ Len(psWs) < session!Writers => psNames = DOMAIN psSession.vals[psKey]
        /\ psFooters \in Nat /\ psFooters <= Len(psWs)
        /\ psFooters > 0 => psNames = {} /\ Len(psWs) = session!Writers
PsBeginning(x, a) ==
    LET N == session!NamesOf(psKey, a) \ psNames
    IN /\ x.name = Path[psKey[1]].entry /\ x.attrs = session!RAs(psKey[1])
       /\ Len(x.body) = Cardinality(N)
       /\ \A n \in N : LET r == session!Rank(n, psKey, a) IN
             r <= Len(x.body) /\ x.body[r] = psSession.vals[psKey][n]
       /\ a[2] < psFooters => x.done
PsFilled(a) ==
    /\ Len(psArch[a]) = Cardinality(PsWritten(a)) + (IF PsBegun(a) THEN 1 ELSE 0)
    /\ \A e \in PsWritten(a) : LET p == session!Place(e, a) IN
          p <= Cardinality(PsWritten(a)) /\ session!IsWhole(psArch[a][p], e, a)
    /\ PsBegun(a) => PsBeginning(psArch[a][Len(psArch[a])], a)
PsProgress ==
    psPhase \in {"paths", "vals", "close", "ok"} => \A a \in session!Archives : PsFilled(a)
PsClosed ==
    /\ psClosed \subseteq session!Archives
    /\ psPhase \in {"idle", "paths", "vals"} => psClosed = {}
    /\ psPhase = "ok" => psClosed = session!Archives

PsInv == /\ PsTyped /\ PsSorted /\ PsWriting /\ PsProgress /\ PsClosed
         /\ session!InOrder /\ session!ClosedComplete

USE DEF session!vars, session!keyVars

\* What SessionsAssumption says of the session.
PsSound ==
    /\ psSession.typedOutput \in [DOMAIN psSession.typedOutput -> Nat]
    /\ "none" \notin DOMAIN psSession.typedOutput
    /\ IsFiniteSet(psSession.paths) /\ psSession.paths \subseteq Nat
    /\ \A f \in psSession.paths :
          /\ Path[f].entry \in STRING /\ Path[f].dot \in BOOLEAN /\ Path[f].ok \in BOOLEAN
          /\ Path[f].type \in DOMAIN psSession.typedOutput
          /\ Shard(Path[f].name, psSession.typedOutput[Path[f].type]) \in Nat
    /\ IsFiniteSet(DOMAIN psSession.vals)
    /\ DOMAIN psSession.vals \subseteq Nat \X DOMAIN psSession.typedOutput
    /\ \A k \in DOMAIN psSession.vals :
          /\ IsFiniteSet(DOMAIN psSession.vals[k]) /\ DOMAIN psSession.vals[k] \subseteq Nat
          /\ psSession.vals[k] \in [DOMAIN psSession.vals[k] -> Nat]
          /\ \A n \in DOMAIN psSession.vals[k] : Shard(n, psSession.typedOutput[k[2]]) \in Nat
          /\ Path[k[1]].entry \in STRING
    /\ psSession.order \in [DOMAIN psSession.order -> Nat]
    /\ psSession.ras \in [DOMAIN psSession.ras -> Seq(STRING)]

LEMMA PsSoundness == psSession \in Sessions \cup {session!NoSession} => PsSound
<1>1. CASE psSession \in Sessions
    BY <1>1, SessionsAssumption DEF PsSound
<1>2. CASE psSession = session!NoSession
    <2>1. /\ psSession.typedOutput = << >> /\ psSession.paths = {} /\ psSession.vals = << >>
          /\ psSession.order = << >> /\ psSession.ras = << >>
        BY <1>2 DEF session!NoSession
    <2>2. \A S : << >> \in [{} -> S]
        OBVIOUS
    <2>3. DOMAIN << >> = {} /\ IsFiniteSet({})
        BY FS_EmptySet
    <2>. QED
        BY <2>1, <2>2, <2>3 DEF PsSound
<1>. QED
    BY <1>1, <1>2

LEMMA PsArchives ==
    ASSUME PsSound, NEW a
    PROVE  a \in session!Archives <=>
             /\ a = <<a[1], a[2]>> /\ a[1] \in DOMAIN psSession.typedOutput
             /\ a[2] \in Nat /\ a[2] < psSession.typedOutput[a[1]]
<1>1. \A t \in DOMAIN psSession.typedOutput : psSession.typedOutput[t] \in Nat
    BY DEF PsSound
<1>2. \A n \in Nat : \A i : i \in 0..(n - 1) <=> i \in Nat /\ i < n
    OBVIOUS
<1>. QED
    BY <1>1, <1>2 DEF session!Archives, session!typedOutput

LEMMA PsIdx == ASSUME PsSound PROVE \A f : session!pathIdx(f) \in Nat
BY DEF session!pathIdx, PsSound

\* Less is an order in which two files are always one before the other.
LEMMA PsOrder ==
    ASSUME PsSound
    PROVE  /\ \A j, k : session!Less(j, k) <=> session!Earlier(j, k)
           /\ \A k : k[1] \in Nat => ~session!Earlier(k, k)
           /\ \A j, k : j[1] \in Nat /\ k[1] \in Nat /\ session!Earlier(j, k) => ~session!Earlier(k, j)
           /\ \A j, k : j[1] \in Nat /\ k[1] \in Nat /\ j[1] # k[1] /\ ~session!Earlier(j, k)
                => session!Earlier(k, j)
<1>1. \A f : session!pathIdx(f) \in Nat
    BY PsIdx
<1>. QED
    BY <1>1 DEF session!Less, session!Earlier

LEMMA PsFinite ==
    ASSUME PsSound, NEW a
    PROVE  /\ IsFiniteSet(session!Entries(a))
           /\ \A S \in SUBSET session!Entries(a) :
                 IsFiniteSet(S) /\ Cardinality(S) \in Nat
                 /\ Cardinality(S) <= Cardinality(session!Entries(a))
<1>1. IsFiniteSet(session!PathKeys)
    BY FS_Product, FS_Singleton DEF PsSound, session!PathKeys
<1>2. IsFiniteSet(session!PathsOf(a)) /\ IsFiniteSet(session!ValsOf(a))
    <2>1. session!PathsOf(a) \subseteq session!PathKeys /\ session!ValsOf(a) \subseteq DOMAIN psSession.vals
        BY DEF session!PathsOf, session!ValsOf
    <2>. QED
        BY <1>1, <2>1, FS_Subset DEF PsSound
<1>3. IsFiniteSet({"path"} \X session!PathsOf(a)) /\ IsFiniteSet({"vals"} \X session!ValsOf(a))
    BY <1>2, FS_Product, FS_Singleton
<1>4. IsFiniteSet(session!Entries(a))
    BY <1>3, FS_Union DEF session!Entries
<1>. QED
    BY <1>4, FS_Subset, FS_CardinalityType

LEMMA PsNamesFinite ==
    ASSUME PsSound, NEW k \in DOMAIN psSession.vals, NEW a
    PROVE  /\ IsFiniteSet(session!NamesOf(k, a)) /\ session!NamesOf(k, a) \subseteq Nat
           /\ \A S \in SUBSET session!NamesOf(k, a) :
                 IsFiniteSet(S) /\ Cardinality(S) \in Nat
                 /\ Cardinality(S) <= Cardinality(session!NamesOf(k, a))
<1>1. /\ session!NamesOf(k, a) \subseteq DOMAIN psSession.vals[k]
      /\ IsFiniteSet(DOMAIN psSession.vals[k]) /\ DOMAIN psSession.vals[k] \subseteq Nat
    BY DEF session!NamesOf, PsSound
<1>2. IsFiniteSet(session!NamesOf(k, a))
    BY <1>1, FS_Subset
<1>. QED
    BY <1>1, <1>2, FS_Subset, FS_CardinalityType

\* What stands before the key at hand is what is written.
PsEntryAt == <<PsStage, psKey>>

LEMMA PsEntries ==
    ASSUME PsSound, NEW a, NEW e \in session!Entries(a)
    PROVE  /\ e = <<e[1], e[2]>> /\ e[1] \in {"path", "vals"}
           /\ e[1] = "path" => e[2] \in session!PathKeys /\ e[2] \in session!PathsOf(a)
           /\ e[1] = "vals" => e[2] \in DOMAIN psSession.vals /\ e[2] \in session!ValsOf(a)
           /\ e[2][1] \in Nat
<1>1. /\ e = <<e[1], e[2]>>
      /\ \/ e[1] = "path" /\ e[2] \in session!PathsOf(a)
         \/ e[1] = "vals" /\ e[2] \in session!ValsOf(a)
    BY DEF session!Entries
<1>2. \A k \in session!PathKeys : k[1] \in Nat
    BY DEF session!PathKeys, PsSound
<1>3. \A k \in DOMAIN psSession.vals : k[1] \in Nat
    BY DEF PsSound
<1>4. /\ session!PathsOf(a) \subseteq session!PathKeys
      /\ session!ValsOf(a) \subseteq DOMAIN psSession.vals
    BY DEF session!PathsOf, session!ValsOf
<1>. QED
    BY <1>1, <1>2, <1>3, <1>4

LEMMA PsCardinality == \A S : session!Cardinality(S) = Cardinality(S)
BY DEF session!Cardinality, Cardinality

\* Two entries of a stage in one archive are of different files.
LEMMA PsFiles ==
    ASSUME PsSound, NEW a, NEW d \in session!Entries(a), NEW e \in session!Entries(a),
           d[1] = e[1], d # e
    PROVE  d[2][1] # e[2][1]
<1>1. /\ d = <<d[1], d[2]>> /\ e = <<e[1], e[2]>> /\ d[2] # e[2]
    BY PsEntries
<1>2. CASE e[1] = "path"
    <2>1. d[2] \in psSession.paths \X {"path"} /\ e[2] \in psSession.paths \X {"path"}
        BY <1>2, PsEntries DEF session!PathKeys
    <2>. QED
        BY <1>1, <2>1
<1>3. CASE e[1] = "vals"
    <2>1. /\ d[2] \in session!ValsOf(a) /\ e[2] \in session!ValsOf(a)
          /\ DOMAIN psSession.vals \subseteq Nat \X DOMAIN psSession.typedOutput
        BY <1>3, PsEntries DEF PsSound
    <2>2. /\ d[2] = <<d[2][1], d[2][2]>> /\ e[2] = <<e[2][1], e[2][2]>> /\ d[2][2] = e[2][2]
        BY <2>1 DEF session!ValsOf
    <2>. QED
        BY <1>1, <2>2
<1>. QED
    BY <1>2, <1>3, PsEntries

\* An entry that is to be written has all the written ones before it.
LEMMA PsAfter ==
    ASSUME PsSound, PsSorted, psPhase \in {"paths", "vals"}, NEW a,
           NEW e \in session!Entries(a), e \notin PsWritten(a)
    PROVE  \A d \in PsWritten(a) : session!Precedes(d, e)
<1>. SUFFICES ASSUME NEW d \in PsWritten(a) PROVE session!Precedes(d, e)
    OBVIOUS
<1>1. d \in session!Entries(a) /\ d # e /\ PsIsPast(d) /\ ~PsIsPast(e)
    BY DEF PsWritten
<1>2. /\ d[1] \in {"path", "vals"} /\ e[1] \in {"path", "vals"}
      /\ d[2][1] \in Nat /\ e[2][1] \in Nat
    BY <1>1, PsEntries
<1>3. CASE d[1] # e[1]
    BY <1>1, <1>2, <1>3 DEF PsIsPast, session!Precedes, PsStage
<1>4. CASE d[1] = e[1]
    <2>1. d[1] = PsStage /\ d[2] \in PsFlushed /\ e[1] = PsStage
        BY <1>1, <1>2, <1>4 DEF PsIsPast, PsStage
    <2>2. e[2] \in PsKeySet
        BY <2>1, PsEntries DEF PsStage, PsKeySet
    <2>3. e[2] \in psTodo \cup PsCur
        BY <1>1, <2>1, <2>2 DEF PsIsPast, PsFlushed
    <2>4. ~session!Less(e[2], d[2])
        BY <2>1, <2>3 DEF PsSorted
    <2>5. d[2][1] # e[2][1]
        BY <1>1, <1>4, PsFiles
    <2>6. session!Earlier(d[2], e[2])
        BY <1>2, <2>4, <2>5, PsOrder
    <2>. QED
        BY <1>4, <2>6 DEF session!Precedes
<1>. QED
    BY <1>3, <1>4

\* And that of the key at hand only those.
LEMMA PsNext ==
    ASSUME PsSound, PsSorted, psPhase \in {"paths", "vals"}, PsCur # {}, NEW a,
           PsEntryAt \in session!Entries(a)
    PROVE  /\ {d \in session!Entries(a) : session!Precedes(d, PsEntryAt)} = PsWritten(a)
           /\ PsEntryAt \notin PsWritten(a)
           /\ session!Place(PsEntryAt, a) = Cardinality(PsWritten(a)) + 1
<1>. DEFINE e == PsEntryAt
<1>1. psKey \in PsCur /\ e[1] = PsStage /\ e[2] = psKey
    BY DEF PsCur, PsEntryAt
<1>2. e \notin PsWritten(a)
    BY <1>1 DEF PsWritten, PsIsPast, PsFlushed, PsStage
<1>3. ASSUME NEW d \in session!Entries(a), session!Precedes(d, e)
      PROVE  d \in PsWritten(a)
    <2>1. /\ d[1] \in {"path", "vals"} /\ d[2][1] \in Nat /\ psKey[1] \in Nat
        BY <1>1, PsEntries
    <2>2. CASE d[1] # e[1]
        BY <1>1, <1>3, <2>1, <2>2 DEF PsWritten, PsIsPast, session!Precedes, PsStage
    <2>3. CASE d[1] = e[1]
        <3>1. session!Earlier(d[2], psKey)
            BY <1>1, <1>3, <2>3 DEF session!Precedes
        <3>2. d[2] \notin psTodo
            <4>1. \A t \in psTodo : ~session!Less(t, psKey)
                BY <1>1 DEF PsSorted
            <4>. QED
                BY <3>1, <4>1, PsOrder
        <3>3. d[2] \notin PsCur
            BY <2>1, <3>1, PsOrder DEF PsCur
        <3>4. d[2] \in PsKeySet
            BY <1>1, <2>3, PsEntries DEF PsStage, PsKeySet
        <3>. QED
            BY <1>1, <2>3, <3>2, <3>3, <3>4 DEF PsWritten, PsIsPast, PsFlushed
    <2>. QED
        BY <2>2, <2>3
<1>4. \A d \in PsWritten(a) : d \in session!Entries(a) /\ session!Precedes(d, e)
    BY <1>2, PsAfter DEF PsWritten
<1>5. {d \in session!Entries(a) : session!Precedes(d, e)} = PsWritten(a)
    BY <1>3, <1>4
<1>. QED
    BY <1>2, <1>5, PsCardinality DEF session!Place

\* The place of an entry is behind the written ones, and behind the one at hand.
LEMMA PsPlaces ==
    ASSUME PsSound, PsSorted, NEW a
    PROVE  /\ Cardinality(PsWritten(a)) \in Nat
           /\ Cardinality(PsWritten(a)) <= Cardinality(session!Entries(a))
           /\ \A e \in session!Entries(a) : session!Place(e, a) \in Nat /\ session!Place(e, a) >= 1
           /\ \A e \in session!Entries(a) \ PsWritten(a) :
                 /\ session!Place(e, a) > Cardinality(PsWritten(a))
                 /\ PsCur # {} /\ e # PsEntryAt /\ PsEntryAt \in session!Entries(a)
                      => session!Place(e, a) > Cardinality(PsWritten(a)) + 1
<1>. DEFINE E == session!Entries(a)
            W == PsWritten(a)
            B(e) == {d \in E : session!Precedes(d, e)}
<1>1. W \in SUBSET E /\ \A e : B(e) \in SUBSET E
    BY DEF PsWritten
<1>2. /\ IsFiniteSet(W) /\ Cardinality(W) \in Nat /\ Cardinality(W) <= Cardinality(E)
      /\ \A e : IsFiniteSet(B(e)) /\ Cardinality(B(e)) \in Nat
    BY <1>1, PsFinite
<1>3. ASSUME NEW e PROVE session!Place(e, a) = Cardinality(B(e)) + 1
    BY PsCardinality DEF session!Place
<1>. HIDE DEF B, W, E
<1>4. ASSUME NEW e \in E \ W
      PROVE  /\ Cardinality(B(e)) >= Cardinality(W)
             /\ PsCur # {} /\ e # PsEntryAt /\ PsEntryAt \in E => Cardinality(B(e)) >= Cardinality(W) + 1
    <2>1. psPhase \in {"paths", "vals"}
        BY DEF E, W, PsWritten, PsIsPast
    <2>2. W \in SUBSET B(e)
        BY <1>1, <2>1, PsAfter DEF E, W, B
    <2>3. Cardinality(B(e)) >= Cardinality(W)
        BY <1>2, <2>2, FS_Subset
    <2>4. ASSUME PsCur # {}, e # PsEntryAt, PsEntryAt \in E
          PROVE  Cardinality(B(e)) >= Cardinality(W) + 1
        <3>1. PsEntryAt \notin W
            BY <2>1, <2>4, PsNext DEF E, W
        <3>2. session!Precedes(PsEntryAt, e)
            <4>1. /\ e[1] \in {"path", "vals"} /\ PsEntryAt[1] = PsStage /\ PsEntryAt[2] = psKey
                  /\ psKey \in PsCur /\ psKey[1] \in Nat /\ e[2][1] \in Nat
                BY <2>4, PsEntries DEF E, PsEntryAt, PsCur
            <4>2. CASE e[1] # PsStage
                BY <2>1, <4>1, <4>2 DEF E, W, PsWritten, PsIsPast, PsStage, session!Precedes
            <4>3. CASE e[1] = PsStage
                <5>1. e[2] \in PsKeySet
                    BY <4>3, PsEntries DEF E, PsStage, PsKeySet
                <5>2. e[2] \notin PsFlushed
                    BY <2>1, <4>3 DEF E, W, PsWritten, PsIsPast
                <5>3. e = <<e[1], e[2]>>
                    BY PsEntries DEF E
                <5>4. e[2] # psKey
                    BY <2>4, <4>3, <5>3 DEF PsEntryAt
                <5>5. e[2] \in psTodo
                    BY <5>1, <5>2, <5>4 DEF PsFlushed, PsCur
                <5>6. ~session!Less(e[2], psKey)
                    BY <2>1, <4>1, <5>5 DEF PsSorted
                <5>7. e[2][1] # psKey[1]
                    BY <2>4, <4>1, <4>3, PsFiles DEF E
                <5>8. session!Earlier(psKey, e[2])
                    BY <4>1, <5>6, <5>7, PsOrder
                <5>. QED
                    BY <4>1, <4>3, <5>8 DEF session!Precedes
            <4>. QED
                BY <4>2, <4>3
        <3>3. W \cup {PsEntryAt} \in SUBSET B(e)
            BY <2>2, <2>4, <3>2 DEF B
        <3>4. Cardinality(W \cup {PsEntryAt}) = Cardinality(W) + 1
            BY <1>2, <3>1, FS_AddElement
        <3>. QED
            BY <1>2, <3>3, <3>4, FS_Subset
    <2>. QED
        BY <2>3, <2>4
<1>5. \A m, n \in Nat : m >= n => m + 1 > n /\ (m >= n + 1 => m + 1 > n + 1)
    OBVIOUS
<1>6. ASSUME NEW e \in E \ W
      PROVE  /\ session!Place(e, a) > Cardinality(W)
             /\ PsCur # {} /\ e # PsEntryAt /\ PsEntryAt \in E
                  => session!Place(e, a) > Cardinality(W) + 1
    BY <1>2, <1>3, <1>4, <1>5
<1>7. \A e : session!Place(e, a) \in Nat /\ session!Place(e, a) >= 1
    BY <1>2, <1>3
<1>. QED
    BY <1>2, <1>6, <1>7 DEF E, W

\* What depends on the session only.
LEMMA PsSame ==
    ASSUME psSession' = psSession
    PROVE  /\ session!Archives' = session!Archives /\ session!PathKeys' = session!PathKeys
           /\ \A j, k : session!Less(j, k)' = session!Less(j, k)
           /\ \A a : session!Entries(a)' = session!Entries(a)
           /\ \A e, a : session!Place(e, a)' = session!Place(e, a)
           /\ \A k, a : session!NamesOf(k, a)' = session!NamesOf(k, a)
           /\ \A n, k, a : session!Rank(n, k, a)' = session!Rank(n, k, a)
           /\ \A f : session!RAs(f)' = session!RAs(f)
           /\ \A x, e, a : session!Begins(x, e, a)' = session!Begins(x, e, a)
           /\ \A x, e, a : session!IsWhole(x, e, a)' = session!IsWhole(x, e, a)
<1>1. /\ session!Archives' = session!Archives /\ session!PathKeys' = session!PathKeys
      /\ session!typedOutput' = session!typedOutput
    BY DEF session!Archives, session!PathKeys, session!typedOutput
<1>2. ASSUME NEW f PROVE session!pathIdx(f)' = session!pathIdx(f) /\ session!RAs(f)' = session!RAs(f)
    BY DEF session!pathIdx, session!RAs
<1>3. ASSUME NEW j, NEW k PROVE session!Less(j, k)' = session!Less(j, k)
    BY <1>2 DEF session!Less
<1>4. ASSUME NEW d, NEW e PROVE session!Precedes(d, e)' = session!Precedes(d, e)
    BY <1>2 DEF session!Precedes, session!Earlier
<1>5. ASSUME NEW a PROVE session!Entries(a)' = session!Entries(a)
    BY <1>1 DEF session!Entries, session!PathsOf, session!ValsOf
<1>6. ASSUME NEW e, NEW a PROVE session!Place(e, a)' = session!Place(e, a)
    <2>1. {d \in session!Entries(a)' : session!Precedes(d, e)'}
            = {d \in session!Entries(a) : session!Precedes(d, e)}
        BY <1>4, <1>5
    <2>. QED
        BY <2>1 DEF session!Place
<1>7. ASSUME NEW k, NEW a PROVE session!NamesOf(k, a)' = session!NamesOf(k, a)
    BY <1>1 DEF session!NamesOf
<1>8. ASSUME NEW n, NEW k, NEW a PROVE session!Rank(n, k, a)' = session!Rank(n, k, a)
    BY <1>7 DEF session!Rank
<1>9. ASSUME NEW x, NEW e, NEW a PROVE session!Begins(x, e, a)' = session!Begins(x, e, a)
    BY <1>2, <1>7, <1>8 DEF session!Begins
<1>10. ASSUME NEW x, NEW e, NEW a PROVE session!IsWhole(x, e, a)' = session!IsWhole(x, e, a)
    BY <1>7, <1>9 DEF session!IsWhole
<1>. QED
    BY <1>1, <1>2, <1>3, <1>5, <1>6, <1>7, <1>8, <1>9, <1>10

\* InOrder, for one archive.
PsFits(s, a) ==
    /\ Len(s) <= Cardinality(session!Entries(a))
    /\ \A e \in session!Entries(a) :
          /\ session!Place(e, a) <= Len(s) => session!Begins(s[session!Place(e, a)], e, a)
          /\ session!Place(e, a) < Len(s) => session!IsWhole(s[session!Place(e, a)], e, a)
PsWhole(s, a) ==
    \A e \in PsWritten(a) : /\ session!Place(e, a) <= Cardinality(PsWritten(a))
                             /\ session!IsWhole(s[session!Place(e, a)], e, a)

LEMMA PsInOrder == session!InOrder <=> \A a \in session!Archives : PsFits(psArch[a], a)
BY PsCardinality DEF session!InOrder, PsFits

LEMMA PsInOrderNext ==
    ASSUME psSession' = psSession, \A a \in session!Archives : PsFits(psArch'[a], a)
    PROVE  session!InOrder'
BY PsSame, PsCardinality DEF session!InOrder, PsFits

\* What fits: the written entries, and the beginning of the one at hand.
LEMMA PsFitting ==
    ASSUME PsSound, PsSorted, NEW a, NEW s, PsWhole(s, a),
           \/ Len(s) = Cardinality(PsWritten(a))
           \/ /\ Len(s) = Cardinality(PsWritten(a)) + 1
              /\ psPhase \in {"paths", "vals"} /\ PsCur # {}
              /\ PsEntryAt \in session!Entries(a) /\ session!Begins(s[Len(s)], PsEntryAt, a)
    PROVE  PsFits(s, a)
<1>. DEFINE E == session!Entries(a)
            W == PsWritten(a)
<1>1. /\ Cardinality(W) \in Nat /\ Cardinality(E) \in Nat /\ Cardinality(W) <= Cardinality(E)
      /\ IsFiniteSet(W) /\ W \subseteq E
    BY PsPlaces, PsFinite DEF PsWritten
<1>2. \A e \in E : session!Place(e, a) \in Nat
    BY PsPlaces
<1>3. CASE Len(s) = Cardinality(W)
    <2>1. \A e \in E \ W : session!Place(e, a) > Cardinality(W)
        BY PsPlaces
    <2>. QED
        BY <1>1, <1>2, <1>3, <2>1 DEF PsFits, PsWhole, session!IsWhole
<1>4. CASE /\ Len(s) = Cardinality(W) + 1
           /\ psPhase \in {"paths", "vals"} /\ PsCur # {}
           /\ PsEntryAt \in E /\ session!Begins(s[Len(s)], PsEntryAt, a)
    <2>1. PsEntryAt \notin W /\ session!Place(PsEntryAt, a) = Cardinality(W) + 1
        BY <1>4, PsNext
    <2>2. W \cup {PsEntryAt} \in SUBSET E
        BY <1>1, <1>4
    <2>3. Len(s) <= Cardinality(E)
        <3>1. Cardinality(W \cup {PsEntryAt}) = Cardinality(W) + 1
            BY <1>1, <2>1, FS_AddElement
        <3>2. Cardinality(W \cup {PsEntryAt}) <= Cardinality(E)
            BY <2>2, PsFinite
        <3>. QED
            BY <1>4, <3>1, <3>2
    <2>4. \A e \in E \ W : e # PsEntryAt => session!Place(e, a) > Cardinality(W) + 1
        BY <1>4, PsPlaces
    <2>. HIDE DEF E, W
    <2>5. \A m, n \in Nat : m <= n => m <= n + 1 /\ m < n + 1
        OBVIOUS
    <2>6. \A m, n \in Nat : m > n + 1 => ~(m <= n + 1) /\ ~(m < n + 1)
        OBVIOUS
    <2>7. ASSUME NEW e \in E
          PROVE  /\ session!Place(e, a) <= Len(s) => session!Begins(s[session!Place(e, a)], e, a)
                 /\ session!Place(e, a) < Len(s) => session!IsWhole(s[session!Place(e, a)], e, a)
        <3>1. CASE e \in W
            BY <3>1 DEF PsWhole, session!IsWhole, W
        <3>2. CASE e = PsEntryAt
            BY <1>1, <1>4, <2>1, <3>2
        <3>3. CASE e \notin W /\ e # PsEntryAt
            BY <1>1, <1>2, <1>4, <2>4, <2>6, <3>3
        <3>. QED
            BY <3>1, <3>2, <3>3
    <2>. QED
        BY <2>3, <2>7 DEF PsFits, E
<1>. QED
    BY <1>3, <1>4

\* A failure that writes nothing.
LEMMA PsFails ==
    ASSUME PsInv, psSession' = psSession, psArch' = psArch, psClosed' = psClosed,
           psPhase' \in {"error", "panic"}
    PROVE  PsInv'
<1>1. session!InOrder'
    BY PsInOrderNext, PsInOrder DEF PsInv
<1>2. session!ClosedComplete'
    BY PsSame DEF PsInv, session!ClosedComplete
<1>3. PsTyped' /\ PsClosed'
    BY PsSame DEF PsInv, PsTyped, PsClosed
<1>. QED
    BY <1>1, <1>2, <1>3 DEF PsInv, PsSorted, PsWriting, PsProgress

LEMMA PsKeys ==
    ASSUME PsSound PROVE session!None \notin session!PathKeys \cup DOMAIN psSession.vals
BY DEF PsSound, session!None, session!PathKeys

\* The key at hand is flushed.
LEMMA PsFlush ==
    ASSUME PsSound, PsSorted, psPhase \in {"paths", "vals"}, PsCur # {},
           psSession' = psSession, psPhase' = psPhase, psTodo' = psTodo, psKey' = session!None
    PROVE  /\ PsSorted' /\ PsCur' = {}
           /\ \A a : PsWritten(a)' = PsWritten(a) \cup ({PsEntryAt} \cap session!Entries(a))
<1>1. PsCur = {psKey} /\ PsCur' = {} /\ PsKeySet' = PsKeySet /\ PsStage' = PsStage
    BY PsSame DEF PsCur, PsKeySet, PsStage
<1>2. PsFlushed' = PsFlushed \cup {psKey} /\ psKey \notin PsFlushed
    BY <1>1 DEF PsFlushed, PsSorted
<1>3. PsSorted'
    BY <1>1, <1>2, PsSame DEF PsSorted
<1>4. ASSUME NEW a PROVE PsWritten(a)' = PsWritten(a) \cup ({PsEntryAt} \cap session!Entries(a))
    <2>1. session!Entries(a)' = session!Entries(a)
        BY PsSame
    <2>2. ASSUME NEW e \in session!Entries(a)
          PROVE  PsIsPast(e)' <=> PsIsPast(e) \/ e = PsEntryAt
        <3>1. e = <<e[1], e[2]>>
            BY PsEntries
        <3>. QED
            BY <1>1, <1>2, <3>1 DEF PsIsPast, PsEntryAt
    <2>3. PsWritten(a)' = {e \in session!Entries(a) : PsIsPast(e)'}
        BY <2>1 DEF PsWritten
    <2>. QED
        BY <2>2, <2>3 DEF PsWritten
<1>. QED
    BY <1>1, <1>3, <1>4

\* A key is taken that none of the others has to come before.
LEMMA PsTake ==
    ASSUME PsSound, PsSorted, psPhase \in {"paths", "vals"}, PsCur = {}, NEW k \in session!First,
           psSession' = psSession, psPhase' = psPhase, psTodo' = psTodo \ {k}, psKey' = k
    PROVE  /\ PsSorted' /\ PsCur' = {k} /\ k \in PsKeySet
           /\ \A a : PsWritten(a)' = PsWritten(a)
<1>1. k \in psTodo /\ k \in PsKeySet /\ \A j \in psTodo : ~session!Less(j, k)
    BY DEF session!First, PsSorted
<1>2. k # session!None
    BY <1>1, PsKeys DEF PsKeySet
<1>3. PsCur' = {k} /\ PsKeySet' = PsKeySet /\ PsStage' = PsStage
    BY <1>2, PsSame DEF PsCur, PsKeySet, PsStage
<1>4. PsFlushed' = PsFlushed
    BY <1>1, <1>3 DEF PsFlushed
<1>5. PsSorted'
    BY <1>1, <1>3, <1>4, PsSame DEF PsSorted
<1>6. ASSUME NEW a PROVE PsWritten(a)' = PsWritten(a)
    <2>1. session!Entries(a)' = session!Entries(a)
        BY PsSame
    <2>. QED
        BY <1>3, <1>4, <2>1 DEF PsWritten, PsIsPast
<1>. QED
    BY <1>1, <1>3, <1>5, <1>6

LEMMA PsStay ==
    ASSUME psSession' = psSession, psPhase' = psPhase, psTodo' = psTodo, psKey' = psKey, PsSorted
    PROVE  /\ PsSorted' /\ PsCur' = PsCur
           /\ \A a : PsWritten(a)' = PsWritten(a)
<1>1. PsCur' = PsCur /\ PsKeySet' = PsKeySet /\ PsStage' = PsStage
    BY PsSame DEF PsCur, PsKeySet, PsStage
<1>2. PsFlushed' = PsFlushed
    BY <1>1 DEF PsFlushed
<1>3. PsSorted'
    BY <1>1, <1>2, PsSame DEF PsSorted
<1>4. ASSUME NEW a PROVE PsWritten(a)' = PsWritten(a)
    <2>1. session!Entries(a)' = session!Entries(a)
        BY PsSame
    <2>. QED
        BY <1>1, <1>2, <2>1 DEF PsWritten, PsIsPast
<1>. QED
    BY <1>1, <1>3, <1>4

\* One of the archives has a new entry, for the key at hand.
LEMMA PsAppended ==
    ASSUME PsInv, psPhase \in {"paths", "vals"}, PsCur # {}, NEW b \in session!Archives,
           PsEntryAt \in session!Entries(b), ~PsBegun(b),
           NEW x \in PsEntry, session!Begins(x, PsEntryAt, b),
           psSession' = psSession, psArch' = [psArch EXCEPT ![b] = Append(@, x)]
    PROVE  /\ psArch' \in [session!Archives -> Seq(PsEntry)]
           /\ Len(psArch'[b]) = Cardinality(PsWritten(b)) + 1
           /\ psArch'[b][Cardinality(PsWritten(b)) + 1] = x
           /\ PsWhole(psArch'[b], b)
           /\ \A a \in session!Archives : a # b => psArch'[a] = psArch[a]
           /\ session!InOrder'
<1>1. PsSound
    BY PsSoundness DEF PsInv, PsTyped
<1>2. /\ psArch \in [session!Archives -> Seq(PsEntry)] /\ psArch[b] \in Seq(PsEntry)
      /\ Len(psArch[b]) = Cardinality(PsWritten(b)) /\ Cardinality(PsWritten(b)) \in Nat
      /\ PsWhole(psArch[b], b)
    BY <1>1, PsPlaces DEF PsInv, PsTyped, PsProgress, PsFilled, PsWhole
<1>3. /\ psArch'[b] = Append(psArch[b], x)
      /\ \A a \in session!Archives : a # b => psArch'[a] = psArch[a]
    BY <1>2
<1>. DEFINE n == Cardinality(PsWritten(b))
<1>4. /\ psArch'[b] \in Seq(PsEntry) /\ Len(psArch'[b]) = n + 1 /\ psArch'[b][n + 1] = x
      /\ \A i \in 1..n : psArch'[b][i] = psArch[b][i]
    BY <1>2, <1>3, AppendProperties
<1>5. PsWhole(psArch'[b], b)
    <2>1. \A e \in PsWritten(b) : session!Place(e, b) \in 1..n
        <3>1. \A e \in PsWritten(b) : session!Place(e, b) \in Nat /\ session!Place(e, b) >= 1
                                       /\ session!Place(e, b) <= n
            BY <1>1, <1>2, PsPlaces DEF PsInv, PsWhole, PsWritten
        <3>. QED
            BY <1>2, <3>1
    <2>. QED
        BY <1>2, <1>4, <2>1 DEF PsWhole
<1>6. psArch' \in [session!Archives -> Seq(PsEntry)]
    BY <1>2, <1>3, <1>4
<1>7. PsFits(psArch'[b], b)
    BY <1>1, <1>4, <1>5, PsFitting DEF PsInv
<1>8. session!InOrder'
    BY <1>3, <1>7, PsInOrder, PsInOrderNext DEF PsInv
<1>. QED
    BY <1>3, <1>4, <1>5, <1>6, <1>8

\* The last entry of an archive is changed, and still begins as it has to.
LEMMA PsChanged ==
    ASSUME PsInv, psPhase = "vals", PsCur # {}, NEW b \in session!Archives,
           PsEntryAt \in session!Entries(b), PsBegun(b),
           NEW x \in PsEntry, session!Begins(x, PsEntryAt, b), psSession' = psSession,
           psArch' = [psArch EXCEPT ![b] = [@ EXCEPT ![Len(psArch[b])] = x]]
    PROVE  /\ psArch' \in [session!Archives -> Seq(PsEntry)]
           /\ Len(psArch'[b]) = Cardinality(PsWritten(b)) + 1
           /\ psArch'[b][Cardinality(PsWritten(b)) + 1] = x
           /\ PsWhole(psArch'[b], b)
           /\ \A a \in session!Archives : a # b => psArch'[a] = psArch[a]
           /\ session!InOrder'
<1>1. PsSound
    BY PsSoundness DEF PsInv, PsTyped
<1>. DEFINE n == Cardinality(PsWritten(b))
<1>2. /\ psArch \in [session!Archives -> Seq(PsEntry)] /\ psArch[b] \in Seq(PsEntry)
      /\ Len(psArch[b]) = n + 1 /\ n \in Nat /\ PsWhole(psArch[b], b)
    BY <1>1, PsPlaces DEF PsInv, PsTyped, PsProgress, PsFilled, PsWhole
<1>3. /\ psArch'[b] = [psArch[b] EXCEPT ![n + 1] = x]
      /\ \A a \in session!Archives : a # b => psArch'[a] = psArch[a]
    BY <1>2
<1>4. /\ psArch'[b] \in Seq(PsEntry) /\ Len(psArch'[b]) = n + 1 /\ psArch'[b][n + 1] = x
      /\ \A i \in 1..n : psArch'[b][i] = psArch[b][i]
    <2>. HIDE DEF n, PsEntry
    <2>. DEFINE s == psArch[b]
    <2>1. s \in Seq(PsEntry) /\ DOMAIN s = 1..(n + 1) /\ n + 1 \in 1..(n + 1)
        BY <1>2
    <2>. HIDE DEF s
    <2>. QED
        BY <1>2, <1>3, <2>1, ExceptSeq DEF s
<1>5. PsWhole(psArch'[b], b)
    <2>1. \A e \in PsWritten(b) : session!Place(e, b) \in 1..n
        <3>1. \A e \in PsWritten(b) : session!Place(e, b) \in Nat /\ session!Place(e, b) >= 1
                                       /\ session!Place(e, b) <= n
            BY <1>1, <1>2, PsPlaces DEF PsInv, PsWhole, PsWritten
        <3>. QED
            BY <1>2, <3>1
    <2>. QED
        BY <1>2, <1>4, <2>1 DEF PsWhole
<1>6. psArch' \in [session!Archives -> Seq(PsEntry)]
    BY <1>2, <1>3, <1>4
<1>7. PsFits(psArch'[b], b)
    BY <1>1, <1>4, <1>5, PsFitting DEF PsInv
<1>8. session!InOrder'
    BY <1>3, <1>7, PsInOrder, PsInOrderNext DEF PsInv
<1>. QED
    BY <1>3, <1>4, <1>5, <1>6, <1>8

LEMMA PsFilledNext ==
    ASSUME psSession' = psSession, NEW a, ~PsBegun(a)',
           Len(psArch'[a]) = Cardinality(PsWritten(a)'),
           \A e \in PsWritten(a)' :
              /\ session!Place(e, a) <= Cardinality(PsWritten(a)')
              /\ session!IsWhole(psArch'[a][session!Place(e, a)], e, a)
    PROVE  PsFilled(a)'
BY PsSame DEF PsFilled

\* The step that flushes the key at hand leaves it whole in the archives that it is for.
LEMMA PsFlushed1 ==
    ASSUME PsSound, PsSorted, psPhase \in {"paths", "vals"}, PsCur # {}, psSession' = psSession, NEW a,
           PsWritten(a)' = PsWritten(a) \cup ({PsEntryAt} \cap session!Entries(a)), ~PsBegun(a)',
           PsWhole(psArch'[a], a),
           IF PsEntryAt \in session!Entries(a)
           THEN /\ Len(psArch'[a]) = Cardinality(PsWritten(a)) + 1
                /\ session!IsWhole(psArch'[a][Cardinality(PsWritten(a)) + 1], PsEntryAt, a)
           ELSE Len(psArch'[a]) = Cardinality(PsWritten(a))
    PROVE  PsFilled(a)'
<1>. DEFINE W == PsWritten(a)
            n == Cardinality(W)
<1>1. IsFiniteSet(W) /\ n \in Nat
    BY PsFinite DEF PsWritten
<1>2. CASE PsEntryAt \notin session!Entries(a)
    <2>1. PsWritten(a)' = W
        BY <1>2
    <2>. QED
        BY <1>2, <2>1, PsFilledNext DEF PsWhole
<1>3. CASE PsEntryAt \in session!Entries(a)
    <2>1. PsWritten(a)' = W \cup {PsEntryAt} /\ PsEntryAt \notin W /\ session!Place(PsEntryAt, a) = n + 1
        BY <1>3, PsNext
    <2>2. Cardinality(PsWritten(a)') = n + 1
        BY <1>1, <2>1, FS_AddElement
    <2>3. \A e \in W : session!Place(e, a) \in Nat /\ session!Place(e, a) <= n
        BY PsPlaces DEF PsWhole, PsWritten
    <2>4. \A e \in W : session!Place(e, a) <= n + 1
        BY <1>1, <2>3
    <2>5. ASSUME NEW e \in PsWritten(a)'
          PROVE  /\ session!Place(e, a) <= n + 1
                 /\ session!IsWhole(psArch'[a][session!Place(e, a)], e, a)
        <3>1. CASE e \in W
            BY <2>4, <3>1 DEF PsWhole
        <3>2. CASE e = PsEntryAt
            BY <1>1, <1>3, <2>1, <3>2
        <3>. QED
            BY <2>1, <3>1, <3>2
    <2>. QED
        BY <1>3, <2>2, <2>5, PsFilledNext
<1>. QED
    BY <1>2, <1>3

\* The path at hand is for one archive.
LEMMA PsPath ==
    ASSUME PsInv, session!OfPath
    PROVE  /\ PsSound /\ PsCur = {psKey} /\ psKey \in session!PathKeys /\ psKey[1] \in Nat
           /\ psPhase = "paths" /\ PsEntryAt = <<"path", psKey>>
           /\ session!pi = Path[psKey[1]]
           /\ \A a : PsEntryAt \in session!Entries(a) <=>
                       /\ session!pi.type = a[1] /\ ~session!pi.dot /\ session!pi.ok
                       /\ Shard(session!pi.name, psSession.typedOutput[a[1]]) = a[2]
           /\ \A a \in session!Archives : ~PsBegun(a) /\ PsWhole(psArch[a], a)
                                         /\ Len(psArch[a]) = Cardinality(PsWritten(a))
           /\ psClosed = {}
<1>1. psPhase = "paths" /\ psKey # session!None /\ PsSound
    BY PsSoundness DEF PsInv, PsTyped, session!OfPath
<1>2. PsCur = {psKey} /\ psKey \in session!PathKeys /\ PsEntryAt = <<"path", psKey>>
    BY <1>1 DEF PsInv, PsSorted, PsCur, PsKeySet, PsEntryAt, PsStage
<1>3. psKey[1] \in psSession.paths /\ psKey[1] \in Nat
    BY <1>1, <1>2 DEF session!PathKeys, PsSound
<1>4. \A a : PsEntryAt \in session!Entries(a) <=> psKey \in session!PathsOf(a)
    BY <1>2 DEF session!Entries
<1>5. \A a : psKey \in session!PathsOf(a) <=>
               /\ session!pi.type = a[1] /\ ~session!pi.dot /\ session!pi.ok
               /\ Shard(session!pi.name, psSession.typedOutput[a[1]]) = a[2]
    BY <1>2 DEF session!PathsOf, session!pi, session!typedOutput
<1>6. \A a \in session!Archives : ~PsBegun(a) /\ PsFilled(a)
    BY <1>1 DEF PsInv, PsProgress, PsBegun
<1>7. \A a \in session!Archives : PsWhole(psArch[a], a) /\ Len(psArch[a]) = Cardinality(PsWritten(a))
    <2>. SUFFICES ASSUME NEW a \in session!Archives
                  PROVE  PsWhole(psArch[a], a) /\ Len(psArch[a]) = Cardinality(PsWritten(a))
        OBVIOUS
    <2>1. Cardinality(PsWritten(a)) \in Nat
        BY <1>1, PsPlaces DEF PsInv
    <2>. QED
        BY <1>6, <2>1 DEF PsFilled, PsWhole
<1>. QED
    BY <1>1, <1>2, <1>3, <1>4, <1>5, <1>6, <1>7 DEF session!pi, PsInv, PsClosed

LEMMA PsPathEntry ==
    ASSUME PsInv, session!CanStore, NEW done \in BOOLEAN
    PROVE  LET b == <<session!pi.type, session!ShardOfPath>> IN
           /\ b \in session!Archives /\ PsEntryAt \in session!Entries(b)
           /\ \A a \in session!Archives : PsEntryAt \in session!Entries(a) => a = b
           /\ session!PathEntry(done) \in PsEntry
           /\ session!Begins(session!PathEntry(done), PsEntryAt, b)
           /\ done => session!IsWhole(session!PathEntry(done), PsEntryAt, b)
<1>. DEFINE b == <<session!pi.type, session!ShardOfPath>>
            x == session!PathEntry(done)
<1>1. /\ session!OfPath /\ ~session!pi.dot /\ session!pi.ok
      /\ session!ShardOfPath < psSession.typedOutput[session!pi.type]
      /\ session!ShardOfPath = Shard(session!pi.name, psSession.typedOutput[session!pi.type])
    BY DEF session!CanStore, session!ShardOfPath, session!typedOutput
<1>2. psKey[1] \in psSession.paths
    BY <1>1, PsPath DEF session!PathKeys
<1>3. /\ session!pi.type \in DOMAIN psSession.typedOutput /\ session!ShardOfPath \in Nat
      /\ session!pi.entry \in STRING
    BY <1>1, <1>2, PsPath DEF PsSound
<1>4. b \in session!Archives
    BY <1>1, <1>3, PsPath, PsArchives
<1>5. PsEntryAt \in session!Entries(b)
    BY <1>1, PsPath
<1>6. \A a \in session!Archives : PsEntryAt \in session!Entries(a) => a = b
    BY <1>1, PsPath, PsArchives
<1>7. x = [name |-> session!pi.entry, attrs |-> << >>,
           body |-> IF done THEN <<psKey[1]>> ELSE << >>, done |-> done]
    BY DEF session!PathEntry
<1>8. /\ << >> \in Seq(STRING) /\ << >> \in Seq(Nat) /\ <<psKey[1]>> \in Seq(Nat)
      /\ Len(<<psKey[1]>>) = 1
    BY <1>1, PsPath
<1>9. x \in PsEntry
    BY <1>3, <1>7, <1>8 DEF PsEntry
<1>10. /\ PsEntryAt[1] = "path" /\ PsEntryAt[2] = psKey /\ session!pi = Path[psKey[1]]
    BY <1>1, PsPath
<1>11. session!Begins(x, PsEntryAt, b)
    BY <1>7, <1>10 DEF session!Begins
<1>12. done => session!IsWhole(x, PsEntryAt, b)
    BY <1>7, <1>8, <1>10, <1>11 DEF session!IsWhole
<1>. QED
    BY <1>4, <1>5, <1>6, <1>9, <1>11, <1>12

LEMMA PsSkipDotFile ==
    ASSUME PsInv, session!SkipDotFile
    PROVE  PsInv'
<1>1. /\ session!OfPath /\ session!pi.dot /\ psKey' = session!None /\ psArch' = psArch
      /\ psSession' = psSession /\ psPhase' = psPhase /\ psTodo' = psTodo /\ psClosed' = psClosed
    BY DEF session!SkipDotFile, session!PathStored
<1>2. PsSorted' /\ PsCur' = {} /\ \A a : PsWritten(a)' = PsWritten(a) \cup ({PsEntryAt} \cap session!Entries(a))
    BY <1>1, PsPath, PsFlush DEF PsInv
<1>3. \A a \in session!Archives : PsFilled(a)'
    <2>. SUFFICES ASSUME NEW a \in session!Archives PROVE PsFilled(a)'
        OBVIOUS
    <2>1. PsEntryAt \notin session!Entries(a) /\ ~PsBegun(a)'
        BY <1>1, PsPath DEF PsBegun
    <2>. QED
        BY <1>1, <1>2, <2>1, PsPath, PsFlushed1 DEF PsInv
<1>4. session!InOrder' /\ session!ClosedComplete'
    BY <1>1, PsPath, PsInOrder, PsInOrderNext DEF PsInv, session!ClosedComplete
<1>5. PsTyped' /\ PsClosed' /\ PsWriting' /\ PsProgress'
    BY <1>1, <1>2, <1>3, PsPath, PsSame DEF PsInv, PsTyped, PsClosed, PsWriting, PsProgress
<1>. QED
    BY <1>2, <1>4, <1>5 DEF PsInv

LEMMA PsStorePath ==
    ASSUME PsInv, session!StorePath
    PROVE  PsInv'
<1>. DEFINE b == <<session!pi.type, session!ShardOfPath>>
            x == session!PathEntry(TRUE)
<1>1. /\ session!CanStore /\ session!OfPath /\ psKey' = session!None
      /\ psArch' = [psArch EXCEPT ![b] = Append(@, x)]
      /\ psSession' = psSession /\ psPhase' = psPhase /\ psTodo' = psTodo /\ psClosed' = psClosed
    BY DEF session!StorePath, session!PathStored, session!CanStore, session!ToArchive
<1>2. /\ b \in session!Archives /\ PsEntryAt \in session!Entries(b)
      /\ \A a \in session!Archives : PsEntryAt \in session!Entries(a) => a = b
      /\ x \in PsEntry /\ session!Begins(x, PsEntryAt, b) /\ session!IsWhole(x, PsEntryAt, b)
    BY <1>1, PsPathEntry
<1>. HIDE DEF b, x
<1>3. /\ psArch' \in [session!Archives -> Seq(PsEntry)]
      /\ Len(psArch'[b]) = Cardinality(PsWritten(b)) + 1
      /\ psArch'[b][Cardinality(PsWritten(b)) + 1] = x
      /\ PsWhole(psArch'[b], b)
      /\ \A a \in session!Archives : a # b => psArch'[a] = psArch[a]
      /\ session!InOrder'
    BY <1>1, <1>2, PsPath, PsAppended
<1>4. PsSorted' /\ PsCur' = {} /\ \A a : PsWritten(a)' = PsWritten(a) \cup ({PsEntryAt} \cap session!Entries(a))
    BY <1>1, PsPath, PsFlush DEF PsInv
<1>5. \A a \in session!Archives : PsFilled(a)'
    <2>. SUFFICES ASSUME NEW a \in session!Archives PROVE PsFilled(a)'
        OBVIOUS
    <2>1. ~PsBegun(a)'
        BY <1>1, PsPath DEF PsBegun
    <2>2. CASE a = b
        BY <1>1, <1>2, <1>3, <1>4, <2>1, <2>2, PsPath, PsFlushed1 DEF PsInv
    <2>3. CASE a # b
        BY <1>1, <1>2, <1>3, <1>4, <2>1, <2>3, PsPath, PsFlushed1 DEF PsInv
    <2>. QED
        BY <2>2, <2>3
<1>6. session!ClosedComplete'
    BY <1>1, PsPath DEF session!ClosedComplete
<1>7. PsTyped' /\ PsClosed' /\ PsWriting' /\ PsProgress'
    BY <1>1, <1>3, <1>4, <1>5, PsPath, PsSame DEF PsInv, PsTyped, PsClosed, PsWriting, PsProgress
<1>. QED
    BY <1>3, <1>4, <1>6, <1>7 DEF PsInv

LEMMA PsStorePathFails ==
    ASSUME PsInv, session!StorePathFails
    PROVE  PsInv'
<1>. DEFINE b == <<session!pi.type, session!ShardOfPath>>
            x == session!PathEntry(FALSE)
<1>1. /\ session!CanStore /\ session!OfPath /\ psPhase' = "error"
      /\ psSession' = psSession /\ psClosed' = psClosed
      /\ psArch' = psArch \/ psArch' = [psArch EXCEPT ![b] = Append(@, x)]
    BY DEF session!StorePathFails, session!CanStore, session!ToArchive
<1>2. CASE psArch' = psArch
    BY <1>1, <1>2, PsFails
<1>3. CASE psArch' = [psArch EXCEPT ![b] = Append(@, x)]
    <2>1. /\ b \in session!Archives /\ PsEntryAt \in session!Entries(b)
          /\ x \in PsEntry /\ session!Begins(x, PsEntryAt, b)
        BY <1>1, PsPathEntry
    <2>. HIDE DEF b, x
    <2>2. psArch' \in [session!Archives -> Seq(PsEntry)] /\ session!InOrder'
        BY <1>1, <1>3, <2>1, PsPath, PsAppended
    <2>3. session!ClosedComplete'
        BY <1>1, PsPath DEF session!ClosedComplete
    <2>4. PsTyped' /\ PsClosed'
        BY <1>1, <2>2, PsPath, PsSame DEF PsInv, PsTyped, PsClosed
    <2>. QED
        BY <1>1, <2>2, <2>3, <2>4 DEF PsInv, PsSorted, PsWriting, PsProgress
<1>. QED
    BY <1>1, <1>2, <1>3

LEMMA PsQuiet ==
    ASSUME PsInv, psSession' = psSession, psArch' = psArch, psClosed' = psClosed
    PROVE  session!InOrder' /\ session!ClosedComplete'
<1>1. session!InOrder'
    BY PsInOrderNext, PsInOrder DEF PsInv
<1>2. session!ClosedComplete'
    BY PsSame, PsCardinality DEF PsInv, session!ClosedComplete
<1>. QED
    BY <1>1, <1>2

\* No key is at hand, and what is written stays as it is.
LEMMA PsTurn ==
    ASSUME PsInv, psPhase \in {"paths", "vals", "close", "ok"}, PsCur = {} \/ psPhase # "vals",
           psSession' = psSession, psArch' = psArch,
           \A a : PsWritten(a)' = PsWritten(a), \A a \in session!Archives : ~PsBegun(a)'
    PROVE  \A a \in session!Archives : PsFilled(a)'
<1>. SUFFICES ASSUME NEW a \in session!Archives PROVE PsFilled(a)'
    OBVIOUS
<1>1. PsSound /\ PsFilled(a) /\ ~PsBegun(a)
    BY PsSoundness DEF PsInv, PsTyped, PsProgress, PsBegun
<1>2. Cardinality(PsWritten(a)) \in Nat
    BY <1>1, PsPlaces DEF PsInv
<1>. QED
    BY <1>1, <1>2, PsFilledNext DEF PsFilled

LEMMA PsSizes ==
    PsSound => \A a : /\ Cardinality(session!Entries(a)) \in Nat
                      /\ \A e : session!Place(e, a) \in Nat /\ session!Place(e, a) >= 1
<1>. SUFFICES ASSUME PsSound, NEW a
              PROVE  /\ Cardinality(session!Entries(a)) \in Nat
                     /\ \A e : session!Place(e, a) \in Nat /\ session!Place(e, a) >= 1
    OBVIOUS
<1>1. Cardinality(session!Entries(a)) \in Nat
    BY PsFinite
<1>2. ASSUME NEW e PROVE session!Place(e, a) \in Nat /\ session!Place(e, a) >= 1
    <2>. DEFINE B == {d \in session!Entries(a) : session!Precedes(d, e)}
    <2>1. B \in SUBSET session!Entries(a)
        OBVIOUS
    <2>2. Cardinality(B) \in Nat
        BY <2>1, PsFinite
    <2>3. session!Place(e, a) = Cardinality(B) + 1
        BY PsCardinality DEF session!Place
    <2>. QED
        BY <2>2, <2>3
<1>. QED
    BY <1>1, <1>2

LEMMA PsCallClose ==
    ASSUME PsInv, session!CallClose
    PROVE  PsInv'
<1>1. /\ psPhase = "idle" /\ psPhase' = "paths" /\ psSession' \in Sessions
      /\ psTodo' = session!PathKeys' /\ psArch' = [a \in session!Archives' |-> << >>]
      /\ psKey' = session!None /\ psClosed' = {}
    BY DEF session!CallClose, session!PathKeys, PsInv, PsTyped, PsClosed
<1>2. PsTyped'
    BY <1>1, EmptySeq DEF PsTyped
<1>3. PsSound'
    BY <1>2, PsSoundness, PTL DEF PsTyped
<1>4. (\A a : /\ Cardinality(session!Entries(a)) \in Nat
              /\ \A e : session!Place(e, a) \in Nat /\ session!Place(e, a) >= 1)'
    BY <1>3, PsSizes, PTL
<1>5. PsCur' = {} /\ PsKeySet' = session!PathKeys' /\ PsFlushed' = {}
    BY <1>1 DEF PsCur, PsKeySet, PsFlushed
<1>6. PsSorted' /\ PsWriting'
    BY <1>1, <1>5 DEF PsSorted, PsWriting
<1>7. \A a : PsWritten(a)' = {}
    BY <1>1, <1>5 DEF PsWritten, PsIsPast
<1>8. ASSUME NEW a \in session!Archives' PROVE psArch'[a] = << >> /\ Len(psArch'[a]) = 0 /\ PsFilled(a)'
    <2>1. psArch'[a] = << >> /\ Len(psArch'[a]) = 0
        BY <1>1
    <2>2. ~PsBegun(a)'
        BY <1>1 DEF PsBegun
    <2>3. Cardinality(PsWritten(a)') = 0
        BY <1>7, FS_EmptySet
    <2>. QED
        BY <1>7, <2>1, <2>2, <2>3 DEF PsFilled
<1>9. session!InOrder'
    <2>1. ASSUME NEW a \in session!Archives', NEW e
          PROVE  /\ Len(psArch'[a]) <= Cardinality(session!Entries(a)')
                 /\ ~(session!Place(e, a)' <= Len(psArch'[a])) /\ ~(session!Place(e, a)' < Len(psArch'[a]))
        BY <1>4, <1>8
    <2>. QED
        BY <2>1, PsCardinality DEF session!InOrder
<1>10. PsClosed' /\ session!ClosedComplete'
    BY <1>1 DEF PsClosed, session!ClosedComplete
<1>11. PsProgress'
    BY <1>8 DEF PsProgress
<1>. QED
    BY <1>2, <1>6, <1>9, <1>10, <1>11 DEF PsInv

LEMMA PsOpenPath ==
    ASSUME PsInv, session!OpenPath
    PROVE  PsInv'
<1>1. PICK k \in session!First : psKey' = k /\ psTodo' = psTodo \ {k}
    BY DEF session!OpenPath
<1>2. /\ psPhase = "paths" /\ psKey = session!None /\ psPhase' = psPhase
      /\ psSession' = psSession /\ psArch' = psArch /\ psClosed' = psClosed
    BY DEF session!OpenPath
<1>3. PsSound /\ PsCur = {}
    BY <1>2, PsSoundness DEF PsInv, PsTyped, PsCur
<1>4. PsSorted' /\ \A a : PsWritten(a)' = PsWritten(a)
    BY <1>1, <1>2, <1>3, PsTake DEF PsInv
<1>5. \A a \in session!Archives : ~PsBegun(a)'
    BY <1>2 DEF PsBegun
<1>6. \A a \in session!Archives : PsFilled(a)'
    BY <1>2, <1>3, <1>4, <1>5, PsTurn
<1>7. PsTyped' /\ PsClosed' /\ PsWriting' /\ PsProgress'
    BY <1>2, <1>6, PsSame DEF PsInv, PsTyped, PsClosed, PsWriting, PsProgress
<1>. QED
    BY <1>2, <1>4, <1>7, PsQuiet DEF PsInv

LEMMA PsPathsDone ==
    ASSUME PsInv, session!PathsDone
    PROVE  PsInv'
<1>1. /\ psPhase = "paths" /\ psKey = session!None /\ psKey' = psKey /\ psTodo = {} /\ psPhase' = "vals"
      /\ psTodo' = DOMAIN psSession.vals
      /\ psSession' = psSession /\ psArch' = psArch /\ psClosed' = psClosed
    BY DEF session!PathsDone
<1>2. PsSound /\ PsCur = {} /\ PsCur' = {} /\ PsKeySet = session!PathKeys /\ PsFlushed = session!PathKeys
    BY <1>1, PsSoundness DEF PsInv, PsTyped, PsCur, PsKeySet, PsFlushed
<1>3. PsKeySet' = DOMAIN psSession.vals /\ PsFlushed' = {}
    BY <1>1 DEF PsKeySet, PsFlushed
<1>4. PsSorted' /\ PsWriting'
    BY <1>1, <1>2, <1>3 DEF PsSorted, PsWriting
<1>5. ASSUME NEW a PROVE PsWritten(a)' = PsWritten(a)
    <2>1. session!Entries(a)' = session!Entries(a)
        BY <1>1, PsSame
    <2>2. ASSUME NEW e \in session!Entries(a) PROVE PsIsPast(e)' <=> PsIsPast(e)
        BY <1>1, <1>2, <1>3, PsEntries DEF PsIsPast, PsStage
    <2>. QED
        BY <2>1, <2>2 DEF PsWritten
<1>6. \A a \in session!Archives : ~PsBegun(a)'
    BY <1>2 DEF PsBegun
<1>7. \A a \in session!Archives : PsFilled(a)'
    BY <1>1, <1>2, <1>5, <1>6, PsTurn
<1>8. PsTyped' /\ PsClosed' /\ PsProgress'
    BY <1>1, <1>7, PsSame DEF PsInv, PsTyped, PsClosed, PsProgress
<1>. QED
    BY <1>1, <1>4, <1>8, PsQuiet DEF PsInv

LEMMA PsValsDone ==
    ASSUME PsInv, session!ValsDone
    PROVE  PsInv'
<1>1. /\ psPhase = "vals" /\ psKey = session!None /\ psTodo = {} /\ psPhase' = "close"
      /\ psSession' = psSession /\ psArch' = psArch /\ psClosed' = psClosed
    BY DEF session!ValsDone
<1>2. PsSound /\ PsCur = {} /\ PsFlushed = DOMAIN psSession.vals
    BY <1>1, PsSoundness DEF PsInv, PsTyped, PsCur, PsKeySet, PsFlushed
<1>3. ASSUME NEW a PROVE PsWritten(a)' = PsWritten(a)
    <2>1. session!Entries(a)' = session!Entries(a)
        BY <1>1, PsSame
    <2>2. ASSUME NEW e \in session!Entries(a) PROVE PsIsPast(e)' /\ PsIsPast(e)
        BY <1>1, <1>2, PsEntries DEF PsIsPast, PsStage
    <2>. QED
        BY <2>1, <2>2 DEF PsWritten
<1>4. \A a \in session!Archives : ~PsBegun(a)'
    BY <1>1 DEF PsBegun
<1>5. \A a \in session!Archives : PsFilled(a)'
    BY <1>1, <1>2, <1>3, <1>4, PsTurn
<1>6. PsTyped' /\ PsClosed' /\ PsProgress' /\ PsSorted' /\ PsWriting'
    BY <1>1, <1>5, PsSame DEF PsInv, PsTyped, PsClosed, PsProgress, PsSorted, PsWriting
<1>. QED
    BY <1>1, <1>6, PsQuiet DEF PsInv

\* An archive is closed, with all that it was to hold.
LEMMA PsCloseArchive ==
    ASSUME PsInv, NEW a \in session!Archives, session!CloseArchive(a)
    PROVE  PsInv'
<1>1. /\ psPhase = "close" /\ psPhase' = "close" /\ psClosed' = psClosed \cup {a}
      /\ psSession' = psSession /\ psArch' = psArch
    BY DEF session!CloseArchive
<1>2. /\ \A c : PsWritten(c) = session!Entries(c) /\ PsWritten(c)' = session!Entries(c)
      /\ \A c \in session!Archives : ~PsBegun(c) /\ ~PsBegun(c)'
    BY <1>1, PsSame DEF PsWritten, PsIsPast, PsBegun
<1>3. PsSound /\ Cardinality(session!Entries(a)) \in Nat
    BY PsSoundness, PsFinite DEF PsInv, PsTyped
<1>4. PsFilled(a)
    BY <1>1 DEF PsInv, PsProgress
<1>5. Len(psArch[a]) = Cardinality(session!Entries(a))
      /\ \A e \in session!Entries(a) : session!IsWhole(psArch[a][session!Place(e, a)], e, a)
    BY <1>2, <1>3, <1>4 DEF PsFilled
<1>6. session!ClosedComplete'
    <2>1. ASSUME NEW c \in psClosed'
          PROVE  /\ Len(psArch[c]) = Cardinality(session!Entries(c))
                 /\ \A e \in session!Entries(c) : session!IsWhole(psArch[c][session!Place(e, c)], e, c)
        BY <1>1, <1>5, <2>1, PsCardinality DEF PsInv, session!ClosedComplete
    <2>. QED
        BY <1>1, <2>1, PsSame, PsCardinality DEF session!ClosedComplete
<1>7. \A c \in session!Archives : PsFilled(c)'
    BY <1>1, <1>2, PsTurn
<1>8. session!InOrder'
    BY <1>1, PsInOrderNext, PsInOrder DEF PsInv
<1>9. PsTyped' /\ PsClosed' /\ PsProgress' /\ PsSorted' /\ PsWriting'
    BY <1>1, <1>7, PsSame DEF PsInv, PsTyped, PsClosed, PsProgress, PsSorted, PsWriting
<1>. QED
    BY <1>6, <1>8, <1>9 DEF PsInv

LEMMA PsCloseReturns ==
    ASSUME PsInv, session!CloseReturns
    PROVE  PsInv'
<1>1. /\ psPhase = "close" /\ psPhase' = "ok" /\ psClosed' = psClosed
      /\ psClosed = session!Archives /\ psSession' = psSession /\ psArch' = psArch
    BY DEF session!CloseReturns
<1>2. /\ \A c : PsWritten(c)' = PsWritten(c)
      /\ \A c \in session!Archives : ~PsBegun(c)'
    BY <1>1, PsSame DEF PsWritten, PsIsPast, PsBegun
<1>3. \A c \in session!Archives : PsFilled(c)'
    BY <1>1, <1>2, PsTurn
<1>4. PsTyped' /\ PsClosed' /\ PsProgress' /\ PsSorted' /\ PsWriting'
    BY <1>1, <1>3, PsSame DEF PsInv, PsTyped, PsClosed, PsProgress, PsSorted, PsWriting
<1>. QED
    BY <1>1, <1>4, PsQuiet DEF PsInv

LEMMA PsTakeKey ==
    ASSUME PsInv, session!TakeKey
    PROVE  PsInv'
<1>1. PICK k \in session!First : /\ psKey' = k /\ psTodo' = psTodo \ {k}
                                 /\ psNames' = DOMAIN psSession.vals[k]
    BY DEF session!TakeKey
<1>2. /\ psPhase = "vals" /\ psKey = session!None /\ psPhase' = psPhase
      /\ psWs' = << >> /\ psFooters' = 0
      /\ psSession' = psSession /\ psArch' = psArch /\ psClosed' = psClosed
    BY DEF session!TakeKey
<1>3. PsSound /\ PsCur = {}
    BY <1>2, PsSoundness DEF PsInv, PsTyped, PsCur
<1>4. PsSorted' /\ k \in PsKeySet /\ \A a : PsWritten(a)' = PsWritten(a)
    BY <1>1, <1>2, <1>3, PsTake DEF PsInv
<1>5. \A a \in session!Archives : ~PsBegun(a)'
    BY <1>2, <1>3, PsArchives DEF PsBegun
<1>6. \A a \in session!Archives : PsFilled(a)'
    BY <1>2, <1>3, <1>4, <1>5, PsTurn
<1>7. PsWriting'
    <2>1. k \in DOMAIN psSession.vals /\ k[2] \in DOMAIN psSession.typedOutput
        BY <1>2, <1>3, <1>4 DEF PsKeySet, PsSound
    <2>2. session!Writers' \in Nat
        BY <1>1, <1>2, <1>3, <2>1 DEF PsSound, session!Writers, session!typedOutput
    <2>3. Len(<< >>) = 0 /\ \A S : << >> \in Seq(S)
        OBVIOUS
    <2>. QED
        BY <1>1, <1>2, <2>2, <2>3 DEF PsWriting
<1>8. PsTyped' /\ PsClosed' /\ PsProgress'
    BY <1>2, <1>6, PsSame DEF PsInv, PsTyped, PsClosed, PsProgress
<1>. QED
    BY <1>2, <1>4, <1>7, <1>8, PsQuiet DEF PsInv

\* The file with values at hand is for each archive of its type.
LEMMA PsVals ==
    ASSUME PsInv, session!OfVals
    PROVE  /\ PsSound /\ psPhase = "vals" /\ PsCur = {psKey} /\ psKey \in DOMAIN psSession.vals
           /\ PsEntryAt = <<"vals", psKey>> /\ psKey[2] \in DOMAIN psSession.typedOutput
           /\ session!Writers = psSession.typedOutput[psKey[2]] /\ session!Writers \in Nat
           /\ \A a : PsEntryAt \in session!Entries(a) <=> psKey[2] = a[1]
           /\ \A a \in session!Archives : /\ PsWhole(psArch[a], a)
                                          /\ Cardinality(PsWritten(a)) \in Nat
           /\ psClosed = {}
<1>1. psPhase = "vals" /\ psKey # session!None /\ PsSound
    BY PsSoundness DEF PsInv, PsTyped, session!OfVals
<1>2. PsCur = {psKey} /\ psKey \in DOMAIN psSession.vals /\ PsEntryAt = <<"vals", psKey>>
    BY <1>1 DEF PsInv, PsSorted, PsCur, PsKeySet, PsEntryAt, PsStage
<1>3. psKey[2] \in DOMAIN psSession.typedOutput
    BY <1>1, <1>2 DEF PsSound
<1>4. session!Writers = psSession.typedOutput[psKey[2]] /\ session!Writers \in Nat
    BY <1>1, <1>3 DEF PsSound, session!Writers, session!typedOutput
<1>5. \A a : PsEntryAt \in session!Entries(a) <=> psKey[2] = a[1]
    BY <1>2 DEF session!Entries, session!ValsOf
<1>6. \A a \in session!Archives : PsWhole(psArch[a], a) /\ Cardinality(PsWritten(a)) \in Nat
    <2>. SUFFICES ASSUME NEW a \in session!Archives
                  PROVE  PsWhole(psArch[a], a) /\ Cardinality(PsWritten(a)) \in Nat
        OBVIOUS
    <2>1. Cardinality(PsWritten(a)) \in Nat /\ PsFilled(a)
        BY <1>1, PsPlaces DEF PsInv, PsProgress
    <2>. QED
        BY <2>1 DEF PsFilled, PsWhole
<1>. QED
    BY <1>1, <1>2, <1>3, <1>4, <1>5, <1>6 DEF PsInv, PsClosed

LEMMA PsLess ==
    ASSUME PsSound, NEW k \in DOMAIN psSession.vals, NEW a, NEW m
    PROVE  /\ {n \in session!NamesOf(k, a) : n < m} \in SUBSET session!NamesOf(k, a)
           /\ session!Rank(m, k, a) = Cardinality({n \in session!NamesOf(k, a) : n < m}) + 1
           /\ session!Rank(m, k, a) \in Nat
<1>1. session!Rank(m, k, a) = Cardinality({n \in session!NamesOf(k, a) : n < m}) + 1
    BY PsCardinality DEF session!Rank
<1>2. {n \in session!NamesOf(k, a) : n < m} \in SUBSET session!NamesOf(k, a)
    OBVIOUS
<1>3. Cardinality({n \in session!NamesOf(k, a) : n < m}) \in Nat
    BY <1>2, PsNamesFinite
<1>. QED
    BY <1>1, <1>2, <1>3

\* The names that are written are the first, when those to do come after them.
LEMMA PsRanks ==
    ASSUME PsSound, NEW k \in DOMAIN psSession.vals, NEW a,
           NEW M \in SUBSET DOMAIN psSession.vals[k],
           \A n \in DOMAIN psSession.vals[k] \ M, m \in M : n < m
    PROVE  LET N == session!NamesOf(k, a) \ M IN
           /\ Cardinality(N) \in Nat /\ Cardinality(N) <= Cardinality(session!NamesOf(k, a))
           /\ \A n \in N : session!Rank(n, k, a) <= Cardinality(N)
           /\ \A m \in session!NamesOf(k, a) \cap M : session!Rank(m, k, a) > Cardinality(N)
<1>. DEFINE A == session!NamesOf(k, a)
            N == A \ M
            L(m) == {n \in A : n < m}
<1>1. A \subseteq DOMAIN psSession.vals[k] /\ A \subseteq Nat
    BY PsNamesFinite DEF session!NamesOf
<1>2. /\ \A S \in SUBSET A : IsFiniteSet(S) /\ Cardinality(S) \in Nat
                             /\ Cardinality(S) <= Cardinality(A)
      /\ \A m : L(m) \in SUBSET A /\ session!Rank(m, k, a) = Cardinality(L(m)) + 1
    BY PsNamesFinite, PsLess
<1>. HIDE DEF A
<1>3. N \in SUBSET A
    OBVIOUS
<1>4. ASSUME NEW n \in N PROVE session!Rank(n, k, a) <= Cardinality(N)
    <2>1. L(n) \cup {n} \in SUBSET N /\ n \notin L(n)
        <3>1. ASSUME NEW m \in L(n) PROVE m \notin M /\ m # n
            <4>1. m \in A /\ m < n /\ n \in A /\ n \notin M
                OBVIOUS
            <4>2. m \in Nat /\ n \in Nat /\ n \in DOMAIN psSession.vals[k] \ M
                BY <1>1, <4>1
            <4>3. m \in M => n < m
                BY <4>2
            <4>. QED
                BY <4>1, <4>2, <4>3
        <3>. QED
            BY <3>1
    <2>2. Cardinality(L(n) \cup {n}) = Cardinality(L(n)) + 1
        BY <1>2, <2>1, FS_AddElement
    <2>3. Cardinality(L(n) \cup {n}) <= Cardinality(N)
        BY <1>2, <1>3, <2>1, FS_Subset
    <2>. QED
        BY <1>2, <2>2, <2>3
<1>5. ASSUME NEW m \in A \cap M PROVE session!Rank(m, k, a) > Cardinality(N)
    <2>1. N \in SUBSET L(m)
        BY <1>1
    <2>2. Cardinality(N) <= Cardinality(L(m))
        BY <1>2, <2>1, FS_Subset
    <2>. HIDE DEF N, L
    <2>3. Cardinality(N) \in Nat /\ Cardinality(L(m)) \in Nat
        BY <1>2, <1>3
    <2>4. \A i, j \in Nat : i <= j => j + 1 > i
        OBVIOUS
    <2>. QED
        BY <1>2, <2>2, <2>3, <2>4
<1>. QED
    BY <1>2, <1>3, <1>4, <1>5 DEF A

\* An entry with the first names, and one with all of them.
LEMMA PsBegins ==
    ASSUME PsSound, NEW k \in DOMAIN psSession.vals, NEW a,
           NEW M \in SUBSET DOMAIN psSession.vals[k],
           \A n \in DOMAIN psSession.vals[k] \ M, m \in M : n < m,
           NEW x \in PsEntry, x.name = Path[k[1]].entry, x.attrs = session!RAs(k[1]),
           Len(x.body) = Cardinality(session!NamesOf(k, a) \ M),
           \A n \in session!NamesOf(k, a) \ M : x.body[session!Rank(n, k, a)] = psSession.vals[k][n]
    PROVE  /\ session!Begins(x, <<"vals", k>>, a)
           /\ M = {} /\ x.done => session!IsWhole(x, <<"vals", k>>, a)
<1>. DEFINE A == session!NamesOf(k, a)
            N == A \ M
<1>1. /\ Cardinality(N) \in Nat /\ Cardinality(N) <= Cardinality(A)
      /\ \A m \in A \cap M : session!Rank(m, k, a) > Cardinality(N)
    BY PsRanks
<1>2. \A n \in A : session!Rank(n, k, a) \in Nat
    BY PsLess
<1>3. \A n \in A : session!Rank(n, k, a) <= Len(x.body) =>
                        x.body[session!Rank(n, k, a)] = psSession.vals[k][n]
    <2>. SUFFICES ASSUME NEW n \in A, session!Rank(n, k, a) <= Len(x.body)
                  PROVE  x.body[session!Rank(n, k, a)] = psSession.vals[k][n]
        OBVIOUS
    <2>1. n \in M => session!Rank(n, k, a) > Cardinality(N)
        BY <1>1
    <2>2. session!Rank(n, k, a) \in Nat /\ session!Rank(n, k, a) <= Cardinality(N)
        BY <1>2
    <2>. HIDE DEF N
    <2>3. n \notin M
        BY <1>1, <2>1, <2>2
    <2>. QED
        BY <2>3 DEF N
<1>. DEFINE e == <<"vals", k>>
<1>4. e[1] = "vals" /\ e[2] = k
    OBVIOUS
<1>. HIDE DEF e
<1>5. session!Begins(x, e, a)
    BY <1>1, <1>3, <1>4, PsCardinality DEF session!Begins
<1>6. ASSUME M = {}, x.done PROVE session!IsWhole(x, e, a)
    BY <1>4, <1>5, <1>6, PsCardinality DEF session!IsWhole
<1>. QED
    BY <1>5, <1>6 DEF e

\* What is begun begins as it has to.
LEMMA PsBegunBegins ==
    ASSUME PsInv, session!OfVals, NEW a \in session!Archives, PsBegun(a)
    PROVE  LET x == psArch[a][Len(psArch[a])] IN
           /\ x \in PsEntry /\ PsBeginning(x, a) /\ session!Begins(x, PsEntryAt, a)
           /\ psNames = {} /\ x.done => session!IsWhole(x, PsEntryAt, a)
           /\ Len(psArch[a]) = Cardinality(PsWritten(a)) + 1
<1>. DEFINE x == psArch[a][Len(psArch[a])]
<1>1. PsFilled(a) /\ psArch[a] \in Seq(PsEntry)
    BY PsVals DEF PsInv, PsProgress, PsTyped
<1>2. Len(psArch[a]) = Cardinality(PsWritten(a)) + 1 /\ PsBeginning(x, a)
    BY <1>1 DEF PsFilled
<1>3. x \in PsEntry
    BY <1>1, <1>2, PsVals
<1>4. /\ psNames \in SUBSET DOMAIN psSession.vals[psKey]
      /\ \A n \in DOMAIN psSession.vals[psKey] \ psNames, m \in psNames : n < m
    BY PsVals DEF PsInv, PsWriting
<1>. HIDE DEF x
<1>5. /\ x.name = Path[psKey[1]].entry /\ x.attrs = session!RAs(psKey[1])
      /\ Len(x.body) = Cardinality(session!NamesOf(psKey, a) \ psNames)
      /\ \A n \in session!NamesOf(psKey, a) \ psNames :
            x.body[session!Rank(n, psKey, a)] = psSession.vals[psKey][n]
    BY <1>2 DEF PsBeginning
<1>6. /\ session!Begins(x, PsEntryAt, a)
      /\ psNames = {} /\ x.done => session!IsWhole(x, PsEntryAt, a)
    BY <1>3, <1>4, <1>5, PsVals, PsBegins
<1>. QED
    BY <1>2, <1>3, <1>6 DEF x

\* The other archives stay as they are.
LEMMA PsOther ==
    ASSUME PsInv, session!OfVals, psSession' = psSession, psKey' = psKey,
           NEW a \in session!Archives, PsWritten(a)' = PsWritten(a), PsBegun(a)' = PsBegun(a),
           psArch'[a] = psArch[a],
           PsBegun(a) => /\ session!NamesOf(psKey, a) \ psNames' = session!NamesOf(psKey, a) \ psNames
                         /\ a[2] < psFooters' => a[2] < psFooters
    PROVE  PsFilled(a)'
<1>1. PsFilled(a)
    BY PsVals DEF PsInv, PsProgress
<1>2. PsBegun(a) => PsBeginning(psArch[a][Len(psArch[a])], a)'
    <2>. SUFFICES ASSUME PsBegun(a) PROVE PsBeginning(psArch[a][Len(psArch[a])], a)'
        OBVIOUS
    <2>1. PICK k : k = psKey
        OBVIOUS
    <2>2. PICK x : x = psArch[a][Len(psArch[a])] /\ x = psArch'[a][Len(psArch'[a])]
        OBVIOUS
    <2>3. PsBeginning(x, a)
        BY <1>1, <2>2 DEF PsFilled
    <2>4. /\ x.name = Path[k[1]].entry /\ x.attrs = session!RAs(k[1])
          /\ Len(x.body) = Cardinality(session!NamesOf(k, a) \ psNames)
          /\ \A n \in session!NamesOf(k, a) \ psNames :
                /\ session!Rank(n, k, a) <= Len(x.body)
                /\ x.body[session!Rank(n, k, a)] = psSession.vals[k][n]
          /\ a[2] < psFooters => x.done
        BY <2>1, <2>3 DEF PsBeginning
    <2>5. /\ session!NamesOf(k, a) \ psNames' = session!NamesOf(k, a) \ psNames
          /\ a[2] < psFooters' => a[2] < psFooters
        BY <2>1
    <2>6. /\ session!NamesOf(k, a)' = session!NamesOf(k, a) /\ session!RAs(k[1])' = session!RAs(k[1])
          /\ \A n : session!Rank(n, k, a)' = session!Rank(n, k, a)
        BY PsSame
    <2>7. PsBeginning(x, a)'
        BY <2>1, <2>4, <2>5, <2>6 DEF PsBeginning
    <2>. QED
        BY <2>2, <2>7
<1>. QED
    BY <1>1, <1>2, PsSame DEF PsFilled

LEMMA PsWholeNext ==
    ASSUME psSession' = psSession, NEW a, PsWritten(a)' = PsWritten(a), PsWhole(psArch'[a], a)
    PROVE  \A e \in PsWritten(a)' :
              /\ session!Place(e, a)' <= Cardinality(PsWritten(a)')
              /\ session!IsWhole(psArch[a][session!Place(e, a)], e, a)'
<1>. SUFFICES ASSUME NEW e \in PsWritten(a)
              PROVE  /\ session!Place(e, a)' <= Cardinality(PsWritten(a)')
                     /\ session!IsWhole(psArch[a][session!Place(e, a)], e, a)'
    OBVIOUS
<1>1. PICK y, p : p = session!Place(e, a) /\ y = psArch'[a][p]
    OBVIOUS
<1>2. session!Place(e, a)' = p
    BY <1>1, PsSame
<1>3. p <= Cardinality(PsWritten(a)) /\ session!IsWhole(y, e, a)
    BY <1>1 DEF PsWhole
<1>4. session!IsWhole(y, e, a)'
    BY <1>3, PsSame
<1>. QED
    BY <1>1, <1>2, <1>3, <1>4

\* The entry that is made first.
LEMMA PsValsEntry ==
    ASSUME PsInv, session!OfVals, Len(psWs) < session!Writers
    PROVE  LET b == <<psKey[2], Len(psWs)>> IN
           /\ b \in session!Archives /\ PsEntryAt \in session!Entries(b) /\ ~PsBegun(b)
           /\ session!ValsEntry \in PsEntry /\ session!Begins(session!ValsEntry, PsEntryAt, b)
<1>. DEFINE b == <<psKey[2], Len(psWs)>>
            x == session!ValsEntry
<1>1. Len(psWs) \in Nat
    BY PsVals DEF PsInv, PsWriting
<1>2. b \in session!Archives
    BY <1>1, PsVals, PsArchives
<1>3. PsEntryAt \in session!Entries(b) /\ ~PsBegun(b)
    BY <1>1, PsVals DEF PsBegun
<1>4. x = [name |-> Path[psKey[1]].entry, attrs |-> session!RAs(psKey[1]), body |-> << >>,
           done |-> FALSE]
    BY DEF session!ValsEntry
<1>5. /\ Path[psKey[1]].entry \in STRING /\ session!RAs(psKey[1]) \in Seq(STRING)
      /\ << >> \in Seq(Nat) /\ Len(<< >>) = 0
    <2>1. << >> \in Seq(STRING) /\ << >> \in Seq(Nat) /\ Len(<< >>) = 0
        OBVIOUS
    <2>2. Path[psKey[1]].entry \in STRING
        BY PsVals DEF PsSound
    <2>3. ASSUME psKey[1] \in DOMAIN psSession.ras PROVE psSession.ras[psKey[1]] \in Seq(STRING)
        BY <2>3, PsVals DEF PsSound
    <2>. QED
        BY <2>1, <2>2, <2>3 DEF session!RAs
<1>6. x \in PsEntry
    BY <1>4, <1>5 DEF PsEntry
<1>7. session!Begins(x, PsEntryAt, b)
    <2>1. Cardinality(session!NamesOf(psKey, b)) \in Nat
        BY PsVals, PsNamesFinite
    <2>2. ASSUME NEW n PROVE ~(session!Rank(n, psKey, b) <= 0)
        <3>. DEFINE L == {m \in session!NamesOf(psKey, b) : m < n}
        <3>1. session!Rank(n, psKey, b) = Cardinality(L) + 1 /\ L \in SUBSET session!NamesOf(psKey, b)
            BY PsVals, PsLess
        <3>2. Cardinality(L) \in Nat
            BY <3>1, PsVals, PsNamesFinite
        <3>. QED
            BY <3>1, <3>2
    <2>3. PsEntryAt[1] = "vals" /\ PsEntryAt[2] = psKey
        BY PsVals
    <2>. HIDE DEF x, b
    <2>4. x.name = Path[psKey[1]].entry /\ x.attrs = session!RAs(psKey[1]) /\ Len(x.body) = 0
        BY <1>4, <1>5
    <2>. QED
        BY <2>1, <2>2, <2>3, <2>4, PsCardinality DEF session!Begins
<1>. QED
    BY <1>2, <1>3, <1>6, <1>7

LEMMA PsCreateEntry ==
    ASSUME PsInv, session!CreateEntry
    PROVE  PsInv'
<1>. PICK b, x, n, k : /\ b = <<psKey[2], Len(psWs)>> /\ x = session!ValsEntry
                       /\ n = Len(psWs) /\ k = psKey
    OBVIOUS
<1>1. /\ session!OfVals /\ n < session!Writers
      /\ psArch' = [psArch EXCEPT ![b] = Append(@, x)]
      /\ psWs' = Append(psWs, <<b, Len(psArch[b]) + 1>>)
      /\ psSession' = psSession /\ psPhase' = psPhase /\ psTodo' = psTodo /\ psKey' = psKey
      /\ psNames' = psNames /\ psFooters' = psFooters /\ psClosed' = psClosed
    BY DEF session!CreateEntry
<1>2. /\ b \in session!Archives /\ PsEntryAt \in session!Entries(b) /\ ~PsBegun(b)
      /\ x \in PsEntry /\ session!Begins(x, PsEntryAt, b)
    BY <1>1, PsValsEntry
<1>3. x.name = Path[k[1]].entry /\ x.attrs = session!RAs(k[1]) /\ Len(x.body) = 0
    BY DEF session!ValsEntry
<1>4. /\ psWs \in Seq(session!Archives \X Nat) /\ n \in Nat
      /\ \A i \in 1..n : psWs[i] = <<<<k[2], i - 1>>, Len(psArch[<<k[2], i - 1>>])>>
      /\ psNames = DOMAIN psSession.vals[k] /\ psFooters = 0
    <2>1. PsWriting /\ psPhase = "vals" /\ PsCur # {}
        BY <1>1, PsVals DEF PsInv
    <2>2. /\ psWs \in Seq(session!Archives \X Nat)
          /\ \A i \in 1..Len(psWs) :
                psWs[i] = <<<<psKey[2], i - 1>>, Len(psArch[<<psKey[2], i - 1>>])>>
          /\ Len(psWs) < session!Writers => psNames = DOMAIN psSession.vals[psKey]
          /\ psFooters \in Nat
          /\ psFooters > 0 => Len(psWs) = session!Writers
        BY <2>1 DEF PsWriting
    <2>3. n \in Nat /\ session!Writers \in Nat
        BY <1>1, <2>2, PsVals
    <2>4. psFooters = 0
        BY <1>1, <2>2, <2>3
    <2>. QED
        BY <1>1, <2>2, <2>3, <2>4
<1>5. b[1] = k[2] /\ b[2] = n /\ b = <<k[2], n>>
    OBVIOUS
<1>6. /\ psArch' \in [session!Archives -> Seq(PsEntry)]
      /\ Len(psArch'[b]) = Cardinality(PsWritten(b)) + 1
      /\ psArch'[b][Cardinality(PsWritten(b)) + 1] = x
      /\ PsWhole(psArch'[b], b)
      /\ \A a \in session!Archives : a # b => psArch'[a] = psArch[a]
      /\ session!InOrder'
    BY <1>1, <1>2, PsVals, PsAppended
<1>7. PsSorted' /\ PsCur' = {k} /\ \A a : PsWritten(a)' = PsWritten(a)
    BY <1>1, PsVals, PsStay DEF PsInv
<1>8. Len(psArch[b]) = Cardinality(PsWritten(b)) /\ Cardinality(PsWritten(b)) \in Nat
    BY <1>1, <1>2, PsVals DEF PsInv, PsProgress, PsFilled
<1>9. /\ psWs' \in Seq(session!Archives \X Nat) /\ Len(psWs') = n + 1
      /\ psWs'[n + 1] = <<b, Len(psArch[b]) + 1>> /\ \A i \in 1..n : psWs'[i] = psWs[i]
    <2>1. <<b, Len(psArch[b]) + 1>> \in session!Archives \X Nat
        BY <1>2, <1>8
    <2>. QED
        BY <1>1, <1>4, <2>1, AppendProperties
<1>10. PsWriting'
    <2>1. session!Writers' = session!Writers /\ session!Archives' = session!Archives
        BY <1>1, PsSame DEF session!Writers, session!typedOutput
    <2>2. \A i \in 1..(n + 1) : psWs'[i] = <<<<k[2], i - 1>>, Len(psArch'[<<k[2], i - 1>>])>>
        <3>1. ASSUME NEW i \in 1..n
              PROVE  psWs'[i] = <<<<k[2], i - 1>>, Len(psArch'[<<k[2], i - 1>>])>>
            <4>1. PICK c : c = <<k[2], i - 1>>
                OBVIOUS
            <4>2. c[1] = k[2] /\ c[2] = i - 1 /\ i - 1 \in Nat /\ i - 1 < n
                BY <1>4, <4>1
            <4>3. c \in session!Archives
                <5>1. k[2] \in DOMAIN psSession.typedOutput /\ session!Writers = psSession.typedOutput[k[2]]
                      /\ session!Writers \in Nat /\ PsSound
                    BY <1>1, PsVals
                <5>2. i - 1 < psSession.typedOutput[k[2]]
                    BY <1>1, <1>4, <4>2, <5>1
                <5>. QED
                    BY <4>1, <4>2, <5>1, <5>2, PsArchives
            <4>4. c # b
                BY <1>4, <1>5, <4>2
            <4>5. psArch'[c] = psArch[c]
                BY <1>6, <4>3, <4>4
            <4>. QED
                BY <1>4, <1>9, <4>1, <4>5
        <3>2. psWs'[n + 1] = <<<<k[2], n>>, Len(psArch'[<<k[2], n>>])>>
            BY <1>5, <1>6, <1>8, <1>9
        <3>3. \A i \in 1..(n + 1) : i \in 1..n \/ i = n + 1
            BY <1>4
        <3>4. (n + 1) - 1 = n
            BY <1>4
        <3>. QED
            BY <3>1, <3>2, <3>3, <3>4
    <2>3. n + 1 <= session!Writers
        BY <1>1, <1>4, PsVals
    <2>4. /\ psNames' = DOMAIN psSession'.vals[psKey'] /\ psFooters' = 0 /\ psKey' = k
          /\ session!Writers' = session!Writers
        BY <1>1, <1>4, <2>1
    <2>5. 0 \in Nat /\ 0 <= n + 1 /\ ~(0 > 0)
        BY <1>4
    <2>. QED
        BY <1>9, <2>1, <2>2, <2>3, <2>4, <2>5 DEF PsWriting
<1>11. ASSUME NEW a \in session!Archives PROVE PsFilled(a)'
    <2>1. PsWritten(a)' = PsWritten(a) /\ a = <<a[1], a[2]>> /\ a[2] \in Nat
        BY <1>1, <1>7, PsVals, PsArchives
    <2>2. /\ PsBegun(a)' <=> a[1] = k[2] /\ a[2] < n + 1
          /\ PsBegun(a) <=> a[1] = k[2] /\ a[2] < n
        <3>1. psPhase = "vals" /\ psPhase' = "vals" /\ PsCur # {} /\ PsCur' # {} /\ psKey' = k
            BY <1>1, <1>7, PsVals
        <3>. QED
            BY <1>9, <3>1 DEF PsBegun
    <2>3. CASE a = b
        <3>1. PsBegun(a)' = TRUE
            BY <1>4, <1>5, <2>2, <2>3
        <3>2. PsBeginning(x, a)'
            <4>1. session!NamesOf(k, a) \subseteq psNames
                BY <1>4 DEF session!NamesOf
            <4>2. session!NamesOf(k, a)' = session!NamesOf(k, a) /\ session!RAs(k[1])' = session!RAs(k[1])
                BY <1>1, PsSame
            <4>3. session!NamesOf(k, a)' \ psNames' = {}
                BY <1>1, <4>1, <4>2
            <4>4. Cardinality({}) = 0 /\ ~(a[2] < 0)
                BY <2>1, FS_EmptySet
            <4>5. psKey' = k /\ psFooters' = 0
                BY <1>1, <1>4
            <4>. QED
                BY <1>3, <4>2, <4>3, <4>4, <4>5 DEF PsBeginning
        <3>3. psArch'[a][Len(psArch'[a])] = x
            BY <1>6, <2>3
        <3>4. \A e \in PsWritten(a)' :
                 /\ session!Place(e, a)' <= Cardinality(PsWritten(a)')
                 /\ session!IsWhole(psArch[a][session!Place(e, a)], e, a)'
            BY <1>1, <1>6, <2>1, <2>3, PsWholeNext
        <3>. QED
            BY <1>6, <2>1, <2>3, <3>1, <3>2, <3>3, <3>4 DEF PsFilled
    <2>4. CASE a # b
        <3>1. ~(a[1] = k[2] /\ a[2] = n)
            BY <1>5, <2>1, <2>4
        <3>2. PsBegun(a)' = PsBegun(a)
            BY <1>4, <2>1, <2>2, <3>1 DEF PsBegun
        <3>. QED
            BY <1>1, <1>6, <2>1, <2>4, <3>2, PsOther
    <2>. QED
        BY <2>3, <2>4
<1>12. PsTyped' /\ PsClosed' /\ PsProgress' /\ session!ClosedComplete'
    BY <1>1, <1>6, <1>11, PsVals, PsSame DEF PsInv, PsTyped, PsClosed, PsProgress, session!ClosedComplete
<1>. QED
    BY <1>6, <1>7, <1>10, <1>12 DEF PsInv

LEMMA PsCreateEntryFails ==
    ASSUME PsInv, session!CreateEntryFails
    PROVE  PsInv'
<1>. DEFINE b == <<psKey[2], Len(psWs)>>
            x == session!ValsEntry
<1>1. /\ session!OfVals /\ Len(psWs) < session!Writers /\ psPhase' = "error"
      /\ psSession' = psSession /\ psClosed' = psClosed
      /\ psArch' = psArch \/ psArch' = [psArch EXCEPT ![b] = Append(@, x)]
    BY DEF session!CreateEntryFails
<1>2. CASE psArch' = psArch
    BY <1>1, <1>2, PsFails
<1>3. CASE psArch' = [psArch EXCEPT ![b] = Append(@, x)]
    <2>1. /\ b \in session!Archives /\ PsEntryAt \in session!Entries(b) /\ ~PsBegun(b)
          /\ x \in PsEntry /\ session!Begins(x, PsEntryAt, b)
        BY <1>1, PsValsEntry
    <2>. HIDE DEF b, x
    <2>2. psArch' \in [session!Archives -> Seq(PsEntry)] /\ session!InOrder'
        BY <1>1, <1>3, <2>1, PsVals, PsAppended
    <2>3. session!ClosedComplete' /\ PsTyped' /\ PsClosed'
        BY <1>1, <2>2, PsVals, PsSame DEF PsInv, PsTyped, PsClosed, session!ClosedComplete
    <2>. QED
        BY <1>1, <2>2, <2>3 DEF PsInv, PsSorted, PsWriting, PsProgress
<1>. QED
    BY <1>1, <1>2, <1>3

\* The writer of a shard is at the entry that was made last in its archive.
LEMMA PsWriter ==
    ASSUME PsInv, session!OfVals, Len(psWs) >= session!Writers, NEW s \in Nat, s < Len(psWs)
    PROVE  LET b == <<psKey[2], s>> IN
           /\ Len(psWs) = session!Writers
           /\ b \in session!Archives /\ PsBegun(b) /\ PsEntryAt \in session!Entries(b)
           /\ psWs[s + 1] = <<b, Len(psArch[b])>>
<1>1. PsWriting /\ psPhase = "vals" /\ PsCur # {} /\ session!Writers \in Nat
    BY PsVals DEF PsInv
<1>2. /\ psWs \in Seq(session!Archives \X Nat) /\ Len(psWs) <= session!Writers
      /\ \A i \in 1..Len(psWs) :
            psWs[i] = <<<<psKey[2], i - 1>>, Len(psArch[<<psKey[2], i - 1>>])>>
    BY <1>1 DEF PsWriting
<1>3. Len(psWs) \in Nat /\ Len(psWs) = session!Writers /\ s + 1 \in 1..Len(psWs) /\ (s + 1) - 1 = s
    BY <1>1, <1>2
<1>4. psWs[s + 1] = <<<<psKey[2], s>>, Len(psArch[<<psKey[2], s>>])>>
    BY <1>2, <1>3
<1>5. <<psKey[2], s>> \in session!Archives
    <2>1. /\ PsSound /\ psKey[2] \in DOMAIN psSession.typedOutput
          /\ session!Writers = psSession.typedOutput[psKey[2]]
        BY PsVals
    <2>2. s < psSession.typedOutput[psKey[2]]
        BY <1>3, <2>1
    <2>3. PICK b : b = <<psKey[2], s>>
        OBVIOUS
    <2>4. b = <<b[1], b[2]>> /\ b[1] = psKey[2] /\ b[2] = s
        BY <2>3
    <2>5. b \in session!Archives
        BY <2>1, <2>2, <2>4, PsArchives
    <2>. QED
        BY <2>3, <2>5
<1>6. PsBegun(<<psKey[2], s>>) /\ PsEntryAt \in session!Entries(<<psKey[2], s>>)
    BY <1>1, PsVals DEF PsBegun
<1>. QED
    BY <1>3, <1>4, <1>5, <1>6

\* The entry of one writer is written on.
LEMMA PsRewritten ==
    ASSUME PsInv, session!OfVals, Len(psWs) = session!Writers,
           NEW b \in session!Archives, PsBegun(b), PsEntryAt \in session!Entries(b),
           NEW x \in PsEntry, session!Begins(x, PsEntryAt, b), PsBeginning(x, b)',
           psSession' = psSession, psPhase' = psPhase, psTodo' = psTodo, psKey' = psKey,
           psWs' = psWs, psClosed' = psClosed,
           psArch' = [psArch EXCEPT ![b] = [@ EXCEPT ![Len(psArch[b])] = x]],
           \A a \in session!Archives : a # b /\ PsBegun(a) =>
              /\ session!NamesOf(psKey, a) \ psNames' = session!NamesOf(psKey, a) \ psNames
              /\ a[2] < psFooters' => a[2] < psFooters,
           psNames' \subseteq DOMAIN psSession.vals[psKey],
           \A n \in DOMAIN psSession.vals[psKey] \ psNames', m \in psNames' : n < m,
           psFooters' \in Nat, psFooters' <= Len(psWs), psFooters' > 0 => psNames' = {}
    PROVE  PsInv'
<1>. PICK k : k = psKey
    OBVIOUS
<1>1. /\ PsSound /\ psPhase = "vals" /\ PsCur = {k} /\ psClosed = {}
      /\ \A a \in session!Archives : PsWhole(psArch[a], a)
    BY PsVals
<1>2. PsWriting
    BY DEF PsInv
<1>3. Len(psArch[b]) = Cardinality(PsWritten(b)) + 1
    BY PsBegunBegins
<1>4. /\ psArch' \in [session!Archives -> Seq(PsEntry)]
      /\ Len(psArch'[b]) = Cardinality(PsWritten(b)) + 1
      /\ psArch'[b][Cardinality(PsWritten(b)) + 1] = x
      /\ PsWhole(psArch'[b], b)
      /\ \A a \in session!Archives : a # b => psArch'[a] = psArch[a]
      /\ session!InOrder'
    BY <1>1, PsChanged
<1>5. PsSorted' /\ PsCur' = {k} /\ \A a : PsWritten(a)' = PsWritten(a)
    BY <1>1, PsStay DEF PsInv
<1>6. \A a : PsBegun(a)' = PsBegun(a)
    <2>. SUFFICES ASSUME NEW a PROVE PsBegun(a)' = PsBegun(a)
        OBVIOUS
    <2>1. PsCur' # {} /\ PsCur # {}
        BY <1>1, <1>5
    <2>. QED
        BY <2>1 DEF PsBegun
<1>7. PsWriting'
    <2>1. session!Writers' = session!Writers /\ session!Archives' = session!Archives
        BY PsSame DEF session!Writers, session!typedOutput
    <2>2. /\ psWs \in Seq(session!Archives \X Nat) /\ Len(psWs) \in Nat
          /\ \A i \in 1..Len(psWs) :
                psWs[i] = <<<<k[2], i - 1>>, Len(psArch[<<k[2], i - 1>>])>>
        BY <1>1, <1>2 DEF PsWriting
    <2>3. ASSUME NEW i \in 1..Len(psWs)
          PROVE  psWs[i] = <<<<k[2], i - 1>>, Len(psArch'[<<k[2], i - 1>>])>>
        <3>1. PICK c : c = <<k[2], i - 1>>
            OBVIOUS
        <3>2. c \in session!Archives
            <4>1. psWs[i] \in session!Archives \X Nat
                BY <2>2
            <4>2. psWs[i] = <<c, Len(psArch[c])>>
                BY <2>2, <3>1
            <4>. QED
                BY <4>1, <4>2
        <3>3. Len(psArch'[c]) = Len(psArch[c])
            BY <1>3, <1>4, <3>2
        <3>. QED
            BY <2>2, <3>1, <3>3
    <2>4. session!Writers \in Nat /\ Len(psWs') <= session!Writers /\ ~(Len(psWs') < session!Writers)
        BY <2>2
    <2>5. PsCur' # {} => /\ psNames' \subseteq DOMAIN psSession'.vals[k]
                         /\ \A n \in DOMAIN psSession'.vals[k] \ psNames', m \in psNames' : n < m
        OBVIOUS
    <2>. QED
        BY <2>1, <2>2, <2>3, <2>4, <2>5 DEF PsWriting
<1>8. ASSUME NEW a \in session!Archives PROVE PsFilled(a)'
    <2>1. CASE a = b
        <3>1. psArch'[a][Len(psArch'[a])] = x
            BY <1>4, <2>1
        <3>2. PsBeginning(psArch[a][Len(psArch[a])], a)'
            BY <2>1, <3>1
        <3>3. \A e \in PsWritten(a)' :
                 /\ session!Place(e, a)' <= Cardinality(PsWritten(a)')
                 /\ session!IsWhole(psArch[a][session!Place(e, a)], e, a)'
            BY <1>4, <1>5, <2>1, PsWholeNext
        <3>4. PsBegun(a)' = TRUE
            BY <1>6, <2>1 DEF PsBegun
        <3>. QED
            BY <1>4, <1>5, <2>1, <3>2, <3>3, <3>4 DEF PsFilled
    <2>2. CASE a # b
        BY <1>4, <1>5, <1>6, <2>2, PsOther
    <2>. QED
        BY <2>1, <2>2
<1>9. PsTyped' /\ PsClosed' /\ PsProgress' /\ session!ClosedComplete'
    BY <1>1, <1>4, <1>8, PsSame DEF PsInv, PsTyped, PsClosed, PsProgress, session!ClosedComplete
<1>. QED
    BY <1>4, <1>5, <1>7, <1>9 DEF PsInv

LEMMA PsWriteFooter ==
    ASSUME PsInv, session!WriteFooter
    PROVE  PsInv'
<1>. PICK b, f, y, x : /\ f = psFooters /\ b = <<psKey[2], f>> /\ y = psArch[b][Len(psArch[b])]
                       /\ x = [y EXCEPT !.done = TRUE]
    OBVIOUS
<1>1. /\ session!OfVals /\ Len(psWs) >= session!Writers /\ psNames = {} /\ f < Len(psWs)
      /\ psArch' = [psArch EXCEPT ![psWs[f + 1][1]][psWs[f + 1][2]].done = TRUE]
      /\ psFooters' = f + 1 /\ psNames' = {}
      /\ psSession' = psSession /\ psPhase' = psPhase /\ psTodo' = psTodo /\ psKey' = psKey
      /\ psWs' = psWs /\ psClosed' = psClosed
    BY DEF session!WriteFooter, session!Ending
<1>2. f \in Nat
    BY <1>1, PsVals DEF PsInv, PsWriting
<1>3. /\ Len(psWs) = session!Writers
      /\ b \in session!Archives /\ PsBegun(b) /\ PsEntryAt \in session!Entries(b)
      /\ psWs[f + 1] = <<b, Len(psArch[b])>>
    BY <1>1, <1>2, PsWriter
<1>4. psArch' = [psArch EXCEPT ![b] = [@ EXCEPT ![Len(psArch[b])] = x]]
    BY <1>1, <1>3
<1>5. y \in PsEntry /\ PsBeginning(y, b) /\ session!Begins(y, PsEntryAt, b)
    BY <1>1, <1>3, PsBegunBegins
<1>6. /\ x \in PsEntry /\ x.name = y.name /\ x.attrs = y.attrs /\ x.body = y.body /\ x.done
    BY <1>5 DEF PsEntry
<1>7. session!Begins(x, PsEntryAt, b)
    BY <1>5, <1>6 DEF session!Begins
<1>8. PsBeginning(x, b)'
    <2>. PICK k, E : k = psKey /\ E = {}
        OBVIOUS
    <2>0. psNames = E /\ psNames' = E /\ psKey' = k /\ psSession' = psSession /\ psFooters' = f + 1
        BY <1>1
    <2>1. /\ session!NamesOf(k, b)' = session!NamesOf(k, b) /\ session!RAs(k[1])' = session!RAs(k[1])
          /\ \A n : session!Rank(n, k, b)' = session!Rank(n, k, b)
        BY <1>1, PsSame
    <2>2. /\ y.name = Path[k[1]].entry /\ y.attrs = session!RAs(k[1])
          /\ Len(y.body) = Cardinality(session!NamesOf(k, b) \ E)
          /\ \A n \in session!NamesOf(k, b) \ E :
                /\ session!Rank(n, k, b) <= Len(y.body)
                /\ y.body[session!Rank(n, k, b)] = psSession.vals[k][n]
        BY <1>5, <2>0 DEF PsBeginning
    <2>3. x.name = y.name /\ x.attrs = y.attrs /\ x.body = y.body /\ x.done = TRUE
        BY <1>6
    <2>4. /\ x.name = Path[k[1]].entry /\ x.attrs = session!RAs(k[1])'
          /\ Len(x.body) = Cardinality((session!NamesOf(k, b) \ psNames)')
          /\ \A n \in session!NamesOf(k, b)' \ psNames' :
                /\ session!Rank(n, k, b)' <= Len(x.body)
                /\ x.body[session!Rank(n, k, b)'] = psSession'.vals[k][n]
        BY <2>0, <2>1, <2>2, <2>3
    <2>. QED
        BY <2>0, <2>3, <2>4 DEF PsBeginning
<1>9. \A a \in session!Archives : a # b /\ PsBegun(a) =>
         /\ session!NamesOf(psKey, a) \ psNames' = session!NamesOf(psKey, a) \ psNames
         /\ a[2] < psFooters' => a[2] < psFooters
    <2>. SUFFICES ASSUME NEW a \in session!Archives, a # b, PsBegun(a)
                  PROVE  a[2] < f + 1 => a[2] < f
        BY <1>1
    <2>1. a = <<a[1], a[2]>> /\ a[2] \in Nat /\ a[1] = psKey[2]
        BY <1>1, PsVals, PsArchives DEF PsBegun
    <2>2. a[2] # f
        BY <2>1
    <2>. QED
        BY <1>2, <2>1, <2>2
<1>10. psFooters' \in Nat /\ psFooters' <= Len(psWs) /\ psNames' \subseteq DOMAIN psSession.vals[psKey]
    <2>1. Len(psWs) \in Nat
        BY <1>1, <1>3, PsVals
    <2>. QED
        BY <1>1, <1>2, <2>1
<1>. QED
    BY <1>1, <1>3, <1>4, <1>6, <1>7, <1>8, <1>9, <1>10, PsRewritten

LEMMA PsKeyDone ==
    ASSUME PsInv, session!KeyDone
    PROVE  PsInv'
<1>1. /\ session!OfVals /\ Len(psWs) >= session!Writers /\ psNames = {} /\ psFooters = Len(psWs)
      /\ psKey' = session!None /\ psSession' = psSession /\ psPhase' = psPhase /\ psTodo' = psTodo
      /\ psArch' = psArch /\ psClosed' = psClosed
    BY DEF session!KeyDone, session!Ending
<1>2. /\ PsSorted' /\ PsCur' = {}
      /\ \A a : PsWritten(a)' = PsWritten(a) \cup ({PsEntryAt} \cap session!Entries(a))
    BY <1>1, PsVals, PsFlush DEF PsInv
<1>3. Len(psWs) = session!Writers /\ Len(psWs) \in Nat
    BY <1>1, PsVals DEF PsInv, PsWriting
<1>4. ASSUME NEW a \in session!Archives PROVE PsFilled(a)'
    <2>1. ~PsBegun(a)' /\ PsFilled(a) /\ PsWhole(psArch[a], a)
          /\ Cardinality(PsWritten(a)) \in Nat
        BY <1>1, <1>2, PsVals DEF PsBegun, PsInv, PsProgress
    <2>2. /\ a[2] \in Nat /\ PsEntryAt \in session!Entries(a) <=> psKey[2] = a[1]
          /\ psKey[2] = a[1] => a[2] < Len(psWs)
        BY <1>1, <1>3, PsVals, PsArchives
    <2>3. CASE PsEntryAt \in session!Entries(a)
        <3>1. PsBegun(a) /\ a[2] < psFooters
            BY <1>1, <2>2, <2>3, PsVals DEF PsBegun
        <3>2. /\ PsBeginning(psArch[a][Len(psArch[a])], a)
              /\ psNames = {} /\ psArch[a][Len(psArch[a])].done
                   => session!IsWhole(psArch[a][Len(psArch[a])], PsEntryAt, a)
              /\ Len(psArch[a]) = Cardinality(PsWritten(a)) + 1
            BY <1>1, <3>1, PsBegunBegins
        <3>3. session!IsWhole(psArch[a][Cardinality(PsWritten(a)) + 1], PsEntryAt, a)
            BY <1>1, <3>1, <3>2 DEF PsBeginning
        <3>. QED
            BY <1>1, <1>2, <2>1, <2>3, <3>2, <3>3, PsVals, PsFlushed1 DEF PsInv
    <2>4. CASE PsEntryAt \notin session!Entries(a)
        <3>1. ~PsBegun(a)
            BY <2>2, <2>4 DEF PsBegun
        <3>2. Len(psArch[a]) = Cardinality(PsWritten(a))
            BY <2>1, <3>1 DEF PsFilled
        <3>. QED
            BY <1>1, <1>2, <2>1, <2>4, <3>2, PsVals, PsFlushed1 DEF PsInv
    <2>. QED
        BY <2>3, <2>4
<1>5. PsTyped' /\ PsClosed' /\ PsWriting' /\ PsProgress'
    BY <1>1, <1>2, <1>4, PsSame DEF PsInv, PsTyped, PsClosed, PsWriting, PsProgress
<1>. QED
    BY <1>1, <1>2, <1>5, PsQuiet DEF PsInv

LEMMA PsMin ==
    ASSUME NEW S \in SUBSET Nat, S # {}
    PROVE  session!Min(S) \in S /\ \A n \in S : session!Min(S) <= n
<1>1. PICK m \in S : \A n \in S : m <= n
    BY LeastOf
<1>. QED
    BY <1>1 DEF session!Min

\* The least of the names to do is written to its shard.
LEMMA PsWriteValue ==
    ASSUME PsInv, session!WriteValue
    PROVE  PsInv'
<1>k. PICK k, M, m : k = psKey /\ M = psNames /\ m = session!Min(psNames)
    OBVIOUS
<1>v. PICK v, s : v = psSession.vals[k][m] /\ s = Shard(m, Len(psWs))
    OBVIOUS
<1>b. PICK b : b = <<k[2], s>>
    OBVIOUS
<1>y. PICK y : y = psArch[b][Len(psArch[b])]
    OBVIOUS
<1>x. PICK x : x = [y EXCEPT !.body = Append(@, v)]
    OBVIOUS
<1>1. /\ session!OfVals /\ Len(psWs) >= session!Writers /\ psNames # {} /\ s < Len(psWs)
      /\ psArch' = [psArch EXCEPT ![psWs[s + 1][1]][psWs[s + 1][2]].body = Append(@, v)]
      /\ psNames' = M \ {m} /\ psFooters' = psFooters
      /\ psSession' = psSession /\ psPhase' = psPhase /\ psTodo' = psTodo /\ psKey' = psKey
      /\ psWs' = psWs /\ psClosed' = psClosed
    BY <1>k, <1>v DEF session!WriteValue, session!Writing, session!NextName, session!ShardOfName, session!Append1
<1>2. /\ PsSound /\ k \in DOMAIN psSession.vals /\ Len(psWs) = session!Writers
      /\ session!Writers = psSession.typedOutput[k[2]]
      /\ M \subseteq DOMAIN psSession.vals[k]
      /\ \A n \in DOMAIN psSession.vals[k] \ M, i \in M : n < i
      /\ psFooters = 0
    <2>1. PsWriting /\ psPhase = "vals" /\ PsCur # {} /\ session!Writers \in Nat
        BY <1>1, PsVals DEF PsInv
    <2>2. /\ psWs \in Seq(session!Archives \X Nat) /\ Len(psWs) <= session!Writers
          /\ M \subseteq DOMAIN psSession.vals[k]
          /\ \A n \in DOMAIN psSession.vals[k] \ M, i \in M : n < i
          /\ psFooters \in Nat /\ (psFooters > 0 => psNames = {})
        BY <1>k, <2>1 DEF PsWriting
    <2>3. Len(psWs) = session!Writers /\ psFooters = 0
        <3>1. PICK i, j, l : i = Len(psWs) /\ j = session!Writers /\ l = psFooters
            OBVIOUS
        <3>2. i \in Nat /\ j \in Nat /\ l \in Nat
            BY <2>1, <2>2, <3>1
        <3>3. i >= j /\ i <= j /\ ~(l > 0)
            BY <1>1, <2>2, <3>1
        <3>. QED
            BY <3>1, <3>2, <3>3
    <2>. QED
        BY <1>1, <1>k, <2>2, <2>3, PsVals
<1>3. /\ DOMAIN psSession.vals[k] \subseteq Nat
      /\ \A n \in DOMAIN psSession.vals[k] :
            psSession.vals[k][n] \in Nat /\ Shard(n, psSession.typedOutput[k[2]]) \in Nat
    BY <1>2 DEF PsSound
<1>4. m \in M /\ (\A n \in M : m <= n) /\ m \in Nat /\ v \in Nat /\ s \in Nat
    <2>1. m \in M /\ \A n \in M : m <= n
        BY <1>1, <1>2, <1>3, <1>k, PsMin
    <2>. QED
        BY <1>2, <1>3, <1>v, <2>1
<1>5. /\ b \in session!Archives /\ PsBegun(b) /\ PsEntryAt \in session!Entries(b)
      /\ psWs[s + 1] = <<b, Len(psArch[b])>>
    BY <1>1, <1>4, <1>b, <1>k, PsWriter
<1>6. psArch' = [psArch EXCEPT ![b] = [@ EXCEPT ![Len(psArch[b])] = x]]
    BY <1>1, <1>5, <1>x, <1>y
<1>7. y \in PsEntry /\ PsBeginning(y, b)
    BY <1>1, <1>5, <1>y, PsBegunBegins
<1>. DEFINE A == session!NamesOf(k, b)
            N == A \ M
<1>8. b[1] = k[2] /\ b[2] = s
    BY <1>b
<1>9. m \in A /\ A \ (M \ {m}) = N \cup {m} /\ m \notin N
    <2>1. m \in A
        BY <1>2, <1>4, <1>8, <1>v DEF session!NamesOf, session!typedOutput
    <2>. QED
        BY <1>4, <2>1
<1>10. \A n \in DOMAIN psSession.vals[k] \ (M \ {m}), i \in M \ {m} : n < i
    <2>. SUFFICES ASSUME NEW n \in DOMAIN psSession.vals[k] \ (M \ {m}), NEW i \in M \ {m}
                  PROVE  n < i
        OBVIOUS
    <2>1. m < i
        <3>1. m <= i /\ m # i /\ i \in Nat
            BY <1>2, <1>3, <1>4
        <3>. QED
            BY <1>4, <3>1
    <2>2. n = m \/ n \in DOMAIN psSession.vals[k] \ M
        OBVIOUS
    <2>. QED
        BY <1>2, <2>1, <2>2
<1>11. /\ Cardinality(N) \in Nat /\ \A n \in A : session!Rank(n, k, b) \in Nat
       /\ Cardinality(A \ (M \ {m})) = Cardinality(N) + 1
       /\ session!Rank(m, k, b) = Cardinality(N) + 1
    <2>1. /\ Cardinality(N) \in Nat /\ session!Rank(m, k, b) > Cardinality(N)
        BY <1>2, <1>4, <1>9, PsRanks
    <2>2. \A n \in A \ (M \ {m}) : session!Rank(n, k, b) <= Cardinality(A \ (M \ {m}))
        BY <1>2, <1>10, PsRanks
    <2>3. \A n \in A : session!Rank(n, k, b) \in Nat
        BY <1>2, PsLess
    <2>4. IsFiniteSet(N)
        BY <1>2, PsNamesFinite
    <2>5. Cardinality(A \ (M \ {m})) = Cardinality(N) + 1
        BY <1>9, <2>4, FS_AddElement
    <2>. HIDE DEF A, N
    <2>6. m \in A /\ m \in A \ (M \ {m})
        BY <1>9
    <2>7. session!Rank(m, k, b) = Cardinality(N) + 1
        BY <2>1, <2>2, <2>3, <2>5, <2>6
    <2>. QED
        BY <2>1, <2>3, <2>5, <2>7
<1>12. /\ y.name = Path[k[1]].entry /\ y.attrs = session!RAs(k[1]) /\ Len(y.body) = Cardinality(N)
       /\ \A n \in N : /\ session!Rank(n, k, b) <= Len(y.body)
                       /\ y.body[session!Rank(n, k, b)] = psSession.vals[k][n]
    BY <1>7, <1>k DEF PsBeginning
<1>13. /\ y.body \in Seq(Nat) /\ Append(y.body, v) \in Seq(Nat)
       /\ x \in PsEntry /\ x.name = y.name /\ x.attrs = y.attrs /\ x.body = Append(y.body, v)
    <2>1. y \in [name : STRING, attrs : Seq(STRING), body : Seq(Nat), done : BOOLEAN]
        BY <1>7 DEF PsEntry
    <2>2. PICK z : z = Append(y.body, v) /\ z \in Seq(Nat) /\ y.body \in Seq(Nat)
        <3>1. \A z \in Seq(Nat), i \in Nat : Append(z, i) \in Seq(Nat)
            OBVIOUS
        <3>. QED
            BY <1>4, <2>1, <3>1
    <2>3. x = [y EXCEPT !.body = z]
        BY <1>x, <2>2
    <2>4. /\ x \in [name : STRING, attrs : Seq(STRING), body : Seq(Nat), done : BOOLEAN]
          /\ x.name = y.name /\ x.attrs = y.attrs /\ x.body = z
        BY <2>1, <2>2, <2>3
    <2>. QED
        BY <2>2, <2>4 DEF PsEntry
<1>. HIDE DEF A, N
<1>15. /\ Len(x.body) = Cardinality(N) + 1 /\ x.body[Cardinality(N) + 1] = v
       /\ \A i \in 1..Cardinality(N) : x.body[i] = y.body[i]
    <2>1. PICK z, c, q : z = y.body /\ c = Cardinality(N) /\ q = x.body
        OBVIOUS
    <2>2. z \in Seq(Nat) /\ v \in Nat /\ Len(z) = c /\ q = Append(z, v)
        BY <1>4, <1>12, <1>13, <2>1
    <2>3. Len(q) = c + 1 /\ q[c + 1] = v /\ \A i \in 1..c : q[i] = z[i]
        BY <2>2, AppendProperties
    <2>. QED
        BY <2>1, <2>3
<1>16. \A n \in A \ (M \ {m}) : /\ session!Rank(n, k, b) <= Len(x.body)
                               /\ x.body[session!Rank(n, k, b)] = psSession.vals[k][n]
    <2>. SUFFICES ASSUME NEW n \in A \ (M \ {m})
                  PROVE  /\ session!Rank(n, k, b) <= Len(x.body)
                         /\ x.body[session!Rank(n, k, b)] = psSession.vals[k][n]
        OBVIOUS
    <2>1. CASE n = m
        BY <1>11, <1>15, <1>v, <2>1
    <2>2. CASE n \in N
        <3>1. session!Rank(n, k, b) \in Nat /\ session!Rank(n, k, b) <= Cardinality(N)
            BY <1>11, <1>12, <2>2 DEF N
        <3>2. session!Rank(n, k, b) >= 1
            <4>. DEFINE L == {i \in session!NamesOf(k, b) : i < n}
            <4>1. L \in SUBSET session!NamesOf(k, b) /\ session!Rank(n, k, b) = Cardinality(L) + 1
                BY <1>2, PsLess
            <4>2. Cardinality(L) \in Nat
                BY <1>2, <4>1, PsNamesFinite
            <4>. QED
                BY <4>1, <4>2
        <3>3. session!Rank(n, k, b) \in 1..Cardinality(N)
            BY <1>11, <3>1, <3>2
        <3>4. PICK r, c : r = session!Rank(n, k, b) /\ c = Cardinality(N)
            OBVIOUS
        <3>5. r \in 1..c /\ c \in Nat /\ Len(x.body) = c + 1 /\ x.body[r] = y.body[r]
            BY <1>11, <1>15, <3>3, <3>4
        <3>6. y.body[r] = psSession.vals[k][n]
            BY <1>12, <2>2, <3>4
        <3>7. r <= c + 1
            BY <3>5
        <3>. QED
            BY <3>4, <3>5, <3>6, <3>7
    <2>. QED
        BY <1>9, <2>1, <2>2
<1>17. session!Begins(x, PsEntryAt, b)
    <2>1. PICK D : D = M \ {m}
        OBVIOUS
    <2>2. /\ D \in SUBSET DOMAIN psSession.vals[k]
          /\ \A n \in DOMAIN psSession.vals[k] \ D, i \in D : n < i
        BY <1>2, <1>10, <2>1
    <2>3. /\ Len(x.body) = Cardinality(session!NamesOf(k, b) \ D)
          /\ \A n \in session!NamesOf(k, b) \ D : x.body[session!Rank(n, k, b)] = psSession.vals[k][n]
        BY <1>11, <1>15, <1>16, <2>1 DEF A
    <2>4. x \in PsEntry /\ x.name = Path[k[1]].entry /\ x.attrs = session!RAs(k[1])
        BY <1>12, <1>13
    <2>5. PsEntryAt = <<"vals", k>>
        BY <1>1, <1>k, PsVals
    <2>. QED
        BY <1>2, <2>2, <2>3, <2>4, <2>5, PsBegins
<1>18. PsBeginning(x, b)'
    <2>1. PICK D : D = M \ {m}
        OBVIOUS
    <2>2. psNames' = D /\ psKey' = k /\ psSession' = psSession /\ psFooters' = 0
        BY <1>1, <1>2, <1>k, <2>1
    <2>3. /\ session!NamesOf(k, b)' = A /\ session!RAs(k[1])' = session!RAs(k[1])
          /\ \A n : session!Rank(n, k, b)' = session!Rank(n, k, b)
        BY <1>1, PsSame DEF A
    <2>4. /\ x.name = Path[k[1]].entry /\ x.attrs = session!RAs(k[1])'
          /\ Len(x.body) = Cardinality(session!NamesOf(k, b)' \ D)
          /\ \A n \in session!NamesOf(k, b)' \ D :
                /\ session!Rank(n, k, b)' <= Len(x.body)
                /\ x.body[session!Rank(n, k, b)'] = psSession'.vals[k][n]
        <3>1. x.name = Path[k[1]].entry /\ x.attrs = session!RAs(k[1])
            BY <1>12, <1>13
        <3>2. Len(x.body) = Cardinality(A \ D)
            BY <1>11, <1>15, <2>1
        <3>3. \A n \in A \ D : /\ session!Rank(n, k, b) <= Len(x.body)
                               /\ x.body[session!Rank(n, k, b)] = psSession.vals[k][n]
            BY <1>16, <2>1
        <3>. QED
            BY <2>2, <2>3, <3>1, <3>2, <3>3
    <2>5. ~(b[2] < 0)
        BY <1>4, <1>8
    <2>. QED
        BY <2>2, <2>4, <2>5 DEF PsBeginning
<1>19. \A a \in session!Archives : a # b /\ PsBegun(a) =>
         /\ session!NamesOf(psKey, a) \ psNames' = session!NamesOf(psKey, a) \ psNames
         /\ a[2] < psFooters' => a[2] < psFooters
    <2>. SUFFICES ASSUME NEW a \in session!Archives, a # b, PsBegun(a)
                  PROVE  session!NamesOf(k, a) \ (M \ {m}) = session!NamesOf(k, a) \ M
        BY <1>1, <1>2, <1>k
    <2>1. a = <<a[1], a[2]>> /\ a[1] = k[2]
        BY <1>2, <1>k, PsArchives DEF PsBegun
    <2>2. a[2] # s
        BY <1>b, <2>1
    <2>3. m \notin session!NamesOf(k, a)
        BY <1>2, <1>v, <2>1, <2>2 DEF session!NamesOf, session!typedOutput
    <2>. QED
        BY <2>3
<1>20. /\ psNames' \subseteq DOMAIN psSession.vals[psKey]
       /\ \A n \in DOMAIN psSession.vals[psKey] \ psNames', i \in psNames' : n < i
       /\ psFooters' \in Nat /\ psFooters' <= Len(psWs) /\ ~(psFooters' > 0)
    <2>1. Len(psWs) \in Nat
        BY <1>1, <1>2, PsVals
    <2>2. psNames' = M \ {m} /\ psKey = k /\ psFooters' = 0
        BY <1>1, <1>2, <1>k
    <2>3. M \ {m} \subseteq DOMAIN psSession.vals[k]
        BY <1>2
    <2>4. 0 \in Nat /\ 0 <= Len(psWs) /\ ~(0 > 0)
        BY <2>1
    <2>. QED
        BY <1>10, <2>2, <2>3, <2>4
<1>. QED
    BY <1>1, <1>2, <1>5, <1>6, <1>13, <1>17, <1>18, <1>19, <1>20, PsRewritten

-----------------------------------------------------------------------------

LEMMA PsInitial == Init => PsInv
<1>. SUFFICES ASSUME Init PROVE PsInv
    OBVIOUS
<1>1. /\ psSession = session!NoSession /\ psPhase = "idle" /\ psKey = session!None
      /\ psArch = << >> /\ psClosed = {}
    BY DEF Init, session!Init
<1>2. session!Archives = {}
    BY <1>1 DEF session!Archives, session!typedOutput, session!NoSession
<1>3. \A S : << >> \in [{} -> S]
    OBVIOUS
<1>. QED
    BY <1>1, <1>2, <1>3 DEF PsInv, PsTyped, PsSorted, PsWriting, PsProgress, PsClosed,
                            session!InOrder, session!ClosedComplete

LEMMA PsInductive == PsInv /\ [Next]_vars => PsInv'
<1>. SUFFICES ASSUME PsInv, [session!Next]_psVars PROVE PsInv'
    BY PsSteps
<1>1. CASE session!flushCollectedPaths
    <2>1. \/ session!OpenPathFails \/ session!BadPathName \/ session!BadShard \/ session!Panic
          => PsInv'
        BY PsFails DEF session!OpenPathFails, session!BadPathName, session!BadShard, session!Panic,
                       session!Fail
    <2>. QED
        BY <1>1, <2>1, PsOpenPath, PsSkipDotFile, PsStorePath, PsStorePathFails, PsPathsDone
        DEF session!flushCollectedPaths
<1>2. CASE session!flushCollectedVals
    <2>1. session!BadShardOfValue \/ session!WriteValueFails \/ session!WriteFooterFails => PsInv'
        BY PsFails DEF session!BadShardOfValue, session!WriteValueFails, session!WriteFooterFails,
                       session!Fail
    <2>. QED
        BY <1>2, <2>1, PsTakeKey, PsCreateEntry, PsCreateEntryFails, PsWriteValue, PsWriteFooter,
           PsKeyDone, PsValsDone DEF session!flushCollectedVals
<1>3. CASE session!Close
    <2>1. session!CloseFails => PsInv'
        BY PsFails DEF session!CloseFails, session!Fail
    <2>. QED
        BY <1>3, <2>1, PsCloseArchive, PsCloseReturns DEF session!Close
<1>4. CASE UNCHANGED psVars
    <2>1. /\ psSession' = psSession /\ psPhase' = psPhase /\ psTodo' = psTodo /\ psKey' = psKey
          /\ psWs' = psWs /\ psNames' = psNames /\ psFooters' = psFooters
          /\ psArch' = psArch /\ psClosed' = psClosed
        BY <1>4 DEF psVars
    <2>2. PsSound
        BY PsSoundness DEF PsInv, PsTyped
    <2>3. PsSorted' /\ PsCur' = PsCur /\ \A a : PsWritten(a)' = PsWritten(a)
        BY <2>1, PsStay DEF PsInv
    <2>4. PsTyped' /\ PsClosed' /\ session!InOrder' /\ session!ClosedComplete'
        BY <2>1, PsQuiet, PsSame DEF PsInv, PsTyped, PsClosed
    <2>5. PsWriting' /\ PsProgress'
        <3>1. PsWriting /\ PsProgress
            BY DEF PsInv
        <3>2. PsWriting'
            BY <2>1, <2>3, <3>1, PsSame DEF PsWriting, session!Writers, session!typedOutput
        <3>3. ASSUME NEW a \in session!Archives, PsFilled(a) PROVE PsFilled(a)'
            <4>1. PsBegun(a)' = PsBegun(a) /\ PsWritten(a)' = PsWritten(a)
                BY <2>1, <2>3 DEF PsBegun
            <4>2. CASE ~PsBegun(a)
                BY <2>1, <3>3, <4>1, <4>2, PsSame DEF PsFilled
            <4>3. CASE PsBegun(a)
                <5>1. session!OfVals /\ PsInv
                    BY <4>3 DEF PsBegun, PsCur, session!OfVals
                <5>. QED
                    BY <2>1, <4>1, <5>1, PsOther
            <4>. QED
                BY <4>2, <4>3
        <3>4. PsProgress'
            BY <2>1, <3>1, <3>3, PsSame DEF PsProgress
        <3>. QED
            BY <3>2, <3>4
    <2>. QED
        BY <2>3, <2>4, <2>5 DEF PsInv
<1>. QED
    BY <1>1, <1>2, <1>3, <1>4, PsCallClose DEF session!Next

\* Of every session that PartitionSession.Close is called for: the archives are at every
\* moment the expected ones, cut off in the last entry.
THEOREM ArchivesInOrder == FairSpec => []InOrder
<1>1. PsInv => InOrder
    BY DEF PsInv, InOrder
<1>. QED
    BY <1>1, PsInitial, PsInductive, PTL DEF FairSpec

-----------------------------------------------------------------------------
(* bucketize.go and partitioner.go: every output that is given is closed *)

BkArchives == UNION {{t} \X (0..(bkPartitions[t] - 1)) : t \in DOMAIN bkPartitions}

BkTyped == /\ bkCall.typedOutputs \in Seq(STRING) /\ bkTodo \in Seq(STRING)
           /\ bkPartitions \in [DOMAIN bkPartitions -> Nat]
\* The outputs that are open, and those to be opened, are the outputs that are given.
BkCounted ==
    /\ IsFiniteSet(BkArchives)
    /\ Cardinality(BkArchives) + Len(bkTodo) = Len(bkCall.typedOutputs)
    /\ bkPhase = "idle" => bkPartitions = << >>
    /\ bkPhase \in {"paths", "archive", "ok"} => bkTodo = << >>
\* The session is that of these outputs, and bucketize returns what closed it.
BkLinked ==
    /\ psPhase # "idle" => psSession.typedOutput = bkPartitions
    /\ bkPhase = "ok" => psPhase = "ok"

BkInv == BkTyped /\ BkCounted /\ BkLinked

USE DEF bucketize!vars

LEMMA BkSteps ==
    [Next]_vars =>
        \/ bucketize!Next /\ psPhase = "idle" /\ UNCHANGED psVars
        \/ psSession'.typedOutput = bkPartitions /\ bkPhase = "archive" /\ UNCHANGED bkVars
        \/ bucketize!ArchiveReturns(psPhase) /\ UNCHANGED psVars
        \/ UNCHANGED bkVars /\ UNCHANGED psVars
BY DEF Next, vars, runCmd, RunFinalrjar, RunGeneratemanifest, RunDex, RunExtractaar,
       RunRepack, RunRjar, RunNativelib, RunShellapk, RunPatch, RunManifest, RunCompile,
       RunLink, RunFlagfile, RunBucketize, RunSession, ArchiveReturns

LEMMA BkNumbers ==
    BkTyped => \A t, i : <<t, i>> \in BkArchives <=>
                 t \in DOMAIN bkPartitions /\ i \in Nat /\ i < bkPartitions[t]
<1>. SUFFICES ASSUME BkTyped, NEW t, NEW i
              PROVE  <<t, i>> \in BkArchives <=>
                       t \in DOMAIN bkPartitions /\ i \in Nat /\ i < bkPartitions[t]
    OBVIOUS
<1>1. \A u \in DOMAIN bkPartitions : bkPartitions[u] \in Nat
    BY DEF BkTyped
<1>2. \A n \in Nat : \A j : j \in 0..(n - 1) <=> j \in Nat /\ j < n
    OBVIOUS
<1>. QED
    BY <1>1, <1>2 DEF BkArchives

LEMMA BkPairs == \A a \in BkArchives : a = <<a[1], a[2]>>
BY DEF BkArchives

\* One more output is open.
LEMMA BkCreate ==
    ASSUME BkInv, bucketize!createPartition
    PROVE  BkTyped' /\ BkCounted'
<1>. DEFINE n == IF bkTodo[1] \in DOMAIN bkPartitions THEN bkPartitions[bkTodo[1]] ELSE 0
<1>1. /\ bkPhase = "outputs" /\ bkTodo # << >> /\ bkPhase' = bkPhase /\ bkCall' = bkCall
      /\ bkTodo' = Tail(bkTodo)
      /\ bkPartitions' = [t \in DOMAIN bkPartitions \cup {bkTodo[1]} |->
                             IF t = bkTodo[1] THEN n + 1 ELSE bkPartitions[t]]
    BY DEF bucketize!createPartition, bucketize!Creating
<1>2. /\ bkTodo \in Seq(STRING) /\ Len(bkTodo) \in Nat /\ bkTodo' \in Seq(STRING)
      /\ Len(bkTodo') = Len(bkTodo) - 1
    BY <1>1 DEF BkInv, BkTyped
<1>3. n \in Nat /\ \A t \in DOMAIN bkPartitions : bkPartitions[t] \in Nat
    BY DEF BkInv, BkTyped
<1>4. PICK o, m : o = bkTodo[1] /\ m = n
    OBVIOUS
<1>. HIDE DEF n
<1>5. /\ DOMAIN bkPartitions' = DOMAIN bkPartitions \cup {o} /\ bkPartitions'[o] = m + 1
      /\ \A t \in DOMAIN bkPartitions : t # o => bkPartitions'[t] = bkPartitions[t]
    BY <1>1, <1>4
<1>6. bkPartitions' \in [DOMAIN bkPartitions' -> Nat]
    BY <1>1, <1>3
<1>7. BkTyped'
    BY <1>1, <1>2, <1>6 DEF BkInv, BkTyped
<1>8. (\A t, i : <<t, i>> \in BkArchives <=>
         t \in DOMAIN bkPartitions /\ i \in Nat /\ i < bkPartitions[t])'
    BY <1>7, BkNumbers, PTL
<1>9. \A t, i : <<t, i>> \in BkArchives <=>
        t \in DOMAIN bkPartitions /\ i \in Nat /\ i < bkPartitions[t]
    BY BkNumbers DEF BkInv
<1>10. <<o, m>> \notin BkArchives
    BY <1>3, <1>4, <1>9 DEF n
<1>11. \A t, i : <<t, i>> \in BkArchives' <=> <<t, i>> \in BkArchives \/ (t = o /\ i = m)
    <2>. SUFFICES ASSUME NEW t, NEW i
                  PROVE  <<t, i>> \in BkArchives' <=> <<t, i>> \in BkArchives \/ (t = o /\ i = m)
        OBVIOUS
    <2>1. <<t, i>> \in BkArchives' <=>
            t \in DOMAIN bkPartitions' /\ i \in Nat /\ i < bkPartitions'[t]
        BY <1>8
    <2>2. CASE t # o
        BY <1>5, <1>9, <2>1, <2>2
    <2>3. CASE t = o
        <3>1. <<t, i>> \in BkArchives' <=> i \in Nat /\ i < m + 1
            BY <1>5, <2>1, <2>3
        <3>2. <<t, i>> \in BkArchives <=> i \in Nat /\ i < m
            <4>1. CASE o \in DOMAIN bkPartitions
                BY <1>4, <1>9, <2>3, <4>1 DEF n
            <4>2. CASE o \notin DOMAIN bkPartitions
                BY <1>4, <1>9, <2>3, <4>2 DEF n
            <4>. QED
                BY <4>1, <4>2
        <3>3. \A j \in Nat : j < m + 1 <=> j < m \/ j = m
            BY <1>3, <1>4
        <3>. QED
            BY <1>3, <1>4, <2>3, <3>1, <3>2, <3>3
    <2>. QED
        BY <2>2, <2>3
<1>12. BkArchives' = BkArchives \cup {<<o, m>>}
    <2>1. \A a \in BkArchives' : a = <<a[1], a[2]>>
        BY DEF BkArchives
    <2>. QED
        BY <1>11, <2>1, BkPairs
<1>13. IsFiniteSet(BkArchives') /\ Cardinality(BkArchives') = Cardinality(BkArchives) + 1
    BY <1>10, <1>12, FS_AddElement DEF BkInv, BkCounted
<1>14. Cardinality(BkArchives) \in Nat
    BY FS_CardinalityType DEF BkInv, BkCounted
<1>15. Cardinality(BkArchives') + Len(bkTodo') = Len(bkCall.typedOutputs)
    BY <1>2, <1>13, <1>14 DEF BkInv, BkCounted
<1>. QED
    BY <1>1, <1>7, <1>13, <1>15 DEF BkCounted

LEMMA BkInitial == Init => BkInv
<1>. SUFFICES ASSUME Init PROVE BkInv
    OBVIOUS
<1>1. /\ bkCall.typedOutputs = << >> /\ bkPhase = "idle" /\ bkTodo = << >> /\ bkPartitions = << >>
      /\ psPhase = "idle"
    BY DEF Init, bucketize!Init, bucketize!NoCall, session!Init
<1>2. BkArchives = {}
    BY <1>1 DEF BkArchives
<1>3. << >> \in Seq(STRING) /\ Len(<< >>) = 0 /\ << >> \in [DOMAIN << >> -> Nat]
    OBVIOUS
<1>. QED
    BY <1>1, <1>2, <1>3, FS_EmptySet DEF BkInv, BkTyped, BkCounted, BkLinked

LEMMA BkInductive == BkInv /\ [Next]_vars => BkInv'
<1>. SUFFICES ASSUME BkInv, [Next]_vars PROVE BkInv'
    OBVIOUS
<1>1. ASSUME bucketize!Next, psPhase = "idle", UNCHANGED psVars PROVE BkInv'
    <2>1. psPhase' = "idle" /\ bkPhase # "ok"
        BY <1>1 DEF psVars, BkInv, BkLinked
    <2>2. ASSUME bucketize!Run PROVE BkInv'
        <3>1. /\ bkPhase = "idle" /\ bkCall' \in BucketizeCalls /\ bkTodo' = bkCall'.typedOutputs
              /\ bkPhase' \in {"outputs", "error"} /\ bkPartitions' = bkPartitions
            BY <2>2 DEF bucketize!Run
        <3>2. bkCall'.typedOutputs \in Seq(STRING)
            BY <3>1, BucketizeCallsAssumption
        <3>3. BkArchives' = {}
            BY <3>1 DEF BkInv, BkCounted, BkArchives
        <3>4. Cardinality({}) = 0 /\ IsFiniteSet({}) /\ Len(bkTodo') \in Nat
            BY <3>1, <3>2, FS_EmptySet
        <3>. QED
            BY <2>1, <3>1, <3>2, <3>3, <3>4 DEF BkInv, BkTyped, BkCounted, BkLinked
    <2>3. ASSUME bucketize!createPartition PROVE BkInv'
        <3>1. bkPhase' # "ok"
            BY <2>3 DEF bucketize!createPartition, bucketize!Creating
        <3>. QED
            BY <2>1, <2>3, <3>1, BkCreate DEF BkInv, BkLinked
    <2>4. ASSUME bucketize!makePartitionSession PROVE BkInv'
        BY <2>1, <2>4 DEF bucketize!makePartitionSession, BkInv, BkTyped, BkCounted, BkLinked, BkArchives
    <2>5. ASSUME bucketize!makeArchiver PROVE BkInv'
        BY <2>1, <2>5 DEF bucketize!makeArchiver, BkInv, BkTyped, BkCounted, BkLinked, BkArchives
    <2>6. ASSUME bucketize!createPartitionFails \/ bucketize!ArchiveFails PROVE BkInv'
        BY <2>1, <2>6 DEF bucketize!createPartitionFails, bucketize!ArchiveFails, BkInv, BkTyped,
                          BkCounted, BkLinked, BkArchives
    <2>. QED
        BY <1>1, <2>2, <2>3, <2>4, <2>5, <2>6 DEF bucketize!Next
<1>2. ASSUME psSession'.typedOutput = bkPartitions, bkPhase = "archive", UNCHANGED bkVars PROVE BkInv'
    BY <1>2 DEF bkVars, BkInv, BkTyped, BkCounted, BkLinked, BkArchives
<1>3. ASSUME bucketize!ArchiveReturns(psPhase), UNCHANGED psVars PROVE BkInv'
    BY <1>3 DEF psVars, bucketize!ArchiveReturns, BkInv, BkTyped, BkCounted, BkLinked, BkArchives
<1>4. ASSUME UNCHANGED bkVars, UNCHANGED psVars PROVE BkInv'
    BY <1>4 DEF bkVars, psVars, BkInv, BkTyped, BkCounted, BkLinked, BkArchives
<1>. QED
    BY <1>1, <1>2, <1>3, <1>4, BkSteps

\* An archive that has its directory holds everything that is for it, and the command
\* returns without an error only when each output it was given is one of these.
THEOREM ClosedAreComplete == FairSpec => []ClosedComplete
<1>1. PsInv /\ BkInv => ClosedComplete
    <2>. SUFFICES ASSUME PsInv, BkInv PROVE ClosedComplete
        OBVIOUS
    <2>1. session!ClosedComplete
        BY DEF PsInv
    <2>2. ASSUME bkPhase = "ok"
          PROVE  /\ psClosed = session!Archives
                 /\ Cardinality(psClosed) = Len(bkCall.typedOutputs)
        <3>1. psPhase = "ok" /\ psSession.typedOutput = bkPartitions /\ bkTodo = << >>
            BY <2>2 DEF BkInv, BkLinked, BkCounted
        <3>2. psClosed = session!Archives
            BY <3>1 DEF PsInv, PsClosed
        <3>3. session!Archives = BkArchives
            BY <3>1 DEF session!Archives, session!typedOutput, BkArchives
        <3>4. Cardinality(BkArchives) \in Nat /\ Len(<< >>) = 0
            BY FS_CardinalityType DEF BkInv, BkCounted
        <3>5. Cardinality(BkArchives) + Len(<< >>) = Len(bkCall.typedOutputs)
            BY <3>1 DEF BkInv, BkCounted
        <3>. QED
            BY <3>2, <3>3, <3>4, <3>5
    <2>. QED
        BY <2>1, <2>2 DEF ClosedComplete
<1>. QED
    BY <1>1, PsInitial, PsInductive, BkInitial, BkInductive, PTL DEF FairSpec

-----------------------------------------------------------------------------
(* The variables keep their types *)

\* A group that has an error is validated.
EaErrsDone == \A i \in DOMAIN eaErrs : eaErrs[i] \notin eaTodo

LEMMA EaTypes == FairSpec => []extractaar!TypeOK
<1>1. Init => EaErrsDone
    <2>1. Init => eaErrs = << >>
        BY DEF Init, extractaar!Init
    <2>2. eaErrs = << >> => DOMAIN eaErrs = {}
        OBVIOUS
    <2>. QED
        BY <2>1, <2>2 DEF EaErrsDone
<1>2. EaInv /\ EaErrsDone /\ [extractaar!Next]_eaVars => EaErrsDone'
    <2>. SUFFICES ASSUME EaInv, EaErrsDone, [extractaar!Next]_eaVars PROVE EaErrsDone'
        OBVIOUS
    <2>1. ASSUME NEW g \in extractaar!Groups, extractaar!Validate(g) PROVE EaErrsDone'
        <3>1. /\ g \in eaTodo /\ eaTodo' = eaTodo \ {g}
              /\ eaErrs' = eaErrs \/ eaErrs' = Append(eaErrs, g)
            BY <2>1 DEF extractaar!Validate
        <3>2. CASE eaErrs' = eaErrs
            BY <3>1, <3>2 DEF EaErrsDone
        <3>3. CASE eaErrs' = Append(eaErrs, g)
            <4>1. eaErrs \in Seq(extractaar!Groups)
                BY DEF EaInv, EaTyped
            <4>2. \A i \in DOMAIN eaErrs' : eaErrs'[i] = g \/ (i \in DOMAIN eaErrs /\ eaErrs'[i] = eaErrs[i])
                BY <2>1, <3>3, <4>1
            <4>. QED
                BY <3>1, <4>2 DEF EaErrsDone
        <3>. QED
            BY <3>1, <3>2, <3>3
    <2>2. ASSUME extractaar!extractAAR PROVE EaErrsDone'
        <3>1. eaErrs' = << >>
            BY <2>2 DEF extractaar!extractAAR, EaInv, EaFresh
        <3>. QED
            BY <3>1 DEF EaErrsDone
    <2>3. ASSUME eaErrs' = eaErrs, eaTodo' = eaTodo PROVE EaErrsDone'
        BY <2>3 DEF EaErrsDone
    <2>. QED
        BY <2>1, <2>2, <2>3 DEF extractaar!Next, extractaar!Run, extractaar!Fails,
           extractaar!copyFile, extractaar!Copied, extractaar!createIfEmpty, eaVars
<1>3. EaInv /\ EaErrsDone => extractaar!TypeOK
    <2>. SUFFICES ASSUME EaInv, EaErrsDone PROVE extractaar!TypeOK
        OBVIOUS
    <2>1. \A i \in DOMAIN eaErrs : eaErrs[i] \in extractaar!Groups \ eaTodo
        BY DEF EaInv, EaTyped, EaErrsDone
    <2>2. extractaar!Range(eaErrs) \subseteq extractaar!Groups \ eaTodo
        BY <2>1 DEF extractaar!Range
    <2>3. \A i \in DOMAIN eaCopy : eaCopy[i].group \in extractaar!Groups
        BY DEF EaInv, EaTyped
    <2>. QED
        BY <2>2, <2>3 DEF EaInv, EaTyped, extractaar!TypeOK
<1>. QED
    BY <1>1, <1>2, <1>3, EaInitial, EaSteps, EaInductive, PTL DEF FairSpec

\* What is written and what is to be written are no more than the packages.
RjBounded ==
    /\ rjTodo \in Seq(RjPkg) /\ Len(rjTodo) + Len(rjSrcs) <= Len(RjAll)
    /\ rjPhase \in {"idle", "start"} => rjTodo = << >> /\ rjTemplate = << >>
    /\ rjTemplate \in {<< >>, rjar!Scanned(rjCall.classes)}
    /\ \A i \in DOMAIN rjSrcs : rjSrcs[i].base = rjSrcs[1].pkg

\* A list of packages that has each once is no longer than theirs.
LEMMA RjListLength ==
    ASSUME RjTyped, RjListed(RjList, Len(RjAll))
    PROVE  RjList \in Seq(RjPkg) /\ Len(RjList) \in Nat /\ Len(RjList) <= Len(RjAll)
<1>1. /\ RjList \in Seq(RjPkg) /\ Len(RjList) \in Nat /\ DOMAIN RjList = 1..Len(RjList)
      /\ \A j, k \in DOMAIN RjList : RjList[j] = RjList[k] => j = k
      /\ \A j \in DOMAIN RjList : \E i \in 1..Len(RjAll) : RjAll[i] = RjList[j]
    BY DEF RjListed
<1>2. Len(RjAll) \in Nat
    BY RjCallFacts
<1>. DEFINE m == Len(RjList)
            n == Len(RjAll)
            f == [j \in 1..m |-> CHOOSE i \in 1..n : RjAll[i] = RjList[j]]
<1>3. \A j \in 1..m : f[j] \in 1..n /\ RjAll[f[j]] = RjList[j]
    BY <1>1
<1>. HIDE DEF f
<1>4. \A j, k \in 1..m : f[j] = f[k] => j = k
    BY <1>1, <1>3
<1>5. f \in [1..m -> 1..n]
    BY <1>3 DEF f
<1>6. f \in Injection(1..m, 1..n)
    BY <1>4, <1>5 DEF Injection, IsInjective
<1>7. IsFiniteSet(1..n) /\ Cardinality(1..n) = n /\ Cardinality(1..m) = m
    <2>1. 1 \in Int /\ m \in Int /\ n \in Int
        BY <1>1, <1>2
    <2>2. IsFiniteSet(1..n) /\ Cardinality(1..n) = (IF 1 > n THEN 0 ELSE n - 1 + 1)
        BY <2>1, FS_Interval
    <2>3. Cardinality(1..m) = (IF 1 > m THEN 0 ELSE m - 1 + 1)
        BY <2>1, FS_Interval
    <2>4. \A x \in Nat : (IF 1 > x THEN 0 ELSE x - 1 + 1) = x
        OBVIOUS
    <2>. QED
        BY <1>1, <1>2, <2>2, <2>3, <2>4
<1>8. Cardinality(1..m) <= Cardinality(1..n)
    BY <1>6, <1>7, FS_Injection
<1>. QED
    BY <1>1, <1>7, <1>8

LEMMA RjBoundsStart == Init => RjBounded
<1>. SUFFICES ASSUME Init PROVE RjBounded
    OBVIOUS
<1>1. rjTodo = << >> /\ rjSrcs = << >> /\ rjTemplate = << >> /\ RjAll = << >>
    BY DEF Init, rjar!Init, rjar!NoCall, RjAll
<1>2. << >> \in Seq(RjPkg) /\ Len(<< >>) = 0 /\ DOMAIN << >> = {} /\ 0 + 0 <= 0
    OBVIOUS
<1>. QED
    BY <1>1, <1>2 DEF RjBounded

LEMMA RjBounds == RjInv /\ RjBounded /\ [rjar!Next]_rjVars => RjBounded'
<1>. SUFFICES ASSUME RjInv, RjBounded, [rjar!Next]_rjVars PROVE RjBounded'
    OBVIOUS
<1>1. RjInv'
    BY RjInductive
<1>2. /\ rjTodo \in Seq(RjPkg) /\ Len(rjTodo) \in Nat /\ Len(rjSrcs) \in Nat /\ Len(RjAll) \in Nat
      /\ rjSrcs \in Seq(RjSource)
    BY RjCallFacts DEF RjBounded, RjInv, RjTyped
<1>3. ASSUME rjPhase' = "write"
      PROVE  \A i \in DOMAIN rjSrcs' : rjSrcs'[i].base = rjSrcs'[1].pkg
    <2>1. RjSources(RjWritten)'
        BY <1>1, <1>3 DEF RjInv, RjWriting
    <2>. QED
        BY <2>1 DEF RjSources
<1>4. ASSUME rjar!Run PROVE RjBounded'
    <2>1. /\ rjPhase = "idle" /\ rjTodo' = rjTodo /\ rjSrcs' = rjSrcs /\ rjTemplate' = rjTemplate
        BY <1>4 DEF rjar!Run
    <2>2. rjTodo = << >> /\ rjSrcs = << >> /\ rjTemplate = << >>
        BY <2>1 DEF RjInv, RjFresh, RjBounded
    <2>3. Len(RjAll') \in Nat
        <3>1. (RjTyped => Len(RjAll) \in Nat)'
            BY RjCallFacts, PTL
        <3>. QED
            BY <1>1, <3>1 DEF RjInv
    <2>4. Len(<< >>) = 0 /\ DOMAIN << >> = {} /\ \A k \in Nat : 0 + 0 <= k
        OBVIOUS
    <2>5. Len(rjTodo') + Len(rjSrcs') <= Len(RjAll')
        BY <2>1, <2>2, <2>3, <2>4
    <2>. QED
        BY <1>2, <2>1, <2>2, <2>4, <2>5 DEF RjBounded
<1>5. ASSUME rjar!getPkgs PROVE RjBounded'
    <2>1. /\ rjPhase = "start" /\ rjPhase' = "write" /\ rjTodo' = RjList
          /\ rjCall' = rjCall /\ rjSrcs' = rjSrcs /\ rjTemplate' = rjTemplate
        BY <1>5 DEF rjar!getPkgs, RjAll, RjList
    <2>2. rjSrcs = << >> /\ RjTyped
        BY <2>1 DEF RjInv, RjFresh
    <2>3. RjList \in Seq(RjPkg) /\ Len(RjList) \in Nat /\ Len(RjList) <= Len(RjAll)
        BY <2>2, RjLists, RjListLength
    <2>4. Len(rjSrcs) = 0
        BY <2>2
    <2>5. RjAll' = RjAll
        BY <2>1 DEF RjAll
    <2>6. Len(rjTodo') + Len(rjSrcs') <= Len(RjAll')
        BY <2>1, <2>3, <2>4, <2>5
    <2>. QED
        BY <1>3, <2>1, <2>3, <2>6 DEF RjBounded
<1>6. ASSUME rjar!Writing, rjTodo' = Tail(rjTodo), rjCall' = rjCall, rjPhase' = rjPhase,
             rjTemplate' \in {rjTemplate, rjar!Scanned(rjCall.classes)},
             Len(rjSrcs') = Len(rjSrcs) \/ Len(rjSrcs') = Len(rjSrcs) + 1
      PROVE  RjBounded'
    <2>1. rjPhase = "write" /\ rjTodo # << >>
        BY <1>6 DEF rjar!Writing
    <2>2. rjTodo' \in Seq(RjPkg) /\ Len(rjTodo') = Len(rjTodo) - 1
        BY <1>2, <1>6, <2>1
    <2>3. RjAll' = RjAll
        BY <1>6 DEF RjAll
    <2>4. Len(rjTodo) + Len(rjSrcs) <= Len(RjAll)
        BY DEF RjBounded
    <2>5. Len(rjTodo') + Len(rjSrcs') <= Len(RjAll')
        BY <1>2, <1>6, <2>2, <2>3, <2>4
    <2>. QED
        BY <1>3, <1>6, <2>1, <2>2, <2>5 DEF RjBounded
<1>7. ASSUME rjar!SkipReserved \/ rjar!WriteFirst \/ rjar!WriteSubclass PROVE RjBounded'
    <2>1. /\ rjar!Writing /\ rjTodo' = Tail(rjTodo) /\ rjCall' = rjCall /\ rjPhase' = rjPhase
          /\ rjTemplate' \in {rjTemplate, rjar!Scanned(rjCall.classes)}
        BY <1>7 DEF rjar!SkipReserved, rjar!WriteFirst, rjar!WriteSubclass
    <2>2. rjar!SkipReserved => Len(rjSrcs') = Len(rjSrcs)
        BY DEF rjar!SkipReserved
    <2>3. rjar!WriteFirst => Len(rjSrcs') = Len(rjSrcs) + 1
        <3>1. \A x : Len(<<x>>) = 0 + 1 /\ Len(<< >>) = 0
            OBVIOUS
        <3>. QED
            BY <3>1 DEF rjar!WriteFirst
    <2>4. rjar!WriteSubclass => Len(rjSrcs') = Len(rjSrcs) + 1
        <3>1. \A x : Len(Append(rjSrcs, x)) = Len(rjSrcs) + 1
            BY <1>2
        <3>. QED
            BY <3>1 DEF rjar!WriteSubclass
    <2>. QED
        BY <1>6, <1>7, <2>1, <2>2, <2>3, <2>4
<1>8. ASSUME rjTodo' = rjTodo, rjSrcs' = rjSrcs, rjCall' = rjCall, rjTemplate' = rjTemplate,
             rjPhase' = rjPhase \/ rjPhase' \notin {"idle", "start"}
      PROVE  RjBounded'
    <2>1. RjAll' = RjAll
        BY <1>8 DEF RjAll
    <2>. QED
        BY <1>8, <2>1 DEF RjBounded
<1>. QED
    BY <1>4, <1>5, <1>7, <1>8 DEF rjar!Next, rjar!EmptyZip, rjar!getPkgsFails, rjar!removeOld,
       rjar!compileRJar, rjar!Fails, rjVars

\* The scanner takes the classes or the first of them.
LEMMA RjScannedHas ==
    ASSUME NEW s \in Seq(STRING)
    PROVE  rjar!ToSet(rjar!Scanned(s)) \subseteq rjar!ToSet(s)
<1>. DEFINE I == {i \in 1..Len(s) : s[i] = "long"}
            k == IF I # {} THEN rjar!Min(I) ELSE 0
<1>1. rjar!Scanned(s) = IF k = 0 THEN s ELSE SubSeq(s, 1, k - 1)
    BY DEF rjar!Scanned, rjar!SelectInSeq
<1>2. k = 0 \/ k \in 1..Len(s)
    <2>. SUFFICES ASSUME I # {} PROVE rjar!Min(I) \in I
        OBVIOUS
    <2>1. \E i \in I : \A j \in I : i <= j
        <3>1. I \subseteq Nat
            OBVIOUS
        <3>. QED
            BY <3>1, LeastOf
    <2>. QED
        BY <2>1 DEF rjar!Min
<1>. HIDE DEF k
<1>3. ASSUME k \in 1..Len(s), NEW i \in DOMAIN SubSeq(s, 1, k - 1)
      PROVE  i \in DOMAIN s /\ SubSeq(s, 1, k - 1)[i] = s[i]
    BY <1>3
<1>. QED
    BY <1>1, <1>2, <1>3 DEF rjar!ToSet

LEMMA RjTypes == FairSpec => []rjar!TypeOK
<1>1. RjInv /\ RjBounded => rjar!TypeOK
    <2>. SUFFICES ASSUME RjInv, RjBounded PROVE rjar!TypeOK
        OBVIOUS
    <2>1. rjCall.classes \in Seq(STRING)
        <3>1. CASE rjCall \in RJavaCalls
            BY <3>1, RJavaCallsAssumption
        <3>2. CASE rjCall = rjar!NoCall
            <4>1. rjCall.classes = << >>
                BY <3>2 DEF rjar!NoCall
            <4>. QED
                BY <4>1
        <3>. QED
            BY <3>1, <3>2 DEF RjInv, RjTyped
    <2>2. rjar!ToSet(<< >>) = {}
        BY DEF rjar!ToSet
    <2>3. rjar!ToSet(rjTemplate) \subseteq rjar!ToSet(rjCall.classes)
        BY <2>1, <2>2, RjScannedHas DEF RjBounded
    <2>. QED
        BY <2>3 DEF RjInv, RjTyped, RjBounded, RjAll, rjar!TypeOK
<1>. QED
    BY <1>1, RjInitial, RjSteps, RjInductive, RjBoundsStart, RjBounds, PTL DEF FairSpec

\* A class, or none, for each type.
FrTypes == frClosed \in BOOLEAN /\ DOMAIN frJava = resTypes

LEMMA FrKeepsTypes == FairSpec => []finalrjar!TypeOK
<1>1. Init => FrTypes
    BY DEF Init, finalrjar!Init, FrTypes
<1>2. FrTypes /\ [finalrjar!Next]_frVars => FrTypes'
    BY DEF FrTypes, frVars, finalrjar!Next, finalrjar!Run, finalrjar!EmptyZip, finalrjar!openRtxts,
           finalrjar!getIds, finalrjar!Skip, finalrjar!Send, finalrjar!ScanStops, finalrjar!FileDone,
           finalrjar!CloseResC, finalrjar!RangeEnds, finalrjar!writeRJavas, finalrjar!compileRJar,
           finalrjar!filterZip, finalrjar!filterZipCut, finalrjar!Fails
<1>3. FrInv /\ FrTypes => finalrjar!TypeOK
    BY DEF FrInv, FrTyped, FrTypes, FrLines, finalrjar!TypeOK
<1>. QED
    BY <1>1, <1>2, <1>3, FrInitial, FrSteps, FrInductive, PTL DEF FairSpec

\* What is left of the outputs are the last of them.
BkDone == Len(bkCall.typedOutputs) - Len(bkTodo)
BkRest ==
    /\ bkCall \in BucketizeCalls \cup {bucketize!NoCall}
    /\ bkPhase \in {"idle", "outputs", "paths", "archive", "ok", "error"}
    /\ bkTodo = SubSeq(bkCall.typedOutputs, BkDone + 1, Len(bkCall.typedOutputs))

LEMMA BkRestNext ==
    ASSUME BkInv, BkRest, bkTodo # << >>, bkTodo' = Tail(bkTodo), bkCall' = bkCall
    PROVE  bkTodo' = SubSeq(bkCall.typedOutputs, BkDone' + 1, Len(bkCall.typedOutputs))
<1>. DEFINE s == bkCall.typedOutputs
            k == BkDone
<1>1. /\ s \in Seq(STRING) /\ bkTodo \in Seq(STRING) /\ Len(s) \in Nat /\ Len(bkTodo) \in Nat
      /\ Len(bkTodo) > 0 /\ Len(bkTodo') = Len(bkTodo) - 1
    BY DEF BkInv, BkTyped
<1>2. Cardinality(BkArchives) \in Nat /\ Cardinality(BkArchives) + Len(bkTodo) = Len(s)
    BY FS_CardinalityType DEF BkInv, BkCounted
<1>3. k \in Nat /\ k + 1 \in 1..Len(s) /\ BkDone' = k + 1
    BY <1>1, <1>2 DEF BkDone
<1>4. bkTodo = SubSeq(s, k + 1, Len(s))
    BY DEF BkRest
<1>. HIDE DEF s, k
<1>5. k + 1 \in DOMAIN s /\ (k + 1) + 1 = k + 2
    BY <1>1, <1>3
<1>6. Tail(SubSeq(s, k + 1, Len(s))) = SubSeq(s, k + 2, Len(s))
    BY <1>1, <1>3, <1>5, RestOf
<1>7. bkTodo' = SubSeq(s, BkDone' + 1, Len(s))
    BY <1>3, <1>4, <1>5, <1>6
<1>. QED
    BY <1>7 DEF s

LEMMA BkRests == BkInv /\ BkRest /\ [Next]_vars => BkRest'
<1>. SUFFICES ASSUME BkInv, BkRest, [Next]_vars PROVE BkRest'
    OBVIOUS
<1>1. ASSUME bucketize!Run PROVE BkRest'
    <2>1. /\ bkCall' \in BucketizeCalls /\ bkTodo' = bkCall'.typedOutputs
          /\ bkPhase' \in {"outputs", "error"}
        BY <1>1 DEF bucketize!Run
    <2>2. bkTodo' \in Seq(STRING) /\ Len(bkTodo') \in Nat
        BY <2>1, BucketizeCallsAssumption
    <2>3. BkDone' = 0
        BY <2>1, <2>2 DEF BkDone
    <2>4. \A s \in Seq(STRING) : s = SubSeq(s, 0 + 1, Len(s))
        OBVIOUS
    <2>. QED
        BY <2>1, <2>2, <2>3, <2>4 DEF BkRest
<1>2. ASSUME bucketize!createPartition PROVE BkRest'
    <2>1. /\ bkTodo # << >> /\ bkTodo' = Tail(bkTodo) /\ bkCall' = bkCall /\ bkPhase' = bkPhase
        BY <1>2 DEF bucketize!createPartition, bucketize!Creating
    <2>. QED
        BY <2>1, BkRestNext DEF BkRest
<1>3. ASSUME bkTodo' = bkTodo, bkCall' = bkCall,
             bkPhase' \in {bkPhase, "paths", "archive", "ok", "error"}
      PROVE  BkRest'
    BY <1>3 DEF BkRest, BkDone
<1>. QED
    BY <1>1, <1>2, <1>3, BkSteps DEF bkVars, bucketize!Next, bucketize!createPartitionFails,
       bucketize!makePartitionSession, bucketize!makeArchiver, bucketize!ArchiveFails,
       bucketize!ArchiveReturns

LEMMA BkTypes == FairSpec => []bucketize!TypeOK
<1>1. Init => BkRest
    <2>1. Init => bkCall = bucketize!NoCall /\ bkPhase = "idle" /\ bkTodo = << >>
        BY DEF Init, bucketize!Init
    <2>2. bucketize!NoCall.typedOutputs = << >>
        BY DEF bucketize!NoCall
    <2>3. Len(<< >>) = 0 /\ << >> = SubSeq(<< >>, 0 - 0 + 1, 0)
        OBVIOUS
    <2>. QED
        BY <2>1, <2>2, <2>3 DEF BkRest, BkDone
<1>2. BkInv /\ BkRest => bucketize!TypeOK
    <2>. SUFFICES ASSUME BkInv, BkRest PROVE bucketize!TypeOK
        OBVIOUS
    <2>1. Cardinality(BkArchives) = Len(bkCall.typedOutputs) - Len(bkTodo)
        <3>1. Len(bkCall.typedOutputs) \in Nat /\ Len(bkTodo) \in Nat
            BY DEF BkInv, BkTyped
        <3>2. Cardinality(BkArchives) \in Nat /\ Cardinality(BkArchives) + Len(bkTodo) = Len(bkCall.typedOutputs)
            BY FS_CardinalityType DEF BkInv, BkCounted
        <3>. QED
            BY <3>1, <3>2
    <2>2. bucketize!Cardinality(bucketize!Outputs) = Cardinality(BkArchives)
        BY DEF bucketize!Outputs, BkArchives, bucketize!Cardinality, Cardinality
    <2>. QED
        BY <2>1, <2>2 DEF BkRest, BkDone, bucketize!TypeOK
<1>. QED
    BY <1>1, <1>2, BkInitial, BkInductive, BkRests, PTL DEF FairSpec

\* The keys are those of the session, and the writers those of its archives.
PsKeyed ==
    /\ psTodo \subseteq DOMAIN psSession.vals \cup session!PathKeys
    /\ psKey \in DOMAIN psSession.vals \cup session!PathKeys \cup {session!None}
    /\ psWs \in Seq(session!Archives \X Nat) /\ psFooters \in Nat /\ psFooters <= Len(psWs)
    /\ psPhase = "idle" => psTodo = {} /\ psWs = << >> /\ psFooters = 0 /\ psOpened = {}
\* The file that is open is that of the path at hand.
PsOpened ==
    /\ psOpened = {} \/ \E f \in psSession.paths : psOpened = {f}
    /\ psPhase = "paths" => psOpened = {k[1] : k \in PsCur}
    /\ psPhase \in {"vals", "close", "ok"} => psOpened = {}

LEMMA PsKeyedStart == Init => PsKeyed /\ PsOpened
<1>. SUFFICES ASSUME Init PROVE PsKeyed /\ PsOpened
    OBVIOUS
<1>1. /\ psPhase = "idle" /\ psTodo = {} /\ psKey = session!None /\ psWs = << >>
      /\ psFooters = 0 /\ psOpened = {}
    BY DEF Init, session!Init
<1>2. Len(<< >>) = 0 /\ \A S : << >> \in Seq(S)
    OBVIOUS
<1>. QED
    BY <1>1, <1>2 DEF PsKeyed, PsOpened

\* A step of flushCollectedPaths that takes a path or has stored it.
LEMMA PsOpens ==
    ASSUME PsInv, PsKeyed, PsOpened, session!OpenPath \/ session!SkipDotFile \/ session!StorePath
    PROVE  PsKeyed' /\ PsOpened'
<1>1. /\ psPhase = "paths" /\ psPhase' = psPhase /\ psSession' = psSession
      /\ psWs' = psWs /\ psFooters' = psFooters
    BY DEF session!OpenPath, session!SkipDotFile, session!StorePath, session!CanStore,
           session!OfPath, session!PathStored
<1>2. PsSound
    BY PsSoundness DEF PsInv, PsTyped
<1>3. ASSUME session!OpenPath PROVE PsKeyed' /\ PsOpened'
    <2>1. PICK k \in session!First : /\ psKey' = k /\ psTodo' = psTodo \ {k}
                                     /\ psOpened' = psOpened \cup {k[1]}
        BY <1>3 DEF session!OpenPath
    <2>2. psKey = session!None /\ PsCur = {}
        BY <1>3 DEF session!OpenPath, PsCur
    <2>3. k \in session!PathKeys /\ k # session!None
        <3>1. k \in psTodo
            BY DEF session!First
        <3>. QED
            BY <1>1, <1>2, <3>1, PsKeys DEF PsInv, PsSorted, PsKeySet
    <2>4. k[1] \in psSession.paths
        BY <2>3 DEF session!PathKeys
    <2>5. PsCur' = {k} /\ psOpened' = {k[1]}
        BY <1>1, <2>1, <2>2, <2>3 DEF PsOpened, PsCur
    <2>6. PsOpened'
        BY <1>1, <2>4, <2>5 DEF PsOpened
    <2>. QED
        BY <1>1, <2>1, <2>3, <2>6, PsSame DEF PsKeyed
<1>4. ASSUME session!SkipDotFile \/ session!StorePath PROVE PsKeyed' /\ PsOpened'
    <2>1. /\ psKey # session!None /\ psKey' = session!None /\ psOpened' = psOpened \ {psKey[1]}
          /\ psTodo' = psTodo
        BY <1>4 DEF session!SkipDotFile, session!StorePath, session!CanStore, session!OfPath,
                    session!PathStored
    <2>2. PsCur = {psKey} /\ PsCur' = {}
        BY <2>1 DEF PsCur
    <2>3. psOpened' = {}
        BY <1>1, <2>1, <2>2 DEF PsOpened
    <2>4. PsOpened'
        BY <1>1, <2>2, <2>3 DEF PsOpened
    <2>. QED
        BY <1>1, <2>1, <2>4, PsSame DEF PsKeyed
<1>. QED
    BY <1>3, <1>4

\* A step that leaves the keys and the writers.
LEMMA PsKeeps ==
    ASSUME PsKeyed, PsOpened, psSession' = psSession, psTodo' = psTodo, psKey' = psKey,
           psWs' = psWs, psFooters' = psFooters, psOpened' = psOpened,
           \/ psPhase' = psPhase \/ psPhase' \in {"error", "panic"}
           \/ psPhase \in {"vals", "close"} /\ psPhase' \in {"close", "ok"}
    PROVE  PsKeyed' /\ PsOpened'
BY PsSame DEF PsKeyed, PsOpened, PsCur

LEMMA PsKeyedNext == PsInv /\ PsKeyed /\ PsOpened /\ [session!Next]_psVars => PsKeyed' /\ PsOpened'
<1>. SUFFICES ASSUME PsInv, PsKeyed, PsOpened, [session!Next]_psVars PROVE PsKeyed' /\ PsOpened'
    OBVIOUS
<1>1. ASSUME session!CallClose PROVE PsKeyed' /\ PsOpened'
    <2>1. /\ psPhase = "idle" /\ psPhase' = "paths" /\ psTodo' = psSession'.paths \X {"path"}
          /\ psKey' = psKey /\ psWs' = psWs /\ psFooters' = psFooters /\ psOpened' = psOpened
        BY <1>1 DEF session!CallClose
    <2>2. psWs = << >> /\ psFooters = 0 /\ psOpened = {} /\ psKey = session!None
        BY <2>1 DEF PsKeyed, PsInv, PsTyped
    <2>3. psTodo' = session!PathKeys'
        BY <2>1 DEF session!PathKeys
    <2>4. PsCur' = {}
        BY <2>1, <2>2 DEF PsCur, session!None
    <2>5. Len(<< >>) = 0 /\ \A S : << >> \in Seq(S)
        OBVIOUS
    <2>6. session!None' = session!None
        BY DEF session!None
    <2>. QED
        BY <2>1, <2>2, <2>3, <2>4, <2>5, <2>6 DEF PsKeyed, PsOpened
<1>2. ASSUME session!PathsDone PROVE PsKeyed' /\ PsOpened'
    <2>1. /\ psPhase = "paths" /\ psPhase' = "vals" /\ psTodo' = DOMAIN psSession.vals
          /\ psKey = session!None /\ psKey' = psKey /\ psWs' = psWs /\ psFooters' = psFooters
          /\ psOpened' = psOpened /\ psSession' = psSession
        BY <1>2 DEF session!PathsDone
    <2>2. psOpened = {}
        BY <2>1 DEF PsOpened, PsCur
    <2>. QED
        BY <2>1, <2>2, PsSame DEF PsKeyed, PsOpened
<1>3. ASSUME session!TakeKey PROVE PsKeyed' /\ PsOpened'
    <2>1. PICK k \in session!First : psKey' = k /\ psTodo' = psTodo \ {k}
        BY <1>3 DEF session!TakeKey
    <2>2. /\ psPhase = "vals" /\ psPhase' = psPhase /\ psWs' = << >> /\ psFooters' = 0
          /\ psOpened' = psOpened /\ psSession' = psSession
        BY <1>3 DEF session!TakeKey
    <2>3. k \in psTodo
        BY DEF session!First
    <2>4. Len(<< >>) = 0 /\ \A S : << >> \in Seq(S)
        OBVIOUS
    <2>. QED
        BY <2>1, <2>2, <2>3, <2>4, PsSame DEF PsKeyed, PsOpened
<1>4. ASSUME session!CreateEntry PROVE PsKeyed' /\ PsOpened'
    <2>. DEFINE b == <<psKey[2], Len(psWs)>>
    <2>1. /\ session!OfVals /\ Len(psWs) < session!Writers
          /\ psWs' = Append(psWs, <<b, Len(psArch[b]) + 1>>)
          /\ psPhase' = psPhase /\ psKey' = psKey /\ psTodo' = psTodo /\ psFooters' = psFooters
          /\ psOpened' = psOpened /\ psSession' = psSession /\ psPhase = "vals"
        BY <1>4 DEF session!CreateEntry, session!OfVals
    <2>2. b \in session!Archives
        BY <2>1, PsValsEntry
    <2>. HIDE DEF b
    <2>3. Len(psArch[b]) \in Nat
        BY <2>2 DEF PsInv, PsTyped
    <2>4. psWs \in Seq(session!Archives \X Nat) /\ psFooters \in Nat /\ psFooters <= Len(psWs)
        BY DEF PsKeyed
    <2>5. <<b, Len(psArch[b]) + 1>> \in session!Archives \X Nat
        BY <2>2, <2>3
    <2>6. psWs' \in Seq(session!Archives \X Nat) /\ Len(psWs') = Len(psWs) + 1
        BY <2>1, <2>4, <2>5
    <2>7. psFooters <= Len(psWs')
        BY <2>4, <2>6
    <2>. QED
        BY <2>1, <2>4, <2>6, <2>7, PsSame DEF PsKeyed, PsOpened
<1>5. ASSUME session!WriteFooter PROVE PsKeyed' /\ PsOpened'
    <2>1. /\ psPhase = "vals" /\ psPhase' = psPhase /\ psFooters < Len(psWs)
          /\ psFooters' = psFooters + 1 /\ psKey' = psKey /\ psTodo' = psTodo /\ psWs' = psWs
          /\ psOpened' = psOpened /\ psSession' = psSession
        BY <1>5 DEF session!WriteFooter, session!Ending, session!OfVals
    <2>2. psFooters' \in Nat /\ psFooters' <= Len(psWs')
        BY <2>1 DEF PsKeyed
    <2>. QED
        BY <2>1, <2>2, PsSame DEF PsKeyed, PsOpened
<1>6. ASSUME session!KeyDone PROVE PsKeyed' /\ PsOpened'
    <2>1. /\ psPhase = "vals" /\ psPhase' = psPhase /\ psKey' = session!None
          /\ psTodo' = psTodo /\ psWs' = psWs /\ psFooters' = psFooters
          /\ psOpened' = psOpened /\ psSession' = psSession
        BY <1>6 DEF session!KeyDone, session!Ending, session!OfVals
    <2>. QED
        BY <2>1, PsSame DEF PsKeyed, PsOpened
<1>7. ASSUME \/ session!OpenPathFails \/ session!BadPathName \/ session!BadShard \/ session!Panic
             \/ session!StorePathFails \/ session!CreateEntryFails \/ session!WriteValue
             \/ session!BadShardOfValue \/ session!WriteValueFails \/ session!WriteFooterFails
      PROVE  PsKeyed' /\ PsOpened'
    BY <1>7, PsKeeps DEF session!OpenPathFails, session!BadPathName, session!BadShard, session!Panic,
       session!StorePathFails, session!CreateEntryFails, session!WriteValue,
       session!BadShardOfValue, session!WriteValueFails, session!WriteFooterFails, session!Fail
<1>8. ASSUME session!ValsDone \/ session!Close \/ UNCHANGED psVars PROVE PsKeyed' /\ PsOpened'
    BY <1>8, PsKeeps DEF session!ValsDone, session!Close, session!CloseArchive, session!CloseFails,
       session!CloseReturns, session!Fail, psVars
<1>. QED
    BY <1>1, <1>2, <1>3, <1>4, <1>5, <1>6, <1>7, <1>8, PsOpens
    DEF session!Next, session!flushCollectedPaths, session!flushCollectedVals

LEMMA PsTypes == FairSpec => []session!TypeOK
<1>1. PsInv /\ PsKeyed /\ PsOpened => session!TypeOK
    <2>. SUFFICES ASSUME PsInv, PsKeyed, PsOpened PROVE session!TypeOK
        OBVIOUS
    <2>1. psFooters \in 0..Len(psWs)
        <3>1. Len(psWs) \in Nat /\ psFooters \in Nat /\ psFooters <= Len(psWs)
            BY DEF PsKeyed
        <3>. QED
            BY <3>1
    <2>2. psOpened \subseteq psSession.paths /\ session!Cardinality(psOpened) <= 1
        <3>1. psOpened = {} \/ \E f \in psSession.paths : psOpened = {f}
            BY DEF PsOpened
        <3>2. Cardinality({}) = 0 /\ \A f : Cardinality({f}) = 1
            BY FS_EmptySet, FS_Singleton
        <3>3. session!Cardinality(psOpened) = Cardinality(psOpened)
            BY PsCardinality
        <3>4. Cardinality(psOpened) \in {0, 1}
            BY <3>1, <3>2
        <3>. QED
            BY <3>1, <3>3, <3>4
    <2>. QED
        BY <2>1, <2>2 DEF PsInv, PsTyped, PsClosed, PsKeyed, PsOpened, session!TypeOK
<1>2. [Next]_vars => [session!Next]_psVars
    BY PsSteps
<1>. QED
    BY <1>1, <1>2, PsInitial, PsInductive, PsKeyedStart, PsKeyedNext, PTL DEF FairSpec
================================================================================
