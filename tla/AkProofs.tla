------------------------------- MODULE AkProofs -------------------------------
(***************************************************************************)
(* What the commands of ak write, for every call of them and whatever the  *)
(* schedule of their goroutines and the order of a map.                    *)
(*                                                                         *)
(* A step of the tool is a step of one command or leaves its state as it   *)
(* is, and each command has an invariant of its own:                       *)
(*   - generatemanifest: the results sent are those of the goroutines      *)
(*     behind their send, all of them behind the wait;                     *)
(*   - repack: what is packed is, of the entries before the next one,      *)
(*     the first of each name;                                             *)
(*   - flagfile: the map has the last values of the lines that were read,  *)
(*     and the flags what the map has for the names taken from it.         *)
(*   - dex: each output has the files of its shard among those before the  *)
(*     next one, in order;                                                 *)
(*   - nativelib: what was extracted and copied is that of the libraries   *)
(*     found so far, and each is written for the last of its path.         *)
(* The last section has, for their TypeOK, what these do not say.          *)
(***************************************************************************)
EXTENDS Ak, Recursion, SequenceTheorems, FiniteSetTheorems

-----------------------------------------------------------------------------
(* generatemanifest.go: the maximum is that of all manifests *)

LEMMA GmSteps == [Next]_vars => [generatemanifest!Next]_gmVars
BY DEF Next, vars, runCmd, RunFinalrjar, RunGeneratemanifest, RunDex, RunExtractaar,
       RunRepack, RunRjar, RunNativelib, RunShellapk, RunPatch, RunManifest, RunCompile,
       RunLink, RunFlagfile, RunBucketize, RunSession, ArchiveReturns

Result == [minSdk : Int, err : BOOLEAN]
Manifest == [kind : {"bad", "placeholder", "value"}, v : Int]

GmTyped ==
    /\ gmCall \in ManifestCalls \cup {generatemanifest!NoCall}
    /\ gmPhase \in {"idle", "start", "wait", "collect", "ok", "error"}
    /\ gmPhase = "idle" => gmCall = generatemanifest!NoCall
    /\ gmResults \in Seq(Result)
    /\ gmAt \in [DOMAIN gmAt -> {"parse", "sent", "done"}]
\* The goroutines are started together: before, there is none and nothing was sent.
GmStarted ==
    /\ gmAt = << >> \/ DOMAIN gmAt = DOMAIN gmCall.manifests
    /\ gmPhase \in {"idle", "start"} => gmAt = << >>
    /\ gmPhase \in {"wait", "collect", "ok"} => DOMAIN gmAt = DOMAIN gmCall.manifests
\* What was sent is what the goroutines behind their send have.
GmSent ==
    {gmResults[i] : i \in DOMAIN gmResults}
        = {generatemanifest!extractMinSdkFromManifest(gmCall.manifests[m]) :
              m \in {m \in DOMAIN gmAt : gmAt[m] # "parse"}}
\* Behind the wait everything was sent.
GmWaited == gmPhase \in {"collect", "ok"} => \A m \in DOMAIN gmAt : gmAt[m] = "done"
\* What is written is the greatest of the results and the flag.
Greatest(x, S) == x \in S /\ \A y \in S : y <= x
GmGreatest ==
    gmPhase = "ok" =>
        /\ \A i \in DOMAIN gmResults : gmResults[i].err = FALSE
        /\ Greatest(gmWritten, {gmCall.minSdk} \cup {gmResults[i].minSdk : i \in DOMAIN gmResults})

GmInv == GmTyped /\ GmStarted /\ GmSent /\ GmWaited /\ GmGreatest

USE DEF generatemanifest!vars

\* A call as ManifestCallsAssumption has it.
LEMMA GmCallFacts ==
    ASSUME GmTyped
    PROVE  gmCall.manifests \in Seq(Manifest) /\ gmCall.minSdk \in Int
<1>1. CASE gmCall \in ManifestCalls
    BY <1>1, ManifestCallsAssumption DEF Manifest
<1>2. CASE gmCall = generatemanifest!NoCall
    <2>1. gmCall.manifests = << >> /\ gmCall.minSdk = 0
        BY <1>2 DEF generatemanifest!NoCall
    <2>. QED
        BY <2>1
<1>. QED
    BY <1>1, <1>2 DEF GmTyped

LEMMA GreatestIsMax ==
    ASSUME NEW S, S \subseteq Int, NEW x, Greatest(x, S)
    PROVE  x = generatemanifest!Max(S)
<1>. DEFINE m == generatemanifest!Max(S)
<1>1. x \in S /\ \A y \in S : x >= y
    BY DEF Greatest
<1>2. m \in S /\ \A y \in S : m >= y
    BY <1>1 DEF generatemanifest!Max
<1>3. m \in Int /\ x \in Int /\ x >= m /\ m >= x
    BY <1>1, <1>2
<1>. HIDE DEF m
<1>4. x = m
    BY <1>3
<1>. QED
    BY <1>4 DEF m

\* The loop over the channel gives the greatest value.
LEMMA MaxIsGreatest ==
    ASSUME GmTyped
    PROVE  Greatest(generatemanifest!minSdk[Len(gmResults)],
                    {gmCall.minSdk} \cup {gmResults[i].minSdk : i \in DOMAIN gmResults})
<1>. DEFINE n == Len(gmResults)
            f == generatemanifest!minSdk
            v0 == gmCall.minSdk
            val(k) == gmResults[k].minSdk
            step == [kv \in (1..n) \X Int |-> IF kv[2] < val(kv[1]) THEN val(kv[1]) ELSE kv[2]]
            Def(g) == [k \in 0..n |-> IF k = 0 THEN v0
                                      ELSE IF g[k - 1] < val(k) THEN val(k) ELSE g[k - 1]]
<1>1. /\ n \in Nat /\ DOMAIN gmResults = 1..n
      /\ \A k \in 1..n : val(k) \in Int
    <2>1. gmResults \in Seq(Result)
        BY DEF GmTyped
    <2>2. n \in Nat /\ DOMAIN gmResults = 1..n /\ \A k \in 1..n : gmResults[k] \in Result
        BY <2>1
    <2>. QED
        BY <2>2 DEF Result
<1>2. v0 \in Int
    BY GmCallFacts
<1>3. \A k \in 1..n, v \in Int :
        step[<<k, v>>] = (IF v < val(k) THEN val(k) ELSE v) /\ step[<<k, v>>] \in Int
    BY <1>1
<1>. HIDE DEF step
<1>4. PICK g : Recursive(g, n, Int, v0, step)
    <2>1. Steps(n, Int, step)
        BY <1>3 DEF Steps
    <2>. QED
        BY <1>1, <1>2, <2>1, PrimitiveRecursion
<1>5. g = Def(g)
    <2>1. \A k \in 0..n : k # 0 => k \in 1..n
        BY <1>1
    <2>2. ASSUME NEW k \in 1..n
          PROVE  g[k] = IF g[k - 1] < val(k) THEN val(k) ELSE g[k - 1]
        <3>1. k - 1 \in 0..n
            BY <1>1
        <3>2. g[k - 1] \in Int /\ g[k] = step[<<k, g[k - 1]>>]
            BY <1>4, <3>1 DEF Recursive
        <3>. QED
            BY <1>3, <3>2
    <2>. QED
        BY <1>4, <2>1, <2>2 DEF Recursive
<1>. HIDE DEF Def
<1>6. f = Def(f)
    BY <1>5 DEF generatemanifest!minSdk, Def
<1>. HIDE DEF f
<1>7. f[0] = v0
    BY <1>1, <1>6 DEF Def
<1>8. ASSUME NEW k \in 1..n
      PROVE  f[k] = IF f[k - 1] < val(k) THEN val(k) ELSE f[k - 1]
    <2>1. k \in 0..n /\ k # 0
        BY <1>1
    <2>. QED
        BY <1>6, <2>1 DEF Def
<1>. DEFINE T == {k \in 0..n : Greatest(f[k], {v0} \cup {val(i) : i \in 1..k})}
<1>. HIDE DEF n, v0, val
<1>9. 0 \in T
    <2>1. 0 \in 0..n /\ {val(i) : i \in 1..0} = {}
        BY <1>1
    <2>. QED
        BY <1>2, <1>7, <2>1 DEF Greatest
<1>10. ASSUME NEW k \in 0..n, k # n, k \in T
       PROVE  k + 1 \in T
    <2>1. /\ k + 1 \in 1..n /\ k + 1 \in 0..n /\ (k + 1) - 1 = k /\ 1..k \subseteq 1..n
          /\ 1..(k + 1) = (1..k) \cup {k + 1}
        BY <1>1, <1>10
    <2>2. Greatest(f[k], {v0} \cup {val(i) : i \in 1..k})
        BY <1>10
    <2>3. {val(i) : i \in 1..(k + 1)} = {val(i) : i \in 1..k} \cup {val(k + 1)}
        BY <2>1
    <2>4. val(k + 1) \in Int /\ {v0} \cup {val(i) : i \in 1..k} \subseteq Int
        BY <1>1, <1>2, <2>1
    <2>5. f[k + 1] = IF f[k] < val(k + 1) THEN val(k + 1) ELSE f[k]
        BY <1>8, <2>1
    <2>. DEFINE S == {v0} \cup {val(i) : i \in 1..k}
    <2>6. {v0} \cup {val(i) : i \in 1..(k + 1)} = S \cup {val(k + 1)}
        BY <2>3
    <2>7. f[k] \in S /\ (\A y \in S : y <= f[k]) /\ S \subseteq Int
        BY <2>2, <2>4 DEF Greatest
    <2>. HIDE DEF S
    <2>9. \A a, b \in Int : a < b \/ b <= a
        OBVIOUS
    <2>10. \A y, a, b \in Int : y <= a /\ a < b => y <= b
        OBVIOUS
    <2>11. f[k] \in Int
        BY <2>7
    <2>8. Greatest(f[k + 1], S \cup {val(k + 1)})
        <3>1. CASE f[k] < val(k + 1)
            <4>1. f[k + 1] = val(k + 1)
                BY <2>5, <3>1
            <4>2. \A y \in S : y <= val(k + 1)
                BY <2>4, <2>7, <2>10, <2>11, <3>1
            <4>. QED
                BY <2>4, <4>1, <4>2 DEF Greatest
        <3>2. CASE ~(f[k] < val(k + 1))
            <4>1. f[k + 1] = f[k]
                BY <2>5, <3>2
            <4>2. val(k + 1) <= f[k]
                BY <2>4, <2>9, <2>11, <3>2
            <4>. QED
                BY <2>7, <4>1, <4>2 DEF Greatest
        <3>. QED
            BY <3>1, <3>2
    <2>. QED
        BY <2>1, <2>6, <2>8
<1>. HIDE DEF T
<1>11. n \in T
    <2>1. 0..n \subseteq T
        BY <1>1, <1>9, <1>10, Reaches
    <2>. QED
        BY <1>1, <2>1
<1>12. Greatest(f[n], {v0} \cup {val(i) : i \in 1..n})
    BY <1>11 DEF T
<1>. QED
    BY <1>1, <1>12 DEF f, n, v0, val

LEMMA GmInitial == Init => GmInv
<1>. SUFFICES ASSUME Init PROVE GmInv
    OBVIOUS
<1>1. /\ gmCall = generatemanifest!NoCall /\ gmPhase = "idle" /\ gmAt = << >> /\ gmResults = << >>
    BY DEF Init, generatemanifest!Init
<1>2. DOMAIN gmAt = {} /\ gmAt \in [DOMAIN gmAt -> {"parse", "sent", "done"}]
      /\ gmResults \in Seq(Result) /\ DOMAIN gmResults = {}
    BY <1>1
<1>. QED
    BY <1>1, <1>2 DEF GmInv, GmTyped, GmStarted, GmSent, GmWaited, GmGreatest

\* A goroutine sends what it has.
LEMMA GmSend ==
    ASSUME GmInv, NEW m \in DOMAIN gmAt, generatemanifest!Send(m)
    PROVE  GmInv'
<1>. DEFINE x == generatemanifest!extractMinSdkFromManifest(gmCall.manifests[m])
<1>1. /\ gmAt[m] = "parse" /\ gmResults' = Append(gmResults, x)
      /\ gmAt' = [gmAt EXCEPT ![m] = "sent"]
      /\ gmCall' = gmCall /\ gmPhase' = gmPhase /\ gmWritten' = gmWritten
    BY DEF generatemanifest!Send
<1>2. m \in DOMAIN gmCall.manifests /\ gmPhase \notin {"idle", "start", "collect", "ok"}
    BY <1>1 DEF GmInv, GmStarted, GmWaited
<1>3. x \in Result
    <2>1. gmCall.manifests[m] \in Manifest
        BY <1>2, GmCallFacts DEF GmInv
    <2>. QED
        BY <2>1 DEF generatemanifest!extractMinSdkFromManifest, Result, Manifest
<1>. HIDE DEF x
<1>4. GmTyped'
    <2>1. gmAt' \in [DOMAIN gmAt' -> {"parse", "sent", "done"}]
        BY <1>1 DEF GmInv, GmTyped
    <2>2. gmResults' \in Seq(Result)
        BY <1>1, <1>3 DEF GmInv, GmTyped
    <2>. QED
        BY <1>1, <2>1, <2>2 DEF GmInv, GmTyped
<1>5. GmStarted'
    BY <1>1, <1>2 DEF GmInv, GmStarted
<1>6. GmSent'
    <2>. DEFINE S(a) == {generatemanifest!extractMinSdkFromManifest(gmCall.manifests[k]) :
                            k \in {k \in DOMAIN a : a[k] # "parse"}}
    <2>1. {gmResults'[i] : i \in DOMAIN gmResults'} = {gmResults[i] : i \in DOMAIN gmResults} \cup {x}
        <3>1. /\ gmResults \in Seq(Result) /\ Len(gmResults) \in Nat
              /\ DOMAIN gmResults = 1..Len(gmResults)
            BY DEF GmInv, GmTyped
        <3>2. /\ DOMAIN gmResults' = 1..(Len(gmResults) + 1) /\ gmResults'[Len(gmResults) + 1] = x
              /\ \A i \in 1..Len(gmResults) : gmResults'[i] = gmResults[i]
            BY <1>1, <1>3, <3>1, AppendProperties
        <3>3. 1..(Len(gmResults) + 1) = (1..Len(gmResults)) \cup {Len(gmResults) + 1}
            BY <3>1
        <3>. QED
            BY <3>1, <3>2, <3>3
    <2>2. {k \in DOMAIN gmAt' : gmAt'[k] # "parse"} = {k \in DOMAIN gmAt : gmAt[k] # "parse"} \cup {m}
        BY <1>1 DEF GmInv, GmTyped
    <2>3. S(gmAt') = S(gmAt) \cup {x}
        BY <2>2 DEF x
    <2>4. {gmResults[i] : i \in DOMAIN gmResults} = S(gmAt)
        BY DEF GmInv, GmSent
    <2>5. {gmResults'[i] : i \in DOMAIN gmResults'} = S(gmAt')
        BY <2>1, <2>3, <2>4
    <2>. QED
        BY <1>1, <2>5 DEF GmSent, generatemanifest!extractMinSdkFromManifest
<1>. QED
    BY <1>1, <1>2, <1>4, <1>5, <1>6 DEF GmInv, GmWaited, GmGreatest

LEMMA GmDone ==
    ASSUME GmInv, NEW m \in DOMAIN gmAt, generatemanifest!Done(m)
    PROVE  GmInv'
<1>1. /\ gmAt[m] = "sent" /\ gmAt' = [gmAt EXCEPT ![m] = "done"]
      /\ gmResults' = gmResults /\ gmCall' = gmCall /\ gmPhase' = gmPhase
      /\ gmWritten' = gmWritten
    BY DEF generatemanifest!Done
<1>2. /\ DOMAIN gmAt' = DOMAIN gmAt
      /\ {k \in DOMAIN gmAt' : gmAt'[k] # "parse"} = {k \in DOMAIN gmAt : gmAt[k] # "parse"}
      /\ gmAt' \in [DOMAIN gmAt' -> {"parse", "sent", "done"}]
    BY <1>1 DEF GmInv, GmTyped
<1>3. GmTyped' /\ GmStarted'
    BY <1>1, <1>2 DEF GmInv, GmTyped, GmStarted
<1>4. GmSent'
    BY <1>1, <1>2 DEF GmInv, GmSent, generatemanifest!extractMinSdkFromManifest
<1>5. GmWaited'
    BY <1>1 DEF GmInv, GmWaited
<1>. QED
    BY <1>1, <1>3, <1>4, <1>5 DEF GmInv, GmGreatest

LEMMA GmOpen ==
    ASSUME GmInv, generatemanifest!Open
    PROVE  GmInv'
<1>1. /\ gmPhase = "start" /\ gmPhase' = "wait"
      /\ gmAt' = [m \in DOMAIN gmCall.manifests |-> "parse"]
      /\ gmResults' = gmResults /\ gmCall' = gmCall
    BY DEF generatemanifest!Open
<1>2. gmAt = << >> /\ DOMAIN gmAt = {}
    BY <1>1 DEF GmInv, GmStarted
<1>3. /\ DOMAIN gmAt' = DOMAIN gmCall.manifests
      /\ {k \in DOMAIN gmAt' : gmAt'[k] # "parse"} = {}
      /\ gmAt' \in [DOMAIN gmAt' -> {"parse", "sent", "done"}]
    BY <1>1
<1>4. GmTyped' /\ GmStarted'
    BY <1>1, <1>3 DEF GmInv, GmTyped, GmStarted
<1>5. GmSent'
    <2>1. {gmResults[i] : i \in DOMAIN gmResults} = {}
        BY <1>2 DEF GmInv, GmSent
    <2>. QED
        BY <1>1, <1>3, <2>1 DEF GmSent
<1>. QED
    BY <1>1, <1>4, <1>5 DEF GmInv, GmWaited, GmGreatest

LEMMA GmWrite ==
    ASSUME GmInv, generatemanifest!writeManifest
    PROVE  GmInv'
<1>1. /\ gmPhase = "collect" /\ generatemanifest!FirstError = 0
      /\ gmPhase' = "ok" /\ gmCall' = gmCall /\ gmAt' = gmAt /\ gmResults' = gmResults
      /\ gmWritten' = generatemanifest!minSdk[Len(gmResults)]
    BY DEF generatemanifest!writeManifest
<1>. DEFINE I == {i \in 1..Len(gmResults) : gmResults[i].err}
<1>2. /\ gmResults \in Seq(Result) /\ Len(gmResults) \in Nat
      /\ DOMAIN gmResults = 1..Len(gmResults)
    BY DEF GmInv, GmTyped
<1>3. generatemanifest!FirstError = IF I # {} THEN generatemanifest!Min(I) ELSE 0
    BY DEF generatemanifest!FirstError, generatemanifest!SelectInSeq
<1>4. I = {}
    <2>. SUFFICES ASSUME I # {} PROVE FALSE
        OBVIOUS
    <2>1. \E i \in I : \A j \in I : i <= j
        <3>1. I \subseteq Nat
            BY <1>2
        <3>. QED
            BY <3>1, LeastOf
    <2>2. generatemanifest!Min(I) \in I
        BY <2>1 DEF generatemanifest!Min
    <2>3. 0 \notin I
        BY <1>2
    <2>. QED
        BY <1>1, <1>3, <2>2, <2>3
<1>5. \A i \in DOMAIN gmResults : gmResults[i].err = FALSE
    BY <1>2, <1>4 DEF Result
<1>6. Greatest(gmWritten', {gmCall.minSdk} \cup {gmResults[i].minSdk : i \in DOMAIN gmResults})
    BY <1>1, MaxIsGreatest DEF GmInv
<1>7. GmTyped' /\ GmStarted' /\ GmSent' /\ GmWaited'
    BY <1>1 DEF GmInv, GmTyped, GmStarted, GmSent, GmWaited, generatemanifest!extractMinSdkFromManifest
<1>. QED
    BY <1>1, <1>5, <1>6, <1>7 DEF GmInv, GmGreatest, Greatest

LEMMA GmInductive == GmInv /\ [generatemanifest!Next]_gmVars => GmInv'
<1>. SUFFICES ASSUME GmInv, [generatemanifest!Next]_gmVars PROVE GmInv'
    OBVIOUS
<1>1. CASE generatemanifest!Run
    BY <1>1 DEF generatemanifest!Run, GmInv, GmTyped, GmStarted, GmSent, GmWaited, GmGreatest,
                generatemanifest!extractMinSdkFromManifest
<1>2. CASE generatemanifest!Fails \/ generatemanifest!WaitReturns \/ generatemanifest!ReturnsError
           \/ UNCHANGED gmVars
    BY <1>2 DEF generatemanifest!Fails, generatemanifest!WaitReturns, generatemanifest!ReturnsError,
                gmVars, GmInv, GmTyped, GmStarted, GmSent, GmWaited, GmGreatest, Greatest,
                generatemanifest!extractMinSdkFromManifest
<1>. QED
    BY <1>1, <1>2, GmOpen, GmWrite, GmSend, GmDone DEF generatemanifest!Next, generatemanifest!extract

\* What was written is the maximum that MaxWritten names.
LEMMA GmImplies == GmInv => MaxWritten
<1>. SUFFICES ASSUME GmInv, gmPhase = "ok" PROVE MaxWritten
    BY DEF MaxWritten, generatemanifest!MaxWritten
<1>. DEFINE M == gmCall.manifests
            x(k) == generatemanifest!extractMinSdkFromManifest(M[k])
            OfKind(k) == {m \in generatemanifest!Range(M) : m.kind = k}
            R == {gmResults[i] : i \in DOMAIN gmResults}
            S == {gmCall.minSdk} \cup {m.v : m \in OfKind("value")}
                                 \cup {0 : m \in OfKind("placeholder")}
<1>1. \A k \in DOMAIN M : M[k] \in Manifest
    BY GmCallFacts DEF GmInv
<1>2. R = {x(k) : k \in DOMAIN M}
    BY DEF GmInv, GmSent, GmStarted, GmWaited
<1>3. \A k \in DOMAIN M : x(k).err = FALSE
    BY <1>2 DEF GmInv, GmGreatest
<1>4. \A k \in DOMAIN M : /\ M[k].kind # "bad"
                          /\ M[k].kind = "value" => x(k).minSdk = M[k].v
                          /\ M[k].kind # "value" => x(k).minSdk = 0
    BY <1>3 DEF generatemanifest!extractMinSdkFromManifest
<1>5. OfKind("bad") = {}
    BY <1>4 DEF generatemanifest!Range
<1>6. {r.minSdk : r \in R} = {x(k).minSdk : k \in DOMAIN M}
    BY <1>2
<1>7. {x(k).minSdk : k \in DOMAIN M}
        = {m.v : m \in OfKind("value")} \cup {0 : m \in OfKind("placeholder")}
    BY <1>1, <1>4 DEF generatemanifest!Range, Manifest
<1>8. {gmResults[i].minSdk : i \in DOMAIN gmResults} = {r.minSdk : r \in R}
    OBVIOUS
<1>9. Greatest(gmWritten, {gmCall.minSdk} \cup {gmResults[i].minSdk : i \in DOMAIN gmResults})
    BY DEF GmInv, GmGreatest
<1>10. Greatest(gmWritten, S)
    BY <1>6, <1>7, <1>8, <1>9
<1>11. S \subseteq Int
    <2>1. \A k \in DOMAIN M : M[k].v \in Int
        BY <1>1 DEF Manifest
    <2>. QED
        BY <2>1, GmCallFacts DEF GmInv, generatemanifest!Range
<1>. HIDE DEF S
<1>12. gmWritten = generatemanifest!Max(S)
    BY <1>10, <1>11, GreatestIsMax
<1>. QED
    BY <1>5, <1>12 DEF MaxWritten, generatemanifest!MaxWritten, S

\* However the goroutines run: what generatemanifest writes is the maximum of the flag and
\* of all numbers in the manifests, and it writes nothing if one of them cannot be read.
THEOREM MaximumWritten == FairSpec => []MaxWritten
BY GmInitial, GmSteps, GmInductive, GmImplies, PTL DEF FairSpec

-----------------------------------------------------------------------------
(* repack.go: the first entry of a name wins and nothing else is lost *)

LEMMA RpSteps == [Next]_vars => [repack!Next]_rpVars
BY DEF Next, vars, runCmd, RunFinalrjar, RunGeneratemanifest, RunDex, RunExtractaar,
       RunRepack, RunRjar, RunNativelib, RunShellapk, RunPatch, RunManifest, RunCompile,
       RunLink, RunFlagfile, RunBucketize, RunSession, ArchiveReturns

RpEntry == [name : STRING, dir : BOOLEAN, match : BOOLEAN, body : Int]

\* The place of the next entry: todo is what is left of the sources from there on.
RpSource == Len(repack!Sources) - Len(rpTodo) + 1
RpIndex == IF rpTodo = << >> THEN 1
           ELSE Len(repack!Sources[RpSource]) - Len(rpTodo[1]) + 1
RpNext == <<RpSource, RpIndex>>
\* The entries before it, and those of them that are the first of their name.
RpPassed == {p \in repack!Kept : repack!Before(p, RpNext)}
RpDone(match) == {repack!EntryAt(p) : p \in {p \in RpPassed \cap repack!Firsts :
                                                repack!EntryAt(p).match = match}}

RpTyped ==
    /\ rpCall \in RepackCalls \cup {repack!NoCall}
    /\ rpPhase \in {"idle", "start", "pack", "close", "ok", "error"}
    /\ rpOut \in Seq(RpEntry) /\ rpFiltered \in Seq(RpEntry)
    /\ rpLost \in BOOLEAN
RpFresh ==
    rpPhase \in {"idle", "start"} =>
        rpSeen = {} /\ rpOut = << >> /\ rpFiltered = << >> /\ rpLost = FALSE
\* What is left to pack.
RpLeft ==
    rpPhase \in {"pack", "close", "ok"} =>
        /\ rpTodo \in Seq(Seq(RpEntry))
        /\ Len(rpTodo) <= Len(repack!Sources)
        /\ \A j \in 2..Len(rpTodo) : rpTodo[j] = repack!Sources[RpSource + j - 1]
        /\ rpTodo # << >> =>
             /\ Len(rpTodo[1]) <= Len(repack!Sources[RpSource])
             /\ \A i \in 1..Len(rpTodo[1]) :
                  rpTodo[1][i] = repack!Sources[RpSource][RpIndex + i - 1]
        /\ rpPhase \in {"close", "ok"} => rpTodo = << >>
\* What is in the filtered output.
RpMayBe(e) == e \in RpDone(TRUE) \/ (rpLost /\ \E o \in RpDone(TRUE) : e = repack!Cut(o))
\* What was packed.
RpPacked ==
    rpPhase \in {"pack", "close", "ok"} =>
        /\ rpSeen = {repack!EntryAt(p).name : p \in RpPassed}
        /\ repack!Range(rpOut) = RpDone(FALSE)
        /\ \A e \in repack!Range(rpFiltered) : RpMayBe(e)
        /\ rpCall.filtered /\ ~rpLost => repack!Range(rpFiltered) = RpDone(TRUE)

RpInv == RpTyped /\ RpFresh /\ RpLeft /\ RpPacked /\ repack!FirstWins

USE DEF repack!vars

\* The entries of a source are entries.
LEMMA RpSourceEntries ==
    ASSUME NEW s \in Seq(Seq([name : STRING, dir : BOOLEAN, match : BOOLEAN, body : Nat]))
    PROVE  s \in Seq(Seq(RpEntry))
<1>. DEFINE E == [name : STRING, dir : BOOLEAN, match : BOOLEAN, body : Nat]
<1>1. E \subseteq RpEntry
    BY DEF RpEntry
<1>. HIDE DEF E, RpEntry
<1>2. \A q \in Seq(E) : q \in Seq(RpEntry)
    BY <1>1
<1>. DEFINE A == Seq(E)
            B == Seq(RpEntry)
<1>3. s \in Seq(A)
    BY DEF E
<1>. HIDE DEF A, B
<1>4. s \in Seq(B)
    BY <1>2, <1>3 DEF A, B
<1>. QED
    BY <1>4 DEF B

LEMMA RpCallFacts ==
    ASSUME RpTyped
    PROVE  /\ repack!Sources \in Seq(Seq(RpEntry))
           /\ Len(repack!Sources) \in Nat /\ DOMAIN repack!Sources = 1..Len(repack!Sources)
           /\ \A s \in DOMAIN repack!Sources :
                /\ repack!Sources[s] \in Seq(RpEntry)
                /\ Len(repack!Sources[s]) \in Nat
                /\ DOMAIN repack!Sources[s] = 1..Len(repack!Sources[s])
           /\ rpCall.removeDirs \in BOOLEAN /\ rpCall.filtered \in BOOLEAN /\ rpCall.ioFails \in BOOLEAN
<1>1. /\ rpCall.dirs \in Seq(Seq(RpEntry)) /\ rpCall.zips \in Seq(Seq(RpEntry))
      /\ rpCall.removeDirs \in BOOLEAN /\ rpCall.filtered \in BOOLEAN /\ rpCall.ioFails \in BOOLEAN
    <2>1. CASE rpCall \in RepackCalls
        BY <2>1, RepackCallsAssumption, RpSourceEntries
    <2>2. CASE rpCall = repack!NoCall
        <3>1. /\ rpCall.dirs = << >> /\ rpCall.zips = << >> /\ rpCall.removeDirs = FALSE
              /\ rpCall.filtered = FALSE /\ rpCall.ioFails = FALSE
            BY <2>2 DEF repack!NoCall
        <3>2. << >> \in Seq(Seq(RpEntry))
            OBVIOUS
        <3>. QED
            BY <3>1, <3>2
    <2>. QED
        BY <2>1, <2>2 DEF RpTyped
<1>2. repack!Sources \in Seq(Seq(RpEntry))
    BY <1>1 DEF repack!Sources
<1>. HIDE DEF RpEntry
<1>3. \A s \in DOMAIN repack!Sources : repack!Sources[s] \in Seq(RpEntry)
    BY <1>2
<1>4. ASSUME NEW q \in Seq(RpEntry) PROVE Len(q) \in Nat /\ DOMAIN q = 1..Len(q)
    OBVIOUS
<1>. QED
    BY <1>1, <1>2, <1>3, <1>4

\* A place is a pair of numbers with an entry.
LEMMA RpPlaceFacts ==
    ASSUME RpTyped, NEW p \in repack!Places
    PROVE  /\ p = <<p[1], p[2]>> /\ p[1] \in Nat /\ p[2] \in Nat
           /\ p[1] \in DOMAIN repack!Sources /\ p[2] \in 1..Len(repack!Sources[p[1]])
           /\ repack!EntryAt(p) \in RpEntry
<1>1. PICK s \in DOMAIN repack!Sources : p \in {s} \X DOMAIN repack!Sources[s]
    BY DEF repack!Places
<1>2. /\ p = <<p[1], p[2]>> /\ p[1] = s /\ p[2] \in 1..Len(repack!Sources[s])
      /\ s \in 1..Len(repack!Sources) /\ Len(repack!Sources) \in Nat
      /\ repack!Sources[s] \in Seq(RpEntry) /\ Len(repack!Sources[s]) \in Nat
    BY <1>1, RpCallFacts
<1>. HIDE DEF RpEntry
<1>. QED
    BY <1>1, <1>2 DEF repack!EntryAt

LEMMA RpInitial == Init => RpInv
<1>. SUFFICES ASSUME Init PROVE RpInv
    OBVIOUS
<1>1. /\ rpCall = repack!NoCall /\ rpPhase = "idle" /\ rpSeen = {} /\ rpOut = << >>
      /\ rpFiltered = << >> /\ rpLost = FALSE
    BY DEF Init, repack!Init
<1>2. rpOut \in Seq(RpEntry) /\ rpFiltered \in Seq(RpEntry)
      /\ repack!Range(rpOut) = {} /\ repack!Range(rpFiltered) = {} /\ DOMAIN rpOut = {}
      /\ DOMAIN rpFiltered = {}
    BY <1>1 DEF repack!Range
<1>3. repack!FirstWins
    BY <1>1, <1>2 DEF repack!FirstWins
<1>. QED
    BY <1>1, <1>2, <1>3 DEF RpInv, RpTyped, RpFresh, RpLeft, RpPacked

\* The phase changes, and what is counted from the sources does not.
LEMMA RpStart ==
    ASSUME RpInv, repack!Start
    PROVE  RpInv'
<1>1. /\ rpPhase = "idle" /\ rpPhase' = "start" /\ rpCall' \in RepackCalls
      /\ rpSeen' = rpSeen /\ rpOut' = rpOut /\ rpFiltered' = rpFiltered /\ rpLost' = rpLost
    BY DEF repack!Start
<1>2. rpSeen = {} /\ rpOut = << >> /\ rpFiltered = << >> /\ rpLost = FALSE
    BY <1>1 DEF RpInv, RpFresh
<1>3. repack!Range(rpOut') = {} /\ repack!Range(rpFiltered') = {} /\ DOMAIN rpOut' = {}
      /\ DOMAIN rpFiltered' = {}
    BY <1>1, <1>2 DEF repack!Range
<1>4. repack!FirstWins'
    BY <1>1, <1>3 DEF repack!FirstWins, repack!Range
<1>. QED
    BY <1>1, <1>2, <1>4 DEF RpInv, RpTyped, RpFresh, RpLeft, RpPacked

LEMMA RpSame ==
    ASSUME rpCall' = rpCall
    PROVE  /\ repack!Sources' = repack!Sources /\ repack!Places' = repack!Places
           /\ \A p : repack!EntryAt(p)' = repack!EntryAt(p)
           /\ repack!Kept' = repack!Kept /\ repack!Firsts' = repack!Firsts
           /\ repack!Outputs(TRUE)' = repack!Outputs(TRUE)
           /\ repack!Outputs(FALSE)' = repack!Outputs(FALSE)
<1>1. repack!Sources' = repack!Sources
    BY DEF repack!Sources
<1>2. repack!Places' = repack!Places /\ \A p : repack!EntryAt(p)' = repack!EntryAt(p)
    BY <1>1 DEF repack!Places, repack!EntryAt
<1>3. repack!Kept' = repack!Kept
    BY <1>2 DEF repack!Kept
<1>4. repack!Firsts' = repack!Firsts
    BY <1>2, <1>3 DEF repack!Firsts, repack!Before
<1>. QED
    BY <1>1, <1>2, <1>3, <1>4 DEF repack!Outputs

LEMMA RpNextSame ==
    ASSUME rpCall' = rpCall, rpTodo' = rpTodo
    PROVE  /\ RpSource' = RpSource /\ RpIndex' = RpIndex /\ RpPassed' = RpPassed
           /\ RpDone(TRUE)' = RpDone(TRUE) /\ RpDone(FALSE)' = RpDone(FALSE)
<1>1. RpSource' = RpSource /\ RpIndex' = RpIndex /\ RpNext' = RpNext
    BY RpSame DEF RpSource, RpIndex, RpNext
<1>2. RpPassed' = RpPassed
    BY <1>1, RpSame DEF RpPassed, repack!Before
<1>. QED
    BY <1>1, <1>2, RpSame DEF RpDone

LEMMA RpFirstWinsSame ==
    ASSUME RpInv, rpCall' = rpCall, rpOut' = rpOut, rpFiltered' = rpFiltered, rpLost => rpLost'
    PROVE  repack!FirstWins'
<1>1. repack!FirstWins
    BY DEF RpInv
<1>2. repack!Range(rpOut') = repack!Range(rpOut)
      /\ repack!Range(rpFiltered') = repack!Range(rpFiltered)
    BY DEF repack!Range
<1>. QED
    BY <1>1, <1>2, RpSame DEF repack!FirstWins

\* Before the first entry there is none.
LEMMA RpRun ==
    ASSUME RpInv, repack!Run
    PROVE  RpInv'
<1>1. /\ rpPhase = "start" /\ rpPhase' = "pack" /\ rpTodo' = repack!Sources
      /\ rpCall' = rpCall
      /\ rpSeen' = rpSeen /\ rpOut' = rpOut /\ rpFiltered' = rpFiltered /\ rpLost' = rpLost
    BY DEF repack!Run, repack!Sources
<1>2. rpSeen = {} /\ rpOut = << >> /\ rpFiltered = << >> /\ rpLost = FALSE
    BY <1>1 DEF RpInv, RpFresh
<1>3. repack!Sources' = repack!Sources
    BY <1>1, RpSame
<1>4. Len(repack!Sources) \in Nat /\ RpTyped
    BY RpCallFacts DEF RpInv
<1>5. RpSource' = 1
    BY <1>1, <1>3, <1>4 DEF RpSource
<1>6. RpIndex' = 1
    <2>1. rpTodo' # << >> => 1 \in DOMAIN repack!Sources
        BY <1>1, RpCallFacts, <1>4
    <2>2. rpTodo' # << >> => Len(repack!Sources[1]) \in Nat
        BY <2>1, RpCallFacts, <1>4
    <2>. QED
        BY <1>1, <1>3, <1>5, <2>2 DEF RpIndex
<1>7. RpLeft'
    <2>1. repack!Sources \in Seq(Seq(RpEntry))
        BY <1>4, RpCallFacts
    <2>2. \A j \in 2..Len(repack!Sources) : 1 + j - 1 = j
        BY <1>4
    <2>3. ASSUME repack!Sources # << >>
          PROVE  Len(repack!Sources[1]) \in Nat /\ \A i \in 1..Len(repack!Sources[1]) : 1 + i - 1 = i
        <3>1. 1 \in DOMAIN repack!Sources
            BY <1>4, <2>1, <2>3, RpCallFacts
        <3>. QED
            BY <1>4, <3>1, RpCallFacts
    <2>4. Len(repack!Sources) <= Len(repack!Sources)
        BY <1>4
    <2>. QED
        BY <1>1, <1>3, <1>4, <1>5, <1>6, <2>1, <2>2, <2>3, <2>4 DEF RpLeft
<1>8. RpPassed' = {}
    <2>. SUFFICES ASSUME NEW p \in repack!Kept', repack!Before(p, <<1, 1>>) PROVE FALSE
        BY <1>5, <1>6 DEF RpPassed, RpNext, repack!Before
    <2>1. p \in repack!Places
        BY <1>1, RpSame DEF repack!Kept
    <2>. QED
        BY <1>4, <2>1, RpPlaceFacts, RpCallFacts DEF repack!Before
<1>9. RpDone(TRUE)' = {} /\ RpDone(FALSE)' = {}
    BY <1>8 DEF RpDone
<1>10. RpPacked'
    <2>1. repack!Range(rpOut)' = {} /\ repack!Range(rpFiltered)' = {}
        BY <1>1, <1>2 DEF repack!Range
    <2>. QED
        BY <1>1, <1>2, <1>8, <1>9, <2>1 DEF RpPacked
<1>. QED
    BY <1>1, <1>4, <1>7, <1>10, RpFirstWinsSame DEF RpInv, RpTyped, RpFresh

\* In the middle of a source.
LEMMA RpAtEntry ==
    ASSUME RpInv, repack!Packing
    PROVE  /\ RpNext \in repack!Places /\ repack!EntryAt(RpNext) = repack!Entry
           /\ RpSource \in DOMAIN repack!Sources
           /\ RpIndex \in 1..Len(repack!Sources[RpSource])
           /\ Len(rpTodo) \in Nat /\ rpTodo # << >> /\ rpTodo[1] # << >>
           /\ rpTodo[1] \in Seq(RpEntry) /\ Len(rpTodo[1]) \in Nat /\ Len(rpTodo[1]) > 0
           /\ rpTodo \in Seq(Seq(RpEntry)) /\ Len(rpTodo) > 0
           /\ RpTyped
<1>1. rpPhase = "pack" /\ rpTodo # << >> /\ rpTodo[1] # << >> /\ RpTyped /\ RpLeft
    BY DEF repack!Packing, RpInv
<1>2. /\ rpTodo \in Seq(Seq(RpEntry)) /\ Len(rpTodo) \in Nat /\ Len(rpTodo) > 0
    BY <1>1 DEF RpLeft
<1>3. rpTodo[1] \in Seq(RpEntry)
    BY <1>2
<1>4. Len(rpTodo[1]) \in Nat /\ Len(rpTodo[1]) > 0
    BY <1>1, <1>3
<1>5. Len(rpTodo) <= Len(repack!Sources) /\ Len(repack!Sources) \in Nat
      /\ DOMAIN repack!Sources = 1..Len(repack!Sources)
    BY <1>1, RpCallFacts DEF RpLeft
<1>6. RpSource \in DOMAIN repack!Sources
    BY <1>2, <1>5 DEF RpSource
<1>7. /\ Len(repack!Sources[RpSource]) \in Nat
      /\ DOMAIN repack!Sources[RpSource] = 1..Len(repack!Sources[RpSource])
    BY <1>1, <1>6, RpCallFacts
<1>8. /\ Len(rpTodo[1]) <= Len(repack!Sources[RpSource])
      /\ \A i \in 1..Len(rpTodo[1]) : rpTodo[1][i] = repack!Sources[RpSource][RpIndex + i - 1]
    BY <1>1 DEF RpLeft
<1>9. RpIndex = Len(repack!Sources[RpSource]) - Len(rpTodo[1]) + 1
    BY <1>1 DEF RpIndex
<1>10. RpIndex \in 1..Len(repack!Sources[RpSource])
    <2>1. \A l, k \in Nat : k > 0 /\ k <= l => l - k + 1 \in 1..l
        OBVIOUS
    <2>. QED
        BY <1>4, <1>7, <1>8, <1>9, <2>1
<1>11. rpTodo[1][1] = repack!Sources[RpSource][RpIndex]
    <2>1. 1 \in 1..Len(rpTodo[1]) /\ RpIndex + 1 - 1 = RpIndex
        BY <1>4, <1>7, <1>10
    <2>. QED
        BY <1>8, <2>1
<1>12. RpNext \in repack!Places
    BY <1>6, <1>7, <1>10 DEF RpNext, repack!Places
<1>13. repack!Entry = rpTodo[1][1]
    BY <1>3, <1>1 DEF repack!Entry
<1>14. repack!EntryAt(RpNext) = repack!Entry
    BY <1>11, <1>13 DEF RpNext, repack!EntryAt
<1>. QED
    BY <1>1, <1>2, <1>3, <1>4, <1>6, <1>10, <1>12, <1>14

\* The next entry is one further, and one more was passed.
LEMMA RpAdvance ==
    ASSUME RpInv, repack!Packing, repack!Step
    PROVE  /\ RpLeft'
           /\ RpPassed' = RpPassed \cup ({RpNext} \cap repack!Kept)
           /\ RpNext \notin RpPassed
<1>1. /\ rpTodo' = [rpTodo EXCEPT ![1] = Tail(@)] /\ rpCall' = rpCall /\ rpPhase' = rpPhase
      /\ rpPhase = "pack"
    BY DEF repack!Step, repack!Packing
<1>. DEFINE S == repack!Sources
            q == rpTodo[1]
<1>2. /\ RpNext \in repack!Places /\ RpSource \in DOMAIN S /\ RpIndex \in 1..Len(S[RpSource])
      /\ Len(rpTodo) \in Nat /\ rpTodo # << >> /\ q # << >> /\ q \in Seq(RpEntry)
      /\ Len(q) \in Nat /\ Len(q) > 0
      /\ rpTodo \in Seq(Seq(RpEntry)) /\ Len(rpTodo) > 0 /\ RpTyped
    BY RpAtEntry
<1>3. S' = S /\ repack!Kept' = repack!Kept
    BY <1>1, RpSame
<1>4. /\ Tail(q) \in Seq(RpEntry) /\ Len(Tail(q)) = Len(q) - 1
      /\ \A i \in 1..(Len(q) - 1) : Tail(q)[i] = q[i + 1]
    BY <1>2
<1>5. /\ rpTodo' \in Seq(Seq(RpEntry)) /\ Len(rpTodo') = Len(rpTodo) /\ rpTodo'[1] = Tail(q)
      /\ \A j \in 2..Len(rpTodo) : rpTodo'[j] = rpTodo[j]
      /\ rpTodo' # << >>
    <2>1. DOMAIN rpTodo = 1..Len(rpTodo) /\ 1 \in DOMAIN rpTodo
        BY <1>2
    <2>2. \A j \in 1..Len(rpTodo) : rpTodo'[j] = IF j = 1 THEN Tail(q) ELSE rpTodo[j]
        BY <1>1, <2>1
    <2>3. \A j \in 1..Len(rpTodo) : rpTodo'[j] \in Seq(RpEntry)
        <3>1. \A j \in 1..Len(rpTodo) : rpTodo[j] \in Seq(RpEntry)
            BY <1>2
        <3>. HIDE DEF q
        <3>. QED
            BY <1>4, <2>2, <3>1
    <2>4. rpTodo' \in [1..Len(rpTodo) -> Seq(RpEntry)]
        BY <1>1, <1>2, <2>1, <2>3
    <2>5. rpTodo' \in Seq(Seq(RpEntry))
        BY <1>2, <2>4
    <2>6. Len(rpTodo') = Len(rpTodo)
        BY <1>2, <2>4, <2>5
    <2>. QED
        BY <1>2, <2>2, <2>5, <2>6
<1>6. RpSource' = RpSource
    BY <1>3, <1>5 DEF RpSource
<1>7. /\ Len(S[RpSource]) \in Nat /\ Len(S) \in Nat /\ DOMAIN S = 1..Len(S)
      /\ DOMAIN S[RpSource] = 1..Len(S[RpSource])
    BY <1>2, RpCallFacts
<1>8. RpIndex = Len(S[RpSource]) - Len(q) + 1
    BY <1>2 DEF RpIndex
<1>9. RpIndex' = RpIndex + 1
    <2>1. RpIndex' = Len(S[RpSource]) - Len(Tail(q)) + 1
        BY <1>3, <1>5, <1>6 DEF RpIndex
    <2>2. \A l, k \in Nat : l - (k - 1) + 1 = (l - k + 1) + 1
        OBVIOUS
    <2>. QED
        BY <1>2, <1>4, <1>7, <1>8, <2>1, <2>2
<1>10. RpLeft
    BY DEF RpInv
<1>11. RpLeft'
    <2>1. Len(rpTodo) <= Len(S)
          /\ \A j \in 2..Len(rpTodo) : rpTodo[j] = S[RpSource + j - 1]
        BY <1>1, <1>10 DEF RpLeft
    <2>2. /\ Len(q) <= Len(S[RpSource])
          /\ \A i \in 1..Len(q) : q[i] = S[RpSource][RpIndex + i - 1]
        BY <1>1, <1>2, <1>10 DEF RpLeft
    <2>3. Len(Tail(q)) <= Len(S[RpSource])
        BY <1>2, <1>4, <1>7, <2>2
    <2>4. ASSUME NEW i \in 1..Len(Tail(q)) PROVE Tail(q)[i] = S[RpSource][RpIndex + 1 + i - 1]
        <3>1. /\ i \in 1..(Len(q) - 1) /\ i + 1 \in 1..Len(q)
              /\ RpIndex + (i + 1) - 1 = RpIndex + 1 + i - 1
            BY <1>2, <1>4, <1>7
        <3>. QED
            BY <1>4, <2>2, <3>1
    <2>. HIDE DEF S, q
    <2>5. \A j \in 2..Len(rpTodo') : rpTodo'[j] = S[RpSource + j - 1]
        BY <1>5, <2>1
    <2>6. /\ Len(rpTodo'[1]) <= Len(S[RpSource])
          /\ \A i \in 1..Len(rpTodo'[1]) : rpTodo'[1][i] = S[RpSource][RpIndex + 1 + i - 1]
        BY <1>5, <2>3, <2>4
    <2>7. Len(rpTodo') <= Len(S)
        BY <1>5, <2>1
    <2>8. repack!Sources' = S
        BY <1>3 DEF S
    <2>9. rpPhase' \notin {"close", "ok"}
        BY <1>1
    <2>. QED
        BY <1>5, <1>6, <1>9, <2>5, <2>6, <2>7, <2>8, <2>9 DEF RpLeft
<1>12. ASSUME NEW p \in repack!Places
       PROVE  /\ repack!Before(p, <<RpSource, RpIndex + 1>>)
                    <=> repack!Before(p, RpNext) \/ p = RpNext
              /\ ~repack!Before(RpNext, RpNext)
    <2>1. p = <<p[1], p[2]>> /\ p[1] \in Nat /\ p[2] \in Nat
        BY <1>2, RpPlaceFacts
    <2>2. RpSource \in Nat /\ RpIndex \in Nat
        BY <1>2, <1>7
    <2>3. \A a, b, c, d \in Nat : (a < c \/ (a = c /\ b < d + 1))
                                    <=> (a < c \/ (a = c /\ b < d)) \/ (a = c /\ b = d)
        OBVIOUS
    <2>4. RpNext[1] = RpSource /\ RpNext[2] = RpIndex
        BY DEF RpNext
    <2>5. p = RpNext <=> p[1] = RpSource /\ p[2] = RpIndex
        BY <2>1 DEF RpNext
    <2>6. repack!Before(p, <<RpSource, RpIndex + 1>>)
            <=> (p[1] < RpSource \/ (p[1] = RpSource /\ p[2] < RpIndex + 1))
        BY DEF repack!Before
    <2>7. repack!Before(p, RpNext) <=> (p[1] < RpSource \/ (p[1] = RpSource /\ p[2] < RpIndex))
        BY <2>4 DEF repack!Before
    <2>8. ~repack!Before(RpNext, RpNext)
        BY <2>2, <2>4 DEF repack!Before
    <2>. QED
        BY <2>1, <2>2, <2>3, <2>5, <2>6, <2>7, <2>8
<1>13. \A p \in repack!Kept : p \in repack!Places
    BY DEF repack!Kept
<1>14. RpPassed' = {p \in repack!Kept : repack!Before(p, <<RpSource, RpIndex + 1>>)}
    BY <1>3, <1>6, <1>9 DEF RpPassed, RpNext, repack!Before
<1>15. RpPassed' = RpPassed \cup ({RpNext} \cap repack!Kept)
    BY <1>12, <1>13, <1>14 DEF RpPassed
<1>16. RpNext \notin RpPassed
    BY <1>2, <1>12 DEF RpPassed
<1>. QED
    BY <1>11, <1>15, <1>16

\* The next entry is the first of its name if the name was not seen.
LEMMA RpNextFirst ==
    ASSUME RpInv, repack!Packing
    PROVE  /\ RpNext \in repack!Kept <=> ~(repack!Entry.dir /\ rpCall.removeDirs)
           /\ RpNext \in repack!Kept =>
                (RpNext \in repack!Firsts <=> repack!Entry.name \notin rpSeen)
<1>1. RpNext \in repack!Places /\ repack!EntryAt(RpNext) = repack!Entry
    BY RpAtEntry
<1>2. RpNext \in repack!Kept <=> ~(repack!Entry.dir /\ rpCall.removeDirs)
    BY <1>1 DEF repack!Kept
<1>3. rpSeen = {repack!EntryAt(p).name : p \in RpPassed}
    BY DEF RpInv, RpPacked, repack!Packing
<1>4. ASSUME RpNext \in repack!Kept
      PROVE  RpNext \in repack!Firsts <=> \A q \in RpPassed : repack!EntryAt(q).name # repack!Entry.name
    BY <1>1, <1>4 DEF repack!Firsts, RpPassed
<1>. QED
    BY <1>2, <1>3, <1>4

LEMMA RpDoneGrows ==
    ASSUME RpInv, repack!Packing, repack!Step, NEW b \in BOOLEAN
    PROVE  RpDone(b)' = RpDone(b)
              \cup (IF RpNext \in repack!Kept \cap repack!Firsts /\ repack!Entry.match = b
                    THEN {repack!Entry} ELSE {})
<1>1. rpCall' = rpCall
    BY DEF repack!Step
<1>2. RpPassed' = RpPassed \cup ({RpNext} \cap repack!Kept)
    BY RpAdvance
<1>3. repack!EntryAt(RpNext) = repack!Entry
    BY RpAtEntry
<1>4. RpDone(b)' = {repack!EntryAt(p) : p \in {p \in RpPassed' \cap repack!Firsts :
                                                  repack!EntryAt(p).match = b}}
    BY <1>1, RpSame DEF RpDone
<1>. QED
    BY <1>2, <1>3, <1>4 DEF RpDone

\* What the outputs may have is what they do have in the end.
LEMMA RpDoneFirst ==
    ASSUME NEW b \in BOOLEAN
    PROVE  RpDone(b) \subseteq repack!Outputs(b)
BY DEF RpDone, repack!Outputs

LEMMA RpPackedWins ==
    ASSUME RpPacked', rpPhase' \in {"pack", "close", "ok"},
           \A i, j \in DOMAIN rpOut' : rpOut'[i].name = rpOut'[j].name => i = j,
           \A i, j \in DOMAIN rpFiltered' : rpFiltered'[i].name = rpFiltered'[j].name => i = j
    PROVE  repack!FirstWins'
<1>1. /\ repack!Range(rpOut') = RpDone(FALSE)'
      /\ \A e \in repack!Range(rpFiltered') : RpMayBe(e)'
    BY DEF RpPacked, repack!Range
<1>2. RpDone(FALSE)' \subseteq repack!Outputs(FALSE)' /\ RpDone(TRUE)' \subseteq repack!Outputs(TRUE)'
    BY DEF RpDone, repack!Outputs
<1>3. \A e \in repack!Range(rpFiltered') :
          \/ e \in repack!Outputs(TRUE)'
          \/ rpLost' /\ \E o \in repack!Outputs(TRUE)' : e = repack!Cut(o)
    BY <1>1, <1>2 DEF RpMayBe
<1>. QED
    BY <1>1, <1>2, <1>3 DEF repack!FirstWins, repack!Range, repack!Cut

LEMMA RpOnce ==
    ASSUME RpInv
    PROVE  /\ \A i, j \in DOMAIN rpOut : rpOut[i].name = rpOut[j].name => i = j
           /\ \A i, j \in DOMAIN rpFiltered : rpFiltered[i].name = rpFiltered[j].name => i = j
BY DEF RpInv, repack!FirstWins

\* What may be in the filtered output still may be there.
LEMMA RpMayBeStill ==
    ASSUME RpDone(TRUE) \subseteq RpDone(TRUE)', rpLost => rpLost'
    PROVE  \A e : RpMayBe(e) => RpMayBe(e)'
<1>. SUFFICES ASSUME NEW e, RpMayBe(e) PROVE RpMayBe(e)'
    OBVIOUS
<1>1. ASSUME e \in RpDone(TRUE) PROVE RpMayBe(e)'
    BY <1>1 DEF RpMayBe
<1>2. ASSUME rpLost, NEW o \in RpDone(TRUE), e = repack!Cut(o) PROVE RpMayBe(e)'
    <2>1. o \in RpDone(TRUE)' /\ rpLost'
        BY <1>2
    <2>. QED
        BY <1>2, <2>1 DEF RpMayBe
<1>. QED
    BY <1>1, <1>2 DEF RpMayBe

\* Names in the outputs were seen.
LEMMA RpNamesSeen ==
    ASSUME RpInv, rpPhase = "pack"
    PROVE  \A o \in {rpOut, rpFiltered} : \A i \in DOMAIN o : o[i].name \in rpSeen
<1>1. RpPacked
    BY DEF RpInv
<1>2. \A b \in BOOLEAN : \A e \in RpDone(b) : e.name \in rpSeen
    BY <1>1 DEF RpDone, RpPacked
<1>3. ASSUME NEW e, RpMayBe(e) PROVE e.name \in rpSeen
    <2>1. CASE e \in RpDone(TRUE)
        BY <1>2, <2>1
    <2>2. ASSUME NEW o \in RpDone(TRUE), e = repack!Cut(o) PROVE e.name \in rpSeen
        <3>1. e.name = o.name
            BY <2>2 DEF repack!Cut
        <3>. QED
            BY <1>2, <3>1
    <2>. QED
        BY <1>3, <2>1, <2>2 DEF RpMayBe
<1>. QED
    BY <1>1, <1>2, <1>3 DEF RpPacked, repack!Range

\* An entry of a new name behind a sequence.
LEMMA RpAppend ==
    ASSUME NEW o \in Seq(RpEntry), NEW e \in RpEntry,
           \A i, j \in DOMAIN o : o[i].name = o[j].name => i = j,
           \A i \in DOMAIN o : o[i].name # e.name
    PROVE  /\ Append(o, e) \in Seq(RpEntry)
           /\ repack!Range(Append(o, e)) = repack!Range(o) \cup {e}
           /\ \A i, j \in DOMAIN Append(o, e) :
                Append(o, e)[i].name = Append(o, e)[j].name => i = j
<1>. HIDE DEF RpEntry
<1>1. /\ Len(o) \in Nat /\ DOMAIN o = 1..Len(o)
      /\ Append(o, e) \in Seq(RpEntry) /\ DOMAIN Append(o, e) = 1..(Len(o) + 1)
      /\ Append(o, e)[Len(o) + 1] = e
      /\ \A i \in 1..Len(o) : Append(o, e)[i] = o[i]
    BY AppendProperties
<1>2. 1..(Len(o) + 1) = (1..Len(o)) \cup {Len(o) + 1}
    BY <1>1
<1>3. repack!Range(Append(o, e)) = repack!Range(o) \cup {e}
    BY <1>1, <1>2 DEF repack!Range
<1>. QED
    BY <1>1, <1>2, <1>3

LEMMA RpSkip ==
    ASSUME RpInv, repack!Skip
    PROVE  RpInv'
<1>1. /\ repack!Packing /\ repack!Step /\ rpPhase = "pack" /\ rpPhase' = "pack" /\ rpCall' = rpCall
      /\ rpSeen' = rpSeen /\ rpOut' = rpOut /\ rpFiltered' = rpFiltered /\ rpLost' = rpLost
      /\ (repack!Entry.dir /\ rpCall.removeDirs) \/ repack!Entry.name \in rpSeen
    BY DEF repack!Skip, repack!Packing, repack!Step
<1>2. RpNext \notin repack!Kept \cap repack!Firsts
    BY <1>1, RpNextFirst
<1>3. RpDone(TRUE)' = RpDone(TRUE) /\ RpDone(FALSE)' = RpDone(FALSE)
    BY <1>1, <1>2, RpDoneGrows
<1>4. RpLeft' /\ RpPassed' = RpPassed \cup ({RpNext} \cap repack!Kept)
    BY <1>1, RpAdvance
<1>5. rpSeen = {repack!EntryAt(p).name : p \in RpPassed}
    BY <1>1 DEF RpInv, RpPacked
<1>6. rpSeen = {repack!EntryAt(p).name : p \in RpPassed'}
    <2>1. RpNext \in repack!Kept => repack!EntryAt(RpNext).name \in rpSeen
        BY <1>1, RpNextFirst, RpAtEntry
    <2>. QED
        BY <1>4, <1>5, <2>1
<1>7. RpPacked'
    <2>1. rpSeen' = {repack!EntryAt(p)' .name : p \in RpPassed'}
        BY <1>1, <1>6, RpSame
    <2>2. \A e : RpMayBe(e) => RpMayBe(e)'
        BY <1>1, <1>3, RpMayBeStill
    <2>. QED
        BY <1>1, <1>3, <2>1, <2>2 DEF RpInv, RpPacked, repack!Range
<1>. QED
    BY <1>1, <1>4, <1>7, RpFirstWinsSame DEF RpInv, RpTyped, RpFresh

\* An entry that is seen for the first time.
LEMMA RpFreshEntry ==
    ASSUME RpInv, repack!Fresh, repack!See, repack!Step
    PROVE  /\ rpPhase = "pack" /\ rpPhase' = "pack" /\ rpCall' = rpCall
           /\ repack!Entry \in RpEntry /\ repack!Entry.name \notin rpSeen
           /\ RpLeft'
           /\ rpSeen' = {repack!EntryAt(p).name : p \in RpPassed}'
           /\ repack!Entry.match = TRUE =>
                RpDone(TRUE)' = RpDone(TRUE) \cup {repack!Entry} /\ RpDone(FALSE)' = RpDone(FALSE)
           /\ repack!Entry.match = FALSE =>
                RpDone(FALSE)' = RpDone(FALSE) \cup {repack!Entry} /\ RpDone(TRUE)' = RpDone(TRUE)
<1>1. /\ repack!Packing /\ rpPhase = "pack" /\ rpPhase' = "pack" /\ rpCall' = rpCall
      /\ ~(repack!Entry.dir /\ rpCall.removeDirs) /\ repack!Entry.name \notin rpSeen
      /\ rpSeen' = rpSeen \cup {repack!Entry.name}
    BY DEF repack!Fresh, repack!See, repack!Step, repack!Packing
<1>2. RpNext \in repack!Kept /\ RpNext \in repack!Firsts
    BY <1>1, RpNextFirst
<1>3. repack!Entry \in RpEntry /\ repack!EntryAt(RpNext) = repack!Entry
    <2>1. RpTyped /\ RpNext \in repack!Places /\ repack!EntryAt(RpNext) = repack!Entry
        BY <1>1, RpAtEntry
    <2>. HIDE DEF RpEntry
    <2>. QED
        BY <2>1, RpPlaceFacts
<1>4. RpLeft' /\ RpPassed' = RpPassed \cup {RpNext}
    BY <1>1, <1>2, RpAdvance
<1>5. rpSeen' = {repack!EntryAt(p).name : p \in RpPassed'}
    <2>1. rpSeen = {repack!EntryAt(p).name : p \in RpPassed}
        BY <1>1 DEF RpInv, RpPacked
    <2>. QED
        BY <1>1, <1>3, <1>4, <2>1
<1>6. rpSeen' = {repack!EntryAt(p).name : p \in RpPassed}'
    BY <1>1, <1>5, RpSame
<1>7. ASSUME NEW b \in BOOLEAN
      PROVE  RpDone(b)' = RpDone(b) \cup (IF repack!Entry.match = b THEN {repack!Entry} ELSE {})
    BY <1>1, <1>2, RpDoneGrows
<1>8. /\ repack!Entry.match = TRUE =>
           RpDone(TRUE)' = RpDone(TRUE) \cup {repack!Entry} /\ RpDone(FALSE)' = RpDone(FALSE)
      /\ repack!Entry.match = FALSE =>
           RpDone(FALSE)' = RpDone(FALSE) \cup {repack!Entry} /\ RpDone(TRUE)' = RpDone(TRUE)
    BY <1>7
<1>. QED
    BY <1>1, <1>3, <1>4, <1>6, <1>8

LEMMA RpWrite ==
    ASSUME RpInv, repack!Write
    PROVE  RpInv'
<1>. DEFINE e == repack!Entry
<1>1. /\ repack!Fresh /\ repack!See /\ repack!Step /\ ~e.match
      /\ rpOut' = Append(rpOut, e) /\ rpFiltered' = rpFiltered /\ rpLost' = rpLost
    BY DEF repack!Write
<1>2. /\ rpPhase = "pack" /\ rpPhase' = "pack" /\ rpCall' = rpCall
      /\ e \in RpEntry /\ e.name \notin rpSeen /\ RpLeft'
      /\ rpSeen' = {repack!EntryAt(p).name : p \in RpPassed}'
      /\ e.match = FALSE =>
            RpDone(FALSE)' = RpDone(FALSE) \cup {e} /\ RpDone(TRUE)' = RpDone(TRUE)
    BY <1>1, RpFreshEntry
<1>. HIDE DEF e
<1>3. e.match = FALSE
    BY <1>1, <1>2 DEF RpEntry
<1>4. /\ rpOut' \in Seq(RpEntry) /\ repack!Range(rpOut') = repack!Range(rpOut) \cup {e}
      /\ \A i, j \in DOMAIN rpOut' : rpOut'[i].name = rpOut'[j].name => i = j
    <2>1. \A i \in DOMAIN rpOut : rpOut[i].name # e.name
        BY <1>2, RpNamesSeen
    <2>2. \A i, j \in DOMAIN rpOut : rpOut[i].name = rpOut[j].name => i = j
        BY RpOnce
    <2>3. rpOut \in Seq(RpEntry)
        BY DEF RpInv, RpTyped
    <2>. QED
        BY <1>1, <1>2, <2>1, <2>2, <2>3, RpAppend
<1>5. RpPacked'
    <2>1. repack!Range(rpOut)' = RpDone(FALSE)'
        BY <1>2, <1>3, <1>4 DEF RpInv, RpPacked, repack!Range
    <2>2. repack!Range(rpFiltered)' = repack!Range(rpFiltered)
        BY <1>1 DEF repack!Range
    <2>3. \A x : RpMayBe(x) => RpMayBe(x)'
        BY <1>1, <1>2, <1>3, RpMayBeStill
    <2>4. /\ \A x \in repack!Range(rpFiltered) : RpMayBe(x)
          /\ rpCall.filtered /\ ~rpLost => repack!Range(rpFiltered) = RpDone(TRUE)
        BY <1>2 DEF RpInv, RpPacked
    <2>. QED
        BY <1>1, <1>2, <1>3, <2>1, <2>2, <2>3, <2>4 DEF RpPacked
<1>6. repack!FirstWins'
    BY <1>1, <1>2, <1>4, <1>5, RpOnce, RpPackedWins
<1>. QED
    BY <1>1, <1>2, <1>4, <1>5, <1>6 DEF RpInv, RpTyped, RpFresh

LEMMA RpWriteFiltered ==
    ASSUME RpInv, repack!WriteFiltered
    PROVE  RpInv'
<1>. DEFINE e == repack!Entry
<1>1. /\ repack!Fresh /\ repack!See /\ repack!Step /\ e.match
      /\ rpOut' = rpOut /\ rpLost' = rpLost
      /\ rpFiltered' = IF rpCall.filtered THEN Append(rpFiltered, e) ELSE rpFiltered
    BY DEF repack!WriteFiltered
<1>2. /\ rpPhase = "pack" /\ rpPhase' = "pack" /\ rpCall' = rpCall
      /\ e \in RpEntry /\ e.name \notin rpSeen /\ RpLeft'
      /\ rpSeen' = {repack!EntryAt(p).name : p \in RpPassed}'
      /\ e.match = TRUE =>
            RpDone(TRUE)' = RpDone(TRUE) \cup {e} /\ RpDone(FALSE)' = RpDone(FALSE)
    BY <1>1, RpFreshEntry
<1>. HIDE DEF e
<1>3. e.match = TRUE
    BY <1>1, <1>2 DEF RpEntry
<1>4. rpFiltered \in Seq(RpEntry)
      /\ \A i, j \in DOMAIN rpFiltered : rpFiltered[i].name = rpFiltered[j].name => i = j
    BY RpOnce DEF RpInv, RpTyped
<1>5. ASSUME rpCall.filtered
      PROVE  /\ rpFiltered' \in Seq(RpEntry)
             /\ repack!Range(rpFiltered') = repack!Range(rpFiltered) \cup {e}
             /\ \A i, j \in DOMAIN rpFiltered' : rpFiltered'[i].name = rpFiltered'[j].name => i = j
    <2>1. \A i \in DOMAIN rpFiltered : rpFiltered[i].name # e.name
        BY <1>2, RpNamesSeen
    <2>2. rpFiltered' = Append(rpFiltered, e)
        BY <1>1, <1>5
    <2>. QED
        BY <1>2, <1>4, <2>1, <2>2, RpAppend
<1>6. ~rpCall.filtered => rpFiltered' = rpFiltered
    BY <1>1
<1>7. /\ rpFiltered' \in Seq(RpEntry)
      /\ \A i, j \in DOMAIN rpFiltered' : rpFiltered'[i].name = rpFiltered'[j].name => i = j
    BY <1>4, <1>5, <1>6
<1>8. RpPacked'
    <2>1. repack!Range(rpOut)' = RpDone(FALSE)'
        BY <1>1, <1>2, <1>3 DEF RpInv, RpPacked, repack!Range
    <2>2. /\ \A x \in repack!Range(rpFiltered) : RpMayBe(x)
          /\ rpCall.filtered /\ ~rpLost => repack!Range(rpFiltered) = RpDone(TRUE)
        BY <1>2 DEF RpInv, RpPacked
    <2>3. \A x : RpMayBe(x) => RpMayBe(x)'
        <3>1. RpDone(TRUE) \subseteq RpDone(TRUE)'
            BY <1>2, <1>3
        <3>. QED
            BY <1>1, <3>1, RpMayBeStill
    <2>4. \A x : x = e => RpMayBe(x)'
        BY <1>2, <1>3 DEF RpMayBe
    <2>5. /\ \A x \in repack!Range(rpFiltered)' : RpMayBe(x)'
          /\ rpCall.filtered /\ ~rpLost => repack!Range(rpFiltered)' = RpDone(TRUE)'
        <3>1. CASE rpCall.filtered
            <4>1. repack!Range(rpFiltered)' = repack!Range(rpFiltered) \cup {e}
                BY <1>5, <3>1 DEF repack!Range
            <4>. QED
                BY <1>2, <1>3, <2>2, <2>3, <2>4, <4>1
        <3>2. CASE ~rpCall.filtered
            <4>1. repack!Range(rpFiltered)' = repack!Range(rpFiltered)
                BY <1>6, <3>2 DEF repack!Range
            <4>. QED
                BY <1>2, <1>3, <2>2, <2>3, <3>2, <4>1
        <3>. QED
            BY <3>1, <3>2
    <2>. QED
        BY <1>1, <1>2, <2>1, <2>5 DEF RpPacked
<1>9. repack!FirstWins'
    <2>1. \A i, j \in DOMAIN rpOut' : rpOut'[i].name = rpOut'[j].name => i = j
        BY <1>1, RpOnce
    <2>. QED
        BY <1>2, <1>7, <1>8, <2>1, RpPackedWins
<1>. QED
    BY <1>1, <1>2, <1>7, <1>8, <1>9 DEF RpInv, RpTyped, RpFresh

LEMMA RpWriteFilteredFails ==
    ASSUME RpInv, repack!WriteFilteredFails
    PROVE  RpInv'
<1>. DEFINE e == repack!Entry
<1>1. /\ repack!Fresh /\ repack!See /\ repack!Step /\ e.match
      /\ rpOut' = rpOut /\ rpLost' = TRUE
      /\ rpFiltered' \in {rpFiltered, Append(rpFiltered, repack!Cut(e))}
    BY DEF repack!WriteFilteredFails
<1>2. /\ rpPhase = "pack" /\ rpPhase' = "pack" /\ rpCall' = rpCall
      /\ e \in RpEntry /\ e.name \notin rpSeen /\ RpLeft'
      /\ rpSeen' = {repack!EntryAt(p).name : p \in RpPassed}'
      /\ e.match = TRUE =>
            RpDone(TRUE)' = RpDone(TRUE) \cup {e} /\ RpDone(FALSE)' = RpDone(FALSE)
    BY <1>1, RpFreshEntry
<1>. HIDE DEF e
<1>3. e.match = TRUE
    BY <1>1, <1>2 DEF RpEntry
<1>. DEFINE c == repack!Cut(e)
<1>4. c \in RpEntry /\ c.name = e.name
    BY <1>2 DEF RpEntry, repack!Cut
<1>5. /\ rpFiltered \in Seq(RpEntry)
      /\ \A i, j \in DOMAIN rpFiltered : rpFiltered[i].name = rpFiltered[j].name => i = j
    BY RpOnce DEF RpInv, RpTyped
<1>6. ASSUME rpFiltered' = Append(rpFiltered, c)
      PROVE  /\ rpFiltered' \in Seq(RpEntry)
             /\ repack!Range(rpFiltered') = repack!Range(rpFiltered) \cup {c}
             /\ \A i, j \in DOMAIN rpFiltered' : rpFiltered'[i].name = rpFiltered'[j].name => i = j
    <2>. HIDE DEF c
    <2>1. \A i \in DOMAIN rpFiltered : rpFiltered[i].name # c.name
        BY <1>2, <1>4, RpNamesSeen
    <2>. QED
        BY <1>4, <1>5, <1>6, <2>1, RpAppend
<1>7. /\ rpFiltered' \in Seq(RpEntry)
      /\ repack!Range(rpFiltered') \subseteq repack!Range(rpFiltered) \cup {c}
      /\ \A i, j \in DOMAIN rpFiltered' : rpFiltered'[i].name = rpFiltered'[j].name => i = j
    <2>1. CASE rpFiltered' = rpFiltered
        BY <1>5, <2>1
    <2>2. CASE rpFiltered' = Append(rpFiltered, c)
        BY <1>6, <2>2
    <2>. QED
        BY <1>1, <2>1, <2>2
<1>8. RpPacked'
    <2>1. repack!Range(rpOut)' = RpDone(FALSE)'
        BY <1>1, <1>2, <1>3 DEF RpInv, RpPacked, repack!Range
    <2>2. \A x : RpMayBe(x) => RpMayBe(x)'
        <3>1. RpDone(TRUE) \subseteq RpDone(TRUE)'
            BY <1>2, <1>3
        <3>. QED
            BY <1>1, <3>1, RpMayBeStill
    <2>3. ASSUME NEW x, x = c PROVE RpMayBe(x)'
        <3>1. rpLost' /\ e \in RpDone(TRUE)' /\ x = repack!Cut(e)
            BY <1>1, <1>2, <1>3, <2>3
        <3>. HIDE DEF c
        <3>2. PICK o : o = e
            OBVIOUS
        <3>. QED
            BY <3>1, <3>2 DEF RpMayBe
    <2>4. \A x \in repack!Range(rpFiltered) : RpMayBe(x)
        BY <1>2 DEF RpInv, RpPacked
    <2>5. \A x \in repack!Range(rpFiltered)' : RpMayBe(x)'
        <3>1. repack!Range(rpFiltered)' = repack!Range(rpFiltered')
            BY DEF repack!Range
        <3>. HIDE DEF c
        <3>. QED
            BY <1>7, <2>2, <2>3, <2>4, <3>1
    <2>. QED
        BY <1>1, <1>2, <2>1, <2>5 DEF RpPacked
<1>9. repack!FirstWins'
    <2>1. \A i, j \in DOMAIN rpOut' : rpOut'[i].name = rpOut'[j].name => i = j
        BY <1>1, RpOnce
    <2>. QED
        BY <1>2, <1>7, <1>8, <2>1, RpPackedWins
<1>. QED
    BY <1>1, <1>2, <1>7, <1>8, <1>9 DEF RpInv, RpTyped, RpFresh

\* Behind the last entry of a source comes the first one of the next.
LEMMA RpSourceDone ==
    ASSUME RpInv, repack!SourceDone
    PROVE  RpInv'
<1>1. /\ rpPhase = "pack" /\ rpTodo # << >> /\ rpTodo[1] = << >> /\ rpTodo' = Tail(rpTodo)
      /\ rpPhase' = "pack" /\ rpCall' = rpCall
      /\ rpSeen' = rpSeen /\ rpOut' = rpOut /\ rpFiltered' = rpFiltered /\ rpLost' = rpLost
    BY DEF repack!SourceDone
<1>. DEFINE S == repack!Sources
<1>2. S' = S /\ RpTyped
    BY <1>1, RpSame DEF RpInv
<1>3. /\ Len(S) \in Nat /\ DOMAIN S = 1..Len(S)
      /\ \A s \in DOMAIN S : Len(S[s]) \in Nat /\ DOMAIN S[s] = 1..Len(S[s])
    BY <1>2, RpCallFacts
<1>4. /\ rpTodo \in Seq(Seq(RpEntry)) /\ Len(rpTodo) <= Len(S)
      /\ \A j \in 2..Len(rpTodo) : rpTodo[j] = S[RpSource + j - 1]
      /\ Len(rpTodo[1]) <= Len(S[RpSource])
    BY <1>1 DEF RpInv, RpLeft
<1>. HIDE DEF S
<1>5. /\ Len(rpTodo) \in Nat /\ Len(rpTodo) > 0
      /\ rpTodo' \in Seq(Seq(RpEntry)) /\ Len(rpTodo') = Len(rpTodo) - 1
      /\ \A j \in 1..(Len(rpTodo) - 1) : rpTodo'[j] = rpTodo[j + 1]
    BY <1>1, <1>4
<1>6. RpSource = Len(S) - Len(rpTodo) + 1
    BY DEF RpSource, S
<1>7. RpSource \in DOMAIN S /\ RpSource \in Nat
    <2>1. \A l, k \in Nat : k > 0 /\ k <= l => l - k + 1 \in 1..l
        OBVIOUS
    <2>. QED
        BY <1>3, <1>4, <1>5, <1>6, <2>1
<1>8. RpSource' = RpSource + 1
    <2>1. RpSource' = Len(S) - (Len(rpTodo) - 1) + 1
        BY <1>2, <1>5 DEF RpSource, S
    <2>2. \A l, k \in Nat : l - (k - 1) + 1 = (l - k + 1) + 1
        OBVIOUS
    <2>. QED
        BY <1>3, <1>5, <1>6, <2>1, <2>2
<1>9. RpIndex = Len(S[RpSource]) + 1
    <2>1. RpIndex = Len(S[RpSource]) - Len(rpTodo[1]) + 1 /\ Len(rpTodo[1]) = 0
        BY <1>1 DEF RpIndex, S
    <2>. QED
        BY <1>3, <1>7, <2>1
<1>10. ASSUME rpTodo' # << >>
       PROVE  rpTodo'[1] = S[RpSource + 1] /\ RpSource + 1 \in DOMAIN S
    <2>1. 1 \in 1..(Len(rpTodo) - 1) /\ 2 \in 2..Len(rpTodo)
        BY <1>5, <1>10
    <2>2. rpTodo'[1] = rpTodo[2] /\ RpSource + 2 - 1 = RpSource + 1
        BY <1>5, <1>7, <2>1
    <2>3. \A l, k \in Nat : k <= l /\ 2 <= k => (l - k + 1) + 1 \in 1..l
        OBVIOUS
    <2>. QED
        BY <1>3, <1>4, <1>5, <1>6, <2>1, <2>2, <2>3
<1>11. RpIndex' = 1
    <2>1. CASE rpTodo' = << >>
        BY <2>1 DEF RpIndex
    <2>2. CASE rpTodo' # << >>
        <3>1. RpIndex' = Len(S[RpSource + 1]) - Len(S[RpSource + 1]) + 1
            BY <1>2, <1>8, <1>10, <2>2 DEF RpIndex, S
        <3>. QED
            BY <1>3, <1>10, <2>2, <3>1
    <2>. QED
        BY <2>1, <2>2
<1>12. RpLeft'
    <2>1. Len(rpTodo') <= Len(S)
        BY <1>3, <1>4, <1>5
    <2>2. ASSUME NEW j \in 2..Len(rpTodo') PROVE rpTodo'[j] = S[(RpSource + 1) + j - 1]
        <3>1. j \in 1..(Len(rpTodo) - 1) /\ j + 1 \in 2..Len(rpTodo)
              /\ RpSource + (j + 1) - 1 = (RpSource + 1) + j - 1
            BY <1>5, <1>7
        <3>. QED
            BY <1>4, <1>5, <3>1
    <2>3. ASSUME rpTodo' # << >>
          PROVE  /\ Len(rpTodo'[1]) <= Len(S[RpSource + 1])
                 /\ \A i \in 1..Len(rpTodo'[1]) : rpTodo'[1][i] = S[RpSource + 1][1 + i - 1]
        <3>1. rpTodo'[1] = S[RpSource + 1] /\ Len(S[RpSource + 1]) \in Nat
            BY <1>3, <1>10, <2>3
        <3>2. \A i \in 1..Len(S[RpSource + 1]) : 1 + i - 1 = i
            BY <3>1
        <3>. QED
            BY <3>1, <3>2
    <2>4. repack!Sources' = S /\ rpPhase' \notin {"close", "ok"}
        BY <1>1, <1>2 DEF S
    <2>. QED
        BY <1>5, <1>8, <1>11, <2>1, <2>2, <2>3, <2>4 DEF RpLeft
<1>13. ASSUME NEW p \in repack!Kept
       PROVE  repack!Before(p, <<RpSource + 1, 1>>)
                <=> repack!Before(p, <<RpSource, Len(S[RpSource]) + 1>>)
    <2>1. /\ p[1] \in Nat /\ p[2] \in Nat /\ p[1] \in DOMAIN S /\ p[2] \in 1..Len(S[p[1]])
        BY <1>2, RpPlaceFacts DEF repack!Kept, S
    <2>2. p[1] = RpSource => p[2] < Len(S[RpSource]) + 1
        BY <1>3, <1>7, <2>1
    <2>3. ~(p[2] < 1)
        BY <2>1
    <2>4. \A a, b \in Nat : a < b + 1 <=> a < b \/ a = b
        OBVIOUS
    <2>. QED
        BY <1>7, <2>1, <2>2, <2>3, <2>4 DEF repack!Before
<1>14. RpPassed' = RpPassed
    <2>1. RpPassed' = {p \in repack!Kept : repack!Before(p, <<RpSource + 1, 1>>)}
        BY <1>1, <1>8, <1>11, RpSame DEF RpPassed, RpNext, repack!Before
    <2>. QED
        BY <1>9, <1>13, <2>1 DEF RpPassed, RpNext
<1>15. RpDone(TRUE)' = RpDone(TRUE) /\ RpDone(FALSE)' = RpDone(FALSE)
    BY <1>1, <1>14, RpSame DEF RpDone
<1>16. RpPacked'
    <2>1. {repack!EntryAt(p).name : p \in RpPassed}' = {repack!EntryAt(p).name : p \in RpPassed}
        BY <1>1, <1>14, RpSame
    <2>2. \A e : RpMayBe(e) => RpMayBe(e)'
        BY <1>1, <1>15, RpMayBeStill
    <2>. QED
        BY <1>1, <1>15, <2>1, <2>2 DEF RpInv, RpPacked, repack!Range
<1>. QED
    BY <1>1, <1>12, <1>16, RpFirstWinsSame DEF RpInv, RpTyped, RpFresh

\* The other steps change neither the sources nor what was packed.
LEMMA RpOthers ==
    ASSUME RpInv, repack!Fatal \/ repack!Packed \/ repack!Close \/ UNCHANGED rpVars
    PROVE  RpInv'
<1>1. /\ rpCall' = rpCall /\ rpTodo' = rpTodo /\ rpSeen' = rpSeen /\ rpOut' = rpOut
      /\ rpFiltered' = rpFiltered
    BY DEF repack!Fatal, repack!Packed, repack!Close, rpVars
<1>2. rpLost' \in BOOLEAN /\ (~rpLost' => ~rpLost)
    BY RpCallFacts DEF RpInv, RpTyped, repack!Fatal, repack!Packed, repack!Close, rpVars
<1>3. /\ rpPhase' \in {"idle", "start", "pack", "close", "ok", "error"}
      /\ rpPhase' \in {"idle", "start"} => rpPhase = rpPhase' /\ rpLost' = rpLost
      /\ rpPhase' \in {"pack", "close", "ok"} => rpPhase \in {"pack", "close", "ok"}
      /\ rpPhase' \in {"close", "ok"} => rpPhase \in {"close", "ok"} \/ rpTodo = << >>
    BY DEF RpInv, RpTyped, repack!Fatal, repack!Packed, repack!Close, rpVars
<1>4. RpTyped' /\ RpFresh'
    BY <1>1, <1>2, <1>3 DEF RpInv, RpTyped, RpFresh
<1>5. RpLeft'
    BY <1>1, <1>3, RpSame, RpNextSame DEF RpInv, RpLeft
<1>6. RpPacked'
    <2>1. {repack!EntryAt(p).name : p \in RpPassed}' = {repack!EntryAt(p).name : p \in RpPassed}
        BY <1>1, RpSame, RpNextSame
    <2>2. \A e : RpMayBe(e) => RpMayBe(e)'
        BY <1>1, <1>2, RpNextSame, RpMayBeStill
    <2>. QED
        BY <1>1, <1>2, <1>3, <2>1, <2>2, RpNextSame DEF RpInv, RpPacked, repack!Range
<1>. QED
    BY <1>1, <1>2, <1>4, <1>5, <1>6, RpFirstWinsSame DEF RpInv

LEMMA RpInductive == RpInv /\ [repack!Next]_rpVars => RpInv'
BY RpStart, RpRun, RpSkip, RpWrite, RpWriteFiltered, RpWriteFilteredFails, RpSourceDone, RpOthers
   DEF repack!Next

\* In the end every entry was passed.
LEMMA RpImplies == RpInv => Repacked
<1>. SUFFICES ASSUME RpInv, rpPhase = "ok"
              PROVE  /\ repack!Range(rpOut) = repack!Outputs(FALSE)
                     /\ rpCall.filtered /\ ~rpLost => repack!Range(rpFiltered) = repack!Outputs(TRUE)
    BY DEF RpInv, Repacked, repack!NothingLost
<1>1. rpTodo = << >> /\ RpTyped
    BY DEF RpInv, RpLeft
<1>2. RpSource = Len(repack!Sources) + 1
    BY <1>1, RpCallFacts DEF RpSource
<1>3. ASSUME NEW p \in repack!Kept PROVE p \in RpPassed
    <2>1. p[1] \in 1..Len(repack!Sources) /\ Len(repack!Sources) \in Nat
        BY <1>1, RpPlaceFacts, RpCallFacts DEF repack!Kept
    <2>2. p[1] < RpNext[1]
        BY <1>2, <2>1 DEF RpNext
    <2>. QED
        BY <2>2 DEF RpPassed, repack!Before
<1>4. RpDone(TRUE) = repack!Outputs(TRUE) /\ RpDone(FALSE) = repack!Outputs(FALSE)
    <2>1. RpPassed \cap repack!Firsts = repack!Firsts
        BY <1>3 DEF repack!Firsts
    <2>. QED
        BY <2>1 DEF RpDone, repack!Outputs
<1>. QED
    BY <1>4 DEF RpInv, RpPacked

\* For any sources: each output of repack has a name once, with the body of the first source
\* that has it, and on success every name that is to be packed; filtered files may be cut or
\* missing only if an error of their output was lost.
THEOREM AllRepacked == FairSpec => []Repacked
BY RpInitial, RpSteps, RpInductive, RpImplies, PTL DEF FairSpec

-----------------------------------------------------------------------------
(* flagfile.go: the values of the flags are determined by the file *)

LEMMA FfSteps == [Next]_vars => [flagfile!Next]_ffVars
BY DEF Next, vars, runCmd, RunFinalrjar, RunGeneratemanifest, RunDex, RunExtractaar,
       RunRepack, RunRjar, RunNativelib, RunShellapk, RunPatch, RunManifest, RunCompile,
       RunLink, RunFlagfile, RunBucketize, RunSession, ArchiveReturns

FfLine(i) == ffCall.lines[i]
FfCount == Len(ffCall.lines)
\* The flags of the first n lines, and those of one name.
FfFlags(n) == {i \in flagfile!FlagLines : i <= n}
FfNamed(n, k) == {i \in FfFlags(n) : FfLine(i).key = k}
FfLatest(i, S) == i \in S /\ \A j \in S : j <= i
FfMapped(n) ==
    /\ DOMAIN ffMap = {FfLine(i).key : i \in FfFlags(n)}
    /\ \A k \in DOMAIN ffMap :
         \E i \in FfNamed(n, k) : FfLatest(i, FfNamed(n, k)) /\ ffMap[k] = flagfile!ValueOf(i)

FfTyped ==
    /\ ffCall \in FlagFiles \cup {flagfile!NoCall}
    /\ ffPhase \in {"idle", "parse", "set", "ok", "error", "panic"}
    /\ ffAt \in Nat /\ ffAt <= FfCount
    /\ ffPhase # "idle" => ffCall \in FlagFiles
FfBegins == ffPhase = "idle" => ffAt = 0 /\ ffMap = << >>
\* A parser between two lines has all the flags before, and does not stand before a value.
FfParsing ==
    /\ ffPhase = "parse" => /\ FfMapped(ffAt)
                            /\ ffAt < FfCount => flagfile!IsValue[ffAt + 1] = FALSE
    /\ ffPhase \in {"idle", "parse", "error"} => ffFlags = << >>
FfHasReason ==
    ffCall.readFails \/ \E i \in flagfile!FlagLines : ~flagfile!IsFlag(FfLine(i))
\* The flags that are no longer to do are set.
FfNested == IF flagfile!Own \in DOMAIN ffMap /\ ffCall.nested.outcome = "ok" THEN ffCall.nested.map
            ELSE << >>
FfFrom(flags) ==
    \A k \in DOMAIN flags :
        \/ k \in DOMAIN ffMap \ {flagfile!Own} /\ flags[k] = Taken(k, ffMap[k])
        \/ k \in DOMAIN FfNested /\ flags[k] = Taken(k, FfNested[k])
FfSetting ==
    ffPhase \in {"set", "ok"} =>
        /\ FfMapped(FfCount)
        /\ ffTodo \subseteq DOMAIN ffMap
        /\ DOMAIN ffFlags = ((DOMAIN ffMap \ ({flagfile!Own} \cup ffTodo))
                               \cup (IF flagfile!Own \in ffTodo THEN {} ELSE DOMAIN FfNested)) \cap Known
        /\ FfFrom(ffFlags)
        /\ ffPhase = "ok" => ffTodo = {}
\* What was set when another flag file panics is as it is to be.
FfNestedPanics ==
    /\ FfMapped(FfCount) /\ flagfile!Own \in DOMAIN ffMap /\ ffCall.nested.outcome = "panic"
    /\ DOMAIN ffFlags \subseteq Known /\ FfFrom(ffFlags)
FfFailed ==
    ffPhase \in {"error", "panic"} =>
        (ffFlags = << >> /\ FfHasReason) \/ (ffPhase = "panic" /\ FfNestedPanics)

FfInv == FfTyped /\ FfBegins /\ FfParsing /\ FfFailed /\ FfSetting

USE DEF flagfile!vars

LEMMA FfCallFacts ==
    ASSUME FfTyped
    PROVE  /\ FfCount \in Nat /\ DOMAIN ffCall.lines = 1..FfCount
           /\ \A i \in 1..FfCount :
                flagfile!Blank(FfLine(i)) => /\ ~flagfile!IsFlag(FfLine(i))
                                             /\ FfLine(i).quote # "lone"
<1>1. CASE ffCall \in FlagFiles
    <2>1. /\ Len(ffCall.lines) \in Nat /\ DOMAIN ffCall.lines = 1..Len(ffCall.lines)
          /\ \A i \in DOMAIN ffCall.lines :
                ffCall.lines[i].text = "" => ffCall.lines[i].dashes = 0 /\ ffCall.lines[i].quote = "none"
        BY <1>1, FlagFilesAssumption
    <2>2. ASSUME NEW i \in 1..FfCount, flagfile!Blank(FfLine(i))
          PROVE  ~flagfile!IsFlag(FfLine(i)) /\ FfLine(i).quote # "lone"
        <3>1. FfLine(i).dashes = 0 /\ FfLine(i).quote = "none"
            BY <2>1, <2>2 DEF FfCount, FfLine, flagfile!Blank
        <3>. QED
            BY <3>1 DEF flagfile!IsFlag
    <2>. QED
        BY <2>1, <2>2 DEF FfCount
<1>2. CASE ffCall = flagfile!NoCall /\ ffPhase = "idle"
    <2>1. ffCall.lines = << >>
        BY <1>2 DEF flagfile!NoCall
    <2>2. FfCount = 0 /\ DOMAIN ffCall.lines = {} /\ 1..0 = {}
        BY <2>1 DEF FfCount
    <2>. QED
        BY <1>2, <2>2
<1>. QED
    BY <1>1, <1>2 DEF FfTyped

\* A line is a value if the flag before has none and it does not look like a flag itself.
FfFollows(i) ==
    /\ i > 1 /\ ~flagfile!LooksLikeFlag(FfLine(i))
    /\ flagfile!IsFlag(FfLine(i - 1)) /\ FfLine(i - 1).value = NoValue

FfValued ==
    /\ \A i \in 1..FfCount : flagfile!IsValue[i] \in BOOLEAN
    /\ \A i \in 1..FfCount : flagfile!IsValue[i] <=> FfFollows(i) /\ ~flagfile!IsValue[i - 1]

LEMMA FfValues == FfTyped => FfValued
<1>. SUFFICES ASSUME FfTyped PROVE FfValued
    OBVIOUS
<1>. DEFINE n == FfCount
            step == [kv \in (1..n) \X BOOLEAN |-> FfFollows(kv[1]) /\ ~kv[2]]
            Def(g) == [i \in DOMAIN ffCall.lines |->
                          /\ i > 1 /\ ~flagfile!LooksLikeFlag(ffCall.lines[i])
                          /\ flagfile!IsFlag(ffCall.lines[i - 1]) /\ ffCall.lines[i - 1].value = NoValue
                          /\ ~g[i - 1]]
<1>1. n \in Nat /\ DOMAIN ffCall.lines = 1..n
    BY FfCallFacts
<1>. HIDE DEF n
<1>2. ASSUME NEW k \in 1..n, NEW v \in BOOLEAN
      PROVE  step[<<k, v>>] = (FfFollows(k) /\ ~v) /\ step[<<k, v>>] \in BOOLEAN
    <2>1. <<k, v>> \in (1..n) \X BOOLEAN
        OBVIOUS
    <2>. QED
        BY <2>1 DEF FfFollows
<1>. HIDE DEF step
<1>3. PICK f : Recursive(f, n, BOOLEAN, FALSE, step)
    <2>1. Steps(n, BOOLEAN, step)
        BY <1>2 DEF Steps
    <2>. QED
        BY <1>1, <2>1, PrimitiveRecursion
<1>. DEFINE h == [i \in 1..n |-> f[i]]
<1>4. ASSUME NEW i \in 1..n PROVE f[i] = (FfFollows(i) /\ ~f[i - 1])
    <2>1. i - 1 \in 0..n
        BY <1>1
    <2>2. f[i - 1] \in BOOLEAN /\ f[i] = step[<<i, f[i - 1]>>]
        BY <1>3, <2>1 DEF Recursive
    <2>. QED
        BY <1>2, <2>2
<1>5. ASSUME NEW i \in 1..n PROVE h[i] = (FfFollows(i) /\ ~h[i - 1])
    <2>1. h[i] = (FfFollows(i) /\ ~f[i - 1])
        BY <1>4
    <2>2. CASE i > 1
        <3>1. i - 1 \in 1..n
            BY <1>1, <2>2
        <3>2. h[i - 1] = f[i - 1]
            BY <3>1
        <3>. QED
            BY <2>1, <3>2
    <2>3. CASE ~(i > 1)
        BY <2>1, <2>3 DEF FfFollows
    <2>. QED
        BY <2>2, <2>3
<1>6. h = [i \in 1..n |-> FfFollows(i) /\ ~h[i - 1]]
    <2>. HIDE DEF FfFollows
    <2>1. h = [i \in 1..n |-> h[i]]
        OBVIOUS
    <2>. HIDE DEF h
    <2>. QED
        BY <1>5, <2>1
<1>7. h = Def(h)
    BY <1>1, <1>6 DEF FfFollows, FfLine
<1>. HIDE DEF h, Def
<1>8. flagfile!IsValue = Def(flagfile!IsValue)
    BY <1>7 DEF flagfile!IsValue, Def
<1>9. flagfile!IsValue = [i \in 1..n |-> FfFollows(i) /\ ~flagfile!IsValue[i - 1]]
    BY <1>1, <1>8 DEF Def, FfFollows, FfLine
<1>10. ASSUME NEW i \in 1..n
       PROVE  flagfile!IsValue[i] = (FfFollows(i) /\ ~flagfile!IsValue[i - 1])
    <2>. HIDE DEF FfFollows
    <2>. QED
        BY <1>9, Zenon
<1>. QED
    BY <1>10 DEF n, FfFollows, FfValued

\* The lines and what they are stay as they are while the call does.
LEMMA FfSame ==
    ASSUME ffCall' = ffCall
    PROVE  /\ flagfile!IsValue' = flagfile!IsValue
           /\ flagfile!FlagLines' = flagfile!FlagLines
           /\ \A i : flagfile!ValueOf(i)' = flagfile!ValueOf(i)
<1>1. flagfile!IsValue' = flagfile!IsValue
    BY DEF flagfile!IsValue
<1>. QED
    BY <1>1 DEF flagfile!FlagLines, flagfile!ValueOf, flagfile!Blank

\* A line that is read as a flag is one.
LEMMA FfReads ==
    ASSUME FfInv, flagfile!Parsing, ~flagfile!Blank(flagfile!Line)
    PROVE  /\ ffAt + 1 \in 1..FfCount /\ ffAt + 1 \in flagfile!FlagLines
           /\ flagfile!Line = FfLine(ffAt + 1) /\ FfMapped(ffAt)
           /\ flagfile!IsValue[ffAt + 1] = FALSE
<1>1. ffAt \in Nat /\ ffAt < FfCount /\ ffPhase = "parse" /\ FfCount \in Nat
    BY FfCallFacts DEF FfInv, FfTyped, flagfile!Parsing, FfCount
<1>2. ffAt + 1 \in 1..FfCount /\ ffAt + 1 \in DOMAIN ffCall.lines
    BY <1>1, FfCallFacts DEF FfInv
<1>3. flagfile!IsValue[ffAt + 1] = FALSE /\ FfMapped(ffAt)
    BY <1>1 DEF FfInv, FfParsing
<1>. QED
    BY <1>2, <1>3 DEF flagfile!FlagLines, flagfile!Line, FfLine

\* A flag that is read is put over the ones before.
LEMMA FfAdds ==
    ASSUME FfTyped, ffCall' = ffCall, NEW i \in 1..FfCount, FfMapped(i - 1),
           i \in flagfile!FlagLines,
           ffMap' = flagfile!Over(ffMap, flagfile!One(FfLine(i).key, flagfile!ValueOf(i))),
           NEW n \in i..FfCount, \A j \in (i + 1)..n : j \notin flagfile!FlagLines
    PROVE  FfMapped(n)'
<1>1. /\ FfCount \in Nat /\ DOMAIN ffCall.lines = 1..FfCount
      /\ flagfile!FlagLines \subseteq 1..FfCount
    BY FfCallFacts DEF flagfile!FlagLines
<1>. DEFINE K == FfLine(i).key
            V(j) == flagfile!ValueOf(j)
<1>2. FfFlags(n) = FfFlags(i - 1) \cup {i}
    <2>1. \A j \in 1..FfCount : j <= n <=> (j <= i - 1 \/ j = i \/ j \in (i + 1)..n)
        BY <1>1
    <2>. QED
        BY <1>1, <2>1 DEF FfFlags
<1>3. \A k : /\ k # K => FfNamed(n, k) = FfNamed(i - 1, k)
             /\ k = K => i \in FfNamed(n, k)
    BY <1>2 DEF FfNamed
<1>4. \A k : \A j \in FfNamed(n, k) : j <= i
    BY <1>1, <1>2 DEF FfNamed, FfFlags
<1>. DEFINE Mapped(mp) ==
        /\ DOMAIN mp = {FfLine(j).key : j \in FfFlags(n)}
        /\ \A k \in DOMAIN mp : \E j \in FfNamed(n, k) : FfLatest(j, FfNamed(n, k)) /\ mp[k] = V(j)
<1>5. /\ DOMAIN ffMap' = DOMAIN ffMap \cup {K}
      /\ \A k \in DOMAIN ffMap' : ffMap'[k] = IF k = K THEN V(i) ELSE ffMap[k]
    BY DEF flagfile!Over, flagfile!One
<1>. HIDE DEF V
<1>6. Mapped(ffMap')
    <2>1. DOMAIN ffMap' = {FfLine(j).key : j \in FfFlags(n)}
        BY <1>2, <1>5 DEF FfMapped
    <2>2. ASSUME NEW k \in DOMAIN ffMap'
          PROVE  \E j \in FfNamed(n, k) : FfLatest(j, FfNamed(n, k)) /\ ffMap'[k] = V(j)
        <3>1. CASE k = K
            BY <1>3, <1>4, <1>5, <3>1 DEF FfLatest
        <3>2. CASE k # K
            <4>1. k \in DOMAIN ffMap /\ ffMap'[k] = ffMap[k]
                BY <1>5, <3>2
            <4>2. \E j \in FfNamed(i - 1, k) : FfLatest(j, FfNamed(i - 1, k)) /\ ffMap[k] = V(j)
                BY <4>1 DEF FfMapped, V
            <4>. QED
                BY <1>3, <3>2, <4>1, <4>2
        <3>. QED
            BY <3>1, <3>2
    <2>. QED
        BY <2>1, <2>2
<1>7. flagfile!FlagLines' = flagfile!FlagLines /\ \A j : flagfile!ValueOf(j)' = V(j)
    BY FfSame DEF V
<1>. QED
    BY <1>6, <1>7 DEF FfMapped, FfNamed, FfFlags, FfLine, FfLatest

\* Lines without a flag change nothing.
LEMMA FfKeeps ==
    ASSUME FfTyped, ffCall' = ffCall, ffMap' = ffMap, NEW n \in 0..FfCount, NEW m \in n..FfCount,
           FfMapped(n), \A j \in (n + 1)..m : j \notin flagfile!FlagLines
    PROVE  FfMapped(m)'
<1>1. /\ FfCount \in Nat /\ DOMAIN ffCall.lines = 1..FfCount
      /\ flagfile!FlagLines \subseteq 1..FfCount
    BY FfCallFacts DEF flagfile!FlagLines
<1>2. FfFlags(m) = FfFlags(n)
    <2>1. \A j \in 1..FfCount : j <= m <=> (j <= n \/ j \in (n + 1)..m)
        BY <1>1
    <2>. QED
        BY <1>1, <2>1 DEF FfFlags
<1>3. \A k : FfNamed(m, k) = FfNamed(n, k)
    BY <1>2 DEF FfNamed
<1>. HIDE DEF FfNamed, FfFlags
<1>4. FfMapped(m)
    BY <1>2, <1>3 DEF FfMapped
<1>5. flagfile!FlagLines' = flagfile!FlagLines /\ \A j : flagfile!ValueOf(j)' = flagfile!ValueOf(j)
    BY FfSame
<1>6. FfFlags(m)' = FfFlags(m) /\ \A k : FfNamed(m, k)' = FfNamed(m, k)
    BY <1>5 DEF FfFlags, FfNamed, FfLine
<1>7. \A j : FfLine(j)' = FfLine(j)
    BY DEF FfLine
<1>. QED
    BY <1>4, <1>5, <1>6, <1>7 DEF FfMapped, FfLatest

LEMMA FfInitial == Init => FfInv
<1>. SUFFICES ASSUME Init PROVE FfInv
    OBVIOUS
<1>1. /\ ffCall = flagfile!NoCall /\ ffPhase = "idle" /\ ffAt = 0 /\ ffMap = << >>
      /\ ffTodo = {} /\ ffFlags = << >>
    BY DEF Init, flagfile!Init
<1>2. FfCount = 0
    BY <1>1 DEF FfCount, flagfile!NoCall
<1>. QED
    BY <1>1, <1>2 DEF FfInv, FfTyped, FfBegins, FfParsing, FfFailed, FfSetting

LEMMA FfRun ==
    ASSUME FfInv, flagfile!Run
    PROVE  FfInv'
<1>1. /\ ffPhase = "idle" /\ ffPhase' = "parse" /\ ffCall' \in FlagFiles
      /\ ffAt' = ffAt /\ ffMap' = ffMap /\ ffTodo' = ffTodo /\ ffFlags' = ffFlags
      /\ ffAt = 0 /\ ffMap = << >> /\ ffFlags = << >>
    BY DEF flagfile!Run, FfInv, FfBegins, FfParsing
<1>2. Len(ffCall'.lines) \in Nat /\ DOMAIN ffCall'.lines = 1..Len(ffCall'.lines)
    BY <1>1, FlagFilesAssumption
<1>3. FfTyped'
    BY <1>1, <1>2 DEF FfTyped, FfCount
<1>4. FfMapped(ffAt)'
    <2>1. FfFlags(ffAt)' = {}
        BY <1>1, <1>2 DEF FfFlags, flagfile!FlagLines
    <2>2. DOMAIN ffMap' = {}
        BY <1>1
    <2>. QED
        BY <2>1, <2>2 DEF FfMapped
<1>5. (ffAt < FfCount => flagfile!IsValue[ffAt + 1] = FALSE)'
    <2>. SUFFICES ASSUME (ffAt < FfCount)' PROVE (flagfile!IsValue[ffAt + 1] = FALSE)'
        OBVIOUS
    <2>1. ffAt' + 1 = 1 /\ 1 \in DOMAIN ffCall'.lines
        BY <1>1, <1>2 DEF FfCount
    <2>2. FfValued'
        BY <1>3, FfValues, PTL
    <2>. QED
        BY <1>2, <2>1, <2>2 DEF FfValued, FfFollows, FfCount
<1>. QED
    BY <1>1, <1>3, <1>4, <1>5 DEF FfInv, FfBegins, FfParsing, FfFailed, FfSetting

\* A parser that goes on between two lines has the flags before.
LEMMA FfParses ==
    ASSUME FfInv, ffPhase = "parse", ffCall' = ffCall, ffPhase' = "parse", ffFlags' = ffFlags,
           NEW n \in 0..FfCount, ffAt' = n, FfMapped(n)',
           n < FfCount => flagfile!IsValue[n + 1] = FALSE
    PROVE  FfInv'
<1>1. FfCount' = FfCount /\ FfCount \in Nat
    BY FfCallFacts DEF FfCount, FfInv
<1>2. FfTyped'
    BY <1>1 DEF FfInv, FfTyped
<1>3. FfMapped(ffAt)'
    BY DEF FfMapped, FfNamed, FfFlags
<1>4. (ffAt < FfCount => flagfile!IsValue[ffAt + 1] = FALSE)'
    <2>1. flagfile!IsValue' = flagfile!IsValue
        BY FfSame
    <2>. QED
        BY <1>1, <2>1
<1>5. ffFlags' = << >>
    BY DEF FfInv, FfParsing
<1>. QED
    BY <1>2, <1>3, <1>4, <1>5 DEF FfInv, FfBegins, FfParsing, FfFailed, FfSetting

LEMMA FfSkipBlank ==
    ASSUME FfInv, flagfile!SkipBlank
    PROVE  FfInv'
<1>1. /\ ffPhase = "parse" /\ ffAt < FfCount /\ ffAt' = ffAt + 1 /\ ffPhase' = ffPhase
      /\ ffCall' = ffCall /\ ffMap' = ffMap /\ ffFlags' = ffFlags
    BY DEF flagfile!SkipBlank, flagfile!Parsing, FfCount
<1>2. PICK n \in Nat : n = ffAt
    BY DEF FfInv, FfTyped
<1>3. /\ FfCount \in Nat /\ DOMAIN ffCall.lines = 1..FfCount
      /\ n \in 0..FfCount /\ n + 1 \in 1..FfCount /\ n + 1 \in n..FfCount /\ n + 1 \in 0..FfCount
      /\ \A j \in (n + 1)..(n + 1) : j = n + 1
      /\ n + 1 < FfCount => n + 2 \in 1..FfCount
      /\ (n + 1) + 1 = n + 2 /\ (n + 2) - 1 = n + 1
    BY <1>1, <1>2, FfCallFacts DEF FfInv, FfTyped
<1>4. flagfile!Blank(FfLine(n + 1)) /\ ~flagfile!IsFlag(FfLine(n + 1))
    <2>1. flagfile!Blank(FfLine(n + 1))
        BY <1>2 DEF flagfile!SkipBlank, flagfile!Line, FfLine
    <2>. QED
        BY <1>3, <2>1, FfCallFacts DEF FfInv
<1>5. \A j \in (n + 1)..(n + 1) : j \notin flagfile!FlagLines
    BY <1>3, <1>4 DEF flagfile!FlagLines, FfLine
<1>6. FfMapped(n)
    BY <1>1, <1>2 DEF FfInv, FfParsing
<1>7. FfMapped(n + 1)'
    BY <1>1, <1>3, <1>5, <1>6, FfKeeps DEF FfInv
<1>8. n + 1 < FfCount => flagfile!IsValue[(n + 1) + 1] = FALSE
    BY <1>3, <1>4, FfValues DEF FfInv, FfValued, FfFollows
<1>. QED
    BY <1>1, <1>2, <1>3, <1>7, <1>8, FfParses DEF FfInv

\* A line that is read as a flag, and the value it gets: then the map has one more.
LEMMA FfSetKeys ==
    ASSUME FfInv, flagfile!SetKey \/ flagfile!SetKeyFromNextLine
    PROVE  FfInv'
<1>1. /\ flagfile!Parsing /\ flagfile!IsFlag(flagfile!Line)
      /\ ffPhase = "parse" /\ ffAt < FfCount /\ ffPhase' = ffPhase /\ ffCall' = ffCall
      /\ ffFlags' = ffFlags
    BY DEF flagfile!SetKey, flagfile!SetKeyFromNextLine, flagfile!Parsing, FfCount
<1>2. PICK n \in Nat : n = ffAt
    BY DEF FfInv, FfTyped
<1>. DEFINE i == n + 1
<1>3. /\ FfCount \in Nat /\ DOMAIN ffCall.lines = 1..FfCount
      /\ i \in Nat /\ i \in 1..FfCount /\ i \in i..FfCount /\ i \in 0..FfCount /\ i - 1 = n
      /\ \A j \in (i + 1)..i : FALSE
      /\ \A j \in (i + 1)..(i + 1) : j = i + 1
      /\ i < FfCount => i + 1 \in 1..FfCount /\ i + 1 \in i..FfCount /\ i + 1 \in 0..FfCount
                        /\ i + 1 > 1
      /\ i + 1 < FfCount => (i + 1) + 1 \in 1..FfCount
      /\ (i + 1) - 1 = i /\ ((i + 1) + 1) - 1 = i + 1 /\ ffAt + 2 = i + 1 /\ ffAt + 1 = i
      /\ ~(i < FfCount) <=> i = FfCount
    BY <1>1, <1>2, FfCallFacts DEF FfInv, FfTyped
<1>. HIDE DEF i
<1>4. flagfile!Line = FfLine(i) /\ flagfile!IsFlag(FfLine(i)) /\ ~flagfile!Blank(FfLine(i))
    <2>1. flagfile!Line = FfLine(i)
        BY <1>3 DEF flagfile!Line, FfLine
    <2>. QED
        BY <1>1, <1>3, <2>1, FfCallFacts DEF FfInv
<1>5. i \in flagfile!FlagLines /\ flagfile!IsValue[i] = FALSE /\ FfMapped(n)
    BY <1>1, <1>2, <1>3, <1>4, FfReads
<1>6. FfValued
    BY FfValues DEF FfInv
<1>. DEFINE With(v) == ffMap' = flagfile!Over(ffMap, flagfile!One(FfLine(i).key, v))
<1>7. i < FfCount => (flagfile!IsValue[i + 1] <=> FfFollows(i + 1))
    BY <1>3, <1>5, <1>6 DEF FfValued
<1>8. CASE /\ ffAt' = i /\ With(flagfile!ValueOf(i))
           /\ i < FfCount => ~FfFollows(i + 1)
    <2>1. FfMapped(i)'
        BY <1>1, <1>3, <1>5, <1>8, FfAdds DEF FfInv
    <2>2. i < FfCount => flagfile!IsValue[i + 1] = FALSE
        BY <1>3, <1>6, <1>7, <1>8 DEF FfValued
    <2>. QED
        BY <1>1, <1>3, <1>8, <2>1, <2>2, FfParses
<1>9. CASE /\ ffAt' = i + 1 /\ With(flagfile!ValueOf(i)) /\ i < FfCount /\ FfFollows(i + 1)
    <2>1. flagfile!IsValue[i + 1] = TRUE
        BY <1>3, <1>6, <1>7, <1>9 DEF FfValued
    <2>2. \A j \in (i + 1)..(i + 1) : j \notin flagfile!FlagLines
        BY <1>3, <2>1 DEF flagfile!FlagLines
    <2>3. FfMapped(i + 1)'
        BY <1>1, <1>3, <1>5, <1>9, <2>2, FfAdds DEF FfInv
    <2>4. i + 1 < FfCount => flagfile!IsValue[(i + 1) + 1] = FALSE
        BY <1>3, <1>6, <2>1 DEF FfValued
    <2>. QED
        BY <1>1, <1>3, <1>9, <2>3, <2>4, FfParses
<1>10. CASE flagfile!SetKey
    <2>1. /\ FfLine(i).value # NoValue /\ ffAt' = i /\ With(FfLine(i).value)
        BY <1>3, <1>4, <1>10 DEF flagfile!SetKey
    <2>2. flagfile!ValueOf(i) = FfLine(i).value
        BY <2>1 DEF flagfile!ValueOf, FfLine
    <2>3. i < FfCount => ~FfFollows(i + 1)
        BY <1>3, <2>1 DEF FfFollows
    <2>. QED
        BY <1>8, <2>1, <2>2, <2>3
<1>11. CASE flagfile!SetKeyFromNextLine
    <2>1. /\ FfLine(i).value = NoValue
          /\ IF i = FfCount \/ flagfile!LooksLikeFlag(FfLine(i + 1))
             THEN With("") /\ ffAt' = i
             ELSE With(FfLine(i + 1).text) /\ ffAt' = i + 1
        BY <1>3, <1>4, <1>11 DEF flagfile!SetKeyFromNextLine, FfLine, FfCount
    <2>2. i < FfCount => (FfFollows(i + 1) <=> ~flagfile!LooksLikeFlag(FfLine(i + 1)))
        BY <1>3, <1>4, <2>1 DEF FfFollows
    <2>3. flagfile!ValueOf(i) = IF i < FfCount /\ flagfile!IsValue[i + 1]
                                THEN FfLine(i + 1).text ELSE ""
        BY <2>1 DEF flagfile!ValueOf, FfLine, FfCount
    <2>. HIDE DEF With
    <2>4. CASE i < FfCount /\ FfFollows(i + 1)
        BY <1>3, <1>7, <1>9, <2>1, <2>2, <2>3, <2>4
    <2>5. CASE ~(i < FfCount /\ FfFollows(i + 1))
        BY <1>3, <1>7, <1>8, <2>1, <2>2, <2>3, <2>5
    <2>. QED
        BY <2>4, <2>5
<1>. QED
    BY <1>10, <1>11

\* A line that is no flag, or a file that cannot be read, ends the parsing.
LEMMA FfFails ==
    ASSUME FfInv, flagfile!BadLine \/ flagfile!LoneQuote \/ flagfile!ReadFails
    PROVE  FfInv'
<1>1. /\ ffPhase = "parse" /\ ffPhase' \in {"error", "panic"}
      /\ ffCall' = ffCall /\ ffAt' = ffAt /\ ffMap' = ffMap /\ ffFlags' = ffFlags
    BY DEF flagfile!BadLine, flagfile!LoneQuote, flagfile!ReadFails, flagfile!Parsing
<1>2. FfHasReason
    <2>1. CASE flagfile!ReadFails
        BY <2>1 DEF flagfile!ReadFails, FfHasReason
    <2>2. CASE flagfile!BadLine \/ flagfile!LoneQuote
        <3>1. flagfile!Parsing /\ ~flagfile!IsFlag(flagfile!Line)
            BY <2>2 DEF flagfile!BadLine, flagfile!LoneQuote, flagfile!IsFlag, flagfile!Balanced
        <3>2. ~flagfile!Blank(flagfile!Line)
            <4>1. flagfile!Line = FfLine(ffAt + 1) /\ ffAt + 1 \in 1..FfCount
                BY <3>1, FfCallFacts DEF flagfile!Parsing, flagfile!Line, FfLine, FfCount,
                                         FfInv, FfTyped
            <4>. QED
                BY <2>2, <4>1, FfCallFacts DEF flagfile!BadLine, flagfile!LoneQuote, FfInv
        <3>. QED
            BY <3>1, <3>2, FfReads DEF FfHasReason
    <2>. QED
        BY <2>1, <2>2
<1>3. FfHasReason' /\ ffFlags' = << >>
    BY <1>1, <1>2, FfSame DEF FfHasReason, FfLine, flagfile!IsFlag, flagfile!Balanced, FfInv, FfParsing
<1>. QED
    BY <1>1, <1>3 DEF FfInv, FfTyped, FfBegins, FfParsing, FfFailed, FfSetting, FfCount

LEMMA FfParsed ==
    ASSUME FfInv, flagfile!Parsed
    PROVE  FfInv'
<1>1. /\ ffPhase = "parse" /\ ffAt = FfCount /\ ffPhase' = "set" /\ ffTodo' = DOMAIN ffMap
      /\ ffCall' = ffCall /\ ffAt' = ffAt /\ ffMap' = ffMap /\ ffFlags' = ffFlags
    BY DEF flagfile!Parsed, FfCount
<1>2. FfMapped(FfCount)'
    BY <1>1, FfSame DEF FfInv, FfParsing, FfMapped, FfNamed, FfFlags, FfLine, FfLatest, FfCount
<1>3. ffFlags' = << >> /\ DOMAIN ffFlags' = {}
    BY <1>1 DEF FfInv, FfParsing
<1>4. FfNested' = FfNested /\ (flagfile!Own \notin DOMAIN ffMap => DOMAIN FfNested = {})
    BY <1>1 DEF FfNested
<1>. QED
    BY <1>1, <1>2, <1>3, <1>4
       DEF FfInv, FfTyped, FfBegins, FfParsing, FfFailed, FfSetting, FfFrom, FfCount

\* What is set, of the map and of the flag file named in it.
FfSet(todo) ==
    ((DOMAIN ffMap \ ({flagfile!Own} \cup todo))
        \cup (IF flagfile!Own \in todo THEN {} ELSE DOMAIN FfNested)) \cap Known

LEMMA FfSets ==
    ASSUME FfInv, ffPhase = "set", ffPhase' = "set", ffCall' = ffCall, ffAt' = ffAt, ffMap' = ffMap,
           ffTodo' \subseteq ffTodo, DOMAIN ffFlags' = FfSet(ffTodo'), FfFrom(ffFlags')
    PROVE  FfInv'
<1>1. FfMapped(FfCount)'
    BY FfSame DEF FfInv, FfSetting, FfMapped, FfNamed, FfFlags, FfLine, FfLatest, FfCount
<1>2. FfNested' = FfNested
    BY DEF FfNested
<1>3. FfSetting'
    BY <1>1, <1>2 DEF FfInv, FfSetting, FfSet, FfFrom
<1>. QED
    BY <1>3 DEF FfInv, FfTyped, FfBegins, FfParsing, FfFailed, FfCount

LEMMA FfPut ==
    ASSUME NEW m, NEW n
    PROVE  /\ DOMAIN flagfile!Over(m, flagfile!Values(n)) = DOMAIN m \cup (DOMAIN n \cap Known)
           /\ \A x \in DOMAIN m \cup (DOMAIN n \cap Known) :
                flagfile!Over(m, flagfile!Values(n))[x] =
                    IF x \in DOMAIN n \cap Known THEN Taken(x, n[x]) ELSE m[x]
<1>1. /\ DOMAIN flagfile!Values(n) = DOMAIN n \cap Known
      /\ \A x \in DOMAIN n \cap Known : flagfile!Values(n)[x] = Taken(x, n[x])
    BY DEF flagfile!Values
<1>. QED
    BY <1>1 DEF flagfile!Over

LEMMA FfSetFlag ==
    ASSUME FfInv, flagfile!SetFlag
    PROVE  FfInv'
<1>1. PICK k \in ffTodo \ {flagfile!Own} :
        /\ ffFlags' = flagfile!Over(ffFlags, flagfile!Values(flagfile!One(k, ffMap[k])))
        /\ ffTodo' = ffTodo \ {k}
    BY DEF flagfile!SetFlag
<1>2. /\ ffPhase = "set" /\ ffPhase' = "set" /\ ffCall' = ffCall /\ ffAt' = ffAt /\ ffMap' = ffMap
    BY DEF flagfile!SetFlag, flagfile!Setting
<1>3. k \in DOMAIN ffMap /\ DOMAIN ffFlags = FfSet(ffTodo) /\ FfFrom(ffFlags)
    BY <1>2 DEF FfInv, FfSetting, FfSet, FfFrom
<1>4. /\ DOMAIN ffFlags' = DOMAIN ffFlags \cup ({k} \cap Known)
      /\ \A x \in DOMAIN ffFlags' : ffFlags'[x] = IF x = k THEN Taken(k, ffMap[k]) ELSE ffFlags[x]
    <2>. DEFINE o == flagfile!One(k, ffMap[k])
    <2>1. DOMAIN o = {k} /\ o[k] = ffMap[k]
        BY DEF flagfile!One
    <2>. HIDE DEF o
    <2>2. ffFlags' = flagfile!Over(ffFlags, flagfile!Values(o))
        BY <1>1 DEF o
    <2>3. DOMAIN ffFlags \subseteq Known
        BY <1>3 DEF FfSet
    <2>4. /\ DOMAIN ffFlags' = DOMAIN ffFlags \cup (DOMAIN o \cap Known)
          /\ \A x \in DOMAIN ffFlags \cup (DOMAIN o \cap Known) :
               ffFlags'[x] = IF x \in DOMAIN o \cap Known THEN Taken(x, o[x]) ELSE ffFlags[x]
        BY <2>2, FfPut
    <2>. QED
        BY <2>1, <2>3, <2>4
<1>5. DOMAIN ffFlags' = FfSet(ffTodo')
    BY <1>1, <1>3, <1>4 DEF FfSet
<1>6. FfFrom(ffFlags')
    BY <1>3, <1>4 DEF FfFrom
<1>. QED
    BY <1>1, <1>2, <1>5, <1>6, FfSets

LEMMA FfSetFlagFile ==
    ASSUME FfInv, flagfile!SetFlagFile
    PROVE  FfInv'
<1>1. /\ flagfile!Own \in ffTodo /\ ffTodo' = ffTodo \ {flagfile!Own}
      /\ ffCall.nested.outcome # "panic"
      /\ ffFlags' = IF ffCall.nested.outcome = "bad" THEN ffFlags
                    ELSE flagfile!Over(ffFlags, flagfile!Values(ffCall.nested.map))
      /\ ffPhase = "set" /\ ffPhase' = "set" /\ ffCall' = ffCall /\ ffAt' = ffAt /\ ffMap' = ffMap
    BY DEF flagfile!SetFlagFile, flagfile!Setting
<1>2. flagfile!Own \in DOMAIN ffMap /\ DOMAIN ffFlags = FfSet(ffTodo) /\ FfFrom(ffFlags)
    BY <1>1 DEF FfInv, FfSetting, FfSet, FfFrom
<1>4. ffCall.nested.outcome \in {"ok", "bad"}
    BY <1>1, FlagFilesAssumption DEF FfInv, FfTyped
<1>3. /\ DOMAIN ffFlags' = DOMAIN ffFlags \cup (DOMAIN FfNested \cap Known)
      /\ \A x \in DOMAIN ffFlags' :
           ffFlags'[x] = IF x \in DOMAIN FfNested THEN Taken(x, FfNested[x]) ELSE ffFlags[x]
    <2>1. CASE ffCall.nested.outcome = "bad"
        <3>1. FfNested = << >> /\ DOMAIN FfNested = {}
            BY <2>1 DEF FfNested
        <3>. QED
            BY <1>1, <2>1, <3>1
    <2>2. CASE ffCall.nested.outcome = "ok"
        <3>1. FfNested = ffCall.nested.map
            BY <1>2, <2>2 DEF FfNested
        <3>. QED
            <4>1. ffFlags' = flagfile!Over(ffFlags, flagfile!Values(FfNested))
                BY <1>1, <2>2, <3>1
            <4>2. DOMAIN ffFlags \subseteq Known
                BY <1>2 DEF FfSet
            <4>3. /\ DOMAIN ffFlags' = DOMAIN ffFlags \cup (DOMAIN FfNested \cap Known)
                  /\ \A x \in DOMAIN ffFlags \cup (DOMAIN FfNested \cap Known) :
                       ffFlags'[x] = IF x \in DOMAIN FfNested \cap Known
                                     THEN Taken(x, FfNested[x]) ELSE ffFlags[x]
                BY <4>1, FfPut
            <4>. QED
                BY <4>2, <4>3
    <2>. QED
        BY <1>4, <2>1, <2>2
<1>5. DOMAIN ffFlags' = FfSet(ffTodo')
    BY <1>1, <1>2, <1>3 DEF FfSet
<1>6. FfFrom(ffFlags')
    BY <1>2, <1>3 DEF FfFrom
<1>. QED
    BY <1>1, <1>5, <1>6, FfSets

\* A panic of another flag file comes when some flags are set.
LEMMA FfNestedPanic ==
    ASSUME FfInv, flagfile!NestedPanics
    PROVE  FfInv'
<1>1. /\ flagfile!Own \in ffTodo /\ ffCall.nested.outcome = "panic"
      /\ ffPhase = "set" /\ ffPhase' = "panic"
      /\ ffCall' = ffCall /\ ffAt' = ffAt /\ ffMap' = ffMap /\ ffTodo' = ffTodo /\ ffFlags' = ffFlags
    BY DEF flagfile!NestedPanics, flagfile!Setting
<1>2. FfMapped(FfCount)' /\ FfNested' = FfNested
    BY <1>1, FfSame DEF FfInv, FfSetting, FfMapped, FfNamed, FfFlags, FfLine, FfLatest, FfCount,
                        FfNested
<1>3. flagfile!Own \in DOMAIN ffMap /\ DOMAIN ffFlags \subseteq Known /\ FfFrom(ffFlags)
    BY <1>1 DEF FfInv, FfSetting
<1>4. FfNestedPanics'
    BY <1>1, <1>2, <1>3 DEF FfNestedPanics, FfFrom
<1>. QED
    BY <1>1, <1>4 DEF FfInv, FfTyped, FfBegins, FfParsing, FfFailed, FfSetting, FfCount

LEMMA FfDone ==
    ASSUME FfInv, flagfile!Done
    PROVE  FfInv'
<1>1. /\ ffPhase = "set" /\ ffTodo = {} /\ ffPhase' = "ok"
      /\ ffCall' = ffCall /\ ffAt' = ffAt /\ ffMap' = ffMap /\ ffTodo' = ffTodo /\ ffFlags' = ffFlags
    BY DEF flagfile!Done
<1>2. FfMapped(FfCount)' /\ FfNested' = FfNested
    BY <1>1, FfSame DEF FfInv, FfSetting, FfMapped, FfNamed, FfFlags, FfLine, FfLatest, FfCount,
                        FfNested
<1>3. FfSetting'
    BY <1>1, <1>2 DEF FfInv, FfSetting, FfFrom
<1>. QED
    BY <1>1, <1>3 DEF FfInv, FfTyped, FfBegins, FfParsing, FfFailed, FfCount

LEMMA FfInductive == FfInv /\ [flagfile!Next]_ffVars => FfInv'
<1>. SUFFICES ASSUME FfInv, [flagfile!Next]_ffVars PROVE FfInv'
    OBVIOUS
<1>1. CASE UNCHANGED ffVars
    <2>1. /\ ffCall' = ffCall /\ ffPhase' = ffPhase /\ ffAt' = ffAt /\ ffMap' = ffMap
          /\ ffTodo' = ffTodo /\ ffFlags' = ffFlags
        BY <1>1 DEF ffVars
    <2>2. FfTyped' /\ FfBegins' /\ FfNested' = FfNested
        BY <2>1 DEF FfInv, FfTyped, FfBegins, FfCount, FfNested
    <2>3. FfParsing'
        BY <2>1, FfSame DEF FfInv, FfParsing, FfMapped, FfNamed, FfFlags, FfLine, FfLatest, FfCount
    <2>4. FfFailed'
        <3>1. FfHasReason' = FfHasReason
            BY <2>1, FfSame DEF FfHasReason, FfLine, flagfile!IsFlag, flagfile!Balanced
        <3>2. FfMapped(FfCount)' = FfMapped(FfCount)
            BY <2>1, FfSame DEF FfMapped, FfNamed, FfFlags, FfLine, FfLatest, FfCount
        <3>3. FfNestedPanics' = FfNestedPanics
            BY <2>1, <2>2, <3>2 DEF FfNestedPanics, FfFrom
        <3>. QED
            BY <2>1, <3>1, <3>3 DEF FfInv, FfFailed
    <2>5. FfSetting'
        BY <2>1, <2>2, FfSame
           DEF FfInv, FfSetting, FfFrom, FfMapped, FfNamed, FfFlags, FfLine, FfLatest, FfCount
    <2>. QED
        BY <2>2, <2>3, <2>4, <2>5 DEF FfInv
<1>. QED
    BY <1>1, FfRun, FfSkipBlank, FfSetKeys, FfFails, FfParsed, FfSetFlag, FfSetFlagFile,
       FfNestedPanic, FfDone
    DEF flagfile!Next

LEMMA LatestIsMax ==
    ASSUME NEW S, S \subseteq Nat, NEW i, FfLatest(i, S)
    PROVE  i = flagfile!Max(S)
<1>. DEFINE m == flagfile!Max(S)
<1>1. i \in S /\ \A j \in S : i >= j
    BY DEF FfLatest
<1>2. m \in S /\ \A j \in S : m >= j
    BY <1>1 DEF flagfile!Max
<1>3. m \in Nat /\ i \in Nat /\ i >= m /\ m >= i
    BY <1>1, <1>2
<1>. HIDE DEF m
<1>4. i = m
    BY <1>3
<1>. QED
    BY <1>4 DEF m

\* The map of all lines is what the properties say of the file.
LEMMA FfKeysAre ==
    ASSUME FfInv, FfMapped(FfCount)
    PROVE  /\ DOMAIN ffMap = flagfile!Keys /\ FfNested = flagfile!Nested
           /\ \A k \in DOMAIN ffMap : ffMap[k] = flagfile!LastValue(k)
<1>1. /\ FfCount \in Nat /\ flagfile!FlagLines \subseteq 1..FfCount
      /\ FfFlags(FfCount) = flagfile!FlagLines
    BY FfCallFacts DEF FfInv, flagfile!FlagLines, FfFlags
<1>2. DOMAIN ffMap = flagfile!Keys
    BY <1>1 DEF FfMapped, flagfile!Keys, FfLine
<1>3. FfNested = flagfile!Nested
    BY <1>2 DEF FfNested, flagfile!Nested
<1>4. ASSUME NEW k \in DOMAIN ffMap PROVE ffMap[k] = flagfile!LastValue(k)
    <2>1. PICK i \in FfNamed(FfCount, k) :
            FfLatest(i, FfNamed(FfCount, k)) /\ ffMap[k] = flagfile!ValueOf(i)
        BY DEF FfMapped
    <2>2. FfNamed(FfCount, k) = {j \in flagfile!FlagLines : ffCall.lines[j].key = k}
        BY <1>1 DEF FfNamed, FfLine
    <2>3. FfNamed(FfCount, k) \subseteq Nat
        <3>1. 1..FfCount \subseteq Nat
            OBVIOUS
        <3>. QED
            BY <1>1, <2>2, <3>1
    <2>4. i = flagfile!Max(FfNamed(FfCount, k))
        BY <2>1, <2>3, LatestIsMax
    <2>. QED
        BY <2>1, <2>2, <2>4 DEF flagfile!LastValue
<1>. QED
    BY <1>2, <1>3, <1>4

LEMMA FfImplies == FfInv => FlagsDetermined
<1>. SUFFICES ASSUME FfInv PROVE FlagsDetermined
    OBVIOUS
<1>. DEFINE Right == \A k \in DOMAIN ffFlags :
                \/ /\ k \in flagfile!Keys \ {flagfile!Own}
                   /\ ffFlags[k] = Taken(k, flagfile!LastValue(k))
                \/ /\ k \in DOMAIN flagfile!Nested
                   /\ ffFlags[k] = Taken(k, flagfile!Nested[k])
<1>1. ASSUME FfMapped(FfCount), FfFrom(ffFlags) PROVE Right
    BY <1>1, FfKeysAre DEF FfFrom
<1>2. ASSUME ffFlags = << >> PROVE Right
    BY <1>2
<1>. HIDE DEF Right
<1>3. CASE ffPhase \in {"idle", "parse"}
    <2>1. ffFlags = << >>
        BY <1>3 DEF FfInv, FfParsing
    <2>. QED
        BY <1>2, <1>3, <2>1 DEF FlagsDetermined, flagfile!FlagsDetermined, Right
<1>4. CASE ffPhase \in {"set", "ok"}
    <2>1. /\ FfMapped(FfCount) /\ FfFrom(ffFlags)
          /\ ffPhase = "ok" => /\ ffTodo = {}
                               /\ DOMAIN ffFlags = ((DOMAIN ffMap \ {flagfile!Own})
                                                        \cup DOMAIN FfNested) \cap Known
        BY <1>4 DEF FfInv, FfSetting
    <2>2. ffPhase = "ok" =>
              DOMAIN ffFlags = ((flagfile!Keys \ {flagfile!Own}) \cup DOMAIN flagfile!Nested) \cap Known
        BY <2>1, FfKeysAre
    <2>. QED
        BY <1>1, <1>4, <2>1, <2>2 DEF FlagsDetermined, flagfile!FlagsDetermined, Right
<1>5. CASE ffPhase \in {"error", "panic"}
    <2>1. CASE ffFlags = << >> /\ FfHasReason
        BY <1>2, <1>5, <2>1 DEF FlagsDetermined, flagfile!FlagsDetermined, Right, FfHasReason, FfLine
    <2>2. CASE ffPhase = "panic" /\ FfNestedPanics
        <3>1. flagfile!NestedPanic /\ Right
            BY <1>1, <2>2, FfKeysAre DEF FfNestedPanics, flagfile!NestedPanic
        <3>. QED
            BY <2>2, <3>1 DEF FlagsDetermined, flagfile!FlagsDetermined, Right
    <2>. QED
        BY <1>5, <2>1, <2>2 DEF FfInv, FfFailed
<1>. QED
    BY <1>3, <1>4, <1>5 DEF FfInv, FfTyped

\* Whatever the order of the map: a flag that is set has what its type makes of its last
\* text in the file, or of that in the flag file named in it; success means that all of them
\* are set; a file that fails sets none and has a reason to fail, or the flag file
\* named in it panics.
THEOREM FlagsAreDetermined == FairSpec => []FlagsDetermined
BY FfInitial, FfSteps, FfInductive, FfImplies, PTL DEF FairSpec

-----------------------------------------------------------------------------
(* dex.go and shard.go: a class and its inner classes are in one output *)

LEMMA DxSteps == [Next]_vars => [dex!Next]_dxVars
BY DEF Next, vars, runCmd, RunFinalrjar, RunGeneratemanifest, RunDex, RunExtractaar,
       RunRepack, RunRjar, RunNativelib, RunShellapk, RunPatch, RunManifest, RunCompile,
       RunLink, RunFlagfile, RunBucketize, RunSession, ArchiveReturns

DxFile == [name : Seq(STRING), dex : BOOLEAN, regular : BOOLEAN]
DxSymbol == STRING \cup {"$", "-"}
DxOut == [state : {"absent", "open", "closed", "cut"}, files : Seq(DxFile)]
DxFiles == dxCall.dexed
\* The positions before m of the files for the output i.
DxPlaces(i, m) == {n \in 1..(m - 1) : DxFiles[n].regular = TRUE /\ dex!shardFn(DxFiles[n]) = i}
\* The files fs are those of the positions P, in order.
DxHolding(fs, P) ==
    \E at \in [DOMAIN fs -> P] :
        /\ \A n \in P : \E k \in DOMAIN at : at[k] = n
        /\ \A k, l \in DOMAIN at : k < l => at[k] < at[l]
        /\ \A k \in DOMAIN at : fs[k] = DxFiles[at[k]]

DxTyped ==
    /\ dxCall \in DexCalls \cup {dex!NoCall}
    /\ dxPhase \in {"idle", "start", "desugar", "dex", "create", "shard", "close", "empty",
                    "ok", "error"}
    /\ dxPhase = "idle" <=> dxCall = dex!NoCall
    /\ dxNext \in 1..(Len(DxFiles) + 1) /\ dxFailed \in BOOLEAN
    /\ dxOuts \in [1..dxCall.sc -> DxOut]
\* Before the shards are made nothing is in an output.
DxFresh ==
    dxPhase \in {"idle", "start", "desugar", "dex", "create", "empty"} =>
        /\ dxNext = 1 /\ dxFailed = FALSE
        /\ \A i \in 1..dxCall.sc : dxOuts[i].files = << >>
DxSharded == dxPhase = "shard" \/ (dxPhase = "close" /\ dxFailed = FALSE) \/ dxPhase = "ok"
\* The outputs are there.
DxThere ==
    /\ dxPhase \in {"start", "desugar", "dex"} =>
          \A i \in 1..dxCall.sc : dxOuts[i].state = "absent"
    /\ dxPhase \in {"create", "empty"} => dxOuts[dxCall.sc].state = "absent"
    /\ DxSharded => \A i \in 1..dxCall.sc : dxOuts[i].state # "absent"
\* What is in an output is of its shard.
DxTogether ==
    dxCall.sc > 1 =>
        \A i \in 1..dxCall.sc : \A k \in DOMAIN dxOuts[i].files :
            dex!shardFn(dxOuts[i].files[k]) = i
\* What was sharded is in the output of its shard.
DxPlaced ==
    /\ dxPhase = "empty" => dxCall.code = FALSE
    /\ DxSharded /\ dxCall.sc > 1 /\ dxCall.code = TRUE =>
          \A i \in 1..dxCall.sc : DxHolding(dxOuts[i].files, DxPlaces(i, dxNext))
    /\ (dxPhase = "close" /\ dxFailed = FALSE) \/ dxPhase = "ok" =>
          (dxCall.sc > 1 /\ dxCall.code = TRUE => dxNext = Len(DxFiles) + 1)

DxInv == DxTyped /\ DxFresh /\ DxThere /\ DxTogether /\ DxPlaced

USE DEF dex!vars

LEMMA DxMin ==
    ASSUME NEW T, T \subseteq Nat, T # {}
    PROVE  dex!Min(T) \in T /\ \A y \in T : dex!Min(T) <= y
BY LeastOf DEF dex!Min

\* A call as DexCallsAssumption has it.
LEMMA DxCallFacts ==
    ASSUME DxTyped
    PROVE  /\ DxFiles \in Seq(DxFile) /\ dxCall.sc \in Nat /\ dxCall.code \in BOOLEAN
           /\ dxPhase # "idle" => dxCall.sc > 0
<1>1. CASE dxCall \in DexCalls
    BY <1>1, DexCallsAssumption DEF DxFile, DxFiles
<1>2. CASE dxCall = dex!NoCall
    <2>1. DxFiles = << >> /\ dxCall.sc = 0 /\ dxCall.code = FALSE /\ dxPhase = "idle"
        BY <1>2 DEF dex!NoCall, DxFiles, DxTyped
    <2>2. << >> \in Seq(DxFile)
        OBVIOUS
    <2>3. dxCall.code \in BOOLEAN
        BY <2>1
    <2>. QED
        BY <2>1, <2>2, <2>3
<1>. QED
    BY <1>1, <1>2 DEF DxTyped

\* What is hashed of a name ends at the first mark.
LEMMA DxContext ==
    ASSUME NEW name \in Seq(STRING)
    PROVE  \E n \in 0..Len(name) :
              /\ dex!Context(name) = SubSeq(name, 1, n)
              /\ n # Len(name) => name[n + 1] \in {"$", "-"}
              /\ \A j \in 1..n : name[j] \notin {"$", "-"}
<1>. DEFINE at == {i \in DOMAIN name : name[i] \in {"$", "-"}}
<1>1. Len(name) \in Nat /\ DOMAIN name = 1..Len(name) /\ at \subseteq Nat
    OBVIOUS
<1>2. CASE at = {}
    <2>1. dex!Context(name) = name
        BY <1>2 DEF dex!Context, dex!UpTo
    <2>2. dex!Context(name) = SubSeq(name, 1, Len(name))
        BY <2>1, SubSeqFull
    <2>3. \A j \in 1..Len(name) : name[j] \notin {"$", "-"}
        BY <1>1, <1>2
    <2>4. Len(name) \in 0..Len(name)
        BY <1>1
    <2>. QED
        BY <2>2, <2>3, <2>4
<1>3. CASE at # {}
    <2>. DEFINE n == dex!Min(at) - 1
    <2>1. dex!Context(name) = SubSeq(name, 1, n)
        BY <1>3 DEF dex!Context, dex!UpTo
    <2>2. n + 1 \in at /\ (\A y \in at : n + 1 <= y) /\ n \in Int
        <3>1. dex!Min(at) \in at /\ \A y \in at : dex!Min(at) <= y
            BY <1>1, <1>3, DxMin
        <3>2. dex!Min(at) \in Nat
            BY <1>1, <3>1
        <3>. HIDE DEF at
        <3>3. n + 1 = dex!Min(at) /\ n \in Int
            BY <3>2
        <3>. QED
            BY <3>1, <3>3
    <2>3. n \in 0..Len(name)
        BY <1>1, <2>2
    <2>. HIDE DEF n
    <2>4. name[n + 1] \in {"$", "-"} /\ \A j \in 1..n : name[j] \notin {"$", "-"}
        BY <1>1, <2>2, <2>3
    <2>. QED
        BY <2>1, <2>3, <2>4
<1>. QED
    BY <1>2, <1>3

\* The name of an inner class has the context of its outer one.
LEMMA DxInner ==
    ASSUME NEW f \in Seq(STRING), NEW g \in Seq(STRING), NEW mark \in {"$", "-"},
           dex!IsPrefix(Append(f, mark), g)
    PROVE  dex!Context(f) = dex!Context(g)
<1>. DEFINE h == Append(f, mark)
<1>0. mark \in DxSymbol /\ f \in Seq(DxSymbol)
    <2>1. f \in [1..Len(f) -> STRING] /\ Len(f) \in Nat
        OBVIOUS
    <2>2. f \in [1..Len(f) -> DxSymbol]
        BY <2>1 DEF DxSymbol
    <2>. QED
        BY <2>1, <2>2, SeqDef DEF DxSymbol
<1>1. /\ h \in Seq(DxSymbol) /\ Len(f) \in Nat /\ Len(h) = Len(f) + 1 /\ h[Len(f) + 1] = mark
      /\ \A j \in 1..Len(f) : h[j] = f[j]
    BY <1>0
<1>2. Len(h) <= Len(g) /\ SubSeq(h, 1, Len(h)) = SubSeq(g, 1, Len(h)) /\ Len(g) \in Nat
    BY DEF dex!IsPrefix
<1>. HIDE DEF h
<1>3. \A j \in 1..Len(h) : h[j] = g[j]
    <2>1. \A j \in 1..Len(h) : SubSeq(h, 1, Len(h))[j] = h[j] /\ SubSeq(g, 1, Len(h))[j] = g[j]
        BY <1>1, <1>2
    <2>. QED
        BY <1>2, <2>1
<1>4. PICK n \in 0..Len(f) : /\ dex!Context(f) = SubSeq(f, 1, n)
                             /\ n # Len(f) => f[n + 1] \in {"$", "-"}
                             /\ \A j \in 1..n : f[j] \notin {"$", "-"}
    BY DxContext
<1>5. PICK m \in 0..Len(g) : /\ dex!Context(g) = SubSeq(g, 1, m)
                             /\ m # Len(g) => g[m + 1] \in {"$", "-"}
                             /\ \A j \in 1..m : g[j] \notin {"$", "-"}
    BY DxContext
<1>6. h[n + 1] \in {"$", "-"} /\ n + 1 \in 1..Len(h) /\ \A j \in 1..n : h[j] \notin {"$", "-"}
    <2>1. CASE n = Len(f)
        BY <1>1, <1>4, <2>1
    <2>2. CASE n # Len(f)
        <3>1. n \in Nat /\ n + 1 \in 1..Len(f) /\ n + 1 \in 1..Len(h) /\ \A j \in 1..n : j \in 1..Len(f)
            BY <1>1, <2>2
        <3>2. h[n + 1] = f[n + 1] /\ \A j \in 1..n : h[j] = f[j]
            BY <1>1, <3>1
        <3>. QED
            BY <1>4, <2>2, <3>1, <3>2
    <2>. QED
        BY <2>1, <2>2
<1>7. n = m
    <2>1. g[n + 1] \in {"$", "-"} /\ n \in Nat /\ n + 1 <= Len(g)
        BY <1>1, <1>2, <1>3, <1>6
    <2>2. ~(m > n)
        BY <1>5, <2>1
    <2>3. ~(m < n)
        <3>. SUFFICES ASSUME m < n PROVE FALSE
            OBVIOUS
        <3>1. m + 1 \in 1..n /\ m # Len(g) /\ m + 1 \in 1..Len(h)
            BY <1>1, <1>2, <1>4, <1>5, <2>1
        <3>. QED
            BY <1>3, <1>5, <1>6, <3>1
    <2>. QED
        BY <2>1, <2>2, <2>3
<1>8. SubSeq(f, 1, n) = SubSeq(g, 1, n)
    <2>1. n \in Nat /\ n <= Len(f) /\ n <= Len(g) /\ \A j \in 1..n : f[j] = g[j]
        BY <1>1, <1>2, <1>3, <1>4, <1>5, <1>7
    <2>. QED
        BY <2>1
<1>. QED
    BY <1>4, <1>5, <1>7, <1>8

\* Every file has an output.
LEMMA DxShards ==
    ASSUME DxTyped, NEW n \in DOMAIN DxFiles
    PROVE  dex!shardFn(DxFiles[n]) \in 1..dxCall.sc
<1>1. DxFiles[n] \in DxFile /\ DxFiles[n].name \in Seq(STRING) /\ dxCall.sc \in Nat
    <2>1. DxFiles[n] \in DxFile /\ dxCall.sc \in Nat
        BY DxCallFacts
    <2>. QED
        BY <2>1 DEF DxFile
<1>2. dxCall \in DexCalls
    <2>1. CASE dxCall = dex!NoCall
        BY <2>1 DEF DxFiles, dex!NoCall
    <2>. QED
        BY <2>1 DEF DxTyped
<1>3. PICK k \in 0..Len(DxFiles[n].name) :
         dex!Context(DxFiles[n].name) = SubSeq(DxFiles[n].name, 1, k)
    BY <1>1, DxContext
<1>4. FNV(SubSeq(DxFiles[n].name, 1, k), dxCall.sc) \in 0..(dxCall.sc - 1)
    BY <1>2, DexCallsAssumption DEF DxFiles
<1>. QED
    BY <1>1, <1>3, <1>4 DEF dex!shardFn

\* One file more.
LEMMA DxHoldsNext ==
    ASSUME NEW fs \in Seq(DxFile), NEW P, P \subseteq Nat, NEW n \in Nat, \A p \in P : p < n,
           DxHolding(fs, P)
    PROVE  DxHolding(Append(fs, DxFiles[n]), P \cup {n})
<1>1. PICK at \in [DOMAIN fs -> P] :
         /\ \A m \in P : \E k \in DOMAIN at : at[k] = m
         /\ \A k, l \in DOMAIN at : k < l => at[k] < at[l]
         /\ \A k \in DOMAIN at : fs[k] = DxFiles[at[k]]
    BY DEF DxHolding
<1>. DEFINE gs == Append(fs, DxFiles[n])
            to == [k \in DOMAIN gs |-> IF k \in DOMAIN fs THEN at[k] ELSE n]
<1>2. /\ Len(fs) \in Nat /\ DOMAIN fs = 1..Len(fs) /\ DOMAIN gs = 1..(Len(fs) + 1)
      /\ gs[Len(fs) + 1] = DxFiles[n] /\ \A k \in DOMAIN fs : gs[k] = fs[k]
    BY DEF DxFiles
<1>. HIDE DEF gs
<1>3. to \in [DOMAIN gs -> P \cup {n}] /\ DOMAIN to = DOMAIN gs
    BY <1>1
<1>4. /\ \A k \in DOMAIN fs : k \in DOMAIN to /\ to[k] = at[k] /\ at[k] \in P
      /\ Len(fs) + 1 \in DOMAIN to /\ to[Len(fs) + 1] = n
      /\ \A k \in DOMAIN to : k \in DOMAIN fs \/ k = Len(fs) + 1
      /\ DOMAIN at = DOMAIN fs
    BY <1>1, <1>2
<1>. HIDE DEF to
<1>5. \A m \in P \cup {n} : \E k \in DOMAIN to : to[k] = m
    BY <1>1, <1>4
<1>6. \A k, l \in DOMAIN to : k < l => to[k] < to[l]
    <2>. TAKE k, l \in DOMAIN to
    <2>. HAVE k < l
    <2>1. k \in DOMAIN fs
        BY <1>2, <1>3, <1>4
    <2>2. CASE l \in DOMAIN fs
        BY <1>1, <1>4, <2>1, <2>2
    <2>3. CASE l = Len(fs) + 1
        BY <1>4, <2>1, <2>3
    <2>. QED
        BY <1>4, <2>2, <2>3
<1>7. \A k \in DOMAIN to : gs[k] = DxFiles[to[k]]
    BY <1>1, <1>2, <1>4
<1>. QED
    BY <1>3, <1>5, <1>6, <1>7 DEF DxHolding, gs

\* What depends on the call alone stays.
LEMMA DxSame ==
    ASSUME dxCall' = dxCall
    PROVE  /\ DxFiles' = DxFiles /\ \A f : dex!shardFn(f)' = dex!shardFn(f)
           /\ \A i, m : DxPlaces(i, m)' = DxPlaces(i, m)
           /\ \A fs, P : DxHolding(fs, P)' = DxHolding(fs, P)
<1>1. DxFiles' = DxFiles
    BY DEF DxFiles
<1>2. \A f : dex!shardFn(f)' = dex!shardFn(f)
    BY DEF dex!shardFn
<1>3. \A i, m : DxPlaces(i, m)' = DxPlaces(i, m)
    BY <1>1, <1>2 DEF DxPlaces
<1>4. \A fs, P : DxHolding(fs, P)' = DxHolding(fs, P)
    BY <1>1 DEF DxHolding
<1>. QED
    BY <1>1, <1>2, <1>3, <1>4

LEMMA DxInitial == Init => DxInv
<1>. SUFFICES ASSUME Init PROVE DxInv
    OBVIOUS
<1>1. dex!Init
    BY DEF Init
<1>2. /\ dxCall = dex!NoCall /\ dxPhase = "idle" /\ dxNext = 1 /\ dxOuts = << >>
      /\ dxFailed = FALSE
    BY <1>1 DEF dex!Init
<1>3. dxCall.sc = 0 /\ DxFiles = << >> /\ Len(DxFiles) = 0
    BY <1>2 DEF dex!NoCall, DxFiles
<1>4. dxOuts \in [1..dxCall.sc -> DxOut]
    BY <1>2, <1>3
<1>4a. dxNext \in 1..(Len(DxFiles) + 1)
    BY <1>2, <1>3
<1>5. DxTyped
    <2>. QED
        BY <1>2, <1>4, <1>4a DEF DxTyped
<1>. QED
    BY <1>2, <1>3, <1>5 DEF DxInv, DxFresh, DxSharded, DxThere, DxTogether, DxPlaced

LEMMA DxRun == DxInv /\ dex!Run => DxInv'
<1>. SUFFICES ASSUME DxInv, dex!Run PROVE DxInv'
    OBVIOUS
<1>1. /\ dxPhase = "idle" /\ dxPhase' = "start" /\ dxCall' \in DexCalls
      /\ dxOuts' = [i \in 1..dxCall'.sc |-> dex!Absent]
      /\ dxNext' = dxNext /\ dxFailed' = dxFailed
    BY DEF dex!Run
<1>2. dxCall'.sc \in Nat \ {0} /\ DxFiles' \in Seq(DxFile)
    BY <1>1, DexCallsAssumption DEF DxFiles, DxFile
<1>3. dxNext' = 1 /\ dxFailed' = FALSE
    BY <1>1 DEF DxInv, DxFresh
<1>4. dex!Absent \in DxOut /\ dex!Absent.state = "absent" /\ dex!Absent.files = << >>
    <2>. HIDE DEF DxFile
    <2>. QED
        BY DEF dex!Absent, DxOut
<1>5. /\ dxOuts' \in [1..dxCall'.sc -> DxOut]
      /\ \A i \in 1..dxCall'.sc : dxOuts'[i].state = "absent" /\ dxOuts'[i].files = << >>
    BY <1>1, <1>4
<1>6. dxNext' \in 1..(Len(DxFiles') + 1)
    BY <1>2, <1>3
<1>7. dxCall' # dex!NoCall
    BY <1>2 DEF dex!NoCall
<1>8. DxTyped'
    BY <1>1, <1>3, <1>5, <1>6, <1>7 DEF DxTyped
<1>9. DxTogether'
    BY <1>5 DEF DxTogether
<1>. QED
    BY <1>1, <1>3, <1>5, <1>8, <1>9 DEF DxInv, DxFresh, DxSharded, DxThere, DxPlaced

\* The steps that only go on, or give up.
LEMMA DxGoesOn ==
    ASSUME DxInv,
           \/ dex!Fatal \/ dex!hasCode \/ dex!desugarJar \/ dex!DexToShard \/ dex!NoDexFile
           \/ dex!ShardDone \/ dex!Return \/ UNCHANGED dxVars
    PROVE  DxInv'
<1>1. /\ dxCall' = dxCall /\ dxNext' = dxNext /\ dxOuts' = dxOuts /\ dxFailed' = dxFailed
      /\ \/ dxPhase # "idle" /\ dxPhase' = "error"
         \/ /\ dxPhase = "start" /\ dxPhase' \in {"empty", "desugar", "dex"}
            /\ dxPhase' = "empty" => ~dxCall.code
         \/ dxPhase = "desugar" /\ dxPhase' = "dex"
         \/ dxPhase = "dex" /\ dxPhase' = "create" /\ dxCall.sc > 1
         \/ dxPhase = "shard" /\ dxPhase' = "close" /\ dxNext > Len(DxFiles)
         \/ dxPhase = "close" /\ dxPhase' = "ok" /\ ~dxFailed
         \/ dxPhase' = dxPhase
    BY DEF dex!Fatal, dex!hasCode, dex!desugarJar, dex!DexToShard, dex!NoDexFile,
           dex!ShardDone, dex!Return, dex!Sharding, dex!Go, dxVars, DxFiles
<1>2. /\ DxTyped /\ dxCall.sc \in Nat /\ dxCall.code \in BOOLEAN /\ dxFailed \in BOOLEAN
      /\ dxPhase # "idle" => dxCall.sc > 0
      /\ Len(DxFiles) \in Nat /\ dxNext \in 1..(Len(DxFiles) + 1)
    BY DxCallFacts DEF DxInv, DxTyped
<1>3. DxFiles' = DxFiles /\ \A f : dex!shardFn(f)' = dex!shardFn(f)
    BY <1>1, DxSame
<1>4. DxTyped'
    BY <1>1, <1>3 DEF DxInv, DxTyped
<1>5. DxFresh'
    BY <1>1 DEF DxInv, DxFresh
<1>6. DxSharded' => DxSharded \/ dxPhase' = dxPhase
    BY <1>1, <1>2 DEF DxSharded
<1>7. DxThere'
    BY <1>1, <1>2, <1>6 DEF DxInv, DxThere, DxSharded
<1>8. DxTogether'
    BY <1>1, <1>3 DEF DxInv, DxTogether
<1>9. \A i : DxHolding(dxOuts[i].files, DxPlaces(i, dxNext))'
                = DxHolding(dxOuts[i].files, DxPlaces(i, dxNext))
    <2>. TAKE i
    <2>1. /\ \A j, m : DxPlaces(j, m)' = DxPlaces(j, m)
          /\ \A fs, P : DxHolding(fs, P)' = DxHolding(fs, P)
        BY <1>1, DxSame
    <2>. DEFINE P == DxPlaces(i, dxNext)
                fs == dxOuts[i].files
    <2>2. P' = P /\ fs' = fs
        BY <1>1, <2>1
    <2>. QED
        BY <1>1, <2>1, <2>2 DEF DxHolding, DxFiles
<1>10. DxPlaced'
    BY <1>1, <1>2, <1>3, <1>6, <1>9 DEF DxInv, DxPlaced, DxSharded
<1>. QED
    BY <1>4, <1>5, <1>7, <1>8, <1>10 DEF DxInv

\* The first output that is not there is the last one only when it alone is missing.
LEMMA DxFirstAbsent ==
    ASSUME DxTyped, dxCall.sc \in Nat, dxCall.sc > 0, dxOuts[dxCall.sc].state = "absent",
           dex!FirstAbsent = dxCall.sc
    PROVE  \A j \in 1..dxCall.sc : j # dxCall.sc => dxOuts[j].state # "absent"
<1>. DEFINE T == {i \in DOMAIN dxOuts : dxOuts[i].state = "absent"}
<1>1. DOMAIN dxOuts = 1..dxCall.sc
    BY DEF DxTyped
<1>2. T \subseteq Nat /\ T # {}
    BY <1>1
<1>3. \A j \in T : dxCall.sc <= j
    BY <1>2, DxMin DEF dex!FirstAbsent
<1>. QED
    BY <1>1, <1>3

\* With one output, or without code.
LEMMA DxOne == DxInv /\ (dex!DexToOutput \/ dex!EmptyZip) => DxInv'
<1>. SUFFICES ASSUME DxInv, dex!DexToOutput \/ dex!EmptyZip PROVE DxInv'
    OBVIOUS
<1>1. /\ DxTyped /\ dxCall.sc \in Nat /\ DxFiles \in Seq(DxFile)
      /\ dxPhase # "idle" => dxCall.sc > 0
    BY DxCallFacts DEF DxInv
<1>2. CASE dex!DexToOutput
    <2>1. /\ dxCall.sc = 1 /\ dxPhase = "dex" /\ dxPhase' = "ok"
          /\ dxOuts' = << [state |-> "closed", files |-> DxFiles] >>
          /\ dxCall' = dxCall /\ dxNext' = dxNext /\ dxFailed' = dxFailed
        BY <1>2 DEF dex!DexToOutput, dex!Go, DxFiles
    <2>. DEFINE o == [state |-> "closed", files |-> DxFiles]
    <2>2. o \in DxOut /\ o.state = "closed"
        BY <1>1 DEF DxOut
    <2>. HIDE DEF o
    <2>3. dxOuts' \in [1..1 -> DxOut] /\ \A i \in 1..1 : dxOuts'[i] = o
        <3>1. dxOuts' = << o >>
            BY <2>1 DEF o
        <3>. HIDE DEF DxOut
        <3>. QED
            BY <2>2, <3>1
    <2>4. DxFiles' = DxFiles
        BY <2>1, DxSame
    <2>5. DxTyped'
        BY <1>1, <2>1, <2>3, <2>4 DEF DxTyped
    <2>. QED
        BY <2>1, <2>2, <2>3, <2>5 DEF DxInv, DxFresh, DxSharded, DxThere, DxTogether, DxPlaced
<1>3. CASE dex!EmptyZip
    <2>. DEFINE i == dex!FirstAbsent
    <2>1. /\ dxPhase = "empty" /\ dxPhase' = IF i = dxCall.sc THEN "ok" ELSE dxPhase
          /\ dxOuts' = [dxOuts EXCEPT ![i].state = "closed"]
          /\ dxCall' = dxCall /\ dxNext' = dxNext /\ dxFailed' = dxFailed
        BY <1>3 DEF dex!EmptyZip
    <2>1a. i = dex!FirstAbsent
        OBVIOUS
    <2>. HIDE DEF i
    <2>2. /\ dxOuts' \in [1..dxCall.sc -> DxOut] /\ dxCall.sc > 0
          /\ \A j \in 1..dxCall.sc :
                /\ dxOuts'[j].files = dxOuts[j].files
                /\ j # i => dxOuts'[j].state = dxOuts[j].state
                /\ j = i => dxOuts'[j].state = "closed"
        BY <1>1, <2>1 DEF DxTyped, DxOut
    <2>3. i # dxCall.sc => dxOuts'[dxCall.sc].state = "absent"
        BY <1>1, <2>1, <2>2 DEF DxInv, DxThere
    <2>4. i = dxCall.sc => \A j \in 1..dxCall.sc : dxOuts'[j].state # "absent"
        BY <1>1, <2>1, <2>1a, <2>2, DxFirstAbsent DEF DxInv, DxThere
    <2>5. DxFiles' = DxFiles /\ \A f : dex!shardFn(f)' = dex!shardFn(f)
        BY <2>1, DxSame
    <2>6. DxTyped'
        BY <1>1, <2>1, <2>2, <2>5 DEF DxTyped
    <2>7. DxTogether' /\ DxFresh'
        BY <2>1, <2>2, <2>5 DEF DxInv, DxTogether, DxFresh
    <2>8. dxCall.code = FALSE
        BY <2>1 DEF DxInv, DxPlaced
    <2>. QED
        BY <2>1, <2>3, <2>4, <2>6, <2>7, <2>8 DEF DxInv, DxSharded, DxThere, DxPlaced
<1>. QED
    BY <1>2, <1>3

LEMMA DxCreate == DxInv /\ dex!Create => DxInv'
<1>. SUFFICES ASSUME DxInv, dex!Create PROVE DxInv'
    OBVIOUS
<1>1. /\ DxTyped /\ dxCall.sc \in Nat
      /\ dxPhase # "idle" => dxCall.sc > 0
    BY DxCallFacts DEF DxInv
<1>. DEFINE i == dex!FirstAbsent
<1>2. /\ dxPhase = "create" /\ dxPhase' = IF i = dxCall.sc THEN "shard" ELSE dxPhase
      /\ dxOuts' = [dxOuts EXCEPT ![i].state = "open"]
      /\ dxCall' = dxCall /\ dxNext' = dxNext /\ dxFailed' = dxFailed
    BY DEF dex!Create
<1>2a. i = dex!FirstAbsent
    OBVIOUS
<1>. HIDE DEF i
<1>3. /\ dxOuts' \in [1..dxCall.sc -> DxOut] /\ dxCall.sc > 0
      /\ \A j \in 1..dxCall.sc :
            /\ dxOuts'[j].files = dxOuts[j].files
            /\ j # i => dxOuts'[j].state = dxOuts[j].state
            /\ j = i => dxOuts'[j].state = "open"
    BY <1>1, <1>2 DEF DxTyped, DxOut
<1>4. i # dxCall.sc => dxOuts'[dxCall.sc].state = "absent"
    BY <1>1, <1>2, <1>3 DEF DxInv, DxThere
<1>5. i = dxCall.sc => \A j \in 1..dxCall.sc : dxOuts'[j].state # "absent"
    BY <1>1, <1>2, <1>2a, <1>3, DxFirstAbsent DEF DxInv, DxThere
<1>6. /\ DxFiles' = DxFiles /\ \A f : dex!shardFn(f)' = dex!shardFn(f)
      /\ \A k, m : DxPlaces(k, m)' = DxPlaces(k, m)
      /\ \A fs, P : DxHolding(fs, P)' = DxHolding(fs, P)
    BY <1>2, DxSame
<1>7. DxTyped'
    BY <1>1, <1>2, <1>3, <1>6 DEF DxTyped
<1>8. DxTogether' /\ DxFresh'
    BY <1>2, <1>3, <1>6 DEF DxInv, DxTogether, DxFresh
<1>9. /\ dxNext = 1 /\ dxFailed = FALSE
      /\ \A j \in 1..dxCall.sc : dxOuts'[j].files = << >>
    BY <1>2, <1>3 DEF DxInv, DxFresh
<1>10. \A j \in 1..dxCall.sc : DxHolding(dxOuts'[j].files, DxPlaces(j, dxNext'))
    <2>1. \A j : DxPlaces(j, dxNext') = {}
        BY <1>2, <1>9 DEF DxPlaces
    <2>2. DxHolding(<< >>, {})
        <3>. DEFINE at == [k \in DOMAIN << >> |-> k]
        <3>1. DOMAIN << >> = {}
            OBVIOUS
        <3>2. at \in [DOMAIN << >> -> {}] /\ DOMAIN at = {}
            BY <3>1
        <3>. HIDE DEF at
        <3>. QED
            BY <3>2 DEF DxHolding
    <2>. QED
        BY <1>9, <2>1, <2>2
<1>11. DxPlaced'
    <2>. DEFINE H == \A j \in 1..dxCall.sc : DxHolding(dxOuts[j].files, DxPlaces(j, dxNext))
    <2>1. H'
        BY <1>2, <1>6, <1>10 DEF DxHolding
    <2>. HIDE DEF H
    <2>. QED
        BY <1>2, <2>1 DEF DxPlaced, DxSharded, H
<1>12. DxThere'
    BY <1>2, <1>4, <1>5 DEF DxThere, DxSharded
<1>. QED
    BY <1>7, <1>8, <1>11, <1>12 DEF DxInv

\* The file at hand goes to the output of its shard.
LEMMA DxAppends ==
    ASSUME DxInv, dex!Sharding, dex!ToShard, dxCall' = dxCall
    PROVE  LET f == DxFiles[dxNext]
               s == dex!shardFn(f)
           IN /\ f \in DxFile /\ s \in 1..dxCall.sc
              /\ dxOuts' \in [1..dxCall.sc -> DxOut]
              /\ \A j \in 1..dxCall.sc :
                    /\ dxOuts'[j].state = dxOuts[j].state
                    /\ dxOuts'[j].files = IF j = s THEN Append(dxOuts[j].files, f)
                                         ELSE dxOuts[j].files
              /\ DxTogether'
<1>. DEFINE f == DxFiles[dxNext]
            s == dex!shardFn(f)
<1>1. DxTyped /\ DxTogether /\ DxFiles \in Seq(DxFile) /\ dxCall.sc \in Nat
    BY DxCallFacts DEF DxInv
<1>2. dxNext \in DOMAIN DxFiles
    BY <1>1 DEF DxTyped, dex!Sharding, DxFiles
<1>3. f \in DxFile /\ s \in 1..dxCall.sc
    BY <1>1, <1>2, DxShards
<1>4. dxOuts' = [dxOuts EXCEPT ![s].files = Append(@, f)]
    BY DEF dex!ToShard, dex!File, DxFiles
<1>5. \A g : dex!shardFn(g)' = dex!shardFn(g)
    BY DxSame
<1>6. s = dex!shardFn(f)
    OBVIOUS
<1>. HIDE DEF f, s
<1>7. /\ dxOuts' \in [1..dxCall.sc -> DxOut]
      /\ \A j \in 1..dxCall.sc :
            /\ dxOuts'[j].state = dxOuts[j].state
            /\ dxOuts'[j].files = IF j = s THEN Append(dxOuts[j].files, f) ELSE dxOuts[j].files
            /\ dxOuts[j].files \in Seq(DxFile)
    <2>. DEFINE fs == Append(dxOuts[s].files, f)
    <2>1. \A j \in 1..dxCall.sc : dxOuts[j].files \in Seq(DxFile)
        BY <1>1 DEF DxTyped, DxOut
    <2>2. dxOuts[s].files \in Seq(DxFile)
        BY <1>3, <2>1
    <2>3. fs \in Seq(DxFile)
        BY <1>3, <2>2
    <2>4. dxOuts' = [dxOuts EXCEPT ![s].files = fs]
        BY <1>4
    <2>5. fs = Append(dxOuts[s].files, f)
        OBVIOUS
    <2>. HIDE DEF fs
    <2>6. /\ dxOuts' \in [1..dxCall.sc -> DxOut]
          /\ \A j \in 1..dxCall.sc :
                /\ dxOuts'[j].state = dxOuts[j].state
                /\ dxOuts'[j].files = IF j = s THEN fs ELSE dxOuts[j].files
        BY <1>1, <1>3, <2>3, <2>4 DEF DxTyped, DxOut
    <2>. QED
        BY <2>1, <2>5, <2>6
<1>8. ASSUME dxCall.sc > 1, NEW i \in 1..dxCall.sc, NEW k \in DOMAIN dxOuts'[i].files
      PROVE  dex!shardFn(dxOuts'[i].files[k]) = i
    <2>1. CASE i = s
        <3>. DEFINE fs == dxOuts[i].files
        <3>1. fs \in Seq(DxFile) /\ dxOuts'[i].files = Append(fs, f)
            BY <1>7, <2>1
        <3>2. \A l \in DOMAIN fs : dex!shardFn(fs[l]) = i
            BY <1>1, <1>8 DEF DxTogether
        <3>. HIDE DEF fs
        <3>3. \/ k \in DOMAIN fs /\ dxOuts'[i].files[k] = fs[k]
              \/ dxOuts'[i].files[k] = f
            BY <1>3, <1>8, <3>1
        <3>. QED
            BY <1>6, <2>1, <3>2, <3>3
    <2>2. CASE i # s
        BY <1>1, <1>7, <1>8, <2>2 DEF DxTogether
    <2>. QED
        BY <2>1, <2>2
<1>9. DxTogether'
    BY <1>5, <1>8 DEF DxTogether
<1>. QED
    BY <1>3, <1>7, <1>9 DEF f, s

LEMMA DxSkip == DxInv /\ dex!SkipFile => DxInv'
<1>. SUFFICES ASSUME DxInv, dex!SkipFile PROVE DxInv'
    OBVIOUS
<1>1. /\ dxPhase = "shard" /\ dxNext <= Len(DxFiles) /\ DxFiles[dxNext].regular # TRUE
      /\ dxNext' = dxNext + 1 /\ dxPhase' = dxPhase /\ dxCall' = dxCall
      /\ dxOuts' = dxOuts /\ dxFailed' = dxFailed
    BY DEF dex!SkipFile, dex!Sharding, dex!File, DxFiles
<1>2. Len(DxFiles) \in Nat /\ dxNext \in 1..(Len(DxFiles) + 1) /\ dxNext \in Nat
    BY DxCallFacts DEF DxInv, DxTyped
<1>3. /\ DxFiles' = DxFiles /\ \A f : dex!shardFn(f)' = dex!shardFn(f)
      /\ \A fs, P : DxHolding(fs, P)' = DxHolding(fs, P)
    BY <1>1, DxSame
<1>4. DxTyped'
    BY <1>1, <1>2, <1>3 DEF DxInv, DxTyped
<1>5. DxFresh' /\ DxThere' /\ DxTogether'
    BY <1>1, <1>3 DEF DxInv, DxFresh, DxThere, DxSharded, DxTogether
<1>6. ASSUME NEW i PROVE DxPlaces(i, dxNext)' = DxPlaces(i, dxNext)
    <2>1. \A n : n \in 1..(dxNext' - 1) <=> n \in 1..(dxNext - 1) \/ n = dxNext
        BY <1>1, <1>2
    <2>. QED
        BY <1>1, <1>3, <2>1 DEF DxPlaces
<1>7. DxPlaced'
    <2>1. ASSUME NEW i, DxHolding(dxOuts[i].files, DxPlaces(i, dxNext))
          PROVE  DxHolding(dxOuts[i].files, DxPlaces(i, dxNext))'
        <3>1. DxPlaces(i, dxNext)' = DxPlaces(i, dxNext) /\ dxOuts'[i].files = dxOuts[i].files
            BY <1>1, <1>6
        <3>. QED
            BY <1>3, <2>1, <3>1 DEF DxHolding
    <2>. QED
        BY <1>1, <2>1 DEF DxInv, DxPlaced, DxSharded
<1>. QED
    BY <1>4, <1>5, <1>7 DEF DxInv

LEMMA DxShard == DxInv /\ dex!ShardFile => DxInv'
<1>. SUFFICES ASSUME DxInv, dex!ShardFile PROVE DxInv'
    OBVIOUS
<1>. DEFINE f == DxFiles[dxNext]
            s == dex!shardFn(f)
<1>1. /\ dxPhase = "shard" /\ dxNext <= Len(DxFiles) /\ f.regular
      /\ dxNext' = dxNext + 1 /\ dxPhase' = dxPhase /\ dxCall' = dxCall /\ dxFailed' = dxFailed
      /\ dex!Sharding /\ dex!ToShard
    BY DEF dex!ShardFile, dex!Sharding, dex!File, DxFiles
<1>2. /\ f \in DxFile /\ s \in 1..dxCall.sc
      /\ dxOuts' \in [1..dxCall.sc -> DxOut]
      /\ \A j \in 1..dxCall.sc :
            /\ dxOuts'[j].state = dxOuts[j].state
            /\ dxOuts'[j].files = IF j = s THEN Append(dxOuts[j].files, f) ELSE dxOuts[j].files
      /\ DxTogether'
    BY <1>1, DxAppends
<1>2a. f.regular = TRUE
    BY <1>1, <1>2 DEF DxFile
<1>2b. f = DxFiles[dxNext] /\ s = dex!shardFn(f)
    OBVIOUS
<1>. HIDE DEF f, s
<1>3. /\ Len(DxFiles) \in Nat /\ dxNext \in 1..(Len(DxFiles) + 1) /\ dxNext \in Nat
      /\ \A j \in 1..dxCall.sc : dxOuts[j].files \in Seq(DxFile)
    BY DxCallFacts DEF DxInv, DxTyped, DxOut
<1>4. /\ DxFiles' = DxFiles /\ \A g : dex!shardFn(g)' = dex!shardFn(g)
      /\ \A fs, P : DxHolding(fs, P)' = DxHolding(fs, P)
    BY <1>1, DxSame
<1>5. DxTyped'
    BY <1>1, <1>2, <1>3, <1>4 DEF DxInv, DxTyped
<1>6. DxFresh' /\ DxThere'
    BY <1>1, <1>2 DEF DxInv, DxFresh, DxThere, DxSharded
<1>7. ASSUME NEW i
      PROVE  DxPlaces(i, dxNext)' = IF i = s THEN DxPlaces(i, dxNext) \cup {dxNext}
                                    ELSE DxPlaces(i, dxNext)
    <2>1. \A n : n \in 1..(dxNext' - 1) <=> n \in 1..(dxNext - 1) \/ n = dxNext
        BY <1>1, <1>3
    <2>. QED
        BY <1>2a, <1>2b, <1>4, <2>1 DEF DxPlaces
<1>8. ASSUME NEW i \in 1..dxCall.sc, DxHolding(dxOuts[i].files, DxPlaces(i, dxNext))
      PROVE  DxHolding(dxOuts[i].files, DxPlaces(i, dxNext))'
    <2>. DEFINE fs == dxOuts[i].files
                P == DxPlaces(i, dxNext)
    <2>1. fs \in Seq(DxFile) /\ P \subseteq Nat /\ (\A p \in P : p < dxNext) /\ DxHolding(fs, P)
        BY <1>3, <1>8 DEF DxPlaces
    <2>2. CASE i = s
        <3>1. DxHolding(Append(fs, f), P \cup {dxNext})
            BY <1>2b, <1>3, <2>1, DxHoldsNext
        <3>2. fs' = Append(fs, f) /\ P' = P \cup {dxNext}
            BY <1>2, <1>7, <2>2
        <3>. QED
            BY <1>4, <3>1, <3>2 DEF DxHolding
    <2>3. CASE i # s
        <3>1. fs' = fs /\ P' = P
            BY <1>2, <1>7, <2>3
        <3>. QED
            BY <1>4, <2>1, <3>1 DEF DxHolding
    <2>. QED
        BY <2>2, <2>3
<1>9. DxPlaced'
    BY <1>1, <1>8 DEF DxInv, DxPlaced, DxSharded
<1>. QED
    BY <1>2, <1>5, <1>6, <1>9 DEF DxInv

LEMMA DxShardFails == DxInv /\ dex!ShardFails => DxInv'
<1>. SUFFICES ASSUME DxInv, dex!ShardFails PROVE DxInv'
    OBVIOUS
<1>1. /\ dxPhase \in {"create", "shard"} /\ dxFailed' = TRUE /\ dxPhase' = "close"
      /\ dxOuts' = dxOuts \/ (dex!Sharding /\ dex!ToShard)
      /\ dxCall' = dxCall /\ dxNext' = dxNext
    BY DEF dex!ShardFails
<1>2. DxFiles' = DxFiles /\ \A g : dex!shardFn(g)' = dex!shardFn(g)
    BY <1>1, DxSame
<1>3. dxOuts' \in [1..dxCall.sc -> DxOut] /\ DxTogether'
    <2>1. CASE dxOuts' = dxOuts
        BY <1>1, <1>2, <2>1 DEF DxInv, DxTyped, DxTogether
    <2>2. CASE dex!Sharding /\ dex!ToShard
        BY <1>1, <2>2, DxAppends
    <2>. QED
        BY <1>1, <2>1, <2>2
<1>4. DxTyped'
    BY <1>1, <1>2, <1>3 DEF DxInv, DxTyped
<1>. QED
    BY <1>1, <1>3, <1>4 DEF DxInv, DxFresh, DxThere, DxSharded, DxPlaced

LEMMA DxCloses == DxInv /\ (dex!CloseOut \/ dex!CloseOutFails) => DxInv'
<1>. SUFFICES ASSUME DxInv, dex!CloseOut \/ dex!CloseOutFails PROVE DxInv'
    OBVIOUS
<1>. DEFINE i == dex!LastOpen
<1>1. PICK state \in {"closed", "cut"} : dxOuts' = [dxOuts EXCEPT ![i].state = state]
    BY DEF dex!CloseOut, dex!CloseOutFails
<1>2. /\ dxPhase = "close" /\ dxPhase' = dxPhase /\ dxCall' = dxCall /\ dxNext' = dxNext
      /\ dxFailed' = dxFailed
    BY DEF dex!CloseOut, dex!CloseOutFails
<1>. HIDE DEF i
<1>3. DxTyped /\ dxCall.sc \in Nat
    BY DxCallFacts DEF DxInv
<1>4. /\ dxOuts' \in [1..dxCall.sc -> DxOut]
      /\ \A j \in 1..dxCall.sc :
            /\ dxOuts'[j].files = dxOuts[j].files
            /\ dxOuts[j].state # "absent" => dxOuts'[j].state # "absent"
    BY <1>1, <1>3 DEF DxTyped, DxOut
<1>5. /\ DxFiles' = DxFiles /\ \A g : dex!shardFn(g)' = dex!shardFn(g)
      /\ \A k, m : DxPlaces(k, m)' = DxPlaces(k, m)
      /\ \A fs, P : DxHolding(fs, P)' = DxHolding(fs, P)
    BY <1>2, DxSame
<1>6. DxTyped'
    BY <1>2, <1>3, <1>4, <1>5 DEF DxTyped
<1>7. DxFresh' /\ DxThere' /\ DxTogether'
    BY <1>2, <1>4, <1>5 DEF DxInv, DxFresh, DxThere, DxSharded, DxTogether
<1>8. ASSUME NEW j \in 1..dxCall.sc, DxHolding(dxOuts[j].files, DxPlaces(j, dxNext))
      PROVE  DxHolding(dxOuts[j].files, DxPlaces(j, dxNext))'
    <2>. DEFINE fs == dxOuts[j].files
                P == DxPlaces(j, dxNext)
    <2>1. fs' = fs /\ P' = P
        BY <1>2, <1>4, <1>5
    <2>. QED
        BY <1>5, <1>8, <2>1 DEF DxHolding
<1>9. DxPlaced'
    BY <1>2, <1>5, <1>8 DEF DxInv, DxPlaced, DxSharded
<1>. QED
    BY <1>6, <1>7, <1>9 DEF DxInv

LEMMA DxInductive == DxInv /\ [dex!Next]_dxVars => DxInv'
BY DxRun, DxGoesOn, DxOne, DxCreate, DxSkip, DxShard, DxShardFails, DxCloses
   DEF dex!Next, dex!zipShard

LEMMA DxImplies == DxInv => Partitioned
<1>. SUFFICES ASSUME DxInv PROVE Partitioned
    OBVIOUS
<1>1. /\ DxTyped /\ DxFiles \in Seq(DxFile) /\ dxCall.sc \in Nat /\ dxCall.code \in BOOLEAN
      /\ DOMAIN dxOuts = 1..dxCall.sc
      /\ \A i \in 1..dxCall.sc : dxOuts[i].files \in Seq(DxFile)
    BY DxCallFacts DEF DxInv, DxTyped, DxOut
<1>2. dex!Partitioned
    <2>. SUFFICES ASSUME dxPhase = "ok"
                  PROVE  /\ \A i \in DOMAIN dxOuts : dxOuts[i].state # "absent"
                         /\ dxCall.code /\ dxCall.sc > 1 =>
                              \E shard \in [dex!Regular -> DOMAIN dxOuts] :
                                  \A i \in DOMAIN dxOuts :
                                      dex!Holds(i, {n \in dex!Regular : shard[n] = i})
        BY DEF dex!Partitioned
    <2>1. \A i \in DOMAIN dxOuts : dxOuts[i].state # "absent"
        BY <1>1 DEF DxInv, DxThere, DxSharded
    <2>2. ASSUME dxCall.code, dxCall.sc > 1
          PROVE  \E shard \in [dex!Regular -> DOMAIN dxOuts] :
                     \A i \in DOMAIN dxOuts : dex!Holds(i, {n \in dex!Regular : shard[n] = i})
        <3>1. dxCall.code = TRUE /\ dxNext = Len(DxFiles) + 1
            BY <1>1, <2>2 DEF DxInv, DxPlaced
        <3>2. \A i \in 1..dxCall.sc : DxHolding(dxOuts[i].files, DxPlaces(i, dxNext))
            BY <2>2, <3>1 DEF DxInv, DxPlaced, DxSharded
        <3>3. /\ dex!Regular = {n \in DOMAIN DxFiles : DxFiles[n].regular}
              /\ DOMAIN DxFiles = 1..Len(DxFiles) /\ Len(DxFiles) \in Nat
              /\ \A n \in DOMAIN DxFiles : DxFiles[n].regular \in BOOLEAN
            <4>1. \A n \in DOMAIN DxFiles : DxFiles[n] \in DxFile
                BY <1>1
            <4>. QED
                BY <1>1, <4>1 DEF dex!Regular, DxFiles, DxFile
        <3>. DEFINE shard == [n \in dex!Regular |-> dex!shardFn(DxFiles[n])]
        <3>4. shard \in [dex!Regular -> DOMAIN dxOuts]
            BY <1>1, <3>3, DxShards
        <3>5. ASSUME NEW i \in DOMAIN dxOuts
              PROVE  dex!Holds(i, {n \in dex!Regular : shard[n] = i})
            <4>1. {n \in dex!Regular : shard[n] = i} = DxPlaces(i, dxNext)
                BY <3>1, <3>3 DEF DxPlaces
            <4>2. DxHolding(dxOuts[i].files, DxPlaces(i, dxNext))
                BY <1>1, <3>2
            <4>. HIDE DEF shard
            <4>. QED
                BY <4>1, <4>2 DEF DxHolding, dex!Holds, DxFiles
        <3>. QED
            BY <3>4, <3>5
    <2>. QED
        BY <2>1, <2>2
<1>3. dex!InnerTogether
    <2>. SUFFICES ASSUME NEW i \in DOMAIN dxOuts, NEW j \in DOMAIN dxOuts,
                         NEW f \in dex!Range(dxOuts[i].files), NEW g \in dex!Range(dxOuts[j].files),
                         NEW mark \in {"$", "-"}, dex!IsPrefix(Append(f.name, mark), g.name)
                  PROVE  i = j
        BY DEF dex!InnerTogether
    <2>1. PICK k \in DOMAIN dxOuts[i].files : f = dxOuts[i].files[k]
        BY DEF dex!Range
    <2>2. PICK l \in DOMAIN dxOuts[j].files : g = dxOuts[j].files[l]
        BY DEF dex!Range
    <2>3. f \in DxFile /\ g \in DxFile
        BY <1>1, <2>1, <2>2
    <2>4. f.name \in Seq(STRING) /\ g.name \in Seq(STRING)
        BY <2>3 DEF DxFile
    <2>5. dex!shardFn(f) = dex!shardFn(g)
        BY <2>4, DxInner DEF dex!shardFn
    <2>6. CASE dxCall.sc > 1
        BY <1>1, <2>1, <2>2, <2>5, <2>6 DEF DxInv, DxTogether
    <2>7. CASE ~(dxCall.sc > 1)
        BY <1>1, <2>7
    <2>. QED
        BY <2>6, <2>7
<1>. QED
    BY <1>2, <1>3 DEF Partitioned

\* Each dex file goes to one output, in order, a class to that of its inner classes, and on
\* success every output is there.
THEOREM DexIsPartitioned == FairSpec => []Partitioned
BY DxInitial, DxSteps, DxInductive, DxImplies, PTL DEF FairSpec

-----------------------------------------------------------------------------
(* nativelib.go: an entry for each library, with what was copied last *)

LEMMA NlSteps == [Next]_vars => [nativelib!Next]_nlVars
BY DEF Next, vars, runCmd, RunFinalrjar, RunGeneratemanifest, RunDex, RunExtractaar,
       RunRepack, RunRjar, RunNativelib, RunShellapk, RunPatch, RunManifest, RunCompile,
       RunLink, RunFlagfile, RunBucketize, RunSession, ArchiveReturns

\* What the libraries of the flags and of the archives are.
NlZipLib == [path : STRING, arch : STRING, base : STRING, body : STRING]
NlLib == [path : STRING \cup {nativelib!None}, arch : STRING, base : STRING, body : STRING]
NlTyped(c) ==
    /\ c.libs \in Seq([arch : STRING, base : STRING, body : STRING])
    /\ c.zips \in Seq(Seq(NlZipLib))
    /\ \A z \in DOMAIN c.zips : \A i \in DOMAIN c.zips[z] : c.zips[z][i].path # nativelib!None

\* The libraries of the flags and the first archives.
NlGiven(c) == [i \in DOMAIN c.libs |-> nativelib!Given(c.libs[i])]
NlFound(c) ==
    LET all[n \in 0..Len(c.zips)] ==
            IF n = 0 THEN NlGiven(c) ELSE all[n - 1] \o c.zips[n]
    IN all

LEMMA NlGivenIs ==
    ASSUME NEW c, NlTyped(c)
    PROVE  NlGiven(c) \in Seq(NlLib) /\ \A i \in DOMAIN NlGiven(c) : NlGiven(c)[i].path = nativelib!None
<1>1. \A l \in [arch : STRING, base : STRING, body : STRING] :
          nativelib!Given(l) \in NlLib /\ nativelib!Given(l).path = nativelib!None
    BY DEF nativelib!Given, NlLib
<1>2. Len(c.libs) \in Nat /\ DOMAIN c.libs = 1..Len(c.libs)
    BY DEF NlTyped
<1>3. \A i \in DOMAIN c.libs :
          c.libs[i] \in [arch : STRING, base : STRING, body : STRING]
    <2>. DEFINE L == [arch : STRING, base : STRING, body : STRING]
    <2>1. c.libs \in Seq(L)
        BY DEF NlTyped
    <2>. HIDE DEF L
    <2>2. \A i \in DOMAIN c.libs : c.libs[i] \in L
        BY <2>1
    <2>. QED
        BY <2>2 DEF L
<1>4. NlGiven(c) \in [1..Len(c.libs) -> NlLib]
    BY <1>1, <1>2, <1>3 DEF NlGiven
<1>5. NlGiven(c) \in Seq(NlLib)
    BY <1>2, <1>4
<1>. QED
    BY <1>1, <1>3, <1>5 DEF NlGiven

LEMMA NlFoundIs ==
    ASSUME NEW c, NlTyped(c)
    PROVE  /\ NlFound(c)[0] = NlGiven(c)
           /\ \A k \in 1..Len(c.zips) : NlFound(c)[k] = NlFound(c)[k - 1] \o c.zips[k]
           /\ \A k \in 0..Len(c.zips) : NlFound(c)[k] \in Seq(NlLib)
<1>. DEFINE zips == c.zips
            n == Len(zips)
            V == Seq(NlLib)
            Add(k, v) == v \o zips[k]
            step == [kv \in (1..n) \X V |-> Add(kv[1], kv[2])]
            Def(h) == [k \in 0..n |-> IF k = 0 THEN NlGiven(c) ELSE Add(k, h[k - 1])]
            f == CHOOSE e : e = Def(e)
<1>1. n \in Nat
    BY DEF NlTyped
<1>2. NlGiven(c) \in V
    BY NlGivenIs
<1>3. \A k \in 1..n, v \in V : Add(k, v) \in V
    <2>1. \A k \in 1..n : zips[k] \in Seq(NlZipLib)
        BY DEF NlTyped
    <2>2. NlZipLib \subseteq NlLib
        BY DEF NlZipLib, NlLib
    <2>3. \A k \in 1..n : zips[k] \in Seq(NlLib)
        BY <2>1, <2>2
    <2>. QED
        BY <2>3
<1>4. \A k \in 1..n, v \in V : step[<<k, v>>] = Add(k, v) /\ step[<<k, v>>] \in V
    BY <1>3
<1>. HIDE DEF step, V, Add
<1>5. PICK h : Recursive(h, n, V, NlGiven(c), step)
    <2>1. Steps(n, V, step)
        BY <1>4 DEF Steps
    <2>. QED
        BY <1>1, <1>2, <2>1, PrimitiveRecursion
<1>6. h = Def(h)
    <2>1. \A k \in 0..n : k # 0 => k \in 1..n
        BY <1>1
    <2>2. ASSUME NEW k \in 1..n PROVE h[k] = Add(k, h[k - 1])
        <3>1. k - 1 \in 0..n
            BY <1>1
        <3>2. h[k - 1] \in V /\ h[k] = step[<<k, h[k - 1]>>]
            BY <1>5, <3>1 DEF Recursive
        <3>. QED
            BY <1>4, <3>2
    <2>. QED
        BY <1>5, <2>1, <2>2 DEF Recursive
<1>7. f = Def(f)
    BY <1>6
<1>8. NlFound(c) = f
    BY DEF NlFound, Add
<1>. HIDE DEF f
<1>9. f[0] = NlGiven(c) /\ \A k \in 1..n : f[k] = Add(k, f[k - 1])
    <2>1. 0 \in 0..n /\ \A k \in 1..n : k \in 0..n /\ k # 0
        BY <1>1
    <2>. QED
        BY <1>7, <2>1
<1>10. \A k \in 0..n : f[k] \in V
    <2>. DEFINE T == {k \in 0..n : f[k] \in V}
    <2>1. 0 \in T
        BY <1>1, <1>2, <1>9
    <2>2. ASSUME NEW k \in 0..n, k # n, k \in T PROVE k + 1 \in T
        <3>1. k + 1 \in 0..n /\ k + 1 \in 1..n /\ (k + 1) - 1 = k
            BY <1>1, <2>2
        <3>2. f[k + 1] = Add(k + 1, f[k])
            BY <1>9, <3>1
        <3>. QED
            BY <1>3, <2>2, <3>1, <3>2
    <2>. HIDE DEF T
    <2>3. 0..n \subseteq T
        BY <1>1, <2>1, <2>2, Reaches
    <2>. QED
        BY <2>3 DEF T
<1>. QED
    BY <1>1, <1>8, <1>9, <1>10 DEF Add, V

\* s are the libraries t: those of the archives with another body.
NlSame(l, m) ==
    /\ l.path = m.path /\ l.arch = m.arch /\ l.base = m.base
    /\ m.path = nativelib!None => l.body = m.body
\* What was extracted of the libraries t.
NlExtractedOf(extracted, t) ==
    \A i \in DOMAIN t : t[i].path # nativelib!None =>
        /\ t[i].path \in DOMAIN extracted
        /\ (\A j \in DOMAIN t : j > i => t[j].path # t[i].path) => extracted[t[i].path] = t[i].body
NlN == Len(nativelib!All)
NlDest(i) == nativelib!Dest(nativelib!All[i])
\* What is copied of the first k libraries.
NlCopied(k) ==
    \A i \in 1..k :
        /\ NlDest(i) \in DOMAIN nlCopied
        /\ (\A j \in (i + 1)..k : NlDest(j) # NlDest(i)) => nlCopied[NlDest(i)] = nativelib!BodyOf(i)

NlZips ==
    LET k == Len(nlCall.zips) - Len(nlTodo)
        t == NlFound(nlCall)[k]
    IN /\ Len(nlTodo) \in 0..Len(nlCall.zips)
       /\ nlTodo = SubSeq(nlCall.zips, k + 1, Len(nlCall.zips))
       /\ Len(nlLibs) = Len(t) /\ DOMAIN nlLibs = DOMAIN t
       /\ \A i \in DOMAIN t : NlSame(nlLibs[i], t[i])
       /\ nlLibs \in Seq(Range(nlLibs))
       /\ NlExtractedOf(nlExtracted, t)
       /\ nlPaths = << >>
NlCopy ==
    LET k == Len(nlPaths) IN
    /\ k \in 0..NlN /\ Len(nlLibs) = NlN - k
    /\ nlLibs \in Seq(Range(nlLibs)) /\ nlPaths \in Seq(Range(nlPaths))
    /\ \A i \in 1..Len(nlLibs) : NlSame(nlLibs[i], nativelib!All[k + i])
    /\ \A i \in 1..k : nlPaths[i] = NlDest(i)
    /\ NlExtractedOf(nlExtracted, nativelib!All)
    /\ NlCopied(k)
\* The order in which the copies are written.
NlSorting(p) ==
    /\ p \in nativelib!Bijection(1..NlN, 1..NlN)
    /\ \A i, j \in 1..NlN : i < j => ~PathBefore(NlDest(p[j]), NlDest(p[i]))
NlWriting(p) ==
    LET k == NlN - Len(nlPaths) IN
    /\ NlSorting(p)
    /\ \A i \in 1..Len(nlPaths) : nlPaths[i] = NlDest(p[k + i])
    /\ ~nlLost =>
          /\ Len(nlOut) = k /\ nlOut \in Seq(Range(nlOut))
          /\ \A i \in 1..k : nlOut[i] = [name |-> NlDest(p[i]), body |-> nativelib!CopyOf(p[i])]
NlWrite ==
    /\ Len(nlPaths) \in 0..NlN /\ nlPaths \in Seq(Range(nlPaths))
    /\ \A i \in 1..NlN : NlDest(i) \in DOMAIN nlCopied /\ nlCopied[NlDest(i)] = nativelib!CopyOf(i)
    /\ \E p : NlWriting(p)

NlInv ==
    /\ nlCall \in LibCalls \cup {nativelib!NoCall}
    /\ nlPhase \in {"idle", "zips", "copy", "write", "ok", "error"}
    /\ Len(nlTodo) <= Len(nlCall.zips)
    /\ Range(nlPaths) \subseteq DOMAIN nlCopied
    /\ nlLost => nlCall.ioFails /\ nlCreated
    /\ nlCreated <=> (nlPhase \in {"write", "ok"})
    /\ nlPhase \in {"idle", "zips", "copy"} => nlOut = << >>
    /\ nlPhase = "idle" => nlExtracted = << >> /\ nlPaths = << >> /\ nlTodo = << >>
    /\ nlPhase = "zips" => NlZips
    /\ nlPhase = "copy" => NlCopy
    /\ nlPhase \in {"write", "ok"} => NlWrite
    /\ nlPhase = "ok" => nlPaths = << >>

LEMMA NlCallFacts ==
    ASSUME NEW c \in LibCalls \cup {nativelib!NoCall}
    PROVE  NlTyped(c)
<1>1. CASE c \in LibCalls
    BY <1>1, LibCallsAssumption DEF NlTyped, NlZipLib
<1>2. CASE c = nativelib!NoCall
    <2>1. c.libs = << >> /\ c.zips = << >>
        BY <1>2 DEF nativelib!NoCall
    <2>. QED
        BY <2>1 DEF NlTyped
<1>. QED
    BY <1>1, <1>2

LEMMA NlAllIs ==
    ASSUME NlTyped(nlCall)
    PROVE  nativelib!All \in Seq(NlLib) /\ NlN \in Nat
           /\ nativelib!All = NlFound(nlCall)[Len(nlCall.zips)]
<1>1. Len(nlCall.zips) \in Nat
    BY DEF NlTyped
<1>2. nativelib!All = NlFound(nlCall)[Len(nlCall.zips)]
    BY Zenon DEF NlFound, nativelib!All, NlGiven
<1>3. nativelib!All \in Seq(NlLib)
    <2>1. Len(nlCall.zips) \in 0..Len(nlCall.zips)
        BY <1>1
    <2>2. NlFound(nlCall)[Len(nlCall.zips)] \in Seq(NlLib)
        BY <2>1, NlFoundIs
    <2>. QED
        BY <1>2, <2>2
<1>. QED
    BY <1>2, <1>3 DEF NlN

\* A set of positions that is not empty has a latest one.
LEMMA NlLatest ==
    ASSUME NEW n \in Nat, NEW S, S \subseteq 1..n, S # {}
    PROVE  nativelib!Latest(S) \in S /\ \A j \in S : j <= nativelib!Latest(S)
<1>. DEFINE T == {n - i : i \in S}
<1>1. T \subseteq Nat /\ T # {}
    <2>1. \A i \in S : i \in 1..n
        OBVIOUS
    <2>2. \A i \in 1..n : n - i \in Nat
        OBVIOUS
    <2>3. \A i \in S : n - i \in Nat
        BY <2>1, <2>2
    <2>. QED
        BY <2>3
<1>2. PICK x \in T : \A y \in T : x <= y
    BY <1>1, LeastOf
<1>3. PICK i \in S : x = n - i
    OBVIOUS
<1>4. \A j \in S : j <= i
    BY <1>2, <1>3
<1>5. \E k \in S : \A j \in S : j <= k
    BY <1>4
<1>. QED
    BY <1>5 DEF nativelib!Latest

USE DEF nativelib!vars

LEMMA NlInitial == Init => NlInv
<1>. SUFFICES ASSUME Init PROVE NlInv
    OBVIOUS
<1>1. /\ nlCall = nativelib!NoCall /\ nlPhase = "idle" /\ nlTodo = << >> /\ nlExtracted = << >>
      /\ nlPaths = << >> /\ nlOut = << >> /\ nlCreated = FALSE /\ nlLost = FALSE
    BY DEF Init, nativelib!Init
<1>2. Len(nlTodo) = 0 /\ Len(nlCall.zips) = 0
    BY <1>1 DEF nativelib!NoCall
<1>3. Range(nlPaths) = {}
    BY <1>1 DEF Range
<1>. QED
    BY <1>1, <1>2, <1>3 DEF NlInv

\* What depends on the call alone stays as it is.
LEMMA NlStays ==
    ASSUME nlCall' = nlCall
    PROVE  /\ nativelib!All' = nativelib!All /\ NlN' = NlN
           /\ \A i : NlDest(i)' = NlDest(i)
           /\ \A i : nativelib!BodyOf(i)' = nativelib!BodyOf(i)
           /\ \A i : nativelib!CopyOf(i)' = nativelib!CopyOf(i)
           /\ \A p : NlSorting(p)' <=> NlSorting(p)
<1>3. nativelib!All' = nativelib!All
    BY Zenon DEF nativelib!All
<1>4. NlN' = NlN /\ \A i : NlDest(i)' = NlDest(i)
    BY <1>3 DEF NlN, NlDest
<1>5. \A i : nativelib!BodyOf(i)' = nativelib!BodyOf(i)
    BY <1>3 DEF nativelib!BodyOf
<1>6. \A i : nativelib!CopyOf(i)' = nativelib!CopyOf(i)
    BY <1>3, <1>5 DEF nativelib!CopyOf
<1>7. \A p : NlSorting(p)' <=> NlSorting(p)
    BY <1>4 DEF NlSorting
<1>. QED
    BY <1>3, <1>4, <1>5, <1>6, <1>7

LEMMA NlEmptySub == \A s \in Seq(Seq(NlZipLib)) : s = SubSeq(s, 1, Len(s)) /\ Len(s) \in Nat /\ Len(s) - Len(s) = 0
OBVIOUS

LEMMA NlRun ==
    ASSUME NlInv, nativelib!Run
    PROVE  NlInv'
<1>. USE DEF NlInv
<1>1. /\ nlPhase = "idle" /\ nlPhase' = "zips" /\ nlCall' \in LibCalls /\ nlTodo' = nlCall'.zips
      /\ nlExtracted' = nlExtracted /\ nlPaths' = nlPaths /\ nlCopied' = nlCopied
      /\ nlOut' = nlOut /\ nlCreated' = nlCreated /\ nlLost' = nlLost
      /\ nlLibs' = NlGiven(nlCall')
    BY DEF nativelib!Run, NlGiven
<1>2. NlTyped(nlCall')
    BY <1>1, NlCallFacts
<1>4. NlGiven(nlCall') \in Seq(NlLib) /\ \A i \in DOMAIN NlGiven(nlCall') : NlGiven(nlCall')[i].path = nativelib!None
    BY <1>2, NlGivenIs
<1>5. NlFound(nlCall')[0] = NlGiven(nlCall')
    BY <1>2, NlFoundIs
<1>6. NlZips'
    <2>1. nlCall'.zips \in Seq(Seq(NlZipLib))
        BY <1>2 DEF NlTyped
    <2>2. Len(nlCall'.zips) \in Nat /\ Len(nlCall'.zips) - Len(nlTodo') = 0
        BY <1>1, <2>1, NlEmptySub
    <2>3. nlTodo' = SubSeq(nlCall'.zips, 0 + 1, Len(nlCall'.zips))
        BY <1>1, <2>1, NlEmptySub
    <2>4. \A i \in DOMAIN NlGiven(nlCall') : NlSame(nlLibs'[i], NlGiven(nlCall')[i])
        BY <1>1 DEF NlSame
    <2>5. nlLibs' \in Seq(Range(nlLibs'))
        BY <1>1, <1>4 DEF Range
    <2>6. NlExtractedOf(nlExtracted', NlGiven(nlCall'))
        BY <1>4 DEF NlExtractedOf
    <2>. QED
        BY <1>1, <1>5, <2>2, <2>3, <2>4, <2>5, <2>6 DEF NlZips
<1>7. Len(nlTodo') <= Len(nlCall'.zips)
    <2>1. Len(nlCall'.zips) \in Nat
        BY <1>2 DEF NlTyped
    <2>. QED
        BY <1>1, <2>1
<1>. QED
    BY <1>1, <1>6, <1>7

\* What Unzip leaves of the archive, of the last entries of a name.
LEMMA NlUnzipped ==
    ASSUME NEW z \in Seq(NlZipLib), NEW dir
    PROVE  LET zip == [i \in DOMAIN z |-> [name |-> z[i].path, body |-> z[i].body]]
               new == nativelib!Z!Unzip(dir, zip)
           IN /\ DOMAIN new = DOMAIN dir \cup {z[i].path : i \in DOMAIN z}
              /\ \A n \in DOMAIN dir : (\A i \in DOMAIN z : z[i].path # n) => new[n] = dir[n]
              /\ \A i \in DOMAIN z : (\A j \in DOMAIN z : j > i => z[j].path # z[i].path) =>
                    new[z[i].path] = z[i].body
<1>. DEFINE zip == [i \in DOMAIN z |-> [name |-> z[i].path, body |-> z[i].body]]
            new == nativelib!Z!Unzip(dir, zip)
            names == {zip[i].name : i \in DOMAIN zip}
<1>1. /\ DOMAIN zip = DOMAIN z
      /\ \A i \in DOMAIN z : zip[i].name = z[i].path /\ zip[i].body = z[i].body
    OBVIOUS
<1>. HIDE DEF zip
<1>2. new = [n \in DOMAIN dir \cup names |->
                IF n \in names THEN zip[nativelib!Z!LastOf(zip, n)].body ELSE dir[n]]
    BY DEF nativelib!Z!Unzip
<1>3. names = {z[i].path : i \in DOMAIN z}
    BY <1>1
<1>. HIDE DEF new, names
<1>4. DOMAIN new = DOMAIN dir \cup {z[i].path : i \in DOMAIN z}
    BY <1>2, <1>3
<1>5. \A n \in DOMAIN dir : (\A i \in DOMAIN z : z[i].path # n) => new[n] = dir[n]
    BY <1>2, <1>3
<1>6. ASSUME NEW i \in DOMAIN z, \A j \in DOMAIN z : j > i => z[j].path # z[i].path
      PROVE  new[z[i].path] = z[i].body
    <2>1. DOMAIN z \subseteq Nat
        OBVIOUS
    <2>. DEFINE IsLast(k) == zip[k].name = z[i].path
                             /\ \A j \in DOMAIN zip : zip[j].name = z[i].path => j <= k
    <2>2. i \in DOMAIN zip /\ IsLast(i)
        BY <1>1, <1>6, <2>1
    <2>3. \A k \in DOMAIN zip : IsLast(k) => k = i
        BY <1>1, <2>1, <2>2
    <2>4. nativelib!Z!LastOf(zip, z[i].path) = CHOOSE k \in DOMAIN zip : IsLast(k)
        BY DEF nativelib!Z!LastOf
    <2>. HIDE DEF IsLast
    <2>5. nativelib!Z!LastOf(zip, z[i].path) = i
        BY <2>2, <2>3, <2>4
    <2>6. z[i].path \in names
        BY <1>3
    <2>. QED
        BY <1>1, <1>2, <2>5, <2>6
<1>. QED
    BY <1>4, <1>5, <1>6 DEF new, zip

LEMMA NlRange ==
    ASSUME NEW s, NEW n \in Nat, DOMAIN s = 1..n, s = [i \in 1..n |-> s[i]]
    PROVE  s \in Seq(Range(s)) /\ Len(s) = n
BY DEF Range

LEMMA NlConcat ==
    ASSUME NEW S, NEW t \in Seq(S), NEW z \in Seq(S)
    PROVE  /\ t \o z \in Seq(S) /\ Len(t \o z) = Len(t) + Len(z)
           /\ \A i \in DOMAIN (t \o z) : i \in DOMAIN t \/ i - Len(t) \in DOMAIN z
           /\ \A i \in DOMAIN t : i \in DOMAIN (t \o z) /\ (t \o z)[i] = t[i]
           /\ \A i \in DOMAIN z : Len(t) + i \in DOMAIN (t \o z) /\ (t \o z)[Len(t) + i] = z[i]
OBVIOUS

LEMMA NlExtract ==
    ASSUME NlInv, nativelib!extractLibs
    PROVE  NlInv'
<1>. DEFINE zip == nlTodo[1]
            entries == [i \in DOMAIN zip |-> [name |-> zip[i].path, body |-> zip[i].body]]
            more == [i \in DOMAIN zip |-> [zip[i] EXCEPT !.body = "extracted"]]
            m == Len(nlCall.zips) - Len(nlTodo)
            t == NlFound(nlCall)[m]
            new == NlFound(nlCall)[m + 1]
<1>1. /\ nlPhase = "zips" /\ nlPhase' = nlPhase /\ nlCall' = nlCall /\ nlTodo # << >>
      /\ nlTodo' = Tail(nlTodo) /\ nlLibs' = nlLibs \o more
      /\ nlExtracted' = nativelib!Z!Unzip(nlExtracted, entries)
      /\ nlPaths' = nlPaths /\ nlCopied' = nlCopied /\ nlOut' = nlOut
      /\ nlCreated' = nlCreated /\ nlLost' = nlLost
    BY DEF nativelib!extractLibs
<1>2. NlTyped(nlCall) /\ NlZips
    BY <1>1, NlCallFacts DEF NlInv
<1>3. /\ m \in Nat /\ m + 1 \in DOMAIN nlCall.zips /\ zip = nlCall.zips[m + 1]
      /\ nlTodo' = SubSeq(nlCall.zips, m + 2, Len(nlCall.zips))
      /\ Len(nlTodo') = Len(nlCall.zips) - (m + 1) /\ Len(nlCall.zips) \in Nat
    <2>1. nlCall.zips \in Seq(Seq(NlZipLib)) /\ Len(nlCall.zips) \in Nat /\ m \in Nat
          /\ nlTodo = SubSeq(nlCall.zips, m + 1, Len(nlCall.zips))
        <3>1. nlCall.zips \in Seq(Seq(NlZipLib)) /\ Len(nlTodo) \in 0..Len(nlCall.zips)
              /\ nlTodo = SubSeq(nlCall.zips, m + 1, Len(nlCall.zips))
            BY <1>2 DEF NlTyped, NlZips
        <3>2. Len(nlCall.zips) \in Nat
            BY <3>1
        <3>3. m \in Nat
            BY <3>1, <3>2
        <3>. QED
            BY <3>1, <3>2, <3>3
    <2>2. m + 1 \in DOMAIN nlCall.zips
        BY <1>1, <2>1
    <2>. HIDE DEF m
    <2>. QED
        BY <1>1, <2>1, <2>2, RestOf
<1>4. new = t \o zip /\ t \in Seq(NlLib) /\ new \in Seq(NlLib)
    <2>1. m + 1 \in 1..Len(nlCall.zips) /\ m \in 0..Len(nlCall.zips)
          /\ m + 1 \in 0..Len(nlCall.zips) /\ (m + 1) - 1 = m
        BY <1>3
    <2>. HIDE DEF m
    <2>. QED
        BY <1>2, <1>3, <2>1, NlFoundIs
<1>5. zip \in Seq(NlZipLib) /\ \A i \in DOMAIN zip : zip[i] \in NlZipLib /\ zip[i].path # nativelib!None
    BY <1>2, <1>3 DEF NlTyped
<1>6. zip \in Seq(NlLib)
    <2>1. NlZipLib \subseteq NlLib
        BY DEF NlZipLib, NlLib
    <2>. QED
        BY <1>5, <2>1
<1>7. /\ DOMAIN more = DOMAIN zip /\ Len(more) = Len(zip) /\ more \in Seq(Range(more))
      /\ \A i \in DOMAIN zip : NlSame(more[i], zip[i])
    <2>1. Len(zip) \in Nat /\ DOMAIN zip = 1..Len(zip)
        BY <1>5
    <2>2. DOMAIN more = DOMAIN zip /\ more = [i \in DOMAIN zip |-> more[i]]
        OBVIOUS
    <2>3. \A i \in DOMAIN zip : NlSame(more[i], zip[i])
        <3>. SUFFICES ASSUME NEW i \in DOMAIN zip PROVE NlSame(more[i], zip[i])
            OBVIOUS
        <3>1. zip[i] \in NlZipLib /\ zip[i].path # nativelib!None
            BY <1>5
        <3>. HIDE DEF zip
        <3>2. more[i] = [zip[i] EXCEPT !.body = "extracted"]
            OBVIOUS
        <3>. QED
            BY <3>1, <3>2 DEF NlSame, NlZipLib
    <2>. HIDE DEF more, zip
    <2>4. more \in Seq(Range(more)) /\ Len(more) = Len(zip)
        BY <2>1, <2>2, NlRange
    <2>. QED
        BY <2>2, <2>3, <2>4
<1>8. Len(nlLibs) = Len(t) /\ DOMAIN nlLibs = DOMAIN t /\ nlLibs \in Seq(Range(nlLibs))
      /\ \A i \in DOMAIN t : NlSame(nlLibs[i], t[i])
    BY <1>2 DEF NlZips
<1>. HIDE DEF more, t, zip, new
<1>9. /\ Len(nlLibs') = Len(new) /\ DOMAIN nlLibs' = DOMAIN new
      /\ nlLibs' \in Seq(Range(nlLibs')) /\ \A i \in DOMAIN new : NlSame(nlLibs'[i], new[i])
    <2>. DEFINE R == Range(nlLibs) \cup Range(more)
    <2>1. nlLibs \in Seq(R) /\ more \in Seq(R)
        BY <1>7, <1>8
    <2>2. nlLibs' \in Seq(R) /\ Len(nlLibs') = Len(nlLibs) + Len(more)
          /\ (\A i \in DOMAIN nlLibs : nlLibs'[i] = nlLibs[i])
          /\ \A i \in DOMAIN more : nlLibs'[Len(nlLibs) + i] = more[i]
        BY <1>1, <2>1, NlConcat
    <2>3. /\ Len(new) = Len(t) + Len(zip)
          /\ \A i \in DOMAIN new : i \in DOMAIN t \/ i - Len(t) \in DOMAIN zip
          /\ \A i \in DOMAIN t : new[i] = t[i]
          /\ \A i \in DOMAIN zip : new[Len(t) + i] = zip[i]
        BY <1>4, <1>6, NlConcat
    <2>4. Len(t) \in Nat /\ Len(zip) \in Nat /\ DOMAIN new \subseteq Nat
        BY <1>4, <1>6
    <2>5. Len(nlLibs') = Len(new) /\ DOMAIN nlLibs' = DOMAIN new
        BY <1>4, <1>7, <1>8, <2>2, <2>3
    <2>6. ASSUME NEW i \in DOMAIN new PROVE NlSame(nlLibs'[i], new[i])
        <3>1. CASE i \in DOMAIN t
            BY <1>8, <2>2, <2>3, <3>1
        <3>2. CASE i - Len(t) \in DOMAIN zip
            <4>. DEFINE j == i - Len(t)
            <4>1. i = Len(t) + j /\ j \in DOMAIN zip
                BY <2>4, <3>2
            <4>. HIDE DEF j
            <4>2. nlLibs'[i] = more[j] /\ new[i] = zip[j]
                BY <1>7, <1>8, <2>2, <2>3, <4>1
            <4>. QED
                BY <1>7, <4>1, <4>2
        <3>. QED
            BY <2>3, <3>1, <3>2
    <2>7. nlLibs' \in Seq(Range(nlLibs'))
        BY <2>2 DEF Range
    <2>. QED
        BY <2>5, <2>6, <2>7
<1>10. NlExtractedOf(nlExtracted', new)
    <2>1. /\ DOMAIN nlExtracted' = DOMAIN nlExtracted \cup {zip[i].path : i \in DOMAIN zip}
          /\ \A n \in DOMAIN nlExtracted : (\A i \in DOMAIN zip : zip[i].path # n) =>
                nlExtracted'[n] = nlExtracted[n]
          /\ \A i \in DOMAIN zip : (\A j \in DOMAIN zip : j > i => zip[j].path # zip[i].path) =>
                nlExtracted'[zip[i].path] = zip[i].body
        <3>. DEFINE dir == nativelib!Z!Unzip(nlExtracted, entries)
        <3>1. /\ DOMAIN dir = DOMAIN nlExtracted \cup {zip[i].path : i \in DOMAIN zip}
              /\ \A n \in DOMAIN nlExtracted : (\A i \in DOMAIN zip : zip[i].path # n) =>
                    dir[n] = nlExtracted[n]
              /\ \A i \in DOMAIN zip : (\A j \in DOMAIN zip : j > i => zip[j].path # zip[i].path) =>
                    dir[zip[i].path] = zip[i].body
            BY <1>5, NlUnzipped
        <3>2. nlExtracted' = dir
            BY <1>1
        <3>. HIDE DEF dir
        <3>. QED
            BY <3>1, <3>2
    <2>2. /\ \A i \in DOMAIN new : i \in DOMAIN t \/ i - Len(t) \in DOMAIN zip
          /\ \A i \in DOMAIN t : i \in DOMAIN new /\ new[i] = t[i]
          /\ \A i \in DOMAIN zip : Len(t) + i \in DOMAIN new /\ new[Len(t) + i] = zip[i]
        BY <1>4, <1>6, NlConcat
    <2>3. Len(t) \in Nat /\ DOMAIN t = 1..Len(t) /\ DOMAIN zip \subseteq Nat \ {0} /\ DOMAIN new \subseteq Nat
        BY <1>4, <1>6
    <2>4. NlExtractedOf(nlExtracted, t)
        BY <1>2 DEF NlZips, t
    <2>5. ASSUME NEW i \in DOMAIN new, new[i].path # nativelib!None
          PROVE  /\ new[i].path \in DOMAIN nlExtracted'
                 /\ (\A j \in DOMAIN new : j > i => new[j].path # new[i].path) =>
                        nlExtracted'[new[i].path] = new[i].body
        <3>1. CASE i \in DOMAIN t
            <4>1. new[i] = t[i] /\ t[i].path \in DOMAIN nlExtracted
                BY <2>2, <2>4, <2>5, <3>1 DEF NlExtractedOf
            <4>2. ASSUME \A j \in DOMAIN new : j > i => new[j].path # new[i].path
                  PROVE  nlExtracted'[new[i].path] = new[i].body
                <5>1. \A k \in DOMAIN zip : zip[k].path # t[i].path
                    <6>. SUFFICES ASSUME NEW k \in DOMAIN zip PROVE zip[k].path # t[i].path
                        OBVIOUS
                    <6>1. Len(t) + k \in DOMAIN new /\ new[Len(t) + k] = zip[k]
                        BY <2>2
                    <6>2. Len(t) + k > i
                        BY <2>3, <3>1
                    <6>. QED
                        BY <4>1, <4>2, <6>1, <6>2
                <5>2. \A j \in DOMAIN t : j > i => t[j].path # t[i].path
                    BY <2>2, <3>1, <4>2
                <5>. QED
                    BY <2>1, <2>4, <2>5, <3>1, <4>1, <5>1, <5>2 DEF NlExtractedOf
            <4>. QED
                BY <2>1, <4>1, <4>2
        <3>2. CASE i - Len(t) \in DOMAIN zip
            <4>. DEFINE k == i - Len(t)
            <4>1. i = Len(t) + k /\ k \in DOMAIN zip
                BY <2>3, <3>2
            <4>. HIDE DEF k
            <4>2. new[i] = zip[k]
                BY <2>2, <4>1
            <4>3. ASSUME \A j \in DOMAIN new : j > i => new[j].path # new[i].path
                  PROVE  \A j \in DOMAIN zip : j > k => zip[j].path # zip[k].path
                <5>. SUFFICES ASSUME NEW j \in DOMAIN zip, j > k PROVE zip[j].path # zip[k].path
                    OBVIOUS
                <5>1. Len(t) + j \in DOMAIN new /\ new[Len(t) + j] = zip[j]
                    BY <2>2
                <5>2. Len(t) + j > i
                    BY <2>3, <4>1
                <5>. QED
                    BY <4>2, <4>3, <5>1, <5>2
            <4>. QED
                BY <2>1, <4>1, <4>2, <4>3
        <3>. QED
            BY <2>2, <3>1, <3>2
    <2>. QED
        BY <2>5 DEF NlExtractedOf
<1>11. NlZips'
    <2>1. Len(nlCall'.zips) - Len(nlTodo') = m + 1 /\ Len(nlTodo') \in 0..Len(nlCall'.zips)
        BY <1>1, <1>3
    <2>2. nlTodo' = SubSeq(nlCall'.zips, (m + 1) + 1, Len(nlCall'.zips))
        <3>1. (m + 1) + 1 = m + 2
            BY <1>3
        <3>. QED
            BY <1>1, <1>3, <3>1
    <2>3. NlFound(nlCall')[m + 1] = new
        BY <1>1 DEF new
    <2>4. nlPaths' = << >>
        BY <1>1, <1>2 DEF NlZips
    <2>. HIDE DEF m
    <2>. QED
        BY <1>9, <1>10, <2>1, <2>2, <2>3, <2>4 DEF NlZips
<1>12. Len(nlTodo') <= Len(nlCall'.zips)
    BY <1>1, <1>3
<1>. QED
    BY <1>1, <1>11, <1>12 DEF NlInv

LEMMA NlExtracted ==
    ASSUME NlInv, nativelib!Extracted
    PROVE  NlInv'
<1>. USE DEF NlInv
<1>1. /\ nlPhase = "zips" /\ nlPhase' = "copy" /\ nlTodo = << >>
      /\ nlCall' = nlCall /\ nlTodo' = nlTodo /\ nlLibs' = nlLibs /\ nlExtracted' = nlExtracted
      /\ nlPaths' = nlPaths /\ nlCopied' = nlCopied /\ nlOut' = nlOut
      /\ nlCreated' = nlCreated /\ nlLost' = nlLost
    BY DEF nativelib!Extracted
<1>2. NlTyped(nlCall) /\ NlZips
    BY <1>1, NlCallFacts
<1>3. /\ nativelib!All = NlFound(nlCall)[Len(nlCall.zips)]
      /\ nativelib!All \in Seq(NlLib) /\ NlN \in Nat
    BY <1>2, NlAllIs
<1>4. Len(nlTodo) = 0 /\ Len(nlCall.zips) - Len(nlTodo) = Len(nlCall.zips)
    <2>1. nlCall.zips \in Seq(Seq(NlZipLib))
        BY <1>2 DEF NlTyped
    <2>. QED
        BY <1>1, <2>1
<1>5. /\ Len(nlLibs) = NlN /\ nlLibs \in Seq(Range(nlLibs))
      /\ \A i \in DOMAIN nativelib!All : NlSame(nlLibs[i], nativelib!All[i])
      /\ NlExtractedOf(nlExtracted, nativelib!All) /\ nlPaths = << >>
    BY <1>2, <1>3, <1>4 DEF NlZips, NlN
<1>6. Len(nlPaths) = 0 /\ DOMAIN nlPaths = {} /\ nlPaths \in Seq(Range(nlPaths))
    BY <1>5
<1>7. NlCopy'
    <2>1. \A i \in 1..Len(nlLibs) : 0 + i = i /\ i \in DOMAIN nativelib!All
        BY <1>3, <1>5 DEF NlN
    <2>2. \A i \in 1..Len(nlLibs) : NlSame(nlLibs[i], nativelib!All[0 + i])
        BY <1>5, <2>1
    <2>3. NlCopied(0)'
        BY DEF NlCopied
    <2>4. nativelib!All' = nativelib!All /\ NlN' = NlN
        BY <1>1, NlStays
    <2>5. 0 \in 0..NlN /\ NlN = NlN - 0 /\ 1..0 = {}
        BY <1>3
    <2>. QED
        BY <1>1, <1>5, <1>6, <2>2, <2>3, <2>4, <2>5 DEF NlCopy
<1>. QED
    BY <1>1, <1>7

LEMMA NlTail ==
    ASSUME NEW S, NEW s \in Seq(S), s # << >>
    PROVE  /\ Tail(s) \in Seq(S) /\ Len(s) \in Nat /\ Len(s) > 0 /\ Len(Tail(s)) = Len(s) - 1
           /\ \A i \in 1..Len(Tail(s)) : Tail(s)[i] = s[i + 1]
OBVIOUS

LEMMA NlAppend ==
    ASSUME NEW S, NEW s \in Seq(S), NEW x
    PROVE  /\ Append(s, x) \in Seq(Range(Append(s, x))) /\ Len(Append(s, x)) = Len(s) + 1
           /\ \A i \in 1..Len(s) : Append(s, x)[i] = s[i]
           /\ Append(s, x)[Len(s) + 1] = x
           /\ Range(Append(s, x)) = Range(s) \cup {x}
<1>. DEFINE t == Append(s, x)
            T == S \cup {x}
<1>1. s \in Seq(T) /\ x \in T
    OBVIOUS
<1>. HIDE DEF T
<1>2. /\ t \in Seq(T) /\ Len(t) = Len(s) + 1 /\ DOMAIN t = 1..(Len(s) + 1)
      /\ (\A i \in 1..Len(s) : t[i] = s[i]) /\ t[Len(s) + 1] = x /\ DOMAIN s = 1..Len(s) /\ Len(s) \in Nat
    BY <1>1
<1>. HIDE DEF t
<1>3. t \in Seq(Range(t))
    BY <1>2 DEF Range
<1>4. Range(t) = Range(s) \cup {x}
    <2>1. \A i \in DOMAIN t : i \in DOMAIN s \/ i = Len(s) + 1
        BY <1>2
    <2>2. \A i \in DOMAIN s : i \in DOMAIN t /\ t[i] = s[i]
        BY <1>2
    <2>3. Len(s) + 1 \in DOMAIN t
        BY <1>2
    <2>. QED
        BY <1>2, <2>1, <2>2, <2>3 DEF Range
<1>. QED
    BY <1>2, <1>3, <1>4 DEF t

LEMMA NlPutDomain == \A dir, n, body : DOMAIN nativelib!Z!Put(dir, n, body) = DOMAIN dir \cup {n}
BY DEF nativelib!Z!Put

LEMMA NlPutNew == \A dir, n, body : nativelib!Z!Put(dir, n, body)[n] = body
BY DEF nativelib!Z!Put

LEMMA NlPutOld ==
    \A dir, n, body : \A m \in DOMAIN dir : m # n => nativelib!Z!Put(dir, n, body)[m] = dir[m]
BY DEF nativelib!Z!Put

LEMMA NlOwnRange == ASSUME NEW S, NEW s \in Seq(S) PROVE s \in Seq(Range(s))
BY DEF Range

\* What a library of an archive has in the directory is what BodyOf says.
LEMMA NlBodyIs ==
    ASSUME NlTyped(nlCall), NlExtractedOf(nlExtracted, nativelib!All), NEW i \in 1..NlN,
           nativelib!All[i].path # nativelib!None
    PROVE  nlExtracted[nativelib!All[i].path] = nativelib!BodyOf(i)
<1>. DEFINE all == nativelib!All
            S == {j \in DOMAIN all : all[j].path = all[i].path}
            l == nativelib!Latest(S)
<1>1. DOMAIN all = 1..NlN /\ NlN \in Nat
    BY NlAllIs DEF NlN
<1>2. S \subseteq 1..NlN /\ i \in S
    BY <1>1
<1>. HIDE DEF S
<1>3. l \in S /\ \A j \in S : j <= l
    BY <1>1, <1>2, NlLatest
<1>. HIDE DEF l
<1>4. /\ l \in DOMAIN all /\ all[l].path = all[i].path
      /\ \A j \in DOMAIN all : j > l => all[j].path # all[l].path
    BY <1>1, <1>3 DEF S
<1>5. nlExtracted[all[l].path] = all[l].body
    BY <1>4 DEF NlExtractedOf
<1>6. nativelib!BodyOf(i) = all[l].body
    BY DEF nativelib!BodyOf, l, S
<1>. QED
    BY <1>4, <1>5, <1>6

LEMMA NlCopyLib ==
    ASSUME NlInv, nativelib!copyNativeLib
    PROVE  NlInv'
<1>. USE DEF NlInv
<1>. DEFINE k == Len(nlPaths)
            lib == nlLibs[1]
            all == nativelib!All
            dest == NlDest(k + 1)
<1>1. /\ nlPhase = "copy" /\ nlPhase' = "copy" /\ nlLibs # << >>
      /\ nlCopied' = nativelib!Z!Put(nlCopied, <<nativelib!Arch, lib.base>>, nativelib!Body)
      /\ nlPaths' = Append(nlPaths, <<nativelib!Arch, lib.base>>)
      /\ nlLibs' = Tail(nlLibs)
      /\ nlCall' = nlCall /\ nlTodo' = nlTodo /\ nlExtracted' = nlExtracted
      /\ nlOut' = nlOut /\ nlCreated' = nlCreated /\ nlLost' = nlLost
    BY DEF nativelib!copyNativeLib, nativelib!Copying, nativelib!Lib, nativelib!Overwrite
<1>2. NlTyped(nlCall) /\ NlCopy
    BY <1>1, NlCallFacts
<1>3. /\ all \in Seq(NlLib) /\ NlN \in Nat /\ DOMAIN all = 1..NlN
    BY <1>2, NlAllIs DEF NlN
<1>4. /\ k \in 0..NlN /\ Len(nlLibs) = NlN - k /\ nlLibs \in Seq(Range(nlLibs))
      /\ nlPaths \in Seq(Range(nlPaths))
      /\ \A i \in 1..Len(nlLibs) : NlSame(nlLibs[i], all[k + i])
      /\ \A i \in 1..k : nlPaths[i] = NlDest(i)
      /\ NlExtractedOf(nlExtracted, all) /\ NlCopied(k)
    BY <1>2 DEF NlCopy
<1>5. k + 1 \in 1..NlN /\ 1 \in 1..Len(nlLibs) /\ k \in Nat
    BY <1>1, <1>3, <1>4
<1>6. NlSame(lib, all[k + 1])
    BY <1>4, <1>5
<1>7. <<nativelib!Arch, lib.base>> = dest
    BY <1>6 DEF NlDest, nativelib!Dest, nativelib!Arch, nativelib!Lib, NlSame
<1>8. nativelib!Body = nativelib!BodyOf(k + 1)
    <2>1. nativelib!Body = IF lib.path = nativelib!None THEN lib.body ELSE nlExtracted[lib.path]
        BY DEF nativelib!Body, nativelib!Lib
    <2>2. CASE all[k + 1].path = nativelib!None
        BY <1>6, <2>1, <2>2 DEF NlSame, nativelib!BodyOf
    <2>3. CASE all[k + 1].path # nativelib!None
        BY <1>2, <1>4, <1>5, <1>6, <2>1, <2>3, NlBodyIs DEF NlSame
    <2>. QED
        BY <2>2, <2>3
<1>9. /\ DOMAIN nlCopied' = DOMAIN nlCopied \cup {dest}
      /\ nlCopied'[dest] = nativelib!BodyOf(k + 1)
      /\ \A n \in DOMAIN nlCopied : n # dest => nlCopied'[n] = nlCopied[n]
    <2>. HIDE DEF dest, k
    <2>1. nlCopied' = nativelib!Z!Put(nlCopied, dest, nativelib!BodyOf(k + 1))
        BY <1>1, <1>7, <1>8
    <2>. DEFINE body == nativelib!BodyOf(k + 1)
                new == nativelib!Z!Put(nlCopied, dest, body)
    <2>. HIDE DEF body
    <2>2. DOMAIN new = DOMAIN nlCopied \cup {dest}
        BY NlPutDomain
    <2>3. new[dest] = body
        BY NlPutNew
    <2>4. \A n \in DOMAIN nlCopied : n # dest => new[n] = nlCopied[n]
        BY NlPutOld
    <2>. HIDE DEF new
    <2>5. nlCopied' = new
        BY <2>1 DEF new, body
    <2>. QED
        BY <2>2, <2>3, <2>4, <2>5 DEF body
<1>10. /\ nlPaths' \in Seq(Range(nlPaths')) /\ Len(nlPaths') = k + 1
       /\ (\A i \in 1..k : nlPaths'[i] = nlPaths[i]) /\ nlPaths'[k + 1] = dest
       /\ Range(nlPaths') = Range(nlPaths) \cup {dest}
    <2>. HIDE DEF dest
    <2>1. nlPaths' = Append(nlPaths, dest) /\ nlPaths \in Seq(Range(nlPaths))
        BY <1>1, <1>4, <1>7
    <2>. QED
        BY <2>1, NlAppend
<1>11. /\ nlLibs' \in Seq(Range(nlLibs)) /\ Len(nlLibs') = Len(nlLibs) - 1
       /\ \A i \in 1..Len(nlLibs') : nlLibs'[i] = nlLibs[i + 1]
    BY <1>1, <1>4, NlTail
<1>12. \A i : NlDest(i)' = NlDest(i)
    BY <1>1, NlStays
<1>13. all' = all /\ NlN' = NlN /\ \A i : nativelib!BodyOf(i)' = nativelib!BodyOf(i)
    BY <1>1, NlStays
<1>. HIDE DEF all, k, lib
<1>14. ASSUME NEW i \in 1..(k + 1)
      PROVE  /\ NlDest(i) \in DOMAIN nlCopied'
             /\ (\A j \in (i + 1)..(k + 1) : NlDest(j) # NlDest(i)) =>
                    nlCopied'[NlDest(i)] = nativelib!BodyOf(i)
    <2>1. CASE i = k + 1
        BY <1>9, <2>1
    <2>2. CASE i # k + 1
        <3>1. i \in 1..k /\ k + 1 \in (i + 1)..(k + 1)
              /\ \A j \in (i + 1)..k : j \in (i + 1)..(k + 1)
            BY <1>5, <2>2
        <3>2. /\ NlDest(i) \in DOMAIN nlCopied
              /\ (\A j \in (i + 1)..k : NlDest(j) # NlDest(i)) =>
                    nlCopied[NlDest(i)] = nativelib!BodyOf(i)
            BY <1>4, <3>1 DEF NlCopied
        <3>3. (\A j \in (i + 1)..(k + 1) : NlDest(j) # NlDest(i)) => NlDest(i) # dest
            BY <3>1
        <3>. HIDE DEF dest
        <3>. QED
            BY <1>9, <3>1, <3>2, <3>3
    <2>. QED
        BY <2>1, <2>2
<1>15. NlCopy'
    <2>1. Len(nlPaths') \in 0..NlN /\ Len(nlLibs') = NlN - Len(nlPaths')
        BY <1>3, <1>4, <1>5, <1>10, <1>11
    <2>2. \A i \in 1..Len(nlLibs') : NlSame(nlLibs'[i], all[Len(nlPaths') + i])
        <3>. SUFFICES ASSUME NEW i \in 1..Len(nlLibs') PROVE NlSame(nlLibs'[i], all[Len(nlPaths') + i])
            OBVIOUS
        <3>1. i + 1 \in 1..Len(nlLibs) /\ k + (i + 1) = Len(nlPaths') + i
            <4>1. /\ k \in Nat /\ NlN \in Nat /\ Len(nlLibs) = NlN - k
                  /\ Len(nlLibs') = Len(nlLibs) - 1 /\ Len(nlPaths') = k + 1
                BY <1>3, <1>4, <1>5, <1>10, <1>11
            <4>. QED
                BY <4>1
        <3>. QED
            BY <1>4, <1>11, <3>1
    <2>3. \A i \in 1..Len(nlPaths') : nlPaths'[i] = NlDest(i)
        <3>1. \A i \in 1..(k + 1) : i \in 1..k \/ i = k + 1
            BY <1>5
        <3>. QED
            BY <1>4, <1>10, <3>1
    <2>4. nlLibs' \in Seq(Range(nlLibs'))
        BY <1>11 DEF Range
    <2>5. NlCopied(Len(nlPaths))'
        <3>1. Len(nlPaths') = k + 1
            BY <1>10
        <3>. QED
            BY <1>12, <1>13, <1>14, <3>1 DEF NlCopied
    <2>. QED
        BY <1>1, <1>4, <1>10, <1>12, <1>13, <2>1, <2>2, <2>3, <2>4, <2>5 DEF NlCopy, all
<1>16. Range(nlPaths') \subseteq DOMAIN nlCopied'
    BY <1>9, <1>10
<1>. QED
    BY <1>1, <1>15, <1>16

LEMMA NlFails ==
    ASSUME NlInv, nativelib!Fails
    PROVE  NlInv'
<1>1. /\ nlPhase' = "error" /\ nlPhase \in {"zips", "copy"}
      /\ nlCall' = nlCall /\ nlTodo' = nlTodo /\ nlPaths' = nlPaths /\ nlCopied' = nlCopied
      /\ nlCreated' = nlCreated /\ nlLost' = nlLost
    BY DEF nativelib!Fails, nativelib!Copying
<1>. QED
    BY <1>1 DEF NlInv

\* Of the libraries of one destination the last one is there.
LEMMA NlCopyIs ==
    ASSUME NlTyped(nlCall), NlCopied(NlN), NEW i \in 1..NlN
    PROVE  NlDest(i) \in DOMAIN nlCopied /\ nlCopied[NlDest(i)] = nativelib!CopyOf(i)
<1>. DEFINE all == nativelib!All
            S == {j \in DOMAIN all : nativelib!Dest(all[j]) = nativelib!Dest(all[i])}
            l == nativelib!Latest(S)
<1>1. DOMAIN all = 1..NlN /\ NlN \in Nat
    BY NlAllIs DEF NlN
<1>2. S \subseteq 1..NlN /\ i \in S
    BY <1>1
<1>3. \A j : j \in S <=> j \in 1..NlN /\ NlDest(j) = NlDest(i)
    BY <1>1 DEF NlDest
<1>4. nativelib!CopyOf(i) = nativelib!BodyOf(l)
    BY DEF nativelib!CopyOf
<1>. HIDE DEF S
<1>5. l \in S /\ \A j \in S : j <= l
    BY <1>1, <1>2, NlLatest
<1>. HIDE DEF l
<1>6. l \in 1..NlN /\ NlDest(l) = NlDest(i) /\ \A j \in (l + 1)..NlN : NlDest(j) # NlDest(l)
    <2>1. l \in 1..NlN /\ NlDest(l) = NlDest(i)
        BY <1>3, <1>5
    <2>2. \A j \in (l + 1)..NlN : j \in 1..NlN /\ ~(j <= l)
        BY <1>1, <2>1
    <2>. QED
        BY <1>3, <1>5, <2>1, <2>2
<1>7. nlCopied[NlDest(l)] = nativelib!BodyOf(l) /\ NlDest(l) \in DOMAIN nlCopied
    BY <1>6 DEF NlCopied
<1>. QED
    BY <1>4, <1>6, <1>7

LEMMA NlCreate ==
    ASSUME NlInv, nativelib!Create
    PROVE  NlInv'
<1>. USE DEF NlInv
<1>1. /\ nlPhase = "copy" /\ nlPhase' = "write" /\ nlLibs = << >> /\ nlCreated' = TRUE
      /\ nlCall' = nlCall /\ nlTodo' = nlTodo /\ nlLibs' = nlLibs /\ nlExtracted' = nlExtracted
      /\ nlCopied' = nlCopied /\ nlOut' = nlOut /\ nlLost' = nlLost
    BY DEF nativelib!Create
<1>2. PICK p \in nativelib!Sortings(nlPaths) : nlPaths' = [i \in DOMAIN nlPaths |-> nlPaths[p[i]]]
    BY DEF nativelib!Create
<1>3. NlTyped(nlCall) /\ NlCopy /\ nlOut = << >> /\ ~nlLost
    BY <1>1, NlCallFacts
<1>4. NlN \in Nat
    BY <1>3, NlAllIs
<1>5. Len(nlPaths) = NlN /\ nlPaths \in Seq(Range(nlPaths)) /\ \A i \in 1..NlN : nlPaths[i] = NlDest(i)
    <2>1. Len(nlLibs) = 0
        BY <1>1
    <2>2. Len(nlPaths) \in 0..NlN /\ 0 = NlN - Len(nlPaths)
        BY <1>3, <2>1 DEF NlCopy
    <2>3. Len(nlPaths) = NlN
        BY <1>4, <2>2
    <2>. QED
        BY <1>3, <2>3 DEF NlCopy
<1>6. DOMAIN nlPaths = 1..NlN
    BY <1>5
<1>7. p \in nativelib!Bijection(1..NlN, 1..NlN)
      /\ \A i, j \in 1..NlN : i < j => ~PathBefore(nlPaths[p[j]], nlPaths[p[i]])
    BY <1>6 DEF nativelib!Sortings
<1>8. p \in [1..NlN -> 1..NlN]
    BY <1>7 DEF nativelib!Bijection, nativelib!Injection
<1>9. NlSorting(p)
    BY <1>5, <1>7, <1>8 DEF NlSorting
<1>10. nlPaths' \in [1..NlN -> Range(nlPaths)] /\ \A i \in 1..NlN : nlPaths'[i] = NlDest(p[i])
    BY <1>2, <1>5, <1>6, <1>8 DEF Range
<1>11. /\ nlPaths' \in Seq(Range(nlPaths)) /\ nlPaths' \in Seq(Range(nlPaths')) /\ Len(nlPaths') = NlN
       /\ Range(nlPaths') \subseteq Range(nlPaths)
    BY <1>4, <1>10 DEF Range
<1>12. \A i \in 1..NlN : NlDest(i) \in DOMAIN nlCopied /\ nlCopied[NlDest(i)] = nativelib!CopyOf(i)
    <2>1. NlCopied(NlN)
        BY <1>3, <1>5 DEF NlCopy
    <2>. QED
        BY <1>3, <2>1, NlCopyIs
<1>13. NlWrite'
    <2>1. NlN - Len(nlPaths') = 0 /\ Len(nlPaths') \in 0..NlN /\ 1..0 = {}
        BY <1>4, <1>11
    <2>2. \A i \in 1..Len(nlPaths') : nlPaths'[i] = NlDest(p[0 + i])
        BY <1>4, <1>10, <1>11
    <2>3. Len(nlOut) = 0 /\ nlOut \in Seq(Range(nlOut))
        BY <1>3
    <2>4. NlSorting(p)' /\ NlN' = NlN /\ \A i : NlDest(i)' = NlDest(i)
        BY <1>1, <1>9, NlStays
    <2>5. \A i : nativelib!CopyOf(i)' = nativelib!CopyOf(i)
        BY <1>1, NlStays
    <2>6. NlWriting(p)'
        BY <1>1, <1>11, <2>1, <2>2, <2>3, <2>4, <2>5 DEF NlWriting
    <2>. QED
        BY <1>1, <1>11, <1>12, <2>1, <2>4, <2>5, <2>6 DEF NlWrite
<1>14. Range(nlPaths') \subseteq DOMAIN nlCopied'
    BY <1>1, <1>11
<1>. QED
    BY <1>1, <1>13, <1>14

\* The next copy is written, or is lost.
LEMMA NlWrites ==
    ASSUME NlInv, nlPhase = "write", nlPhase' = "write", nlPaths # << >>, nlPaths' = Tail(nlPaths),
           nlCall' = nlCall, nlTodo' = nlTodo, nlCopied' = nlCopied, nlCreated' = nlCreated,
           nlLost' => nlCall.ioFails,
           ~nlLost' => ~nlLost /\ nlOut' = Append(nlOut, [name |-> nlPaths[1], body |-> nlCopied[nlPaths[1]]])
    PROVE  NlInv'
<1>. USE DEF NlInv
<1>1. NlTyped(nlCall) /\ NlWrite
    BY NlCallFacts
<1>2. NlN \in Nat
    BY <1>1, NlAllIs
<1>. DEFINE k == NlN - Len(nlPaths)
<1>3. PICK p : /\ NlSorting(p)
               /\ \A i \in 1..Len(nlPaths) : nlPaths[i] = NlDest(p[k + i])
               /\ ~nlLost =>
                    /\ Len(nlOut) = k /\ nlOut \in Seq(Range(nlOut))
                    /\ \A i \in 1..k : nlOut[i] = [name |-> NlDest(p[i]), body |-> nativelib!CopyOf(p[i])]
    BY <1>1 DEF NlWrite, NlWriting
<1>4. /\ nlPaths' \in Seq(Range(nlPaths)) /\ Len(nlPaths) \in Nat /\ Len(nlPaths) > 0
      /\ Len(nlPaths') = Len(nlPaths) - 1
      /\ \A i \in 1..Len(nlPaths') : nlPaths'[i] = nlPaths[i + 1]
    BY <1>1, NlTail DEF NlWrite
<1>5. /\ k \in Nat /\ NlN - Len(nlPaths') = k + 1 /\ k + 1 \in 1..NlN
      /\ Len(nlPaths') \in 0..NlN /\ 1 \in 1..Len(nlPaths)
    BY <1>1, <1>2, <1>4 DEF NlWrite
<1>6. nlPaths[1] = NlDest(p[k + 1]) /\ p[k + 1] \in 1..NlN
    <2>1. p \in [1..NlN -> 1..NlN]
        BY <1>3 DEF NlSorting, nativelib!Bijection, nativelib!Injection
    <2>. QED
        BY <1>3, <1>5, <2>1
<1>7. nlCopied[nlPaths[1]] = nativelib!CopyOf(p[k + 1])
    BY <1>1, <1>6 DEF NlWrite
<1>8. \A i \in 1..Len(nlPaths') : nlPaths'[i] = NlDest(p[(k + 1) + i])
    <2>. SUFFICES ASSUME NEW i \in 1..Len(nlPaths') PROVE nlPaths'[i] = NlDest(p[(k + 1) + i])
        OBVIOUS
    <2>1. i + 1 \in 1..Len(nlPaths) /\ k + (i + 1) = (k + 1) + i
        <3>. HIDE DEF k
        <3>. QED
            BY <1>4, <1>5
    <2>. QED
        BY <1>3, <1>4, <2>1
<1>. HIDE DEF k
<1>9. ASSUME ~nlLost'
      PROVE  /\ Len(nlOut') = k + 1 /\ nlOut' \in Seq(Range(nlOut'))
             /\ \A i \in 1..(k + 1) : nlOut'[i] = [name |-> NlDest(p[i]), body |-> nativelib!CopyOf(p[i])]
    <2>. DEFINE e == [name |-> NlDest(p[k + 1]), body |-> nativelib!CopyOf(p[k + 1])]
    <2>1. nlOut' = Append(nlOut, e) /\ nlOut \in Seq(Range(nlOut)) /\ Len(nlOut) = k
          /\ \A i \in 1..k : nlOut[i] = [name |-> NlDest(p[i]), body |-> nativelib!CopyOf(p[i])]
        BY <1>3, <1>6, <1>7, <1>9
    <2>. HIDE DEF e
    <2>2. /\ nlOut' \in Seq(Range(nlOut')) /\ Len(nlOut') = k + 1
          /\ (\A i \in 1..k : nlOut'[i] = nlOut[i]) /\ nlOut'[k + 1] = e
        BY <2>1, NlAppend
    <2>3. \A i \in 1..(k + 1) : i \in 1..k \/ i = k + 1
        BY <1>5
    <2>. QED
        BY <2>1, <2>2, <2>3 DEF e
<1>10. Range(nlPaths') \subseteq Range(nlPaths)
    <2>1. \A i \in DOMAIN nlPaths' : i \in 1..Len(nlPaths') /\ i + 1 \in DOMAIN nlPaths
        BY <1>1, <1>4 DEF NlWrite
    <2>. QED
        BY <1>4, <2>1 DEF Range
<1>11. nlPaths' \in Seq(Range(nlPaths'))
    BY <1>4, NlOwnRange
<1>12. NlWrite'
    <2>1. /\ NlSorting(p)' /\ NlN' = NlN /\ \A i : NlDest(i)' = NlDest(i)
        BY <1>3, NlStays
    <2>2. \A i : nativelib!CopyOf(i)' = nativelib!CopyOf(i)
        BY NlStays
    <2>3. \A i \in 1..NlN : NlDest(i) \in DOMAIN nlCopied /\ nlCopied[NlDest(i)] = nativelib!CopyOf(i)
        BY <1>1 DEF NlWrite
    <2>4. NlWriting(p)'
        BY <1>5, <1>8, <1>9, <2>1, <2>2 DEF NlWriting
    <2>. QED
        BY <1>5, <1>11, <2>1, <2>2, <2>3, <2>4 DEF NlWrite
<1>13. nlLost' => nlCall'.ioFails /\ nlCreated'
    OBVIOUS
<1>. QED
    BY <1>10, <1>12, <1>13

LEMMA NlClose ==
    ASSUME NlInv, nativelib!Close
    PROVE  NlInv'
<1>. USE DEF NlInv
<1>1. /\ nlPhase = "write" /\ nlPaths = << >> /\ nlPhase' = "ok"
      /\ nlLost' \in {nlLost, nlLost \/ nlCall.ioFails}
      /\ nlCall' = nlCall /\ nlTodo' = nlTodo /\ nlPaths' = nlPaths /\ nlCopied' = nlCopied
      /\ nlOut' = nlOut /\ nlCreated' = nlCreated
    BY DEF nativelib!Close
<1>2. ~nlLost' => ~nlLost
    BY <1>1
<1>3. NlWrite'
    <2>1. /\ NlN' = NlN /\ \A i : NlDest(i)' = NlDest(i)
          /\ \A i : nativelib!CopyOf(i)' = nativelib!CopyOf(i)
          /\ \A p : NlSorting(p)' <=> NlSorting(p)
        BY <1>1, NlStays
    <2>2. PICK p : NlWriting(p)
        BY <1>1 DEF NlWrite
    <2>3. /\ Len(nlPaths) \in 0..NlN /\ nlPaths \in Seq(Range(nlPaths))
          /\ \A i \in 1..NlN : NlDest(i) \in DOMAIN nlCopied /\ nlCopied[NlDest(i)] = nativelib!CopyOf(i)
        BY <1>1 DEF NlWrite
    <2>4. NlWriting(p)'
        BY <1>1, <1>2, <2>1, <2>2 DEF NlWriting
    <2>. QED
        BY <1>1, <2>1, <2>3, <2>4 DEF NlWrite
<1>4. nlLost' => nlCall.ioFails /\ nlCreated
    <2>1. nlCreated
        BY <1>1
    <2>. QED
        BY <1>1, <2>1
<1>. QED
    BY <1>1, <1>3, <1>4

LEMMA NlInductive ==
    ASSUME NlInv, [nativelib!Next]_nlVars
    PROVE  NlInv'
<1>1. CASE UNCHANGED nlVars
    <2>1. /\ nlCall' = nlCall /\ nlPhase' = nlPhase /\ nlTodo' = nlTodo /\ nlExtracted' = nlExtracted
          /\ nlLibs' = nlLibs /\ nlPaths' = nlPaths /\ nlCopied' = nlCopied /\ nlOut' = nlOut
          /\ nlCreated' = nlCreated /\ nlLost' = nlLost
        BY <1>1 DEF nlVars
    <2>2. NlZips' <=> NlZips
        BY <2>1 DEF NlZips
    <2>3. /\ nativelib!All' = nativelib!All /\ NlN' = NlN /\ \A i : NlDest(i)' = NlDest(i)
          /\ \A i : nativelib!BodyOf(i)' = nativelib!BodyOf(i)
          /\ \A i : nativelib!CopyOf(i)' = nativelib!CopyOf(i)
          /\ \A p : NlSorting(p)' <=> NlSorting(p)
        BY <2>1, NlStays
    <2>4. \A k : NlCopied(k)' <=> NlCopied(k)
        BY <2>1, <2>3 DEF NlCopied
    <2>5. NlCopy' <=> NlCopy
        BY <2>1, <2>3, <2>4 DEF NlCopy
    <2>6. NlWrite' <=> NlWrite
        BY <2>1, <2>3 DEF NlWrite, NlWriting
    <2>. QED
        BY <2>1, <2>2, <2>5, <2>6 DEF NlInv
<1>2. CASE nativelib!WriteFile
    BY <1>2, NlWrites DEF nativelib!WriteFile, nativelib!Writing, nativelib!Entry, NlInv
<1>3. CASE nativelib!WriteFileFails
    BY <1>3, NlWrites DEF nativelib!WriteFileFails, nativelib!Writing, NlInv
<1>4. CASE nativelib!Next
    BY <1>2, <1>3, <1>4, NlRun, NlExtract, NlExtracted, NlCopyLib, NlFails, NlCreate, NlClose
       DEF nativelib!Next
<1>. QED
    BY <1>1, <1>4

LEMMA NlImplies == NlInv => NativeLibsRight /\ nativelib!TypeOK
<1>. SUFFICES ASSUME NlInv PROVE NativeLibsRight /\ nativelib!TypeOK
    OBVIOUS
<1>. USE DEF NlInv
<1>1. NlTyped(nlCall)
    BY NlCallFacts
<1>2. nativelib!TypeOK
    BY DEF nativelib!TypeOK, nativelib!Range, Range
<1>3. ASSUME nlPhase = "ok", ~nlLost
      PROVE  /\ \E p \in nativelib!Bijection(DOMAIN nlOut, DOMAIN nativelib!All) : \A i \in DOMAIN nlOut :
                    nlOut[i] = [name |-> nativelib!Dest(nativelib!All[p[i]]), body |-> nativelib!CopyOf(p[i])]
             /\ \A i, j \in DOMAIN nlOut : i < j => ~PathBefore(nlOut[j].name, nlOut[i].name)
    <2>1. NlN \in Nat /\ DOMAIN nativelib!All = 1..NlN
        BY <1>1, NlAllIs DEF NlN
    <2>2. nlPaths = << >> /\ NlN - Len(nlPaths) = NlN
        BY <1>3, <2>1
    <2>3. PICK p : /\ NlSorting(p) /\ Len(nlOut) = NlN /\ nlOut \in Seq(Range(nlOut))
                   /\ \A i \in 1..NlN :
                         nlOut[i] = [name |-> NlDest(p[i]), body |-> nativelib!CopyOf(p[i])]
        BY <1>3, <2>2 DEF NlWrite, NlWriting
    <2>4. DOMAIN nlOut = 1..NlN
        BY <2>3
    <2>. QED
        BY <2>1, <2>3, <2>4 DEF NlSorting, NlDest
<1>. QED
    BY <1>2, <1>3, Zenon DEF NativeLibsRight, nativelib!NativeLibsRight

\* nativelib writes an entry for each library, sorted, and each entry has what was copied
\* last for its architecture and base name: of libraries that collide the others are lost.
\* An error leaves no output: nativelib.go's doWork.
THEOREM NativeLibsAreRight == FairSpec => []NativeLibsRight
BY NlInitial, NlSteps, NlInductive, NlImplies, PTL DEF FairSpec

-----------------------------------------------------------------------------
(* The variables keep their types *)

\* The channel is never fuller than it can be.
GmBounded ==
    /\ Len(gmResults) <= Len(gmCall.manifests)
    /\ \A i \in DOMAIN gmResults : gmResults[i].err = TRUE => gmResults[i].minSdk = 0

LEMMA GmBoundsStart == Init => GmBounded
<1>. SUFFICES ASSUME Init PROVE GmBounded
    OBVIOUS
<1>1. gmResults = << >> /\ gmCall.manifests = << >>
    BY DEF Init, generatemanifest!Init, generatemanifest!NoCall
<1>. QED
    BY <1>1 DEF GmBounded

LEMMA GmBounds == GmInv /\ GmBounded /\ [generatemanifest!Next]_gmVars => GmBounded'
<1>. SUFFICES ASSUME GmInv, GmBounded, [generatemanifest!Next]_gmVars PROVE GmBounded'
    OBVIOUS
<1>1. gmResults \in Seq(Result) /\ Len(gmResults) \in Nat /\ DOMAIN gmResults = 1..Len(gmResults)
    BY DEF GmInv, GmTyped
<1>2. ASSUME generatemanifest!Run PROVE GmBounded'
    <2>1. gmPhase = "idle" /\ gmCall' \in ManifestCalls /\ gmResults' = gmResults
        BY <1>2 DEF generatemanifest!Run
    <2>2. {gmResults[i] : i \in DOMAIN gmResults} = {}
        BY <2>1 DEF GmInv, GmStarted, GmSent
    <2>3. DOMAIN gmResults = {}
        BY <2>2
    <2>4. Len(gmResults) = 0
        BY <1>1, <2>3
    <2>5. Len(gmCall'.manifests) \in Nat
        BY <2>1, ManifestCallsAssumption
    <2>. QED
        BY <2>1, <2>3, <2>4, <2>5 DEF GmBounded
<1>3. ASSUME NEW m \in DOMAIN gmAt, generatemanifest!Send(m) PROVE GmBounded'
    <2>. DEFINE x == generatemanifest!extractMinSdkFromManifest(gmCall.manifests[m])
    <2>1. gmResults' = Append(gmResults, x) /\ gmCall' = gmCall /\ Len(gmResults) < Len(gmCall.manifests)
        BY <1>3 DEF generatemanifest!Send, generatemanifest!Capacity
    <2>2. x.err = TRUE => x.minSdk = 0
        <3>1. x.err = (gmCall.manifests[m].kind = "bad")
            BY DEF generatemanifest!extractMinSdkFromManifest
        <3>2. gmCall.manifests[m].kind # "value" => x.minSdk = 0
            BY DEF generatemanifest!extractMinSdkFromManifest
        <3>. QED
            BY <3>1, <3>2
    <2>. HIDE DEF x
    <2>3. Len(gmCall.manifests) \in Nat
        BY GmCallFacts DEF GmInv
    <2>4. /\ Len(gmResults') = Len(gmResults) + 1 /\ gmResults'[Len(gmResults) + 1] = x
          /\ \A i \in 1..Len(gmResults) : gmResults'[i] = gmResults[i]
          /\ DOMAIN gmResults' = 1..(Len(gmResults) + 1)
        BY <1>1, <2>1
    <2>5. ASSUME NEW i \in DOMAIN gmResults', gmResults'[i].err = TRUE PROVE gmResults'[i].minSdk = 0
        <3>1. i \in 1..Len(gmResults) \/ i = Len(gmResults) + 1
            BY <1>1, <2>4
        <3>. QED
            BY <1>1, <2>2, <2>4, <2>5, <3>1 DEF GmBounded
    <2>6. Len(gmResults') <= Len(gmCall'.manifests)
        BY <1>1, <2>1, <2>3, <2>4
    <2>. QED
        BY <2>5, <2>6 DEF GmBounded
<1>4. ASSUME gmResults' = gmResults, gmCall' = gmCall PROVE GmBounded'
    BY <1>4 DEF GmBounded
<1>5. \/ generatemanifest!Run \/ (\E m \in DOMAIN gmAt : generatemanifest!Send(m))
      \/ gmResults' = gmResults /\ gmCall' = gmCall
    BY DEF generatemanifest!Next, generatemanifest!extract, generatemanifest!Done, generatemanifest!Open,
           generatemanifest!Fails, generatemanifest!WaitReturns, generatemanifest!ReturnsError,
           generatemanifest!writeManifest, gmVars
<1>. QED
    BY <1>2, <1>3, <1>4, <1>5

LEMMA GmTypes == FairSpec => []generatemanifest!TypeOK
<1>1. GmInv /\ GmBounded => generatemanifest!TypeOK
    <2>1. GmInv /\ GmBounded => \A i \in DOMAIN gmResults : gmResults[i].err => gmResults[i].minSdk = 0
        BY DEF GmBounded
    <2>. QED
        BY <2>1 DEF GmInv, GmTyped, GmBounded, generatemanifest!TypeOK
<1>. QED
    BY <1>1, GmInitial, GmSteps, GmInductive, GmBoundsStart, GmBounds, PTL DEF FairSpec

\* What is written was seen.
RpBounded ==
    /\ rpTodo \in Seq(Seq(RpEntry))
    /\ Len(rpTodo) <= Len(rpCall.dirs) + Len(rpCall.zips)
    /\ rpPhase \in {"idle", "start"} => rpTodo = << >>
    /\ \A i \in DOMAIN rpOut : rpOut[i].name \in rpSeen
    /\ \A i \in DOMAIN rpFiltered : rpFiltered[i].name \in rpSeen
    /\ rpLost = TRUE => rpCall.ioFails = TRUE

LEMMA RpBoundsStart == Init => RpBounded
<1>. SUFFICES ASSUME Init PROVE RpBounded
    OBVIOUS
<1>1. /\ rpTodo = << >> /\ rpOut = << >> /\ rpFiltered = << >> /\ rpLost = FALSE
      /\ rpCall.dirs = << >> /\ rpCall.zips = << >>
    BY DEF Init, repack!Init, repack!NoCall
<1>2. << >> \in Seq(Seq(RpEntry)) /\ Len(<< >>) = 0 /\ DOMAIN << >> = {}
    OBVIOUS
<1>. QED
    BY <1>1, <1>2 DEF RpBounded

LEMMA RpCallParts ==
    ASSUME rpCall \in RepackCalls \cup {repack!NoCall}
    PROVE  /\ rpCall.dirs \in Seq(Seq(RpEntry)) /\ rpCall.zips \in Seq(Seq(RpEntry))
           /\ Len(rpCall.dirs) \in Nat /\ Len(rpCall.zips) \in Nat /\ rpCall.ioFails \in BOOLEAN
<1>1. CASE rpCall \in RepackCalls
    BY <1>1, RepackCallsAssumption, RpSourceEntries
<1>2. CASE rpCall = repack!NoCall
    <2>1. rpCall.dirs = << >> /\ rpCall.zips = << >> /\ rpCall.ioFails = FALSE
        BY <1>2 DEF repack!NoCall
    <2>2. << >> \in Seq(Seq(RpEntry)) /\ Len(<< >>) \in Nat
        OBVIOUS
    <2>. QED
        BY <2>1, <2>2
<1>. QED
    BY <1>1, <1>2

\* One entry more, whose name is seen.
LEMMA RpAppendSeen ==
    ASSUME NEW s \in Seq(RpEntry), NEW x \in RpEntry, NEW seen,
           \A i \in DOMAIN s : s[i].name \in seen
    PROVE  \A i \in DOMAIN Append(s, x) : Append(s, x)[i].name \in seen \cup {x.name}
<1>. DEFINE t == Append(s, x)
<1>1. /\ DOMAIN t = 1..(Len(s) + 1) /\ DOMAIN s = 1..Len(s) /\ Len(s) \in Nat /\ t[Len(s) + 1] = x
      /\ \A i \in 1..Len(s) : t[i] = s[i]
    OBVIOUS
<1>. HIDE DEF t
<1>2. \A i \in DOMAIN t : i \in DOMAIN s \/ i = Len(s) + 1
    BY <1>1
<1>3. \A i \in DOMAIN t : t[i].name \in seen \cup {x.name}
    BY <1>1, <1>2
<1>. QED
    BY <1>3 DEF t

LEMMA RpBounds == RpInv /\ RpBounded /\ [repack!Next]_rpVars => RpBounded'
<1>. SUFFICES ASSUME RpInv, RpBounded, [repack!Next]_rpVars PROVE RpBounded'
    OBVIOUS
<1>1. /\ rpOut \in Seq(RpEntry) /\ rpFiltered \in Seq(RpEntry)
      /\ rpCall \in RepackCalls \cup {repack!NoCall} /\ rpLost \in BOOLEAN
    BY DEF RpInv, RpTyped
<1>2. /\ rpCall.dirs \in Seq(Seq(RpEntry)) /\ rpCall.zips \in Seq(Seq(RpEntry))
      /\ Len(rpCall.dirs) \in Nat /\ Len(rpCall.zips) \in Nat /\ rpCall.ioFails \in BOOLEAN
      /\ rpTodo \in Seq(Seq(RpEntry)) /\ Len(rpTodo) \in Nat
    BY <1>1, RpCallParts DEF RpBounded
<1>3. ASSUME repack!Start PROVE RpBounded'
    <2>1. /\ rpPhase = "idle" /\ rpCall' \in RepackCalls
          /\ rpTodo' = rpTodo /\ rpSeen' = rpSeen /\ rpOut' = rpOut /\ rpFiltered' = rpFiltered
          /\ rpLost' = rpLost
        BY <1>3 DEF repack!Start
    <2>2. rpOut = << >> /\ rpFiltered = << >> /\ rpLost = FALSE /\ rpTodo = << >> /\ Len(rpTodo) = 0
        BY <2>1 DEF RpInv, RpFresh, RpBounded
    <2>3. 0 <= Len(rpCall'.dirs) + Len(rpCall'.zips)
        <3>1. Len(rpCall'.dirs) \in Nat /\ Len(rpCall'.zips) \in Nat
            BY <2>1, RepackCallsAssumption
        <3>2. \A k, l \in Nat : 0 <= k + l
            OBVIOUS
        <3>. QED
            BY <3>1, <3>2, Zenon
    <2>4. DOMAIN rpOut = {} /\ DOMAIN rpFiltered = {}
        BY <2>2
    <2>. HIDE DEF RpEntry
    <2>. QED
        BY <1>2, <2>1, <2>2, <2>3, <2>4 DEF RpBounded
<1>4. ASSUME repack!Run PROVE RpBounded'
    <2>1. /\ rpPhase' = "pack" /\ rpTodo' = rpCall.dirs \o rpCall.zips /\ rpCall' = rpCall
          /\ rpSeen' = rpSeen /\ rpOut' = rpOut /\ rpFiltered' = rpFiltered /\ rpLost' = rpLost
        BY <1>4 DEF repack!Run
    <2>. HIDE DEF RpEntry
    <2>2. rpTodo' \in Seq(Seq(RpEntry)) /\ Len(rpTodo') = Len(rpCall.dirs) + Len(rpCall.zips)
        BY <1>2, <2>1
    <2>. QED
        BY <1>2, <2>1, <2>2 DEF RpBounded
<1>5. ASSUME repack!SourceDone PROVE RpBounded'
    <2>1. /\ rpPhase = "pack" /\ rpPhase' = rpPhase /\ rpTodo # << >> /\ rpTodo' = Tail(rpTodo)
          /\ rpCall' = rpCall /\ rpSeen' = rpSeen /\ rpOut' = rpOut /\ rpFiltered' = rpFiltered
          /\ rpLost' = rpLost
        BY <1>5 DEF repack!SourceDone
    <2>2. rpTodo' \in Seq(Seq(RpEntry)) /\ Len(rpTodo') = Len(rpTodo) - 1
        BY <1>2, <2>1, NlTail
    <2>3. Len(rpTodo') <= Len(rpCall'.dirs) + Len(rpCall'.zips)
        <3>1. Len(rpTodo) <= Len(rpCall.dirs) + Len(rpCall.zips)
            BY DEF RpBounded
        <3>3. \A j, k, l \in Nat : j <= k + l => j - 1 <= k + l
            OBVIOUS
        <3>4. Len(rpTodo) - 1 <= Len(rpCall.dirs) + Len(rpCall.zips)
            BY <1>2, <3>1, <3>3, Zenon
        <3>2. Len(rpTodo') <= Len(rpCall.dirs) + Len(rpCall.zips)
            BY <2>2, <3>4, Zenon
        <3>. QED
            BY <2>1, <3>2
    <2>. QED
        BY <2>1, <2>2, <2>3 DEF RpBounded
<1>6. ASSUME repack!Packing, repack!Step
      PROVE  /\ rpTodo' \in Seq(Seq(RpEntry)) /\ Len(rpTodo') = Len(rpTodo)
             /\ rpPhase = "pack" /\ rpPhase' = rpPhase /\ rpCall' = rpCall
             /\ repack!Entry \in RpEntry
    <2>1. /\ rpPhase = "pack" /\ rpPhase' = rpPhase /\ rpCall' = rpCall
          /\ rpTodo # << >> /\ rpTodo[1] # << >> /\ rpTodo' = [rpTodo EXCEPT ![1] = Tail(rpTodo[1])]
        BY <1>6 DEF repack!Packing, repack!Step
    <2>. HIDE DEF RpEntry
    <2>2. 1 \in DOMAIN rpTodo /\ rpTodo[1] \in Seq(RpEntry) /\ DOMAIN rpTodo = 1..Len(rpTodo)
        BY <1>2, <2>1
    <2>3. Tail(rpTodo[1]) \in Seq(RpEntry) /\ Head(rpTodo[1]) \in RpEntry
        BY <2>1, <2>2
    <2>. QED
        BY <1>2, <2>1, <2>2, <2>3 DEF repack!Entry
<1>7. ASSUME repack!Skip PROVE RpBounded'
    <2>1. /\ repack!Packing /\ repack!Step /\ rpOut' = rpOut /\ rpFiltered' = rpFiltered
          /\ rpSeen \subseteq rpSeen' /\ (rpLost' = rpLost \/ rpCall.ioFails = TRUE)
        BY <1>2, <1>7 DEF repack!Skip
    <2>. QED
        BY <1>2, <1>6, <2>1 DEF RpBounded
<1>8. ASSUME repack!Write PROVE RpBounded'
    <2>1. /\ repack!Packing /\ repack!Step /\ rpOut' = Append(rpOut, repack!Entry)
          /\ rpFiltered' = rpFiltered /\ rpSeen' = rpSeen \cup {repack!Entry.name} /\ rpLost' = rpLost
        BY <1>8 DEF repack!Write, repack!Fresh, repack!See
    <2>2. \A i \in DOMAIN rpOut' : rpOut'[i].name \in rpSeen'
        BY <1>1, <1>6, <2>1, RpAppendSeen DEF RpBounded
    <2>. QED
        BY <1>2, <1>6, <2>1, <2>2 DEF RpBounded
<1>9. ASSUME repack!WriteFiltered PROVE RpBounded'
    <2>1. /\ repack!Packing /\ repack!Step /\ rpOut' = rpOut
          /\ rpFiltered' = Append(rpFiltered, repack!Entry) \/ rpFiltered' = rpFiltered
          /\ rpSeen' = rpSeen \cup {repack!Entry.name} /\ rpLost' = rpLost
        BY <1>9 DEF repack!WriteFiltered, repack!Fresh, repack!See
    <2>2. \A i \in DOMAIN rpFiltered' : rpFiltered'[i].name \in rpSeen'
        BY <1>1, <1>6, <2>1, RpAppendSeen DEF RpBounded
    <2>. QED
        BY <1>2, <1>6, <2>1, <2>2 DEF RpBounded
<1>11. ASSUME repack!WriteFilteredFails PROVE RpBounded'
    <2>1. /\ repack!Packing /\ repack!Step /\ rpOut' = rpOut
          /\ rpFiltered' \in {rpFiltered, Append(rpFiltered, repack!Cut(repack!Entry))}
          /\ rpSeen' = rpSeen \cup {repack!Entry.name} /\ rpCall.ioFails = TRUE
        BY <1>2, <1>11 DEF repack!WriteFilteredFails, repack!Fresh, repack!See
    <2>2. repack!Cut(repack!Entry) \in RpEntry /\ repack!Cut(repack!Entry).name = repack!Entry.name
        BY <1>6, <2>1 DEF RpEntry, repack!Cut
    <2>3. \A i \in DOMAIN rpFiltered' : rpFiltered'[i].name \in rpSeen'
        <3>1. CASE rpFiltered' = rpFiltered
            BY <2>1, <3>1 DEF RpBounded
        <3>2. CASE rpFiltered' = Append(rpFiltered, repack!Cut(repack!Entry))
            BY <1>1, <2>1, <2>2, <3>2, RpAppendSeen DEF RpBounded
        <3>. QED
            BY <2>1, <3>1, <3>2
    <2>. QED
        BY <1>2, <1>6, <2>1, <2>3 DEF RpBounded
<1>10. ASSUME repack!Fatal \/ repack!Packed \/ repack!Close \/ UNCHANGED rpVars PROVE RpBounded'
    <2>1. /\ rpTodo' = rpTodo /\ rpSeen' = rpSeen /\ rpOut' = rpOut /\ rpFiltered' = rpFiltered
          /\ rpCall' = rpCall /\ (rpPhase' \in {"idle", "start"} => rpPhase' = rpPhase)
        BY <1>10 DEF repack!Fatal, repack!Packed, repack!Close, rpVars
    <2>2. rpLost' = TRUE => rpLost = TRUE \/ rpCall.ioFails = TRUE
        BY <1>1, <1>2, <1>10 DEF repack!Fatal, repack!Packed, repack!Close, rpVars
    <2>. QED
        BY <2>1, <2>2 DEF RpBounded
<1>. QED
    BY <1>3, <1>4, <1>5, <1>7, <1>8, <1>9, <1>10, <1>11 DEF repack!Next

LEMMA RpTypes == FairSpec => []repack!TypeOK
<1>1. RpInv /\ RpBounded => repack!TypeOK
    <2>. SUFFICES ASSUME RpInv, RpBounded PROVE repack!TypeOK
        OBVIOUS
    <2>1. rpLost \in BOOLEAN /\ (rpLost => rpCall.ioFails)
        BY DEF RpInv, RpTyped, RpBounded
    <2>2. \A e \in repack!Range(rpOut) \cup repack!Range(rpFiltered) : e.name \in rpSeen
        BY DEF RpBounded, repack!Range
    <2>. QED
        BY <2>1, <2>2 DEF RpInv, RpTyped, RpBounded, repack!TypeOK
<1>. QED
    BY <1>1, RpInitial, RpSteps, RpInductive, RpBoundsStart, RpBounds, PTL DEF FairSpec

\* There are keys to set only behind the parse.
FfToDo == ffTodo \subseteq DOMAIN ffMap /\ (ffPhase \in {"idle", "parse"} => ffTodo = {})

LEMMA FfTypes == FairSpec => []flagfile!TypeOK
<1>1. Init => FfToDo
    BY DEF Init, flagfile!Init, FfToDo
<1>2. FfToDo /\ [flagfile!Next]_ffVars => FfToDo'
    BY DEF FfToDo, ffVars, flagfile!Next, flagfile!Run, flagfile!SkipBlank, flagfile!SetKey,
           flagfile!SetKeyFromNextLine, flagfile!BadLine, flagfile!LoneQuote, flagfile!ReadFails,
           flagfile!Parsed, flagfile!SetFlag, flagfile!SetFlagFile, flagfile!NestedPanics,
           flagfile!Done, flagfile!Parsing,
           flagfile!Setting
<1>3. FfInv /\ FfToDo => flagfile!TypeOK
    <2>. SUFFICES ASSUME FfInv, FfToDo PROVE flagfile!TypeOK
        OBVIOUS
    <2>1. ffAt \in 0..Len(ffCall.lines)
        BY FfCallFacts DEF FfInv, FfTyped, FfCount
    <2>2. ffTodo \subseteq DOMAIN ffMap
        BY DEF FfInv, FfTyped, FfSetting, FfToDo
    <2>3. DOMAIN ffFlags \subseteq Known
        BY DEF FfInv, FfTyped, FfParsing, FfSetting, FfFailed, FfNestedPanics
    <2>. QED
        BY <2>1, <2>2, <2>3 DEF FfInv, FfTyped, flagfile!TypeOK
<1>. QED
    BY <1>1, <1>2, <1>3, FfInitial, FfSteps, FfInductive, PTL DEF FairSpec

LEMMA DxTypes == FairSpec => []dex!TypeOK
<1>1. DxInv => dex!TypeOK
    BY DEF DxInv, DxTyped, DxOut, DxFiles, dex!TypeOK
<1>. QED
    BY <1>1, DxInitial, DxSteps, DxInductive, PTL DEF FairSpec

LEMMA NlTypes == FairSpec => []nativelib!TypeOK
BY NlInitial, NlSteps, NlInductive, NlImplies, PTL DEF FairSpec
=============================================================================
