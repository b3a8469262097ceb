----------------------------- MODULE AkApkProofs -----------------------------
(***************************************************************************)
(* What the commands of ak that build an APK and its manifests give to     *)
(* aapt2 and write, for every call: compile, link, manifest, patch and     *)
(* shellapk; the minimal SDK version that enforce_min_sdk_floor.py sets in *)
(* a manifest and validates; and, with what the modules before have for    *)
(* the other commands, the types of the variables of all of them.          *)
(*                                                                         *)
(* As in AkProofs each command has an invariant of its own:                *)
(*   - compile: a directory that was looked at is the renamed one of the   *)
(*     bucket, and none of the bucket is lost;                             *)
(*   - link: the arguments are the archives of the walks so far, each      *)
(*     where it was first seen;                                            *)
(*   - manifest: the patched document has, of the arguments for an         *)
(*     attribute, the last;                                                *)
(*   - patch: the elements that the outputs share are those that the flags *)
(*     ask for, with the split of the last output that was written;        *)
(*   - shellapk: the entries of the APK are, in order and but for those    *)
(*     that may be lost, those of what was to be written.                  *)
(***************************************************************************)
EXTENDS AkProofs, AkPackageProofs, ManifestUtils, MinSdk

-----------------------------------------------------------------------------
(* compile.go: aapt2 gets each directory under a name that it parses *)

LEMMA CpSteps == [Next]_vars => [compile!Next]_cpVars
BY DEF Next, vars, runCmd, RunFinalrjar, RunGeneratemanifest, RunDex, RunExtractaar,
       RunRepack, RunRjar, RunNativelib, RunShellapk, RunPatch, RunManifest, RunCompile,
       RunLink, RunFlagfile, RunBucketize, RunSession, ArchiveReturns

CpIsImage(n, m) == compile!dirReplacer(m) = n /\ cpDirs[n] = cpCall.bucket[m]

\* A directory that is not looked at yet is as it was; each of the others is the renamed
\* one of the bucket, and each of the bucket is there.
CpRenamed ==
    LET bucket == cpCall.bucket IN
    /\ \A n \in cpTodo : n \in DOMAIN cpDirs /\ cpDirs[n] = bucket[n]
    /\ \A n \in DOMAIN cpDirs \ cpTodo : \E m \in DOMAIN bucket \ cpTodo : CpIsImage(n, m)
    /\ \A m \in DOMAIN bucket \ cpTodo : \E n \in DOMAIN cpDirs \ cpTodo : CpIsImage(n, m)

CpInv ==
    /\ compile!TypeOK
    /\ cpPhase # "idle" => CpRenamed
    /\ cpPhase \in {"compile", "ok"} => cpTodo = {}
    /\ cpPhase = "ok" => cpCompiled = cpDirs

USE DEF compile!vars

\* A name that was replaced is not replaced again.
LEMMA CpReplacedOnce ==
    ASSUME CpInv
    PROVE  \A n \in DOMAIN cpCall.bucket :
              compile!dirReplacer(compile!dirReplacer(n)) = compile!dirReplacer(n)
<1>. \A q : compile!Replaced(compile!Replaced(q)) = compile!Replaced(q)
    BY DEF compile!Replaced
<1>. QED
    BY DEF compile!dirReplacer

LEMMA CpInitial == Init => CpInv
BY DEF Init, compile!Init, CpInv, compile!TypeOK, compile!NoCall

LEMMA CpInductive ==
    CpInv /\ [compile!Next]_cpVars => CpInv'
<1>. SUFFICES ASSUME CpInv, [compile!Next]_cpVars PROVE CpInv'
    OBVIOUS
<1>. USE DEF CpInv, compile!TypeOK
<1>1. CASE compile!Run
    <2>. USE <1>1 DEF compile!Run
    <2>1. cpDirs' = cpCall'.bucket /\ cpTodo' = DOMAIN cpCall'.bucket
        OBVIOUS
    <2>2. CpRenamed'
        BY <2>1 DEF CpRenamed
    <2>3. cpPhase' \in {"sanitize", "error"}
        OBVIOUS
    <2>. QED
        BY <2>2, <2>3
<1>2. CASE compile!Keep
    <2>. USE <1>2 DEF compile!Keep
    <2>1. PICK d \in cpTodo : compile!dirReplacer(d) = d /\ cpTodo' = cpTodo \ {d}
        OBVIOUS
    <2>2. CpIsImage(d, d)'
        BY <2>1 DEF CpRenamed, CpIsImage
    <2>3. CpRenamed'
        <3>1. \A n, m : CpIsImage(n, m)' <=> CpIsImage(n, m)
            BY DEF CpIsImage
        <3>. QED
            BY <2>1, <2>2, <3>1 DEF CpRenamed
    <2>. QED
        BY <2>1, <2>3
<1>3. CASE compile!Rename
    <2>. USE <1>3 DEF compile!Rename
    <2>1. PICK d \in cpTodo : LET to == compile!dirReplacer(d) IN
            /\ to # d /\ compile!CanRename(to)
            /\ cpDirs' = [n \in (DOMAIN cpDirs \ {d}) \cup {to} |->
                              cpDirs[IF n = to THEN d ELSE n]]
            /\ cpTodo' = cpTodo \ {d}
        OBVIOUS
    <2>. DEFINE to == compile!dirReplacer(d)
    <2>2. to # d /\ to \notin DOMAIN cpDirs /\ to \notin cpTodo
        BY <2>1 DEF compile!CanRename, CpRenamed
    <2>3. /\ DOMAIN cpDirs' = (DOMAIN cpDirs \ {d}) \cup {to}
          /\ cpDirs'[to] = cpDirs[d]
          /\ \A n \in DOMAIN cpDirs \ {d} : cpDirs'[n] = cpDirs[n]
        BY <2>1, <2>2
    <2>4. d \in DOMAIN cpDirs /\ cpDirs[d] = cpCall.bucket[d] /\ d \in DOMAIN cpCall.bucket
        BY DEF CpRenamed
    <2>5. CpIsImage(to, d)'
        BY <2>3, <2>4 DEF CpIsImage
    <2>6. \A n \in DOMAIN cpDirs \ {d} : \A m : CpIsImage(n, m)' <=> CpIsImage(n, m)
        BY <2>3 DEF CpIsImage
    <2>7. CpRenamed'
        <3>. HIDE DEF to
        <3>1. \A n \in cpTodo' : n \in DOMAIN cpDirs' /\ cpDirs'[n] = cpCall'.bucket[n]
            BY <2>1, <2>3 DEF CpRenamed
        <3>2. \A n \in DOMAIN cpDirs' \ cpTodo' : \E m \in DOMAIN cpCall'.bucket \ cpTodo' : CpIsImage(n, m)'
            BY <2>1, <2>2, <2>3, <2>4, <2>5, <2>6 DEF CpRenamed
        <3>3. \A m \in DOMAIN cpCall'.bucket \ cpTodo' : \E n \in DOMAIN cpDirs' \ cpTodo' : CpIsImage(n, m)'
            BY <2>1, <2>2, <2>3, <2>4, <2>5, <2>6 DEF CpRenamed
        <3>. QED
            BY <3>1, <3>2, <3>3 DEF CpRenamed
    <2>. QED
        BY <2>1, <2>7
<1>4. CASE compile!RenameFails
    BY <1>4 DEF compile!RenameFails, CpRenamed, CpIsImage
<1>5. CASE compile!Sanitized
    BY <1>5 DEF compile!Sanitized, CpRenamed, CpIsImage
<1>6. CASE compile!aapt2
    BY <1>6 DEF compile!aapt2, CpRenamed, CpIsImage
<1>7. CASE UNCHANGED cpVars
    BY <1>7 DEF cpVars, CpRenamed, CpIsImage
<1>. QED
    BY <1>1, <1>2, <1>3, <1>4, <1>5, <1>6, <1>7 DEF compile!Next, cpVars

LEMMA CpImplies == CpInv => compile!CompileRight
<1>. SUFFICES ASSUME CpInv, cpPhase # "idle"
              PROVE  /\ compile!Files(cpDirs) = compile!Files(cpCall.bucket)
                     /\ \A n \in DOMAIN cpDirs : n \notin DOMAIN cpCall.bucket =>
                           \E m \in DOMAIN cpCall.bucket : CpIsImage(n, m)
                     /\ cpTodo = {} => \A n \in DOMAIN cpDirs : compile!dirReplacer(n) = n
    BY DEF CpInv, compile!CompileRight, CpIsImage
<1>. DEFINE B == cpCall.bucket
            r(n) == compile!dirReplacer(n)
<1>1. CpRenamed /\ cpTodo \subseteq DOMAIN B /\ \A n \in DOMAIN B : r(r(n)) = r(n)
    BY CpReplacedOnce DEF CpInv, compile!TypeOK
<1>2. \A n \in DOMAIN cpDirs : \E m \in DOMAIN B : r(m) = r(n) /\ cpDirs[n] = B[m]
    BY <1>1 DEF CpRenamed, CpIsImage
<1>3. \A m \in DOMAIN B : \E n \in DOMAIN cpDirs : r(m) = r(n) /\ cpDirs[n] = B[m]
    BY <1>1 DEF CpRenamed, CpIsImage
<1>4. compile!Files(cpDirs) = compile!Files(B)
    <2>. HIDE DEF r
    <2>1. \A x : x \in compile!Files(cpDirs) <=>
              \E n \in DOMAIN cpDirs : \E f \in cpDirs[n] : x = <<r(n), f>>
        BY DEF compile!Files, r
    <2>2. \A x : x \in compile!Files(B) <=>
              \E n \in DOMAIN B : \E f \in B[n] : x = <<r(n), f>>
        BY DEF compile!Files, r
    <2>3. \A x : x \in compile!Files(cpDirs) => x \in compile!Files(B)
        BY <1>2, <2>1, <2>2
    <2>4. \A x : x \in compile!Files(B) => x \in compile!Files(cpDirs)
        BY <1>3, <2>1, <2>2
    <2>. QED
        BY <2>3, <2>4
<1>5. cpTodo = {} => \A n \in DOMAIN cpDirs : r(n) = n
    BY <1>1 DEF CpRenamed, CpIsImage
<1>. QED
    BY <1>1, <1>4, <1>5 DEF CpRenamed

\* compile gives aapt2 each directory of the bucket, under a name that it parses, and no
\* file of one is lost: compile.go's Run.
THEOREM CompileIsRight == FairSpec => []compile!CompileRight
BY CpInitial, CpSteps, CpInductive, CpImplies, PTL DEF FairSpec

-----------------------------------------------------------------------------
(* link.go: aapt2 gets each archive once, and the jar has all that it wrote *)

LEMMA LkCardinality == \A S : link!Z!Cardinality(S) = Cardinality(S)
BY DEF Cardinality, link!Z!Cardinality

LEMMA LkSteps == [Next]_vars => [link!Next]_lkVars
BY DEF Next, vars, runCmd, RunFinalrjar, RunGeneratemanifest, RunDex, RunExtractaar,
       RunRepack, RunRjar, RunNativelib, RunShellapk, RunPatch, RunManifest, RunCompile,
       RunLink, RunFlagfile, RunBucketize, RunSession, ArchiveReturns

\* s has what the first n that the walks see have, each where it is first seen.
LkFirsts(s, n) ==
    /\ s \in Seq(STRING)
    /\ \A k \in 1..n : \E i \in DOMAIN s : s[i] = lkCall.seen[k]
    /\ \A i \in DOMAIN s : \E k \in 1..n : s[i] = lkCall.seen[k]
    /\ \A i, j \in DOMAIN s : i < j =>
          \E k \in 1..n : lkCall.seen[k] = s[i] /\ \A l \in 1..k : lkCall.seen[l] # s[j]

LkInv ==
    /\ lkCall \in LinkCalls \cup {link!NoCall}
    /\ lkPhase \in {"idle", "walk", "aapt2", "zip", "ok", "error"}
    /\ lkPhase \in {"idle", "walk"} => lkArgs = << >>
    /\ lkPhase \in {"aapt2", "zip", "ok"} => LkFirsts(lkArgs, Len(lkCall.seen))
    /\ lkArgs = << >> \/ LkFirsts(lkArgs, Len(lkCall.seen))
    /\ lkPhase # "ok" => lkJar = << >>
    /\ lkPhase = "ok" => \/ {lkJar[i].name : i \in DOMAIN lkJar} = DOMAIN lkCall.rjava
                         \/ lkCall.ioFails /\ lkJar = << >>

LkCallTyped ==
    /\ lkCall.seen \in Seq(STRING) /\ IsFiniteSet(DOMAIN lkCall.rjava)
    /\ \A m, n \in DOMAIN lkCall.rjava :
          /\ ~NameBefore(n, n)
          /\ m # n => NameBefore(m, n) \/ NameBefore(n, m)
          /\ \A l \in DOMAIN lkCall.rjava :
                NameBefore(l, m) /\ NameBefore(m, n) => NameBefore(l, n)

LEMMA LkCallFacts ==
    ASSUME lkCall \in LinkCalls \cup {link!NoCall}
    PROVE  LkCallTyped
<1>1. CASE lkCall \in LinkCalls
    BY <1>1, LinkCallsAssumption DEF LkCallTyped
<1>2. CASE lkCall = link!NoCall
    <2>1. lkCall.seen = << >> /\ lkCall.rjava = << >> /\ DOMAIN lkCall.rjava = {}
        BY <1>2 DEF link!NoCall
    <2>. QED
        BY <2>1, FS_EmptySet DEF LkCallTyped
<1>. QED
    BY <1>1, <1>2

USE DEF link!vars

LEMMA LkAppend ==
    ASSUME LkCallTyped, NEW n \in 1..Len(lkCall.seen), NEW s, LkFirsts(s, n - 1)
    PROVE  LET x == lkCall.seen[n]
           IN LkFirsts(IF x \in link!ToSet(s) THEN s ELSE Append(s, x), n)
<1>. DEFINE x == lkCall.seen[n]
<1>1. n \in Nat /\ x \in STRING /\ s \in Seq(STRING) /\ 1..n = (1..(n - 1)) \cup {n}
    BY DEF LkFirsts, LkCallTyped
<1>2. x \in link!ToSet(s) <=> \E i \in DOMAIN s : s[i] = x
    BY DEF link!ToSet
<1>. HIDE DEF x
<1>3. \A k \in 1..(n - 1) : k \in 1..n /\ lkCall.seen[k] \in STRING
    BY DEF LkCallTyped
<1>4. x = lkCall.seen[n] /\ n \in 1..n
    BY DEF x
<1>5. CASE x \in link!ToSet(s)
    <2>1. \A k \in 1..n : \E i \in DOMAIN s : s[i] = lkCall.seen[k]
        BY <1>1, <1>2, <1>4, <1>5 DEF LkFirsts
    <2>2. \A i \in DOMAIN s : \E k \in 1..n : s[i] = lkCall.seen[k]
        BY <1>3 DEF LkFirsts
    <2>3. \A i, j \in DOMAIN s : i < j =>
              \E k \in 1..n : lkCall.seen[k] = s[i] /\ \A l \in 1..k : lkCall.seen[l] # s[j]
        BY <1>3 DEF LkFirsts
    <2>4. LkFirsts(s, n)
        BY <1>1, <2>1, <2>2, <2>3 DEF LkFirsts
    <2>. QED
        BY <1>5, <2>4 DEF x
<1>6. CASE x \notin link!ToSet(s)
    <2>. DEFINE t == Append(s, x)
    <2>1. /\ t \in Seq(STRING) /\ Len(t) = Len(s) + 1 /\ t[Len(s) + 1] = x
          /\ DOMAIN t = 1..(Len(s) + 1) /\ DOMAIN s = 1..Len(s) /\ Len(s) \in Nat
          /\ \A i \in DOMAIN s : i \in DOMAIN t /\ t[i] = s[i]
          /\ Len(s) + 1 \in DOMAIN t
        BY <1>1
    <2>. HIDE DEF t
    <2>2. \A i \in DOMAIN t : i \in DOMAIN s \/ i = Len(s) + 1
        BY <2>1
    <2>3. ASSUME NEW k \in 1..n PROVE \E i \in DOMAIN t : t[i] = lkCall.seen[k]
        <3>1. CASE k \in 1..(n - 1)
            <4>1. PICK i \in DOMAIN s : s[i] = lkCall.seen[k]
                BY <3>1 DEF LkFirsts
            <4>. QED
                BY <2>1, <4>1
        <3>2. CASE k = n
            BY <1>4, <2>1, <3>2
        <3>. QED
            BY <1>1, <3>1, <3>2
    <2>4. ASSUME NEW i \in DOMAIN t PROVE \E k \in 1..n : t[i] = lkCall.seen[k]
        <3>1. CASE i \in DOMAIN s
            <4>1. PICK k \in 1..(n - 1) : s[i] = lkCall.seen[k]
                BY <3>1 DEF LkFirsts
            <4>. QED
                BY <1>3, <2>1, <3>1, <4>1
        <3>. QED
            BY <1>4, <2>1, <2>2, <3>1
    <2>5. ASSUME NEW i \in DOMAIN t, NEW j \in DOMAIN t, i < j
          PROVE  \E k \in 1..n : lkCall.seen[k] = t[i] /\ \A l \in 1..k : lkCall.seen[l] # t[j]
        <3>1. i \in DOMAIN s
            BY <2>1, <2>2, <2>5
        <3>2. CASE j \in DOMAIN s
            <4>1. PICK k \in 1..(n - 1) : /\ lkCall.seen[k] = s[i]
                                          /\ \A l \in 1..k : lkCall.seen[l] # s[j]
                BY <2>5, <3>1, <3>2 DEF LkFirsts
            <4>. QED
                BY <1>3, <2>1, <3>1, <3>2, <4>1
        <3>3. CASE j = Len(s) + 1
            <4>1. PICK k \in 1..(n - 1) : lkCall.seen[k] = s[i]
                BY <3>1 DEF LkFirsts
            <4>2. \A l \in 1..k : l \in 1..(n - 1)
                BY <1>1
            <4>3. \A l \in 1..k : lkCall.seen[l] # x
                BY <1>2, <1>6, <4>2 DEF LkFirsts
            <4>. QED
                BY <1>3, <2>1, <3>1, <3>3, <4>1, <4>3
        <3>. QED
            BY <2>2, <3>2, <3>3
    <2>6. LkFirsts(t, n)
        BY <2>1, <2>3, <2>4, <2>5 DEF LkFirsts
    <2>. QED
        BY <1>6, <2>6 DEF x, t
<1>. QED
    BY <1>5, <1>6

\* walk.Files gives what the walks see.
LEMMA LkFiles ==
    ASSUME LkCallTyped
    PROVE  LkFirsts(link!files[Len(lkCall.seen)], Len(lkCall.seen))
<1>. DEFINE seen == lkCall.seen
            n == Len(seen)
            f == link!files
            V == Seq(STRING)
            Add(k, v) == IF seen[k] \in link!ToSet(v) THEN v ELSE Append(v, seen[k])
            step == [kv \in (1..n) \X V |-> Add(kv[1], kv[2])]
            Def(h) == [k \in 0..n |-> IF k = 0 THEN << >> ELSE Add(k, h[k - 1])]
<1>1. n \in Nat /\ (\A k \in 1..n : seen[k] \in STRING) /\ << >> \in V
    BY DEF LkCallTyped
<1>2. ASSUME NEW k \in 1..n, NEW v \in V PROVE Add(k, v) \in V
    <2>1. Append(v, seen[k]) \in V
        BY <1>1
    <2>. HIDE DEF V
    <2>. QED
        BY <2>1
<1>3. \A k \in 1..n, v \in V : step[<<k, v>>] = Add(k, v) /\ step[<<k, v>>] \in V
    BY <1>2
<1>. HIDE DEF step, V, Add
<1>4. PICK h : Recursive(h, n, V, << >>, step)
    <2>1. Steps(n, V, step)
        BY <1>3 DEF Steps
    <2>. QED
        BY <1>1, <2>1, PrimitiveRecursion
<1>5. h = Def(h)
    <2>1. \A k \in 0..n : k # 0 => k \in 1..n
        BY <1>1
    <2>2. ASSUME NEW k \in 1..n PROVE h[k] = Add(k, h[k - 1])
        <3>1. k - 1 \in 0..n
            BY <1>1
        <3>2. h[k - 1] \in V /\ h[k] = step[<<k, h[k - 1]>>]
            BY <1>4, <3>1 DEF Recursive
        <3>. QED
            BY <1>3, <3>2
    <2>. QED
        BY <1>4, <2>1, <2>2 DEF Recursive
<1>6. f = CHOOSE e : e = Def(e)
    BY DEF link!files, Add
<1>7. f = Def(f)
    BY <1>5, <1>6
<1>. HIDE DEF f
<1>8. \A k \in 0..n : LkFirsts(f[k], k)
    <2>. DEFINE T == {k \in 0..n : LkFirsts(f[k], k)}
    <2>1. 0 \in T
        <3>1. f[0] = << >> /\ 0 \in 0..n /\ << >> \in Seq(STRING) /\ 1..0 = {} /\ DOMAIN << >> = {}
            BY <1>1, <1>7
        <3>. QED
            BY <3>1 DEF LkFirsts
    <2>2. ASSUME NEW k \in 0..n, k # n, k \in T PROVE k + 1 \in T
        <3>1. k + 1 \in 0..n /\ k + 1 \in 1..n /\ k + 1 # 0 /\ (k + 1) - 1 = k
            BY <1>1, <2>2
        <3>2. f[k + 1] = Add(k + 1, f[k])
            BY <1>7, <3>1
        <3>3. LkFirsts(f[k], (k + 1) - 1)
            BY <2>2, <3>1
        <3>4. LkFirsts(Add(k + 1, f[k]), k + 1)
            BY <3>1, <3>3, LkAppend DEF Add
        <3>. QED
            BY <3>1, <3>2, <3>4
    <2>. HIDE DEF T
    <2>3. 0..n \subseteq T
        BY <1>1, <2>1, <2>2, Reaches
    <2>. QED
        BY <2>3 DEF T
<1>. QED
    BY <1>1, <1>8 DEF f

\* Each name of a directory has a place of its own, and each place a name.
LEMMA LkZipDir ==
    ASSUME NEW dir, IsFiniteSet(DOMAIN dir),
           \A m, n \in DOMAIN dir :
              /\ ~NameBefore(n, n)
              /\ m # n => NameBefore(m, n) \/ NameBefore(n, m)
              /\ \A l \in DOMAIN dir :
                    NameBefore(l, m) /\ NameBefore(m, n) => NameBefore(l, n)
    PROVE  LET zip == link!Z!ZipDir(dir)
           IN {zip[i].name : i \in DOMAIN zip} = DOMAIN dir
<1>. DEFINE D == DOMAIN dir
            K == Cardinality(D)
            P(n) == {m \in D : NameBefore(m, n)}
            place == [n \in D |-> Cardinality(P(n)) + 1]
            zip == link!Z!ZipDir(dir)
            At(i) == CHOOSE n \in D : place[n] = i
<1>1. K \in Nat
    BY FS_CardinalityType
<1>2. ASSUME NEW n \in D PROVE place[n] \in 1..K /\ IsFiniteSet(P(n))
    <2>1. IsFiniteSet(P(n)) /\ IsFiniteSet(D \ {n})
        BY FS_Subset
    <2>2. P(n) \subseteq D \ {n}
        OBVIOUS
    <2>3. Cardinality(P(n)) <= Cardinality(D \ {n}) /\ Cardinality(P(n)) \in Nat
        BY <2>1, <2>2, FS_Subset, FS_CardinalityType
    <2>4. Cardinality(D \ {n}) = K - 1
        BY FS_RemoveElement
    <2>. QED
        BY <1>1, <2>1, <2>3, <2>4
<1>3. ASSUME NEW m \in D, NEW n \in D, NameBefore(m, n) PROVE place[m] < place[n]
    <2>1. P(m) \subseteq P(n) /\ m \in P(n) /\ m \notin P(m)
        BY <1>3
    <2>2. Cardinality(P(m)) <= Cardinality(P(n)) /\ Cardinality(P(m)) # Cardinality(P(n))
        BY <1>2, <2>1, FS_Subset
    <2>. QED
        BY <1>2, <2>2, FS_CardinalityType
<1>4. ASSUME NEW m \in D, NEW n \in D, place[m] = place[n] PROVE m = n
    <2>1. place[m] \in Int /\ ~(place[m] < place[n]) /\ ~(place[n] < place[m])
        BY <1>2, <1>4
    <2>. QED
        BY <1>3, <2>1
<1>5. \A i \in 1..K : \E n \in D : place[n] = i
    <2>. HIDE DEF place
    <2>1. place \in [D -> 1..K]
        BY <1>2 DEF place
    <2>2. place \in Injection(D, 1..K)
        BY <1>4, <2>1 DEF Injection, IsInjective
    <2>3. IsFiniteSet(1..K) /\ Cardinality(1..K) = K
        BY <1>1, FS_Interval
    <2>4. place \in Surjection(D, 1..K)
        BY <2>2, <2>3, FS_Injection, FS_Surjection
    <2>. QED
        BY <2>4 DEF Surjection
<1>. HIDE DEF place
<1>6. \A i \in 1..K : At(i) \in D /\ place[At(i)] = i
    BY <1>5
<1>7. \A n \in D : At(place[n]) = n /\ place[n] \in 1..K
    BY <1>2, <1>4, <1>6
<1>8. zip = [i \in 1..K |-> [name |-> At(i), body |-> dir[At(i)]]]
    <2>1. \A n \in D : link!Z!Place(dir, n) = place[n]
        BY LkCardinality DEF link!Z!Place, place
    <2>2. \A i : (CHOOSE n \in D : link!Z!Place(dir, n) = i) = At(i)
        BY <2>1
    <2>3. link!Z!Cardinality(D) = K
        BY LkCardinality
    <2>4. zip = [i \in 1..link!Z!Cardinality(D) |->
                    [name |-> CHOOSE n \in D : link!Z!Place(dir, n) = i,
                     body |-> dir[CHOOSE n \in D : link!Z!Place(dir, n) = i]]]
        BY DEF link!Z!ZipDir
    <2>. HIDE DEF zip, K, At
    <2>. QED
        BY <2>2, <2>3, <2>4
<1>. HIDE DEF zip, At, K
<1>9. \A i \in 1..K : zip[i].name = At(i)
    BY <1>8
<1>10. DOMAIN zip = 1..K
    BY <1>8
<1>11. {zip[i].name : i \in DOMAIN zip} = D
    <2>1. \A i \in DOMAIN zip : zip[i].name \in D
        BY <1>6, <1>9, <1>10
    <2>2. \A n \in D : \E i \in DOMAIN zip : zip[i].name = n
        BY <1>7, <1>9, <1>10
    <2>. HIDE DEF D
    <2>. QED
        BY <2>1, <2>2
<1>. QED
    BY <1>11 DEF zip

LEMMA LkInitial == Init => LkInv
BY DEF Init, link!Init, LkInv, link!NoCall

LEMMA LkInductive ==
    LkInv /\ [link!Next]_lkVars => LkInv'
<1>. SUFFICES ASSUME LkInv, [link!Next]_lkVars PROVE LkInv'
    OBVIOUS
<1>. USE DEF LkInv
<1>7. ASSUME lkCall' = lkCall, lkArgs' = lkArgs
      PROVE  LkFirsts(lkArgs, Len(lkCall.seen))' <=> LkFirsts(lkArgs, Len(lkCall.seen))
    BY <1>7 DEF LkFirsts
<1>1. CASE link!Run
    BY <1>1 DEF link!Run, LkFirsts
<1>2. CASE link!Walk
    <2>1. LkCallTyped
        BY LkCallFacts
    <2>2. LkFirsts(lkArgs', Len(lkCall.seen))
        BY <1>2, <2>1, LkFiles DEF link!Walk
    <2>. QED
        BY <1>2, <2>2 DEF link!Walk, LkFirsts
<1>3. CASE link!aapt2
    BY <1>3 DEF link!aapt2, LkFirsts
<1>4. CASE link!ZipSources
    <2>1. LkCallTyped
        BY LkCallFacts
    <2>2. {lkJar'[i].name : i \in DOMAIN lkJar'} = DOMAIN lkCall.rjava
        <3>1. lkJar' = link!Z!ZipDir(lkCall.rjava)
            BY <1>4 DEF link!ZipSources
        <3>. QED
            BY <2>1, <3>1, LkZipDir DEF LkCallTyped
    <2>3. lkCall' = lkCall /\ lkArgs' = lkArgs /\ lkPhase = "zip" /\ lkPhase' = "ok"
        BY <1>4 DEF link!ZipSources
    <2>. QED
        BY <1>7, <2>2, <2>3
<1>5. CASE link!Fails
    <2>1. lkCall' = lkCall /\ lkArgs' = lkArgs /\ lkPhase' = "error" /\ lkJar' = lkJar
          /\ lkPhase # "ok"
        BY <1>5 DEF link!Fails
    <2>. QED
        BY <1>7, <2>1
<1>6. CASE UNCHANGED lkVars
    <2>1. lkCall' = lkCall /\ lkArgs' = lkArgs /\ lkPhase' = lkPhase /\ lkJar' = lkJar
        BY <1>6 DEF lkVars
    <2>. QED
        BY <1>7, <2>1
<1>8. CASE link!ZipSourcesCut
    <2>1. lkCall' = lkCall /\ lkArgs' = lkArgs /\ lkPhase = "zip" /\ lkPhase' = "ok"
          /\ lkJar' = lkJar /\ lkCall.ioFails
        BY <1>8 DEF link!ZipSourcesCut
    <2>. QED
        BY <1>7, <2>1
<1>. QED
    BY <1>1, <1>2, <1>3, <1>4, <1>5, <1>6, <1>8 DEF link!Next, lkVars

LEMMA LkImplies == LkInv => link!LinkRight
<1>. SUFFICES ASSUME LkInv PROVE link!LinkRight
    OBVIOUS
<1>1. LkCallTyped
    BY LkCallFacts DEF LkInv
<1>2. ASSUME LkFirsts(lkArgs, Len(lkCall.seen))
      PROVE  /\ link!ToSet(lkArgs) = link!ToSet(lkCall.seen)
             /\ \A i, j \in DOMAIN lkArgs : i < j =>
                   \E k \in DOMAIN lkCall.seen :
                       lkCall.seen[k] = lkArgs[i] /\ \A l \in 1..k : lkCall.seen[l] # lkArgs[j]
    <2>1. DOMAIN lkCall.seen = 1..Len(lkCall.seen)
        BY <1>1 DEF LkCallTyped
    <2>2. link!ToSet(lkArgs) = link!ToSet(lkCall.seen)
        <3>1. \A i \in DOMAIN lkArgs : \E k \in DOMAIN lkCall.seen : lkArgs[i] = lkCall.seen[k]
            BY <1>2, <2>1 DEF LkFirsts
        <3>2. \A k \in DOMAIN lkCall.seen : \E i \in DOMAIN lkArgs : lkArgs[i] = lkCall.seen[k]
            BY <1>2, <2>1 DEF LkFirsts
        <3>. QED
            BY <3>1, <3>2 DEF link!ToSet
    <2>3. ASSUME NEW i \in DOMAIN lkArgs, NEW j \in DOMAIN lkArgs, i < j
          PROVE  \E k \in 1..Len(lkCall.seen) :
                     lkCall.seen[k] = lkArgs[i] /\ \A l \in 1..k : lkCall.seen[l] # lkArgs[j]
        BY <1>2, <2>3 DEF LkFirsts
    <2>. QED
        BY <2>1, <2>2, <2>3
<1>3. {e.name : e \in link!ToSet(lkJar)} = {lkJar[i].name : i \in DOMAIN lkJar}
    BY DEF link!ToSet
<1>. QED
    BY <1>2, <1>3 DEF LkInv, link!LinkRight

\* link gives aapt2 each archive once, where it is first seen, and makes a jar of all that
\* aapt2 wrote, unless the write of its directory fails: link.go's Run.
THEOREM LinkIsRight == FairSpec => []link!LinkRight
BY LkInitial, LkSteps, LkInductive, LkImplies, PTL DEF FairSpec

-----------------------------------------------------------------------------
(* manifestutils.go: of the arguments for an attribute the last one is set *)

\* Parsed arguments of an option.
ArgumentsTyped(attr) == attr \in Seq(Seq(STRING)) /\ Arguments(attr)

\* What the first n arguments leave to be patched.
IsFor(attr, n, i, elem, l) == i \in 1..n /\ attr[i][1] = elem /\ attr[i][2] = l
IsLastFor(attr, n, i, elem, l) ==
    IsFor(attr, n, i, elem, l) /\ \A j \in (i + 1)..n : ~IsFor(attr, n, j, elem, l)
HasLasts(elems, attr, n) ==
    /\ \A elem : elem \in DOMAIN elems <=> \E i \in 1..n : attr[i][1] = elem
    /\ \A elem \in DOMAIN elems : \A l :
          l \in DOMAIN elems[elem] <=> \E k : IsFor(attr, n, k, elem, l)
    /\ \A elem \in DOMAIN elems : \A l \in DOMAIN elems[elem] :
          /\ elems[elem][l].space = SpaceOf(elem, l)
          /\ \E k : IsLastFor(attr, n, k, elem, l) /\ elems[elem][l].value = attr[k][3]

PatchAttr == [space : {"", NameSpace}, value : STRING]
Partial(S, V) == UNION {[D -> V] : D \in SUBSET S}
PatchAttrs == Partial(STRING, PatchAttr)
PatchElems == Partial(STRING, PatchAttrs)

LEMMA PutDomain == \A f, x, v : DOMAIN Put(f, x, v) = DOMAIN f \cup {x}
BY DEF Put

LEMMA PutNew == \A f, x, v : Put(f, x, v)[x] = v
BY DEF Put

LEMMA PutOld == \A f, x, v : \A y \in DOMAIN f : y # x => Put(f, x, v)[y] = f[y]
BY DEF Put

LEMMA PutTyped ==
    ASSUME NEW S, NEW V, NEW f \in Partial(S, V), NEW x \in S, NEW v \in V
    PROVE  Put(f, x, v) \in Partial(S, V)
<1>. DEFINE g == [y \in DOMAIN f \cup {x} |-> IF y = x THEN v ELSE f[y]]
<1>1. PICK D \in SUBSET S : f \in [D -> V]
    BY DEF Partial
<1>2. g \in [D \cup {x} -> V] /\ D \cup {x} \in SUBSET S
    BY <1>1
<1>3. g \in Partial(S, V)
    BY <1>2 DEF Partial
<1>. QED
    BY <1>3 DEF Put

LEMMA ArgumentParts ==
    ASSUME NEW attr, ArgumentsTyped(attr), NEW i \in 1..Len(attr)
    PROVE  /\ attr[i][1] \in STRING /\ attr[i][2] \in STRING /\ attr[i][3] \in STRING
           /\ SpaceOf(attr[i][1], attr[i][2]) \in {"", NameSpace}
<1>1. i \in DOMAIN attr /\ attr[i] \in Seq(STRING) /\ Len(attr[i]) >= 3
    BY DEF ArgumentsTyped, Arguments
<1>2. 1 \in DOMAIN attr[i] /\ 2 \in DOMAIN attr[i] /\ 3 \in DOMAIN attr[i]
    BY <1>1
<1>3. \A k \in DOMAIN attr[i] : attr[i][k] \in STRING
    BY <1>1
<1>4. attr[i][1] \in STRING /\ attr[i][2] \in STRING /\ attr[i][3] \in STRING
    BY <1>2, <1>3
<1>5. SpaceOf(attr[i][1], attr[i][2]) \in {"", NameSpace}
    BY DEF SpaceOf
<1>. QED
    BY <1>4, <1>5

\* set is elems with the argument a.
AttrsOf(elems, e) == IF e \in DOMAIN elems THEN elems[e] ELSE << >>
IsSet(elems, a, set) ==
    /\ set \in PatchElems
    /\ DOMAIN set = DOMAIN elems \cup {a[1]}
    /\ \A e \in DOMAIN elems : e # a[1] => set[e] = elems[e]
    /\ DOMAIN set[a[1]] = DOMAIN AttrsOf(elems, a[1]) \cup {a[2]}
    /\ set[a[1]][a[2]].space = SpaceOf(a[1], a[2]) /\ set[a[1]][a[2]].value = a[3]
    /\ \A l \in DOMAIN AttrsOf(elems, a[1]) : l # a[2] => set[a[1]][l] = AttrsOf(elems, a[1])[l]

LEMMA SetTyped ==
    ASSUME NEW attr, ArgumentsTyped(attr), NEW n \in 1..Len(attr), NEW elems \in PatchElems
    PROVE  IsSet(elems, attr[n], SetArgument(elems, attr[n]))
<1>. DEFINE a == attr[n]
            old == AttrsOf(elems, a[1])
            v == [space |-> SpaceOf(a[1], a[2]), value |-> a[3]]
            new == Put(old, a[2], v)
            set == SetArgument(elems, a)
<1>1. a[1] \in STRING /\ a[2] \in STRING /\ v \in PatchAttr
    BY ArgumentParts DEF PatchAttr
<1>2. old \in PatchAttrs
    <2>1. << >> \in [{} -> PatchAttr] /\ {} \in SUBSET STRING
        OBVIOUS
    <2>2. << >> \in PatchAttrs
        BY <2>1 DEF PatchAttrs, Partial
    <2>3. PICK D \in SUBSET STRING : elems \in [D -> PatchAttrs]
        BY DEF PatchElems, Partial
    <2>. QED
        BY <2>2, <2>3 DEF AttrsOf
<1>3. v.space = SpaceOf(a[1], a[2]) /\ v.value = a[3]
    OBVIOUS
<1>. HIDE DEF a, old, v
<1>4. /\ new \in PatchAttrs /\ DOMAIN new = DOMAIN old \cup {a[2]} /\ new[a[2]] = v
      /\ \A l \in DOMAIN old : l # a[2] => new[l] = old[l]
    <2>1. old \in Partial(STRING, PatchAttr)
        BY <1>2 DEF PatchAttrs
    <2>2. new \in PatchAttrs
        BY <1>1, <2>1, PutTyped DEF PatchAttrs
    <2>3. DOMAIN new = DOMAIN old \cup {a[2]}
        BY PutDomain
    <2>4. new[a[2]] = v
        BY PutNew
    <2>5. \A l \in DOMAIN old : l # a[2] => new[l] = old[l]
        BY PutOld
    <2>. HIDE DEF new
    <2>. QED
        BY <2>2, <2>3, <2>4, <2>5
<1>. HIDE DEF new
<1>5. set = Put(elems, a[1], new)
    BY DEF SetArgument, Set, new, old, v, AttrsOf
<1>6. /\ set \in PatchElems /\ DOMAIN set = DOMAIN elems \cup {a[1]} /\ set[a[1]] = new
      /\ \A e \in DOMAIN elems : e # a[1] => set[e] = elems[e]
    <2>1. elems \in Partial(STRING, PatchAttrs) /\ new \in PatchAttrs /\ a[1] \in STRING
        BY <1>1, <1>4 DEF PatchElems
    <2>2. set \in PatchElems
        BY <1>5, <2>1, PutTyped DEF PatchElems
    <2>3. DOMAIN set = DOMAIN elems \cup {a[1]}
        BY <1>5, PutDomain
    <2>4. set[a[1]] = new
        BY <1>5, PutNew
    <2>5. \A e \in DOMAIN elems : e # a[1] => set[e] = elems[e]
        BY <1>5, PutOld
    <2>. HIDE DEF set
    <2>. QED
        BY <2>2, <2>3, <2>4, <2>5
<1>. HIDE DEF set
<1>. QED
    BY <1>3, <1>4, <1>6 DEF IsSet, a, old, set

LEMMA SetNext ==
    ASSUME NEW attr, ArgumentsTyped(attr), NEW n \in 1..Len(attr), NEW elems \in PatchElems,
           HasLasts(elems, attr, n - 1)
    PROVE  HasLasts(SetArgument(elems, attr[n]), attr, n)
<1>. DEFINE a == attr[n]
            old == AttrsOf(elems, a[1])
            set == SetArgument(elems, a)
            new == set[a[1]]
<1>1. /\ DOMAIN set = DOMAIN elems \cup {a[1]} /\ set[a[1]] = new
      /\ \A e \in DOMAIN elems : e # a[1] => set[e] = elems[e]
      /\ DOMAIN new = DOMAIN old \cup {a[2]}
      /\ new[a[2]].space = SpaceOf(a[1], a[2]) /\ new[a[2]].value = a[3]
      /\ \A l \in DOMAIN old : l # a[2] => new[l] = old[l]
    <2>. HIDE DEF set
    <2>1. IsSet(elems, a, set)
        BY SetTyped DEF set
    <2>. QED
        BY <2>1 DEF IsSet
<1>2. /\ n \in Nat /\ 1..n = (1..(n - 1)) \cup {n} /\ n \notin 1..(n - 1) /\ n \in 1..n
      /\ \A i \in 1..n : \A j \in (i + 1)..n : j \in 1..n
      /\ \A i \in 1..(n - 1) : (i + 1)..n = ((i + 1)..(n - 1)) \cup {n}
      /\ (n + 1)..n = {}
    OBVIOUS
<1>3. (a[1] \in DOMAIN elems => old = elems[a[1]]) /\ (a[1] \notin DOMAIN elems => DOMAIN old = {})
    BY DEF AttrsOf
<1>4. a = attr[n] /\ set = SetArgument(elems, attr[n])
    OBVIOUS
<1>. HIDE DEF a, old, new, set
\* The new argument is the last one for its attribute, and the others are as before.
<1>5. IsLastFor(attr, n, n, a[1], a[2])
    BY <1>2, <1>4 DEF IsLastFor, IsFor
<1>6. ASSUME NEW e, NEW l
      PROVE  (\E k : IsFor(attr, n, k, e, l)) <=>
                (\E k : IsFor(attr, n - 1, k, e, l)) \/ (e = a[1] /\ l = a[2])
    BY <1>2, <1>4 DEF IsFor
<1>7. ASSUME NEW e, NEW l, e # a[1] \/ l # a[2], NEW i, IsLastFor(attr, n - 1, i, e, l)
      PROVE  IsLastFor(attr, n, i, e, l)
    <2>1. i \in 1..(n - 1) /\ attr[i][1] = e /\ attr[i][2] = l /\ ~IsFor(attr, n, n, e, l)
        BY <1>4, <1>7 DEF IsLastFor, IsFor
    <2>2. \A j \in (i + 1)..(n - 1) : ~IsFor(attr, n, j, e, l)
        <3>1. \A j \in (i + 1)..(n - 1) : j \in 1..(n - 1)
            BY <2>1
        <3>. QED
            BY <1>7, <3>1 DEF IsLastFor, IsFor
    <2>. QED
        BY <1>2, <2>1, <2>2 DEF IsLastFor, IsFor
<1>8. \A e : e \in DOMAIN set <=> \E i \in 1..n : attr[i][1] = e
    BY <1>1, <1>2, <1>4 DEF HasLasts
\* What was to be patched before, seen from the element of the new argument.
<1>9. \A l : l \in DOMAIN old <=> \E k : IsFor(attr, n - 1, k, a[1], l)
    <2>1. CASE a[1] \in DOMAIN elems
        BY <1>3, <2>1 DEF HasLasts
    <2>2. CASE a[1] \notin DOMAIN elems
        BY <1>3, <2>2 DEF HasLasts, IsFor
    <2>. QED
        BY <2>1, <2>2
<1>10. ASSUME NEW e \in DOMAIN set, NEW l
       PROVE  /\ l \in DOMAIN set[e] <=> \E k : IsFor(attr, n, k, e, l)
              /\ l \in DOMAIN set[e] =>
                   /\ set[e][l].space = SpaceOf(e, l)
                   /\ \E k : IsLastFor(attr, n, k, e, l) /\ set[e][l].value = attr[k][3]
    <2>1. CASE e = a[1] /\ l = a[2]
        BY <1>1, <1>4, <1>5, <1>6, <2>1
    <2>2. CASE e = a[1] /\ l # a[2]
        <3>1. l \in DOMAIN set[e] <=> l \in DOMAIN old
            BY <1>1, <2>2
        <3>2. l \in DOMAIN old => set[e][l] = elems[e][l] /\ e \in DOMAIN elems /\ l \in DOMAIN elems[e]
            BY <1>1, <1>3, <2>2
        <3>3. l \in DOMAIN old => elems[e][l].space = SpaceOf(e, l)
            BY <3>2 DEF HasLasts
        <3>4. l \in DOMAIN old =>
                 \E k : IsLastFor(attr, n - 1, k, e, l) /\ elems[e][l].value = attr[k][3]
            BY <3>2 DEF HasLasts
        <3>. QED
            BY <1>6, <1>7, <1>9, <2>2, <3>1, <3>2, <3>3, <3>4
    <2>3. CASE e # a[1]
        <3>1. e \in DOMAIN elems /\ set[e] = elems[e]
            BY <1>1, <2>3
        <3>2. l \in DOMAIN elems[e] <=> \E k : IsFor(attr, n - 1, k, e, l)
            BY <3>1 DEF HasLasts
        <3>3. l \in DOMAIN elems[e] => elems[e][l].space = SpaceOf(e, l)
            BY <3>1 DEF HasLasts
        <3>4. l \in DOMAIN elems[e] =>
                 \E k : IsLastFor(attr, n - 1, k, e, l) /\ elems[e][l].value = attr[k][3]
            BY <3>1 DEF HasLasts
        <3>. QED
            BY <1>6, <1>7, <2>3, <3>1, <3>2, <3>3, <3>4
    <2>. QED
        BY <2>1, <2>2, <2>3
<1>11. HasLasts(set, attr, n)
    BY <1>8, <1>10 DEF HasLasts
<1>. QED
    BY <1>4, <1>11

\* The loop over the arguments leaves the last one for each attribute.
LEMMA CreatedLasts ==
    ASSUME NEW attr, ArgumentsTyped(attr)
    PROVE  HasLasts(CreatePatchElements(attr), attr, Len(attr))
<1>. DEFINE n == Len(attr)
            V == PatchElems
            Add(k, v) == SetArgument(v, attr[k])
            step == [kv \in (1..n) \X V |-> Add(kv[1], kv[2])]
            Def(h) == [k \in 0..n |-> IF k = 0 THEN << >> ELSE Add(k, h[k - 1])]
            f == CHOOSE e : e = Def(e)
<1>1. n \in Nat
    BY DEF ArgumentsTyped
<1>2. << >> \in V
    <2>1. << >> \in [{} -> PatchAttrs] /\ {} \in SUBSET STRING
        OBVIOUS
    <2>. QED
        BY <2>1 DEF PatchElems, Partial
<1>3. \A k \in 1..n, v \in V : Add(k, v) \in V
    BY SetTyped DEF IsSet
<1>4. \A k \in 1..n, v \in V : step[<<k, v>>] = Add(k, v) /\ step[<<k, v>>] \in V
    BY <1>3
<1>. HIDE DEF step, V, Add
<1>5. PICK h : Recursive(h, n, V, << >>, step)
    <2>1. Steps(n, V, step)
        BY <1>4 DEF Steps
    <2>. QED
        BY <1>1, <1>2, <2>1, PrimitiveRecursion
<1>6. h = Def(h)
    <2>1. \A k \in 0..n : k # 0 => k \in 1..n
        BY <1>1
    <2>2. ASSUME NEW k \in 1..n PROVE h[k] = Add(k, h[k - 1])
        <3>1. k - 1 \in 0..n
            BY <1>1
        <3>2. h[k - 1] \in V /\ h[k] = step[<<k, h[k - 1]>>]
            BY <1>5, <3>1 DEF Recursive
        <3>. QED
            BY <1>4, <3>2
    <2>. QED
        BY <1>5, <2>1, <2>2 DEF Recursive
<1>7. f = Def(f)
    BY <1>6
<1>8. CreatePatchElements(attr) = f[n]
    BY DEF CreatePatchElements, Add
<1>. HIDE DEF f
<1>9. \A k \in 0..n : f[k] \in V /\ HasLasts(f[k], attr, k)
    <2>. DEFINE T == {k \in 0..n : f[k] \in V /\ HasLasts(f[k], attr, k)}
    <2>1. 0 \in T
        <3>1. f[0] = << >> /\ 0 \in 0..n /\ DOMAIN << >> = {} /\ 1..0 = {}
            BY <1>1, <1>7
        <3>2. HasLasts(<< >>, attr, 0)
            BY <3>1 DEF HasLasts
        <3>. QED
            BY <1>2, <3>1, <3>2
    <2>2. ASSUME NEW k \in 0..n, k # n, k \in T PROVE k + 1 \in T
        <3>1. k + 1 \in 0..n /\ k + 1 \in 1..n /\ k + 1 # 0 /\ (k + 1) - 1 = k
            BY <1>1, <2>2
        <3>2. f[k + 1] = Add(k + 1, f[k])
            BY <1>7, <3>1
        <3>3. Add(k + 1, f[k]) \in V
            BY <1>3, <2>2, <3>1
        <3>4. HasLasts(f[k], attr, (k + 1) - 1)
            BY <2>2, <3>1
        <3>5. HasLasts(Add(k + 1, f[k]), attr, k + 1)
            BY <2>2, <3>1, <3>4, SetNext DEF Add, V
        <3>. QED
            BY <3>1, <3>2, <3>3, <3>5
    <2>. HIDE DEF T
    <2>3. 0..n \subseteq T
        BY <1>1, <2>1, <2>2, Reaches
    <2>. QED
        BY <2>3 DEF T
<1>. QED
    BY <1>1, <1>8, <1>9

\* Of the arguments for an attribute there is a latest one, the one that counts.
LEMMA LatestIsLast ==
    ASSUME NEW attr, ArgumentsTyped(attr), NEW elem, NEW l, NEW i,
           IsLastFor(attr, Len(attr), i, elem, l)
    PROVE  Latest(attr, elem, l) = i /\ l \in LocalsAsked(attr, elem)
<1>1. DOMAIN attr = 1..Len(attr) /\ Len(attr) \in Nat
    BY DEF ArgumentsTyped
<1>2. \A j : j \in Asked(attr, elem, l) <=> IsFor(attr, Len(attr), j, elem, l)
    BY <1>1 DEF Asked, IsFor
<1>3. i \in Asked(attr, elem, l) /\ \A j \in Asked(attr, elem, l) : j <= i
    <2>1. i \in 1..Len(attr) /\ i \in Asked(attr, elem, l)
        BY <1>2 DEF IsLastFor, IsFor
    <2>2. \A j \in Asked(attr, elem, l) : j \in 1..Len(attr) /\ j \notin (i + 1)..Len(attr)
        BY <1>2 DEF IsLastFor, IsFor
    <2>. QED
        BY <1>1, <2>1, <2>2
<1>4. \A j, k \in Asked(attr, elem, l) : j <= k /\ k <= j => j = k
    BY <1>2 DEF IsFor
<1>5. Latest(attr, elem, l) = i
    BY <1>3, <1>4 DEF Latest
<1>6. l \in LocalsAsked(attr, elem)
    BY <1>1, <1>2, <1>3 DEF LocalsAsked, IsFor
<1>. QED
    BY <1>5, <1>6

\* Each element of the document gets what is asked of it, and keeps the rest.
AttrsTyped(attrs) == DOMAIN attrs \subseteq STRING \X STRING /\ attrs \in [DOMAIN attrs -> STRING]

LEMMA PatchedIsAsked ==
    ASSUME NEW attr, ArgumentsTyped(attr), NEW elems, HasLasts(elems, attr, Len(attr)),
           NEW e, AttrsTyped(e.attrs)
    PROVE  Patched(e, elems) = WithAsked(attr, e.name, e.attrs)
<1>. DEFINE asked == {<<SpaceOf(e.name, l), l>> : l \in LocalsAsked(attr, e.name)}
<1>1. DOMAIN attr = 1..Len(attr)
    BY DEF ArgumentsTyped
<1>2. \A l : l \in LocalsAsked(attr, e.name) <=> \E k : IsFor(attr, Len(attr), k, e.name, l)
    BY <1>1 DEF LocalsAsked, IsFor
<1>3. e.attrs = [n \in DOMAIN e.attrs |-> e.attrs[n]]
    BY DEF AttrsTyped
<1>4. CASE e.name \notin DOMAIN elems
    <2>1. LocalsAsked(attr, e.name) = {}
        BY <1>2, <1>4 DEF HasLasts, IsFor
    <2>2. asked = {} /\ asked \cup DOMAIN e.attrs = DOMAIN e.attrs
        BY <2>1
    <2>3. WithAsked(attr, e.name, e.attrs) =
              [n \in asked \cup DOMAIN e.attrs |->
                  IF n \in asked THEN ValueAsked(attr, e.name, n[2]) ELSE e.attrs[n]]
        BY DEF WithAsked
    <2>. HIDE DEF asked
    <2>4. WithAsked(attr, e.name, e.attrs) = [n \in DOMAIN e.attrs |-> e.attrs[n]]
        BY <2>2, <2>3
    <2>. QED
        BY <1>3, <1>4, <2>4 DEF Patched
<1>5. CASE e.name \in DOMAIN elems
    <2>. DEFINE attrs == elems[e.name]
    <2>1. \A l : l \in DOMAIN attrs <=> l \in LocalsAsked(attr, e.name)
        BY <1>2, <1>5 DEF HasLasts
    <2>2. \A l \in DOMAIN attrs : attrs[l].space = SpaceOf(e.name, l)
        BY <1>5 DEF HasLasts
    <2>3. ASSUME NEW l \in DOMAIN attrs PROVE attrs[l].value = ValueAsked(attr, e.name, l)
        <3>1. PICK k : IsLastFor(attr, Len(attr), k, e.name, l) /\ attrs[l].value = attr[k][3]
            BY <1>5 DEF HasLasts
        <3>. QED
            BY <3>1, LatestIsLast DEF ValueAsked
    <2>. HIDE DEF attrs
    <2>4. Names(attrs) = asked
        BY <2>1, <2>2 DEF Names
    <2>5. \A n \in asked : n[2] \in DOMAIN attrs
        BY <2>1
    <2>6. Patched(e, elems) = [n \in asked \cup DOMAIN e.attrs |->
                                  IF n \in asked THEN attrs[n[2]].value ELSE e.attrs[n]]
        BY <1>5, <2>4 DEF Patched, attrs
    <2>. HIDE DEF asked
    <2>7. Patched(e, elems) =
              [n \in asked \cup DOMAIN e.attrs |->
                  IF n \in asked THEN ValueAsked(attr, e.name, n[2]) ELSE e.attrs[n]]
        BY <2>3, <2>5, <2>6
    <2>. QED
        BY <2>7 DEF WithAsked, asked
<1>. QED
    BY <1>4, <1>5

LEMMA MfSteps == [Next]_vars => [manifest!Next]_mfVars
BY DEF Next, vars, runCmd, RunFinalrjar, RunGeneratemanifest, RunDex, RunExtractaar,
       RunRepack, RunRjar, RunNativelib, RunShellapk, RunPatch, RunManifest, RunCompile,
       RunLink, RunFlagfile, RunBucketize, RunSession, ArchiveReturns

\* The utilities are those of the command.
LEMMA MfUtils ==
    /\ \A attr : manifest!Arguments(attr) <=> Arguments(attr)
    /\ \A attr : manifest!CreatePatchElements(attr) = CreatePatchElements(attr)
    /\ \A attr, elem, old : manifest!WithAsked(attr, elem, old) = WithAsked(attr, elem, old)
    /\ \A doc, elems : manifest!Patch(doc, elems) = Patch(doc, elems)
<1>1. \A attr : manifest!Arguments(attr) <=> Arguments(attr)
    BY DEF Arguments, manifest!Arguments
<1>2. \A elem, l : manifest!SpaceOf(elem, l) = SpaceOf(elem, l)
    BY DEF SpaceOf, manifest!SpaceOf, NameSpace, manifest!NameSpace, ElemManifest,
           manifest!ElemManifest, NoNSAttrs, manifest!NoNSAttrs
<1>3. \A attr : manifest!CreatePatchElements(attr) = CreatePatchElements(attr)
    <2>1. \A elems, a : manifest!SetArgument(elems, a) = SetArgument(elems, a)
        BY <1>2 DEF SetArgument, manifest!SetArgument, Set, manifest!Set, Put, manifest!Put
    <2>. QED
        BY <2>1 DEF CreatePatchElements, manifest!CreatePatchElements
<1>4. \A attr, elem, l : manifest!ValueAsked(attr, elem, l) = ValueAsked(attr, elem, l)
    BY DEF ValueAsked, manifest!ValueAsked, Latest, manifest!Latest, Asked, manifest!Asked
<1>5. \A attr, elem, old : manifest!WithAsked(attr, elem, old) = WithAsked(attr, elem, old)
    <2>1. \A attr, elem : manifest!LocalsAsked(attr, elem) = LocalsAsked(attr, elem)
        BY DEF LocalsAsked, manifest!LocalsAsked
    <2>. QED
        BY <1>2, <1>4, <2>1 DEF WithAsked, manifest!WithAsked
<1>6. \A doc, elems : manifest!Patch(doc, elems) = Patch(doc, elems)
    BY DEF Patch, manifest!Patch, Encoded, manifest!Encoded, NameSpace, manifest!NameSpace,
           Patched, manifest!Patched, Names, manifest!Names
<1>. QED
    BY <1>1, <1>3, <1>5, <1>6

DocTyped(doc) ==
    /\ Len(doc.elems) \in Nat /\ DOMAIN doc.elems = 1..Len(doc.elems)
    /\ \A i \in DOMAIN doc.elems : AttrsTyped(doc.elems[i].attrs)

MfInv ==
    /\ mfCall \in CompileManifestCalls \cup {manifest!NoCall}
    /\ mfPhase \in {"idle", "patch", "aapt2", "copy", "ok", "error"}
    /\ \/ mfPatched = << >> /\ mfPhase \in {"idle", "patch", "error"}
       \/ /\ mfPhase \notin {"idle", "patch"} /\ Arguments(mfCall.attr)
          /\ mfPatched = Patch(mfCall.doc, CreatePatchElements(mfCall.attr))
    /\ mfPhase \in {"copy", "ok"} => \A i \in DOMAIN mfPatched : mfPatched[i].start
    /\ mfOut \in {"none", "cut", "compiled"}
    /\ mfPhase \in {"idle", "patch", "aapt2", "copy"} => mfOut = "none"
    /\ mfPhase = "ok" => (mfOut = "compiled") = (mfCall.aapt = "writes")
    /\ mfPhase = "error" => mfOut # "compiled"

LEMMA MfCallFacts ==
    ASSUME mfCall \in CompileManifestCalls \cup {manifest!NoCall}
    PROVE  mfCall.attr \in Seq(Seq(STRING)) /\ DocTyped(mfCall.doc)
<1>1. CASE mfCall \in CompileManifestCalls
    BY <1>1, ManifestDocsAssumption DEF DocTyped, AttrsTyped
<1>2. CASE mfCall = manifest!NoCall
    <2>1. mfCall.attr = << >> /\ mfCall.doc.elems = << >>
        BY <1>2 DEF manifest!NoCall
    <2>. QED
        BY <2>1 DEF DocTyped
<1>. QED
    BY <1>1, <1>2

USE DEF manifest!vars

LEMMA MfInitial == Init => MfInv
BY DEF Init, manifest!Init, MfInv

LEMMA MfInductive ==
    MfInv /\ [manifest!Next]_mfVars => MfInv'
<1>. SUFFICES ASSUME MfInv, [manifest!Next]_mfVars PROVE MfInv'
    OBVIOUS
<1>. USE DEF MfInv
<1>1. CASE manifest!Run
    BY <1>1 DEF manifest!Run
<1>2. CASE manifest!patchManifest
    <2>1. Arguments(mfCall.attr)
        <3>1. CASE mfCall.attr = << >>
            BY <3>1 DEF Arguments
        <3>2. CASE mfCall.attr # << >>
            BY <1>2, <3>2, MfUtils DEF manifest!patchManifest
        <3>. QED
            BY <3>1, <3>2
    <2>2. mfPatched' = Patch(mfCall.doc, CreatePatchElements(mfCall.attr))
        BY <1>2, MfUtils DEF manifest!patchManifest
    <2>. QED
        BY <1>2, <2>1, <2>2 DEF manifest!patchManifest
<1>3. CASE manifest!patchManifestFails
    BY <1>3 DEF manifest!patchManifestFails
<1>4. CASE manifest!aapt2
    BY <1>4 DEF manifest!aapt2
<1>5. CASE manifest!Copy
    BY <1>5 DEF manifest!Copy
<1>6. CASE manifest!CopyFails
    BY <1>6 DEF manifest!CopyFails
<1>7. CASE UNCHANGED mfVars
    BY <1>7 DEF mfVars
<1>. QED
    BY <1>1, <1>2, <1>3, <1>4, <1>5, <1>6, <1>7 DEF manifest!Next, mfVars

\* What is written for each element of a document.
LEMMA PatchIsAsked ==
    ASSUME NEW attr, ArgumentsTyped(attr), NEW doc, DocTyped(doc),
           NEW elems, HasLasts(elems, attr, Len(attr)), NEW s, s = Patch(doc, elems)
    PROVE  /\ DOMAIN s = DOMAIN doc.elems
           /\ \A i \in DOMAIN doc.elems : LET e == doc.elems[i] IN
                 s[i] = Encoded(doc, e, WithAsked(attr, e.name, e.attrs))
<1>1. \A i \in DOMAIN doc.elems :
          Patched(doc.elems[i], elems) = WithAsked(attr, doc.elems[i].name, doc.elems[i].attrs)
    BY PatchedIsAsked DEF DocTyped
<1>. QED
    BY <1>1 DEF Patch

LEMMA MfImplies == MfInv => manifest!ManifestRight /\ manifest!TypeOK
<1>. SUFFICES ASSUME MfInv PROVE manifest!ManifestRight /\ manifest!TypeOK
    OBVIOUS
<1>. DEFINE doc == mfCall.doc
<1>1. mfCall.attr \in Seq(Seq(STRING)) /\ DocTyped(doc)
    BY MfCallFacts DEF MfInv
<1>2. ASSUME mfPatched = Patch(doc, CreatePatchElements(mfCall.attr)), Arguments(mfCall.attr)
      PROVE  /\ DOMAIN mfPatched = DOMAIN doc.elems
             /\ \A i \in DOMAIN doc.elems : LET e == doc.elems[i] IN
                  mfPatched[i].name = e.name
                  /\ mfPatched[i].attrs = WithAsked(mfCall.attr, e.name, e.attrs)
    <2>1. ArgumentsTyped(mfCall.attr)
        BY <1>1, <1>2 DEF ArgumentsTyped
    <2>2. \A e, attrs : Encoded(doc, e, attrs).name = e.name /\ Encoded(doc, e, attrs).attrs = attrs
        BY DEF Encoded
    <2>. QED
        BY <1>1, <1>2, <2>1, <2>2, CreatedLasts, PatchIsAsked
<1>3. manifest!ManifestRight
    BY <1>2, MfUtils DEF manifest!ManifestRight, MfInv
<1>4. Len(mfPatched) \in {0, Len(doc.elems)}
    <2>1. CASE mfPatched = << >>
        BY <2>1
    <2>2. CASE mfPatched # << >>
        <3>1. DOMAIN mfPatched = 1..Len(doc.elems) /\ Len(doc.elems) \in Nat
            BY <1>1, <1>2, <2>2 DEF MfInv, DocTyped
        <3>. QED
            BY <3>1
    <2>. QED
        BY <2>1, <2>2
<1>. QED
    BY <1>3, <1>4 DEF MfInv, manifest!TypeOK

\* aapt2 compiles the manifest that was asked for, and out is what it wrote: manifest.go.
THEOREM ManifestIsRight == FairSpec => []manifest!ManifestRight
BY MfInitial, MfSteps, MfInductive, MfImplies, PTL DEF FairSpec

\* Whatever compile, link and manifest are called with, aapt2 is given all of it, and in the
\* order asked for.
THEOREM AaptIsRight == FairSpec => []AaptRight
BY CompileIsRight, LinkIsRight, ManifestIsRight, PTL DEF AaptRight

-----------------------------------------------------------------------------
(* patch.go: outputs that share a map, and each is what was asked for *)

LEMMA PtSteps == [Next]_vars => [patch!Next]_ptVars
BY DEF Next, vars, runCmd, RunFinalrjar, RunGeneratemanifest, RunDex, RunExtractaar,
       RunRepack, RunRjar, RunNativelib, RunShellapk, RunPatch, RunManifest, RunCompile,
       RunLink, RunFlagfile, RunBucketize, RunSession, ArchiveReturns

\* The utilities are those of the command.
LEMMA PtNames ==
    /\ patch!ElemManifest = ElemManifest
    /\ \A elem, l : patch!SpaceOf(elem, l) = SpaceOf(elem, l)
    /\ \A f, x, v : patch!Put(f, x, v) = Put(f, x, v)
    /\ \A elems, e, l, space, v : patch!Set(elems, e, l, space, v) = Set(elems, e, l, space, v)
<1>1. \A elem, l : patch!SpaceOf(elem, l) = SpaceOf(elem, l)
    BY DEF SpaceOf, patch!SpaceOf, NameSpace, patch!NameSpace, ElemManifest,
           patch!ElemManifest, NoNSAttrs, patch!NoNSAttrs
<1>2. \A f, x, v : patch!Put(f, x, v) = Put(f, x, v)
    BY DEF Put, patch!Put
<1>3. \A elems, e, l, space, v : patch!Set(elems, e, l, space, v) = Set(elems, e, l, space, v)
    BY <1>2 DEF Set, patch!Set
<1>. QED
    BY <1>1, <1>2, <1>3 DEF ElemManifest, patch!ElemManifest

LEMMA PtUtils ==
    /\ \A attr : patch!Arguments(attr) <=> Arguments(attr)
    /\ \A attr : patch!CreatePatchElements(attr) = CreatePatchElements(attr)
    /\ \A attr, elem, old : patch!WithAsked(attr, elem, old) = WithAsked(attr, elem, old)
    /\ \A doc, elems : patch!Patch(doc, elems) = Patch(doc, elems)
<1>1. \A attr : patch!Arguments(attr) <=> Arguments(attr)
    BY DEF Arguments, patch!Arguments
<1>2. \A attr : patch!CreatePatchElements(attr) = CreatePatchElements(attr)
    <2>1. \A elems, a : patch!SetArgument(elems, a) = SetArgument(elems, a)
        BY PtNames DEF SetArgument, patch!SetArgument
    <2>. QED
        BY <2>1 DEF CreatePatchElements, patch!CreatePatchElements
<1>3. \A attr, elem, old : patch!WithAsked(attr, elem, old) = WithAsked(attr, elem, old)
    <2>1. \A attr, elem : patch!LocalsAsked(attr, elem) = LocalsAsked(attr, elem)
        BY DEF LocalsAsked, patch!LocalsAsked
    <2>2. \A attr, elem, l : patch!ValueAsked(attr, elem, l) = ValueAsked(attr, elem, l)
        BY DEF ValueAsked, patch!ValueAsked, Latest, patch!Latest, Asked, patch!Asked
    <2>. QED
        BY PtNames, <2>1, <2>2 DEF WithAsked, patch!WithAsked
<1>4. \A doc, elems : patch!Patch(doc, elems) = Patch(doc, elems)
    BY DEF Patch, patch!Patch, Encoded, patch!Encoded, NameSpace, patch!NameSpace,
           Patched, patch!Patched, Names, patch!Names
<1>. QED
    BY <1>1, <1>2, <1>3, <1>4

PtShared == {l \in patch!Shared : patch!Manifest(l) # ""}
PtSplitFile(i) == ptCall.split[i][2]
PtDone == Len(ptCall.split) - Len(ptTodo)

\* What was read of the options and of the manifest.
PtTyped(c) ==
    /\ c.attr \in Seq(Seq(STRING)) /\ DocTyped(c.doc)
    /\ \A i \in DOMAIN c.doc.elems : c.doc.elems[i].name = ElemManifest =>
          /\ i = 1
          /\ \A n \in DOMAIN c.doc.elems[i].attrs :
                n[2] \in patch!Shared => n[1] = SpaceOf(ElemManifest, n[2])
    /\ c.split \in Seq(Seq(STRING))
    /\ \A i \in DOMAIN c.split :
          Len(c.split[i]) = 2 => c.split[i][2] \notin {"pkg", "oldapp", "out"}

\* The elements to patch are those asked for, but for the manifest itself.
PtAsked(attr, elems) ==
    LET created == CreatePatchElements(attr) IN
    /\ Arguments(attr)
    /\ ElemManifest \in DOMAIN elems
    /\ \A e : e # ElemManifest => (e \in DOMAIN elems <=> e \in DOMAIN created)
    /\ \A e \in DOMAIN elems : e # ElemManifest => elems[e] = created[e]
\* That is to get what the splits share.
PtSharing(attrs) ==
    /\ DOMAIN attrs \ {"split"} = PtShared
    /\ \A l \in PtShared :
          attrs[l].space = SpaceOf(ElemManifest, l) /\ attrs[l].value = patch!Manifest(l)
PtManifest ==
    /\ ptPhase \in {"out", "splits", "ok"} => PtSharing(ptElems[ElemManifest])
    /\ ptPhase = "out" => "split" \notin DOMAIN ptElems[ElemManifest]

PtOut(s) ==
    /\ ~ptCall.doc.broken /\ DOMAIN s = DOMAIN ptCall.doc.elems
    /\ \A i \in DOMAIN s : LET e == ptCall.doc.elems[i] IN
          /\ s[i].name = e.name /\ (s[i].start \/ ~ptCall.doc.android)
          /\ s[i].attrs = IF e.name = ElemManifest THEN e.attrs
                          ELSE WithAsked(ptCall.attr, e.name, e.attrs)
PtSplit(s, name) ==
    /\ s[1].attrs = patch!SplitManifest(name)
    /\ s[2].name = "application" /\ s[2].start
    /\ s[2].attrs = WithAsked(ptCall.attr, "application", << >>)

\* The files written by now.
PtFiles ==
    /\ ptPhase \in {"oldapp", "out", "splits", "ok"} /\ ptCall.pkg =>
          "pkg" \in DOMAIN ptFiles /\ ptFiles["pkg"] = patch!Manifest("package")
    /\ ptPhase \in {"out", "splits", "ok"} /\ ptCall.oldApp =>
          "oldapp" \in DOMAIN ptFiles /\ ptFiles["oldapp"] = patch!AppName
    /\ ptPhase \in {"splits", "ok"} /\ ptCall.out =>
          "out" \in DOMAIN ptFiles /\ PtOut(ptFiles["out"])
PtSplits ==
    ptPhase \in {"splits", "ok"} => \A i \in 1..PtDone :
        /\ Len(ptCall.split[i]) = 2
        /\ (\A j \in (i + 1)..PtDone : PtSplitFile(j) # PtSplitFile(i)) =>
              /\ PtSplitFile(i) \in DOMAIN ptFiles
              /\ PtSplit(ptFiles[PtSplitFile(i)], ptCall.split[i][1])
PtTodo ==
    /\ Len(ptTodo) \in 0..Len(ptCall.split)
    /\ ptTodo = SubSeq(ptCall.split, PtDone + 1, Len(ptCall.split))
    /\ ptPhase \in {"pkg", "oldapp", "out"} => Len(ptTodo) = Len(ptCall.split)
    /\ ptPhase = "ok" => ptTodo = << >>

PtInv ==
    /\ ptCall \in PatchCalls \cup {patch!NoCall}
    /\ ptPhase \in {"idle", "pkg", "oldapp", "out", "splits", "ok", "error"}
    /\ ptPhase = "idle" => ptTodo = << >>
    /\ ptPhase \in {"pkg", "oldapp", "out", "splits", "ok"} => PtAsked(ptCall.attr, ptElems)
    /\ PtManifest /\ PtFiles /\ PtSplits /\ PtTodo
    /\ ptCut # {} => ptPhase = "error"

LEMMA PtCallFacts ==
    ASSUME NEW c \in PatchCalls \cup {patch!NoCall}
    PROVE  PtTyped(c)
<1>1. CASE c \in PatchCalls
    <2>1. c.attr \in Seq(Seq(STRING)) /\ DocTyped(c.doc)
        BY <1>1, ManifestDocsAssumption DEF DocTyped, AttrsTyped
    <2>2. /\ c.split \in Seq(Seq(STRING))
          /\ \A i \in DOMAIN c.split :
                Len(c.split[i]) = 2 => c.split[i][2] \notin {"pkg", "oldapp", "out"}
        BY <1>1, PatchCallsAssumption
    <2>3. \A i \in DOMAIN c.doc.elems : c.doc.elems[i].name = ElemManifest =>
              /\ i = 1
              /\ \A n \in DOMAIN c.doc.elems[i].attrs :
                    n[2] \in patch!Shared => n[1] = SpaceOf(ElemManifest, n[2])
        BY <1>1, PatchCallsAssumption, PtNames
    <2>. QED
        BY <2>1, <2>2, <2>3 DEF PtTyped
<1>2. CASE c = patch!NoCall
    <2>1. c.attr = << >> /\ c.doc.elems = << >> /\ c.split = << >>
        BY <1>2 DEF patch!NoCall, patch!NoDoc
    <2>. QED
        BY <2>1 DEF DocTyped, PtTyped
<1>. QED
    BY <1>1, <1>2

USE DEF patch!vars

LEMMA PtInitial == Init => PtInv
<1>. SUFFICES ASSUME Init PROVE PtInv
    OBVIOUS
<1>1. ptCall = patch!NoCall /\ ptPhase = "idle" /\ ptTodo = << >> /\ ptCut = {}
    BY DEF Init, patch!Init
<1>2. ptCall.split = << >> /\ PtDone = 0
    BY <1>1 DEF patch!NoCall, PtDone
<1>3. ptTodo = SubSeq(ptCall.split, PtDone + 1, Len(ptCall.split))
    BY <1>1, <1>2
<1>. QED
    BY <1>1, <1>2, <1>3 DEF PtInv, PtManifest, PtFiles, PtSplits, PtTodo

\* What depends on the call alone stays as it is.
LEMMA PtSame ==
    ASSUME ptCall' = ptCall
    PROVE  /\ \A l : patch!Manifest(l)' = patch!Manifest(l)
           /\ PtShared' = PtShared /\ patch!AppName' = patch!AppName
           /\ \A attrs : PtSharing(attrs)' <=> PtSharing(attrs)
           /\ \A s : PtOut(s)' <=> PtOut(s)
           /\ \A s, name : PtSplit(s, name)' <=> PtSplit(s, name)
           /\ \A i : PtSplitFile(i)' = PtSplitFile(i)
<1>1. \A l : patch!Manifest(l)' = patch!Manifest(l)
    BY DEF patch!Manifest, patch!IsManifest
<1>2. PtShared' = PtShared
    BY <1>1 DEF PtShared
<1>3. patch!AppName' = patch!AppName
    BY DEF patch!AppName, patch!Application, patch!IsManifest
<1>4. \A attrs : PtSharing(attrs)' <=> PtSharing(attrs)
    BY <1>1, <1>2 DEF PtSharing
<1>5. \A s : PtOut(s)' <=> PtOut(s)
    BY DEF PtOut
<1>6. \A name : patch!SplitManifest(name)' = patch!SplitManifest(name)
    BY <1>1 DEF patch!SplitManifest
<1>7. \A s, name : PtSplit(s, name)' <=> PtSplit(s, name)
    BY <1>6 DEF PtSplit
<1>8. \A i : PtSplitFile(i)' = PtSplitFile(i)
    BY DEF PtSplitFile
<1>. QED
    BY <1>1, <1>2, <1>3, <1>4, <1>5, <1>7, <1>8

\* Every element but the manifest gets what is asked of it.
LEMMA PtOthers ==
    ASSUME PtTyped(ptCall), NEW elems, PtAsked(ptCall.attr, elems),
           NEW e, e.name # ElemManifest, AttrsTyped(e.attrs)
    PROVE  Patched(e, elems) = WithAsked(ptCall.attr, e.name, e.attrs)
<1>. DEFINE created == CreatePatchElements(ptCall.attr)
<1>1. ArgumentsTyped(ptCall.attr)
    BY DEF PtTyped, PtAsked, ArgumentsTyped
<1>2. HasLasts(created, ptCall.attr, Len(ptCall.attr))
    BY <1>1, CreatedLasts
<1>3. Patched(e, created) = WithAsked(ptCall.attr, e.name, e.attrs)
    BY <1>1, <1>2, PatchedIsAsked
<1>4. /\ e.name \in DOMAIN elems <=> e.name \in DOMAIN created
      /\ e.name \in DOMAIN elems => elems[e.name] = created[e.name]
    BY DEF PtAsked
<1>. HIDE DEF created
<1>5. Patched(e, elems) = Patched(e, created)
    BY <1>4 DEF Patched
<1>. QED
    BY <1>3, <1>5

\* What the splits share of the manifest is what the manifest has.
LEMMA PtManifestStays ==
    ASSUME PtTyped(ptCall), NEW elems, ElemManifest \in DOMAIN elems,
           PtSharing(elems[ElemManifest]), "split" \notin DOMAIN elems[ElemManifest],
           NEW i \in DOMAIN ptCall.doc.elems, ptCall.doc.elems[i].name = ElemManifest
    PROVE  Patched(ptCall.doc.elems[i], elems) = ptCall.doc.elems[i].attrs
<1>. DEFINE e == ptCall.doc.elems[i]
            attrs == elems[ElemManifest]
<1>1. /\ AttrsTyped(e.attrs) /\ i = 1
      /\ \A n \in DOMAIN e.attrs : n[2] \in patch!Shared => n[1] = SpaceOf(ElemManifest, n[2])
    BY DEF PtTyped, DocTyped
<1>2. \A n \in DOMAIN e.attrs : n = <<n[1], n[2]>>
    BY <1>1 DEF AttrsTyped
<1>3. patch!IsManifest
    <2>1. DOMAIN ptCall.doc.elems # {}
        OBVIOUS
    <2>2. ptCall.doc.elems # << >>
        BY <2>1
    <2>. QED
        BY <1>1, <2>2, PtNames DEF patch!IsManifest
<1>4. ASSUME NEW l \in PtShared
      PROVE  <<SpaceOf(ElemManifest, l), l>> \in DOMAIN e.attrs
             /\ e.attrs[<<SpaceOf(ElemManifest, l), l>>] = patch!Manifest(l)
    <2>. DEFINE ns == {n \in DOMAIN e.attrs : n[2] = l}
    <2>1. patch!Manifest(l) = IF ns = {} THEN "" ELSE e.attrs[CHOOSE n \in ns : TRUE]
        BY <1>1, <1>3 DEF patch!Manifest, patch!Field
    <2>2. ns # {} /\ l \in patch!Shared
        BY <2>1 DEF PtShared
    <2>3. \A n \in ns : n = <<SpaceOf(ElemManifest, l), l>> /\ n \in DOMAIN e.attrs
        BY <1>1, <1>2, <2>2
    <2>4. (CHOOSE n \in ns : TRUE) \in ns
        BY <2>2
    <2>. HIDE DEF ns
    <2>. QED
        BY <2>1, <2>2, <2>3, <2>4
<1>5. DOMAIN attrs = PtShared
    BY DEF PtSharing
<1>6. \A l \in PtShared :
          attrs[l].space = SpaceOf(ElemManifest, l) /\ attrs[l].value = patch!Manifest(l)
    BY DEF PtSharing
<1>. HIDE DEF attrs, e
<1>7. \A n \in Names(attrs) : n \in DOMAIN e.attrs /\ attrs[n[2]].value = e.attrs[n]
    <2>1. \A n \in Names(attrs) : \E l \in PtShared : n = <<SpaceOf(ElemManifest, l), l>>
        BY <1>5, <1>6 DEF Names
    <2>. QED
        BY <1>4, <1>6, <2>1
<1>8. Patched(e, elems) = [n \in Names(attrs) \cup DOMAIN e.attrs |->
                              IF n \in Names(attrs) THEN attrs[n[2]].value ELSE e.attrs[n]]
    BY DEF Patched, attrs, e
<1>9. Patched(e, elems) = [n \in DOMAIN e.attrs |-> e.attrs[n]]
    BY <1>7, <1>8
<1>. QED
    BY <1>1, <1>9 DEF AttrsTyped, e

\* "out" is what was asked for.
LEMMA PtWritesOut ==
    ASSUME PtTyped(ptCall), ~ptCall.doc.broken, NEW elems, PtAsked(ptCall.attr, elems),
           PtSharing(elems[ElemManifest]), "split" \notin DOMAIN elems[ElemManifest]
    PROVE  PtOut(Patch(ptCall.doc, elems))
<1>. DEFINE doc == ptCall.doc
            s == Patch(doc, elems)
<1>1. ASSUME NEW i \in DOMAIN doc.elems
      PROVE  /\ s[i].name = doc.elems[i].name /\ (s[i].start \/ ~doc.android)
             /\ s[i].attrs = Patched(doc.elems[i], elems)
    BY DEF Patch, Encoded
<1>2. ASSUME NEW i \in DOMAIN doc.elems
      PROVE  LET e == doc.elems[i] IN
             Patched(e, elems) = IF e.name = ElemManifest THEN e.attrs
                                 ELSE WithAsked(ptCall.attr, e.name, e.attrs)
    <2>1. AttrsTyped(doc.elems[i].attrs) /\ ElemManifest \in DOMAIN elems
        BY DEF PtTyped, DocTyped, PtAsked
    <2>. QED
        BY <2>1, PtOthers, PtManifestStays
<1>3. DOMAIN s = DOMAIN doc.elems
    BY DEF Patch
<1>. HIDE DEF s
<1>4. PtOut(s)
    BY <1>1, <1>2, <1>3 DEF PtOut
<1>. QED
    BY <1>4 DEF s

LEMMA NoAttrs == DOMAIN << >> = {} /\ AttrsTyped(<< >>)
BY DEF AttrsTyped

LEMMA PairIs == \A x, y : DOMAIN <<x, y>> = {1, 2} /\ <<x, y>>[1] = x /\ <<x, y>>[2] = y
OBVIOUS

\* A split has what the manifest shares, its name, and the attributes of the application.
LEMMA PtWritesSplit ==
    ASSUME PtTyped(ptCall), NEW elems, PtAsked(ptCall.attr, elems), PtSharing(elems[ElemManifest]), NEW name,
           "split" \in DOMAIN elems[ElemManifest],
           elems[ElemManifest]["split"].space = "",
           elems[ElemManifest]["split"].value = name
    PROVE  PtSplit(Patch(patch!stubManifest, elems), name)
<1>. DEFINE stub == patch!stubManifest
            s == Patch(stub, elems)
            attrs == elems[ElemManifest]
            shared == {<<SpaceOf(ElemManifest, l), l>> : l \in PtShared}
<1>1. /\ DOMAIN stub.elems = {1, 2} /\ stub.android = TRUE
      /\ stub.elems[1].name = ElemManifest /\ stub.elems[1].attrs = << >>
      /\ stub.elems[2].name = "application" /\ stub.elems[2].attrs = << >>
    <2>. DEFINE m == [name |-> patch!ElemManifest, attrs |-> << >>]
                a == [name |-> "application", attrs |-> << >>]
    <2>1. stub.elems = <<m, a>> /\ stub.android = TRUE
        BY DEF patch!stubManifest
    <2>2. m.name = ElemManifest /\ m.attrs = << >> /\ a.name = "application" /\ a.attrs = << >>
        BY PtNames
    <2>. HIDE DEF m, a
    <2>3. DOMAIN <<m, a>> = {1, 2} /\ <<m, a>>[1] = m /\ <<m, a>>[2] = a
        BY PairIs
    <2>. HIDE DEF stub
    <2>. QED
        BY <2>1, <2>2, <2>3
<1>2. /\ s[1].attrs = Patched(stub.elems[1], elems)
      /\ s[2].name = "application" /\ s[2].attrs = Patched(stub.elems[2], elems) /\ s[2].start
    BY <1>1 DEF Patch, Encoded
<1>3. Patched(stub.elems[2], elems) = WithAsked(ptCall.attr, "application", << >>)
    <2>1. AttrsTyped(<< >>)
        BY NoAttrs
    <2>2. "application" # ElemManifest
        BY DEF ElemManifest
    <2>. QED
        BY <1>1, <2>1, <2>2, PtOthers
<1>4. Names(attrs) = shared \cup {<<"", "split">>}
    <2>1. DOMAIN attrs = PtShared \cup {"split"}
        BY DEF PtSharing
    <2>. QED
        BY <2>1 DEF Names, PtSharing
<1>5. ASSUME NEW n \in shared PROVE attrs[n[2]].value = patch!Manifest(n[2])
    <2>1. PICK l \in PtShared : n = <<SpaceOf(ElemManifest, l), l>>
        OBVIOUS
    <2>2. n[2] = l
        BY <2>1
    <2>3. attrs[l].value = patch!Manifest(l)
        BY DEF PtSharing
    <2>. QED
        BY <2>2, <2>3
<1>6. <<"", "split">> \notin shared
    <2>1. "split" \notin PtShared
        BY DEF PtShared, patch!Shared
    <2>. QED
        BY <2>1
<1>7. attrs["split"].value = name
    OBVIOUS
<1>. HIDE DEF attrs, shared
<1>8. Patched(stub.elems[1], elems) =
          [n \in shared \cup {<<"", "split">>} |->
              IF n \in shared THEN patch!Manifest(n[2]) ELSE name]
    <2>1. Patched(stub.elems[1], elems) =
              [n \in Names(attrs) \cup DOMAIN stub.elems[1].attrs |->
                  IF n \in Names(attrs) THEN attrs[n[2]].value ELSE stub.elems[1].attrs[n]]
        BY <1>1 DEF Patched, attrs, PtAsked
    <2>2. DOMAIN stub.elems[1].attrs = {}
        BY <1>1, NoAttrs
    <2>3. Names(attrs) \cup {} = shared \cup {<<"", "split">>}
        BY <1>4
    <2>. HIDE DEF stub
    <2>4. Patched(stub.elems[1], elems) = [n \in shared \cup {<<"", "split">>} |-> attrs[n[2]].value]
        BY <1>4, <2>1, <2>2
    <2>5. \A n \in shared \cup {<<"", "split">>} :
              attrs[n[2]].value = IF n \in shared THEN patch!Manifest(n[2]) ELSE name
        <3>1. <<"", "split">>[2] = "split"
            OBVIOUS
        <3>2. attrs[<<"", "split">>[2]].value = name
            BY <1>7, <3>1
        <3>. QED
            BY <1>5, <1>6, <3>2
    <2>. QED
        BY <2>4, <2>5
<1>9. patch!SplitManifest(name) =
          [n \in shared \cup {<<"", "split">>} |->
              IF n \in shared THEN patch!Manifest(n[2]) ELSE name]
    BY PtNames DEF patch!SplitManifest, shared, PtShared
<1>. HIDE DEF s
<1>10. PtSplit(s, name)
    BY <1>2, <1>3, <1>8, <1>9 DEF PtSplit
<1>. QED
    BY <1>10 DEF s

\* The utilities, as the steps use them.
LEMMA PtForgets ==
    ASSUME NEW attr, patch!Arguments(attr)
    PROVE  PtAsked(attr, patch!Forget(patch!CreatePatchElements(attr)))
<1>. DEFINE created == CreatePatchElements(attr)
            elems == Put(created, ElemManifest, << >>)
<1>1. patch!Forget(patch!CreatePatchElements(attr)) = elems
    BY PtNames, PtUtils DEF patch!Forget
<1>2. DOMAIN elems = DOMAIN created \cup {ElemManifest}
    BY PutDomain
<1>3. \A e \in DOMAIN created : e # ElemManifest => elems[e] = created[e]
    BY PutOld
<1>4. Arguments(attr)
    BY PtUtils
<1>. HIDE DEF created, elems
<1>5. PtAsked(attr, elems)
    BY <1>2, <1>3, <1>4 DEF PtAsked, created
<1>. QED
    BY <1>1, <1>5

\* What another value for the manifest leaves.
LEMMA PtPutManifest ==
    ASSUME NEW attr, NEW elems, PtAsked(attr, elems), NEW attrs
    PROVE  PtAsked(attr, Put(elems, ElemManifest, attrs))
<1>. DEFINE new == Put(elems, ElemManifest, attrs)
<1>1. DOMAIN new = DOMAIN elems \cup {ElemManifest}
    BY PutDomain
<1>2. \A e \in DOMAIN elems : e # ElemManifest => new[e] = elems[e]
    BY PutOld
<1>. HIDE DEF new
<1>3. PtAsked(attr, new)
    BY <1>1, <1>2 DEF PtAsked
<1>. QED
    BY <1>3 DEF new

LEMMA PtWhole == \A s \in Seq(Seq(STRING)) : s = SubSeq(s, 1, Len(s))
OBVIOUS

LEMMA PtNone == \A s \in Seq(Seq(STRING)) : << >> = SubSeq(s, Len(s) + 1, Len(s))
OBVIOUS

LEMMA PtRun ==
    ASSUME PtInv, patch!Run
    PROVE  PtInv'
<1>. USE DEF patch!Run, PtInv
<1>1. PtTyped(ptCall') /\ ptPhase' \in {"pkg", "error"} /\ ptCut' = {} /\ ptCall' \in PatchCalls
    BY PtCallFacts
<1>2. CASE ptTodo' = ptCall'.split /\ PtAsked(ptCall'.attr, ptElems')
    <2>1. Len(ptCall'.split) \in Nat /\ PtDone' = 0
        BY <1>1, <1>2 DEF PtTyped, PtDone
    <2>2. PtTodo'
        BY <1>1, <1>2, <2>1, PtWhole DEF PtTodo, PtTyped
    <2>. QED
        BY <1>1, <1>2, <2>2 DEF PtManifest, PtFiles, PtSplits
<1>3. CASE ptTodo' = << >> /\ ptPhase' = "error"
    <2>1. /\ ptCall'.split \in Seq(Seq(STRING)) /\ Len(ptCall'.split) \in Nat
          /\ PtDone' = Len(ptCall'.split) /\ Len(ptTodo') = 0
        BY <1>1, <1>3 DEF PtTyped, PtDone
    <2>2. << >> = SubSeq(ptCall'.split, PtDone' + 1, Len(ptCall'.split))
        BY <2>1, PtNone
    <2>3. PtTodo'
        <3>1. Len(ptTodo') \in 0..Len(ptCall'.split)
            BY <2>1
        <3>. QED
            BY <1>3, <2>2, <3>1 DEF PtTodo
    <2>. QED
        BY <1>1, <1>3, <2>3 DEF PtManifest, PtFiles, PtSplits
<1>. QED
    BY <1>1, <1>2, <1>3, PtForgets

\* One of the files that the command writes but once.
PtWrites(asked, file, content) == ptFiles' = IF asked THEN Put(ptFiles, file, content) ELSE ptFiles

LEMMA PtWritten ==
    ASSUME NEW asked, NEW file, NEW content, PtWrites(asked, file, content)
    PROVE  /\ asked => file \in DOMAIN ptFiles' /\ ptFiles'[file] = content
           /\ \A f \in DOMAIN ptFiles : f # file => f \in DOMAIN ptFiles' /\ ptFiles'[f] = ptFiles[f]
<1>1. CASE asked
    <2>. DEFINE new == Put(ptFiles, file, content)
    <2>1. DOMAIN new = DOMAIN ptFiles \cup {file}
        BY PutDomain
    <2>2. new[file] = content
        BY PutNew
    <2>3. \A f \in DOMAIN ptFiles : f # file => new[f] = ptFiles[f]
        BY PutOld
    <2>4. ptFiles' = new
        BY <1>1 DEF PtWrites
    <2>. HIDE DEF new
    <2>. QED
        BY <2>1, <2>2, <2>3, <2>4
<1>2. CASE ~asked
    BY <1>2 DEF PtWrites
<1>. QED
    BY <1>1, <1>2

LEMMA PtWritePkg ==
    ASSUME PtInv, patch!WritePkg
    PROVE  PtInv'
<1>. USE DEF patch!WritePkg, PtInv
<1>1. /\ ptCall' = ptCall /\ ptElems' = ptElems /\ ptTodo' = ptTodo /\ ptCut' = ptCut
      /\ ptPhase = "pkg" /\ ptPhase' = "oldapp"
      /\ PtWrites(ptCall.pkg, "pkg", patch!Manifest("package"))
    BY PtNames DEF patch!WriteFile, PtWrites
<1>2. PtFiles'
    BY <1>1, PtWritten, PtSame DEF PtFiles
<1>3. PtTodo' /\ PtManifest' /\ PtSplits'
    BY <1>1 DEF PtTodo, PtDone, PtManifest, PtSplits
<1>. QED
    BY <1>1, <1>2, <1>3

LEMMA PtWriteOldApp ==
    ASSUME PtInv, patch!WriteOldApp
    PROVE  PtInv'
<1>. USE DEF PtInv
<1>. DEFINE attrs == [l \in PtShared |-> [space |-> SpaceOf(ElemManifest, l), value |-> patch!Manifest(l)]]
<1>1. /\ ptCall' = ptCall /\ ptTodo' = ptTodo /\ ptCut' = ptCut
      /\ ptPhase = "oldapp" /\ ptPhase' = "out"
      /\ PtWrites(ptCall.oldApp, "oldapp", patch!AppName)
      /\ ptElems' = Put(ptElems, ElemManifest, attrs)
    BY PtNames DEF patch!WriteOldApp, patch!WriteFile, PtWrites, PtShared
<1>. HIDE DEF attrs
<1>2. PtFiles'
    <2>1. /\ ptCall.oldApp => "oldapp" \in DOMAIN ptFiles' /\ ptFiles'["oldapp"] = patch!AppName
          /\ \A f \in DOMAIN ptFiles : f # "oldapp" => f \in DOMAIN ptFiles' /\ ptFiles'[f] = ptFiles[f]
        BY <1>1, PtWritten
    <2>2. ptCall.pkg => "pkg" \in DOMAIN ptFiles' /\ ptFiles'["pkg"] = patch!Manifest("package")
        BY <1>1, <2>1 DEF PtFiles
    <2>3. patch!Manifest("package")' = patch!Manifest("package") /\ patch!AppName' = patch!AppName
        BY <1>1, PtSame
    <2>. QED
        BY <1>1, <2>1, <2>2, <2>3 DEF PtFiles
<1>3. PtTodo' /\ PtSplits'
    BY <1>1 DEF PtTodo, PtDone, PtSplits
<1>4. PtAsked(ptCall.attr, ptElems')
    BY <1>1, PtPutManifest
<1>5. ptElems'[ElemManifest] = attrs
    BY <1>1, PutNew
<1>6. PtSharing(attrs) /\ "split" \notin DOMAIN attrs
    <2>1. "split" \notin PtShared
        BY DEF PtShared, patch!Shared
    <2>. QED
        BY <2>1 DEF PtSharing, attrs
<1>7. PtManifest'
    BY <1>1, <1>5, <1>6, PtSame DEF PtManifest
<1>. QED
    BY <1>1, <1>2, <1>3, <1>4, <1>7

LEMMA PtWriteOut ==
    ASSUME PtInv, patch!WriteOut
    PROVE  PtInv'
<1>. USE DEF PtInv
<1>. DEFINE s == Patch(ptCall.doc, ptElems)
<1>1. /\ ptCall' = ptCall /\ ptElems' = ptElems /\ ptTodo' = ptTodo /\ ptCut' = ptCut
      /\ ptPhase = "out" /\ ptPhase' \in {"splits", "error"}
      /\ ptPhase' = "splits" /\ ptCall.out => ~ptCall.doc.broken
      /\ PtWrites(ptCall.out, "out", s)
    BY PtUtils, PtNames DEF patch!WriteOut, patch!WriteFile, PtWrites
<1>2. PtTyped(ptCall) /\ PtAsked(ptCall.attr, ptElems)
    BY <1>1, PtCallFacts
<1>3. ~ptCall.doc.broken => PtOut(s)
    BY <1>1, <1>2, PtWritesOut DEF PtManifest
<1>. HIDE DEF s
<1>4. PtFiles'
    BY <1>1, <1>3, PtWritten, PtSame DEF PtFiles
<1>5. PtTodo'
    BY <1>1 DEF PtTodo, PtDone
<1>6. PtSplits'
    <2>1. Len(ptCall.split) \in Nat /\ Len(ptTodo) = Len(ptCall.split)
        <3>1. ptCall.split \in Seq(Seq(STRING))
            BY <1>2 DEF PtTyped
        <3>2. Len(ptTodo) = Len(ptCall.split)
            BY <1>1 DEF PtTodo
        <3>. QED
            BY <3>1, <3>2
    <2>2. PtDone' = Len(ptCall.split) - Len(ptCall.split)
        BY <1>1, <2>1 DEF PtDone
    <2>3. PtDone' = 0
        BY <2>1, <2>2
    <2>. QED
        BY <2>3 DEF PtSplits
<1>7. PtManifest'
    BY <1>1, PtSame DEF PtManifest
<1>. QED
    BY <1>1, <1>2, <1>4, <1>5, <1>6, <1>7

LEMMA PtFails ==
    ASSUME PtInv, patch!Fails
    PROVE  PtInv'
<1>1. /\ ptCall' = ptCall /\ ptElems' = ptElems /\ ptTodo' = ptTodo /\ ptFiles' = ptFiles
      /\ ptPhase' = "error"
    BY DEF patch!Fails
<1>. QED
    BY <1>1 DEF PtInv, PtManifest, PtFiles, PtSplits, PtTodo, PtDone

LEMMA PtDoneOk ==
    ASSUME PtInv, patch!Done
    PROVE  PtInv'
<1>. USE DEF patch!Done, PtInv
<1>1. /\ ptCall' = ptCall /\ ptElems' = ptElems /\ ptTodo' = ptTodo /\ ptFiles' = ptFiles
      /\ ptCut' = ptCut /\ ptPhase = "splits" /\ ptPhase' = "ok" /\ ptTodo = << >>
    OBVIOUS
<1>2. PtFiles'
    BY <1>1, PtSame DEF PtFiles
<1>3. PtSplits'
    BY <1>1, PtSame DEF PtSplits, PtDone
<1>4. PtManifest' /\ PtTodo'
    BY <1>1, PtSame DEF PtManifest, PtTodo, PtDone
<1>. QED
    BY <1>1, <1>2, <1>3, <1>4

LEMMA PtRests == \A s \in Seq(Seq(STRING)), i, j \in Int : 1 <= i /\ j <= Len(s) => SubSeq(s, i, j) \in Seq(Seq(STRING))
OBVIOUS

LEMMA PtNotEmpty == \A s \in Seq(Seq(STRING)) : s # << >> => Len(s) \in Nat /\ Len(s) > 0
OBVIOUS

\* An attribute of the manifest for the split.
PtSplitAttr(name) == [space |-> "", value |-> name]

LEMMA PtSplitting ==
    ASSUME NEW elems, PtAsked(ptCall.attr, elems), PtSharing(elems[ElemManifest]), NEW name
    PROVE  LET new == Set(elems, ElemManifest, "split", "", name) IN
           /\ PtAsked(ptCall.attr, new) /\ PtSharing(new[ElemManifest])
           /\ "split" \in DOMAIN new[ElemManifest]
           /\ new[ElemManifest]["split"].space = "" /\ new[ElemManifest]["split"].value = name
<1>. DEFINE old == elems[ElemManifest]
            attrs == Put(old, "split", PtSplitAttr(name))
            new == Put(elems, ElemManifest, attrs)
<1>1. Set(elems, ElemManifest, "split", "", name) = new
    BY DEF Set, PtAsked, PtSplitAttr
<1>2. PtAsked(ptCall.attr, new)
    BY PtPutManifest
<1>3. new[ElemManifest] = attrs
    BY PutNew
<1>4. DOMAIN attrs = DOMAIN old \cup {"split"}
    BY PutDomain
<1>5. attrs["split"] = PtSplitAttr(name)
    BY PutNew
<1>6. \A l \in DOMAIN old : l # "split" => attrs[l] = old[l]
    BY PutOld
<1>. HIDE DEF attrs, old
<1>7. PtSharing(attrs)
    <2>1. DOMAIN old \ {"split"} = PtShared /\ \A l \in PtShared :
              old[l].space = SpaceOf(ElemManifest, l) /\ old[l].value = patch!Manifest(l)
        BY DEF PtSharing, old
    <2>2. DOMAIN attrs \ {"split"} = PtShared
        BY <1>4, <2>1
    <2>3. \A l \in PtShared : attrs[l] = old[l]
        BY <1>6, <2>1
    <2>. QED
        BY <2>1, <2>2, <2>3 DEF PtSharing
<1>8. PtSplitAttr(name).space = "" /\ PtSplitAttr(name).value = name
    BY DEF PtSplitAttr
<1>. HIDE DEF new
<1>. QED
    BY <1>1, <1>2, <1>3, <1>4, <1>5, <1>7, <1>8

LEMMA PtWriteSplit ==
    ASSUME PtInv, patch!WriteSplit
    PROVE  PtInv'
<1>. USE DEF PtInv
<1>. DEFINE name == ptTodo[1][1]
            file == ptTodo[1][2]
            s == Patch(patch!stubManifest, ptElems')
<1>1. /\ ptCall' = ptCall /\ ptPhase' = ptPhase /\ ptCut' = ptCut
      /\ ptPhase = "splits" /\ ptTodo # << >> /\ Len(ptTodo[1]) = 2
      /\ ptElems' = Set(ptElems, ElemManifest, "split", "", name)
      /\ PtWrites(TRUE, file, s) /\ ptTodo' = Tail(ptTodo)
    BY PtNames, PtUtils DEF PtWrites, patch!WriteSplit, patch!Splitting, patch!SetSplit
<1>2. PtTyped(ptCall) /\ PtAsked(ptCall.attr, ptElems) /\ PtSharing(ptElems[ElemManifest])
    BY <1>1, PtCallFacts DEF PtManifest
<1>. HIDE DEF name, file
<1>3. /\ PtAsked(ptCall.attr, ptElems') /\ PtSharing(ptElems'[ElemManifest])
      /\ "split" \in DOMAIN ptElems'[ElemManifest]
      /\ ptElems'[ElemManifest]["split"].space = "" /\ ptElems'[ElemManifest]["split"].value = name
    BY <1>1, <1>2, PtSplitting, Zenon
<1>4. PtSplit(s, name)
    BY <1>2, <1>3, PtWritesSplit DEF name
<1>. HIDE DEF s
<1>5. /\ PtDone \in Nat /\ PtDone + 1 \in DOMAIN ptCall.split /\ ptTodo[1] = ptCall.split[PtDone + 1]
      /\ PtDone' = PtDone + 1 /\ PtTodo'
    <2>1. ptCall.split \in Seq(Seq(STRING)) /\ Len(ptTodo) \in 0..Len(ptCall.split)
        BY <1>2 DEF PtTodo, PtTyped
    <2>2. Len(ptCall.split) \in Nat /\ Len(ptTodo) \in Nat /\ PtDone = Len(ptCall.split) - Len(ptTodo)
        BY <2>1 DEF PtDone
    <2>3. ptTodo = SubSeq(ptCall.split, PtDone + 1, Len(ptCall.split))
        BY DEF PtTodo
    <2>4. Len(ptTodo) > 0
        <3>1. ptTodo \in Seq(Seq(STRING))
            BY <2>1, <2>2, <2>3, PtRests
        <3>. QED
            BY <1>1, <3>1, PtNotEmpty
    <2>5. PtDone \in Nat /\ PtDone + 1 \in DOMAIN ptCall.split
        BY <2>1, <2>2, <2>4
    <2>6. /\ ptTodo[1] = ptCall.split[PtDone + 1]
          /\ ptTodo' = SubSeq(ptCall.split, PtDone + 2, Len(ptCall.split))
          /\ Len(ptTodo') = Len(ptCall.split) - (PtDone + 1)
        BY <1>1, <2>1, <2>3, <2>5, RestOf
    <2>7. PtDone' = Len(ptCall.split) - Len(ptTodo')
        BY <1>1 DEF PtDone
    <2>8. PtDone' = PtDone + 1 /\ Len(ptTodo') \in 0..Len(ptCall.split)
        <3>. DEFINE l == Len(ptTodo')
        <3>1. l = Len(ptCall.split) - (PtDone + 1) /\ PtDone' = Len(ptCall.split) - l
            BY <2>6, <2>7
        <3>. HIDE DEF l
        <3>2. PtDone' = PtDone + 1 /\ l \in 0..Len(ptCall.split)
            BY <2>1, <2>2, <2>5, <3>1
        <3>. QED
            BY <3>2 DEF l
    <2>9. PtDone' + 1 = PtDone + 2
        BY <2>5, <2>8
    <2>10. ptTodo' = SubSeq(ptCall'.split, PtDone' + 1, Len(ptCall'.split))
        BY <1>1, <2>6, <2>9
    <2>11. PtTodo'
        BY <1>1, <2>8, <2>10 DEF PtTodo
    <2>. QED
        BY <2>5, <2>6, <2>8, <2>11
<1>6. /\ file \in DOMAIN ptFiles' /\ ptFiles'[file] = s
      /\ \A f \in DOMAIN ptFiles : f # file => f \in DOMAIN ptFiles' /\ ptFiles'[f] = ptFiles[f]
    BY <1>1, PtWritten, Zenon
<1>7. file \notin {"pkg", "oldapp", "out"}
    BY <1>1, <1>2, <1>5 DEF PtTyped, file
<1>8. PtFiles'
    <2>1. /\ ptCall.pkg => "pkg" \in DOMAIN ptFiles' /\ ptFiles'["pkg"] = ptFiles["pkg"]
          /\ ptCall.oldApp => "oldapp" \in DOMAIN ptFiles' /\ ptFiles'["oldapp"] = ptFiles["oldapp"]
          /\ ptCall.out => "out" \in DOMAIN ptFiles' /\ ptFiles'["out"] = ptFiles["out"]
        BY <1>1, <1>6, <1>7 DEF PtFiles
    <2>. QED
        BY <1>1, <2>1, PtSame DEF PtFiles
<1>9. PtSplits'
    <2>. DEFINE n == PtDone + 1
    <2>1. PtSplitFile(n) = file /\ ptCall.split[n][1] = name /\ Len(ptCall.split[n]) = 2
        BY <1>1, <1>5 DEF PtSplitFile, file, name
    <2>2. ASSUME NEW i \in 1..n
          PROVE  /\ Len(ptCall.split[i]) = 2
                 /\ (\A j \in (i + 1)..n : PtSplitFile(j) # PtSplitFile(i)) =>
                       /\ PtSplitFile(i) \in DOMAIN ptFiles'
                       /\ PtSplit(ptFiles'[PtSplitFile(i)], ptCall.split[i][1])
        <3>1. CASE i = n
            BY <1>4, <1>6, <2>1, <3>1
        <3>2. CASE i # n
            <4>1. i \in 1..PtDone /\ n \in (i + 1)..n /\ \A j \in (i + 1)..PtDone : j \in (i + 1)..n
                BY <1>5, <3>2
            <4>2. /\ Len(ptCall.split[i]) = 2
                  /\ (\A j \in (i + 1)..PtDone : PtSplitFile(j) # PtSplitFile(i)) =>
                        /\ PtSplitFile(i) \in DOMAIN ptFiles
                        /\ PtSplit(ptFiles[PtSplitFile(i)], ptCall.split[i][1])
                BY <1>1, <4>1 DEF PtSplits
            <4>. HIDE DEF n
            <4>. QED
                BY <1>6, <2>1, <4>1, <4>2
        <3>. QED
            BY <3>1, <3>2
    <2>. QED
        BY <1>1, <1>5, <2>2, PtSame DEF PtSplits
<1>10. PtManifest'
    BY <1>1, <1>3, PtSame DEF PtManifest
<1>. QED
    BY <1>1, <1>3, <1>5, <1>8, <1>9, <1>10

LEMMA PtInductive ==
    ASSUME PtInv, [patch!Next]_ptVars
    PROVE  PtInv'
<1>1. CASE UNCHANGED ptVars
    <2>1. /\ ptCall' = ptCall /\ ptPhase' = ptPhase /\ ptElems' = ptElems /\ ptTodo' = ptTodo
          /\ ptFiles' = ptFiles /\ ptCut' = ptCut
        BY <1>1 DEF ptVars
    <2>2. PtDone' = PtDone
        BY <2>1 DEF PtDone
    <2>3. PtManifest' /\ PtFiles' /\ PtSplits' /\ PtTodo'
        BY <2>1, <2>2, PtSame DEF PtInv, PtManifest, PtFiles, PtSplits, PtTodo
    <2>4. PtAsked(ptCall.attr, ptElems)' <=> PtAsked(ptCall.attr, ptElems)
        BY <2>1
    <2>. QED
        BY <2>1, <2>3, <2>4 DEF PtInv
<1>2. CASE patch!Next
    BY <1>2, PtRun, PtWritePkg, PtWriteOldApp, PtWriteOut, PtWriteSplit, PtFails, PtDoneOk
       DEF patch!Next
<1>. QED
    BY <1>1, <1>2

LEMMA PtImplies == PtInv => PatchRight /\ patch!TypeOK
<1>. SUFFICES ASSUME PtInv PROVE PatchRight /\ patch!TypeOK
    OBVIOUS
<1>. USE DEF PtInv
<1>1. PtTyped(ptCall)
    BY PtCallFacts
<1>2. patch!TypeOK
    <2>1. ptTodo = SubSeq(ptCall.split, Len(ptCall.split) - Len(ptTodo) + 1, Len(ptCall.split))
        BY DEF PtTodo, PtDone
    <2>. QED
        BY <2>1, PtNames DEF patch!TypeOK, PtAsked
<1>3. ASSUME ptPhase = "ok", ptCall.out
      PROVE  /\ ~ptCall.doc.broken /\ Len(ptFiles["out"]) = Len(ptCall.doc.elems)
             /\ \A i \in DOMAIN ptFiles["out"] : LET e == ptCall.doc.elems[i] IN
                   patch!IsElement(ptFiles["out"][i], e.name,
                       IF e.name = patch!ElemManifest THEN e.attrs
                       ELSE patch!WithAsked(ptCall.attr, e.name, e.attrs))
    <2>1. PtOut(ptFiles["out"])
        BY <1>3 DEF PtFiles
    <2>3. DOMAIN ptFiles["out"] = 1..Len(ptCall.doc.elems) /\ Len(ptCall.doc.elems) \in Nat
        BY <1>1, <2>1 DEF PtOut, PtTyped, DocTyped
    <2>. QED
        BY <2>1, <2>3, PtNames, PtUtils DEF PtOut, patch!IsElement
<1>4. ASSUME ptPhase = "ok", NEW i \in DOMAIN ptCall.split,
             \A j \in DOMAIN ptCall.split : ptCall.split[j][2] = ptCall.split[i][2] => j <= i
      PROVE  LET s == ptFiles[ptCall.split[i][2]] IN
             /\ s[1].attrs = patch!SplitManifest(ptCall.split[i][1])
             /\ patch!IsElement(s[2], "application", patch!WithAsked(ptCall.attr, "application", << >>))
    <2>1. ptTodo = << >> /\ ptCall.split \in Seq(Seq(STRING))
        BY <1>1, <1>4 DEF PtTodo, PtTyped
    <2>2. PtDone = Len(ptCall.split) /\ PtDone \in Nat
        BY <2>1 DEF PtDone
    <2>3. i \in 1..PtDone /\ \A j \in (i + 1)..PtDone : PtSplitFile(j) # PtSplitFile(i)
        BY <1>4, <2>1, <2>2 DEF PtSplitFile
    <2>4. PtSplit(ptFiles[PtSplitFile(i)], ptCall.split[i][1])
        BY <1>4, <2>3 DEF PtSplits
    <2>. QED
        BY <2>4, PtUtils DEF PtSplit, PtSplitFile, patch!IsElement
<1>5. ptPhase = "ok" => /\ ptCall.pkg => ptFiles["pkg"] = patch!Manifest("package")
                        /\ ptCall.oldApp => ptFiles["oldapp"] = patch!AppName
    BY DEF PtFiles
<1>. QED
    BY <1>2, <1>3, <1>4, <1>5, Zenon DEF PatchRight, patch!PatchRight

\* The outputs of patch do not disturb each other although they share a map that each of
\* them changes: what was asked for an element is in it, but for the manifest element,
\* which stays as it is in the document and in a split has what splits share; and a file
\* is cut off only by a failure: Run of patch.go.
THEOREM PatchIsRight == FairSpec => []PatchRight
BY PtInitial, PtSteps, PtInductive, PtImplies, PTL DEF FairSpec

-----------------------------------------------------------------------------
(* shellapk.go: the files of the APK, each under the name it is found by *)

LEMMA ZipCardinality == \A S : shellapk!Z!Cardinality(S) = Cardinality(S)
BY DEF Cardinality, shellapk!Z!Cardinality

\* Each name of a directory has a place of its own, and each place a name.
LEMMA ZipDirIs ==
    ASSUME NEW dir, IsFiniteSet(DOMAIN dir),
           \A m, n \in DOMAIN dir :
              /\ ~NameBefore(n, n)
              /\ m # n => NameBefore(m, n) \/ NameBefore(n, m)
              /\ \A l \in DOMAIN dir :
                    NameBefore(l, m) /\ NameBefore(m, n) => NameBefore(l, n)
    PROVE  LET zip == shellapk!Z!ZipDir(dir)
           IN /\ {zip[i].name : i \in DOMAIN zip} = DOMAIN dir
              /\ zip \in Seq(Range(zip))
              /\ \A i \in DOMAIN zip : zip[i].body = dir[zip[i].name]
              /\ \A i, j \in DOMAIN zip : zip[i].name = zip[j].name => i = j
<1>. DEFINE D == DOMAIN dir
            K == Cardinality(D)
            P(n) == {m \in D : NameBefore(m, n)}
            place == [n \in D |-> Cardinality(P(n)) + 1]
            zip == shellapk!Z!ZipDir(dir)
            At(i) == CHOOSE n \in D : place[n] = i
<1>1. K \in Nat
    BY FS_CardinalityType
<1>2. ASSUME NEW n \in D PROVE place[n] \in 1..K /\ IsFiniteSet(P(n))
    <2>1. IsFiniteSet(P(n)) /\ IsFiniteSet(D \ {n})
        BY FS_Subset
    <2>2. P(n) \subseteq D \ {n}
        OBVIOUS
    <2>3. Cardinality(P(n)) <= Cardinality(D \ {n}) /\ Cardinality(P(n)) \in Nat
        BY <2>1, <2>2, FS_Subset, FS_CardinalityType
    <2>4. Cardinality(D \ {n}) = K - 1
        BY FS_RemoveElement
    <2>. QED
        BY <1>1, <2>1, <2>3, <2>4
<1>3. ASSUME NEW m \in D, NEW n \in D, NameBefore(m, n) PROVE place[m] < place[n]
    <2>1. P(m) \subseteq P(n) /\ m \in P(n) /\ m \notin P(m)
        BY <1>3
    <2>2. Cardinality(P(m)) <= Cardinality(P(n)) /\ Cardinality(P(m)) # Cardinality(P(n))
        BY <1>2, <2>1, FS_Subset
    <2>. QED
        BY <1>2, <2>2, FS_CardinalityType
<1>4. ASSUME NEW m \in D, NEW n \in D, place[m] = place[n] PROVE m = n
    <2>1. place[m] \in Int /\ ~(place[m] < place[n]) /\ ~(place[n] < place[m])
        BY <1>2, <1>4
    <2>. QED
        BY <1>3, <2>1
<1>5. \A i \in 1..K : \E n \in D : place[n] = i
    <2>. HIDE DEF place
    <2>1. place \in [D -> 1..K]
        BY <1>2 DEF place
    <2>2. place \in Injection(D, 1..K)
        BY <1>4, <2>1 DEF Injection, IsInjective
    <2>3. IsFiniteSet(1..K) /\ Cardinality(1..K) = K
        BY <1>1, FS_Interval
    <2>4. place \in Surjection(D, 1..K)
        BY <2>2, <2>3, FS_Injection, FS_Surjection
    <2>. QED
        BY <2>4 DEF Surjection
<1>. HIDE DEF place
<1>6. \A i \in 1..K : At(i) \in D /\ place[At(i)] = i
    BY <1>5
<1>7. \A n \in D : At(place[n]) = n /\ place[n] \in 1..K
    BY <1>2, <1>4, <1>6
<1>8. zip = [i \in 1..K |-> [name |-> At(i), body |-> dir[At(i)]]]
    <2>1. \A n \in D : shellapk!Z!Place(dir, n) = place[n]
        BY ZipCardinality DEF shellapk!Z!Place, place
    <2>2. \A i : (CHOOSE n \in D : shellapk!Z!Place(dir, n) = i) = At(i)
        BY <2>1
    <2>3. shellapk!Z!Cardinality(D) = K
        BY ZipCardinality
    <2>4. zip = [i \in 1..shellapk!Z!Cardinality(D) |->
                    [name |-> CHOOSE n \in D : shellapk!Z!Place(dir, n) = i,
                     body |-> dir[CHOOSE n \in D : shellapk!Z!Place(dir, n) = i]]]
        BY DEF shellapk!Z!ZipDir
    <2>. HIDE DEF zip, K, At
    <2>. QED
        BY <2>2, <2>3, <2>4
<1>. HIDE DEF zip, At, K
<1>9. \A i \in 1..K : zip[i].name = At(i)
    BY <1>8
<1>10. DOMAIN zip = 1..K
    BY <1>8
<1>11. {zip[i].name : i \in DOMAIN zip} = D
    <2>1. \A i \in DOMAIN zip : zip[i].name \in D
        BY <1>6, <1>9, <1>10
    <2>2. \A n \in D : \E i \in DOMAIN zip : zip[i].name = n
        BY <1>7, <1>9, <1>10
    <2>. HIDE DEF D
    <2>. QED
        BY <2>1, <2>2
<1>12. \A i \in DOMAIN zip : zip[i].body = dir[zip[i].name]
    BY <1>8, <1>9, <1>10
<1>13. \A i, j \in DOMAIN zip : zip[i].name = zip[j].name => i = j
    BY <1>6, <1>9, <1>10
<1>14. zip \in Seq(Range(zip))
    <2>1. zip = [i \in 1..K |-> zip[i]]
        BY <1>8, <1>10
    <2>. QED
        BY <1>1, <1>10, <2>1, NlRange
<1>. QED
    BY <1>11, <1>12, <1>13, <1>14 DEF zip

LEMMA SaSteps == [Next]_vars => [shellapk!Next]_saVars
BY DEF Next, vars, runCmd, RunFinalrjar, RunGeneratemanifest, RunDex, RunExtractaar,
       RunRepack, RunRjar, RunNativelib, RunShellapk, RunPatch, RunManifest, RunCompile,
       RunLink, RunFlagfile, RunBucketize, RunSession, ArchiveReturns

SaEntry == [name : STRING, body : STRING, match : BOOLEAN]
SaTyped(c) ==
    /\ c.dexes \in Seq(SaEntry) /\ c.resZip \in Seq(SaEntry) /\ c.libs \in Seq(SaEntry)
    /\ c.javaRes \in Seq(Seq(SaEntry))
    /\ c.linked \in BOOLEAN /\ c.arsc \in BOOLEAN /\ c.ioFails \in BOOLEAN
SaNamed(c) ==
    /\ \A i \in DOMAIN c.resZip : /\ c.resZip[i].name = shellapk!Manifest => c.resZip[i].match
                                  /\ c.resZip[i].name # shellapk!Dex
    /\ \A i \in DOMAIN c.libs :
          c.libs[i].match => c.libs[i].name # shellapk!Manifest /\ c.libs[i].name # shellapk!Dex
\* The names of D have an order.
SaOrdered(D) ==
    \A m, n \in D : /\ ~NameBefore(n, n)
                    /\ m # n => NameBefore(m, n) \/ NameBefore(n, m)
                    /\ \A l \in D : NameBefore(l, m) /\ NameBefore(m, n) => NameBefore(l, n)
SaNames(c) == {shellapk!Manifest, shellapk!Dex} \cup shellapk!NamesIn(c.javaRes)

LEMMA SaCallFacts ==
    ASSUME NEW c \in ApkCalls
    PROVE  SaTyped(c) /\ SaNamed(c) /\ SaOrdered(SaNames(c))
<1>1. SaTyped(c)
    BY ApkCallsAssumption DEF SaTyped, SaEntry
<1>2. SaNamed(c)
    BY ApkCallsAssumption DEF SaNamed
<1>3. SaOrdered(SaNames(c))
    BY ApkCallsAssumption DEF SaOrdered, SaNames
<1>. QED
    BY <1>1, <1>2, <1>3

LEMMA SaNoCall == SaTyped(shellapk!NoCall)
<1>. DEFINE c == shellapk!NoCall
<1>1. /\ c.dexes = << >> /\ c.resZip = << >> /\ c.libs = << >> /\ c.javaRes = << >>
    BY DEF shellapk!NoCall
<1>2. c.linked \in BOOLEAN /\ c.arsc \in BOOLEAN /\ c.ioFails \in BOOLEAN
    BY DEF shellapk!NoCall
<1>3. << >> \in Seq(SaEntry) /\ << >> \in Seq(Seq(SaEntry))
    OBVIOUS
<1>. HIDE DEF c
<1>4. SaTyped(c)
    BY <1>1, <1>2, <1>3 DEF SaTyped
<1>. QED
    BY <1>4 DEF c

\* Matching keeps the entries that match, and no other.
SaKeeps(zip, m, kept) ==
    /\ kept \in Seq(SaEntry)
    /\ \A i \in DOMAIN kept : \E j \in DOMAIN zip : kept[i] = zip[j] /\ zip[j].match = m
    /\ \A j \in DOMAIN zip : zip[j].match = m => \E i \in DOMAIN kept : kept[i] = zip[j]
LEMMA SaMatching ==
    ASSUME NEW zip \in Seq(SaEntry), NEW m \in BOOLEAN
    PROVE  SaKeeps(zip, m, shellapk!Matching(zip, m))
<1>. DEFINE n == Len(zip)
            V == Seq(SaEntry)
            Add(k, v) == IF zip[k].match = m THEN Append(v, zip[k]) ELSE v
            step == [kv \in (1..n) \X V |-> Add(kv[1], kv[2])]
            Def(h) == [k \in 0..n |-> IF k = 0 THEN << >> ELSE Add(k, h[k - 1])]
            f == CHOOSE e : e = Def(e)
<1>1. n \in Nat /\ (\A k \in 1..n : zip[k] \in SaEntry) /\ << >> \in V /\ DOMAIN zip = 1..n
    OBVIOUS
<1>2. ASSUME NEW k \in 1..n, NEW v \in V PROVE Add(k, v) \in V
    <2>1. Append(v, zip[k]) \in V
        BY <1>1
    <2>. HIDE DEF V
    <2>. QED
        BY <2>1
<1>3. \A k \in 1..n, v \in V : step[<<k, v>>] = Add(k, v) /\ step[<<k, v>>] \in V
    BY <1>2
<1>. HIDE DEF step, V, Add
<1>4. PICK h : Recursive(h, n, V, << >>, step)
    <2>1. Steps(n, V, step)
        BY <1>3 DEF Steps
    <2>. QED
        BY <1>1, <2>1, PrimitiveRecursion
<1>5. h = Def(h)
    <2>1. \A k \in 0..n : k # 0 => k \in 1..n
        BY <1>1
    <2>2. ASSUME NEW k \in 1..n PROVE h[k] = Add(k, h[k - 1])
        <3>1. k - 1 \in 0..n
            BY <1>1
        <3>2. h[k - 1] \in V /\ h[k] = step[<<k, h[k - 1]>>]
            BY <1>4, <3>1 DEF Recursive
        <3>. QED
            BY <1>3, <3>2
    <2>. QED
        BY <1>4, <2>1, <2>2 DEF Recursive
<1>6. f = Def(f)
    BY <1>5
<1>7. shellapk!Matching(zip, m) = f[n]
    BY DEF shellapk!Matching, Add
<1>. HIDE DEF f
<1>8. f[0] = << >> /\ \A k \in 1..n : f[k] = Add(k, f[k - 1])
    <2>1. 0 \in 0..n /\ \A k \in 1..n : k \in 0..n /\ k # 0
        BY <1>1
    <2>. QED
        BY <1>6, <2>1
<1>. DEFINE Kept(s, k) ==
                /\ s \in V
                /\ \A i \in DOMAIN s : \E j \in 1..k : s[i] = zip[j] /\ zip[j].match = m
                /\ \A j \in 1..k : zip[j].match = m => \E i \in DOMAIN s : s[i] = zip[j]
<1>9. \A k \in 0..n : Kept(f[k], k)
    <2>. DEFINE T == {k \in 0..n : Kept(f[k], k)}
    <2>1. 0 \in T
        <3>1. f[0] = << >> /\ 0 \in 0..n /\ 1..0 = {} /\ DOMAIN << >> = {}
            BY <1>1, <1>8
        <3>. QED
            BY <1>1, <3>1
    <2>2. ASSUME NEW k \in 0..n, k # n, k \in T PROVE k + 1 \in T
        <3>1. k + 1 \in 0..n /\ k + 1 \in 1..n /\ (k + 1) - 1 = k /\ 1..(k + 1) = (1..k) \cup {k + 1}
            BY <1>1, <2>2
        <3>2. f[k + 1] = Add(k + 1, f[k]) /\ Kept(f[k], k)
            BY <1>8, <2>2, <3>1
        <3>3. CASE zip[k + 1].match = m
            <4>. DEFINE s == f[k]
                        t == f[k + 1]
                        e == zip[k + 1]
            <4>1. t = Append(s, e) /\ s \in V /\ e \in SaEntry
                BY <1>1, <3>1, <3>2, <3>3 DEF Add
            <4>2. /\ t \in V /\ Len(s) \in Nat /\ DOMAIN t = 1..(Len(s) + 1) /\ DOMAIN s = 1..Len(s)
                  /\ t[Len(s) + 1] = e /\ \A i \in 1..Len(s) : t[i] = s[i]
                BY <4>1 DEF V
            <4>3. \A i \in DOMAIN t : i \in DOMAIN s \/ i = Len(s) + 1
                BY <4>2
            <4>4. Len(s) + 1 \in DOMAIN t /\ \A i \in DOMAIN s : i \in DOMAIN t
                BY <4>2
            <4>. HIDE DEF s, t
            <4>5. /\ \A i \in DOMAIN s : \E j \in 1..k : s[i] = zip[j] /\ zip[j].match = m
                  /\ \A j \in 1..k : zip[j].match = m => \E i \in DOMAIN s : s[i] = zip[j]
                BY <3>2 DEF s
            <4>6. \A i \in DOMAIN t : \E j \in 1..(k + 1) : t[i] = zip[j] /\ zip[j].match = m
                <5>. SUFFICES ASSUME NEW i \in DOMAIN t
                              PROVE  \E j \in 1..(k + 1) : t[i] = zip[j] /\ zip[j].match = m
                    OBVIOUS
                <5>1. CASE i \in DOMAIN s
                    <6>1. PICK j \in 1..k : s[i] = zip[j] /\ zip[j].match = m
                        BY <4>5, <5>1
                    <6>. QED
                        BY <3>1, <4>2, <5>1, <6>1
                <5>2. CASE i = Len(s) + 1
                    BY <3>1, <3>3, <4>2, <5>2
                <5>. QED
                    BY <4>3, <5>1, <5>2
            <4>7. \A j \in 1..(k + 1) : zip[j].match = m => \E i \in DOMAIN t : t[i] = zip[j]
                BY <3>1, <4>2, <4>4, <4>5
            <4>8. Kept(t, k + 1)
                BY <4>2, <4>6, <4>7
            <4>. QED
                BY <3>1, <4>8 DEF t
        <3>4. CASE zip[k + 1].match # m
            <4>1. f[k + 1] = f[k]
                BY <3>2, <3>4 DEF Add
            <4>2. Kept(f[k + 1], k + 1)
                BY <3>1, <3>2, <3>4, <4>1
            <4>. QED
                BY <3>1, <4>2
        <3>. QED
            BY <3>3, <3>4
    <2>. HIDE DEF T, Kept
    <2>3. 0..n \subseteq T
        BY <1>1, <2>1, <2>2, Reaches
    <2>. QED
        BY <2>3 DEF T
<1>10. n \in 0..n
    BY <1>1
<1>11. Kept(shellapk!Matching(zip, m), n)
    BY <1>7, <1>9, <1>10
<1>. QED
    BY <1>1, <1>11 DEF V, SaKeeps

SaEntriesOf(zip, lossy, s) ==
    /\ s \in Seq(Range(s)) /\ DOMAIN s = DOMAIN zip
    /\ \A i \in DOMAIN zip : s[i].name = zip[i].name /\ s[i].body = zip[i].body /\ (s[i].lossy <=> lossy)
LEMMA SaEntries ==
    ASSUME NEW S, NEW zip \in Seq(S), NEW lossy \in BOOLEAN
    PROVE  SaEntriesOf(zip, lossy, shellapk!Entries(zip, lossy))
<1>. DEFINE s == shellapk!Entries(zip, lossy)
            R == Range(s)
<1>1. s = [i \in 1..Len(zip) |-> [name |-> zip[i].name, body |-> zip[i].body, lossy |-> lossy]]
      /\ Len(zip) \in Nat /\ DOMAIN zip = 1..Len(zip)
    BY DEF shellapk!Entries
<1>. HIDE DEF s
<1>2. DOMAIN s = 1..Len(zip) /\ \A i \in 1..Len(zip) : /\ s[i].name = zip[i].name
                                                     /\ s[i].body = zip[i].body
                                                     /\ s[i].lossy <=> lossy
    BY <1>1
<1>3. s \in Seq(R)
    <2>1. s = [i \in 1..Len(zip) |-> s[i]]
        BY <1>1
    <2>. QED
        BY <1>1, <1>2, <2>1, NlRange
<1>. QED
    BY <1>1, <1>2, <1>3 DEF s, SaEntriesOf

LEMMA SaOwn ==
    ASSUME SaTyped(saCall)
    PROVE  LET s == shellapk!OwnFiles
           IN /\ s \in Seq(Range(s))
              /\ 1 \in DOMAIN s /\ s[1].name = shellapk!JarManifest /\ s[1].body = shellapk!JarManifest
              /\ \A i \in DOMAIN s :
                    /\ ~s[i].lossy /\ s[i].name # shellapk!Manifest /\ s[i].name # shellapk!Dex
                    /\ i > 1 => s[i].name # shellapk!JarManifest
<1>. DEFINE s == shellapk!OwnFiles
            a == shellapk!Own(shellapk!JarManifest)
            b == shellapk!Own("package_name.txt")
            c == shellapk!Own("app_name.txt")
            d == shellapk!Own("nativedeps")
            e == shellapk!Own("resources.arsc")
<1>1. s = ListOf(a, b, c, d, e, saCall.linked, saCall.arsc)
    BY DEF shellapk!OwnFiles, ListOf
<1>2. /\ a.name = shellapk!JarManifest /\ a.body = shellapk!JarManifest
      /\ \A f \in {a, b, c, d, e} : ~f.lossy /\ f.name # shellapk!Manifest /\ f.name # shellapk!Dex
      /\ \A f \in {b, c, d, e} : f.name # shellapk!JarManifest
    BY DEF shellapk!Own, shellapk!JarManifest, shellapk!Manifest, shellapk!Dex
<1>. HIDE DEF s, a, b, c, d, e
<1>3. /\ s \in Seq({a, b, c, d, e}) /\ 1 \in DOMAIN s /\ s[1] = a
      /\ \A i \in DOMAIN s : i > 1 => s[i] \in {b, c, d, e}
    <2>1. saCall.linked \in BOOLEAN /\ saCall.arsc \in BOOLEAN
        BY DEF SaTyped
    <2>2. StartsWith(ListOf(a, b, c, d, e, saCall.linked, saCall.arsc), a, {b, c, d, e})
        BY ONLY <2>1, ListOfFive
    <2>3. {a, b, c, d, e} = {a} \cup {b, c, d, e}
        OBVIOUS
    <2>. QED
        BY <1>1, <2>2, <2>3 DEF StartsWith
<1>4. s \in Seq(Range(s))
    BY <1>3, NlOwnRange
<1>5. \A i \in DOMAIN s : s[i] \in {a, b, c, d, e}
    BY <1>3
<1>. QED
    BY <1>2, <1>3, <1>4, <1>5 DEF s

\* The one dex file is there, unless it is cut or a Java resource replaces it.
SaDexBody ==
    ~saLost /\ shellapk!Dex \notin shellapk!JavaNames =>
        \A i \in shellapk!DexFiles : saDir[shellapk!Dex] = saCall.dexes[i].body
SaDir ==
    /\ DOMAIN saDir = SaNames(saCall) /\ IsFiniteSet(DOMAIN saDir)
    /\ saDir[shellapk!Manifest] = shellapk!Manifest
    /\ SaDexBody

\* w has one entry of the name, with the body.
SaOnce(w, name, body) ==
    \E m \in DOMAIN w : /\ w[m].name = name /\ w[m].body = body /\ ~w[m].lossy
                        /\ \A i \in DOMAIN w : w[i].name = name => i = m
\* What is to be written to the APK, of which the lossy entries may be lost.
SaRight(w) ==
    /\ w \in Seq(Range(w))
    /\ SaOnce(w, shellapk!Manifest, saDir[shellapk!Manifest])
    /\ SaOnce(w, shellapk!Dex, saDir[shellapk!Dex])
    /\ \E q \in DOMAIN w : /\ w[q].name = shellapk!JarManifest /\ w[q].body = shellapk!JarManifest
                           /\ ~w[q].lossy
                           /\ \A i \in DOMAIN w : i > q => w[i].name # shellapk!JarManifest
    /\ \A n \in shellapk!JavaNames \ {shellapk!JarManifest} :
          \E i \in DOMAIN w : w[i].name = n /\ ~w[i].lossy
    /\ \A j \in DOMAIN saCall.resZip : ~saCall.resZip[j].match =>
          \E i \in DOMAIN w : /\ w[i].name = saCall.resZip[j].name /\ w[i].body = saCall.resZip[j].body
                              /\ ~w[i].lossy
    /\ \A j \in DOMAIN saCall.libs : saCall.libs[j].match =>
          \E i \in DOMAIN w : w[i].name = saCall.libs[j].name /\ w[i].body = saCall.libs[j].body

LEMMA SaLaid ==
    ASSUME SaDir, SaOrdered(SaNames(saCall))
    PROVE  LET s == shellapk!Entries(shellapk!Laid, FALSE)
               D == SaNames(saCall) \ {shellapk!JarManifest}
           IN /\ s \in Seq(Range(s))
              /\ \A i \in DOMAIN s : s[i].name \in D /\ s[i].body = saDir[s[i].name] /\ ~s[i].lossy
              /\ \A n \in D : \E i \in DOMAIN s : s[i].name = n
              /\ \A i, j \in DOMAIN s : s[i].name = s[j].name => i = j
<1>. DEFINE D == SaNames(saCall) \ {shellapk!JarManifest}
            d == shellapk!Restrict(saDir, DOMAIN saDir \ {shellapk!JarManifest})
            zip == shellapk!Laid
            s == shellapk!Entries(zip, FALSE)
<1>1. DOMAIN d = D /\ \A n \in D : d[n] = saDir[n]
    BY DEF shellapk!Restrict, SaDir
<1>2. zip = shellapk!Z!ZipDir(d)
    BY DEF shellapk!Laid
<1>. HIDE DEF d, zip
<1>3. IsFiniteSet(DOMAIN d)
    BY <1>1, FS_Subset DEF SaDir
<1>4. \A m, n \in DOMAIN d :
          /\ ~NameBefore(n, n)
          /\ m # n => NameBefore(m, n) \/ NameBefore(n, m)
          /\ \A l \in DOMAIN d : NameBefore(l, m) /\ NameBefore(m, n) => NameBefore(l, n)
    BY <1>1 DEF SaOrdered
<1>5. /\ {zip[i].name : i \in DOMAIN zip} = D
      /\ zip \in Seq(Range(zip))
      /\ \A i \in DOMAIN zip : zip[i].body = d[zip[i].name]
      /\ \A i, j \in DOMAIN zip : zip[i].name = zip[j].name => i = j
    <2>. DEFINE laid == shellapk!Z!ZipDir(d)
    <2>1. /\ {laid[i].name : i \in DOMAIN laid} = DOMAIN d
          /\ laid \in Seq(Range(laid))
          /\ \A i \in DOMAIN laid : laid[i].body = d[laid[i].name]
          /\ \A i, j \in DOMAIN laid : laid[i].name = laid[j].name => i = j
        BY <1>3, <1>4, ZipDirIs
    <2>. HIDE DEF laid
    <2>. HIDE DEF D
    <2>2. laid = zip
        BY <1>2 DEF laid
    <2>. QED
        BY <1>1, <2>1, <2>2
<1>6. /\ s \in Seq(Range(s)) /\ DOMAIN s = DOMAIN zip
      /\ \A i \in DOMAIN zip : s[i].name = zip[i].name /\ s[i].body = zip[i].body /\ ~s[i].lossy
    <2>1. /\ s \in Seq(Range(s)) /\ DOMAIN s = DOMAIN zip
          /\ \A i \in DOMAIN zip : /\ s[i].name = zip[i].name /\ s[i].body = zip[i].body
                                   /\ s[i].lossy <=> FALSE
        <3>1. SaEntriesOf(zip, FALSE, s)
            BY <1>5, SaEntries, Zenon
        <3>. QED
            BY <3>1, Zenon DEF SaEntriesOf
    <2>. QED
        BY <2>1, Zenon
<1>. HIDE DEF s
<1>7. \A i \in DOMAIN s : s[i].name \in D /\ s[i].body = saDir[s[i].name] /\ ~s[i].lossy
    BY <1>1, <1>5, <1>6
<1>8. \A n \in D : \E i \in DOMAIN s : s[i].name = n
    BY <1>5, <1>6
<1>9. \A i, j \in DOMAIN s : s[i].name = s[j].name => i = j
    BY <1>5, <1>6
<1>. QED
    BY <1>6, <1>7, <1>8, <1>9 DEF s, D, zip

LEMMA SaKept ==
    ASSUME NEW zip \in Seq(SaEntry), NEW m \in BOOLEAN, NEW lossy \in BOOLEAN
    PROVE  LET s == shellapk!Entries(shellapk!Matching(zip, m), lossy)
           IN /\ s \in Seq(Range(s))
              /\ \A i \in DOMAIN s : (s[i].lossy <=> lossy) /\
                    \E j \in DOMAIN zip : (zip[j].match <=> m) /\ s[i].name = zip[j].name
              /\ \A j \in DOMAIN zip : (zip[j].match <=> m) =>
                    \E i \in DOMAIN s : s[i].name = zip[j].name /\ s[i].body = zip[j].body
<1>. DEFINE kept == shellapk!Matching(zip, m)
            s == shellapk!Entries(kept, lossy)
<1>1. /\ kept \in Seq(SaEntry)
      /\ \A i \in DOMAIN kept : \E j \in DOMAIN zip : kept[i] = zip[j] /\ zip[j].match = m
      /\ \A j \in DOMAIN zip : zip[j].match = m => \E i \in DOMAIN kept : kept[i] = zip[j]
    <2>1. SaKeeps(zip, m, kept)
        BY SaMatching, Zenon
    <2>. QED
        BY <2>1, Zenon DEF SaKeeps
<1>. HIDE DEF kept
<1>2. /\ s \in Seq(Range(s)) /\ DOMAIN s = DOMAIN kept
      /\ \A i \in DOMAIN kept : /\ s[i].name = kept[i].name /\ s[i].body = kept[i].body
                                /\ s[i].lossy <=> lossy
    <2>1. SaEntriesOf(kept, lossy, s)
        BY <1>1, SaEntries, Zenon
    <2>. QED
        BY <2>1, Zenon DEF SaEntriesOf
<1>3. \A j \in DOMAIN zip : zip[j].match \in BOOLEAN
    <2>1. \A j \in DOMAIN zip : zip[j] \in SaEntry
        OBVIOUS
    <2>. QED
        BY <2>1 DEF SaEntry
<1>. HIDE DEF s
<1>4. \A j \in DOMAIN zip : (zip[j].match <=> m) => zip[j].match = m
    BY <1>3, Zenon
<1>5. \A j \in DOMAIN zip : zip[j].match = m => (zip[j].match <=> m)
    BY Zenon
<1>6. \A i \in DOMAIN s : s[i].lossy <=> lossy
    BY <1>2, Zenon
<1>7. \A i \in DOMAIN s : \E j \in DOMAIN zip : (zip[j].match <=> m) /\ s[i].name = zip[j].name
    <2>. SUFFICES ASSUME NEW i \in DOMAIN s
                  PROVE  \E j \in DOMAIN zip : (zip[j].match <=> m) /\ s[i].name = zip[j].name
        OBVIOUS
    <2>1. PICK j \in DOMAIN zip : kept[i] = zip[j] /\ zip[j].match = m
        BY <1>1, <1>2, Zenon
    <2>2. s[i].name = zip[j].name
        BY <1>2, <2>1, Zenon
    <2>. QED
        BY <1>5, <2>1, <2>2, Zenon
<1>8. \A j \in DOMAIN zip : (zip[j].match <=> m) =>
          \E i \in DOMAIN s : s[i].name = zip[j].name /\ s[i].body = zip[j].body
    <2>. SUFFICES ASSUME NEW j \in DOMAIN zip, zip[j].match <=> m
                  PROVE  \E i \in DOMAIN s : s[i].name = zip[j].name /\ s[i].body = zip[j].body
        OBVIOUS
    <2>1. PICK i \in DOMAIN kept : kept[i] = zip[j]
        BY <1>1, <1>4, Zenon
    <2>. QED
        BY <1>2, <2>1, Zenon
<1>. QED
    BY <1>2, <1>6, <1>7, <1>8 DEF s, kept

LEMMA SaToWrite ==
    ASSUME SaDir, SaTyped(saCall), SaNamed(saCall), SaOrdered(SaNames(saCall))
    PROVE  SaRight(shellapk!ToWrite)
<1>. DEFINE a == shellapk!Entries(shellapk!Laid, FALSE)
            b == shellapk!Entries(shellapk!Matching(saCall.resZip, FALSE), FALSE)
            c == shellapk!Entries(shellapk!Matching(saCall.libs, TRUE), TRUE)
            d == shellapk!OwnFiles
            w == shellapk!ToWrite
            D == SaNames(saCall) \ {shellapk!JarManifest}
<1>1. w = a \o b \o c \o d
    BY DEF shellapk!ToWrite
<1>2. /\ a \in Seq(Range(a))
      /\ \A i \in DOMAIN a : a[i].name \in D /\ a[i].body = saDir[a[i].name] /\ ~a[i].lossy
      /\ \A n \in D : \E i \in DOMAIN a : a[i].name = n
      /\ \A i, j \in DOMAIN a : a[i].name = a[j].name => i = j
    BY SaLaid, Zenon
<1>3. /\ b \in Seq(Range(b))
      /\ \A i \in DOMAIN b : ~b[i].lossy /\ b[i].name # shellapk!Manifest /\ b[i].name # shellapk!Dex
      /\ \A j \in DOMAIN saCall.resZip : ~saCall.resZip[j].match =>
            \E i \in DOMAIN b : b[i].name = saCall.resZip[j].name /\ b[i].body = saCall.resZip[j].body
    <2>1. saCall.resZip \in Seq(SaEntry)
        BY DEF SaTyped
    <2>2. /\ b \in Seq(Range(b))
          /\ \A i \in DOMAIN b : (b[i].lossy <=> FALSE) /\
                \E j \in DOMAIN saCall.resZip : (saCall.resZip[j].match <=> FALSE) /\ b[i].name = saCall.resZip[j].name
          /\ \A j \in DOMAIN saCall.resZip : (saCall.resZip[j].match <=> FALSE) =>
                \E i \in DOMAIN b : b[i].name = saCall.resZip[j].name /\ b[i].body = saCall.resZip[j].body
        BY <2>1, SaKept, Zenon
    <2>3. \A j \in DOMAIN saCall.resZip : ~saCall.resZip[j].match =>
              saCall.resZip[j].name # shellapk!Manifest /\ saCall.resZip[j].name # shellapk!Dex
        BY Zenon DEF SaNamed
    <2>. HIDE DEF b
    <2>4. ASSUME NEW i \in DOMAIN b
          PROVE  ~b[i].lossy /\ b[i].name # shellapk!Manifest /\ b[i].name # shellapk!Dex
        BY <2>2, <2>3, Zenon
    <2>. QED
        BY <2>2, <2>4, Zenon
<1>4. /\ c \in Seq(Range(c))
      /\ \A i \in DOMAIN c : c[i].name # shellapk!Manifest /\ c[i].name # shellapk!Dex
      /\ \A j \in DOMAIN saCall.libs : saCall.libs[j].match =>
            \E i \in DOMAIN c : c[i].name = saCall.libs[j].name /\ c[i].body = saCall.libs[j].body
    <2>1. saCall.libs \in Seq(SaEntry)
        BY DEF SaTyped
    <2>2. /\ c \in Seq(Range(c))
          /\ \A i \in DOMAIN c : (c[i].lossy <=> TRUE) /\
                \E j \in DOMAIN saCall.libs : (saCall.libs[j].match <=> TRUE) /\ c[i].name = saCall.libs[j].name
          /\ \A j \in DOMAIN saCall.libs : (saCall.libs[j].match <=> TRUE) =>
                \E i \in DOMAIN c : c[i].name = saCall.libs[j].name /\ c[i].body = saCall.libs[j].body
        BY <2>1, SaKept, Zenon
    <2>3. \A j \in DOMAIN saCall.libs : saCall.libs[j].match =>
              saCall.libs[j].name # shellapk!Manifest /\ saCall.libs[j].name # shellapk!Dex
        BY Zenon DEF SaNamed
    <2>. HIDE DEF c
    <2>4. ASSUME NEW i \in DOMAIN c
          PROVE  c[i].name # shellapk!Manifest /\ c[i].name # shellapk!Dex
        BY <2>2, <2>3, Zenon
    <2>. QED
        BY <2>2, <2>4, Zenon
<1>5. /\ d \in Seq(Range(d))
      /\ 1 \in DOMAIN d /\ d[1].name = shellapk!JarManifest /\ d[1].body = shellapk!JarManifest
      /\ \A i \in DOMAIN d :
            /\ ~d[i].lossy /\ d[i].name # shellapk!Manifest /\ d[i].name # shellapk!Dex
            /\ i > 1 => d[i].name # shellapk!JarManifest
    BY SaOwn
<1>6. shellapk!Manifest \in D /\ shellapk!Dex \in D /\ shellapk!JavaNames \ {shellapk!JarManifest} \subseteq D
    BY DEF SaNames, shellapk!JavaNames, shellapk!Manifest, shellapk!Dex, shellapk!JarManifest
<1>. HIDE DEF a, b, c, d, w, D
<1>. DEFINE S == Range(a) \cup Range(b) \cup Range(c) \cup Range(d)
            k == Len(a)
            m == k + Len(b)
            n == m + Len(c)
<1>7. a \in Seq(S) /\ b \in Seq(S) /\ c \in Seq(S) /\ d \in Seq(S)
    BY <1>2, <1>3, <1>4, <1>5
<1>8. k \in Nat /\ Len(b) \in Nat /\ Len(c) \in Nat /\ Len(d) \in Nat
      /\ DOMAIN a = 1..k /\ DOMAIN b = 1..Len(b) /\ DOMAIN c = 1..Len(c) /\ DOMAIN d = 1..Len(d)
    BY <1>2, <1>3, <1>4, <1>5
<1>. HIDE DEF S
<1>9. /\ w \in Seq(S) /\ Len(w) = n + Len(d)
      /\ \A i \in DOMAIN w :
            \/ i \in DOMAIN a /\ w[i] = a[i]
            \/ i - k \in DOMAIN b /\ w[i] = b[i - k]
            \/ i - m \in DOMAIN c /\ w[i] = c[i - m]
            \/ i - n \in DOMAIN d /\ w[i] = d[i - n]
      /\ \A i \in DOMAIN a : i \in DOMAIN w /\ w[i] = a[i]
      /\ \A i \in DOMAIN b : k + i \in DOMAIN w /\ w[k + i] = b[i]
      /\ \A i \in DOMAIN c : m + i \in DOMAIN w /\ w[m + i] = c[i]
      /\ \A i \in DOMAIN d : n + i \in DOMAIN w /\ w[n + i] = d[i]
    <2>1. IsConcatOfFour(S, a, b, c, d, a \o b \o c \o d)
        BY <1>7, ConcatOfFour
    <2>2. IsConcatOfFour(S, a, b, c, d, w)
        BY <1>1, <2>1
    <2>. QED
        BY <2>2 DEF IsConcatOfFour
<1>. HIDE DEF k
<1>10. w \in Seq(Range(w)) /\ DOMAIN w = 1..(n + Len(d))
    BY <1>8, <1>9, NlOwnRange
<1>11. ASSUME NEW name \in {shellapk!Manifest, shellapk!Dex}
       PROVE  SaOnce(w, name, saDir[name])
    <2>1. PICK i \in DOMAIN a : a[i].name = name
        BY <1>2, <1>6
    <2>2. i \in DOMAIN w /\ w[i].name = name /\ w[i].body = saDir[name] /\ ~w[i].lossy
        BY <1>2, <1>9, <2>1
    <2>3. ASSUME NEW j \in DOMAIN w, w[j].name = name PROVE j = i
        <3>1. /\ \A h \in DOMAIN b : b[h].name # name
              /\ \A h \in DOMAIN c : c[h].name # name
              /\ \A h \in DOMAIN d : d[h].name # name
            BY <1>3, <1>4, <1>5
        <3>2. j \in DOMAIN a /\ w[j] = a[j]
            BY <1>9, <2>3, <3>1
        <3>. QED
            BY <1>2, <2>1, <2>3, <3>2
    <2>. QED
        BY <2>2, <2>3 DEF SaOnce
<1>12. \E q \in DOMAIN w : /\ w[q].name = shellapk!JarManifest /\ w[q].body = shellapk!JarManifest
                           /\ ~w[q].lossy
                           /\ \A i \in DOMAIN w : i > q => w[i].name # shellapk!JarManifest
    <2>1. n + 1 \in DOMAIN w /\ w[n + 1] = d[1]
        BY <1>5, <1>9
    <2>2. m \in Nat /\ n \in Nat
        BY <1>8
    <2>. HIDE DEF n
    <2>3. ASSUME NEW i \in DOMAIN w, i > n + 1 PROVE w[i].name # shellapk!JarManifest
        <3>1. i \in 1..(n + Len(d)) /\ i - n > 1 /\ i - n \in DOMAIN d /\ n + (i - n) = i
            BY <1>8, <1>10, <2>2, <2>3
        <3>2. w[n + (i - n)] = d[i - n]
            BY <1>9, <3>1
        <3>. QED
            BY <1>5, <3>1, <3>2
    <2>. QED
        BY <1>5, <2>1, <2>3
<1>13. \A x \in shellapk!JavaNames \ {shellapk!JarManifest} :
           \E i \in DOMAIN w : w[i].name = x /\ ~w[i].lossy
    BY <1>2, <1>6, <1>9
<1>14. ASSUME NEW j \in DOMAIN saCall.resZip, ~saCall.resZip[j].match
       PROVE  \E i \in DOMAIN w : /\ w[i].name = saCall.resZip[j].name /\ w[i].body = saCall.resZip[j].body
                                  /\ ~w[i].lossy
    <2>1. PICK i \in DOMAIN b : b[i].name = saCall.resZip[j].name /\ b[i].body = saCall.resZip[j].body
        BY <1>3, <1>14
    <2>2. k + i \in DOMAIN w /\ w[k + i] = b[i] /\ ~b[i].lossy
        BY <1>3, <1>9, <2>1
    <2>3. ~w[k + i].lossy /\ w[k + i].name = b[i].name /\ w[k + i].body = b[i].body
        BY <2>2
    <2>. QED
        BY <2>1, <2>2, <2>3
<1>15. ASSUME NEW j \in DOMAIN saCall.libs, saCall.libs[j].match
       PROVE  \E i \in DOMAIN w : w[i].name = saCall.libs[j].name /\ w[i].body = saCall.libs[j].body
    <2>1. PICK i \in DOMAIN c : c[i].name = saCall.libs[j].name /\ c[i].body = saCall.libs[j].body
        BY <1>4, <1>15
    <2>. QED
        BY <1>9, <2>1
<1>16. SaRight(w)
    BY <1>10, <1>11, <1>12, <1>13, <1>14, <1>15 DEF SaRight
<1>. QED
    BY <1>16 DEF w

\* What the first k archives of Java resources are called.
SaNamesOf(zip) == {zip[i].name : i \in DOMAIN zip}
SaUnzipped(zips, k) == UNION {SaNamesOf(zips[j]) : j \in 1..k}
SaJava(k) ==
    /\ k \in Nat /\ saJava \in Seq(Seq(SaEntry)) /\ k + Len(saJava) = Len(saCall.javaRes)
    /\ \A i \in 1..Len(saJava) : saJava[i] = saCall.javaRes[k + i]
    /\ DOMAIN saDir = {shellapk!Dex} \cup SaUnzipped(saCall.javaRes, k) /\ IsFiniteSet(DOMAIN saDir)
    /\ ~saLost /\ shellapk!Dex \notin SaUnzipped(saCall.javaRes, k) =>
          \A i \in shellapk!DexFiles : saDir[shellapk!Dex] = saCall.dexes[i].body

\* The entry i of the APK is the entry g[i] of what is to be written.
SaWriting(g) ==
    LET w == shellapk!ToWrite
        k == Len(w) - Len(saTodo)
    IN /\ saTodo \in Seq(Range(saTodo)) /\ Len(saTodo) \in 0..Len(w)
       /\ \A i \in 1..Len(saTodo) : saTodo[i] = w[k + i]
       /\ saOut \in Seq(Range(saOut))
       /\ g \in [1..Len(saOut) -> 1..k]
       /\ \A i, j \in 1..Len(saOut) : i < j => g[i] < g[j]
       /\ \A i \in 1..Len(saOut) :
             /\ saOut[i].name = w[g[i]].name
             /\ saOut[i].body = w[g[i]].body \/ (saLost /\ w[g[i]].lossy)
       /\ \A j \in 1..k : ~w[j].lossy \/ ~saLost => \E i \in 1..Len(saOut) : g[i] = j

SaInv ==
    /\ saPhase \in {"idle", "dex", "java", "manifest", "write", "close", "ok", "error"}
    /\ saPhase = "idle" => saCall = shellapk!NoCall
    /\ saPhase # "idle" => saCall \in ApkCalls
    /\ Len(saJava) <= Len(saCall.javaRes)
    /\ saLost => saCall.ioFails
    /\ saPhase \in {"idle", "dex"} => saDir = << >> /\ saJava = << >>
    /\ saPhase = "java" => \E k : SaJava(k)
    /\ saPhase \in {"manifest", "write", "close", "ok"} => SaDir
    /\ saPhase \in {"idle", "dex", "java", "manifest"} => saOut = << >> /\ ~saCreated
    /\ saPhase \in {"write", "close", "ok"} => \E g : SaWriting(g)
    /\ saPhase \in {"close", "ok"} => saTodo = << >>
    /\ saPhase = "error" => ~saCreated \/ saCall.ioFails

LEMMA SaCallTyped == SaInv => SaTyped(saCall)
BY SaCallFacts, SaNoCall DEF SaInv

LEMMA SaStays ==
    ASSUME saCall' = saCall, saDir' = saDir
    PROVE  /\ shellapk!ToWrite' = shellapk!ToWrite
           /\ shellapk!JavaNames' = shellapk!JavaNames /\ SaNames(saCall)' = SaNames(saCall)
           /\ shellapk!DexFiles' = shellapk!DexFiles
<1>1. shellapk!Laid' = shellapk!Laid
    BY DEF shellapk!Laid
<1>2. shellapk!OwnFiles' = shellapk!OwnFiles
    BY DEF shellapk!OwnFiles
<1>3. shellapk!ToWrite' = shellapk!ToWrite
    BY <1>1, <1>2 DEF shellapk!ToWrite
<1>4. shellapk!DexFiles' = shellapk!DexFiles
    BY DEF shellapk!DexFiles
<1>5. shellapk!JavaNames' = shellapk!JavaNames
    BY DEF shellapk!JavaNames
<1>6. SaNames(saCall)' = SaNames(saCall)
    BY DEF SaNames
<1>. QED
    BY <1>3, <1>4, <1>5, <1>6

USE DEF shellapk!vars

LEMMA SaInitial == Init => SaInv
<1>. SUFFICES ASSUME Init PROVE SaInv
    OBVIOUS
<1>1. /\ saCall = shellapk!NoCall /\ saPhase = "idle" /\ saDir = << >> /\ saJava = << >>
      /\ saOut = << >> /\ saCreated = FALSE /\ saLost = FALSE
    BY DEF Init, shellapk!Init
<1>2. Len(saJava) = 0 /\ Len(saCall.javaRes) = 0
    BY <1>1 DEF shellapk!NoCall
<1>. QED
    BY <1>1, <1>2 DEF SaInv

LEMMA SaRun ==
    ASSUME SaInv, shellapk!Run
    PROVE  SaInv'
<1>1. /\ saPhase = "idle" /\ saPhase' = "dex" /\ saCall' \in ApkCalls /\ saDir' = saDir
      /\ saJava' = saJava /\ saOut' = saOut /\ saCreated' = saCreated /\ saLost' = saLost
    BY DEF shellapk!Run
<1>2. saDir' = << >> /\ saJava' = << >> /\ saOut' = << >> /\ ~saCreated' /\ Len(saJava') = 0
    BY <1>1 DEF SaInv
<1>3. saCall = shellapk!NoCall
    BY <1>1 DEF SaInv
<1>4. ~saLost
    <2>1. saCall.ioFails = FALSE
        BY <1>3 DEF shellapk!NoCall
    <2>. QED
        BY <2>1 DEF SaInv
<1>5. Len(saCall'.javaRes) \in Nat
    BY <1>1, SaCallFacts DEF SaTyped
<1>. QED
    BY <1>1, <1>2, <1>4, <1>5 DEF SaInv

LEMMA SaPutDomain == \A dir, n, body : DOMAIN shellapk!Z!Put(dir, n, body) = DOMAIN dir \cup {n}
BY DEF shellapk!Z!Put

LEMMA SaPutNew == \A dir, n, body : shellapk!Z!Put(dir, n, body)[n] = body
BY DEF shellapk!Z!Put

LEMMA SaPutOld ==
    \A dir, n, body : \A m \in DOMAIN dir : m # n => shellapk!Z!Put(dir, n, body)[m] = dir[m]
BY DEF shellapk!Z!Put

LEMMA SaExtractDexes ==
    ASSUME SaInv, shellapk!extractDexes
    PROVE  SaInv'
<1>1. PICK i \in shellapk!DexFiles, cut \in {FALSE, saCall.ioFails} :
          /\ shellapk!DexFiles = {i}
          /\ saDir' = shellapk!Z!Put(saDir, shellapk!Dex, IF cut THEN "cut" ELSE saCall.dexes[i].body)
          /\ saLost' = cut
    BY DEF shellapk!extractDexes
<1>2. /\ saPhase = "dex" /\ saPhase' = "java" /\ saJava' = saCall.javaRes
      /\ saCall' = saCall /\ saOut' = saOut /\ saCreated' = saCreated
    BY DEF shellapk!extractDexes
<1>3. saCall \in ApkCalls /\ saDir = << >> /\ saOut = << >> /\ ~saCreated
    BY <1>2 DEF SaInv
<1>4. SaTyped(saCall)
    BY <1>3, SaCallFacts
<1>5. shellapk!DexFiles' = shellapk!DexFiles
    BY <1>2 DEF shellapk!DexFiles
<1>6. cut \in BOOLEAN /\ (cut => saCall.ioFails)
    BY <1>1, <1>4 DEF SaTyped
<1>7. SaJava(0)'
    <2>. DEFINE n == Len(saCall.javaRes)
    <2>1. n \in Nat /\ 0 + n = n /\ \A j \in 1..n : saCall.javaRes[j] = saCall.javaRes[0 + j]
        BY <1>4 DEF SaTyped
    <2>2. SaUnzipped(saCall.javaRes, 0) = {}
        <3>1. 1..0 = {}
            OBVIOUS
        <3>. QED
            BY <3>1 DEF SaUnzipped
    <2>3. DOMAIN saDir' = {shellapk!Dex}
        <3>1. DOMAIN saDir = {}
            BY <1>3
        <3>2. DOMAIN saDir' = DOMAIN saDir \cup {shellapk!Dex}
            BY <1>1, SaPutDomain, Zenon
        <3>. QED
            BY <3>1, <3>2
    <2>4. IsFiniteSet({shellapk!Dex})
        BY FS_Singleton
    <2>5. ~saLost' => \A j \in shellapk!DexFiles : saDir'[shellapk!Dex] = saCall.dexes[j].body
        BY <1>1, <1>6, SaPutNew
    <2>6. saCall.javaRes \in Seq(Seq(SaEntry))
        BY <1>4 DEF SaTyped
    <2>. QED
        BY <1>2, <1>5, <2>1, <2>2, <2>3, <2>4, <2>5, <2>6, 0 \in Nat DEF SaJava
<1>8. saLost' => saCall'.ioFails
    BY <1>1, <1>2, <1>6
<1>9. Len(saJava') <= Len(saCall'.javaRes)
    BY <1>2, <1>4 DEF SaTyped
<1>. QED
    BY <1>2, <1>3, <1>7, <1>8, <1>9 DEF SaInv

LEMMA SaUnzip ==
    ASSUME NEW dir, NEW zip \in Seq(SaEntry), IsFiniteSet(DOMAIN dir)
    PROVE  LET new == shellapk!Z!Unzip(dir, zip)
               names == {zip[i].name : i \in DOMAIN zip}
           IN /\ DOMAIN new = DOMAIN dir \cup names /\ IsFiniteSet(DOMAIN new)
              /\ \A n \in DOMAIN dir : n \notin names => new[n] = dir[n]
<1>. DEFINE new == shellapk!Z!Unzip(dir, zip)
            names == {zip[i].name : i \in DOMAIN zip}
<1>1. new = [n \in DOMAIN dir \cup names |->
                IF n \in names THEN zip[shellapk!Z!LastOf(zip, n)].body ELSE dir[n]]
    BY DEF shellapk!Z!Unzip
<1>2. IsFiniteSet(names)
    <2>1. Len(zip) \in Nat /\ DOMAIN zip = 1..Len(zip)
        OBVIOUS
    <2>2. IsFiniteSet(DOMAIN zip)
        BY <2>1, FS_Interval
    <2>3. [i \in DOMAIN zip |-> zip[i].name] \in Surjection(DOMAIN zip, names)
        BY DEF Surjection
    <2>. QED
        BY <2>2, <2>3, FS_Surjection
<1>. HIDE DEF new, names
<1>3. DOMAIN new = DOMAIN dir \cup names
    BY <1>1
<1>4. IsFiniteSet(DOMAIN new)
    BY <1>2, <1>3, FS_Union
<1>5. \A n \in DOMAIN dir : n \notin names => new[n] = dir[n]
    BY <1>1
<1>. QED
    BY <1>3, <1>4, <1>5 DEF new, names

LEMMA SaUnzipJava ==
    ASSUME SaInv, shellapk!UnzipJavaRes
    PROVE  SaInv'
<1>1. /\ saPhase = "java" /\ saPhase' = "java" /\ saJava # << >> /\ saJava' = Tail(saJava)
      /\ saDir' = shellapk!Z!Unzip(saDir, saJava[1])
      /\ saCall' = saCall /\ saOut' = saOut /\ saCreated' = saCreated /\ saLost' = saLost
    BY DEF shellapk!UnzipJavaRes
<1>2. saCall \in ApkCalls /\ saOut = << >> /\ ~saCreated /\ (saLost => saCall.ioFails)
    BY <1>1 DEF SaInv
<1>20. PICK k : SaJava(k)
    BY <1>1 DEF SaInv
<1>3. SaTyped(saCall)
    BY <1>2, SaCallFacts
<1>4. shellapk!DexFiles' = shellapk!DexFiles
    BY <1>1 DEF shellapk!DexFiles
<1>. DEFINE zips == saCall.javaRes
            n == Len(zips)
            zip == saJava[1]
            names == SaNamesOf(zip)
<1>5. /\ saJava' \in Seq(Seq(SaEntry)) /\ Len(saJava) \in Nat /\ Len(saJava) > 0
      /\ Len(saJava') = Len(saJava) - 1
      /\ \A i \in 1..Len(saJava') : saJava'[i] = saJava[i + 1]
    BY <1>1, <1>20, NlTail DEF SaJava
<1>6. n \in Nat /\ k \in Nat /\ k + 1 + Len(saJava') = n /\ k + 1 \in 1..n /\ 1 \in 1..Len(saJava)
    <2>1. n \in Nat /\ k \in Nat /\ k + Len(saJava) = n
        BY <1>3, <1>20 DEF SaJava, SaTyped
    <2>. HIDE DEF n
    <2>. QED
        BY <1>5, <2>1
<1>7. zip = zips[k + 1] /\ zip \in Seq(SaEntry)
    BY <1>20, <1>3, <1>6 DEF SaJava, SaTyped
<1>8. ASSUME NEW i \in 1..Len(saJava') PROVE saJava'[i] = zips[(k + 1) + i]
    <2>1. i + 1 \in 1..Len(saJava) /\ k + (i + 1) = (k + 1) + i
        BY <1>5, <1>6
    <2>2. saJava[i + 1] = zips[k + (i + 1)]
        BY <1>20, <2>1 DEF SaJava
    <2>. QED
        BY <1>5, <2>1, <2>2
<1>9. SaUnzipped(zips, k + 1) = SaUnzipped(zips, k) \cup names
    <2>1. 1..(k + 1) = (1..k) \cup {k + 1}
        BY <1>6
    <2>. HIDE DEF zip
    <2>. QED
        BY <1>7, <2>1 DEF SaUnzipped
<1>11. /\ DOMAIN saDir = {shellapk!Dex} \cup SaUnzipped(zips, k) /\ IsFiniteSet(DOMAIN saDir)
       /\ ~saLost /\ shellapk!Dex \notin SaUnzipped(zips, k) =>
             \A i \in shellapk!DexFiles : saDir[shellapk!Dex] = saCall.dexes[i].body
    BY <1>20 DEF SaJava
<1>12. /\ DOMAIN saDir' = DOMAIN saDir \cup names /\ IsFiniteSet(DOMAIN saDir')
       /\ \A m \in DOMAIN saDir : m \notin names => saDir'[m] = saDir[m]
    <2>. HIDE DEF zip
    <2>1. LET new == shellapk!Z!Unzip(saDir, zip)
          IN /\ DOMAIN new = DOMAIN saDir \cup names /\ IsFiniteSet(DOMAIN new)
             /\ \A m \in DOMAIN saDir : m \notin names => new[m] = saDir[m]
        BY <1>7, <1>11, SaUnzip DEF SaNamesOf
    <2>2. saDir' = shellapk!Z!Unzip(saDir, zip)
        BY <1>1 DEF zip
    <2>. QED
        BY <2>1, <2>2
<1>. HIDE DEF names
<1>13. ~saLost' /\ shellapk!Dex \notin SaUnzipped(zips, k + 1) =>
           \A i \in shellapk!DexFiles : saDir'[shellapk!Dex] = saCall.dexes[i].body
    BY <1>1, <1>9, <1>11, <1>12
<1>14. DOMAIN saDir' = {shellapk!Dex} \cup SaUnzipped(zips, k + 1)
    BY <1>9, <1>11, <1>12
<1>15. SaJava(k + 1)'
    BY <1>1, <1>4, <1>5, <1>6, <1>8, <1>12, <1>13, <1>14 DEF SaJava
<1>16. Len(saJava') <= Len(saCall'.javaRes)
    BY <1>1, <1>5, <1>6
<1>. QED
    BY <1>1, <1>2, <1>15, <1>16 DEF SaInv

LEMMA SaCopyManifest ==
    ASSUME SaInv, shellapk!CopyManifest
    PROVE  SaInv'
<1>1. /\ saPhase = "java" /\ saPhase' = "manifest" /\ saJava = << >> /\ saJava' = saJava
      /\ saDir' = shellapk!Z!Put(saDir, shellapk!Manifest, shellapk!Manifest)
      /\ saCall' = saCall /\ saOut' = saOut /\ saCreated' = saCreated /\ saLost' = saLost
    BY DEF shellapk!CopyManifest
<1>2. saCall \in ApkCalls /\ saOut = << >> /\ ~saCreated /\ (saLost => saCall.ioFails)
    BY <1>1 DEF SaInv
<1>20. PICK k : SaJava(k)
    BY <1>1 DEF SaInv
<1>3. SaTyped(saCall)
    BY <1>2, SaCallFacts
<1>4. /\ shellapk!DexFiles' = shellapk!DexFiles /\ shellapk!JavaNames' = shellapk!JavaNames
      /\ SaNames(saCall)' = SaNames(saCall)
    BY <1>1 DEF shellapk!DexFiles, shellapk!JavaNames, SaNames
<1>. DEFINE n == Len(saCall.javaRes)
<1>5. n \in Nat /\ DOMAIN saCall.javaRes = 1..n /\ Len(saJava) = 0 /\ k = n
    BY <1>1, <1>3, <1>20 DEF SaTyped, SaJava
<1>6. SaUnzipped(saCall.javaRes, n) = shellapk!JavaNames
    <2>1. {SaNamesOf(saCall.javaRes[j]) : j \in 1..n} = {SaNamesOf(zip) : zip \in shellapk!Range(saCall.javaRes)}
        BY <1>5 DEF shellapk!Range
    <2>2. shellapk!JavaNames = UNION {SaNamesOf(zip) : zip \in shellapk!Range(saCall.javaRes)}
        BY DEF SaNamesOf, shellapk!JavaNames, shellapk!NamesIn
    <2>. QED
        BY <2>1, <2>2 DEF SaUnzipped
<1>7. /\ DOMAIN saDir = {shellapk!Dex} \cup shellapk!JavaNames /\ IsFiniteSet(DOMAIN saDir)
      /\ SaDexBody
    BY <1>5, <1>6, <1>20 DEF SaJava, SaDexBody
<1>8. DOMAIN saDir' = SaNames(saCall) /\ IsFiniteSet(DOMAIN saDir')
    <2>1. DOMAIN saDir' = DOMAIN saDir \cup {shellapk!Manifest}
        BY <1>1, SaPutDomain, Zenon
    <2>2. IsFiniteSet(DOMAIN saDir \cup {shellapk!Manifest})
        BY <1>7, FS_AddElement
    <2>3. SaNames(saCall) = {shellapk!Manifest, shellapk!Dex} \cup shellapk!JavaNames
        BY DEF SaNames, shellapk!JavaNames
    <2>. QED
        BY <1>7, <2>1, <2>2, <2>3
<1>9. saDir'[shellapk!Manifest] = shellapk!Manifest
    BY <1>1, SaPutNew
<1>10. saDir'[shellapk!Dex] = saDir[shellapk!Dex]
    <2>1. shellapk!Dex # shellapk!Manifest /\ shellapk!Dex \in DOMAIN saDir
        BY <1>7 DEF shellapk!Dex, shellapk!Manifest
    <2>. QED
        BY <1>1, <2>1, SaPutOld, Zenon
<1>11. SaDir'
    BY <1>1, <1>4, <1>7, <1>8, <1>9, <1>10 DEF SaDir, SaDexBody
<1>12. Len(saJava') <= Len(saCall'.javaRes)
    BY <1>1, <1>5
<1>. QED
    BY <1>1, <1>2, <1>11, <1>12 DEF SaInv

LEMMA SaAll ==
    ASSUME SaInv, saPhase \in {"manifest", "write", "close", "ok"}
    PROVE  SaRight(shellapk!ToWrite) /\ SaTyped(saCall)
<1>1. saCall \in ApkCalls /\ SaDir
    BY DEF SaInv
<1>2. SaTyped(saCall) /\ SaNamed(saCall) /\ SaOrdered(SaNames(saCall))
    BY <1>1, SaCallFacts
<1>. QED
    BY <1>1, <1>2, SaToWrite

LEMMA SaCreate ==
    ASSUME SaInv, shellapk!Create
    PROVE  SaInv'
<1>1. /\ saPhase = "manifest" /\ saPhase' = "write" /\ saTodo' = shellapk!ToWrite
      /\ saCall' = saCall /\ saDir' = saDir /\ saJava' = saJava /\ saOut' = saOut /\ saLost' = saLost
    BY DEF shellapk!Create
<1>. DEFINE w == shellapk!ToWrite
            g == [i \in 1..0 |-> 0]
<1>2. w' = w /\ shellapk!JavaNames' = shellapk!JavaNames
      /\ SaNames(saCall)' = SaNames(saCall) /\ shellapk!DexFiles' = shellapk!DexFiles
    BY <1>1, SaStays
<1>3. w \in Seq(Range(w))
    BY <1>1, SaAll DEF SaRight
<1>. HIDE DEF w
<1>4. Len(w) \in Nat /\ Len(saTodo') = Len(w) /\ Len(w) - Len(w) = 0 /\ 1..0 = {}
    BY <1>1, <1>3 DEF w
<1>5. SaWriting(g)'
    <2>1. saOut' = << >> /\ Len(saOut') = 0 /\ saOut' \in Seq(Range(saOut'))
        BY <1>1 DEF SaInv
    <2>2. g \in [1..Len(saOut') -> 1..0]
        BY <2>1
    <2>3. saTodo' = w /\ shellapk!ToWrite' = w
        BY <1>1, <1>2 DEF w
    <2>. QED
        BY <1>3, <1>4, <2>1, <2>2, <2>3 DEF SaWriting
<1>6. SaDir'
    <2>1. SaDir
        BY <1>1 DEF SaInv
    <2>. QED
        BY <1>1, <1>2, <2>1 DEF SaDir, SaDexBody
<1>. QED
    BY <1>1, <1>5, <1>6 DEF SaInv

LEMMA SaWritingNext ==
    ASSUME NEW w, shellapk!ToWrite' = w, NEW k, NEW h,
           saTodo' \in Seq(Range(saTodo')), Len(saTodo') \in 0..Len(w), Len(w) - Len(saTodo') = k,
           \A i \in 1..Len(saTodo') : saTodo'[i] = w[k + i],
           saOut' \in Seq(Range(saOut')),
           h \in [1..Len(saOut') -> 1..k],
           \A i, j \in 1..Len(saOut') : i < j => h[i] < h[j],
           \A i \in 1..Len(saOut') : /\ saOut'[i].name = w[h[i]].name
                                     /\ saOut'[i].body = w[h[i]].body \/ (saLost' /\ w[h[i]].lossy),
           \A j \in 1..k : ~w[j].lossy \/ ~saLost' => \E i \in 1..Len(saOut') : h[i] = j
    PROVE  SaWriting(h)'
BY Zenon DEF SaWriting

\* An entry is written, or is lost.
LEMMA SaWrites ==
    ASSUME SaInv, saPhase = "write", saPhase' = "write", saTodo # << >>, saTodo' = Tail(saTodo),
           saCall' = saCall, saDir' = saDir, saJava' = saJava, saLost => saLost', saLost' => saCall.ioFails,
           \/ /\ saOut' = saOut /\ saLost' /\ saTodo[1].lossy
           \/ \E e : /\ saOut' = Append(saOut, e) /\ e.name = saTodo[1].name
                     /\ e.body = saTodo[1].body \/ (saLost' /\ saTodo[1].lossy)
    PROVE  SaInv'
<1>. DEFINE w == shellapk!ToWrite
            n == Len(w)
            k == n - Len(saTodo)
<1>1. w' = w /\ shellapk!JavaNames' = shellapk!JavaNames
      /\ SaNames(saCall)' = SaNames(saCall) /\ shellapk!DexFiles' = shellapk!DexFiles
    BY SaStays
<1>2. w \in Seq(Range(w)) /\ n \in Nat
    <2>1. w \in Seq(Range(w))
        BY SaAll DEF SaRight
    <2>. HIDE DEF w
    <2>. QED
        BY <2>1
<1>3. PICK g : SaWriting(g)
    BY DEF SaInv
<1>. HIDE DEF w
<1>4. /\ saTodo \in Seq(Range(saTodo)) /\ Len(saTodo) \in 0..n
      /\ \A i \in 1..Len(saTodo) : saTodo[i] = w[k + i]
      /\ saOut \in Seq(Range(saOut))
      /\ g \in [1..Len(saOut) -> 1..k]
      /\ \A i, j \in 1..Len(saOut) : i < j => g[i] < g[j]
      /\ \A i \in 1..Len(saOut) :
            /\ saOut[i].name = w[g[i]].name
            /\ saOut[i].body = w[g[i]].body \/ (saLost /\ w[g[i]].lossy)
      /\ \A j \in 1..k : ~w[j].lossy \/ ~saLost => \E i \in 1..Len(saOut) : g[i] = j
    BY <1>3 DEF SaWriting, w
<1>. HIDE DEF n
<1>5. /\ saTodo' \in Seq(Range(saTodo)) /\ Len(saTodo) > 0 /\ Len(saTodo') = Len(saTodo) - 1
      /\ \A i \in 1..Len(saTodo') : saTodo'[i] = saTodo[i + 1]
    BY <1>4, NlTail
<1>6. /\ k \in Nat /\ n - Len(saTodo') = k + 1 /\ k + 1 \in 1..n /\ Len(saTodo') \in 0..n
      /\ 1 \in 1..Len(saTodo) /\ saTodo' \in Seq(Range(saTodo'))
    <2>1. saTodo' \in Seq(Range(saTodo'))
        BY <1>5, NlOwnRange
    <2>. QED
        BY <1>2, <1>4, <1>5, <2>1
<1>7. saTodo[1] = w[k + 1]
    BY <1>4, <1>6
<1>8. ASSUME NEW i \in 1..Len(saTodo') PROVE saTodo'[i] = w[(k + 1) + i]
    <2>. HIDE DEF k
    <2>1. i + 1 \in 1..Len(saTodo) /\ k + (i + 1) = (k + 1) + i
        BY <1>4, <1>5, <1>6
    <2>. QED
        BY <1>4, <1>5, <2>1
<1>9. SaDir' /\ Len(saJava') <= Len(saCall'.javaRes)
    <2>1. SaDir /\ Len(saJava) <= Len(saCall.javaRes)
        BY DEF SaInv
    <2>2. SaDir'
        BY <1>1, <2>1 DEF SaDir, SaDexBody
    <2>. QED
        BY <2>1, <2>2
<1>. HIDE DEF k
<1>10. CASE saOut' = saOut /\ saLost' /\ saTodo[1].lossy
    <2>1. g \in [1..Len(saOut') -> 1..(k + 1)]
        BY <1>4, <1>6, <1>10
    <2>2. \A i \in 1..Len(saOut') : /\ saOut'[i].name = w[g[i]].name
                                    /\ saOut'[i].body = w[g[i]].body \/ (saLost' /\ w[g[i]].lossy)
        BY <1>4, <1>10
    <2>3. ASSUME NEW j \in 1..(k + 1), ~w[j].lossy \/ ~saLost'
          PROVE  \E i \in 1..Len(saOut') : g[i] = j
        <3>1. j \in 1..k
            BY <1>6, <1>7, <1>10, <2>3
        <3>2. ~w[j].lossy
            BY <1>10, <2>3
        <3>. QED
            BY <1>4, <1>10, <3>1, <3>2
    <2>4. SaWriting(g)'
        <3>1. w' = w
            BY <1>1 DEF w
        <3>2. Len(shellapk!ToWrite') = n /\ shellapk!ToWrite' = w
            BY <1>1 DEF w, n
        <3>3. saOut' \in Seq(Range(saOut')) /\ \A i, j \in 1..Len(saOut') : i < j => g[i] < g[j]
            BY <1>4, <1>10
        <3>. QED
            BY <1>5, <1>6, <1>8, <2>1, <2>2, <2>3, <3>2, <3>3 DEF SaWriting
    <2>. QED
        BY <1>9, <2>4 DEF SaInv
<1>11. ASSUME NEW e, saOut' = Append(saOut, e), e.name = saTodo[1].name,
              e.body = saTodo[1].body \/ (saLost' /\ saTodo[1].lossy)
       PROVE  SaInv'
    <2>. DEFINE m == Len(saOut)
    <2>0. PICK h : h = [i \in 1..(m + 1) |-> IF i = m + 1 THEN k + 1 ELSE g[i]]
        OBVIOUS
    <2>1. /\ saOut' \in Seq(Range(saOut')) /\ Len(saOut') = m + 1 /\ m \in Nat
          /\ (\A i \in 1..m : saOut'[i] = saOut[i]) /\ saOut'[m + 1] = e
        <3>1. /\ Append(saOut, e) \in Seq(Range(Append(saOut, e))) /\ Len(Append(saOut, e)) = Len(saOut) + 1
              /\ (\A i \in 1..Len(saOut) : Append(saOut, e)[i] = saOut[i])
              /\ Append(saOut, e)[Len(saOut) + 1] = e
            BY <1>4, NlAppend
        <3>. QED
            BY <1>4, <1>11, <3>1
    <2>2. \A i \in 1..(m + 1) : i \in 1..m \/ i = m + 1
        BY <2>1
    <2>3. /\ \A i \in 1..m : h[i] = g[i] /\ g[i] \in 1..k /\ i \in 1..(m + 1)
          /\ h[m + 1] = k + 1 /\ m + 1 \in 1..(m + 1)
        BY <1>4, <2>0, <2>1
    <2>4. h \in [1..Len(saOut') -> 1..(k + 1)]
        BY <1>4, <1>6, <2>0, <2>1
    <2>. HIDE DEF m
    <2>5. ASSUME NEW i \in 1..(m + 1), NEW j \in 1..(m + 1), i < j PROVE h[i] < h[j]
        <3>1. i \in 1..m
            BY <2>1, <2>5
        <3>2. CASE j \in 1..m
            BY <1>4, <2>3, <2>5, <3>1, <3>2 DEF m
        <3>3. CASE j = m + 1
            BY <1>6, <2>3, <3>1, <3>3
        <3>. QED
            BY <2>2, <3>2, <3>3
    <2>6. ASSUME NEW i \in 1..(m + 1)
          PROVE  /\ saOut'[i].name = w[h[i]].name
                 /\ saOut'[i].body = w[h[i]].body \/ (saLost' /\ w[h[i]].lossy)
        <3>1. CASE i \in 1..m
            BY <1>4, <2>1, <2>3, <3>1 DEF m
        <3>2. CASE i = m + 1
            BY <1>7, <1>11, <2>1, <2>3, <3>2
        <3>. QED
            BY <2>2, <3>1, <3>2
    <2>7. ASSUME NEW j \in 1..(k + 1), ~w[j].lossy \/ ~saLost'
          PROVE  \E i \in 1..(m + 1) : h[i] = j
        <3>1. CASE j = k + 1
            BY <2>3, <3>1
        <3>2. CASE j # k + 1
            <4>1. j \in 1..k /\ (~w[j].lossy \/ ~saLost)
                BY <1>6, <2>7, <3>2
            <4>2. PICK i \in 1..m : g[i] = j
                BY <1>4, <4>1 DEF m
            <4>. QED
                BY <2>3, <4>2
        <3>. QED
            BY <3>1, <3>2
    <2>8. SaWriting(h)'
        <3>1. Len(shellapk!ToWrite') = n /\ shellapk!ToWrite' = w
            BY <1>1 DEF w, n
        <3>2. \A i, j \in 1..Len(saOut') : i < j => h[i] < h[j]
            BY <2>1, <2>5
        <3>3. \A i \in 1..Len(saOut') : /\ saOut'[i].name = w[h[i]].name
                                        /\ saOut'[i].body = w[h[i]].body \/ (saLost' /\ w[h[i]].lossy)
            BY <2>1, <2>6
        <3>4. \A j \in 1..(k + 1) : ~w[j].lossy \/ ~saLost' => \E i \in 1..Len(saOut') : h[i] = j
            BY <2>1, <2>7
        <3>5. /\ saTodo' \in Seq(Range(saTodo')) /\ Len(saTodo') \in 0..n /\ n - Len(saTodo') = k + 1
              /\ \A i \in 1..Len(saTodo') : saTodo'[i] = w[(k + 1) + i]
            BY <1>6, <1>8
        <3>6. saOut' \in Seq(Range(saOut'))
            BY <2>1
        <3>. QED
            BY <2>4, <3>1, <3>2, <3>3, <3>4, <3>5, <3>6, SaWritingNext DEF n
    <2>. QED
        BY <1>9, <2>8 DEF SaInv
<1>. QED
    BY <1>10, <1>11

LEMMA SaWriteEntry ==
    ASSUME SaInv, shellapk!WriteEntry
    PROVE  SaInv'
<1>1. /\ saPhase = "write" /\ saPhase' = "write" /\ saTodo # << >> /\ saTodo' = Tail(saTodo)
      /\ saCall' = saCall /\ saDir' = saDir /\ saJava' = saJava /\ saLost' = saLost
    BY DEF shellapk!WriteEntry, shellapk!Writing
<1>. DEFINE e == [name |-> saTodo[1].name, body |-> saTodo[1].body]
<1>2. saOut' = Append(saOut, e) /\ e.name = saTodo[1].name /\ e.body = saTodo[1].body
    BY DEF shellapk!WriteEntry, shellapk!Write
<1>. HIDE DEF e
<1>3. saLost' => saCall.ioFails
    BY <1>1 DEF SaInv
<1>. QED
    BY <1>1, <1>2, <1>3, SaWrites

LEMMA SaWriteLibFails ==
    ASSUME SaInv, shellapk!WriteLibFails
    PROVE  SaInv'
<1>1. /\ saPhase = "write" /\ saPhase' = "write" /\ saTodo # << >> /\ saTodo' = Tail(saTodo)
      /\ saCall' = saCall /\ saDir' = saDir /\ saJava' = saJava /\ saLost'
      /\ saTodo[1].lossy /\ saCall.ioFails
    BY DEF shellapk!WriteLibFails, shellapk!Writing
<1>. DEFINE cut == [saTodo[1] EXCEPT !.body = "cut"]
            e == [name |-> cut.name, body |-> cut.body]
<1>2. saOut' = saOut \/ saOut' = Append(saOut, e)
    BY DEF shellapk!WriteLibFails, shellapk!Write
<1>3. /\ \E g : SaWriting(g)
      /\ SaRight(shellapk!ToWrite)
    BY <1>1, SaAll DEF SaInv
<1>4. saTodo[1] = shellapk!ToWrite[Len(shellapk!ToWrite) - Len(saTodo) + 1]
    BY <1>1, <1>3 DEF SaWriting
<1>5. e.name = saTodo[1].name
    OBVIOUS
<1>. QED
    BY <1>1, <1>2, <1>5, SaWrites

LEMMA SaFails ==
    ASSUME SaInv, shellapk!Fails
    PROVE  SaInv'
<1>1. /\ saPhase' = "error" /\ saCall' = saCall /\ saDir' = saDir /\ saJava' = saJava
      /\ saCreated' = saCreated /\ saLost' = saLost
    BY DEF shellapk!Fails
<1>2. saPhase = "dex" \/ saCall.ioFails
    BY DEF shellapk!Fails
<1>3. saCall \in ApkCalls
    <2>1. saPhase # "idle"
        BY DEF shellapk!Fails, shellapk!Writing
    <2>. QED
        BY <2>1 DEF SaInv
<1>4. ~saCreated' \/ saCall'.ioFails
    BY <1>1, <1>2 DEF SaInv
<1>. QED
    BY <1>1, <1>3, <1>4 DEF SaInv

\* Nothing changes but that an error may be lost.
LEMMA SaEnds ==
    ASSUME SaInv, saPhase \in {"write", "close"}, saPhase' \in {"close", "ok"}, saTodo = << >>,
           saCall' = saCall, saDir' = saDir, saJava' = saJava, saTodo' = saTodo, saOut' = saOut,
           saLost => saLost', saLost' => saCall.ioFails
    PROVE  SaInv'
<1>1. /\ shellapk!ToWrite' = shellapk!ToWrite /\ shellapk!JavaNames' = shellapk!JavaNames
      /\ SaNames(saCall)' = SaNames(saCall) /\ shellapk!DexFiles' = shellapk!DexFiles
    BY SaStays
<1>2. PICK g : SaWriting(g)
    BY DEF SaInv
<1>3. SaWriting(g)'
    BY <1>1, <1>2 DEF SaWriting
<1>4. SaDir'
    <2>1. SaDir
        BY DEF SaInv
    <2>. QED
        BY <1>1, <2>1 DEF SaDir, SaDexBody
<1>5. saCall \in ApkCalls /\ Len(saJava) <= Len(saCall.javaRes)
    BY DEF SaInv
<1>. QED
    BY <1>3, <1>4, <1>5 DEF SaInv

LEMMA SaWritten ==
    ASSUME SaInv, shellapk!Written
    PROVE  SaInv'
BY SaEnds DEF shellapk!Written, SaInv

LEMMA SaClose ==
    ASSUME SaInv, shellapk!Close
    PROVE  SaInv'
<1>1. saTodo = << >> /\ (saLost => saCall.ioFails)
    BY DEF shellapk!Close, SaInv
<1>2. (saLost => saLost') /\ (saLost' => saCall.ioFails)
    <2>1. saLost' \in {saLost, saLost \/ saCall.ioFails}
        BY DEF shellapk!Close
    <2>. QED
        BY <1>1, <2>1
<1>. QED
    BY <1>1, <1>2, SaEnds DEF shellapk!Close

LEMMA SaInductive ==
    ASSUME SaInv, [shellapk!Next]_saVars
    PROVE  SaInv'
<1>1. CASE UNCHANGED saVars
    <2>1. /\ saCall' = saCall /\ saPhase' = saPhase /\ saDir' = saDir /\ saJava' = saJava
          /\ saTodo' = saTodo /\ saOut' = saOut /\ saCreated' = saCreated /\ saLost' = saLost
        BY <1>1 DEF saVars
    <2>2. /\ shellapk!ToWrite' = shellapk!ToWrite /\ shellapk!JavaNames' = shellapk!JavaNames
          /\ SaNames(saCall)' = SaNames(saCall) /\ shellapk!DexFiles' = shellapk!DexFiles
        BY <2>1, SaStays
    <2>3. \A g : SaWriting(g)' <=> SaWriting(g)
        BY <2>1, <2>2 DEF SaWriting
    <2>4. SaDir' <=> SaDir
        BY <2>1, <2>2 DEF SaDir, SaDexBody
    <2>5. \A k : SaJava(k)' <=> SaJava(k)
        BY <2>1, <2>2 DEF SaJava
    <2>. QED
        BY <2>1, <2>3, <2>4, <2>5 DEF SaInv
<1>2. CASE shellapk!Next
    BY <1>2, SaRun, SaExtractDexes, SaUnzipJava, SaCopyManifest, SaCreate, SaWriteEntry,
       SaWriteLibFails, SaFails, SaWritten, SaClose
       DEF shellapk!Next
<1>. QED
    BY <1>1, <1>2

\* In the end all is written but what was lost.
SaEnd(w, g) ==
    /\ DOMAIN saOut = 1..Len(saOut) /\ g \in [1..Len(saOut) -> 1..Len(w)]
    /\ \A i, j \in 1..Len(saOut) : i < j => g[i] < g[j]
    /\ \A i \in 1..Len(saOut) :
          /\ saOut[i].name = w[g[i]].name
          /\ saOut[i].body = w[g[i]].body \/ (saLost /\ w[g[i]].lossy)
    /\ \A j \in 1..Len(w) : ~w[j].lossy \/ ~saLost => \E i \in 1..Len(saOut) : g[i] = j
    /\ Len(saOut) \in Nat
LEMMA SaEndIs ==
    ASSUME SaInv, saPhase = "ok"
    PROVE  LET w == shellapk!ToWrite
           IN /\ w \in Seq(Range(w)) /\ Len(w) \in Nat /\ DOMAIN w = 1..Len(w)
              /\ \E g : SaEnd(w, g)
<1>. DEFINE w == shellapk!ToWrite
<1>1. PICK g : SaWriting(g)
    BY DEF SaInv
<1>2. w \in Seq(Range(w)) /\ saTodo = << >>
    BY SaAll DEF SaInv, SaRight
<1>3. /\ saOut \in Seq(Range(saOut))
      /\ g \in [1..Len(saOut) -> 1..(Len(w) - Len(saTodo))]
      /\ \A i, j \in 1..Len(saOut) : i < j => g[i] < g[j]
      /\ \A i \in 1..Len(saOut) :
            /\ saOut[i].name = w[g[i]].name
            /\ saOut[i].body = w[g[i]].body \/ (saLost /\ w[g[i]].lossy)
      /\ \A j \in 1..(Len(w) - Len(saTodo)) :
            ~w[j].lossy \/ ~saLost => \E i \in 1..Len(saOut) : g[i] = j
    BY <1>1, Zenon DEF SaWriting
<1>. HIDE DEF w
<1>4. Len(w) \in Nat /\ DOMAIN w = 1..Len(w) /\ Len(w) - Len(saTodo) = Len(w)
    BY <1>2
<1>5. DOMAIN saOut = 1..Len(saOut) /\ Len(saOut) \in Nat
    BY <1>3
<1>6. SaEnd(w, g)
    BY <1>3, <1>4, <1>5, Zenon DEF SaEnd
<1>. QED
    BY <1>2, <1>4, <1>6 DEF w

\* What is to be written once is there once.
LEMMA SaFoundOnce ==
    ASSUME SaInv, saPhase = "ok", NEW name, NEW body, SaOnce(shellapk!ToWrite, name, body)
    PROVE  \E i \in DOMAIN saOut : shellapk!Named(name) = {i} /\ saOut[i].body = body
<1>. DEFINE w == shellapk!ToWrite
<1>3. PICK m \in DOMAIN w : /\ w[m].name = name /\ w[m].body = body /\ ~w[m].lossy
                            /\ \A i \in DOMAIN w : w[i].name = name => i = m
    BY DEF SaOnce
<1>. HIDE DEF w
<1>4. Len(w) \in Nat /\ DOMAIN w = 1..Len(w) /\ \E g : SaEnd(w, g)
    BY SaEndIs DEF w
<1>2. PICK g : SaEnd(w, g)
    BY <1>4
<1>5. /\ DOMAIN saOut = 1..Len(saOut) /\ g \in [1..Len(saOut) -> 1..Len(w)]
      /\ \A i, j \in 1..Len(saOut) : i < j => g[i] < g[j]
      /\ \A i \in 1..Len(saOut) :
            /\ saOut[i].name = w[g[i]].name
            /\ saOut[i].body = w[g[i]].body \/ (saLost /\ w[g[i]].lossy)
      /\ \A j \in 1..Len(w) : ~w[j].lossy \/ ~saLost => \E i \in 1..Len(saOut) : g[i] = j
      /\ Len(saOut) \in Nat
    BY <1>2 DEF SaEnd
<1>6. PICK i \in 1..Len(saOut) : g[i] = m
    BY <1>3, <1>4, <1>5
<1>7. saOut[i].name = name /\ saOut[i].body = body
    BY <1>3, <1>5, <1>6
<1>8. ASSUME NEW j \in 1..Len(saOut), saOut[j].name = name PROVE j = i
    <2>1. g[j] = m
        BY <1>3, <1>4, <1>5, <1>8
    <2>2. ~(i < j) /\ ~(j < i)
        BY <1>4, <1>5, <1>6, <2>1
    <2>. QED
        BY <1>5, <2>2
<1>9. shellapk!Named(name) = {i}
    BY <1>5, <1>7, <1>8 DEF shellapk!Named
<1>. QED
    BY <1>5, <1>7, <1>9

LEMMA SaImplies == SaInv => ApkRight /\ shellapk!TypeOK
<1>. SUFFICES ASSUME SaInv PROVE ApkRight /\ shellapk!TypeOK
    OBVIOUS
<1>1. shellapk!TypeOK
    <2>1. saPhase \in {"java", "manifest", "write", "close", "ok"} => shellapk!Dex \in DOMAIN saDir
        BY DEF SaInv, SaJava, SaDir, SaNames
    <2>. QED
        BY <2>1 DEF SaInv, shellapk!TypeOK
<1>2. ASSUME saPhase = "ok"
      PROVE  /\ \E i \in DOMAIN saOut : shellapk!Named(shellapk!Manifest) = {i} /\ saOut[i].body = shellapk!Manifest
             /\ \E i \in DOMAIN saOut :
                  /\ shellapk!Named(shellapk!Dex) = {i}
                  /\ ~saLost /\ shellapk!Dex \notin shellapk!JavaNames =>
                        \A d \in shellapk!DexFiles : saOut[i].body = saCall.dexes[d].body
             /\ \E i \in shellapk!Named(shellapk!JarManifest) :
                  /\ saOut[i].body = shellapk!JarManifest
                  /\ \A j \in shellapk!Named(shellapk!JarManifest) : j <= i
             /\ \A name \in shellapk!JavaNames \ {shellapk!JarManifest} : shellapk!Named(name) # {}
             /\ \A e \in shellapk!Range(saCall.resZip) :
                  ~e.match => \E i \in shellapk!Named(e.name) : saOut[i].body = e.body
             /\ ~saLost => \A e \in shellapk!Range(saCall.libs) :
                  e.match => \E i \in shellapk!Named(e.name) : saOut[i].body = e.body
    <2>. DEFINE w == shellapk!ToWrite
    <2>1. SaDir /\ SaRight(w)
        BY <1>2, SaAll DEF SaInv
    <2>3. \E i \in DOMAIN saOut : shellapk!Named(shellapk!Manifest) = {i} /\ saOut[i].body = shellapk!Manifest
        <3>1. SaOnce(w, shellapk!Manifest, shellapk!Manifest)
            BY <2>1 DEF SaRight, SaDir
        <3>. QED
            BY <1>2, <3>1, SaFoundOnce
    <2>4. \E i \in DOMAIN saOut :
              /\ shellapk!Named(shellapk!Dex) = {i}
              /\ ~saLost /\ shellapk!Dex \notin shellapk!JavaNames =>
                    \A d \in shellapk!DexFiles : saOut[i].body = saCall.dexes[d].body
        <3>1. SaOnce(w, shellapk!Dex, saDir[shellapk!Dex])
            BY <2>1 DEF SaRight
        <3>2. PICK i \in DOMAIN saOut : shellapk!Named(shellapk!Dex) = {i} /\ saOut[i].body = saDir[shellapk!Dex]
            BY <1>2, <3>1, SaFoundOnce
        <3>. QED
            BY <2>1, <3>2 DEF SaDir, SaDexBody
    <2>. HIDE DEF w
    <2>5. Len(w) \in Nat /\ DOMAIN w = 1..Len(w) /\ \E g : SaEnd(w, g)
        BY <1>2, SaEndIs DEF w
    <2>2. PICK g : SaEnd(w, g)
        BY <2>5
    <2>6. /\ DOMAIN saOut = 1..Len(saOut) /\ g \in [1..Len(saOut) -> 1..Len(w)]
          /\ \A i, j \in 1..Len(saOut) : i < j => g[i] < g[j]
          /\ \A i \in 1..Len(saOut) :
                /\ saOut[i].name = w[g[i]].name
                /\ saOut[i].body = w[g[i]].body \/ (saLost /\ w[g[i]].lossy)
          /\ \A j \in 1..Len(w) : ~w[j].lossy \/ ~saLost => \E i \in 1..Len(saOut) : g[i] = j
          /\ Len(saOut) \in Nat
        BY <2>2 DEF SaEnd
    <2>7. ASSUME NEW j \in DOMAIN w, ~w[j].lossy \/ ~saLost
          PROVE  \E i \in shellapk!Named(w[j].name) : g[i] = j /\ saOut[i].body = w[j].body
        <3>1. PICK i \in 1..Len(saOut) : g[i] = j
            BY <2>5, <2>6, <2>7
        <3>2. saOut[i].name = w[j].name /\ saOut[i].body = w[j].body
            BY <2>6, <2>7, <3>1
        <3>. QED
            BY <2>6, <3>1, <3>2 DEF shellapk!Named
    <2>8. \E i \in shellapk!Named(shellapk!JarManifest) :
              /\ saOut[i].body = shellapk!JarManifest
              /\ \A j \in shellapk!Named(shellapk!JarManifest) : j <= i
        <3>1. PICK q \in DOMAIN w : /\ w[q].name = shellapk!JarManifest /\ w[q].body = shellapk!JarManifest
                                    /\ ~w[q].lossy
                                    /\ \A i \in DOMAIN w : i > q => w[i].name # shellapk!JarManifest
            BY <2>1 DEF SaRight
        <3>2. PICK i \in shellapk!Named(shellapk!JarManifest) : g[i] = q /\ saOut[i].body = shellapk!JarManifest
            BY <2>7, <3>1
        <3>3. ASSUME NEW j \in shellapk!Named(shellapk!JarManifest) PROVE j <= i
            <4>1. /\ j \in 1..Len(saOut) /\ i \in 1..Len(saOut) /\ saOut[j].name = shellapk!JarManifest
                BY <2>6, <3>2 DEF shellapk!Named
            <4>2. g[j] \in DOMAIN w /\ w[g[j]].name = shellapk!JarManifest
                BY <2>5, <2>6, <4>1
            <4>3. ~(g[j] > q)
                BY <3>1, <4>2
            <4>4. ~(i < j)
                BY <2>5, <2>6, <3>2, <4>1, <4>2, <4>3
            <4>. QED
                BY <2>6, <4>1, <4>4
        <3>. QED
            BY <3>2, <3>3
    <2>9. ASSUME NEW name \in shellapk!JavaNames \ {shellapk!JarManifest}
          PROVE  shellapk!Named(name) # {}
        <3>1. PICK j \in DOMAIN w : w[j].name = name /\ ~w[j].lossy
            BY <2>1 DEF SaRight
        <3>. QED
            BY <2>7, <3>1
    <2>10. ASSUME NEW e \in shellapk!Range(saCall.resZip), ~e.match
           PROVE  \E i \in shellapk!Named(e.name) : saOut[i].body = e.body
        <3>1. PICK j \in DOMAIN saCall.resZip : saCall.resZip[j] = e
            BY DEF shellapk!Range
        <3>2. PICK i \in DOMAIN w : w[i].name = e.name /\ w[i].body = e.body /\ ~w[i].lossy
            BY <2>1, <2>10, <3>1 DEF SaRight
        <3>. QED
            BY <2>7, <3>2
    <2>11. ASSUME ~saLost, NEW e \in shellapk!Range(saCall.libs), e.match
           PROVE  \E i \in shellapk!Named(e.name) : saOut[i].body = e.body
        <3>1. PICK j \in DOMAIN saCall.libs : saCall.libs[j] = e
            BY DEF shellapk!Range
        <3>2. PICK i \in DOMAIN w : w[i].name = e.name /\ w[i].body = e.body
            BY <2>1, <2>11, <3>1 DEF SaRight
        <3>. QED
            BY <2>7, <2>11, <3>2
    <2>. QED
        BY <2>3, <2>4, <2>8, <2>9, <2>10, <2>11
<1>3. saPhase = "error" => ~saCreated \/ saCall.ioFails
    BY DEF SaInv
<1>. QED
    BY <1>1, <1>2, <1>3, Zenon DEF ApkRight, shellapk!ApkRight

\* The APK that shellapk makes has what it was given, each file under the name that a
\* reader finds it by: shellapk.go's doWork.
THEOREM ApkIsRight == FairSpec => []ApkRight
BY SaInitial, SaSteps, SaInductive, SaImplies, PTL DEF FairSpec

-----------------------------------------------------------------------------
(* Bump, default and validation agree with each other, for every manifest and
   every floor. *)

\* What is set is what is found.
LEMMA SetThenFound ==
    ASSUME NEW m \in Seq(Versions), NEW v \in Versions
    PROVE  /\ SetMinSdk(m, v) \in Seq(Versions)
           /\ SetMinSdk(m, v) # << >>
           /\ SetMinSdk(m, v)[1] = v
<1>1. CASE m = << >>
    BY <1>1 DEF SetMinSdk
<1>2. CASE m # << >>
    <2>1. 1 \in DOMAIN m
        BY <1>2
    <2>. QED
        BY <1>2, <2>1 DEF SetMinSdk
<1>. QED
    BY <1>1, <1>2

\* Two values set one after the other: the second one stays.
LEMMA SetTwice ==
    ASSUME NEW m \in Seq(Versions), NEW v \in Versions, NEW w \in Versions
    PROVE  SetMinSdk(SetMinSdk(m, v), w) = SetMinSdk(m, w)
<1>1. CASE m = << >>
    BY <1>1 DEF SetMinSdk
<1>2. CASE m # << >>
    BY <1>2, SetThenFound DEF SetMinSdk
<1>. QED
    BY <1>1, <1>2

LEMMA FirstVersion ==
    ASSUME NEW m \in Seq(Versions), m # << >>
    PROVE  m[1] \in Versions /\ m[1].n \in Int
<1>1. 1 \in DOMAIN m
    OBVIOUS
<1>2. m[1] \in Versions
    BY <1>1
<1>3. \A v \in Versions : v.n \in Int
    BY DEF Versions
<1>. QED
    BY <1>2, <1>3

LEMMA NumberIsVersion ==
    \A n \in Int : Number(n) \in Versions /\ Number(n).kind = "number" /\ Number(n).n = n
BY DEF Number, Versions

\* The build actions do what the functions of the tool do.
LEMMA ActionsAre ==
    ASSUME NEW m \in Seq(Versions), NEW floor \in Int, NEW default \in Versions
    PROVE  /\ floor > 0 => bump_min_sdk(m, floor) = BumpMinSdk(m, floor)
           /\ floor <= 0 => bump_min_sdk(m, floor) = m
           /\ set_default_min_sdk(m, default) = SetDefaultMinSdk(m, default)
           /\ validate_min_sdk(m, floor) <=> floor <= 0 \/ ~ValidateRaises(m, floor)
<1>1. Main("bump", m, floor, Number(0), TRUE).out[1] = BumpMinSdk(m, floor)
    BY Zenon DEF Main
<1>2. Main("set_default", m, 0, default, TRUE).out[1] = SetDefaultMinSdk(m, default)
    BY Zenon DEF Main
<1>3. Main("validate", m, floor, Number(0), TRUE).ok <=> ~ValidateRaises(m, floor)
    BY Zenon DEF Main
<1>4. validate_min_sdk(m, floor) <=> floor <= 0 \/ ~ValidateRaises(m, floor)
    BY <1>3, Zenon DEF validate_min_sdk
<1>5. floor > 0 => bump_min_sdk(m, floor) = BumpMinSdk(m, floor)
    <2>1. floor > 0 => ~(floor <= 0)
        OBVIOUS
    <2>. QED
        BY <1>1, <2>1, Zenon DEF bump_min_sdk
<1>6. floor <= 0 => bump_min_sdk(m, floor) = m
    BY DEF bump_min_sdk
<1>7. set_default_min_sdk(m, default) = SetDefaultMinSdk(m, default)
    BY <1>2, Zenon DEF set_default_min_sdk, SetDefaultMinSdk
<1>. QED
    BY <1>4, <1>5, <1>6, <1>7, Zenon

\* Validation fails for the manifests that the bump changes, and for no other.
THEOREM InvalidAreBumped ==
    \A m \in Seq(Versions), floor \in Int : BumpsTheInvalid(m, floor)
<1>. SUFFICES ASSUME NEW m \in Seq(Versions), NEW floor \in Int
              PROVE  BumpsTheInvalid(m, floor)
    OBVIOUS
<1>1. Number(floor) \in Versions /\ Number(floor).kind = "number" /\ Number(floor).n = floor
    BY NumberIsVersion
<1>2. CASE ~ValidateRaises(m, floor)
    BY <1>2 DEF BumpsTheInvalid, BumpMinSdk, ValidateRaises
<1>3. CASE ValidateRaises(m, floor)
    <2>1. BumpMinSdk(m, floor) = SetMinSdk(m, Number(floor))
        BY <1>3 DEF BumpMinSdk, ValidateRaises
    <2>2. m = << >> \/ m[1] # Number(floor)
        BY <1>1, <1>3 DEF ValidateRaises, HasVersion, IsBelow
    <2>. QED
        BY <1>1, <1>3, <2>1, <2>2, SetThenFound DEF BumpsTheInvalid
<1>. QED
    BY <1>2, <1>3

\* A bumped manifest is never refused, for no floor and no manifest.
THEOREM BumpedAreValid ==
    \A m \in Seq(Versions), floor \in Int : BumpedValidates(m, floor)
<1>. SUFFICES ASSUME NEW m \in Seq(Versions), NEW floor \in Int
              PROVE  validate_min_sdk(bump_min_sdk(m, floor), floor)
    BY DEF BumpedValidates
<1>a. CASE floor <= 0
    BY <1>a, ActionsAre DEF validate_min_sdk
<1>. SUFFICES ASSUME floor > 0
              PROVE  validate_min_sdk(bump_min_sdk(m, floor), floor)
    BY <1>a
<1>1. Number(floor) \in Versions /\ Number(floor).kind = "number" /\ Number(floor).n = floor
    BY NumberIsVersion
<1>2. bump_min_sdk(m, floor) = BumpMinSdk(m, floor)
    BY <1>1, ActionsAre
<1>3. CASE ~ValidateRaises(m, floor)
    <2>1. BumpMinSdk(m, floor) = m
        BY <1>3 DEF BumpMinSdk, ValidateRaises
    <2>. QED
        BY <1>1, <1>2, <1>3, <2>1, ActionsAre
<1>4. CASE ValidateRaises(m, floor)
    <2>. DEFINE b == SetMinSdk(m, Number(floor))
    <2>1. BumpMinSdk(m, floor) = b
        BY <1>4 DEF BumpMinSdk, ValidateRaises
    <2>2. b \in Seq(Versions) /\ b # << >> /\ b[1] = Number(floor)
        BY <1>1, SetThenFound
    <2>3. ~ValidateRaises(b, floor)
        BY <1>1, <2>2 DEF ValidateRaises, HasVersion, IsBelow
    <2>. QED
        BY <1>1, <1>2, <2>1, <2>2, <2>3, ActionsAre
<1>. QED
    BY <1>3, <1>4

\* Bumping to one floor and then to another is bumping to the higher of the two.
THEOREM BumpsCompose ==
    \A m \in Seq(Versions), f \in Int, g \in Int : BumpsToTheHigher(m, f, g)
<1>. SUFFICES ASSUME NEW m \in Seq(Versions), NEW f \in Int, NEW g \in Int
              PROVE  bump_min_sdk(bump_min_sdk(m, f), g)
                        = bump_min_sdk(m, IF f > g THEN f ELSE g)
    BY DEF BumpsToTheHigher
<1>. DEFINE b == SetMinSdk(m, Number(f))
<1>1. /\ Number(f) \in Versions /\ Number(f).kind = "number" /\ Number(f).n = f
      /\ Number(g) \in Versions /\ Number(g).kind = "number" /\ Number(g).n = g
    BY NumberIsVersion
<1>2. /\ b \in Seq(Versions) /\ b # << >> /\ b[1] = Number(f)
      /\ SetMinSdk(b, Number(g)) = SetMinSdk(m, Number(g))
    BY <1>1, SetThenFound, SetTwice
<1>3. \A h \in Int : bump_min_sdk(m, h) = IF h <= 0 THEN m ELSE BumpMinSdk(m, h)
    BY ActionsAre, <1>1
<1>4. \A h \in Int : bump_min_sdk(b, h) = IF h <= 0 THEN b ELSE BumpMinSdk(b, h)
    BY ActionsAre, <1>1, <1>2
<1>5. CASE f <= 0 \/ g <= 0
    <2>1. bump_min_sdk(m, f) \in {m, b}
        BY <1>3 DEF BumpMinSdk
    <2>. QED
        BY <1>3, <1>4, <1>5, <2>1
<1>6. CASE f > 0 /\ g > 0 /\ ~(~HasVersion(m) \/ IsBelow(m, f))
    <2>1. bump_min_sdk(m, f) = m
        BY <1>3, <1>6 DEF BumpMinSdk
    <2>2. f > g => ~(~HasVersion(m) \/ IsBelow(m, g))
        <3>1. m[1].n \in Int
            BY <1>6, FirstVersion DEF HasVersion
        <3>. QED
            BY <1>6, <3>1 DEF IsBelow
    <2>. QED
        BY <1>3, <1>6, <2>1, <2>2 DEF BumpMinSdk
<1>7. CASE f > 0 /\ g > 0 /\ (~HasVersion(m) \/ IsBelow(m, f))
    <2>1. bump_min_sdk(m, f) = b
        BY <1>3, <1>7 DEF BumpMinSdk
    <2>2. HasVersion(b) /\ (IsBelow(b, g) <=> f < g)
        BY <1>1, <1>2 DEF HasVersion, IsBelow
    <2>3. CASE f < g
        <3>1. ~HasVersion(m) \/ IsBelow(m, g)
            <4>1. CASE ~HasVersion(m)
                BY <4>1
            <4>2. CASE HasVersion(m) /\ IsBelow(m, f)
                <5>1. m[1].n \in Int
                    BY <4>2, FirstVersion DEF HasVersion
                <5>. QED
                    BY <2>3, <4>2, <5>1 DEF IsBelow
            <4>. QED
                BY <1>7, <4>1, <4>2
        <3>. QED
            BY <1>2, <1>3, <1>4, <1>7, <2>1, <2>2, <2>3, <3>1 DEF BumpMinSdk
    <2>4. CASE f >= g
        <3>1. bump_min_sdk(b, g) = b
            BY <1>4, <1>7, <2>2, <2>4 DEF BumpMinSdk
        <3>2. f = g \/ f > g
            BY <2>4
        <3>. QED
            BY <1>3, <1>7, <2>1, <3>1, <3>2
    <2>. QED
        BY <2>3, <2>4
<1>. QED
    BY <1>5, <1>6, <1>7

\* A manifest given a default at or above the floor is refused only for a version of its
\* own, and its own version is kept.
THEOREM DefaultsAreValid ==
    \A m \in Seq(Versions), default \in Versions, floor \in Int :
        DefaultValidates(m, default, floor)
<1>. SUFFICES ASSUME NEW m \in Seq(Versions), NEW default \in Versions, NEW floor \in Int
              PROVE  DefaultValidates(m, default, floor)
    OBVIOUS
<1>. DEFINE d == SetDefaultMinSdk(m, default)
<1>1. set_default_min_sdk(m, default) = d
    BY ActionsAre
<1>2. HasVersion(m) => d = m
    BY DEF SetDefaultMinSdk
<1>3. ASSUME HasVersion(<<default>>), ~IsBelow(<<default>>, floor),
             ~validate_min_sdk(d, floor)
      PROVE  HasVersion(m) /\ IsBelow(m, floor)
    <2>1. default.kind # "none" /\ ~(default.kind = "number" /\ default.n < floor)
        BY <1>3 DEF HasVersion, IsBelow
    <2>2. d \in Seq(Versions)
        BY SetThenFound DEF SetDefaultMinSdk
    <2>3. ValidateRaises(d, floor)
        BY <1>3, <2>2, ActionsAre
    <2>4. CASE HasVersion(m)
        BY <1>2, <2>3, <2>4 DEF ValidateRaises
    <2>5. CASE ~HasVersion(m)
        <3>1. d # << >> /\ d[1] = default
            BY <2>1, <2>5, SetThenFound DEF SetDefaultMinSdk
        <3>. QED
            BY <2>1, <2>3, <3>1 DEF ValidateRaises, HasVersion, IsBelow
    <2>. QED
        BY <2>4, <2>5
<1>. QED
    BY <1>1, <1>2, <1>3 DEF DefaultValidates

-----------------------------------------------------------------------------
(* The variables of the commands keep their types *)

LEMMA CpTypes == FairSpec => []compile!TypeOK
<1>1. CpInv => compile!TypeOK
    BY DEF CpInv
<1>. QED
    BY <1>1, CpInitial, CpSteps, CpInductive, PTL DEF FairSpec

LEMMA LkTypes == FairSpec => []link!TypeOK
<1>1. LkInv => link!TypeOK
    <2>. SUFFICES ASSUME LkInv PROVE link!ToSet(lkArgs) \subseteq link!ToSet(lkCall.seen)
        BY DEF LkInv, link!TypeOK
    <2>1. CASE lkArgs = << >>
        <3>1. DOMAIN lkArgs = {}
            BY <2>1
        <3>. QED
            BY <3>1 DEF link!ToSet
    <2>2. CASE LkFirsts(lkArgs, Len(lkCall.seen))
        <3>1. DOMAIN lkCall.seen = 1..Len(lkCall.seen)
            BY LkCallFacts DEF LkInv, LkCallTyped
        <3>2. \A i \in DOMAIN lkArgs : \E k \in DOMAIN lkCall.seen : lkArgs[i] = lkCall.seen[k]
            BY <2>2, <3>1 DEF LkFirsts
        <3>. QED
            BY <3>2 DEF link!ToSet
    <2>. QED
        BY <2>1, <2>2 DEF LkInv
<1>. QED
    BY <1>1, LkInitial, LkSteps, LkInductive, PTL DEF FairSpec

LEMMA MfTypes == FairSpec => []manifest!TypeOK
BY MfInitial, MfSteps, MfInductive, MfImplies, PTL DEF FairSpec

LEMMA PtTypes == FairSpec => []patch!TypeOK
BY PtInitial, PtSteps, PtInductive, PtImplies, PTL DEF FairSpec

LEMMA SaTypes == FairSpec => []shellapk!TypeOK
BY SaInitial, SaSteps, SaInductive, SaImplies, PTL DEF FairSpec

LEMMA CmdTypes == FairSpec => [](cmd \in Cmds \cup {"none"})
<1>1. Init => cmd \in Cmds \cup {"none"}
    BY DEF Init
<1>2. cmd \in Cmds \cup {"none"} /\ [Next]_vars => (cmd \in Cmds \cup {"none"})'
    BY DEF Next, vars, runCmd, RunFinalrjar, RunGeneratemanifest, RunDex, RunExtractaar,
       RunRepack, RunRjar, RunNativelib, RunShellapk, RunPatch, RunManifest, RunCompile,
       RunLink, RunFlagfile, RunBucketize, RunSession, ArchiveReturns
<1>. QED
    BY <1>1, <1>2, PTL DEF FairSpec

\* Whatever command is run and whatever fails, its variables keep their types: no more is
\* written than was given, what is done is not to do, the keys and the writers of a
\* session are its own, and bucketize has one source file open at most and none when the
\* paths are flushed.
THEOREM TypeCorrect == FairSpec => []TypeOK
<1>1. /\ cmd \in Cmds \cup {"none"}
      /\ finalrjar!TypeOK /\ generatemanifest!TypeOK /\ dex!TypeOK /\ extractaar!TypeOK
      /\ repack!TypeOK /\ rjar!TypeOK /\ nativelib!TypeOK /\ shellapk!TypeOK
      /\ patch!TypeOK /\ manifest!TypeOK /\ compile!TypeOK /\ link!TypeOK
      /\ flagfile!TypeOK /\ bucketize!TypeOK /\ session!TypeOK
      => TypeOK
    BY DEF TypeOK
<1>. QED
    BY <1>1, CmdTypes, FrKeepsTypes, GmTypes, DxTypes, EaTypes, RpTypes, RjTypes, NlTypes,
       SaTypes, PtTypes, MfTypes, CpTypes, LkTypes, FfTypes, BkTypes, PsTypes, PTL
==============================================================================
