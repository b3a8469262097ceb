------------------------------ MODULE Recursion ------------------------------
(***************************************************************************)
(* Induction over the naturals and primitive recursion, stated with sets   *)
(* and functions in place of operators, and facts about sequences.         *)
(***************************************************************************)
EXTENDS Integers, Sequences, WellFoundedInduction, TLAPS

\* A set of naturals that is not empty has a least element.
LEMMA LeastOf ==
    ASSUME NEW T, T \subseteq Nat, T # {}
    PROVE  \E x \in T : \A y \in T : x <= y
<1>. DEFINE R == OpToRel(<, Nat)
<1>1. IsWellFoundedOn(R, Nat)
    BY NatLessThanWellFounded
<1>. HIDE DEF R
<1>2. PICK x \in T : \A y \in T : <<y, x>> \notin R
    BY <1>1, WFMin
<1>3. \A y \in T : y < x => <<y, x>> \in R
    BY DEF R, OpToRel
<1>4. \A y \in T : ~(y < x)
    BY <1>2, <1>3
<1>. QED
    BY <1>4

\* Induction up to n: what holds of 0, and of k + 1 if of k, holds of 0..n.
LEMMA Reaches ==
    ASSUME NEW n \in Nat, NEW T, 0 \in T,
           \A k \in 0..n : k # n /\ k \in T => k + 1 \in T
    PROVE  0..n \subseteq T
<1>. DEFINE U == (0..n) \ T
<1>. SUFFICES ASSUME U # {} PROVE FALSE
    OBVIOUS
<1>1. PICK x \in U : \A y \in U : x <= y
    <2>1. U \subseteq Nat
        OBVIOUS
    <2>. QED
        BY <2>1, LeastOf
<1>2. x # 0 /\ x \in Nat /\ x - 1 \in 0..n /\ x - 1 # n /\ x - 1 \notin U
    BY <1>1
<1>. QED
    BY <1>1, <1>2

\* step gives a value for each number up to n and the value before it.
Steps(n, V, step) == \A k \in 1..n, v \in V : step[<<k, v>>] \in V

\* f has the value v0 at 0, and each later one is what step makes of the one before.
Recursive(f, n, V, v0, step) ==
    /\ f \in [0..n -> V]
    /\ f[0] = v0
    /\ \A k \in 1..n : f[k] = step[<<k, f[k - 1]>>]

\* There is a function for each first value and step.
LEMMA PrimitiveRecursion ==
    ASSUME NEW n \in Nat, NEW V, NEW v0 \in V, NEW step, Steps(n, V, step)
    PROVE  \E f : Recursive(f, n, V, v0, step)
<1>. DEFINE T == {m \in 0..n : \E f : Recursive(f, m, V, v0, step)}
<1>1. 0 \in T
    <2>. DEFINE g == [k \in 0..0 |-> v0]
    <2>1. g \in [0..0 -> V] /\ g[0] = v0
        OBVIOUS
    <2>. HIDE DEF g
    <2>2. Recursive(g, 0, V, v0, step) /\ 0 \in 0..n
        BY <2>1 DEF Recursive
    <2>. QED
        BY <2>2
<1>2. ASSUME NEW m \in 0..n, m # n, m \in T
      PROVE  m + 1 \in T
    <2>1. PICK f : Recursive(f, m, V, v0, step)
        BY <1>2
    <2>. DEFINE w == step[<<m + 1, f[m]>>]
                g == [k \in 0..(m + 1) |-> IF k = m + 1 THEN w ELSE f[k]]
    <2>2. f[m] \in V /\ m + 1 \in 1..n /\ m + 1 \in 0..n
        BY <1>2, <2>1 DEF Recursive
    <2>3. w \in V
        BY <2>2 DEF Steps
    <2>4. w = step[<<m + 1, f[m]>>]
        OBVIOUS
    <2>. HIDE DEF w
    <2>5. g \in [0..(m + 1) -> V] /\ g[0] = v0
        BY <2>1, <2>3 DEF Recursive
    <2>6. ASSUME NEW k \in 1..(m + 1) PROVE g[k] = step[<<k, g[k - 1]>>]
        <3>1. CASE k = m + 1
            <4>1. g[k] = w /\ g[k - 1] = f[m]
                BY <3>1
            <4>. QED
                BY <2>4, <3>1, <4>1
        <3>2. CASE k # m + 1
            <4>1. k \in 1..m /\ k - 1 \in 0..m /\ k \in 0..m
                BY <3>2
            <4>2. g[k] = f[k] /\ g[k - 1] = f[k - 1]
                BY <4>1
            <4>. QED
                BY <2>1, <4>1, <4>2 DEF Recursive
        <3>. QED
            BY <3>1, <3>2
    <2>. HIDE DEF g
    <2>7. Recursive(g, m + 1, V, v0, step)
        BY <2>5, <2>6 DEF Recursive
    <2>. QED
        BY <2>2, <2>7
<1>. HIDE DEF T
<1>3. n \in T
    BY <1>1, <1>2, Reaches
<1>. QED
    BY <1>3 DEF T
-----------------------------------------------------------------------------
(* Sequences *)

\* Behind the first of what is left of s from k + 1 on is what is left from k + 2 on.
LEMMA RestOf ==
    ASSUME NEW V
    PROVE
    \A s \in Seq(V), k \in Nat :
        k + 1 \in DOMAIN s =>
            /\ SubSeq(s, k + 1, Len(s))[1] = s[k + 1]
            /\ Tail(SubSeq(s, k + 1, Len(s))) = SubSeq(s, k + 2, Len(s))
            /\ Len(Tail(SubSeq(s, k + 1, Len(s)))) = Len(s) - (k + 1)
<1>. SUFFICES ASSUME NEW s \in Seq(V), NEW k \in Nat, k + 1 \in DOMAIN s
              PROVE  /\ SubSeq(s, k + 1, Len(s))[1] = s[k + 1]
                     /\ Tail(SubSeq(s, k + 1, Len(s))) = SubSeq(s, k + 2, Len(s))
                     /\ Len(Tail(SubSeq(s, k + 1, Len(s)))) = Len(s) - (k + 1)
    OBVIOUS
<1>. DEFINE rest == SubSeq(s, k + 1, Len(s))
            next == SubSeq(s, k + 2, Len(s))
<1>1. Len(s) \in Nat /\ k + 1 \in 1..Len(s)
    OBVIOUS
<1>2. rest \in Seq(V) /\ Len(rest) = Len(s) - k /\ \A i \in 1..Len(rest) : rest[i] = s[k + i]
    BY <1>1
<1>3. next \in Seq(V) /\ Len(next) = Len(s) - (k + 1) /\ \A i \in 1..Len(next) : next[i] = s[k + 1 + i]
    BY <1>1
<1>. HIDE DEF rest, next
<1>4. Tail(rest) \in Seq(V) /\ Len(Tail(rest)) = Len(next)
      /\ \A i \in 1..Len(next) : Tail(rest)[i] = rest[i + 1]
    BY <1>1, <1>2, <1>3
<1>5. \A i \in 1..Len(next) : Tail(rest)[i] = next[i]
    BY <1>1, <1>2, <1>3, <1>4
<1>6. Tail(rest) = next
    <2>1. Len(Tail(rest)) = Len(next) /\ \A i \in 1..Len(Tail(rest)) : Tail(rest)[i] = next[i]
        BY <1>4, <1>5
    <2>. QED
        BY <1>3, <1>4, <2>1
<1>7. rest[1] = s[k + 1]
    BY <1>1, <1>2
<1>. QED
    BY <1>1, <1>3, <1>6, <1>7 DEF rest, next

\* One sequence behind another.
LEMMA ConcatOfTwo ==
    ASSUME NEW S, NEW s \in Seq(S), NEW t \in Seq(S)
    PROVE  /\ s \o t \in Seq(S) /\ Len(s \o t) = Len(s) + Len(t) /\ DOMAIN (s \o t) = 1..(Len(s) + Len(t))
           /\ \A i \in DOMAIN (s \o t) :
                 IF i <= Len(s) THEN (s \o t)[i] = s[i] ELSE (s \o t)[i] = t[i - Len(s)]
OBVIOUS

\* w is a, b, c and d one behind the other.
IsConcatOfFour(S, a, b, c, d, w) ==
    LET k == Len(a)
        m == k + Len(b)
        n == m + Len(c)
    IN /\ w \in Seq(S) /\ Len(w) = n + Len(d)
       /\ \A i \in DOMAIN w :
             \/ i \in DOMAIN a /\ w[i] = a[i]
             \/ i - k \in DOMAIN b /\ w[i] = b[i - k]
             \/ i - m \in DOMAIN c /\ w[i] = c[i - m]
             \/ i - n \in DOMAIN d /\ w[i] = d[i - n]
       /\ \A i \in DOMAIN a : i \in DOMAIN w /\ w[i] = a[i]
       /\ \A i \in DOMAIN b : k + i \in DOMAIN w /\ w[k + i] = b[i]
       /\ \A i \in DOMAIN c : m + i \in DOMAIN w /\ w[m + i] = c[i]
       /\ \A i \in DOMAIN d : n + i \in DOMAIN w /\ w[n + i] = d[i]

\* What the concatenation of four sequences holds, part by part.
LEMMA ConcatOfFour ==
    ASSUME NEW S, NEW a \in Seq(S), NEW b \in Seq(S), NEW c \in Seq(S), NEW d \in Seq(S)
    PROVE  IsConcatOfFour(S, a, b, c, d, a \o b \o c \o d)
<1>. DEFINE k == Len(a)
            m == k + Len(b)
            n == m + Len(c)
            ab == a \o b
            abc == ab \o c
            w == abc \o d
<1>1. /\ k \in Nat /\ Len(b) \in Nat /\ Len(c) \in Nat /\ Len(d) \in Nat
      /\ DOMAIN a = 1..k /\ DOMAIN b = 1..Len(b) /\ DOMAIN c = 1..Len(c) /\ DOMAIN d = 1..Len(d)
    OBVIOUS
<1>5. w = a \o b \o c \o d
    OBVIOUS
<1>2. /\ ab \in Seq(S) /\ Len(ab) = m /\ DOMAIN ab = 1..m
      /\ \A i \in DOMAIN ab : IF i <= k THEN ab[i] = a[i] ELSE ab[i] = b[i - k]
    BY ConcatOfTwo
<1>. HIDE DEF ab, m
<1>3. /\ abc \in Seq(S) /\ Len(abc) = n /\ DOMAIN abc = 1..n
      /\ \A i \in DOMAIN abc : IF i <= m THEN abc[i] = ab[i] ELSE abc[i] = c[i - m]
    BY <1>2, ConcatOfTwo
<1>. HIDE DEF abc, n
<1>4. /\ w \in Seq(S) /\ Len(w) = n + Len(d) /\ DOMAIN w = 1..(n + Len(d))
      /\ \A i \in DOMAIN w : IF i <= n THEN w[i] = abc[i] ELSE w[i] = d[i - n]
    BY <1>3, ConcatOfTwo
<1>. HIDE DEF w, k
<1>11. m = k + Len(b) /\ n = m + Len(c) /\ m \in Nat /\ n \in Nat
    BY <1>1 DEF m, n
<1>6. ASSUME NEW i \in DOMAIN w
      PROVE  \/ i \in DOMAIN a /\ w[i] = a[i]
             \/ i - k \in DOMAIN b /\ w[i] = b[i - k]
             \/ i - m \in DOMAIN c /\ w[i] = c[i - m]
             \/ i - n \in DOMAIN d /\ w[i] = d[i - n]
    <2>0. i \in 1..(n + Len(d))
        BY <1>4
    <2>1. CASE i > n
        <3>1. i - n \in 1..Len(d) /\ ~(i <= n)
            BY <1>1, <1>11, <2>0, <2>1
        <3>. QED
            BY <1>1, <1>4, <3>1
    <2>2. CASE i <= n /\ i > m
        <3>1. i \in 1..n /\ i - m \in 1..Len(c) /\ ~(i <= m)
            BY <1>1, <1>11, <2>0, <2>2
        <3>. QED
            BY <1>1, <1>3, <1>4, <2>2, <3>1
    <2>3. CASE i <= m /\ i > k
        <3>1. i \in 1..m /\ i \in 1..n /\ i <= n /\ i - k \in 1..Len(b) /\ ~(i <= k)
            BY <1>1, <1>11, <2>0, <2>3
        <3>. QED
            BY <1>1, <1>2, <1>3, <1>4, <2>3, <3>1
    <2>4. CASE i <= k
        <3>1. i \in 1..k /\ i \in 1..m /\ i <= m /\ i \in 1..n /\ i <= n
            BY <1>1, <1>11, <2>0, <2>4
        <3>. QED
            BY <1>1, <1>2, <1>3, <1>4, <2>4, <3>1
    <2>5. i \in Int /\ k \in Int /\ m \in Int /\ n \in Int
        BY <1>1, <1>11, <2>0
    <2>. QED
        BY <2>1, <2>2, <2>3, <2>4, <2>5
<1>7. ASSUME NEW i \in DOMAIN a PROVE i \in DOMAIN w /\ w[i] = a[i]
    <2>1. i \in 1..k /\ i \in 1..m /\ i \in 1..n /\ i \in 1..(n + Len(d))
        BY <1>1, <1>11
    <2>2. w[i] = abc[i] /\ abc[i] = ab[i] /\ ab[i] = a[i]
        BY <1>1, <1>2, <1>3, <1>4, <1>11, <2>1
    <2>. QED
        BY <1>4, <2>1, <2>2
<1>8. ASSUME NEW i \in DOMAIN b PROVE k + i \in DOMAIN w /\ w[k + i] = b[i]
    <2>1. /\ k + i \in 1..m /\ k + i \in 1..n /\ k + i \in 1..(n + Len(d))
          /\ ~(k + i <= k) /\ (k + i) - k = i
        BY <1>1, <1>11
    <2>2. w[k + i] = abc[k + i] /\ abc[k + i] = ab[k + i] /\ ab[k + i] = b[i]
        BY <1>1, <1>2, <1>3, <1>4, <1>11, <2>1
    <2>. QED
        BY <1>4, <2>1, <2>2
<1>9. ASSUME NEW i \in DOMAIN c PROVE m + i \in DOMAIN w /\ w[m + i] = c[i]
    <2>1. /\ m + i \in 1..n /\ m + i \in 1..(n + Len(d))
          /\ ~(m + i <= m) /\ (m + i) - m = i
        BY <1>1, <1>11
    <2>2. w[m + i] = abc[m + i] /\ abc[m + i] = c[i]
        BY <1>1, <1>3, <1>4, <1>11, <2>1
    <2>. QED
        BY <1>4, <2>1, <2>2
<1>10. ASSUME NEW i \in DOMAIN d PROVE n + i \in DOMAIN w /\ w[n + i] = d[i]
    <2>1. n + i \in 1..(n + Len(d)) /\ ~(n + i <= n) /\ (n + i) - n = i
        BY <1>1, <1>11
    <2>. QED
        BY <1>4, <2>1
<1>12. IsConcatOfFour(S, a, b, c, d, w)
    BY <1>4, <1>6, <1>7, <1>8, <1>9, <1>10 DEF k, m, n, IsConcatOfFour
<1>. QED
    BY <1>5, <1>12

\* A list of three files and two optional ones, as ShellApk's OwnFiles is.
ListOf(a, b, c, d, e, p, q) ==
    <<a, b, c>> \o (IF p THEN <<d>> ELSE << >>) \o (IF q THEN <<e>> ELSE << >>)

\* s starts with a and holds only members of rest after it.
StartsWith(s, a, rest) ==
    /\ s \in Seq({a} \cup rest) /\ 1 \in DOMAIN s /\ s[1] = a
    /\ \A i \in DOMAIN s : i > 1 => s[i] \in rest

\* Such a list starts with its first file, whichever of the optional ones it has.
LEMMA ListOfFive ==
    ASSUME NEW a, NEW b, NEW c, NEW d, NEW e, NEW p \in BOOLEAN, NEW q \in BOOLEAN
    PROVE  StartsWith(ListOf(a, b, c, d, e, p, q), a, {b, c, d, e})
<1>. DEFINE S == {a, b, c, d, e}
            x == <<a, b, c>>
            y == IF p THEN <<d>> ELSE << >>
            z == IF q THEN <<e>> ELSE << >>
            xy == x \o y
            s == ListOf(a, b, c, d, e, p, q)
<1>1. x \in Seq(S) /\ Len(x) = 3 /\ x[1] = a /\ x[2] = b /\ x[3] = c
    OBVIOUS
<1>2. y \in Seq(S) /\ (Len(y) = 0 \/ (Len(y) = 1 /\ y[1] = d))
    <2>1. CASE p
        <3>1. y = <<d>>
            BY <2>1
        <3>. HIDE DEF y
        <3>. QED
            BY <3>1
    <2>2. CASE ~p
        <3>1. y = << >>
            BY <2>2
        <3>. HIDE DEF y
        <3>. QED
            BY <3>1
    <2>. QED
        BY <2>1, <2>2
<1>3. z \in Seq(S) /\ (Len(z) = 0 \/ (Len(z) = 1 /\ z[1] = e))
    <2>1. CASE q
        <3>1. z = <<e>>
            BY <2>1
        <3>. HIDE DEF z
        <3>. QED
            BY <3>1
    <2>2. CASE ~q
        <3>1. z = << >>
            BY <2>2
        <3>. HIDE DEF z
        <3>. QED
            BY <3>1
    <2>. QED
        BY <2>1, <2>2
<1>4. s = xy \o z
    BY DEF ListOf
<1>. HIDE DEF x, y, z, S, s
<1>5. /\ xy \in Seq(S) /\ Len(xy) = 3 + Len(y) /\ xy[1] = a /\ xy[2] = b /\ xy[3] = c
      /\ Len(y) = 1 => xy[4] = d
    <2>1. /\ xy \in Seq(S) /\ Len(xy) = Len(x) + Len(y) /\ DOMAIN xy = 1..(Len(x) + Len(y))
          /\ \A i \in DOMAIN xy : IF i <= Len(x) THEN xy[i] = x[i] ELSE xy[i] = y[i - Len(x)]
        BY <1>1, <1>2, ConcatOfTwo
    <2>. HIDE DEF xy
    <2>2. 1 \in DOMAIN xy /\ 2 \in DOMAIN xy /\ 3 \in DOMAIN xy /\ (Len(y) = 1 => 4 \in DOMAIN xy)
        BY <1>1, <1>2, <2>1
    <2>3. Len(y) = 1 => xy[4] = d
        <3>1. 4 - 3 = 1 /\ ~(4 <= 3)
            OBVIOUS
        <3>. QED
            BY <1>1, <1>2, <2>1, <2>2, <3>1
    <2>. QED
        BY <1>1, <1>2, <2>1, <2>2, <2>3
<1>. HIDE DEF xy
<1>6. /\ s \in Seq(S) /\ Len(s) = Len(xy) + Len(z) /\ DOMAIN s = 1..Len(s)
      /\ \A i \in DOMAIN s : IF i <= Len(xy) THEN s[i] = xy[i] ELSE s[i] = z[i - Len(xy)]
    BY <1>3, <1>4, <1>5, ConcatOfTwo
<1>7. 1 \in DOMAIN s /\ s[1] = a
    BY <1>2, <1>3, <1>5, <1>6
<1>8. \A i \in DOMAIN s : i > 1 => s[i] \in {b, c, d, e}
    <2>. SUFFICES ASSUME NEW i \in DOMAIN s, i > 1 PROVE s[i] \in {b, c, d, e}
        OBVIOUS
    <2>3. i \in Nat /\ i > 1
        BY <1>6
    <2>1. CASE i <= Len(xy)
        <3>1. i \in Nat
            BY <1>6
        <3>. DEFINE R == i = 2 \/ i = 3 \/ (i = 4 /\ Len(y) = 1)
        <3>2. ASSUME Len(y) = 0 PROVE R
            <4>1. Len(xy) = 3
                BY <1>5, <3>2
            <4>. QED
                BY <2>1, <3>1, <4>1
        <3>3. ASSUME Len(y) = 1 PROVE R
            <4>1. Len(xy) = 4
                BY <1>5, <3>3
            <4>. QED
                BY <2>1, <3>1, <3>3, <4>1
        <3>4. R
            BY <1>2, <3>2, <3>3
        <3>. QED
            BY <1>5, <1>6, <2>1, <3>4
    <2>2. CASE i > Len(xy)
        <3>1. Len(z) = 1 /\ i - Len(xy) = 1
            BY <1>2, <1>3, <1>5, <1>6, <2>2
        <3>. QED
            BY <1>2, <1>3, <1>5, <1>6, <2>2, <3>1
    <2>. QED
        BY <1>2, <1>5, <1>6, <2>1, <2>2
<1>9. S = {a} \cup {b, c, d, e}
    BY DEF S
<1>. QED
    BY <1>6, <1>7, <1>8, <1>9 DEF StartsWith, s
=============================================================================
