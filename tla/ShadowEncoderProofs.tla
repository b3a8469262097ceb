------------------------- MODULE ShadowEncoderProofs -------------------------
(***************************************************************************)
(* The shadow encoder and the child encoder write names that an XML        *)
(* decoder resolves as the decoder of the document did, and unwind what    *)
(* each tag declared, for every document with well-formed namespaces; that *)
(* a name is resolved needs one prefix for its own URI.                    *)
(*                                                                         *)
(* The state of an encoder is its maps and the entries to unwind: Uri is   *)
(* the URI of each prefix, Held the prefixes of each URI.  What the two    *)
(* were at each of the entries is a function of the state (History).  The  *)
(* invariant IInv has                                                      *)
(*   - Shadow: wherever the shadow encoder can be unwound to, the prefixes *)
(*     that <resources> declares are known (Sure);                         *)
(*   - Copied: the child encoder has a stretch of entries for each tag     *)
(*     open in the payload, and wherever it can be unwound to, the         *)
(*     prefixes of the tags that are open there are known;                 *)
(*   - Children: the tags of a declare-styleable, which the shadow encoder *)
(*     is given again, have prefixes that they declare or it knows;        *)
(*   - Plain: the shadow encoder has entries without a Space alone, as     *)
(*     long as no tag beneath <resources> has a prefix.                    *)
(***************************************************************************)
EXTENDS ShadowEncoder, Recursion, SequenceTheorems

\* A map of prefixes to URIs that belong to them.
Maps == {f \in UNION {[S -> KnownURIs] : S \in SUBSET KnownPrefixes} :
            \A p \in DOMAIN f : <<p, f[p]>> \in Decls}

\* A map of URIs to an empty prefix and those that belong to them.
Ups == {g \in UNION {[S -> Seq(KnownPrefixes \cup {Absent})] : S \in SUBSET KnownURIs} :
           \A u \in DOMAIN g : /\ Len(g[u]) >= 1 /\ g[u][1] = Absent
                               /\ \A i \in 2..Len(g[u]) : <<g[u][i], u>> \in Decls}

Names == [local : {"resources", "tag", "child", "inner"},
          space : KnownURIs \cup KnownPrefixes \cup {Absent}]
Entries == [kind : {"element"}, name : Names]
           \cup [kind : {"xmlns"}, prefix : KnownPrefixes, uri : KnownURIs \cup {Absent}]

\* The encoders whose state is not corrupt.
Encoders == [prefixURI : Maps, up : Ups, state : Seq(Entries), fatal : {FALSE}]

UriMaps == {u \in [KnownPrefixes -> KnownURIs \cup {Absent}] :
               \A p \in KnownPrefixes : u[p] = Absent \/ <<p, u[p]>> \in Decls}

\* The prefixes of a URI, the empty one first.
Stacks == {s \in Seq(KnownPrefixes \cup {Absent}) : Len(s) >= 1}

\* The URI of each prefix, and the prefixes of each URI.
Uri(enc) == [p \in KnownPrefixes |-> URIOf(enc, p)]
Held(enc) == [u \in KnownURIs |-> IF u \in DOMAIN enc.up THEN enc.up[u] ELSE <<Absent>>]

LEMMA DeclFacts ==
    ASSUME NEW d \in Decls
    PROVE  /\ d = <<d[1], d[2]>> /\ d[1] \in KnownPrefixes /\ d[2] \in KnownURIs
<1>1. PICK ds \in ResourcesDecls \cup TagDecls : d \in Range(ds)
    BY DEF Decls
<1>2. ds \in Seq(STRING \X STRING)
    BY DeclsAssumption
<1>3. d \in STRING \X STRING
    BY <1>1, <1>2 DEF Range
<1>. QED
    BY <1>3, DeclsAssumption DEF KnownPrefixes, KnownURIs

LEMMA Distinct ==
    /\ Absent \notin KnownPrefixes /\ Unknown \notin KnownPrefixes
    /\ Absent \notin KnownURIs /\ Unbound \notin KnownURIs
    /\ \A p \in KnownPrefixes : p \notin KnownURIs
BY DeclsAssumption

LEMMA DeclsOf ==
    ASSUME NEW ds \in ResourcesDecls \cup TagDecls
    PROVE  /\ ds \in Seq(Decls) /\ Len(ds) \in Nat /\ DOMAIN ds = 1..Len(ds)
           /\ \A k \in 1..Len(ds) : ds[k] \in Decls
<1>1. ds \in Seq(STRING \X STRING)
    BY DeclsAssumption
<1>2. \A k \in 1..Len(ds) : ds[k] \in Decls
    BY <1>1 DEF Decls, Range
<1>. QED
    BY <1>1, <1>2

LEMMA InMaps ==
    ASSUME NEW f, f = [p \in DOMAIN f |-> f[p]], DOMAIN f \subseteq KnownPrefixes,
           \A p \in DOMAIN f : <<p, f[p]>> \in Decls
    PROVE  f \in Maps
<1>1. ASSUME NEW p \in DOMAIN f PROVE f[p] \in KnownURIs
    BY DeclFacts
<1>2. f \in [DOMAIN f -> KnownURIs]
    BY <1>1
<1>3. f \in UNION {[S -> KnownURIs] : S \in SUBSET KnownPrefixes}
    BY <1>2
<1>. QED
    BY <1>3 DEF Maps

LEMMA MapFacts ==
    ASSUME NEW f \in Maps
    PROVE  /\ f = [p \in DOMAIN f |-> f[p]] /\ DOMAIN f \subseteq KnownPrefixes
           /\ \A p \in DOMAIN f : <<p, f[p]>> \in Decls /\ f[p] \in KnownURIs
<1>1. PICK S \in SUBSET KnownPrefixes : f \in [S -> KnownURIs]
    BY DEF Maps
<1>. QED
    BY <1>1 DEF Maps

LEMMA InUps ==
    ASSUME NEW g, g = [u \in DOMAIN g |-> g[u]], DOMAIN g \subseteq KnownURIs,
           \A u \in DOMAIN g : /\ g[u] \in Seq(KnownPrefixes \cup {Absent})
                               /\ Len(g[u]) >= 1 /\ g[u][1] = Absent
                               /\ \A i \in 2..Len(g[u]) : <<g[u][i], u>> \in Decls
    PROVE  g \in Ups
<1>1. g \in [DOMAIN g -> Seq(KnownPrefixes \cup {Absent})]
    OBVIOUS
<1>2. g \in UNION {[S -> Seq(KnownPrefixes \cup {Absent})] : S \in SUBSET KnownURIs}
    BY <1>1
<1>. QED
    BY <1>2 DEF Ups

LEMMA UpFacts ==
    ASSUME NEW g \in Ups
    PROVE  /\ g = [u \in DOMAIN g |-> g[u]] /\ DOMAIN g \subseteq KnownURIs
           /\ \A u \in DOMAIN g : /\ g[u] \in Seq(KnownPrefixes \cup {Absent})
                                  /\ Len(g[u]) \in Nat /\ DOMAIN g[u] = 1..Len(g[u])
                                  /\ Len(g[u]) >= 1 /\ g[u][1] = Absent
                                  /\ \A i \in 2..Len(g[u]) : <<g[u][i], u>> \in Decls
<1>1. PICK S \in SUBSET KnownURIs : g \in [S -> Seq(KnownPrefixes \cup {Absent})]
    BY DEF Ups
<1>2. g = [u \in DOMAIN g |-> g[u]] /\ DOMAIN g = S
      /\ \A u \in S : g[u] \in Seq(KnownPrefixes \cup {Absent})
    BY <1>1
<1>. QED
    BY <1>2 DEF Ups

LEMMA EncoderFacts ==
    ASSUME NEW enc \in Encoders
    PROVE  /\ enc.prefixURI \in Maps /\ enc.up \in Ups /\ enc.state \in Seq(Entries)
           /\ ~enc.fatal /\ Len(enc.state) \in Nat /\ DOMAIN enc.state = 1..Len(enc.state)
           /\ Uri(enc) \in [KnownPrefixes -> KnownURIs \cup {Absent}]
           /\ Uri(enc) \in UriMaps /\ Held(enc) \in [KnownURIs -> Stacks]
           /\ \A p \in KnownPrefixes :
                 \/ Uri(enc)[p] = Absent /\ p \notin DOMAIN enc.prefixURI
                 \/ p \in DOMAIN enc.prefixURI /\ <<p, Uri(enc)[p]>> \in Decls
<1>1. enc.prefixURI \in Maps /\ enc.up \in Ups /\ enc.state \in Seq(Entries) /\ ~enc.fatal
    BY DEF Encoders
<1>2. \A u \in DOMAIN enc.up : enc.up[u] \in Stacks
    BY <1>1, UpFacts DEF Stacks
<1>3. \A p \in KnownPrefixes : p \in DOMAIN enc.prefixURI =>
          <<p, enc.prefixURI[p]>> \in Decls /\ enc.prefixURI[p] \in KnownURIs
    BY <1>1, MapFacts
<1>4. \A p \in KnownPrefixes :
          Uri(enc)[p] = (IF p \in DOMAIN enc.prefixURI THEN enc.prefixURI[p] ELSE Absent)
    BY DEF Uri, URIOf
<1>5. Uri(enc) \in [KnownPrefixes -> KnownURIs \cup {Absent}]
    BY <1>3 DEF Uri, URIOf
<1>6. Held(enc) \in [KnownURIs -> Stacks]
    <2>1. <<Absent>> \in Stacks
        BY DEF Stacks
    <2>. QED
        BY <1>2, <2>1 DEF Held
<1>7. Uri(enc) \in UriMaps
    BY <1>3, <1>4, <1>5 DEF UriMaps
<1>. QED
    BY <1>1, <1>3, <1>4, <1>5, <1>6, <1>7

-----------------------------------------------------------------------------
(* One declaration, and its way back *)

LEMMA AppendIs ==
    ASSUME NEW S, NEW s \in Seq(S), NEW x \in S
    PROVE  /\ Append(s, x) \in Seq(S) /\ Len(Append(s, x)) = Len(s) + 1
           /\ Append(s, x)[Len(s) + 1] = x
           /\ \A k \in 1..Len(s) : Append(s, x)[k] = s[k]
OBVIOUS

LEMMA PutIs ==
    ASSUME NEW up \in Ups, NEW d \in Decls
    PROVE  LET g == put(up, d[2], d[1])
           IN /\ g \in Ups /\ DOMAIN g = DOMAIN up \cup {d[2]}
              /\ \A u \in DOMAIN up : u # d[2] => g[u] = up[u]
              /\ g[d[2]] = Append(IF d[2] \in DOMAIN up THEN up[d[2]] ELSE <<Absent>>, d[1])
<1>. DEFINE p == d[1]
            u == d[2]
            g == put(up, u, p)
<1>1. p \in KnownPrefixes /\ u \in KnownURIs /\ <<p, u>> \in Decls
    BY DeclFacts
<1>2. /\ up = [v \in DOMAIN up |-> up[v]] /\ DOMAIN up \subseteq KnownURIs
      /\ \A v \in DOMAIN up : /\ up[v] \in Seq(KnownPrefixes \cup {Absent})
                              /\ Len(up[v]) \in Nat /\ DOMAIN up[v] = 1..Len(up[v])
                              /\ Len(up[v]) >= 1 /\ up[v][1] = Absent
                              /\ \A i \in 2..Len(up[v]) : <<up[v][i], v>> \in Decls
    BY UpFacts
<1>. HIDE DEF p, u
<1>3. CASE u \in DOMAIN up
    <2>. DEFINE s == Append(up[u], p)
    <2>1. g = [up EXCEPT ![u] = s]
        BY <1>3 DEF put
    <2>2. DOMAIN g = DOMAIN up /\ g[u] = s /\ (\A v \in DOMAIN up : v # u => g[v] = up[v])
          /\ g = [v \in DOMAIN g |-> g[v]]
        BY <1>2, <1>3, <2>1
    <2>3. /\ s \in Seq(KnownPrefixes \cup {Absent}) /\ Len(s) = Len(up[u]) + 1 /\ s[1] = Absent
          /\ \A i \in 1..Len(up[u]) : s[i] = up[u][i]
          /\ s[Len(up[u]) + 1] = p
        BY <1>1, <1>2, <1>3
    <2>. HIDE DEF s, g
    <2>4. \A i \in 2..Len(s) : <<s[i], u>> \in Decls
        <3>1. \A i \in 2..Len(s) :
                  i # Len(up[u]) + 1 => i \in 2..Len(up[u]) /\ i \in 1..Len(up[u])
            BY <1>2, <1>3, <2>3
        <3>. QED
            BY <1>1, <1>2, <1>3, <2>3, <3>1
    <2>5. ASSUME NEW v \in DOMAIN g
          PROVE  /\ g[v] \in Seq(KnownPrefixes \cup {Absent})
                 /\ Len(g[v]) >= 1 /\ g[v][1] = Absent
                 /\ \A i \in 2..Len(g[v]) : <<g[v][i], v>> \in Decls
        <3>1. CASE v = u
            <4>1. Len(s) >= 1
                BY <1>2, <1>3, <2>3
            <4>. QED
                BY <3>1, <2>2, <2>3, <2>4, <4>1
        <3>2. CASE v # u
            BY <3>2, <2>2, <1>2
        <3>. QED
            BY <3>1, <3>2
    <2>6. g \in Ups
        BY <1>2, <2>2, <2>5, InUps
    <2>7. g[u] = Append(up[u], p)
        BY <2>2 DEF s
    <2>. QED
        BY <1>3, <2>2, <2>6, <2>7 DEF g, u, p
<1>4. CASE u \notin DOMAIN up
    <2>. DEFINE s == <<Absent, p>>
    <2>1. g = Bind(up, u, s)
        BY <1>4 DEF put
    <2>2. /\ DOMAIN g = DOMAIN up \cup {u} /\ g[u] = s
          /\ (\A v \in DOMAIN up : g[v] = up[v]) /\ g = [v \in DOMAIN g |-> g[v]]
        BY <1>4, <2>1 DEF Bind
    <2>3. s \in Seq(KnownPrefixes \cup {Absent}) /\ Len(s) = 2 /\ s[1] = Absent /\ s[2] = p
        BY <1>1
    <2>. HIDE DEF s, g
    <2>4. \A i \in 2..Len(s) : <<s[i], u>> \in Decls
        BY <1>1, <2>3
    <2>5. ASSUME NEW v \in DOMAIN g
          PROVE  /\ g[v] \in Seq(KnownPrefixes \cup {Absent})
                 /\ Len(g[v]) >= 1 /\ g[v][1] = Absent
                 /\ \A i \in 2..Len(g[v]) : <<g[v][i], v>> \in Decls
        <3>1. CASE v = u
            BY <3>1, <2>2, <2>3, <2>4
        <3>2. CASE v # u
            BY <3>2, <2>2, <1>2
        <3>. QED
            BY <3>1, <3>2
    <2>6. g \in Ups
        BY <1>1, <1>2, <2>2, <2>5, InUps
    <2>7. g[u] = Append(<<Absent>>, p)
        <3>. DEFINE a == <<Absent>>
                    b == Append(a, p)
        <3>2. a \in Seq(KnownPrefixes \cup {Absent}) /\ Len(a) = 1 /\ a[1] = Absent
            OBVIOUS
        <3>. HIDE DEF a
        <3>3. b \in Seq(KnownPrefixes \cup {Absent}) /\ Len(b) = 2 /\ b[2] = p /\ b[1] = Absent
            <4>. DEFINE S == KnownPrefixes \cup {Absent}
            <4>2. a \in Seq(S) /\ p \in S
                BY <1>1, <3>2
            <4>. HIDE DEF S
            <4>3. /\ Append(a, p) \in Seq(S) /\ Len(Append(a, p)) = Len(a) + 1
                  /\ Append(a, p)[Len(a) + 1] = p /\ \A k \in 1..Len(a) : Append(a, p)[k] = a[k]
                BY ONLY <4>2, AppendIs
            <4>1. /\ b \in Seq(KnownPrefixes \cup {Absent}) /\ Len(b) = Len(a) + 1
                  /\ b[Len(a) + 1] = p /\ \A k \in 1..Len(a) : b[k] = a[k]
                BY <4>3 DEF S
            <4>. HIDE DEF b
            <4>. QED
                BY <3>2, <4>1
        <3>. HIDE DEF b
        <3>1. b = s
            BY <2>3, <3>3
        <3>. QED
            BY <2>2, <3>1 DEF a, b
    <2>. QED
        BY <1>4, <2>2, <2>6, <2>7 DEF g, u, p
<1>. QED
    BY <1>3, <1>4

LEMMA BindIs ==
    ASSUME NEW f \in Maps, NEW d \in Decls
    PROVE  LET g == Bind(f, d[1], d[2])
           IN /\ g \in Maps /\ DOMAIN g = DOMAIN f \cup {d[1]} /\ g[d[1]] = d[2]
              /\ \A q \in DOMAIN f : q # d[1] => g[q] = f[q]
<1>. DEFINE p == d[1]
            u == d[2]
            g == Bind(f, p, u)
<1>1. p \in KnownPrefixes /\ <<p, u>> \in Decls
    BY DeclFacts
<1>2. f = [q \in DOMAIN f |-> f[q]] /\ DOMAIN f \subseteq KnownPrefixes
      /\ \A q \in DOMAIN f : <<q, f[q]>> \in Decls
    BY MapFacts
<1>3. /\ DOMAIN g = DOMAIN f \cup {p} /\ g[p] = u /\ g = [q \in DOMAIN g |-> g[q]]
      /\ \A q \in DOMAIN f : q # p => g[q] = f[q]
    BY DEF Bind
<1>. HIDE DEF g, p, u
<1>4. \A q \in DOMAIN g : <<q, g[q]>> \in Decls
    BY <1>1, <1>2, <1>3
<1>5. g \in Maps
    BY <1>1, <1>2, <1>3, <1>4, InMaps
<1>. QED
    BY <1>3, <1>5 DEF g, p, u

\* The prefix of a declaration is kept with its URI, and what it hides for the way back.
LEMMA DeclareIs ==
    ASSUME NEW enc \in Encoders, NEW d \in Decls
    PROVE  LET e == Declare(enc, d)
           IN /\ e \in Encoders
              /\ e.state = Append(enc.state, Xmlns(d[1], Uri(enc)[d[1]]))
              /\ Uri(e) = [Uri(enc) EXCEPT ![d[1]] = d[2]]
              /\ Held(e) = [Held(enc) EXCEPT ![d[2]] = Append(@, d[1])]
<1>. DEFINE p == d[1]
            u == d[2]
            f == enc.prefixURI
            g == enc.up
            f2 == Bind(f, p, u)
            g2 == put(g, u, p)
            x == Xmlns(p, Uri(enc)[p])
            e == Declare(enc, d)
<1>1. p \in KnownPrefixes /\ u \in KnownURIs /\ <<p, u>> \in Decls
    BY DeclFacts
<1>2. /\ f \in Maps /\ g \in Ups /\ enc.state \in Seq(Entries) /\ ~enc.fatal
      /\ Uri(enc) \in [KnownPrefixes -> KnownURIs \cup {Absent}]
      /\ Held(enc) \in [KnownURIs -> Stacks]
    BY EncoderFacts
<1>3. e = [prefixURI |-> f2, up |-> g2, state |-> Append(enc.state, x), fatal |-> FALSE]
    <2>1. Uri(enc)[p] = URIOf(enc, p)
        BY <1>1 DEF Uri
    <2>2. e = [enc EXCEPT !.state = Append(@, x), !.prefixURI = Bind(@, p, u), !.up = put(@, u, p)]
        BY <2>1 DEF Declare
    <2>. HIDE DEF x, e, p, u
    <2>. QED
        BY <1>2, <2>2 DEF Encoders
<1>4. f2 \in Maps /\ DOMAIN f2 = DOMAIN f \cup {p} /\ f2[p] = u
      /\ \A q \in DOMAIN f : q # p => f2[q] = f[q]
    BY <1>2, BindIs
<1>5. x \in Entries
    BY <1>1, <1>2 DEF Entries, Xmlns
<1>6. g2 \in Ups /\ DOMAIN g2 = DOMAIN g \cup {u} /\ (\A v \in DOMAIN g : v # u => g2[v] = g[v])
      /\ g2[u] = Append(IF u \in DOMAIN g THEN g[u] ELSE <<Absent>>, p)
    BY <1>2, PutIs
<1>. HIDE DEF p, u, f, g, f2, g2, x, e
<1>7. e \in Encoders
    BY <1>2, <1>3, <1>4, <1>5, <1>6 DEF Encoders
<1>8. Uri(e) = [Uri(enc) EXCEPT ![p] = u]
    <2>1. ASSUME NEW q \in KnownPrefixes
          PROVE  Uri(e)[q] = (IF q = p THEN u ELSE Uri(enc)[q])
        BY <1>1, <1>3, <1>4 DEF Uri, URIOf, f
    <2>2. Uri(e) = [q \in KnownPrefixes |-> Uri(e)[q]]
        BY DEF Uri
    <2>. HIDE DEF f
    <2>. QED
        BY <1>1, <1>2, <2>1, <2>2
<1>9. Held(e) = [Held(enc) EXCEPT ![u] = Append(@, p)]
    <2>1. ASSUME NEW v \in KnownURIs
          PROVE  Held(e)[v] = (IF v = u THEN Append(Held(enc)[v], p) ELSE Held(enc)[v])
        <3>1. /\ Held(e)[v] = IF v \in DOMAIN g2 THEN g2[v] ELSE <<Absent>>
              /\ Held(enc)[v] = IF v \in DOMAIN g THEN g[v] ELSE <<Absent>>
            BY <1>3 DEF Held, g
        <3>2. CASE v = u
            BY <3>1, <3>2, <1>6
        <3>3. CASE v # u
            <4>1. v \in DOMAIN g2 <=> v \in DOMAIN g
                BY <3>3, <1>6
            <4>2. v \in DOMAIN g => g2[v] = g[v]
                BY <3>3, <1>6
            <4>. QED
                BY <3>1, <3>3, <4>1, <4>2
        <3>. QED
            BY <3>2, <3>3
    <2>2. Held(e) = [v \in KnownURIs |-> Held(e)[v]]
        BY DEF Held
    <2>. QED
        BY <1>1, <1>2, <2>1, <2>2
<1>. QED
    BY <1>3, <1>7, <1>8, <1>9 DEF e, p, u, x

LEMMA RemoveIs ==
    ASSUME NEW up \in Ups, NEW u \in DOMAIN up, Len(up[u]) >= 2
    PROVE  LET g == removeLast(up, u)
           IN /\ g \in Ups /\ DOMAIN g = DOMAIN up
              /\ \A v \in DOMAIN up : v # u => g[v] = up[v]
              /\ g[u] = Front(up[u])
              /\ <<getLast(up, u), u>> \in Decls
<1>. DEFINE g == removeLast(up, u)
            s == Front(up[u])
<1>1. /\ up = [v \in DOMAIN up |-> up[v]] /\ DOMAIN up \subseteq KnownURIs
      /\ \A v \in DOMAIN up : /\ up[v] \in Seq(KnownPrefixes \cup {Absent})
                              /\ Len(up[v]) \in Nat /\ DOMAIN up[v] = 1..Len(up[v])
                              /\ Len(up[v]) >= 1 /\ up[v][1] = Absent
                              /\ \A i \in 2..Len(up[v]) : <<up[v][i], v>> \in Decls
    BY UpFacts
<1>2. g = [up EXCEPT ![u] = s]
    BY <1>1 DEF removeLast
<1>3. /\ s \in Seq(KnownPrefixes \cup {Absent}) /\ Len(s) = Len(up[u]) - 1
      /\ \A i \in 1..(Len(up[u]) - 1) : s[i] = up[u][i]
    BY <1>1 DEF Front
<1>4. DOMAIN g = DOMAIN up /\ g[u] = s /\ (\A v \in DOMAIN up : v # u => g[v] = up[v])
      /\ g = [v \in DOMAIN g |-> g[v]]
    BY <1>1, <1>2
<1>. HIDE DEF g, s
<1>5. \A i \in 1..Len(s) : i \in 1..Len(up[u]) /\ (i >= 2 => i \in 2..Len(up[u]))
    BY <1>1, <1>3
<1>6. ASSUME NEW v \in DOMAIN g
      PROVE  /\ g[v] \in Seq(KnownPrefixes \cup {Absent})
             /\ Len(g[v]) >= 1 /\ g[v][1] = Absent
             /\ \A i \in 2..Len(g[v]) : <<g[v][i], v>> \in Decls
    <2>1. CASE v = u
        <3>1. Len(s) >= 1 /\ s[1] = Absent /\ s \in Seq(KnownPrefixes \cup {Absent})
            BY <1>1, <1>3
        <3>2. \A i \in 2..Len(s) : <<s[i], u>> \in Decls
            BY <1>1, <1>3, <1>5
        <3>. QED
            BY <2>1, <3>1, <3>2, <1>4
    <2>2. CASE v # u
        BY <2>2, <1>4, <1>1
    <2>. QED
        BY <2>1, <2>2
<1>7. g \in Ups
    BY <1>1, <1>4, <1>6, InUps
<1>8. <<getLast(up, u), u>> \in Decls
    <2>1. getLast(up, u) = up[u][Len(up[u])] /\ Len(up[u]) \in 2..Len(up[u])
        BY <1>1 DEF getLast, Last
    <2>. QED
        BY <1>1, <2>1
<1>. QED
    BY <1>4, <1>7, <1>8 DEF g, s

\* The way back of a declaration.
LEMMA UndoIs ==
    ASSUME NEW enc \in Encoders, NEW x \in Entries, x.kind = "xmlns",
           Uri(enc)[x.prefix] # Absent, Len(Held(enc)[Uri(enc)[x.prefix]]) >= 2,
           Last(Held(enc)[Uri(enc)[x.prefix]]) = x.prefix,
           x.uri = Absent \/ <<x.prefix, x.uri>> \in Decls
    PROVE  LET e == Undo(enc, x)
               u == Uri(enc)[x.prefix]
           IN /\ e \in Encoders
              /\ e.state = enc.state
              /\ Uri(e) = [Uri(enc) EXCEPT ![x.prefix] = x.uri]
              /\ Held(e) = [Held(enc) EXCEPT ![u] = Front(@)]
<1>. DEFINE p == x.prefix
            u == Uri(enc)[p]
            f == enc.prefixURI
            g == enc.up
            f2 == IF x.uri = Absent THEN Restrict(f, DOMAIN f \ {p}) ELSE [f EXCEPT ![p] = x.uri]
            g2 == removeLast(g, u)
            e == Undo(enc, x)
<1>1. p \in KnownPrefixes
    BY DEF Entries
<1>2. /\ f \in Maps /\ g \in Ups /\ enc.state \in Seq(Entries) /\ ~enc.fatal
      /\ Uri(enc) \in [KnownPrefixes -> KnownURIs \cup {Absent}]
      /\ Held(enc) \in [KnownURIs -> Stacks]
      /\ p \in DOMAIN f /\ <<p, u>> \in Decls
    BY <1>1, EncoderFacts
<1>3. u \in KnownURIs /\ URIOf(enc, p) = u
    BY <1>1, <1>2, DeclFacts DEF Uri
<1>4. Held(enc)[u] = IF u \in DOMAIN g THEN g[u] ELSE <<Absent>>
    BY <1>3 DEF Held
<1>5. u \in DOMAIN g /\ Len(g[u]) >= 2 /\ g[u] = Held(enc)[u]
    <2>. HIDE DEF g, u
    <2>1. Len(Held(enc)[u]) >= 2
        BY DEF u
    <2>2. Len(<<Absent>>) = 1
        OBVIOUS
    <2>3. u \in DOMAIN g
        BY <1>4, <2>1, <2>2
    <2>. QED
        BY <1>4, <2>1, <2>3
<1>6. /\ g2 \in Ups /\ DOMAIN g2 = DOMAIN g /\ (\A v \in DOMAIN g : v # u => g2[v] = g[v])
      /\ g2[u] = Front(g[u])
    BY <1>2, <1>5, RemoveIs
<1>7. getLast(g, u) = p
    BY <1>5 DEF getLast
<1>8. e = [prefixURI |-> f2, up |-> g2, state |-> enc.state, fatal |-> FALSE]
    BY <1>3, <1>5, <1>7 DEF Undo, Encoders
<1>9. f2 \in Maps /\ DOMAIN f2 = (IF x.uri = Absent THEN DOMAIN f \ {p} ELSE DOMAIN f)
      /\ (x.uri # Absent => f2[p] = x.uri)
      /\ \A q \in DOMAIN f : q # p => f2[q] = f[q]
    <2>1. f = [q \in DOMAIN f |-> f[q]] /\ DOMAIN f \subseteq KnownPrefixes
          /\ \A q \in DOMAIN f : <<q, f[q]>> \in Decls
        BY <1>2, MapFacts
    <2>2. /\ DOMAIN f2 = (IF x.uri = Absent THEN DOMAIN f \ {p} ELSE DOMAIN f)
          /\ (x.uri # Absent => f2[p] = x.uri)
          /\ f2 = [q \in DOMAIN f2 |-> f2[q]]
          /\ \A q \in DOMAIN f : q # p => f2[q] = f[q]
        <3>1. CASE x.uri = Absent
            BY <3>1, <1>2, <2>1 DEF Restrict
        <3>2. CASE x.uri # Absent
            BY <3>2, <1>2, <2>1
        <3>. QED
            BY <3>1, <3>2
    <2>. HIDE DEF f2, p, u, f
    <2>3. \A q \in DOMAIN f2 : <<q, f2[q]>> \in Decls
        BY <1>1, <2>1, <2>2 DEF p
    <2>. QED
        BY <1>1, <2>1, <2>2, <2>3, InMaps
<1>. HIDE DEF p, u, f, g, f2, g2, e
<1>10. e \in Encoders
    BY <1>2, <1>8, <1>9, <1>6 DEF Encoders
<1>11. Uri(e) = [Uri(enc) EXCEPT ![p] = x.uri]
    <2>1. ASSUME NEW q \in KnownPrefixes
          PROVE  Uri(e)[q] = (IF q = p THEN x.uri ELSE Uri(enc)[q])
        <3>1. /\ Uri(e)[q] = (IF q \in DOMAIN f2 THEN f2[q] ELSE Absent)
              /\ Uri(enc)[q] = (IF q \in DOMAIN f THEN f[q] ELSE Absent)
            BY <1>8 DEF Uri, URIOf, f
        <3>2. CASE q = p
            BY <1>2, <1>9, <3>1, <3>2
        <3>3. CASE q # p
            BY <1>2, <1>9, <3>1, <3>3
        <3>. QED
            BY <3>2, <3>3
    <2>2. Uri(e) = [q \in KnownPrefixes |-> Uri(e)[q]]
        BY DEF Uri
    <2>. QED
        BY <1>1, <1>2, <2>1, <2>2
<1>12. Held(e) = [Held(enc) EXCEPT ![u] = Front(@)]
    <2>1. ASSUME NEW v \in KnownURIs
          PROVE  Held(e)[v] = (IF v = u THEN Front(Held(enc)[v]) ELSE Held(enc)[v])
        <3>1. /\ Held(e)[v] = IF v \in DOMAIN g2 THEN g2[v] ELSE <<Absent>>
              /\ Held(enc)[v] = IF v \in DOMAIN g THEN g[v] ELSE <<Absent>>
            BY <1>8 DEF Held, g
        <3>2. CASE v = u
            BY <3>1, <3>2, <1>5, <1>6
        <3>3. CASE v # u
            <4>1. v \in DOMAIN g => g2[v] = g[v]
                BY <1>6, <3>3
            <4>. QED
                BY <1>6, <3>1, <3>3, <4>1
        <3>. QED
            BY <3>2, <3>3
    <2>2. Held(e) = [v \in KnownURIs |-> Held(e)[v]]
        BY DEF Held
    <2>. QED
        BY <1>2, <1>3, <2>1, <2>2
<1>. QED
    BY <1>8, <1>10, <1>11, <1>12 DEF e, p, u

\* A prefix is left for the URI.
Open(c, u) == Len(c[u]) >= 2

\* The prefixes that are left have a URI, if not always that one.
Sound(us, c) == \A u \in KnownURIs : \A i \in 2..Len(c[u]) :
                    c[u][i] \in KnownPrefixes /\ us[c[u][i]] # Absent

\* A URI for which a prefix is left is written with one of its prefixes.
LEMMA TranslateIs ==
    ASSUME NEW enc \in Encoders
    PROVE  /\ translateName(enc, Absent) = Absent
           /\ \A u \in KnownURIs : Open(Held(enc), u) =>
                 /\ <<translateName(enc, u), u>> \in Decls
                 /\ Sound(Uri(enc), Held(enc)) => Uri(enc)[translateName(enc, u)] # Absent
           /\ \A p \in KnownPrefixes :
                 IF Uri(enc)[p] # Absent THEN translateName(enc, p) = p
                 ELSE translateName(enc, p) = Unknown
<1>1. enc.up \in Ups /\ enc.prefixURI \in Maps
    BY EncoderFacts
<1>2. translateName(enc, Absent) = Absent
    BY DEF translateName
<1>3. ASSUME NEW u \in KnownURIs, Open(Held(enc), u)
      PROVE  /\ <<translateName(enc, u), u>> \in Decls
             /\ Sound(Uri(enc), Held(enc)) => Uri(enc)[translateName(enc, u)] # Absent
    <2>. DEFINE s == enc.up[u]
    <2>1. Held(enc)[u] = IF u \in DOMAIN enc.up THEN s ELSE <<Absent>>
        BY DEF Held
    <2>2. u \in DOMAIN enc.up => Len(s) \in Nat
        BY <1>1, UpFacts
    <2>. HIDE DEF s
    <2>3. u \in DOMAIN enc.up /\ Len(s) >= 2 /\ Held(enc)[u] = s
        <3>1. Len(<<Absent>>) = 1 /\ Len(Held(enc)[u]) >= 2
            BY <1>3 DEF Open
        <3>2. u \in DOMAIN enc.up
            BY <2>1, <3>1
        <3>. QED
            BY <2>1, <3>1, <3>2
    <2>4. <<getLast(enc.up, u), u>> \in Decls
        BY <1>1, <2>3, RemoveIs DEF s
    <2>5. translateName(enc, u) = getLast(enc.up, u)
        BY <2>3, Distinct DEF translateName
    <2>6. getLast(enc.up, u) = s[Len(s)] /\ Len(s) \in 2..Len(s)
        BY <2>2, <2>3 DEF getLast, Last, s
    <2>7. Sound(Uri(enc), Held(enc)) => Uri(enc)[s[Len(s)]] # Absent
        BY <2>3, <2>6 DEF Sound
    <2>. QED
        BY <2>4, <2>5, <2>6, <2>7
<1>4. ASSUME NEW p \in KnownPrefixes
      PROVE  IF Uri(enc)[p] # Absent THEN translateName(enc, p) = p
             ELSE translateName(enc, p) = Unknown
    <2>1. p \in DOMAIN enc.prefixURI <=> Uri(enc)[p] # Absent
        <3>. DEFINE f == enc.prefixURI
        <3>3. \A q \in DOMAIN f : f[q] \in KnownURIs
            BY <1>1, MapFacts
        <3>1. p \in DOMAIN f => f[p] # Absent
            BY <3>3, Distinct
        <3>2. Uri(enc)[p] = IF p \in DOMAIN enc.prefixURI THEN enc.prefixURI[p] ELSE Absent
            BY DEF Uri, URIOf
        <3>. QED
            BY <3>1, <3>2
    <2>2. p \notin DOMAIN enc.up /\ p # Absent
        BY <1>1, UpFacts, Distinct
    <2>. QED
        BY <2>1, <2>2 DEF translateName
<1>. QED
    BY <1>2, <1>3, <1>4

-----------------------------------------------------------------------------
(* Many declarations: a tag is opened and closed *)

\* The encoder has the element, and n of its declarations.
SetUpTo(enc, name, ds, f) ==
    /\ f \in [0..Len(ds) -> Encoders]
    /\ f[0] = [enc EXCEPT !.state = Append(@, Element(name))]
    /\ \A k \in 1..Len(ds) : f[k] = Declare(f[k - 1], ds[k])
    /\ setUpState(enc, name, ds) = f[Len(ds)]

LEMMA SetUpStarts ==
    ASSUME NEW enc \in Encoders, NEW name \in Names
    PROVE  LET e == [enc EXCEPT !.state = Append(@, Element(name))]
           IN /\ e \in Encoders /\ e.state = Append(enc.state, Element(name))
              /\ Uri(e) = Uri(enc) /\ Held(e) = Held(enc)
<1>1. Element(name) \in Entries
    BY DEF Element, Entries
<1>2. enc.state \in Seq(Entries)
    BY EncoderFacts
<1>3. Append(enc.state, Element(name)) \in Seq(Entries)
    BY <1>1, <1>2
<1>. QED
    BY <1>3 DEF Encoders, Uri, Held, URIOf

LEMMA SetUpRecurs ==
    ASSUME NEW enc \in Encoders, NEW name \in Names, NEW ds \in ResourcesDecls \cup TagDecls
    PROVE  \E f : SetUpTo(enc, name, ds, f)
<1>. DEFINE n == Len(ds)
            V == Encoders
            e0 == [enc EXCEPT !.state = Append(@, Element(name))]
            step == [kv \in (1..n) \X V |-> Declare(kv[2], ds[kv[1]])]
            Def(h) == [k \in 0..n |-> IF k = 0 THEN e0 ELSE Declare(h[k - 1], ds[k])]
            f == CHOOSE h : h = Def(h)
<1>1. n \in Nat /\ \A k \in 1..n : ds[k] \in Decls
    BY DeclsOf
<1>2. e0 \in V
    BY SetUpStarts
<1>3. \A k \in 1..n, v \in V : step[<<k, v>>] = Declare(v, ds[k]) /\ step[<<k, v>>] \in V
    BY <1>1, DeclareIs
<1>. HIDE DEF step, V, e0
<1>4. PICK h : Recursive(h, n, V, e0, step)
    <2>1. Steps(n, V, step)
        BY <1>3 DEF Steps
    <2>. QED
        BY <1>1, <1>2, <2>1, PrimitiveRecursion
<1>5. h = Def(h)
    <2>1. \A k \in 0..n : k # 0 => k \in 1..n
        BY <1>1
    <2>2. ASSUME NEW k \in 1..n PROVE h[k] = Declare(h[k - 1], ds[k])
        <3>1. k - 1 \in 0..n
            BY <1>1
        <3>2. h[k - 1] \in V /\ h[k] = step[<<k, h[k - 1]>>]
            BY <1>4, <3>1 DEF Recursive
        <3>. QED
            BY <1>3, <3>2
    <2>. QED
        BY <1>4, <2>1, <2>2 DEF Recursive
<1>6. f = Def(f)
    BY <1>5
<1>7. setUpState(enc, name, ds) = f[n]
    BY DEF setUpState, e0
<1>. HIDE DEF f
<1>8. f[0] = e0 /\ \A k \in 1..n : f[k] = Declare(f[k - 1], ds[k])
    <2>1. f[0] = e0
        BY <1>1, <1>6
    <2>2. ASSUME NEW k \in 1..n PROVE f[k] = Declare(f[k - 1], ds[k])
        <3>1. k \in 0..n /\ k # 0
            BY <1>1
        <3>. QED
            BY <1>6, <3>1
    <2>. QED
        BY <2>1, <2>2
<1>9. \A k \in 0..n : f[k] \in V
    <2>. DEFINE T == {k \in 0..n : f[k] \in V}
    <2>1. 0 \in T
        BY <1>1, <1>2, <1>8
    <2>2. ASSUME NEW k \in 0..n, k # n, k \in T PROVE k + 1 \in T
        <3>1. k + 1 \in 0..n /\ k + 1 \in 1..n /\ (k + 1) - 1 = k
            BY <1>1, <2>2
        <3>2. f[k + 1] = Declare(f[k], ds[k + 1])
            BY <1>8, <3>1
        <3>3. f[k + 1] \in V
            BY <1>1, <2>2, <3>1, <3>2, DeclareIs DEF V
        <3>. QED
            BY <3>1, <3>3
    <2>. HIDE DEF T
    <2>3. 0..n \subseteq T
        BY <1>1, <2>1, <2>2, Reaches
    <2>. QED
        BY <2>3 DEF T
<1>10. f = [k \in 0..n |-> f[k]]
    BY <1>6
<1>. HIDE DEF n
<1>11. f \in [0..n -> V]
    BY <1>9, <1>10
<1>. QED
    BY <1>7, <1>8, <1>11 DEF SetUpTo, n, V, e0

\* us and cs have, for each length of the state, the URI of each prefix and the prefixes
\* of each URI when the state had it.
Step(x, u0, c0, u1, c1) ==
    IF x.kind = "element" THEN u1 = u0 /\ c1 = c0
    ELSE \E d \in Decls : /\ x.prefix = d[1] /\ x.uri = u0[d[1]]
                          /\ u1 = [u0 EXCEPT ![d[1]] = d[2]]
                          /\ c1 = [c0 EXCEPT ![d[2]] = Append(@, d[1])]

History(enc, us, cs) ==
    /\ us \in [0..Len(enc.state) -> UriMaps]
    /\ cs \in [0..Len(enc.state) -> [KnownURIs -> Stacks]]
    /\ us[Len(enc.state)] = Uri(enc) /\ cs[Len(enc.state)] = Held(enc)
    /\ \A i \in 1..Len(enc.state) : Step(enc.state[i], us[i - 1], cs[i - 1], us[i], cs[i])
    /\ \A i \in 0..Len(enc.state) : Sound(us[i], cs[i])

\* s is s0 with an element of this name and n declarations after it.
Opened(s0, name, s, n) ==
    /\ Len(s) = Len(s0) + 1 + n
    /\ \A i \in 1..Len(s0) : s[i] = s0[i]
    /\ s[Len(s0) + 1] = Element(name)
    /\ \A i \in (Len(s0) + 2)..(Len(s0) + 1 + n) : s[i].kind = "xmlns"

\* Nothing is declared less than before.
Grown(u0, c0, u1, c1) ==
    /\ \A u \in KnownURIs : Open(c0, u) => Open(c1, u)
    /\ \A p \in KnownPrefixes : u0[p] # Absent => u1[p] # Absent

\* The first n declarations of ds are known.
Counted(ds, n, u1, c1) ==
    \A k \in 1..n : Open(c1, ds[k][2]) /\ u1[ds[k][1]] # Absent

\* Beside them nothing is known that was not before.
Only(ds, n, u0, u1) ==
    \A p \in KnownPrefixes :
        u1[p] # Absent => u0[p] # Absent \/ \E k \in 1..n : ds[k][1] = p

SetUpReached(enc, name, ds, f, n) ==
    /\ Opened(enc.state, name, f[n].state, n)
    /\ Grown(Uri(enc), Held(enc), Uri(f[n]), Held(f[n]))
    /\ Counted(ds, n, Uri(f[n]), Held(f[n]))
    /\ Only(ds, n, Uri(enc), Uri(f[n]))
    /\ \A k \in 0..n : Sound(Uri(f[k]), Held(f[k]))
    /\ \A k \in 1..n : Step(f[n].state[Len(enc.state) + 1 + k], Uri(f[k - 1]), Held(f[k - 1]),
                            Uri(f[k]), Held(f[k]))

LEMMA DeclareGrows ==
    ASSUME NEW enc \in Encoders, NEW d \in Decls
    PROVE  LET e == Declare(enc, d)
           IN /\ Grown(Uri(enc), Held(enc), Uri(e), Held(e))
              /\ Open(Held(e), d[2]) /\ Uri(e)[d[1]] # Absent
              /\ \A p \in KnownPrefixes : p # d[1] => Uri(e)[p] = Uri(enc)[p]
              /\ Step(Xmlns(d[1], Uri(enc)[d[1]]), Uri(enc), Held(enc), Uri(e), Held(e))
              /\ Sound(Uri(enc), Held(enc)) => Sound(Uri(e), Held(e))
<1>. DEFINE e == Declare(enc, d)
            q == d[1]
            u == d[2]
            s == Held(enc)[u]
            t == Append(s, q)
<1>1. q \in KnownPrefixes /\ u \in KnownURIs /\ u # Absent
    BY DeclFacts, Distinct
<1>2. Uri(enc) \in [KnownPrefixes -> KnownURIs \cup {Absent}] /\ Held(enc) \in [KnownURIs -> Stacks]
    BY EncoderFacts
<1>3. /\ Uri(e) = [Uri(enc) EXCEPT ![q] = u]
      /\ Held(e) = [Held(enc) EXCEPT ![u] = Append(@, q)]
    BY DeclareIs
<1>. HIDE DEF e, q, u
<1>7. /\ Uri(e)[q] = u /\ \A p \in KnownPrefixes : p # q => Uri(e)[p] = Uri(enc)[p]
    BY <1>1, <1>2, <1>3
<1>8. /\ Held(e)[u] = t /\ \A v \in KnownURIs : v # u => Held(e)[v] = Held(enc)[v]
    BY <1>1, <1>2, <1>3
<1>9. /\ Len(s) \in Nat /\ Len(s) >= 1 /\ Len(t) = Len(s) + 1 /\ t[Len(s) + 1] = q
      /\ \A i \in 1..Len(s) : t[i] = s[i]
    <2>. DEFINE S == KnownPrefixes \cup {Absent}
    <2>1. s \in Seq(S) /\ Len(s) >= 1 /\ q \in S
        BY <1>1, <1>2 DEF Stacks
    <2>. HIDE DEF s, S
    <2>2. /\ Len(t) = Len(s) + 1 /\ t[Len(s) + 1] = q
          /\ \A i \in 1..Len(s) : t[i] = s[i]
        BY ONLY <2>1, AppendIs
    <2>. QED
        BY <2>1, <2>2
<1>. HIDE DEF s, t
<1>10. Open(Held(e), u)
    BY <1>8, <1>9 DEF Open
<1>4. Grown(Uri(enc), Held(enc), Uri(e), Held(e))
    <2>1. ASSUME NEW v \in KnownURIs, Open(Held(enc), v) PROVE Open(Held(e), v)
        BY <1>8, <1>10, <2>1 DEF Open
    <2>2. ASSUME NEW p \in KnownPrefixes, Uri(enc)[p] # Absent PROVE Uri(e)[p] # Absent
        BY <1>1, <1>7, <2>2
    <2>. QED
        BY <2>1, <2>2 DEF Grown
<1>6. Step(Xmlns(q, Uri(enc)[q]), Uri(enc), Held(enc), Uri(e), Held(e))
    <2>. DEFINE x == Xmlns(q, Uri(enc)[q])
    <2>1. x.kind = "xmlns" /\ x.prefix = q /\ x.uri = Uri(enc)[q]
        BY DEF Xmlns
    <2>. HIDE DEF x
    <2>2. Step(x, Uri(enc), Held(enc), Uri(e), Held(e))
        BY <1>3, <2>1 DEF Step, q, u
    <2>. QED
        BY <2>2 DEF x
<1>11. ASSUME Sound(Uri(enc), Held(enc)) PROVE Sound(Uri(e), Held(e))
    <2>1. ASSUME NEW p \in KnownPrefixes, Uri(enc)[p] # Absent PROVE Uri(e)[p] # Absent
        BY <1>1, <1>7, <2>1
    <2>2. \A i \in 2..Len(t) : i = Len(s) + 1 \/ (i \in 2..Len(s) /\ t[i] = s[i])
        BY <1>9
    <2>3. \A i \in 2..Len(s) : s[i] \in KnownPrefixes /\ Uri(enc)[s[i]] # Absent
        BY <1>1, <1>11 DEF Sound, s
    <2>4. \A i \in 2..Len(t) : t[i] \in KnownPrefixes /\ Uri(e)[t[i]] # Absent
        BY <1>1, <1>7, <1>9, <2>1, <2>2, <2>3
    <2>5. ASSUME NEW v \in KnownURIs, NEW i \in 2..Len(Held(e)[v])
          PROVE  Held(e)[v][i] \in KnownPrefixes /\ Uri(e)[Held(e)[v][i]] # Absent
        <3>1. CASE v = u
            BY <1>8, <2>4, <2>5, <3>1
        <3>2. CASE v # u
            BY <1>8, <1>11, <2>1, <2>5, <3>2 DEF Sound
        <3>. QED
            BY <3>1, <3>2
    <2>. QED
        BY <2>5 DEF Sound
<1>. QED
    BY <1>1, <1>4, <1>6, <1>7, <1>10, <1>11 DEF e, q, u

LEMMA SetUpReaches ==
    ASSUME NEW enc \in Encoders, NEW name \in Names, NEW ds \in ResourcesDecls \cup TagDecls,
           Sound(Uri(enc), Held(enc)),
           NEW f, SetUpTo(enc, name, ds, f)
    PROVE  SetUpReached(enc, name, ds, f, Len(ds))
<1>. DEFINE n == Len(ds)
            T == {k \in 0..n : SetUpReached(enc, name, ds, f, k)}
<1>1. n \in Nat /\ \A k \in 1..n : ds[k] \in Decls
    BY DeclsOf
<1>2. Len(enc.state) \in Nat /\ enc.state \in Seq(Entries) /\ Held(enc) \in [KnownURIs -> Stacks]
    BY EncoderFacts
<1>3. 0 \in T
    <2>1. f[0].state = Append(enc.state, Element(name)) /\ Uri(f[0]) = Uri(enc) /\ Held(f[0]) = Held(enc)
        BY SetUpStarts DEF SetUpTo
    <2>2. Opened(enc.state, name, f[0].state, 0)
        <3>1. Element(name) \in Entries
            BY DEF Entries, Element
        <3>. QED
            BY <1>2, <2>1, <3>1 DEF Opened
    <2>3. Grown(Uri(enc), Held(enc), Uri(f[0]), Held(f[0]))
        BY <1>2, <2>1 DEF Grown
    <2>4. Counted(ds, 0, Uri(f[0]), Held(f[0])) /\ Only(ds, 0, Uri(enc), Uri(f[0]))
        BY <2>1 DEF Counted, Only
    <2>5. 0 \in 0..n
        BY <1>1
    <2>6. \A k \in 0..0 : Sound(Uri(f[k]), Held(f[k]))
        BY <2>1
    <2>. QED
        BY <2>2, <2>3, <2>4, <2>5, <2>6 DEF SetUpReached
<1>4. ASSUME NEW k \in 0..n, k # n, k \in T PROVE k + 1 \in T
    <2>. DEFINE d == ds[k + 1]
                x == Xmlns(d[1], Uri(f[k])[d[1]])
                l == Len(enc.state)
    <2>1. k \in Nat /\ k + 1 \in 0..n /\ k + 1 \in 1..n /\ (k + 1) - 1 = k /\ d \in Decls
        BY <1>1, <1>4
    <2>2. f[k] \in Encoders /\ f[k + 1] = Declare(f[k], d)
        BY <2>1 DEF SetUpTo
    <2>3. SetUpReached(enc, name, ds, f, k)
        BY <1>4
    <2>4. f[k + 1] \in Encoders /\ f[k + 1].state = Append(f[k].state, x)
        BY <2>1, <2>2, DeclareIs
    <2>5. /\ Grown(Uri(f[k]), Held(f[k]), Uri(f[k + 1]), Held(f[k + 1]))
          /\ Open(Held(f[k + 1]), d[2]) /\ Uri(f[k + 1])[d[1]] # Absent
          /\ \A p \in KnownPrefixes : p # d[1] => Uri(f[k + 1])[p] = Uri(f[k])[p]
          /\ Step(x, Uri(f[k]), Held(f[k]), Uri(f[k + 1]), Held(f[k + 1]))
          /\ Sound(Uri(f[k]), Held(f[k])) => Sound(Uri(f[k + 1]), Held(f[k + 1]))
        BY <2>1, <2>2, DeclareGrows
    <2>6. /\ f[k].state \in Seq(Entries) /\ x.kind = "xmlns"
          /\ Held(f[k]) \in [KnownURIs -> Stacks] /\ Held(f[k + 1]) \in [KnownURIs -> Stacks]
        BY <2>2, <2>4, EncoderFacts DEF Xmlns
    <2>13. l \in Nat /\ k \in Nat
        BY <1>2, <2>1
    <2>. HIDE DEF d, x, n, T
    <2>7. /\ Len(f[k + 1].state) = l + 1 + (k + 1) /\ Len(f[k].state) = l + 1 + k
          /\ \A i \in 1..(l + 1 + k) : f[k + 1].state[i] = f[k].state[i]
          /\ f[k + 1].state[l + 1 + (k + 1)] = x
        <3>1. Len(f[k].state) = l + 1 + k
            BY <2>3 DEF SetUpReached, Opened
        <3>. HIDE DEF l
        <3>2. \A s \in Seq(Entries) : Len(Append(s, x)) = Len(s) + 1
                  /\ Append(s, x)[Len(s) + 1] = x /\ \A i \in 1..Len(s) : Append(s, x)[i] = s[i]
            OBVIOUS
        <3>3. l + 1 + k + 1 = l + 1 + (k + 1)
            BY <2>13
        <3>. QED
            BY <2>4, <2>6, <3>1, <3>2, <3>3
    <2>8. Opened(enc.state, name, f[k + 1].state, k + 1)
        <3>. HIDE DEF l
        <3>1. \A i \in 1..l : i \in 1..(l + 1 + k)
            BY <2>13
        <3>2. l + 1 \in 1..(l + 1 + k)
            BY <2>13
        <3>3. \A i \in (l + 2)..(l + 1 + (k + 1)) :
                  i # l + 1 + (k + 1) => i \in 1..(l + 1 + k) /\ i \in (l + 2)..(l + 1 + k)
            BY <2>13
        <3>4. Opened(enc.state, name, f[k].state, k)
            BY <2>3 DEF SetUpReached
        <3>. QED
            BY <2>6, <2>7, <3>1, <3>2, <3>3, <3>4 DEF Opened, l
    <2>9. Grown(Uri(enc), Held(enc), Uri(f[k + 1]), Held(f[k + 1]))
        <3>1. Grown(Uri(enc), Held(enc), Uri(f[k]), Held(f[k]))
            BY <2>3 DEF SetUpReached
        <3>. QED
            BY <1>2, <2>5, <2>6, <3>1 DEF Grown
    <2>10. Counted(ds, k + 1, Uri(f[k + 1]), Held(f[k + 1]))
        <3>1. Counted(ds, k, Uri(f[k]), Held(f[k]))
            BY <2>3 DEF SetUpReached
        <3>2. ASSUME NEW j \in 1..(k + 1), j # k + 1
              PROVE  Open(Held(f[k + 1]), ds[j][2]) /\ Uri(f[k + 1])[ds[j][1]] # Absent
            <4>1. j \in 1..k /\ ds[j] \in Decls
                BY <1>1, <2>1, <3>2 DEF n
            <4>2. ds[j][1] \in KnownPrefixes /\ ds[j][2] \in KnownURIs
                BY <4>1, DeclFacts
            <4>. QED
                BY <2>5, <2>6, <3>1, <4>1, <4>2 DEF Counted, Grown
        <3>. QED
            BY <2>5, <3>2 DEF Counted, d
    <2>11. ASSUME NEW j \in 1..(k + 1)
           PROVE  Step(f[k + 1].state[l + 1 + j], Uri(f[j - 1]), Held(f[j - 1]), Uri(f[j]), Held(f[j]))
        <3>1. CASE j = k + 1
            BY <2>1, <2>5, <2>7, <3>1
        <3>2. CASE j # k + 1
            <4>1. j \in 1..k /\ l + 1 + j \in 1..(l + 1 + k)
                BY <1>2, <2>1, <3>2
            <4>. QED
                BY <2>3, <2>7, <4>1 DEF SetUpReached
        <3>. QED
            BY <3>1, <3>2
    <2>14. Only(ds, k + 1, Uri(enc), Uri(f[k + 1]))
        <3>1. Only(ds, k, Uri(enc), Uri(f[k]))
            BY <2>3 DEF SetUpReached
        <3>2. k + 1 \in 1..(k + 1) /\ \A j \in 1..k : j \in 1..(k + 1)
            BY <2>13
        <3>. QED
            BY <2>5, <3>1, <3>2 DEF Only, d
    <2>15. ASSUME NEW j \in 0..(k + 1) PROVE Sound(Uri(f[j]), Held(f[j]))
        <3>1. \A i \in 0..k : Sound(Uri(f[i]), Held(f[i]))
            BY <2>3 DEF SetUpReached
        <3>2. j = k + 1 \/ j \in 0..k
            BY <2>13
        <3>3. k \in 0..k
            BY <2>13
        <3>. QED
            BY <2>5, <3>1, <3>2, <3>3
    <2>12. SetUpReached(enc, name, ds, f, k + 1)
        BY <2>8, <2>9, <2>10, <2>11, <2>14, <2>15 DEF SetUpReached
    <2>. QED
        BY <2>1, <2>12 DEF T
<1>. HIDE DEF T
<1>5. 0..n \subseteq T
    BY <1>1, <1>3, <1>4, Reaches
<1>6. n \in T
    BY <1>1, <1>5
<1>. QED
    BY <1>6 DEF T

\* A start tag: the history goes on.
LEMMA SetUpIs ==
    ASSUME NEW enc \in Encoders, NEW name \in Names, NEW ds \in ResourcesDecls \cup TagDecls,
           NEW us, NEW cs, History(enc, us, cs)
    PROVE  LET e == setUpState(enc, name, ds)
               l == Len(enc.state)
           IN /\ e \in Encoders
              /\ Opened(enc.state, name, e.state, Len(ds))
              /\ Grown(Uri(enc), Held(enc), Uri(e), Held(e))
              /\ Counted(ds, Len(ds), Uri(e), Held(e))
              /\ Only(ds, Len(ds), Uri(enc), Uri(e))
              /\ \E us2, cs2 : /\ History(e, us2, cs2)
                               /\ \A i \in 0..l : us2[i] = us[i] /\ cs2[i] = cs[i]
<1>. DEFINE e == setUpState(enc, name, ds)
            l == Len(enc.state)
            n == Len(ds)
<1>1. PICK f : SetUpTo(enc, name, ds, f)
    BY SetUpRecurs
<1>12. Sound(Uri(enc), Held(enc))
    <2>1. l \in 0..l
        BY EncoderFacts
    <2>. QED
        BY <2>1 DEF History
<1>2. SetUpReached(enc, name, ds, f, n)
    BY <1>1, <1>12, SetUpReaches
<1>3. /\ e = f[n] /\ (\A k \in 0..n : f[k] \in Encoders) /\ n \in Nat /\ l \in Nat
      /\ Uri(f[0]) = Uri(enc) /\ Held(f[0]) = Held(enc)
    <2>1. n \in Nat /\ l \in Nat
        BY DeclsOf, EncoderFacts
    <2>2. Uri(f[0]) = Uri(enc) /\ Held(f[0]) = Held(enc)
        BY <1>1, SetUpStarts DEF SetUpTo
    <2>. QED
        BY <1>1, <2>1, <2>2 DEF SetUpTo
<1>. HIDE DEF e, n, l
<1>4. e \in Encoders
    BY <1>3
<1>5. Opened(enc.state, name, e.state, n)
    BY <1>2, <1>3 DEF SetUpReached
<1>. DEFINE us2 == [i \in 0..(l + 1 + n) |-> IF i <= l THEN us[i] ELSE Uri(f[i - l - 1])]
            cs2 == [i \in 0..(l + 1 + n) |-> IF i <= l THEN cs[i] ELSE Held(f[i - l - 1])]
<1>6. /\ \A i \in 0..l : us2[i] = us[i] /\ cs2[i] = cs[i]
      /\ \A i \in 0..(l + 1 + n) : ~(i <= l) =>
            us2[i] = Uri(f[i - l - 1]) /\ cs2[i] = Held(f[i - l - 1]) /\ i - l - 1 \in 0..n
    BY <1>3
<1>7. Len(e.state) = l + 1 + n
    BY <1>5 DEF Opened, l
<1>8. /\ us2 \in [0..(l + 1 + n) -> UriMaps]
      /\ cs2 \in [0..(l + 1 + n) -> [KnownURIs -> Stacks]]
    <2>1. \A k \in 0..n : /\ Uri(f[k]) \in UriMaps
                          /\ Held(f[k]) \in [KnownURIs -> Stacks]
        BY <1>3, EncoderFacts
    <2>2. \A i \in 0..l : /\ us[i] \in UriMaps
                          /\ cs[i] \in [KnownURIs -> Stacks]
        BY DEF History, l
    <2>3. \A i \in 0..(l + 1 + n) : i <= l => i \in 0..l
        BY <1>3
    <2>4. \A i \in 0..(l + 1 + n) : /\ us2[i] \in UriMaps
                                    /\ cs2[i] \in [KnownURIs -> Stacks]
        <3>. HIDE DEF us2, cs2
        <3>. QED
            BY <1>6, <2>1, <2>2, <2>3
    <2>. QED
        BY <2>4
<1>. HIDE DEF us2, cs2
<1>9. us2[l + 1 + n] = Uri(e) /\ cs2[l + 1 + n] = Held(e)
    <2>1. l + 1 + n \in 0..(l + 1 + n) /\ ~(l + 1 + n <= l) /\ (l + 1 + n) - l - 1 = n
        BY <1>3
    <2>. QED
        BY <1>3, <1>6, <2>1
<1>10. ASSUME NEW i \in 1..(l + 1 + n)
       PROVE  Step(e.state[i], us2[i - 1], cs2[i - 1], us2[i], cs2[i])
    <2>1. CASE i <= l
        <3>1. i \in 1..l /\ i - 1 \in 0..l /\ i \in 0..l
            BY <1>3, <2>1
        <3>2. e.state[i] = enc.state[i]
            BY <1>5, <3>1 DEF Opened, l
        <3>. QED
            BY <1>6, <3>1, <3>2 DEF History, l
    <2>2. CASE i = l + 1
        <3>1. l \in 0..l /\ i - 1 = l /\ ~(i <= l) /\ i - l - 1 = 0 /\ i \in 0..(l + 1 + n)
            BY <1>3, <2>2
        <3>2. us2[i - 1] = Uri(enc) /\ cs2[i - 1] = Held(enc)
            BY <1>6, <3>1 DEF History, l
        <3>3. us2[i] = Uri(enc) /\ cs2[i] = Held(enc)
            BY <1>3, <1>6, <3>1
        <3>4. e.state[i].kind = "element"
            BY <1>5, <2>2 DEF Opened, l, Element
        <3>. QED
            BY <3>2, <3>3, <3>4 DEF Step
    <2>3. CASE i > l + 1
        <3>. DEFINE k == i - l - 1
        <3>1. /\ k \in 1..n /\ i = l + 1 + k /\ i - 1 \in 0..(l + 1 + n) /\ i \in 0..(l + 1 + n)
              /\ ~(i <= l) /\ ~(i - 1 <= l) /\ (i - 1) - l - 1 = k - 1
            BY <1>3, <2>3
        <3>2. us2[i - 1] = Uri(f[k - 1]) /\ cs2[i - 1] = Held(f[k - 1])
            BY <1>6, <3>1
        <3>3. us2[i] = Uri(f[k]) /\ cs2[i] = Held(f[k])
            BY <1>6, <3>1
        <3>. HIDE DEF k
        <3>. QED
            BY <1>2, <1>3, <3>1, <3>2, <3>3 DEF SetUpReached, l
    <2>. QED
        BY <1>3, <2>1, <2>2, <2>3
<1>13. ASSUME NEW i \in 0..(l + 1 + n) PROVE Sound(us2[i], cs2[i])
    <2>1. CASE i <= l
        <3>1. i \in 0..l
            BY <1>3, <2>1
        <3>. QED
            BY <1>6, <3>1 DEF History, l
    <2>2. CASE ~(i <= l)
        <3>1. \A k \in 0..n : Sound(Uri(f[k]), Held(f[k]))
            BY <1>2 DEF SetUpReached
        <3>. QED
            BY <1>6, <2>2, <3>1
    <2>. QED
        BY <2>1, <2>2
<1>11. History(e, us2, cs2)
    BY <1>7, <1>8, <1>9, <1>10, <1>13 DEF History
<1>. QED
    BY <1>2, <1>3, <1>4, <1>5, <1>6, <1>11 DEF SetUpReached, e, n, l

LEMMA InnermostIs ==
    ASSUME NEW enc \in Encoders, NEW j \in 1..Len(enc.state), enc.state[j].kind = "element",
           \A i \in (j + 1)..Len(enc.state) : enc.state[i].kind # "element"
    PROVE  Innermost(enc) = j
<1>. DEFINE n == Len(enc.state)
            P(i) == /\ i = 0 \/ enc.state[i].kind = "element"
                    /\ \A k \in (i + 1)..n : enc.state[k].kind # "element"
<1>1. n \in Nat /\ j \in 0..n
    BY EncoderFacts
<1>2. P(j)
    OBVIOUS
<1>3. ASSUME NEW i \in 0..n, P(i) PROVE i = j
    <2>1. i < j => j \in (i + 1)..n
        BY <1>1
    <2>2. j < i => i \in (j + 1)..n /\ i # 0
        BY <1>1
    <2>. QED
        BY <1>1, <1>2, <1>3, <2>1, <2>2
<1>4. Innermost(enc) = CHOOSE i \in 0..n : P(i)
    BY DEF Innermost
<1>. HIDE DEF P, n
<1>. QED
    BY <1>1, <1>2, <1>3, <1>4

LEMMA FrontIs ==
    ASSUME NEW S, NEW s \in Seq(S), Len(s) >= 1
    PROVE  /\ Front(s) \in Seq(S) /\ Len(Front(s)) = Len(s) - 1
           /\ \A k \in 1..(Len(s) - 1) : Front(s)[k] = s[k]
<1>1. Len(s) \in Nat /\ DOMAIN s = 1..Len(s) /\ \A i \in 1..Len(s) : s[i] \in S
    OBVIOUS
<1>. QED
    BY <1>1 DEF Front

LEMMA FrontAppend ==
    ASSUME NEW s \in Stacks, NEW p \in KnownPrefixes
    PROVE  LET t == Append(s, p) IN Len(t) >= 2 /\ Last(t) = p /\ Front(t) = s
<1>. DEFINE S == KnownPrefixes \cup {Absent}
            t == Append(s, p)
            f == Front(t)
<1>1. s \in Seq(S) /\ Len(s) \in Nat /\ Len(s) >= 1 /\ p \in S
    BY DEF Stacks
<1>. HIDE DEF S
<1>2. /\ t \in Seq(S) /\ Len(t) = Len(s) + 1 /\ t[Len(s) + 1] = p
      /\ \A i \in 1..Len(s) : t[i] = s[i]
    BY <1>1, AppendIs
<1>. HIDE DEF t
<1>3. Len(t) >= 2 /\ Last(t) = p
    BY <1>1, <1>2 DEF Last
<1>4. f \in Seq(S) /\ Len(f) = Len(t) - 1 /\ \A k \in 1..(Len(t) - 1) : f[k] = t[k]
    BY <1>2, <1>3, FrontIs
<1>. HIDE DEF f
<1>5. Len(f) = Len(s) /\ \A k \in 1..Len(s) : f[k] = s[k]
    BY <1>1, <1>2, <1>4
<1>6. f = s
    BY <1>1, <1>4, <1>5
<1>. QED
    BY <1>3, <1>6 DEF t, f

\* An end tag: the state is as the history has it before the innermost element.
LEMMA TearDownIs ==
    ASSUME NEW enc \in Encoders, NEW j \in 1..Len(enc.state), enc.state[j].kind = "element",
           \A i \in (j + 1)..Len(enc.state) : enc.state[i].kind # "element",
           NEW us, NEW cs, History(enc, us, cs)
    PROVE  LET e == tearDownState(enc)
           IN /\ e \in Encoders /\ Len(e.state) = j - 1
              /\ \A i \in 1..(j - 1) : e.state[i] = enc.state[i]
              /\ \E us2, cs2 : /\ History(e, us2, cs2)
                               /\ \A i \in 0..(j - 1) : us2[i] = us[i] /\ cs2[i] = cs[i]
<1>. DEFINE n == Len(enc.state)
            m == n - j
            V == Encoders
            Un(k, v) == Undo(v, enc.state[n - k + 1])
            step == [kv \in (1..m) \X V |-> IF Un(kv[1], kv[2]) \in V THEN Un(kv[1], kv[2]) ELSE kv[2]]
            Def(h) == [k \in 0..m |-> IF k = 0 THEN enc ELSE Un(k, h[k - 1])]
            f == CHOOSE h : h = Def(h)
            At(v, k) == Uri(v) = us[n - k] /\ Held(v) = cs[n - k] /\ v.state = enc.state
<1>1. n \in Nat /\ j \in Nat /\ m \in Nat /\ m \in 0..n /\ n - m = j /\ enc.state \in Seq(Entries)
    BY EncoderFacts
<1>2. ASSUME NEW k \in 1..m, NEW v \in V, At(v, k - 1)
      PROVE  Un(k, v) \in V /\ At(Un(k, v), k)
    <2>. DEFINE i == n - k + 1
                x == enc.state[i]
    <2>1. i \in 1..n /\ i \in (j + 1)..n /\ n - (k - 1) = i /\ n - k = i - 1 /\ i - 1 \in 0..n
        <3>1. n \in Nat /\ j \in Nat /\ k \in Nat /\ k >= 1 /\ k <= n - j
            BY <1>1
        <3>. HIDE DEF n, m
        <3>2. i \in Nat /\ i >= j + 1 /\ i <= n /\ n - (k - 1) = i /\ n - k = i - 1
            BY <3>1
        <3>. HIDE DEF i
        <3>. QED
            BY <3>1, <3>2
    <2>. HIDE DEF i
    <2>2. x \in Entries /\ x.kind # "element" /\ Step(x, us[i - 1], cs[i - 1], us[i], cs[i])
        BY <1>1, <2>1 DEF History
    <2>3. x.kind = "xmlns"
        BY <2>2 DEF Entries
    <2>4. PICK d \in Decls : /\ x.prefix = d[1] /\ x.uri = us[i - 1][d[1]]
                             /\ us[i] = [us[i - 1] EXCEPT ![d[1]] = d[2]]
                             /\ cs[i] = [cs[i - 1] EXCEPT ![d[2]] = Append(@, d[1])]
        BY <2>2 DEF Step
    <2>5. d[1] \in KnownPrefixes /\ d[2] \in KnownURIs /\ d[2] # Absent
        BY DeclFacts, Distinct
    <2>6. /\ us[i - 1] \in [KnownPrefixes -> KnownURIs \cup {Absent}]
          /\ cs[i - 1] \in [KnownURIs -> Stacks] /\ us[i - 1] \in UriMaps
        BY <2>1 DEF History, UriMaps
    <2>7. Uri(v) = us[i] /\ Held(v) = cs[i] /\ v.state = enc.state
        BY <1>2, <2>1
    <2>13. cs[i][d[2]] = Append(cs[i - 1][d[2]], d[1]) /\ cs[i - 1][d[2]] \in Stacks
        BY <2>4, <2>5, <2>6
    <2>14. LET s == Append(cs[i - 1][d[2]], d[1])
           IN Len(s) >= 2 /\ Last(s) = d[1] /\ Front(s) = cs[i - 1][d[2]]
        BY <2>5, <2>13, FrontAppend
    <2>8. Uri(v)[x.prefix] = d[2] /\ Len(Held(v)[d[2]]) >= 2 /\ Last(Held(v)[d[2]]) = x.prefix
        BY <2>4, <2>5, <2>6, <2>7, <2>13, <2>14
    <2>9. x.uri = Absent \/ <<x.prefix, x.uri>> \in Decls
        BY <2>4, <2>5, <2>6 DEF UriMaps
    <2>10. LET e == Undo(v, x)
           IN /\ e \in Encoders /\ e.state = v.state
              /\ Uri(e) = [Uri(v) EXCEPT ![x.prefix] = x.uri]
              /\ Held(e) = [Held(v) EXCEPT ![d[2]] = Front(@)]
        BY <2>2, <2>3, <2>5, <2>8, <2>9, UndoIs
    <2>11. [us[i] EXCEPT ![x.prefix] = x.uri] = us[i - 1]
        BY <2>4, <2>5, <2>6
    <2>12. [cs[i] EXCEPT ![d[2]] = Front(@)] = cs[i - 1]
        BY <2>4, <2>5, <2>6, <2>13, <2>14
    <2>. QED
        BY <2>1, <2>7, <2>10, <2>11, <2>12 DEF i
<1>3. \A k \in 1..m, v \in V : /\ step[<<k, v>>] \in V
                               /\ Un(k, v) \in V => step[<<k, v>>] = Un(k, v)
    OBVIOUS
<1>4. At(enc, 0)
    BY <1>1 DEF History
<1>. HIDE DEF Un, step, V, At, m
<1>5. PICK h : Recursive(h, m, V, enc, step)
    <2>1. Steps(m, V, step)
        BY <1>3 DEF Steps
    <2>2. enc \in V /\ m \in Nat
        BY <1>1 DEF V
    <2>. QED
        BY <2>1, <2>2, PrimitiveRecursion
<1>6. \A k \in 0..m : h[k] \in V /\ At(h[k], k)
    <2>. DEFINE T == {k \in 0..m : h[k] \in V /\ At(h[k], k)}
    <2>1. 0 \in T
        BY <1>1, <1>4, <1>5 DEF Recursive
    <2>2. ASSUME NEW k \in 0..m, k # m, k \in T PROVE k + 1 \in T
        <3>1. k + 1 \in 0..m /\ k + 1 \in 1..m /\ (k + 1) - 1 = k
            BY <1>1, <2>2
        <3>2. h[k + 1] = step[<<k + 1, h[k]>>]
            BY <1>5, <3>1 DEF Recursive
        <3>3. Un(k + 1, h[k]) \in V /\ At(Un(k + 1, h[k]), k + 1)
            BY <1>2, <2>2, <3>1
        <3>. QED
            BY <1>3, <2>2, <3>1, <3>2, <3>3
    <2>. HIDE DEF T
    <2>3. 0..m \subseteq T
        BY <1>1, <2>1, <2>2, Reaches
    <2>. QED
        BY <2>3 DEF T
<1>7. h = Def(h)
    <2>1. \A k \in 0..m : k # 0 => k \in 1..m
        BY <1>1
    <2>2. ASSUME NEW k \in 1..m PROVE h[k] = Un(k, h[k - 1])
        <3>1. k - 1 \in 0..m
            BY <1>1
        <3>2. h[k - 1] \in V /\ At(h[k - 1], k - 1) /\ h[k] = step[<<k, h[k - 1]>>]
            BY <1>5, <1>6, <3>1 DEF Recursive
        <3>. QED
            BY <1>2, <1>3, <3>2
    <2>. QED
        BY <1>5, <2>1, <2>2 DEF Recursive
<1>8. f = Def(f)
    BY <1>7
<1>. DEFINE e == tearDownState(enc)
<1>9. e = [f[m] EXCEPT !.state = SubSeq(@, 1, j - 1)]
    <2>1. Innermost(enc) = j /\ j # 0
        BY <1>1, InnermostIs
    <2>. QED
        BY <2>1 DEF tearDownState, m, Un
<1>. HIDE DEF f
<1>10. f[m] \in V /\ At(f[m], m)
    <2>. DEFINE T == {k \in 0..m : f[k] \in V /\ At(f[k], k)}
    <2>1. 0 \in T
        <3>1. f[0] = enc /\ enc \in V
            BY <1>1, <1>8 DEF V
        <3>. QED
            BY <1>1, <1>4, <3>1
    <2>2. ASSUME NEW k \in 0..m, k # m, k \in T PROVE k + 1 \in T
        <3>1. k + 1 \in 0..m /\ k + 1 \in 1..m /\ (k + 1) - 1 = k /\ k + 1 # 0
            BY <1>1, <2>2
        <3>2. f[k + 1] = Un(k + 1, f[k])
            BY <1>8, <3>1
        <3>3. Un(k + 1, f[k]) \in V /\ At(Un(k + 1, f[k]), k + 1)
            BY <1>2, <2>2, <3>1
        <3>. QED
            BY <3>1, <3>2, <3>3
    <2>. HIDE DEF T
    <2>3. 0..m \subseteq T
        BY <1>1, <2>1, <2>2, Reaches
    <2>4. m \in T
        BY <1>1, <2>3
    <2>. QED
        BY <2>4 DEF T
<1>11. f[m] \in Encoders /\ Uri(f[m]) = us[j] /\ Held(f[m]) = cs[j] /\ f[m].state = enc.state
    BY <1>1, <1>10 DEF V, At
<1>12. us[j] = us[j - 1] /\ cs[j] = cs[j - 1]
    BY DEF History, Step
<1>. DEFINE s == SubSeq(enc.state, 1, j - 1)
<1>13. s \in Seq(Entries) /\ Len(s) = j - 1 /\ \A i \in 1..(j - 1) : s[i] = enc.state[i]
    BY <1>1
<1>. HIDE DEF s, n
<1>14. e \in Encoders /\ e.state = s /\ Uri(e) = Uri(f[m]) /\ Held(e) = Held(f[m])
    <2>. HIDE DEF e
    <2>1. e = [f[m] EXCEPT !.state = s]
        BY <1>9, <1>11 DEF s, Encoders
    <2>. QED
        BY <1>11, <1>13, <2>1 DEF Encoders, Uri, Held, URIOf
<1>15. \E us2, cs2 : /\ History(e, us2, cs2)
                     /\ \A i \in 0..(j - 1) : us2[i] = us[i] /\ cs2[i] = cs[i]
    <2>. DEFINE us2 == [i \in 0..(j - 1) |-> us[i]]
                cs2 == [i \in 0..(j - 1) |-> cs[i]]
    <2>1. \A i \in 0..(j - 1) : us2[i] = us[i] /\ cs2[i] = cs[i] /\ i \in 0..n
        BY <1>1 DEF n
    <2>2. us2 \in [0..(j - 1) -> UriMaps] /\ cs2 \in [0..(j - 1) -> [KnownURIs -> Stacks]]
        BY <2>1 DEF History, n
    <2>. HIDE DEF us2, cs2, e
    <2>3. j - 1 \in 0..(j - 1) /\ \A i \in 1..(j - 1) : i \in 1..n /\ i - 1 \in 0..(j - 1) /\ i \in 0..(j - 1)
        BY <1>1 DEF n
    <2>4. us2[j - 1] = Uri(e) /\ cs2[j - 1] = Held(e)
        BY <1>11, <1>12, <1>14, <2>1, <2>3
    <2>5. ASSUME NEW i \in 1..(j - 1) PROVE Step(e.state[i], us2[i - 1], cs2[i - 1], us2[i], cs2[i])
        <3>1. Step(enc.state[i], us[i - 1], cs[i - 1], us[i], cs[i])
            BY <2>3 DEF History, n
        <3>. QED
            BY <1>13, <1>14, <2>1, <2>3, <3>1
    <2>6. Len(e.state) = j - 1
        BY <1>13, <1>14
    <2>8. ASSUME NEW i \in 0..(j - 1) PROVE Sound(us2[i], cs2[i])
        BY <2>1 DEF History, n
    <2>7. History(e, us2, cs2)
        BY <2>2, <2>4, <2>5, <2>6, <2>8 DEF History
    <2>. QED
        BY <2>1, <2>7
<1>. QED
    BY <1>13, <1>14, <1>15

-----------------------------------------------------------------------------
(* The scopes of the decoder *)

\* g is f with the declaration d.
Bound(f, d, g) ==
    /\ DOMAIN g = DOMAIN f \cup {d[1]} /\ g[d[1]] = d[2]
    /\ \A q \in DOMAIN f : q # d[1] => g[q] = f[q]

LEMMA BindBinds == \A f \in Maps, d \in Decls : Bound(f, d, Bind(f, d[1], d[2]))
<1>1. ASSUME NEW f \in Maps, NEW d \in Decls PROVE Bound(f, d, Bind(f, d[1], d[2]))
    BY BindIs DEF Bound
<1>. QED
    BY <1>1

ExtendTo(sc, ds, f) ==
    /\ f \in [0..Len(ds) -> Maps]
    /\ f[0] = sc
    /\ \A k \in 1..Len(ds) : f[k] = Bind(f[k - 1], ds[k][1], ds[k][2])
    /\ Extend(sc, ds) = f[Len(ds)]

LEMMA ExtendRecurs ==
    ASSUME NEW sc \in Maps, NEW ds \in ResourcesDecls \cup TagDecls
    PROVE  \E f : ExtendTo(sc, ds, f)
<1>. DEFINE n == Len(ds)
            V == Maps
            Add(k, v) == Bind(v, ds[k][1], ds[k][2])
            step == [kv \in (1..n) \X V |-> Add(kv[1], kv[2])]
            Def(h) == [k \in 0..n |-> IF k = 0 THEN sc ELSE Add(k, h[k - 1])]
            f == CHOOSE h : h = Def(h)
<1>1. n \in Nat /\ \A k \in 1..n : ds[k] \in Decls
    BY DeclsOf
<1>2. \A k \in 1..n, v \in V : step[<<k, v>>] = Add(k, v) /\ step[<<k, v>>] \in V
    BY <1>1, BindIs
<1>3. f = CHOOSE h : h = Def(h)
    OBVIOUS
<1>4. Extend(sc, ds) = f[n]
    BY DEF Extend
<1>. HIDE DEF step, V, Add, f
<1>5. PICK h : Recursive(h, n, V, sc, step)
    <2>1. Steps(n, V, step) /\ sc \in V
        BY <1>2 DEF Steps, V
    <2>. QED
        BY <1>1, <2>1, PrimitiveRecursion
<1>6. h = Def(h)
    <2>1. \A k \in 0..n : k # 0 => k \in 1..n
        BY <1>1
    <2>2. ASSUME NEW k \in 1..n PROVE h[k] = Add(k, h[k - 1])
        <3>1. k - 1 \in 0..n
            BY <1>1
        <3>2. h[k - 1] \in V /\ h[k] = step[<<k, h[k - 1]>>]
            BY <1>5, <3>1 DEF Recursive
        <3>. QED
            BY <1>2, <3>2
    <2>. QED
        BY <1>5, <2>1, <2>2 DEF Recursive
<1>7. f = Def(f)
    BY <1>3, <1>6
<1>8. f[0] = sc /\ \A k \in 1..n : f[k] = Add(k, f[k - 1])
    <2>1. f[0] = sc
        BY <1>1, <1>7
    <2>2. ASSUME NEW k \in 1..n PROVE f[k] = Add(k, f[k - 1])
        <3>1. k \in 0..n /\ k # 0
            BY <1>1
        <3>. QED
            BY <1>7, <3>1
    <2>. QED
        BY <2>1, <2>2
<1>9. \A k \in 0..n : f[k] \in V
    <2>. DEFINE T == {k \in 0..n : f[k] \in V}
    <2>1. 0 \in T
        BY <1>1, <1>8 DEF V
    <2>2. ASSUME NEW k \in 0..n, k # n, k \in T PROVE k + 1 \in T
        <3>1. k + 1 \in 0..n /\ k + 1 \in 1..n /\ (k + 1) - 1 = k
            BY <1>1, <2>2
        <3>2. f[k + 1] = Add(k + 1, f[k]) /\ f[k] \in V
            BY <1>8, <2>2, <3>1
        <3>. QED
            BY <1>2, <3>1, <3>2
    <2>. HIDE DEF T
    <2>3. 0..n \subseteq T
        BY <1>1, <2>1, <2>2, Reaches
    <2>. QED
        BY <2>3 DEF T
<1>10. f = [k \in 0..n |-> f[k]]
    BY <1>7
<1>. HIDE DEF n
<1>11. f \in [0..n -> V]
    BY <1>9, <1>10
<1>. QED
    BY <1>4, <1>8, <1>11 DEF ExtendTo, n, V, Add

\* A prefix has the URI that a declaration gives it, or the one of before.
LEMMA ExtendIs ==
    ASSUME NEW sc \in Maps, NEW ds \in ResourcesDecls \cup TagDecls
    PROVE  LET e == Extend(sc, ds)
           IN /\ e \in Maps
              /\ \A p \in DOMAIN sc : p \in DOMAIN e
              /\ \A k \in 1..Len(ds) : ds[k][1] \in DOMAIN e
              /\ \A p \in DOMAIN e : \/ \E k \in 1..Len(ds) : ds[k][1] = p /\ ds[k][2] = e[p]
                                     \/ p \in DOMAIN sc /\ e[p] = sc[p]
<1>. DEFINE n == Len(ds)
            Fine(k, e) ==
                /\ \A p \in DOMAIN sc : p \in DOMAIN e
                /\ \A i \in 1..k : ds[i][1] \in DOMAIN e
                /\ \A p \in DOMAIN e : \/ \E i \in 1..k : ds[i][1] = p /\ ds[i][2] = e[p]
                                       \/ p \in DOMAIN sc /\ e[p] = sc[p]
<1>1. PICK f : ExtendTo(sc, ds, f)
    BY ExtendRecurs
<1>2. n \in Nat /\ \A k \in 1..n : ds[k] \in Decls
    BY DeclsOf
<1>. DEFINE T == {k \in 0..n : Fine(k, f[k])}
<1>3. 0 \in T
    BY <1>1, <1>2 DEF ExtendTo
<1>4. ASSUME NEW k \in 0..n, k # n, k \in T PROVE k + 1 \in T
    <2>. DEFINE p == ds[k + 1][1]
                u == ds[k + 1][2]
    <2>1. k \in Nat /\ k + 1 \in 0..n /\ k + 1 \in 1..n /\ (k + 1) - 1 = k /\ ds[k + 1] \in Decls
        BY <1>2, <1>4
    <2>2. f[k] \in Maps /\ f[k + 1] = Bind(f[k], p, u)
        BY <1>1, <2>1 DEF ExtendTo
    <2>3. /\ DOMAIN f[k + 1] = DOMAIN f[k] \cup {p} /\ f[k + 1][p] = u
          /\ \A q \in DOMAIN f[k] : q # p => f[k + 1][q] = f[k][q]
        <3>1. Bound(f[k], ds[k + 1], f[k + 1])
            BY <2>1, <2>2, BindBinds
        <3>. QED
            BY <3>1 DEF Bound
    <2>4. Fine(k, f[k])
        BY <1>4
    <2>. HIDE DEF n
    <2>5. \A i \in 1..(k + 1) : i \in 1..k \/ i = k + 1
        BY <2>1
    <2>6. k + 1 \in 1..(k + 1) /\ \A i \in 1..k : i \in 1..(k + 1)
        BY <2>1
    <2>7. \A i \in 1..(k + 1) : ds[i][1] \in DOMAIN f[k + 1]
        BY <2>3, <2>4, <2>5
    <2>8. ASSUME NEW q \in DOMAIN f[k + 1]
          PROVE  \/ \E i \in 1..(k + 1) : ds[i][1] = q /\ ds[i][2] = f[k + 1][q]
                 \/ q \in DOMAIN sc /\ f[k + 1][q] = sc[q]
        <3>1. CASE q = p
            BY <2>3, <2>6, <3>1
        <3>2. CASE q # p
            BY <2>3, <2>4, <2>6, <3>2
        <3>. QED
            BY <3>1, <3>2
    <2>9. \A q \in DOMAIN sc : q \in DOMAIN f[k + 1]
        BY <2>3, <2>4
    <2>10. Fine(k + 1, f[k + 1])
        <3>. HIDE DEF p, u
        <3>. QED
            BY <2>7, <2>8, <2>9
    <2>. HIDE DEF Fine
    <2>. QED
        BY <2>1, <2>10
<1>. HIDE DEF T
<1>5. 0..n \subseteq T
    BY <1>2, <1>3, <1>4, Reaches
<1>6. n \in T /\ f[n] \in Maps
    BY <1>1, <1>2, <1>5 DEF ExtendTo
<1>7. Fine(n, f[n]) /\ Extend(sc, ds) = f[n]
    BY <1>1, <1>6 DEF T, ExtendTo
<1>. QED
    BY <1>6, <1>7

\* g has what f has.
Agrees(f, g) == \A p \in DOMAIN f : p \in DOMAIN g /\ g[p] = f[p]

LEMMA ExtendAgrees ==
    ASSUME NEW f \in Maps, NEW g \in Maps, Agrees(f, g), NEW ds \in ResourcesDecls \cup TagDecls
    PROVE  Agrees(Extend(f, ds), Extend(g, ds))
<1>. DEFINE n == Len(ds)
<1>1. PICK a : ExtendTo(f, ds, a)
    BY ExtendRecurs
<1>2. PICK b : ExtendTo(g, ds, b)
    BY ExtendRecurs
<1>3. n \in Nat /\ \A k \in 1..n : ds[k] \in Decls
    BY DeclsOf
<1>. DEFINE T == {k \in 0..n : Agrees(a[k], b[k])}
<1>4. 0 \in T
    BY <1>1, <1>2, <1>3 DEF ExtendTo
<1>5. ASSUME NEW k \in 0..n, k # n, k \in T PROVE k + 1 \in T
    <2>. DEFINE p == ds[k + 1][1]
                u == ds[k + 1][2]
    <2>1. k + 1 \in 0..n /\ k + 1 \in 1..n /\ (k + 1) - 1 = k /\ ds[k + 1] \in Decls
        BY <1>3, <1>5
    <2>2. /\ a[k] \in Maps /\ a[k + 1] = Bind(a[k], p, u)
          /\ b[k] \in Maps /\ b[k + 1] = Bind(b[k], p, u)
        BY <1>1, <1>2, <2>1 DEF ExtendTo
    <2>3. /\ DOMAIN a[k + 1] = DOMAIN a[k] \cup {p} /\ a[k + 1][p] = u
          /\ \A q \in DOMAIN a[k] : q # p => a[k + 1][q] = a[k][q]
          /\ DOMAIN b[k + 1] = DOMAIN b[k] \cup {p} /\ b[k + 1][p] = u
          /\ \A q \in DOMAIN b[k] : q # p => b[k + 1][q] = b[k][q]
        <3>1. Bound(a[k], ds[k + 1], a[k + 1]) /\ Bound(b[k], ds[k + 1], b[k + 1])
            BY <2>1, <2>2, BindBinds
        <3>. QED
            BY <3>1 DEF Bound
    <2>4. Agrees(a[k], b[k])
        BY <1>5
    <2>. HIDE DEF p, u
    <2>5. Agrees(a[k + 1], b[k + 1])
        BY <2>3, <2>4 DEF Agrees
    <2>. QED
        BY <2>1, <2>5
<1>. HIDE DEF T
<1>6. 0..n \subseteq T
    BY <1>3, <1>4, <1>5, Reaches
<1>7. n \in T
    BY <1>3, <1>6
<1>. QED
    BY <1>1, <1>2, <1>7 DEF T, ExtendTo

-----------------------------------------------------------------------------
(* What the encoder knows of a scope *)

\* Every prefix of sc has a URI, and for its URI in sc a prefix is left.
Sure(sc, u, c) == \A p \in DOMAIN sc : u[p] # Absent /\ Open(c, sc[p])

LEMMA EmptyIs == Empty \in Maps /\ DOMAIN Empty = {}
<1>1. Empty = [p \in DOMAIN Empty |-> Empty[p]] /\ DOMAIN Empty = {}
    BY DEF Empty
<1>. QED
    BY <1>1, InMaps

LEMMA Words == Absent # Unknown /\ Absent # Unbound
BY Zenon DEF Absent, Unknown, Unbound

\* The declarations of a tag are known when it is open.
LEMMA SureExtends ==
    ASSUME NEW sc \in Maps, NEW ds \in ResourcesDecls \cup TagDecls,
           NEW u0, NEW c0, NEW u1, NEW c1,
           Sure(sc, u0, c0), Grown(u0, c0, u1, c1), Counted(ds, Len(ds), u1, c1)
    PROVE  Sure(Extend(sc, ds), u1, c1)
<1>. DEFINE e == Extend(sc, ds)
<1>1. \A p \in DOMAIN e : \/ \E k \in 1..Len(ds) : ds[k][1] = p /\ ds[k][2] = e[p]
                          \/ p \in DOMAIN sc /\ e[p] = sc[p]
    BY ExtendIs
<1>2. ASSUME NEW p \in DOMAIN sc PROVE u1[p] # Absent /\ Open(c1, sc[p])
    BY MapFacts DEF Sure, Grown
<1>. HIDE DEF e
<1>3. ASSUME NEW p \in DOMAIN e PROVE u1[p] # Absent /\ Open(c1, e[p])
    <2>1. CASE \E k \in 1..Len(ds) : ds[k][1] = p /\ ds[k][2] = e[p]
        BY <2>1 DEF Counted
    <2>2. CASE p \in DOMAIN sc /\ e[p] = sc[p]
        BY <1>2, <2>2
    <2>. QED
        BY <1>1, <2>1, <2>2
<1>. QED
    BY <1>3 DEF Sure, e

LEMMA GrownTwice ==
    ASSUME NEW u0, NEW c0, NEW u1, NEW c1, NEW u2, NEW c2,
           Grown(u0, c0, u1, c1), Grown(u1, c1, u2, c2)
    PROVE  Grown(u0, c0, u2, c2)
BY DEF Grown

LEMMA SureGrows ==
    ASSUME NEW sc \in Maps, NEW u0, NEW c0, NEW u1, NEW c1,
           Sure(sc, u0, c0), Grown(u0, c0, u1, c1)
    PROVE  Sure(sc, u1, c1)
BY MapFacts DEF Sure, Grown

LEMMA CountedGrows ==
    ASSUME NEW ds \in ResourcesDecls \cup TagDecls, NEW u0, NEW c0, NEW u1, NEW c1,
           Counted(ds, Len(ds), u0, c0), Grown(u0, c0, u1, c1)
    PROVE  Counted(ds, Len(ds), u1, c1)
<1>1. ASSUME NEW k \in 1..Len(ds) PROVE Open(c1, ds[k][2]) /\ u1[ds[k][1]] # Absent
    <2>1. ds[k][1] \in KnownPrefixes /\ ds[k][2] \in KnownURIs
        BY DeclsOf, DeclFacts
    <2>. QED
        BY <2>1 DEF Counted, Grown
<1>. QED
    BY <1>1 DEF Counted

\* What is written for a name, and what it means.
LEMMA NameWritten ==
    ASSUME NEW enc \in Encoders, NEW sc \in Maps, Sure(sc, Uri(enc), Held(enc)),
           Sound(Uri(enc), Held(enc)), NEW p \in KnownPrefixes \cup {Absent}
    PROVE  LET w == translateName(enc, SpaceIn(sc, p))
               m == Means(sc, p)
           IN /\ p \in DOMAIN sc => m = sc[p] /\ <<w, m>> \in Decls /\ Uri(enc)[w] # Absent
              /\ p = Absent => w = Absent /\ m = Absent
              /\ p \notin DOMAIN sc \cup {Absent} =>
                    /\ m = Unbound
                    /\ w = Unknown \/ (w \in KnownPrefixes /\ Uri(enc)[w] # Absent)
<1>1. /\ DOMAIN sc \subseteq KnownPrefixes
      /\ \A q \in DOMAIN sc : <<q, sc[q]>> \in Decls /\ sc[q] \in KnownURIs
    BY MapFacts
<1>2. CASE p \in DOMAIN sc
    <2>. DEFINE u == sc[p]
                w == translateName(enc, u)
    <2>1. u \in KnownURIs /\ Open(Held(enc), u) /\ p # Absent
        BY <1>1, <1>2, Distinct DEF Sure
    <2>2. <<w, u>> \in Decls /\ Uri(enc)[w] # Absent
        BY <2>1, TranslateIs
    <2>4. SpaceIn(sc, p) = u /\ Means(sc, p) = u
        BY <1>2 DEF SpaceIn, Means
    <2>. QED
        BY <1>2, <2>1, <2>2, <2>4
<1>3. CASE p = Absent
    <2>1. p \notin DOMAIN sc
        BY <1>1, <1>3, Distinct
    <2>2. SpaceIn(sc, p) = Absent /\ Means(sc, p) = Absent
        BY <1>3, <2>1 DEF SpaceIn, Means
    <2>. QED
        BY <1>3, <2>1, <2>2, TranslateIs
<1>4. CASE p \notin DOMAIN sc \cup {Absent}
    <2>1. SpaceIn(sc, p) = p /\ Means(sc, p) = Unbound
        BY <1>4 DEF SpaceIn, Means
    <2>3. IF Uri(enc)[p] # Absent THEN translateName(enc, p) = p
          ELSE translateName(enc, p) = Unknown
        BY <1>4, TranslateIs
    <2>. QED
        BY <1>4, <2>1, <2>3
<1>. QED
    BY <1>2, <1>3, <1>4

\* A name resolves in its scope.
Resolves(w, uri, sc) ==
    OnePrefix(uri) /\ uri \in Range(sc) => w \in DOMAIN sc /\ sc[w] = uri

\* A prefix of the one URI is that which the scope has for it.
LEMMA OnlyPrefix ==
    ASSUME NEW sc \in Maps, NEW w, NEW uri, OnePrefix(uri), uri \in Range(sc), <<w, uri>> \in Decls
    PROVE  w \in DOMAIN sc /\ sc[w] = uri
<1>1. PICK q \in DOMAIN sc : sc[q] = uri
    BY DEF Range
<1>2. <<q, uri>> \in Decls
    BY <1>1, MapFacts
<1>. DEFINE a == <<q, uri>>
            z == <<w, uri>>
<1>3. a \in Decls /\ z \in Decls /\ a[2] = uri /\ z[2] = uri /\ a[1] = q /\ z[1] = w
    BY <1>2
<1>4. w = q
    <2>. HIDE DEF a, z
    <2>. QED
        BY <1>3 DEF OnePrefix
<1>. QED
    BY <1>1, <1>4

LEMMA NameResolves ==
    ASSUME NEW enc \in Encoders, NEW sc \in Maps, Sure(sc, Uri(enc), Held(enc)),
           Sound(Uri(enc), Held(enc)), NEW p \in KnownPrefixes \cup {Absent}
    PROVE  /\ Resolves(translateName(enc, SpaceIn(sc, p)), Means(sc, p), sc)
           /\ p \in DOMAIN sc \cup {Absent} => translateName(enc, SpaceIn(sc, p)) # Unknown
<1>. DEFINE w == translateName(enc, SpaceIn(sc, p))
            m == Means(sc, p)
<1>1. /\ p \in DOMAIN sc => m = sc[p] /\ <<w, m>> \in Decls
      /\ p = Absent => w = Absent /\ m = Absent
      /\ p \notin DOMAIN sc \cup {Absent} => m = Unbound
    BY NameWritten
<1>2. /\ DOMAIN sc \subseteq KnownPrefixes
      /\ \A q \in DOMAIN sc : sc[q] \in KnownURIs
    BY MapFacts
<1>3. Absent \notin Range(sc) /\ Unbound \notin Range(sc)
    BY <1>2, Distinct DEF Range
<1>. HIDE DEF w, m
<1>4. Resolves(w, m, sc)
    BY <1>1, <1>3, OnlyPrefix DEF Resolves
<1>6. p \in DOMAIN sc => w \in KnownPrefixes
    <2>1. ASSUME <<w, m>> \in Decls PROVE w \in KnownPrefixes
        <3>. DEFINE z == <<w, m>>
        <3>1. z \in Decls /\ z[1] = w
            BY <2>1
        <3>. HIDE DEF z
        <3>. QED
            BY <3>1, DeclFacts
    <2>. QED
        BY <1>1, <2>1
<1>5. p \in DOMAIN sc \cup {Absent} => w # Unknown
    BY <1>1, <1>6, Distinct, Words
<1>. QED
    BY <1>4, <1>5 DEF w, m

-----------------------------------------------------------------------------
(* The shadow encoder *)

\* Wherever the state can be unwound to, the prefixes of <resources> are known.
Shadow(enc, sc, us, cs) ==
    /\ History(enc, us, cs)
    /\ Len(enc.state) >= 1 /\ enc.state[1].kind = "element"
    /\ \A i \in 1..Len(enc.state) :
          enc.state[i].kind = "element" /\ i # 1 => Sure(sc, us[i - 1], cs[i - 1])
    /\ Sure(sc, Uri(enc), Held(enc))

\* A tag beneath <resources> was opened.
Deep(enc) == \E j \in 2..Len(enc.state) : enc.state[j].kind = "element"

\* No tag that is open has a name with a prefix.
Plain(enc) ==
    \A i \in 1..Len(enc.state) :
        enc.state[i].kind = "element" => enc.state[i].name.space = Absent

LEMMA NamesOf ==
    ASSUME NEW local \in {"resources", "tag", "child", "inner"},
           NEW space \in KnownURIs \cup KnownPrefixes \cup {Absent}
    PROVE  /\ Name(local, space) \in Names
           /\ Name(local, space).space = space
           /\ Element(Name(local, space)).kind = "element"
           /\ Element(Name(local, space)).name = Name(local, space)
BY DEF Names, Name, Element

LEMMA SoundNow ==
    ASSUME NEW enc \in Encoders, NEW us, NEW cs, History(enc, us, cs)
    PROVE  Sound(Uri(enc), Held(enc))
<1>1. Len(enc.state) \in 0..Len(enc.state)
    BY EncoderFacts
<1>. QED
    BY <1>1 DEF History

LEMMA FreshHistory ==
    ASSUME NEW enc \in Encoders, enc.state = << >>, Sound(Uri(enc), Held(enc))
    PROVE  History(enc, [i \in 0..0 |-> Uri(enc)], [i \in 0..0 |-> Held(enc)])
<1>. DEFINE us == [i \in 0..0 |-> Uri(enc)]
            cs == [i \in 0..0 |-> Held(enc)]
<1>1. Uri(enc) \in UriMaps /\ Held(enc) \in [KnownURIs -> Stacks]
    BY EncoderFacts
<1>2. us \in [0..0 -> UriMaps] /\ cs \in [0..0 -> [KnownURIs -> Stacks]]
    BY <1>1
<1>3. us[0] = Uri(enc) /\ cs[0] = Held(enc) /\ Len(enc.state) = 0
    OBVIOUS
<1>. HIDE DEF us, cs
<1>5. \A i \in 0..0 : Sound(us[i], cs[i])
    BY <1>3
<1>4. History(enc, us, cs)
    BY <1>2, <1>3, <1>5 DEF History
<1>. QED
    BY <1>4 DEF us, cs

LEMMA TopOpens ==
    ASSUME NEW enc \in Encoders, NEW sc \in Maps, NEW us, NEW cs, Shadow(enc, sc, us, cs),
           NEW name \in Names, NEW ds \in ResourcesDecls \cup TagDecls
    PROVE  LET e == setUpState(enc, name, ds)
           IN /\ e \in Encoders
              /\ \E us2, cs2 : Shadow(e, sc, us2, cs2)
              /\ Deep(e)
              /\ Grown(Uri(enc), Held(enc), Uri(e), Held(e))
              /\ Counted(ds, Len(ds), Uri(e), Held(e))
              /\ Sure(Extend(sc, ds), Uri(e), Held(e))
              /\ Only(ds, Len(ds), Uri(enc), Uri(e))
              /\ Plain(enc) /\ name.space = Absent => Plain(e)
<1>. DEFINE e == setUpState(enc, name, ds)
            l == Len(enc.state)
            n == Len(ds)
<1>1. Element(name).kind = "element" /\ Element(name).name = name
    BY DEF Element
<1>2. History(enc, us, cs)
    BY DEF Shadow
<1>3. /\ e \in Encoders
      /\ Opened(enc.state, name, e.state, n)
      /\ Grown(Uri(enc), Held(enc), Uri(e), Held(e))
      /\ Counted(ds, n, Uri(e), Held(e))
      /\ Only(ds, n, Uri(enc), Uri(e))
      /\ \E us2, cs2 : /\ History(e, us2, cs2)
                       /\ \A i \in 0..l : us2[i] = us[i] /\ cs2[i] = cs[i]
    BY <1>1, <1>2, SetUpIs
<1>4. PICK us2, cs2 : /\ History(e, us2, cs2)
                      /\ \A i \in 0..l : us2[i] = us[i] /\ cs2[i] = cs[i]
    BY <1>3
<1>. HIDE DEF e
<1>5. l \in Nat /\ l >= 1 /\ n \in Nat
    BY EncoderFacts, DeclsOf DEF Shadow
<1>6. /\ Uri(enc) \in UriMaps /\ Held(enc) \in [KnownURIs -> Stacks]
      /\ Uri(e) \in UriMaps /\ Held(e) \in [KnownURIs -> Stacks]
    BY <1>3, EncoderFacts
<1>7. Sure(sc, Uri(enc), Held(enc))
    BY DEF Shadow
<1>8. Sure(Extend(sc, ds), Uri(e), Held(e))
    BY <1>3, <1>6, <1>7, SureExtends
<1>9. Sure(sc, Uri(e), Held(e))
    BY <1>3, <1>6, <1>7, SureGrows
<1>. HIDE DEF n
<1>10. /\ Len(e.state) = l + 1 + n
       /\ \A i \in 1..l : e.state[i] = enc.state[i]
       /\ e.state[l + 1] = Element(name)
       /\ \A i \in (l + 2)..(l + 1 + n) : e.state[i].kind = "xmlns"
    BY <1>3 DEF Opened
<1>11. l + 1 \in 2..(l + 1 + n) /\ 1 \in 1..l
    BY <1>5
<1>12. Deep(e)
    BY <1>1, <1>10, <1>11 DEF Deep
<1>13. us2[l] = Uri(enc) /\ cs2[l] = Held(enc)
    <2>1. l \in 0..l
        BY <1>5
    <2>. QED
        BY <1>2, <1>4, <2>1 DEF History
<1>14. ASSUME NEW i \in 1..(l + 1 + n), e.state[i].kind = "element"
       PROVE  /\ i # 1 => Sure(sc, us2[i - 1], cs2[i - 1])
              /\ Plain(enc) /\ name.space = Absent => e.state[i].name.space = Absent
    <2>1. CASE i \in 1..l
        <3>1. i - 1 \in 0..l
            BY <1>5, <2>1
        <3>2. enc.state[i].kind = "element" /\ e.state[i] = enc.state[i]
            BY <1>10, <1>14, <2>1
        <3>3. us2[i - 1] = us[i - 1] /\ cs2[i - 1] = cs[i - 1]
            BY <1>4, <3>1
        <3>. QED
            BY <2>1, <3>2, <3>3 DEF Shadow, Plain
    <2>2. CASE i = l + 1
        <3>1. i - 1 = l
            BY <1>5, <2>2
        <3>2. e.state[i].name = name
            BY <1>1, <1>10, <2>2
        <3>. QED
            BY <1>7, <1>13, <3>1, <3>2
    <2>3. CASE i \in (l + 2)..(l + 1 + n)
        BY <1>10, <1>14, <2>3
    <2>4. i \in 1..l \/ i = l + 1 \/ i \in (l + 2)..(l + 1 + n)
        BY <1>5
    <2>. QED
        BY <2>1, <2>2, <2>3, <2>4
<1>15. Len(e.state) >= 1 /\ e.state[1].kind = "element"
    <2>1. e.state[1].kind = "element"
        BY <1>10, <1>11 DEF Shadow
    <2>2. l + 1 + n >= 1
        BY <1>5
    <2>. QED
        BY <1>10, <2>1, <2>2
<1>. HIDE DEF l
<1>16. Shadow(e, sc, us2, cs2)
    BY <1>4, <1>9, <1>10, <1>14, <1>15 DEF Shadow
<1>17. Plain(enc) /\ name.space = Absent => Plain(e)
    BY <1>10, <1>14 DEF Plain
<1>. QED
    BY <1>3, <1>8, <1>12, <1>16, <1>17 DEF e, n

\* The outermost tag.
LEMMA ShadowBegins ==
    ASSUME NEW ds \in ResourcesDecls \cup TagDecls
    PROVE  LET e == setUpState(NewEncoder, Name("resources", Absent), ds)
           IN /\ NewEncoder \in Encoders /\ e \in Encoders /\ Extend(Empty, ds) \in Maps
              /\ \E us, cs : Shadow(e, Extend(Empty, ds), us, cs)
              /\ Plain(e)
<1>. DEFINE name == Name("resources", Absent)
            enc == NewEncoder
            e == setUpState(enc, name, ds)
            sc == Extend(Empty, ds)
            n == Len(ds)
<1>1. /\ enc \in Encoders /\ enc.state = << >>
    <2>1. Empty \in Maps /\ DOMAIN Empty = {}
        BY EmptyIs
    <2>2. Empty \in Ups
        <3>1. Empty = [u \in DOMAIN Empty |-> Empty[u]] /\ DOMAIN Empty = {}
            BY DEF Empty
        <3>. QED
            BY <3>1, InUps
    <2>3. << >> \in Seq(Entries)
        OBVIOUS
    <2>. QED
        BY <2>1, <2>2, <2>3 DEF Encoders, NewEncoder
<1>2. name \in Names /\ name.space = Absent /\ Element(name).kind = "element" /\ Element(name).name = name
    BY NamesOf
<1>14. Sound(Uri(enc), Held(enc))
    <2>1. DOMAIN enc.up = {}
        BY DEF NewEncoder, Empty
    <2>2. \A u \in KnownURIs : Held(enc)[u] = <<Absent>>
        BY <2>1 DEF Held
    <2>3. Len(<<Absent>>) = 1
        OBVIOUS
    <2>. HIDE DEF enc
    <2>4. \A u \in KnownURIs : Len(Held(enc)[u]) = 1
        BY <2>2, <2>3
    <2>. QED
        BY <2>4 DEF Sound
<1>3. PICK us, cs : History(enc, us, cs)
    BY <1>1, <1>14, FreshHistory
<1>. HIDE DEF name, enc
<1>4. /\ e \in Encoders
      /\ Opened(enc.state, name, e.state, n)
      /\ Grown(Uri(enc), Held(enc), Uri(e), Held(e))
      /\ Counted(ds, n, Uri(e), Held(e))
      /\ \E us2, cs2 : /\ History(e, us2, cs2)
                       /\ \A i \in 0..Len(enc.state) : us2[i] = us[i] /\ cs2[i] = cs[i]
    BY <1>1, <1>2, <1>3, SetUpIs
<1>5. PICK us2, cs2 : History(e, us2, cs2)
    BY <1>4
<1>. HIDE DEF e
<1>6. /\ Uri(enc) \in UriMaps /\ Held(enc) \in [KnownURIs -> Stacks]
      /\ Uri(e) \in UriMaps /\ Held(e) \in [KnownURIs -> Stacks]
    BY <1>1, <1>4, EncoderFacts
<1>7. Sure(sc, Uri(e), Held(e))
    <2>1. Sure(Empty, Uri(enc), Held(enc))
        BY EmptyIs DEF Sure
    <2>. QED
        BY <1>4, <1>6, <2>1, EmptyIs, SureExtends
<1>8. sc \in Maps
    BY EmptyIs, ExtendIs
<1>9. n \in Nat
    BY DeclsOf
<1>. HIDE DEF n, sc
<1>10. /\ Len(e.state) = 1 + n
       /\ e.state[1] = Element(name)
       /\ \A i \in 2..(1 + n) : e.state[i].kind = "xmlns"
    <2>1. Len(enc.state) = 0
        BY <1>1
    <2>2. /\ Len(e.state) = 0 + 1 + n /\ e.state[0 + 1] = Element(name)
          /\ \A i \in (0 + 2)..(0 + 1 + n) : e.state[i].kind = "xmlns"
        BY <1>4, <2>1 DEF Opened
    <2>3. 0 + 1 + n = 1 + n /\ 0 + 1 = 1 /\ 0 + 2 = 2
        BY <1>9
    <2>. QED
        BY <2>2, <2>3
<1>11. \A i \in 1..(1 + n) : i = 1 \/ i \in 2..(1 + n)
    BY <1>9
<1>12. Len(e.state) >= 1
    BY <1>9, <1>10
<1>13. Shadow(e, sc, us2, cs2)
    BY <1>2, <1>5, <1>7, <1>10, <1>11, <1>12 DEF Shadow
<1>15. Plain(e)
    BY <1>2, <1>10, <1>11 DEF Plain
<1>. QED
    BY <1>1, <1>4, <1>8, <1>13, <1>15 DEF e, name, enc, sc

\* The innermost element.
LEMMA InnermostExists ==
    ASSUME NEW enc \in Encoders, NEW j0 \in 1..Len(enc.state), enc.state[j0].kind = "element"
    PROVE  \E j \in 1..Len(enc.state) :
               /\ j >= j0 /\ enc.state[j].kind = "element"
               /\ \A i \in (j + 1)..Len(enc.state) : enc.state[i].kind # "element"
<1>. DEFINE n == Len(enc.state)
            S == {k \in Nat : k \in 0..(n - j0) /\ enc.state[n - k].kind = "element"}
<1>1. n \in Nat /\ j0 \in Nat
    BY EncoderFacts
<1>. HIDE DEF n
<1>2. n - j0 \in S
    <2>1. n - (n - j0) = j0 /\ n - j0 \in Nat /\ n - j0 \in 0..(n - j0)
        BY <1>1 DEF n
    <2>. QED
        BY <2>1
<1>3. PICK k \in S : \A i \in S : k <= i
    BY <1>2, LeastOf
<1>4. /\ n - k \in 1..n /\ n - k >= j0 /\ enc.state[n - k].kind = "element"
    BY <1>1, <1>3 DEF n
<1>5. ASSUME NEW i \in (n - k + 1)..n, enc.state[i].kind = "element" PROVE FALSE
    <2>1. n - i \in Nat /\ n - i \in 0..(n - j0) /\ n - (n - i) = i /\ ~(k <= n - i)
        BY <1>1, <1>3, <1>4
    <2>2. n - i \in S
        BY <1>5, <2>1
    <2>. QED
        BY <1>3, <2>1, <2>2
<1>. QED
    BY <1>4, <1>5 DEF n

LEMMA TopCloses ==
    ASSUME NEW enc \in Encoders, NEW sc \in Maps, NEW us, NEW cs, Shadow(enc, sc, us, cs)
    PROVE  LET e == tearDownState(enc)
           IN /\ e \in Encoders
              /\ \A name : Plain(enc) /\ name.space = Absent => ~Unbalanced(enc, name)
              /\ Plain(enc) => Plain(e)
              /\ Deep(enc) => \E us2, cs2 : Shadow(e, sc, us2, cs2)
<1>. DEFINE e == tearDownState(enc)
            n == Len(enc.state)
<1>1. n \in Nat /\ n >= 1 /\ enc.state[1].kind = "element" /\ 1 \in 1..n
    BY EncoderFacts DEF Shadow
<1>2. \E j0 \in 1..n : enc.state[j0].kind = "element" /\ (Deep(enc) => j0 >= 2)
    <2>1. CASE Deep(enc)
        <3>1. PICK j \in 2..n : enc.state[j].kind = "element"
            BY <2>1 DEF Deep
        <3>2. j \in 1..n /\ j >= 2
            BY <1>1
        <3>. QED
            BY <3>1, <3>2
    <2>2. CASE ~Deep(enc)
        BY <1>1, <2>2
    <2>. QED
        BY <2>1, <2>2
<1>3. PICK j0 \in 1..n : enc.state[j0].kind = "element" /\ (Deep(enc) => j0 >= 2)
    BY <1>2
<1>4. PICK j \in 1..n : /\ j >= j0 /\ enc.state[j].kind = "element"
                        /\ \A i \in (j + 1)..n : enc.state[i].kind # "element"
    BY <1>3, InnermostExists
<1>5. Innermost(enc) = j
    BY <1>4, InnermostIs
<1>6. ASSUME NEW name, Plain(enc), name.space = Absent PROVE ~Unbalanced(enc, name)
    <2>1. enc.state[j].name.space = Absent
        BY <1>4, <1>6 DEF Plain
    <2>3. j # 0
        BY <1>1
    <2>. QED
        BY <1>5, <1>6, <2>1, <2>3 DEF Unbalanced
<1>7. /\ e \in Encoders /\ Len(e.state) = j - 1
      /\ \A i \in 1..(j - 1) : e.state[i] = enc.state[i]
      /\ \E us2, cs2 : /\ History(e, us2, cs2)
                       /\ \A i \in 0..(j - 1) : us2[i] = us[i] /\ cs2[i] = cs[i]
    <2>1. History(enc, us, cs)
        BY DEF Shadow
    <2>. QED
        BY <1>4, <2>1, TearDownIs
<1>8. ASSUME Deep(enc) PROVE \E u, c : Shadow(e, sc, u, c)
    <2>1. /\ j \in Nat /\ j >= 2 /\ j - 1 \in 1..(j - 1) /\ 1 \in 1..(j - 1)
          /\ \A i \in 1..(j - 1) : i \in 1..n /\ i - 1 \in 0..(j - 1)
          /\ j - 1 \in 0..(j - 1)
        BY <1>1, <1>3, <1>4, <1>8
    <2>2. PICK us2, cs2 : /\ History(e, us2, cs2)
                          /\ \A i \in 0..(j - 1) : us2[i] = us[i] /\ cs2[i] = cs[i]
        BY <1>7
    <2>. HIDE DEF e, n
    <2>3. Uri(e) = us[j - 1] /\ Held(e) = cs[j - 1]
        BY <1>7, <2>1, <2>2 DEF History
    <2>4. Sure(sc, Uri(e), Held(e))
        <3>1. j # 1
            BY <2>1
        <3>2. Sure(sc, us[j - 1], cs[j - 1])
            BY <1>4, <3>1 DEF Shadow, n
        <3>. QED
            BY <2>3, <3>2
    <2>5. Len(e.state) >= 1 /\ e.state[1].kind = "element"
        <3>1. j - 1 >= 1
            BY <2>1
        <3>. QED
            BY <1>1, <1>7, <2>1, <3>1
    <2>6. ASSUME NEW i \in 1..Len(e.state), e.state[i].kind = "element"
          PROVE  i # 1 => Sure(sc, us2[i - 1], cs2[i - 1])
        <3>1. i \in 1..(j - 1) /\ i \in 1..n /\ i - 1 \in 0..(j - 1)
            BY <1>7, <2>1
        <3>2. e.state[i] = enc.state[i]
            BY <1>7, <3>1
        <3>3. i # 1 => Sure(sc, us[i - 1], cs[i - 1])
            BY <2>6, <3>1, <3>2 DEF Shadow, n
        <3>. QED
            BY <2>2, <3>1, <3>2, <3>3
    <2>7. Shadow(e, sc, us2, cs2)
        BY <2>2, <2>4, <2>5, <2>6 DEF Shadow
    <2>. QED
        BY <2>7
<1>9. Plain(enc) => Plain(e)
    <2>1. \A i \in 1..(j - 1) : i \in 1..n
        BY <1>1, <1>4
    <2>. HIDE DEF e
    <2>. QED
        BY <1>7, <2>1 DEF Plain
<1>. QED
    BY <1>6, <1>7, <1>8, <1>9 DEF e

-----------------------------------------------------------------------------
(* The child encoder *)

\* The k-th open tag of the payload is at pos[k], and wherever the state can be unwound to,
\* the prefixes of the tags that are open there are known; in the first tag no other
\* prefix is known than was at the beginning.
Copied(enc, u0, c0, ns, scs, us, cs, pos) ==
    /\ History(enc, us, cs)
    /\ us[0] = u0 /\ cs[0] = c0
    /\ pos \in [1..(Len(ns) + 1) -> Nat]
    /\ pos[1] = 1 /\ pos[Len(ns) + 1] = Len(enc.state) + 1
    /\ \A m \in 1..(Len(ns) + 1), k \in 1..(Len(ns) + 1) : k < m => pos[k] < pos[m]
    /\ \A k \in 1..Len(ns) :
          /\ enc.state[pos[k]] = Element(ns[k])
          /\ \A i \in (pos[k] + 1)..(pos[k + 1] - 1) : enc.state[i].kind # "element"
    /\ \A m \in 1..(Len(ns) + 1), k \in 1..(Len(ns) + 1) :
          k <= m => Sure(scs[k], us[pos[m] - 1], cs[pos[m] - 1])
    /\ Len(ns) >= 1 =>
          \A p \in KnownPrefixes : us[pos[2] - 1][p] # Absent => u0[p] # Absent

LEMMA CopiedNow ==
    ASSUME NEW enc \in Encoders, NEW ns \in Seq(Names), NEW scs \in Seq(Maps), Len(scs) = Len(ns) + 1,
           NEW u0, NEW c0, NEW us, NEW cs, NEW pos, Copied(enc, u0, c0, ns, scs, us, cs, pos)
    PROVE  /\ Sound(Uri(enc), Held(enc))
           /\ Sure(Last(scs), Uri(enc), Held(enc))
           /\ Len(ns) = 1 => \A p \in KnownPrefixes : Uri(enc)[p] # Absent => u0[p] # Absent
<1>. DEFINE l == Len(enc.state)
            n == Len(ns)
<1>1. History(enc, us, cs)
    BY DEF Copied
<1>2. l \in Nat /\ n \in Nat /\ n + 1 \in 1..(n + 1) /\ n + 1 <= n + 1
    BY EncoderFacts
<1>3. pos[n + 1] = l + 1 /\ Sure(scs[n + 1], us[pos[n + 1] - 1], cs[pos[n + 1] - 1])
    BY <1>2 DEF Copied
<1>4. us[l] = Uri(enc) /\ cs[l] = Held(enc)
    BY <1>1 DEF History
<1>5. (l + 1) - 1 = l
    BY <1>2
<1>6. Last(scs) = scs[n + 1]
    BY DEF Last
<1>7. ASSUME n = 1 PROVE \A p \in KnownPrefixes : Uri(enc)[p] # Absent => u0[p] # Absent
    <2>1. pos[2] = l + 1 /\ n >= 1
        BY <1>3, <1>7
    <2>. QED
        BY <1>4, <1>5, <2>1 DEF Copied
<1>. QED
    BY <1>1, <1>3, <1>4, <1>5, <1>6, <1>7, SoundNow

LEMMA CopyBegins ==
    ASSUME NEW enc \in Encoders, NEW sc \in Maps, Sure(sc, Uri(enc), Held(enc)),
           Sound(Uri(enc), Held(enc))
    PROVE  LET e == ChildEncoder(enc)
           IN /\ e \in Encoders
              /\ \E us, cs, pos : Copied(e, Uri(enc), Held(enc), << >>, <<sc>>, us, cs, pos)
<1>. DEFINE e == ChildEncoder(enc)
            us == [i \in 0..0 |-> Uri(e)]
            cs == [i \in 0..0 |-> Held(e)]
            pos == [k \in 1..1 |-> 1]
            ns == << >>
<1>1. e \in Encoders /\ e.state = << >> /\ Uri(e) = Uri(enc) /\ Held(e) = Held(enc)
    <2>1. << >> \in Seq(Entries)
        OBVIOUS
    <2>. QED
        BY <2>1 DEF ChildEncoder, Encoders, Uri, Held, URIOf
<1>. HIDE DEF e
<1>2. History(e, us, cs)
    BY <1>1, FreshHistory
<1>3. us[0] = Uri(enc) /\ cs[0] = Held(enc)
    BY <1>1
<1>4. /\ pos \in [1..1 -> Nat] /\ pos[1] = 1
      /\ Len(ns) = 0 /\ Len(e.state) = 0 /\ Len(ns) + 1 = 1
    BY <1>1
<1>. HIDE DEF us, cs, pos, ns
<1>5. Sure(<<sc>>[1], us[pos[1] - 1], cs[pos[1] - 1])
    <2>1. pos[1] - 1 = 0 /\ <<sc>>[1] = sc
        BY <1>4
    <2>. QED
        BY <1>3, <2>1
<1>6. \A m \in 1..1, k \in 1..1 : m = 1 /\ k = 1 /\ ~(k < m)
    OBVIOUS
<1>7. Copied(e, Uri(enc), Held(enc), ns, <<sc>>, us, cs, pos)
    BY <1>2, <1>3, <1>4, <1>5, <1>6 DEF Copied
<1>. QED
    BY <1>1, <1>7 DEF e, ns

LEMMA CopyOpens ==
    ASSUME NEW enc \in Encoders, NEW ns \in Seq(Names), NEW scs \in Seq(Maps), Len(scs) = Len(ns) + 1,
           NEW u0, NEW c0, NEW us, NEW cs, NEW pos, Copied(enc, u0, c0, ns, scs, us, cs, pos),
           NEW name \in Names, NEW ds \in ResourcesDecls \cup TagDecls,
           Len(ns) = 0 => \A k \in 1..Len(ds) : u0[ds[k][1]] # Absent
    PROVE  LET e == setUpState(enc, name, ds)
               sc == Extend(Last(scs), ds)
           IN /\ e \in Encoders /\ sc \in Maps
              /\ Sure(sc, Uri(e), Held(e)) /\ Sound(Uri(e), Held(e))
              /\ Only(ds, Len(ds), Uri(enc), Uri(e))
              /\ \E us2, cs2, pos2 :
                    Copied(e, u0, c0, Append(ns, name), Append(scs, sc), us2, cs2, pos2)
<1>. DEFINE e == setUpState(enc, name, ds)
            sc == Extend(Last(scs), ds)
            l == Len(enc.state)
            d == Len(ds)
            n == Len(ns)
            ns2 == Append(ns, name)
            scs2 == Append(scs, sc)
<1>1. History(enc, us, cs)
    BY DEF Copied
<1>2. /\ e \in Encoders
      /\ Opened(enc.state, name, e.state, d)
      /\ Grown(Uri(enc), Held(enc), Uri(e), Held(e))
      /\ Counted(ds, d, Uri(e), Held(e))
      /\ Only(ds, d, Uri(enc), Uri(e))
      /\ \E us2, cs2 : /\ History(e, us2, cs2)
                       /\ \A i \in 0..l : us2[i] = us[i] /\ cs2[i] = cs[i]
    BY <1>1, SetUpIs
<1>3. PICK us2, cs2 : /\ History(e, us2, cs2)
                      /\ \A i \in 0..l : us2[i] = us[i] /\ cs2[i] = cs[i]
    BY <1>2
<1>. HIDE DEF e
<1>4. l \in Nat /\ d \in Nat /\ n \in Nat
    BY EncoderFacts, DeclsOf
<1>5. /\ Uri(enc) \in UriMaps /\ Held(enc) \in [KnownURIs -> Stacks]
      /\ Uri(e) \in UriMaps /\ Held(e) \in [KnownURIs -> Stacks]
    BY <1>2, EncoderFacts
<1>6. Last(scs) = scs[n + 1] /\ n + 1 \in 1..(n + 1) /\ \A k \in 1..(n + 1) : scs[k] \in Maps
    BY <1>4 DEF Last
<1>7. sc \in Maps
    BY <1>6, ExtendIs
<1>. HIDE DEF sc
<1>8. /\ Len(ns2) = n + 1 /\ ns2[n + 1] = name /\ (\A k \in 1..n : ns2[k] = ns[k])
      /\ scs2[n + 2] = sc /\ \A k \in 1..(n + 1) : scs2[k] = scs[k]
    <2>1. /\ Len(ns2) = n + 1 /\ ns2[n + 1] = name /\ (\A k \in 1..n : ns2[k] = ns[k])
        OBVIOUS
    <2>2. scs2[Len(scs) + 1] = sc /\ \A k \in 1..Len(scs) : scs2[k] = scs[k]
        BY <1>7
    <2>3. Len(scs) + 1 = n + 2
        BY <1>4
    <2>. QED
        BY <2>1, <2>2, <2>3
<1>. HIDE DEF ns2, scs2, n, l, d
<1>9. /\ pos \in [1..(n + 1) -> Nat] /\ pos[1] = 1 /\ pos[n + 1] = l + 1
      /\ \A m \in 1..(n + 1), k \in 1..(n + 1) : k < m => pos[k] < pos[m]
      /\ \A k \in 1..n :
            /\ enc.state[pos[k]] = Element(ns[k])
            /\ \A i \in (pos[k] + 1)..(pos[k + 1] - 1) : enc.state[i].kind # "element"
      /\ \A m \in 1..(n + 1), k \in 1..(n + 1) :
            k <= m => Sure(scs[k], us[pos[m] - 1], cs[pos[m] - 1])
      /\ us[0] = u0 /\ cs[0] = c0
      /\ n >= 1 => \A p \in KnownPrefixes : us[pos[2] - 1][p] # Absent => u0[p] # Absent
    BY DEF Copied, n, l
<1>10. \A k \in 1..(n + 1) : pos[k] \in 1..(l + 1) /\ (k # n + 1 => pos[k] \in 1..l)
    <2>1. ASSUME NEW k \in 1..(n + 1) PROVE pos[k] \in 1..(l + 1) /\ (k # n + 1 => pos[k] \in 1..l)
        <3>1. 1 \in 1..(n + 1) /\ n + 1 \in 1..(n + 1) /\ pos[k] \in Nat
            BY <1>4, <1>9
        <3>2. (1 < k => pos[1] < pos[k]) /\ (k < n + 1 => pos[k] < pos[n + 1])
            BY <1>9, <3>1
        <3>3. k = 1 \/ 1 < k
            OBVIOUS
        <3>4. k = n + 1 \/ k < n + 1
            BY <1>4
        <3>. QED
            BY <1>4, <1>9, <3>1, <3>2, <3>3, <3>4
    <2>. QED
        BY <2>1
<1>11. /\ Len(e.state) = l + 1 + d
       /\ \A i \in 1..l : e.state[i] = enc.state[i]
       /\ e.state[l + 1] = Element(name)
       /\ \A i \in (l + 2)..(l + 1 + d) : e.state[i].kind = "xmlns"
    BY <1>2 DEF Opened, l
<1>12. us[l] = Uri(enc) /\ cs[l] = Held(enc)
    BY <1>1 DEF History, l
<1>13. us2[l + 1 + d] = Uri(e) /\ cs2[l + 1 + d] = Held(e)
    BY <1>3, <1>11 DEF History
<1>14. \A k \in 1..(n + 1) : Sure(scs[k], Uri(enc), Held(enc))
    <2>1. ASSUME NEW k \in 1..(n + 1) PROVE Sure(scs[k], Uri(enc), Held(enc))
        <3>1. k <= n + 1 /\ n + 1 \in 1..(n + 1) /\ pos[n + 1] - 1 = l
            BY <1>4, <1>9
        <3>2. Sure(scs[k], us[pos[n + 1] - 1], cs[pos[n + 1] - 1])
            BY <1>9, <3>1
        <3>. QED
            BY <1>12, <3>1, <3>2
    <2>. QED
        BY <2>1
<1>15. Sure(sc, Uri(e), Held(e))
    BY <1>2, <1>5, <1>6, <1>14, SureExtends DEF sc, d
<1>16. \A k \in 1..(n + 1) : Sure(scs[k], Uri(e), Held(e))
    BY <1>2, <1>5, <1>6, <1>14, SureGrows
<1>. DEFINE pos2 == [k \in 1..(n + 2) |-> IF k = n + 2 THEN l + d + 2 ELSE pos[k]]
<1>17. /\ pos2 \in [1..(n + 2) -> Nat] /\ pos2[n + 2] = l + d + 2
       /\ \A k \in 1..(n + 1) : pos2[k] = pos[k]
    <2>1. \A k \in 1..(n + 2) : k # n + 2 => k \in 1..(n + 1)
        BY <1>4
    <2>2. l + d + 2 \in Nat /\ n + 2 \in 1..(n + 2) /\ \A k \in 1..(n + 1) : k \in 1..(n + 2) /\ k # n + 2
        BY <1>4
    <2>. QED
        BY <1>9, <2>1, <2>2
<1>. HIDE DEF pos2
<1>18. \A k \in 1..(n + 2) : k = n + 2 \/ k \in 1..(n + 1)
    BY <1>4
<1>19. ASSUME NEW m \in 1..(n + 2), NEW k \in 1..(n + 2), k < m PROVE pos2[k] < pos2[m]
    <2>1. k \in 1..(n + 1)
        BY <1>4, <1>18, <1>19
    <2>2. CASE m = n + 2
        BY <1>4, <1>10, <1>17, <2>1, <2>2
    <2>3. CASE m \in 1..(n + 1)
        BY <1>9, <1>17, <1>19, <2>1, <2>3
    <2>. QED
        BY <1>18, <2>2, <2>3
<1>20. ASSUME NEW k \in 1..(n + 1)
       PROVE  /\ e.state[pos2[k]] = Element(ns2[k])
              /\ \A i \in (pos2[k] + 1)..(pos2[k + 1] - 1) : e.state[i].kind # "element"
    <2>1. CASE k = n + 1
        <3>1. k + 1 = n + 2 /\ pos2[k] = l + 1 /\ pos2[n + 2] = l + d + 2
            BY <1>4, <1>9, <1>17, <2>1
        <3>2. (l + 1) + 1 = l + 2 /\ (l + d + 2) - 1 = l + 1 + d
            BY <1>4
        <3>. QED
            BY <1>8, <1>11, <2>1, <3>1, <3>2
    <2>2. CASE k # n + 1
        <3>1. k \in 1..n /\ k + 1 \in 1..(n + 1) /\ k \in 1..(n + 1)
            BY <1>4, <2>2
        <3>2. pos[k] \in 1..l /\ pos[k + 1] \in 1..(l + 1)
            BY <1>10, <2>2, <3>1
        <3>3. pos2[k] = pos[k] /\ pos2[k + 1] = pos[k + 1]
            BY <1>17, <3>1
        <3>4. \A i \in (pos[k] + 1)..(pos[k + 1] - 1) : i \in 1..l
            BY <1>4, <3>2
        <3>5. e.state[pos2[k]] = Element(ns2[k])
            <4>1. enc.state[pos[k]] = Element(ns[k])
                BY <1>9, <3>1
            <4>2. e.state[pos[k]] = enc.state[pos[k]]
                BY <1>11, <3>2
            <4>3. ns2[k] = ns[k]
                BY <1>8, <3>1
            <4>. QED
                BY <3>3, <4>1, <4>2, <4>3
        <3>6. \A i \in (pos2[k] + 1)..(pos2[k + 1] - 1) : e.state[i].kind # "element"
            BY <1>9, <1>11, <3>1, <3>3, <3>4
        <3>. QED
            BY <3>5, <3>6
    <2>. QED
        BY <2>1, <2>2
<1>21. ASSUME NEW m \in 1..(n + 2), NEW k \in 1..(n + 2), k <= m
       PROVE  Sure(scs2[k], us2[pos2[m] - 1], cs2[pos2[m] - 1])
    <2>1. CASE m = n + 2
        <3>1. pos2[m] - 1 = l + 1 + d
            BY <1>4, <1>17, <2>1
        <3>2. CASE k = n + 2
            BY <1>8, <1>13, <1>15, <3>1, <3>2
        <3>3. CASE k \in 1..(n + 1)
            BY <1>8, <1>13, <1>16, <3>1, <3>3
        <3>. QED
            BY <1>18, <3>2, <3>3
    <2>2. CASE m \in 1..(n + 1)
        <3>1. k \in 1..(n + 1)
            BY <1>4, <1>18, <1>21, <2>2
        <3>2. pos2[m] = pos[m] /\ pos[m] - 1 \in 0..l
            BY <1>4, <1>10, <1>17, <2>2
        <3>3. us2[pos[m] - 1] = us[pos[m] - 1] /\ cs2[pos[m] - 1] = cs[pos[m] - 1]
            BY <1>3, <3>2 DEF l
        <3>4. Sure(scs[k], us[pos[m] - 1], cs[pos[m] - 1])
            BY <1>9, <1>21, <2>2, <3>1
        <3>. QED
            BY <1>8, <3>1, <3>2, <3>3, <3>4
    <2>. QED
        BY <1>18, <2>1, <2>2
<1>22. us2[0] = u0 /\ cs2[0] = c0
    <2>1. 0 \in 0..l
        BY <1>4
    <2>. QED
        BY <1>3, <1>9, <2>1 DEF l
<1>24. \A p \in KnownPrefixes : us2[pos2[2] - 1][p] # Absent => u0[p] # Absent
    <2>1. CASE n = 0
        <3>1. pos2[2] - 1 = l + 1 + d /\ l = 0
            BY <1>4, <1>9, <1>17, <2>1
        <3>2. Uri(enc) = u0
            BY <1>9, <1>12, <3>1
        <3>3. \A k \in 1..d : u0[ds[k][1]] # Absent
            BY <2>1 DEF n, d
        <3>4. ASSUME NEW p \in KnownPrefixes, Uri(e)[p] # Absent PROVE u0[p] # Absent
            BY <1>2, <3>2, <3>3, <3>4 DEF Only
        <3>. QED
            BY <1>13, <3>1, <3>4
    <2>2. CASE n >= 1
        <3>1. 2 \in 1..(n + 1)
            BY <1>4, <2>2
        <3>2. pos2[2] = pos[2] /\ pos[2] - 1 \in 0..l
            BY <1>4, <1>10, <1>17, <3>1
        <3>3. us2[pos[2] - 1] = us[pos[2] - 1]
            BY <1>3, <3>2 DEF l
        <3>. QED
            BY <1>9, <2>2, <3>2, <3>3
    <2>. QED
        BY <1>4, <2>1, <2>2
<1>25. Sound(Uri(e), Held(e))
    BY <1>2, <1>3, SoundNow
<1>23. Copied(e, u0, c0, ns2, scs2, us2, cs2, pos2)
    <2>1. Len(ns2) + 1 = n + 2 /\ (l + 1 + d) + 1 = l + d + 2 /\ 1 \in 1..(n + 1)
        BY <1>4, <1>8
    <2>2. pos2[1] = 1 /\ pos2[Len(ns2) + 1] = Len(e.state) + 1
        BY <1>9, <1>11, <1>17, <2>1
    <2>3. History(e, us2, cs2)
        BY <1>3
    <2>. QED
        BY <1>8, <1>17, <1>19, <1>20, <1>21, <1>22, <1>24, <2>1, <2>2, <2>3 DEF Copied
<1>. QED
    BY <1>2, <1>7, <1>15, <1>23, <1>25 DEF e, sc, ns2, scs2, d

LEMMA CopyCloses ==
    ASSUME NEW enc \in Encoders, NEW ns \in Seq(Names), NEW scs \in Seq(Maps), Len(scs) = Len(ns) + 1,
           NEW u0, NEW c0, NEW us, NEW cs, NEW pos, Copied(enc, u0, c0, ns, scs, us, cs, pos),
           Len(ns) >= 1
    PROVE  LET e == tearDownState(enc)
           IN /\ e \in Encoders /\ ~Unbalanced(enc, Last(ns))
              /\ \E us2, cs2, pos2 : Copied(e, u0, c0, Front(ns), Front(scs), us2, cs2, pos2)
              /\ Len(ns) = 1 => e.state = << >> /\ Uri(e) = u0 /\ Held(e) = c0
<1>. DEFINE e == tearDownState(enc)
            l == Len(enc.state)
            n == Len(ns)
            j == pos[n]
            ns2 == Front(ns)
            scs2 == Front(scs)
<1>1. l \in Nat /\ n \in Nat /\ n >= 1
    BY EncoderFacts
<1>2. History(enc, us, cs)
    BY DEF Copied
<1>3. /\ Len(ns2) = n - 1 /\ (\A k \in 1..(n - 1) : ns2[k] = ns[k]) /\ Last(ns) = ns[n]
      /\ \A k \in 1..n : scs2[k] = scs[k]
    <2>1. Len(ns2) = n - 1 /\ \A k \in 1..(n - 1) : ns2[k] = ns[k]
        BY FrontIs
    <2>2. Last(ns) = ns[n]
        BY DEF Last
    <2>3. \A k \in 1..(Len(scs) - 1) : scs2[k] = scs[k]
        BY <1>1, FrontIs
    <2>4. Len(scs) - 1 = n
        BY <1>1
    <2>. QED
        BY <2>1, <2>2, <2>3, <2>4
<1>. HIDE DEF ns2, scs2, n, l, e
<1>4. /\ pos \in [1..(n + 1) -> Nat] /\ pos[1] = 1 /\ pos[n + 1] = l + 1
      /\ \A m \in 1..(n + 1), k \in 1..(n + 1) : k < m => pos[k] < pos[m]
      /\ \A k \in 1..n :
            /\ enc.state[pos[k]] = Element(ns[k])
            /\ \A i \in (pos[k] + 1)..(pos[k + 1] - 1) : enc.state[i].kind # "element"
      /\ \A m \in 1..(n + 1), k \in 1..(n + 1) :
            k <= m => Sure(scs[k], us[pos[m] - 1], cs[pos[m] - 1])
      /\ us[0] = u0 /\ cs[0] = c0
      /\ n >= 1 => \A p \in KnownPrefixes : us[pos[2] - 1][p] # Absent => u0[p] # Absent
    BY DEF Copied, n, l
<1>5. n \in 1..n /\ n \in 1..(n + 1) /\ n + 1 \in 1..(n + 1) /\ 1 \in 1..n /\ 1 \in 1..(n + 1) /\ n < n + 1
    BY <1>1
<1>6. /\ j \in 1..l
      /\ enc.state[j] = Element(ns[n]) /\ \A i \in (j + 1)..l : enc.state[i].kind # "element"
    <2>1. j \in Nat /\ j < l + 1
        BY <1>4, <1>5
    <2>2. j >= 1
        <3>1. n = 1 \/ 1 < n
            BY <1>1
        <3>2. 1 < n => 1 < j
            BY <1>4, <1>5
        <3>. QED
            BY <1>4, <2>1, <3>1, <3>2
    <2>3. (l + 1) - 1 = l
        BY <1>1
    <2>. QED
        BY <1>1, <1>4, <1>5, <2>1, <2>2, <2>3
<1>. HIDE DEF j
<1>7. enc.state[j].kind = "element" /\ enc.state[j].name = ns[n]
    BY <1>6 DEF Element
<1>8. ~Unbalanced(enc, Last(ns))
    <2>1. Innermost(enc) = j /\ j # 0
        BY <1>6, <1>7, InnermostIs DEF l
    <2>. QED
        BY <1>3, <1>7, <2>1 DEF Unbalanced
<1>. DEFINE pos2 == [k \in 1..n |-> pos[k]]
<1>9. /\ e \in Encoders /\ Len(e.state) = j - 1
      /\ \A i \in 1..(j - 1) : e.state[i] = enc.state[i]
      /\ \E us2, cs2 : /\ History(e, us2, cs2)
                       /\ \A i \in 0..(j - 1) : us2[i] = us[i] /\ cs2[i] = cs[i]
    BY <1>2, <1>6, <1>7, TearDownIs DEF l, e
<1>19. PICK us2, cs2 : /\ History(e, us2, cs2)
                       /\ \A i \in 0..(j - 1) : us2[i] = us[i] /\ cs2[i] = cs[i]
    BY <1>9
<1>10. /\ \A i \in 0..(j - 1) : us2[i] = us[i] /\ cs2[i] = cs[i]
       /\ \A k \in 1..n : pos2[k] = pos[k]
    BY <1>19
<1>11. pos2 \in [1..n -> Nat]
    <2>1. \A k \in 1..n : k \in 1..(n + 1)
        BY <1>1
    <2>. QED
        BY <1>4, <2>1
<1>. HIDE DEF pos2
<1>12. \A k \in 1..n : pos[k] \in 1..j /\ (k # n => pos[k] \in 1..(j - 1)) /\ k \in 1..(n + 1)
    <2>1. ASSUME NEW k \in 1..n
          PROVE  pos[k] \in 1..j /\ (k # n => pos[k] \in 1..(j - 1)) /\ k \in 1..(n + 1)
        <3>1. k \in 1..(n + 1) /\ pos[k] \in Nat
            BY <1>1, <1>4
        <3>2. (1 < k => pos[1] < pos[k]) /\ (k < n => pos[k] < j)
            BY <1>4, <1>5, <3>1 DEF j
        <3>3. (k = 1 \/ 1 < k) /\ (k = n \/ k < n)
            BY <1>1
        <3>4. k = n => pos[k] = j
            BY DEF j
        <3>5. pos[k] >= 1
            BY <1>4, <3>1, <3>2, <3>3
        <3>. QED
            BY <1>6, <3>1, <3>2, <3>3, <3>4, <3>5
    <2>. QED
        BY <2>1
<1>13. us2[0] = u0 /\ cs2[0] = c0
    <2>1. 0 \in 0..(j - 1)
        BY <1>6
    <2>. QED
        BY <1>4, <1>10, <2>1
<1>14. ASSUME NEW k \in 1..(n - 1)
       PROVE  /\ e.state[pos2[k]] = Element(ns2[k])
              /\ \A i \in (pos2[k] + 1)..(pos2[k + 1] - 1) : e.state[i].kind # "element"
    <2>1. k \in 1..n /\ k + 1 \in 1..n /\ k # n
        BY <1>1
    <2>2. pos[k] \in 1..(j - 1) /\ pos[k + 1] \in 1..j /\ pos2[k] = pos[k] /\ pos2[k + 1] = pos[k + 1]
        BY <1>10, <1>12, <2>1
    <2>3. \A i \in (pos[k] + 1)..(pos[k + 1] - 1) : i \in 1..(j - 1)
        BY <1>6, <2>2
    <2>4. enc.state[pos[k]] = Element(ns[k])
        BY <1>4, <2>1
    <2>5. e.state[pos[k]] = enc.state[pos[k]]
        BY <1>9, <2>2
    <2>6. ns2[k] = ns[k]
        BY <1>3
    <2>7. \A i \in (pos[k] + 1)..(pos[k + 1] - 1) : e.state[i].kind # "element"
        BY <1>4, <1>9, <2>1, <2>3
    <2>. QED
        BY <2>2, <2>4, <2>5, <2>6, <2>7
<1>15. ASSUME NEW m \in 1..n, NEW k \in 1..n, k <= m
       PROVE  Sure(scs2[k], us2[pos2[m] - 1], cs2[pos2[m] - 1])
    <2>1. pos2[m] = pos[m] /\ pos[m] - 1 \in 0..(j - 1)
        BY <1>6, <1>10, <1>12
    <2>2. us2[pos[m] - 1] = us[pos[m] - 1] /\ cs2[pos[m] - 1] = cs[pos[m] - 1]
        BY <1>10, <2>1
    <2>3. Sure(scs[k], us[pos[m] - 1], cs[pos[m] - 1])
        BY <1>4, <1>12, <1>15
    <2>. QED
        BY <1>3, <2>1, <2>2, <2>3
<1>16. ASSUME NEW m \in 1..n, NEW k \in 1..n, k < m PROVE pos2[k] < pos2[m]
    BY <1>4, <1>10, <1>12, <1>16
<1>20. ASSUME n - 1 >= 1
       PROVE  \A p \in KnownPrefixes : us2[pos2[2] - 1][p] # Absent => u0[p] # Absent
    <2>1. 2 \in 1..n
        BY <1>1, <1>20
    <2>2. pos2[2] = pos[2] /\ pos[2] - 1 \in 0..(j - 1)
        BY <1>6, <1>10, <1>12, <2>1
    <2>3. us2[pos[2] - 1] = us[pos[2] - 1]
        BY <1>10, <2>2
    <2>. QED
        BY <1>1, <1>4, <2>2, <2>3
<1>17. Copied(e, u0, c0, ns2, scs2, us2, cs2, pos2)
    <2>1. Len(ns2) + 1 = n /\ (j - 1) + 1 = j
        BY <1>1, <1>3, <1>6
    <2>2. pos2[1] = 1 /\ pos2[n] = Len(e.state) + 1
        BY <1>4, <1>5, <1>9, <1>10, <2>1 DEF j
    <2>. QED
        BY <1>3, <1>9, <1>19, <1>11, <1>13, <1>14, <1>15, <1>16, <1>20, <2>1, <2>2 DEF Copied
<1>18. ASSUME n = 1 PROVE e.state = << >> /\ Uri(e) = u0 /\ Held(e) = c0
    <2>1. j = 1 /\ Len(e.state) = 0
        BY <1>4, <1>9, <1>18 DEF j
    <2>2. e.state \in Seq(Entries)
        BY <1>9, EncoderFacts
    <2>3. us2[0] = Uri(e) /\ cs2[0] = Held(e)
        BY <1>19, <2>1 DEF History
    <2>. QED
        BY <1>13, <2>1, <2>2, <2>3
<1>. QED
    BY <1>8, <1>9, <1>17, <1>18 DEF e, ns2, scs2, n

-----------------------------------------------------------------------------
(* The steps, on constants *)

\* The shadow encoder beneath <resources>.
BeneathOK(par, sc) == sc \in Maps /\ par \in Encoders /\ \E us, cs : Shadow(par, sc, us, cs)

\* The children of a declare-styleable, as the payload has them: the prefix is one of the URI,
\* and known to the shadow encoder (u has the URIs of its prefixes) or declared by the child.
Children(sc, ds0, u) ==
    {x \in [decls : TagDecls, prefix : KnownPrefixes \cup {Absent}, ofTag : BOOLEAN,
            uri : KnownURIs \cup {Absent, Unbound}] :
        /\ \/ <<x.prefix, x.uri>> \in Decls /\ x.uri \in Range(Extend(Extend(sc, ds0), x.decls))
           \/ x.prefix = Absent /\ x.uri = Absent
           \/ UnboundNames /\ x.uri = Unbound
        /\ \/ x.prefix = Absent \/ u[x.prefix] # Absent
           \/ \E k \in 1..Len(x.decls) : x.decls[k][1] = x.prefix}

\* In a tag beneath <resources> with the declarations ds0, whose name has the prefix p0.
StyledOK(par, sc, ds0, p0, chs) ==
    /\ ds0 \in TagDecls /\ Deep(par)
    /\ Counted(ds0, Len(ds0), Uri(par), Held(par))
    /\ p0 \in KnownPrefixes \cup {Absent} /\ (p0 = Absent \/ Uri(par)[p0] # Absent)
    /\ chs \in Seq(Children(sc, ds0, Uri(par)))

\* The name's Space is one that the scope has, if all prefixes are bound.
Spaced(name, sc) == name.space \in {Absent} \cup Range(sc) \/ UnboundNames

\* In its payload.
PayloadOK(par, enc, ds0, ns, scs) ==
    /\ Len(ns) >= 1 /\ Len(scs) = Len(ns) + 1
    /\ scs[2] = Extend(scs[1], ds0)
    /\ \A k \in 1..Len(ns) : Spaced(ns[k], scs[k + 1])
    /\ \E us, cs, pos : Copied(enc, Uri(par), Held(par), ns, scs, us, cs, pos)

LEMMA SpaceOf ==
    ASSUME NEW sc \in Maps, NEW p \in KnownPrefixes \cup {Absent}, NEW ofTag \in BOOLEAN
    PROVE  LET space == TagSpace(sc, p, ofTag)
           IN /\ space \in KnownURIs \cup KnownPrefixes \cup {Absent}
              /\ p \in DOMAIN sc \cup {Absent} => space \in {Absent} \cup Range(sc)
              /\ ~(ofTag /\ p # Absent) => space = Absent
<1>1. /\ DOMAIN sc \subseteq KnownPrefixes /\ \A q \in DOMAIN sc : sc[q] \in KnownURIs
    BY MapFacts
<1>2. Absent \notin DOMAIN sc
    BY <1>1, Distinct
<1>. QED
    BY <1>1, <1>2 DEF TagSpace, SpaceIn, Range

LEMMA UsableIs ==
    ASSUME NEW sc \in Maps, NEW p \in Usable(sc)
    PROVE  /\ p \in KnownPrefixes \cup {Absent}
           /\ p \in DOMAIN sc \cup {Absent} \/ UnboundNames
BY MapFacts DEF Usable

LEMMA TagOpens ==
    ASSUME NEW par, NEW sc, BeneathOK(par, sc), NEW ds \in TagDecls, NEW name \in Names
    PROVE  LET e == setUpState(par, name, ds)
           IN /\ BeneathOK(e, sc) /\ e \in Encoders /\ Extend(sc, ds) \in Maps
              /\ Deep(e)
              /\ Grown(Uri(par), Held(par), Uri(e), Held(e))
              /\ Counted(ds, Len(ds), Uri(e), Held(e))
              /\ Sure(Extend(sc, ds), Uri(e), Held(e)) /\ Sound(Uri(e), Held(e))
              /\ Plain(par) /\ name.space = Absent => Plain(e)
<1>1. PICK us, cs : Shadow(par, sc, us, cs)
    BY DEF BeneathOK
<1>2. sc \in Maps /\ par \in Encoders /\ ds \in ResourcesDecls \cup TagDecls
    BY DEF BeneathOK
<1>. DEFINE e == setUpState(par, name, ds)
<1>3. /\ e \in Encoders
      /\ \E us2, cs2 : Shadow(e, sc, us2, cs2)
      /\ Deep(e)
      /\ Grown(Uri(par), Held(par), Uri(e), Held(e))
      /\ Counted(ds, Len(ds), Uri(e), Held(e))
      /\ Sure(Extend(sc, ds), Uri(e), Held(e))
      /\ Plain(par) /\ name.space = Absent => Plain(e)
    BY <1>1, <1>2, TopOpens
<1>4. Extend(sc, ds) \in Maps
    BY <1>2, ExtendIs
<1>. HIDE DEF e
<1>5. BeneathOK(e, sc)
    BY <1>2, <1>3 DEF BeneathOK
<1>6. Sound(Uri(e), Held(e))
    BY <1>3, SoundNow DEF Shadow
<1>. QED
    BY <1>3, <1>4, <1>5, <1>6 DEF e

LEMMA TagCloses ==
    ASSUME NEW par, NEW sc, BeneathOK(par, sc)
    PROVE  /\ tearDownState(par) \in Encoders
           /\ \A name : Plain(par) /\ name.space = Absent => ~Unbalanced(par, name)
           /\ Plain(par) => Plain(tearDownState(par))
           /\ Deep(par) => BeneathOK(tearDownState(par), sc)
<1>1. PICK us, cs : Shadow(par, sc, us, cs)
    BY DEF BeneathOK
<1>2. sc \in Maps /\ par \in Encoders
    BY DEF BeneathOK
<1>3. /\ tearDownState(par) \in Encoders
      /\ \A name : Plain(par) /\ name.space = Absent => ~Unbalanced(par, name)
      /\ Plain(par) => Plain(tearDownState(par))
      /\ Deep(par) => \E us2, cs2 : Shadow(tearDownState(par), sc, us2, cs2)
    BY <1>1, <1>2, TopCloses
<1>. QED
    BY <1>2, <1>3 DEF BeneathOK

\* The payload of a tag begins.
LEMMA PayloadBegins ==
    ASSUME NEW par, NEW scs \in Seq(Maps), Len(scs) = 1, BeneathOK(par, scs[1]), NEW ds \in TagDecls,
           Counted(ds, Len(ds), Uri(par), Held(par)),
           NEW name \in Names, Spaced(name, Extend(scs[1], ds))
    PROVE  LET e == setUpState(ChildEncoder(par), name, ds)
               sc == Extend(scs[1], ds)
           IN /\ e \in Encoders /\ sc \in Maps
              /\ Sure(sc, Uri(e), Held(e)) /\ Sound(Uri(e), Held(e))
              /\ \A p \in KnownPrefixes : Uri(e)[p] # Absent => Uri(par)[p] # Absent
              /\ PayloadOK(par, e, ds, <<name>>, Append(scs, sc))
<1>. DEFINE c == ChildEncoder(par)
            e == setUpState(c, name, ds)
            sc == Extend(scs[1], ds)
            one == <<scs[1]>>
            none == << >>
            ss == Append(scs, sc)
            nn == <<name>>
<1>1. /\ scs[1] \in Maps /\ par \in Encoders /\ ds \in ResourcesDecls \cup TagDecls
      /\ Sure(scs[1], Uri(par), Held(par)) /\ Sound(Uri(par), Held(par))
    BY SoundNow DEF BeneathOK, Shadow
<1>2. /\ c \in Encoders
      /\ \E us, cs, pos : Copied(c, Uri(par), Held(par), none, one, us, cs, pos)
    BY <1>1, CopyBegins
<1>3. PICK us, cs, pos : Copied(c, Uri(par), Held(par), none, one, us, cs, pos)
    BY <1>2
<1>5. /\ none \in Seq(Names) /\ one \in Seq(Maps) /\ Len(one) = Len(none) + 1
      /\ Last(one) = scs[1]
    BY <1>1 DEF Last
<1>6. one = scs /\ Append(none, name) = nn
    OBVIOUS
<1>10. \A k \in 1..Len(ds) : Uri(par)[ds[k][1]] # Absent
    BY DEF Counted
<1>. HIDE DEF c, one, none
<1>7. /\ e \in Encoders /\ sc \in Maps
      /\ Sure(sc, Uri(e), Held(e)) /\ Sound(Uri(e), Held(e))
      /\ \E us2, cs2, pos2 :
            Copied(e, Uri(par), Held(par), Append(none, name), Append(one, sc), us2, cs2, pos2)
    <2>. DEFINE s == Extend(Last(one), ds)
                u0 == Uri(par)
                c0 == Held(par)
    <2>1. s = sc
        BY <1>5
    <2>4. Len(none) = 0 => \A k \in 1..Len(ds) : u0[ds[k][1]] # Absent
        BY <1>10
    <2>. HIDE DEF e, sc, u0, c0
    <2>2. Copied(c, u0, c0, none, one, us, cs, pos)
        BY <1>3 DEF u0, c0
    <2>3. /\ e \in Encoders /\ s \in Maps
          /\ Sure(s, Uri(e), Held(e)) /\ Sound(Uri(e), Held(e))
          /\ \E us2, cs2, pos2 :
                Copied(e, u0, c0, Append(none, name), Append(one, s), us2, cs2, pos2)
        BY <1>1, <1>2, <1>5, <2>2, <2>4, CopyOpens DEF e
    <2>. HIDE DEF s
    <2>. QED
        BY <2>1, <2>3 DEF u0, c0
<1>8. /\ nn \in Seq(Names) /\ Len(nn) = 1 /\ nn[1] = name
      /\ ss \in Seq(Maps) /\ Len(ss) = 2 /\ ss[1] = scs[1] /\ ss[2] = sc
    <2>1. sc \in Maps
        BY <1>7
    <2>. HIDE DEF sc
    <2>2. ss \in Seq(Maps) /\ Len(scs) = 1 /\ Len(ss) = Len(scs) + 1 /\ ss[Len(scs) + 1] = sc
          /\ \A k \in 1..Len(scs) : ss[k] = scs[k]
        BY <2>1, AppendIs
    <2>3. nn \in Seq(Names) /\ Len(nn) = 1 /\ nn[1] = name
        OBVIOUS
    <2>. HIDE DEF ss, nn
    <2>4. Len(ss) = 2 /\ ss[2] = sc /\ ss[1] = scs[1]
        BY <2>2
    <2>. QED
        BY <2>2, <2>3, <2>4
<1>11. PICK us2, cs2, pos2 : Copied(e, Uri(par), Held(par), nn, ss, us2, cs2, pos2)
    BY <1>6, <1>7
<1>12. ss[2] = Extend(ss[1], ds) /\ Spaced(nn[1], ss[2])
    BY <1>8
<1>. HIDE DEF ss, nn, e, sc
<1>13. Len(ss) = Len(nn) + 1 /\ Len(nn) >= 1 /\ \A k \in 1..Len(nn) : k = 1 /\ k + 1 = 2
    BY <1>8
<1>9. PayloadOK(par, e, ds, nn, ss)
    BY <1>11, <1>12, <1>13 DEF PayloadOK
<1>14. \A p \in KnownPrefixes : Uri(e)[p] # Absent => Uri(par)[p] # Absent
    BY <1>7, <1>8, <1>11, <1>13, CopiedNow
<1>. QED
    BY <1>7, <1>9, <1>14 DEF e, c, ss, nn, sc

LEMMA PayloadOpens ==
    ASSUME NEW par, NEW enc \in Encoders, NEW ds0, NEW ns \in Seq(Names), NEW scs \in Seq(Maps),
           PayloadOK(par, enc, ds0, ns, scs), NEW name \in Names, NEW ds \in TagDecls,
           Spaced(name, Extend(Last(scs), ds))
    PROVE  LET e == setUpState(enc, name, ds)
               sc == Extend(Last(scs), ds)
           IN /\ e \in Encoders /\ sc \in Maps
              /\ Sure(sc, Uri(e), Held(e)) /\ Sound(Uri(e), Held(e))
              /\ Len(ns) = 1 => Only(ds, Len(ds), Uri(par), Uri(e))
              /\ PayloadOK(par, e, ds0, Append(ns, name), Append(scs, sc))
<1>. DEFINE e == setUpState(enc, name, ds)
            sc == Extend(Last(scs), ds)
            u0 == Uri(par)
            c0 == Held(par)
            nn == Append(ns, name)
            ss == Append(scs, sc)
<1>1. PICK us, cs, pos : Copied(enc, u0, c0, ns, scs, us, cs, pos)
    BY DEF PayloadOK
<1>2. /\ Len(scs) = Len(ns) + 1 /\ Len(ns) >= 1 /\ ds \in ResourcesDecls \cup TagDecls
      /\ scs[2] = Extend(scs[1], ds0) /\ Len(ns) \in Nat
      /\ \A k \in 1..Len(ns) : Spaced(ns[k], scs[k + 1])
    BY DEF PayloadOK
<1>. HIDE DEF u0, c0
<1>3. /\ e \in Encoders /\ sc \in Maps
      /\ Sure(sc, Uri(e), Held(e)) /\ Sound(Uri(e), Held(e))
      /\ Only(ds, Len(ds), Uri(enc), Uri(e))
      /\ \E us2, cs2, pos2 : Copied(e, u0, c0, nn, ss, us2, cs2, pos2)
    <2>1. Len(ns) = 0 => \A k \in 1..Len(ds) : u0[ds[k][1]] # Absent
        BY <1>2
    <2>. QED
        BY <1>1, <1>2, <2>1, CopyOpens
<1>7. Len(ns) = 1 => \A p \in KnownPrefixes : Uri(enc)[p] # Absent => u0[p] # Absent
    BY <1>1, <1>2, CopiedNow
<1>8. Spaced(name, sc)
    OBVIOUS
<1>. HIDE DEF e, sc
<1>9. Len(ns) = 1 => Only(ds, Len(ds), u0, Uri(e))
    BY <1>3, <1>7 DEF Only
<1>4. /\ Len(nn) = Len(ns) + 1 /\ nn[Len(ns) + 1] = name /\ \A k \in 1..Len(ns) : nn[k] = ns[k]
      /\ Len(ss) = Len(scs) + 1 /\ ss[Len(scs) + 1] = sc /\ \A k \in 1..Len(scs) : ss[k] = scs[k]
    BY <1>3, AppendIs
<1>. HIDE DEF nn, ss
<1>5. Len(nn) >= 1 /\ Len(ss) = Len(nn) + 1 /\ ss[2] = Extend(ss[1], ds0)
    <2>1. 1 \in 1..Len(scs) /\ 2 \in 1..Len(scs)
        BY <1>2
    <2>. QED
        BY <1>2, <1>4, <2>1
<1>10. ASSUME NEW k \in 1..Len(nn) PROVE Spaced(nn[k], ss[k + 1])
    <2>1. CASE k = Len(ns) + 1
        <3>1. ss[k + 1] = sc /\ nn[k] = name
            BY <1>2, <1>4, <2>1
        <3>. QED
            BY <1>8, <3>1
    <2>2. CASE k # Len(ns) + 1
        <3>1. k \in 1..Len(ns) /\ k + 1 \in 1..Len(scs)
            BY <1>2, <1>4, <2>2
        <3>. QED
            BY <1>2, <1>4, <3>1
    <2>. QED
        BY <2>1, <2>2
<1>6. PayloadOK(par, e, ds0, nn, ss)
    BY <1>3, <1>5, <1>10 DEF PayloadOK, u0, c0
<1>. QED
    BY <1>3, <1>6, <1>9 DEF e, sc, nn, ss, u0

LEMMA PayloadCloses ==
    ASSUME NEW par, NEW enc \in Encoders, NEW ds0, NEW ns \in Seq(Names), NEW scs \in Seq(Maps),
           PayloadOK(par, enc, ds0, ns, scs)
    PROVE  LET e == tearDownState(enc)
           IN /\ e \in Encoders /\ ~Unbalanced(enc, Last(ns))
              /\ UnboundNames \/ translateName(enc, Last(ns).space) # Unknown
              /\ Front(ns) \in Seq(Names) /\ Len(Front(ns)) = Len(ns) - 1
              /\ Front(scs) \in Seq(Maps) /\ Len(Front(scs)) = Len(ns) /\ Front(scs)[1] = scs[1]
              /\ Len(ns) > 1 => PayloadOK(par, e, ds0, Front(ns), Front(scs))
              /\ Len(ns) = 1 => e.state = << >> /\ Uri(e) = Uri(par) /\ Held(e) = Held(par)
<1>. DEFINE e == tearDownState(enc)
            u0 == Uri(par)
            c0 == Held(par)
            nn == Front(ns)
            ss == Front(scs)
<1>1. PICK us, cs, pos : Copied(enc, u0, c0, ns, scs, us, cs, pos)
    BY DEF PayloadOK
<1>2. Len(scs) = Len(ns) + 1 /\ Len(ns) >= 1 /\ scs[2] = Extend(scs[1], ds0) /\ Len(ns) \in Nat
      /\ \A k \in 1..Len(ns) : Spaced(ns[k], scs[k + 1])
    BY DEF PayloadOK
<1>. HIDE DEF u0, c0
<1>3. /\ e \in Encoders /\ ~Unbalanced(enc, Last(ns))
      /\ \E us2, cs2, pos2 : Copied(e, u0, c0, nn, ss, us2, cs2, pos2)
      /\ Len(ns) = 1 => e.state = << >> /\ Uri(e) = u0 /\ Held(e) = c0
    BY <1>1, <1>2, CopyCloses
<1>8. ASSUME ~UnboundNames PROVE translateName(enc, Last(ns).space) # Unknown
    <2>. DEFINE space == Last(ns).space
                sc == Last(scs)
    <2>1. sc \in Maps /\ Sure(sc, Uri(enc), Held(enc))
        <3>1. sc = scs[Len(scs)] /\ Len(scs) \in 1..Len(scs)
            BY <1>2 DEF Last
        <3>2. sc \in Maps
            BY <3>1
        <3>. QED
            BY <1>1, <1>2, <3>2, CopiedNow
    <2>2. space \in {Absent} \cup Range(sc)
        <3>1. Last(ns) = ns[Len(ns)] /\ sc = scs[Len(ns) + 1] /\ Len(ns) \in 1..Len(ns)
            BY <1>2 DEF Last
        <3>. QED
            BY <1>2, <1>8, <3>1 DEF Spaced
    <2>. HIDE DEF space, sc
    <2>3. CASE space = Absent
        BY <2>3, TranslateIs, Words DEF space
    <2>4. CASE space \in Range(sc)
        <3>1. PICK p \in DOMAIN sc : sc[p] = space
            BY <2>4 DEF Range
        <3>2. space \in KnownURIs /\ Open(Held(enc), space)
            BY <2>1, <3>1, MapFacts DEF Sure
        <3>. DEFINE z == <<translateName(enc, space), space>>
        <3>3. z \in Decls /\ z[1] = translateName(enc, space)
            BY <3>2, TranslateIs
        <3>. HIDE DEF z
        <3>4. translateName(enc, space) \in KnownPrefixes
            BY <3>3, DeclFacts
        <3>. QED
            BY <3>4, Distinct DEF space
    <2>. QED
        BY <2>2, <2>3, <2>4
<1>. HIDE DEF e
<1>4. nn \in Seq(Names) /\ Len(nn) = Len(ns) - 1 /\ \A k \in 1..(Len(ns) - 1) : nn[k] = ns[k]
    BY <1>2, FrontIs
<1>5. ss \in Seq(Maps) /\ Len(ss) = Len(scs) - 1 /\ \A k \in 1..(Len(scs) - 1) : ss[k] = scs[k]
    <2>1. Len(scs) >= 1
        BY <1>2
    <2>. QED
        BY <2>1, FrontIs
<1>. HIDE DEF nn, ss
<1>6. Len(ss) = Len(ns) /\ ss[1] = scs[1]
    BY <1>2, <1>5
<1>7. ASSUME Len(ns) > 1 PROVE PayloadOK(par, e, ds0, nn, ss)
    <2>1. ss[2] = scs[2] /\ Len(nn) >= 1 /\ Len(ss) = Len(nn) + 1
        BY <1>2, <1>4, <1>5, <1>6, <1>7
    <2>2. ss[2] = Extend(ss[1], ds0)
        BY <1>2, <1>6, <2>1
    <2>3. ASSUME NEW k \in 1..Len(nn) PROVE Spaced(nn[k], ss[k + 1])
        <3>1. k \in 1..(Len(ns) - 1) /\ k \in 1..Len(ns) /\ k + 1 \in 1..(Len(scs) - 1)
            BY <1>2, <1>4
        <3>. QED
            BY <1>2, <1>4, <1>5, <3>1
    <2>. QED
        BY <1>3, <2>1, <2>2, <2>3 DEF PayloadOK, u0, c0
<1>. QED
    BY <1>3, <1>4, <1>5, <1>6, <1>7, <1>8 DEF e, nn, ss, u0, c0

\* A child of a declare-styleable: the declarations of the tag around it, of the child and of
\* <resources> are all known to the encoder of its payload.
LEMMA StyledWrites ==
    ASSUME NEW par, NEW sc, BeneathOK(par, sc), NEW ds0, NEW p0, NEW chs,
           StyledOK(par, sc, ds0, p0, chs),
           NEW x \in Children(sc, ds0, Uri(par)), NEW name \in Names
    PROVE  LET e == setUpState(par, name, x.decls)
               c == setUpState(ChildEncoder(e), name, x.decls)
               w == translateName(c, SpaceIn(Extend(Extend(Empty, ds0), x.decls), x.prefix))
           IN /\ Resolves(w, x.uri, Extend(sc, x.decls))
              /\ UnboundNames \/ w # Unknown
<1>. DEFINE ds == x.decls
            p == x.prefix
            e == setUpState(par, name, ds)
            b == ChildEncoder(e)
            c == setUpState(b, name, ds)
            in0 == Extend(Empty, ds0)
            in1 == Extend(in0, ds)
            all0 == Extend(sc, ds0)
            all1 == Extend(all0, ds)
            top == Extend(sc, ds)
            w == translateName(c, SpaceIn(in1, p))
<1>1. /\ sc \in Maps /\ par \in Encoders /\ Sure(sc, Uri(par), Held(par))
      /\ ds0 \in TagDecls /\ ds0 \in ResourcesDecls \cup TagDecls
      /\ Counted(ds0, Len(ds0), Uri(par), Held(par))
    BY DEF BeneathOK, Shadow, StyledOK
<1>2. /\ ds \in TagDecls /\ ds \in ResourcesDecls \cup TagDecls
      /\ p \in KnownPrefixes \cup {Absent}
      /\ \/ <<p, x.uri>> \in Decls /\ x.uri \in Range(all1)
         \/ p = Absent /\ x.uri = Absent
         \/ UnboundNames /\ x.uri = Unbound
      /\ \/ p = Absent \/ Uri(par)[p] # Absent \/ \E k \in 1..Len(ds) : ds[k][1] = p
    BY DEF Children
<1>. HIDE DEF ds, p, e, b, c, in0, in1, all0, all1, top, w
<1>3. /\ e \in Encoders
      /\ Grown(Uri(par), Held(par), Uri(e), Held(e)) /\ Sound(Uri(e), Held(e))
    BY <1>2, TagOpens DEF e
<1>4. /\ b \in Encoders /\ b.state = << >> /\ Uri(b) = Uri(e) /\ Held(b) = Held(e)
    <2>1. << >> \in Seq(Entries)
        OBVIOUS
    <2>. QED
        BY <1>3, <2>1 DEF b, ChildEncoder, Encoders, Uri, Held, URIOf
<1>5. /\ c \in Encoders
      /\ Grown(Uri(b), Held(b), Uri(c), Held(c))
      /\ Counted(ds, Len(ds), Uri(c), Held(c)) /\ Sound(Uri(c), Held(c))
    <2>2. PICK us, cs : History(b, us, cs)
        BY <1>3, <1>4, FreshHistory
    <2>. DEFINE f == setUpState(b, name, ds)
    <2>3. /\ f \in Encoders
          /\ Grown(Uri(b), Held(b), Uri(f), Held(f))
          /\ Counted(ds, Len(ds), Uri(f), Held(f))
          /\ \E us2, cs2 : History(f, us2, cs2)
        BY <1>2, <1>4, <2>2, SetUpIs
    <2>. HIDE DEF f
    <2>4. Sound(Uri(f), Held(f))
        BY <2>3, SoundNow
    <2>. QED
        BY <2>3, <2>4 DEF c, f
<1>7. Grown(Uri(par), Held(par), Uri(c), Held(c))
    BY <1>3, <1>4, <1>5, GrownTwice
<1>8. Empty \in Maps /\ DOMAIN Empty = {}
    BY EmptyIs
<1>9. in0 \in Maps /\ Sure(in0, Uri(c), Held(c))
    <2>1. Counted(ds0, Len(ds0), Uri(c), Held(c))
        BY <1>1, <1>7, CountedGrows
    <2>2. Sure(Empty, Uri(par), Held(par))
        BY <1>8 DEF Sure
    <2>3. in0 \in Maps
        BY <1>1, <1>8, ExtendIs DEF in0
    <2>4. Sure(in0, Uri(c), Held(c))
        BY <1>1, <1>7, <1>8, <2>1, <2>2, SureExtends DEF in0
    <2>. QED
        BY <2>3, <2>4
<1>10. in1 \in Maps /\ Sure(in1, Uri(c), Held(c))
    <2>1. in1 \in Maps
        BY <1>2, <1>9, ExtendIs DEF in1
    <2>2. Grown(Uri(c), Held(c), Uri(c), Held(c))
        BY DEF Grown
    <2>3. Sure(in1, Uri(c), Held(c))
        BY <1>2, <1>5, <1>9, <2>2, SureExtends DEF in1
    <2>. QED
        BY <2>1, <2>3
<1>11. all0 \in Maps /\ all1 \in Maps /\ top \in Maps
    BY <1>1, <1>2, ExtendIs DEF all0, all1, top
<1>12. Agrees(in1, all1)
    <2>1. Agrees(Empty, sc)
        BY <1>8 DEF Agrees
    <2>2. Agrees(in0, all0)
        BY <1>1, <1>8, <2>1, ExtendAgrees DEF in0, all0
    <2>. QED
        BY <1>2, <1>9, <1>11, <2>2, ExtendAgrees DEF in1, all1
<1>18. /\ p \in DOMAIN in1 => <<w, in1[p]>> \in Decls
       /\ p = Absent => w = Absent
    BY <1>2, <1>5, <1>10, NameWritten DEF w, Means
<1>19. p \notin DOMAIN in1 \cup {Absent} => w = p /\ p \in KnownPrefixes
    <2>. SUFFICES ASSUME p \notin DOMAIN in1 \cup {Absent} PROVE w = p /\ p \in KnownPrefixes
        OBVIOUS
    <2>1. p \in KnownPrefixes
        BY <1>2
    <2>2. \A k \in 1..Len(ds) : ds[k][1] \in DOMAIN in1
        BY <1>2, <1>9, ExtendIs DEF in1
    <2>3. Uri(par)[p] # Absent
        BY <1>2, <2>2
    <2>4. Uri(c)[p] # Absent
        BY <1>7, <2>1, <2>3 DEF Grown
    <2>5. SpaceIn(in1, p) = p
        BY DEF SpaceIn
    <2>. QED
        BY <1>5, <2>1, <2>4, <2>5, TranslateIs DEF w
<1>20. w # Unknown
    <2>1. p \in DOMAIN in1 => w \in KnownPrefixes
        <3>. DEFINE z == <<w, in1[p]>>
        <3>1. z[1] = w /\ (p \in DOMAIN in1 => z \in Decls)
            BY <1>18
        <3>. HIDE DEF z
        <3>. QED
            BY <3>1, DeclFacts
    <2>. QED
        BY <1>18, <1>19, <2>1, Distinct, Words
<1>13. \A q \in DOMAIN top : top[q] \in KnownURIs
    BY <1>11, MapFacts
<1>15. Absent \notin Range(top) /\ Unbound \notin Range(top)
    BY <1>13, Distinct DEF Range
<1>14. CASE <<p, x.uri>> \in Decls /\ x.uri \in Range(all1)
    <2>4. ASSUME OnePrefix(x.uri), x.uri \in Range(top) PROVE w \in DOMAIN top /\ top[w] = x.uri
        <3>1. p \in DOMAIN all1 /\ all1[p] = x.uri
            BY <1>11, <1>14, <2>4, OnlyPrefix
        <3>2. p # Absent
            BY <1>11, <3>1, MapFacts, Distinct
        <3>3. <<w, x.uri>> \in Decls
            <4>1. CASE p \in DOMAIN in1
                <5>1. in1[p] = x.uri
                    BY <1>12, <3>1, <4>1 DEF Agrees
                <5>. QED
                    BY <1>18, <4>1, <5>1
            <4>2. CASE p \notin DOMAIN in1
                BY <1>14, <1>19, <3>2, <4>2
            <4>. QED
                BY <4>1, <4>2
        <3>. QED
            BY <1>11, <2>4, <3>3, OnlyPrefix
    <2>5. Resolves(w, x.uri, top)
        BY <2>4 DEF Resolves
    <2>. QED
        BY <1>20, <2>5 DEF w, c, b, e, ds, in0, in1, p, top
<1>16. CASE p = Absent /\ x.uri = Absent
    <2>. QED
        BY <1>15, <1>16, <1>20 DEF Resolves, w, c, b, e, ds, in0, in1, p, top
<1>17. CASE UnboundNames /\ x.uri = Unbound
    BY <1>15, <1>17 DEF Resolves, top, ds
<1>. QED
    BY <1>2, <1>14, <1>16, <1>17

\* The end tag of a declare-styleable has a name that can be written.
LEMMA StyledEnds ==
    ASSUME NEW par, NEW sc, BeneathOK(par, sc), NEW ds0, NEW p0, NEW chs,
           StyledOK(par, sc, ds0, p0, chs)
    PROVE  LET space == SpaceIn(Extend(Empty, ds0), p0)
           IN /\ translateName(par, space) # Unknown
              /\ p0 = Absent => space = Absent
<1>. DEFINE in0 == Extend(Empty, ds0)
            space == SpaceIn(in0, p0)
<1>1. /\ par \in Encoders /\ ds0 \in ResourcesDecls \cup TagDecls
      /\ Counted(ds0, Len(ds0), Uri(par), Held(par)) /\ Sound(Uri(par), Held(par))
      /\ p0 \in KnownPrefixes \cup {Absent} /\ (p0 = Absent \/ Uri(par)[p0] # Absent)
    BY SoundNow DEF BeneathOK, Shadow, StyledOK
<1>2. in0 \in Maps /\ Sure(in0, Uri(par), Held(par))
    <2>1. Empty \in Maps /\ DOMAIN Empty = {}
        BY EmptyIs
    <2>2. Grown(Uri(par), Held(par), Uri(par), Held(par)) /\ Sure(Empty, Uri(par), Held(par))
        BY <2>1 DEF Grown, Sure
    <2>. QED
        BY <1>1, <2>1, <2>2, ExtendIs, SureExtends
<1>. HIDE DEF in0
<1>3. Absent \notin DOMAIN in0
    BY <1>2, MapFacts, Distinct
<1>4. p0 \in DOMAIN in0 \cup {Absent} => translateName(par, space) # Unknown
    BY <1>1, <1>2, NameResolves
<1>5. ASSUME p0 \notin DOMAIN in0 \cup {Absent} PROVE translateName(par, space) # Unknown
    <2>1. p0 \in KnownPrefixes /\ Uri(par)[p0] # Absent
        BY <1>1, <1>5
    <2>2. space = p0
        BY <1>5 DEF SpaceIn
    <2>3. translateName(par, p0) = p0
        BY <1>1, <2>1, TranslateIs
    <2>. QED
        BY <2>1, <2>2, <2>3, Distinct
<1>6. p0 = Absent => space = Absent
    BY <1>3 DEF SpaceIn
<1>. QED
    BY <1>4, <1>5, <1>6 DEF in0

\* The children stay what they are while the shadow encoder is given more.
LEMMA StyledGrows ==
    ASSUME NEW sc, NEW ds0, NEW u0, NEW c0, NEW u1, NEW c1, Grown(u0, c0, u1, c1),
           NEW chs \in Seq(Children(sc, ds0, u0))
    PROVE  chs \in Seq(Children(sc, ds0, u1))
<1>1. ASSUME NEW x \in Children(sc, ds0, u0) PROVE x \in Children(sc, ds0, u1)
    <2>1. x.prefix \in KnownPrefixes \cup {Absent}
        BY DEF Children
    <2>2. x.prefix # Absent /\ u0[x.prefix] # Absent => u1[x.prefix] # Absent
        BY <2>1 DEF Grown
    <2>. QED
        BY <2>2 DEF Children
<1>. DEFINE A == Children(sc, ds0, u0)
            B == Children(sc, ds0, u1)
<1>2. A \subseteq B /\ chs \in Seq(A)
    BY <1>1
<1>. HIDE DEF A, B
<1>3. chs \in Seq(B)
    BY <1>2
<1>. QED
    BY <1>3 DEF B


-----------------------------------------------------------------------------
(* The invariant *)

Fine ==
    /\ mode \in {"start", "res", "copy", "styleable", "done", "failed", "unbalanced"}
    /\ prefixed \in BOOLEAN
    /\ tags \in 0..MaxTags
    /\ names \in Seq(Names) /\ Len(names) <= MaxDepth
    /\ scope \in Seq(Maps) /\ Len(scope) <= MaxDepth + 1
    /\ parent \in Encoders /\ child \in Encoders

\* What was written resolves, only a name that is not bound can fail, and only a tag with
\* a prefix can seem to have no end.
Written ==
    /\ mode # "failed" => Resolves(wrote.prefix, wrote.uri, wrote.scope)
    /\ mode = "failed" => UnboundNames
    /\ mode = "unbalanced" => prefixed

Placed ==
    /\ mode = "start" => parent = NewEncoder
    /\ mode \in {"res", "copy", "styleable"} => BeneathOK(parent, scope[1])
    /\ mode \in {"res", "styleable"} => Len(scope) = 1
    /\ mode \in {"copy", "styleable"} =>
          StyledOK(parent, scope[1], own.decls, own.prefix, children)
    /\ mode = "copy" => PayloadOK(parent, child, own.decls, names, scope)
    /\ mode \in {"res", "copy", "styleable"} /\ ~prefixed => Plain(parent)
    /\ mode \in {"copy", "styleable"} /\ ~prefixed => own.prefix = Absent

IInv == Fine /\ Written /\ Placed

LEMMA BoundsAre == MaxTags \in Nat /\ MaxDepth \in Nat /\ MaxDepth >= 1 /\ UnboundNames \in BOOLEAN
BY DeclsAssumption

LEMMA Starts == Init => IInv
<1>. SUFFICES ASSUME Init PROVE IInv
    OBVIOUS
<1>1. NewEncoder \in Encoders
    <2>1. Empty \in Maps
        BY EmptyIs
    <2>2. Empty \in Ups
        <3>1. Empty = [u \in DOMAIN Empty |-> Empty[u]] /\ DOMAIN Empty = {}
            BY DEF Empty
        <3>. QED
            BY <3>1, InUps
    <2>3. << >> \in Seq(Entries)
        OBVIOUS
    <2>. QED
        BY <2>1, <2>2, <2>3 DEF Encoders, NewEncoder
<1>2. << >> \in Seq(Names) /\ << >> \in Seq(Maps) /\ Len(<< >>) = 0
    OBVIOUS
<1>3. Fine
    <2>1. 0 \in 0..MaxTags /\ 0 <= MaxDepth /\ 0 <= MaxDepth + 1
        BY BoundsAre
    <2>. QED
        BY <1>1, <1>2, <2>1 DEF Init, Fine
<1>4. Written
    <2>1. Range(Empty) = {}
        BY EmptyIs DEF Range
    <2>. QED
        BY <2>1 DEF Init, Written, Resolves, Nothing
<1>5. Placed
    BY DEF Init, Placed
<1>. QED
    BY <1>3, <1>4, <1>5 DEF IInv

LEMMA ResourcesKeeps == IInv /\ Resources => IInv'
<1>. SUFFICES ASSUME IInv, Resources PROVE IInv'
    OBVIOUS
<1>1. PICK ds \in ResourcesDecls : /\ parent' = setUpState(parent, Name("resources", Absent), ds)
                                   /\ scope' = <<Extend(Empty, ds)>>
    BY DEF Resources
<1>2. /\ mode = "start" /\ mode' = "res"
      /\ UNCHANGED <<child, names, styleable, own, children, wrote, tags, prefixed>>
    BY DEF Resources
<1>3. parent = NewEncoder
    BY <1>2 DEF IInv, Placed
<1>4. ds \in ResourcesDecls \cup TagDecls
    OBVIOUS
<1>5. /\ parent' \in Encoders /\ Extend(Empty, ds) \in Maps
      /\ \E us, cs : Shadow(parent', Extend(Empty, ds), us, cs)
      /\ Plain(parent')
    BY <1>1, <1>3, <1>4, ShadowBegins
<1>. DEFINE sc == Extend(Empty, ds)
<1>6. scope' = <<sc>> /\ sc \in Maps
    BY <1>1, <1>5
<1>7. BeneathOK(parent', sc)
    BY <1>5 DEF BeneathOK
<1>. HIDE DEF sc
<1>8. scope' \in Seq(Maps) /\ Len(scope') = 1 /\ scope'[1] = sc
    BY <1>6
<1>9. Fine'
    BY <1>2, <1>5, <1>8, BoundsAre DEF IInv, Fine
<1>10. Written'
    BY <1>2 DEF IInv, Written
<1>11. Placed'
    BY <1>2, <1>5, <1>7, <1>8 DEF Placed
<1>. QED
    BY <1>9, <1>10, <1>11 DEF IInv

\* The shadow encoder at a tag of the top level.
LEMMA TopTagOpens ==
    ASSUME IInv, NEW ds \in TagDecls, NEW p, NEW ofTag \in BOOLEAN, TopTag(ds, p, ofTag)
    PROVE  LET sc == Extend(scope[1], ds)
               name == Name("tag", TagSpace(sc, p, ofTag))
           IN /\ mode = "res" /\ tags' = tags + 1 /\ tags' \in 0..MaxTags
              /\ prefixed' \in BOOLEAN /\ (prefixed => prefixed')
              /\ ofTag /\ p # Absent => prefixed'
              /\ ~prefixed' => Plain(parent')
              /\ BeneathOK(parent', scope[1]) /\ parent' \in Encoders
              /\ sc \in Maps /\ name \in Names /\ Spaced(name, sc)
              /\ Deep(parent')
              /\ Counted(ds, Len(ds), Uri(parent'), Held(parent'))
              /\ Sure(sc, Uri(parent'), Held(parent')) /\ Sound(Uri(parent'), Held(parent'))
              /\ p \in KnownPrefixes \cup {Absent}
              /\ p \in DOMAIN sc \cup {Absent} \/ UnboundNames
<1>. DEFINE sc == Extend(scope[1], ds)
            name == Name("tag", TagSpace(sc, p, ofTag))
<1>1. /\ mode = "res" /\ tags < MaxTags /\ p \in Usable(sc)
      /\ tags' = tags + 1
      /\ prefixed' = (prefixed \/ (ofTag /\ p # Absent))
      /\ parent' = setUpState(parent, name, ds)
    BY DEF TopTag
<1>2. tags' \in 0..MaxTags
    BY <1>1, BoundsAre DEF IInv, Fine
<1>3. BeneathOK(parent, scope[1]) /\ (~prefixed => Plain(parent))
    BY <1>1 DEF IInv, Placed
<1>4. sc \in Maps
    BY <1>3, ExtendIs DEF BeneathOK
<1>5. p \in KnownPrefixes \cup {Absent} /\ (p \in DOMAIN sc \cup {Absent} \/ UnboundNames)
    <2>. HIDE DEF sc
    <2>. QED
        BY <1>1, <1>4, UsableIs
<1>6. /\ name \in Names /\ Spaced(name, sc)
      /\ ~(ofTag /\ p # Absent) => name.space = Absent
    <2>. DEFINE space == TagSpace(sc, p, ofTag)
    <2>. HIDE DEF sc
    <2>1. /\ space \in KnownURIs \cup KnownPrefixes \cup {Absent}
          /\ p \in DOMAIN sc \cup {Absent} => space \in {Absent} \cup Range(sc)
          /\ ~(ofTag /\ p # Absent) => space = Absent
        BY <1>4, <1>5, SpaceOf
    <2>. HIDE DEF space
    <2>2. name \in Names /\ name.space = space
        BY <2>1, NamesOf DEF space
    <2>. HIDE DEF name
    <2>. QED
        BY <1>5, <2>1, <2>2 DEF Spaced
<1>. HIDE DEF name
<1>7. /\ BeneathOK(parent', scope[1]) /\ parent' \in Encoders
      /\ Deep(parent')
      /\ Counted(ds, Len(ds), Uri(parent'), Held(parent'))
      /\ Sure(sc, Uri(parent'), Held(parent')) /\ Sound(Uri(parent'), Held(parent'))
      /\ Plain(parent) /\ name.space = Absent => Plain(parent')
    BY <1>1, <1>3, <1>6, TagOpens
<1>. HIDE DEF sc
<1>8. prefixed \in BOOLEAN
    BY DEF IInv, Fine
<1>9. /\ prefixed' \in BOOLEAN /\ (prefixed => prefixed') /\ (ofTag /\ p # Absent => prefixed')
      /\ ~prefixed' => ~prefixed /\ ~(ofTag /\ p # Absent)
    BY <1>1, <1>8
<1>10. ~prefixed' => Plain(parent')
    BY <1>3, <1>6, <1>7, <1>9
<1>. QED
    BY <1>1, <1>2, <1>4, <1>5, <1>6, <1>7, <1>9, <1>10 DEF sc, name

LEMMA SkipTagKeeps ==
    ASSUME IInv, NEW ds \in TagDecls, NEW p, SkipTag(ds, p) PROVE IInv'
<1>. DEFINE sc == Extend(scope[1], ds)
            w == translateName(parent', SpaceIn(sc, p))
<1>1. /\ TopTag(ds, p, FALSE)
      /\ mode' = IF w = Unknown THEN "failed" ELSE mode
      /\ UNCHANGED <<child, scope, names, styleable, own, children, wrote>>
    BY DEF SkipTag
<1>2. /\ mode = "res" /\ tags' \in 0..MaxTags
      /\ prefixed' \in BOOLEAN /\ (~prefixed' => Plain(parent'))
      /\ BeneathOK(parent', scope[1]) /\ parent' \in Encoders
      /\ sc \in Maps
      /\ Sure(sc, Uri(parent'), Held(parent')) /\ Sound(Uri(parent'), Held(parent'))
      /\ p \in KnownPrefixes \cup {Absent}
      /\ p \in DOMAIN sc \cup {Absent} \/ UnboundNames
    BY <1>1, TopTagOpens
<1>3. w # Unknown \/ UnboundNames
    BY <1>2, NameResolves
<1>. HIDE DEF w, sc
<1>4. mode' \in {"res", "failed"} /\ (mode' = "failed" => UnboundNames)
    BY <1>1, <1>2, <1>3
<1>5. Fine'
    BY <1>1, <1>2, <1>4 DEF IInv, Fine
<1>6. Written'
    BY <1>1, <1>2, <1>4 DEF IInv, Written
<1>7. Placed'
    BY <1>1, <1>2, <1>4 DEF IInv, Placed
<1>. QED
    BY <1>5, <1>6, <1>7 DEF IInv

LEMMA WriteIs ==
    ASSUME NEW enc \in Encoders, NEW sc \in Maps, Sure(sc, Uri(enc), Held(enc)),
           Sound(Uri(enc), Held(enc)), NEW p \in KnownPrefixes \cup {Absent},
           p \in DOMAIN sc \cup {Absent} \/ UnboundNames,
           Write(enc, sc, p)
    PROVE  LET w == wrote'.prefix
               m == wrote'.uri
           IN /\ mode' \in {"copy", "failed"}
              /\ Written'
              /\ m \in KnownURIs \cup {Absent, Unbound}
              /\ \/ <<w, m>> \in Decls /\ m \in Range(sc)
                 \/ w = Absent /\ m = Absent
                 \/ UnboundNames /\ m = Unbound
              /\ mode' = "copy" => w = Absent \/ (w \in KnownPrefixes /\ Uri(enc)[w] # Absent)
<1>. DEFINE w == translateName(enc, SpaceIn(sc, p))
            m == Means(sc, p)
<1>1. /\ wrote' = [prefix |-> w, uri |-> m, scope |-> sc]
      /\ mode' = IF w = Unknown THEN "failed" ELSE "copy"
    BY DEF Write
<1>2. Resolves(w, m, sc) /\ (w # Unknown \/ UnboundNames)
    BY NameResolves
<1>3. /\ p \in DOMAIN sc => m = sc[p] /\ <<w, m>> \in Decls /\ Uri(enc)[w] # Absent
      /\ p = Absent => w = Absent /\ m = Absent
      /\ p \notin DOMAIN sc \cup {Absent} =>
            /\ m = Unbound
            /\ w = Unknown \/ (w \in KnownPrefixes /\ Uri(enc)[w] # Absent)
    BY NameWritten
<1>. HIDE DEF w, m
<1>4. wrote'.prefix = w /\ wrote'.uri = m /\ wrote'.scope = sc
    BY <1>1
<1>5. mode' \in {"copy", "failed"} /\ (mode' = "failed" => UnboundNames)
      /\ (mode' = "copy" => w # Unknown)
    BY <1>1, <1>2
<1>6. Written'
    BY <1>2, <1>4, <1>5 DEF Written
<1>7. p \in DOMAIN sc => w \in KnownPrefixes /\ m \in KnownURIs /\ m \in Range(sc)
    <2>. DEFINE z == <<w, m>>
    <2>1. z[1] = w /\ z[2] = m /\ (p \in DOMAIN sc => z \in Decls)
        BY <1>3
    <2>. HIDE DEF z
    <2>2. p \in DOMAIN sc => z[1] \in KnownPrefixes /\ z[2] \in KnownURIs
        BY <2>1, DeclFacts
    <2>3. p \in DOMAIN sc => m \in Range(sc)
        BY <1>3 DEF Range
    <2>. QED
        BY <2>1, <2>2, <2>3
<1>8. m \in KnownURIs \cup {Absent, Unbound}
    BY <1>3, <1>7
<1>9. \/ <<w, m>> \in Decls /\ m \in Range(sc)
      \/ w = Absent /\ m = Absent
      \/ UnboundNames /\ m = Unbound
    BY <1>3, <1>7
<1>10. mode' = "copy" => w = Absent \/ (w \in KnownPrefixes /\ Uri(enc)[w] # Absent)
    BY <1>3, <1>5, <1>7
<1>. QED
    BY <1>4, <1>5, <1>6, <1>8, <1>9, <1>10

LEMMA ExtractElementKeeps ==
    ASSUME IInv, NEW ds \in TagDecls, NEW p, NEW ofTag \in BOOLEAN, p = Absent => ~ofTag,
           ExtractElement(ds, p, ofTag)
    PROVE  IInv'
<1>. DEFINE sc == Extend(scope[1], ds)
            name == Name("tag", TagSpace(sc, p, ofTag))
            enc == setUpState(ChildEncoder(parent'), name, ds)
            q == IF ofTag THEN wrote'.prefix ELSE Absent
<1>1. /\ TopTag(ds, p, ofTag)
      /\ child' = enc
      /\ Write(enc, sc, p)
      /\ scope' = Append(scope, sc)
      /\ names' = <<name>>
      /\ own' = [decls |-> ds, prefix |-> q]
      /\ children' = << >>
    BY DEF ExtractElement
<1>2. /\ mode = "res" /\ tags' \in 0..MaxTags /\ prefixed' \in BOOLEAN
      /\ ofTag /\ p # Absent => prefixed'
      /\ ~prefixed' => Plain(parent')
      /\ BeneathOK(parent', scope[1]) /\ parent' \in Encoders
      /\ name \in Names /\ Spaced(name, sc)
      /\ Deep(parent') /\ Counted(ds, Len(ds), Uri(parent'), Held(parent'))
      /\ p \in KnownPrefixes \cup {Absent}
      /\ p \in DOMAIN sc \cup {Absent} \/ UnboundNames
    BY <1>1, TopTagOpens
<1>3. scope \in Seq(Maps) /\ Len(scope) = 1
    BY <1>2 DEF IInv, Fine, Placed
<1>. HIDE DEF name
<1>4. /\ enc \in Encoders /\ sc \in Maps
      /\ Sure(sc, Uri(enc), Held(enc)) /\ Sound(Uri(enc), Held(enc))
      /\ \A r \in KnownPrefixes : Uri(enc)[r] # Absent => Uri(parent')[r] # Absent
      /\ PayloadOK(parent', enc, ds, <<name>>, Append(scope, sc))
    BY <1>2, <1>3, PayloadBegins
<1>. HIDE DEF sc, enc
<1>5. /\ mode' \in {"copy", "failed"} /\ Written'
      /\ mode' = "copy" => \/ wrote'.prefix = Absent
                           \/ wrote'.prefix \in KnownPrefixes /\ Uri(enc)[wrote'.prefix] # Absent
    BY <1>1, <1>2, <1>4, WriteIs
<1>6. /\ scope' \in Seq(Maps) /\ Len(scope') = 2 /\ scope'[1] = scope[1]
      /\ names' \in Seq(Names) /\ Len(names') = 1
    <2>. DEFINE ss == Append(scope, sc)
    <2>4. ss \in Seq(Maps) /\ Len(ss) = Len(scope) + 1 /\ \A k \in 1..Len(scope) : ss[k] = scope[k]
        <3>1. scope \in Seq(Maps) /\ sc \in Maps
            BY <1>3, <1>4
        <3>. QED
            BY ONLY <3>1, AppendIs
    <2>5. scope' = ss
        BY <1>1
    <2>. HIDE DEF ss
    <2>1. Len(scope) = 1 /\ scope' \in Seq(Maps) /\ Len(scope') = Len(scope) + 1
          /\ \A k \in 1..Len(scope) : scope'[k] = scope[k]
        BY <1>3, <2>4, <2>5
    <2>2. Len(scope') = 2 /\ scope'[1] = scope[1]
        BY <2>1
    <2>3. names' \in Seq(Names) /\ Len(names') = 1
        BY <1>1, <1>2
    <2>. QED
        BY <2>1, <2>2, <2>3
<1>7. Fine'
    BY <1>1, <1>2, <1>4, <1>5, <1>6, BoundsAre DEF Fine
<1>8. mode' = "copy" => q \in KnownPrefixes \cup {Absent} /\ (q = Absent \/ Uri(parent')[q] # Absent)
    <2>1. q = Absent \/ q = wrote'.prefix
        OBVIOUS
    <2>. HIDE DEF q
    <2>. QED
        BY <1>4, <1>5, <2>1
<1>9. ~prefixed' => q = Absent
    BY <1>2
<1>. HIDE DEF q
<1>10. own'.decls = ds /\ own'.prefix = q
    BY <1>1
<1>11. mode' = "copy" => StyledOK(parent', scope[1], own'.decls, own'.prefix, children')
    <2>1. << >> \in Seq(Children(scope[1], ds, Uri(parent')))
        OBVIOUS
    <2>. QED
        BY <1>1, <1>2, <1>8, <1>10, <2>1 DEF StyledOK
<1>12. PayloadOK(parent', child', own'.decls, names', scope')
    BY <1>1, <1>4, <1>10
<1>13. Placed'
    BY <1>2, <1>5, <1>6, <1>9, <1>10, <1>11, <1>12 DEF Placed
<1>. QED
    BY <1>5, <1>7, <1>13 DEF IInv

LEMMA CopyStartKeeps ==
    ASSUME IInv, NEW ds \in TagDecls, NEW p, NEW ofTag \in BOOLEAN, CopyStart(ds, p, ofTag)
    PROVE  IInv'
<1>. DEFINE sc == Extend(Last(scope), ds)
            name == Name("inner", TagSpace(sc, p, ofTag))
            enc == setUpState(child, name, ds)
            ds0 == own.decls
            x == [decls |-> ds, prefix |-> wrote'.prefix, ofTag |-> ofTag, uri |-> wrote'.uri]
<1>1. /\ mode = "copy" /\ Len(names) < MaxDepth
      /\ p \in Usable(sc)
      /\ child' = enc
      /\ Write(enc, sc, p)
      /\ scope' = Append(scope, sc)
      /\ names' = Append(names, name)
      /\ children' = IF Len(names) = 1 THEN Append(children, x) ELSE children
      /\ UNCHANGED <<parent, styleable, own, tags, prefixed>>
    BY DEF CopyStart
<1>2. /\ scope \in Seq(Maps) /\ names \in Seq(Names) /\ child \in Encoders /\ parent \in Encoders
      /\ Len(names) \in Nat /\ Len(scope) = Len(names) + 1 /\ Len(names) >= 1
      /\ PayloadOK(parent, child, ds0, names, scope)
      /\ StyledOK(parent, scope[1], ds0, own.prefix, children)
      /\ BeneathOK(parent, scope[1])
      /\ scope[2] = Extend(scope[1], ds0)
    BY <1>1 DEF IInv, Fine, Placed, PayloadOK
<1>3. sc \in Maps
    <2>1. Last(scope) \in Maps
        BY <1>2 DEF Last
    <2>2. ds \in ResourcesDecls \cup TagDecls
        OBVIOUS
    <2>. QED
        BY <2>1, <2>2, ExtendIs
<1>4. p \in KnownPrefixes \cup {Absent} /\ (p \in DOMAIN sc \cup {Absent} \/ UnboundNames)
    <2>. HIDE DEF sc
    <2>. QED
        BY <1>1, <1>3, UsableIs
<1>5. name \in Names /\ Spaced(name, sc)
    <2>. DEFINE space == TagSpace(sc, p, ofTag)
    <2>. HIDE DEF sc
    <2>1. /\ space \in KnownURIs \cup KnownPrefixes \cup {Absent}
          /\ p \in DOMAIN sc \cup {Absent} => space \in {Absent} \cup Range(sc)
        BY <1>3, <1>4, SpaceOf
    <2>. HIDE DEF space
    <2>2. name \in Names /\ name.space = space
        BY <2>1, NamesOf DEF space
    <2>. HIDE DEF name
    <2>. QED
        BY <1>4, <2>1, <2>2 DEF Spaced
<1>. HIDE DEF name
<1>. HIDE DEF ds0
<1>6. /\ enc \in Encoders
      /\ Sure(sc, Uri(enc), Held(enc)) /\ Sound(Uri(enc), Held(enc))
      /\ Len(names) = 1 => Only(ds, Len(ds), Uri(parent), Uri(enc))
      /\ PayloadOK(parent, enc, ds0, Append(names, name), Append(scope, sc))
    <2>1. /\ child \in Encoders /\ names \in Seq(Names) /\ scope \in Seq(Maps)
          /\ PayloadOK(parent, child, ds0, names, scope)
          /\ name \in Names /\ Spaced(name, Extend(Last(scope), ds))
        BY <1>2, <1>5
    <2>2. enc \in Encoders
        BY <2>1, PayloadOpens
    <2>3. Sure(sc, Uri(enc), Held(enc)) /\ Sound(Uri(enc), Held(enc))
        BY <2>1, PayloadOpens
    <2>4. PayloadOK(parent, enc, ds0, Append(names, name), Append(scope, sc))
        BY <2>1, PayloadOpens
    <2>5. Len(names) = 1 => Only(ds, Len(ds), Uri(parent), Uri(enc))
        BY <2>1, PayloadOpens
    <2>. QED
        BY <2>2, <2>3, <2>4, <2>5
<1>. HIDE DEF enc
<1>7. Last(scope) = scope[Len(names) + 1]
    BY <1>2 DEF Last
<1>8. Len(names) = 1 => sc = Extend(Extend(scope[1], ds0), ds)
    BY <1>2, <1>7
<1>. HIDE DEF sc
<1>9. /\ mode' \in {"copy", "failed"} /\ Written'
      /\ wrote'.uri \in KnownURIs \cup {Absent, Unbound}
      /\ \/ <<wrote'.prefix, wrote'.uri>> \in Decls /\ wrote'.uri \in Range(sc)
         \/ wrote'.prefix = Absent /\ wrote'.uri = Absent
         \/ UnboundNames /\ wrote'.uri = Unbound
      /\ mode' = "copy" => \/ wrote'.prefix = Absent
                           \/ wrote'.prefix \in KnownPrefixes /\ Uri(enc)[wrote'.prefix] # Absent
    BY <1>1, <1>3, <1>4, <1>6, WriteIs
<1>10. /\ scope' \in Seq(Maps) /\ Len(scope') = Len(scope) + 1 /\ scope'[1] = scope[1]
       /\ names' \in Seq(Names) /\ Len(names') = Len(names) + 1
    BY <1>1, <1>2, <1>3, <1>5
<1>11. Fine'
    <2>1. Len(names') <= MaxDepth /\ Len(scope') <= MaxDepth + 1
        BY <1>1, <1>2, <1>10, BoundsAre
    <2>. QED
        BY <1>1, <1>2, <1>6, <1>9, <1>10, <2>1 DEF IInv, Fine
<1>12. ASSUME mode' = "copy" PROVE StyledOK(parent, scope[1], ds0, own.prefix, children')
    <2>1. children \in Seq(Children(scope[1], ds0, Uri(parent)))
        BY <1>2 DEF StyledOK
    <2>2. ASSUME Len(names) = 1 PROVE x \in Children(scope[1], ds0, Uri(parent))
        <3>. DEFINE all == Extend(Extend(scope[1], ds0), ds)
        <3>1. sc = all
            BY <1>8, <2>2
        <3>2. /\ x.decls = ds /\ x.prefix = wrote'.prefix /\ x.uri = wrote'.uri /\ x.ofTag = ofTag
              /\ x = [decls |-> x.decls, prefix |-> x.prefix, ofTag |-> x.ofTag, uri |-> x.uri]
            OBVIOUS
        <3>. HIDE DEF x, all
        <3>3. \/ <<x.prefix, x.uri>> \in Decls /\ x.uri \in Range(all)
              \/ x.prefix = Absent /\ x.uri = Absent
              \/ UnboundNames /\ x.uri = Unbound
            BY <1>9, <3>1, <3>2
        <3>4. /\ x.prefix \in KnownPrefixes \cup {Absent}
              /\ \/ x.prefix = Absent \/ Uri(parent)[x.prefix] # Absent
                 \/ \E k \in 1..Len(ds) : ds[k][1] = x.prefix
            BY <1>6, <1>9, <1>12, <2>2, <3>2 DEF Only
        <3>5. x \in [decls : TagDecls, prefix : KnownPrefixes \cup {Absent}, ofTag : BOOLEAN,
                     uri : KnownURIs \cup {Absent, Unbound}]
            BY <1>9, <3>2, <3>4
        <3>6. /\ \/ <<x.prefix, x.uri>> \in Decls
                    /\ x.uri \in Range(Extend(Extend(scope[1], ds0), x.decls))
                 \/ x.prefix = Absent /\ x.uri = Absent
                 \/ UnboundNames /\ x.uri = Unbound
              /\ \/ x.prefix = Absent \/ Uri(parent)[x.prefix] # Absent
                 \/ \E k \in 1..Len(x.decls) : x.decls[k][1] = x.prefix
            BY <3>2, <3>3, <3>4 DEF all
        <3>. QED
            BY <3>5, <3>6 DEF Children
    <2>. HIDE DEF x
    <2>3. children' \in Seq(Children(scope[1], ds0, Uri(parent)))
        <3>. DEFINE C == Children(scope[1], ds0, Uri(parent))
        <3>1. children \in Seq(C) /\ (Len(names) = 1 => x \in C)
            BY <2>1, <2>2
        <3>. HIDE DEF C
        <3>2. children' \in Seq(C)
            <4>1. CASE Len(names) = 1
                BY <1>1, <3>1, <4>1, AppendIs
            <4>2. CASE Len(names) # 1
                BY <1>1, <3>1, <4>2
            <4>. QED
                BY <4>1, <4>2
        <3>. QED
            BY <3>2 DEF C
    <2>. QED
        BY <1>2, <2>3 DEF StyledOK
<1>. HIDE DEF x
<1>13. PayloadOK(parent', child', ds0, names', scope')
    BY <1>1, <1>6
<1>14. /\ ds0' = ds0 /\ own' = own
       /\ ~prefixed => Plain(parent) /\ own.prefix = Absent
    BY <1>1 DEF IInv, Placed, ds0
<1>15. own'.decls = ds0 /\ own.decls = ds0
    BY <1>14 DEF ds0
<1>16. Placed'
    BY <1>1, <1>2, <1>9, <1>10, <1>12, <1>13, <1>14, <1>15 DEF Placed
<1>. QED
    BY <1>9, <1>11, <1>16 DEF IInv

LEMMA CopyEndKeeps == IInv /\ CopyEnd => IInv'
<1>. SUFFICES ASSUME IInv, CopyEnd PROVE IInv'
    OBVIOUS
<1>. DEFINE ds0 == own.decls
            name == Last(names)
            e == tearDownState(child)
            nn == Front(names)
            ss == Front(scope)
            known == translateName(child, name.space) # Unknown
            next == IF Len(names) > 1 THEN "copy" ELSE IF styleable THEN "styleable" ELSE "res"
<1>1. /\ mode = "copy"
      /\ child' = IF known THEN e ELSE child
      /\ names' = nn /\ scope' = ss
      /\ mode' = IF ~known THEN "failed" ELSE IF Unbalanced(child, name) THEN "unbalanced" ELSE next
      /\ UNCHANGED <<parent, styleable, own, children, wrote, tags, prefixed>>
    BY DEF CopyEnd, Ended, EndMode
<1>2. /\ scope \in Seq(Maps) /\ names \in Seq(Names) /\ child \in Encoders /\ parent \in Encoders
      /\ Len(names) \in Nat /\ Len(names) >= 1 /\ Len(scope) = Len(names) + 1
      /\ Len(names) <= MaxDepth /\ tags \in 0..MaxTags /\ prefixed \in BOOLEAN
      /\ PayloadOK(parent, child, ds0, names, scope)
      /\ StyledOK(parent, scope[1], ds0, own.prefix, children)
      /\ BeneathOK(parent, scope[1])
      /\ ~prefixed => Plain(parent) /\ own.prefix = Absent
    BY <1>1 DEF IInv, Fine, Placed, PayloadOK
<1>3. /\ e \in Encoders /\ ~Unbalanced(child, name) /\ (UnboundNames \/ known)
      /\ nn \in Seq(Names) /\ Len(nn) = Len(names) - 1
      /\ ss \in Seq(Maps) /\ Len(ss) = Len(names) /\ ss[1] = scope[1]
      /\ Len(names) > 1 => PayloadOK(parent, e, ds0, nn, ss)
    <2>. HIDE DEF ds0
    <2>1. /\ scope \in Seq(Maps) /\ names \in Seq(Names) /\ child \in Encoders
          /\ PayloadOK(parent, child, ds0, names, scope)
        BY <1>2
    <2>2. e \in Encoders /\ ~Unbalanced(child, name)
        BY ONLY <2>1, PayloadCloses
    <2>3. UnboundNames \/ known
        BY ONLY <2>1, PayloadCloses
    <2>4. nn \in Seq(Names) /\ Len(nn) = Len(names) - 1
        BY ONLY <2>1, PayloadCloses
    <2>5. ss \in Seq(Maps) /\ Len(ss) = Len(names) /\ ss[1] = scope[1]
        <3>1. Len(scope) >= 1 /\ Len(scope) = Len(names) + 1 /\ Len(names) \in Nat
              /\ 1 \in 1..(Len(scope) - 1)
            BY <1>2
        <3>2. /\ ss \in Seq(Maps) /\ Len(ss) = Len(scope) - 1
              /\ \A k \in 1..(Len(scope) - 1) : ss[k] = scope[k]
            BY <2>1, <3>1, FrontIs
        <3>. HIDE DEF ss
        <3>. QED
            BY <3>1, <3>2
    <2>6. Len(names) > 1 => PayloadOK(parent, e, ds0, nn, ss)
        BY ONLY <2>1, PayloadCloses
    <2>. HIDE DEF e, nn, ss, known, name
    <2>. QED
        BY <2>2, <2>3, <2>4, <2>5, <2>6
<1>. HIDE DEF e, nn, ss, known, name, ds0
<1>4. /\ mode' \in {"copy", "styleable", "res", "failed"}
      /\ mode' = "copy" => Len(names) > 1 /\ child' = e
      /\ mode' \in {"styleable", "res"} => Len(names) = 1
      /\ mode' = "failed" => UnboundNames
      /\ child' \in Encoders
    BY <1>1, <1>2, <1>3
<1>5. Fine'
    <2>1. Len(names') <= MaxDepth /\ Len(scope') <= MaxDepth + 1
        BY <1>1, <1>2, <1>3, BoundsAre
    <2>. QED
        BY <1>1, <1>2, <1>3, <1>4, <2>1 DEF Fine
<1>6. Written'
    BY <1>1, <1>4 DEF IInv, Written
<1>7. own'.decls = ds0 /\ own'.prefix = own.prefix
    BY <1>1 DEF ds0
<1>8. Placed'
    BY <1>1, <1>2, <1>3, <1>4, <1>7 DEF Placed
<1>. QED
    BY <1>5, <1>6, <1>8 DEF IInv

LEMMA StyleableChildKeeps == IInv /\ StyleableChild => IInv'
<1>. SUFFICES ASSUME IInv, StyleableChild PROVE IInv'
    OBVIOUS
<1>. DEFINE x == Head(children)
            ds0 == own.decls
            in1 == Extend(Extend(Empty, ds0), x.decls)
            name == Name("child", TagSpace(in1, x.prefix, x.ofTag))
            enc == setUpState(parent, name, x.decls)
            w == translateName(setUpState(ChildEncoder(enc), name, x.decls),
                               SpaceIn(in1, x.prefix))
            C == Children(scope[1], ds0, Uri(parent))
            top == Extend(scope[1], x.decls)
<1>1. /\ mode = "styleable" /\ children # << >>
      /\ parent' = enc
      /\ wrote' = [prefix |-> w, uri |-> x.uri, scope |-> top]
      /\ mode' = IF w = Unknown THEN "failed" ELSE mode
      /\ prefixed' = (prefixed \/ (x.ofTag /\ x.prefix # Absent))
      /\ children' = Tail(children)
      /\ UNCHANGED <<child, scope, names, styleable, own, tags>>
    BY DEF StyleableChild
<1>2. /\ BeneathOK(parent, scope[1]) /\ StyledOK(parent, scope[1], ds0, own.prefix, children)
      /\ Len(scope) = 1 /\ parent \in Encoders /\ prefixed \in BOOLEAN
      /\ ~prefixed => Plain(parent) /\ own.prefix = Absent
    BY <1>1 DEF IInv, Placed, Fine
<1>3. /\ ds0 \in TagDecls /\ children \in Seq(C)
      /\ Counted(ds0, Len(ds0), Uri(parent), Held(parent))
    BY <1>2 DEF StyledOK
<1>4. x \in C /\ children' \in Seq(C)
    <2>. HIDE DEF C
    <2>. QED
        BY <1>1, <1>3
<1>5. x.decls \in TagDecls /\ x.prefix \in KnownPrefixes \cup {Absent} /\ x.ofTag \in BOOLEAN
    BY <1>4 DEF Children
<1>6. /\ name \in Names
      /\ ~(x.ofTag /\ x.prefix # Absent) => name.space = Absent
    <2>. DEFINE space == TagSpace(in1, x.prefix, x.ofTag)
    <2>. HIDE DEF x, ds0
    <2>1. in1 \in Maps
        <3>1. ds0 \in ResourcesDecls \cup TagDecls /\ x.decls \in ResourcesDecls \cup TagDecls
            BY <1>3, <1>5
        <3>2. Empty \in Maps
            BY EmptyIs
        <3>3. Extend(Empty, ds0) \in Maps
            BY <3>1, <3>2, ExtendIs
        <3>. QED
            BY <3>1, <3>3, ExtendIs
    <2>. HIDE DEF in1
    <2>2. /\ space \in KnownURIs \cup KnownPrefixes \cup {Absent}
          /\ ~(x.ofTag /\ x.prefix # Absent) => space = Absent
        BY <1>5, <2>1, SpaceOf
    <2>. HIDE DEF space
    <2>3. name \in Names /\ name.space = space
        BY <2>2, NamesOf DEF space
    <2>. QED
        BY <2>2, <2>3
<1>. HIDE DEF name
<1>7. /\ Resolves(w, x.uri, top)
      /\ UnboundNames \/ w # Unknown
    <2>. HIDE DEF x
    <2>. QED
        BY <1>2, <1>4, <1>6, StyledWrites
<1>8. /\ BeneathOK(parent', scope[1]) /\ parent' \in Encoders
      /\ Deep(parent')
      /\ Grown(Uri(parent), Held(parent), Uri(parent'), Held(parent'))
      /\ Plain(parent) /\ name.space = Absent => Plain(parent')
    <2>. HIDE DEF x
    <2>. QED
        BY <1>1, <1>2, <1>5, <1>6, TagOpens
<1>9. StyledOK(parent', scope[1], ds0, own.prefix, children')
    <2>1. Counted(ds0, Len(ds0), Uri(parent'), Held(parent'))
        <3>1. ds0 \in ResourcesDecls \cup TagDecls
            BY <1>3
        <3>. HIDE DEF ds0
        <3>. QED
            BY <1>3, <1>8, <3>1, CountedGrows
    <2>2. children' \in Seq(Children(scope[1], ds0, Uri(parent')))
        <3>. HIDE DEF ds0
        <3>. QED
            BY <1>4, <1>8, StyledGrows
    <2>3. own.prefix \in KnownPrefixes \cup {Absent}
          /\ (own.prefix = Absent \/ Uri(parent')[own.prefix] # Absent)
        BY <1>2, <1>8 DEF StyledOK, Grown
    <2>. QED
        BY <1>3, <1>8, <2>1, <2>2, <2>3 DEF StyledOK
<1>10. /\ prefixed' \in BOOLEAN
       /\ ~prefixed' => ~prefixed /\ ~(x.ofTag /\ x.prefix # Absent)
    BY <1>1, <1>2, <1>5
<1>11. ~prefixed' => Plain(parent') /\ own.prefix = Absent
    BY <1>2, <1>6, <1>8, <1>10
<1>. HIDE DEF w, top, x, C, enc, in1
<1>12. mode' \in {"styleable", "failed"} /\ (mode' = "failed" => UnboundNames)
    BY <1>1, <1>7
<1>13. wrote'.prefix = w /\ wrote'.uri = x.uri /\ wrote'.scope = top
    BY <1>1
<1>14. Written'
    BY <1>7, <1>12, <1>13 DEF Written
<1>15. Fine'
    BY <1>1, <1>8, <1>10, <1>12 DEF IInv, Fine
<1>16. own'.decls = ds0 /\ own'.prefix = own.prefix
    BY <1>1
<1>. HIDE DEF ds0
<1>17. Placed'
    BY <1>1, <1>2, <1>8, <1>9, <1>11, <1>12, <1>16 DEF Placed
<1>. QED
    BY <1>14, <1>15, <1>17 DEF IInv

LEMMA EndsKeep == IInv /\ (StyleableEnd \/ ResourcesEnd) => IInv'
<1>. SUFFICES ASSUME IInv, StyleableEnd \/ ResourcesEnd PROVE IInv'
    OBVIOUS
<1>1. CASE StyleableEnd
    <2>. DEFINE name == Name("tag", SpaceIn(Extend(Empty, own.decls), own.prefix))
    <2>1. /\ mode = "styleable"
          /\ parent' = Ended(parent, name) /\ mode' = EndMode(parent, name, "res")
          /\ UNCHANGED <<child, scope, names, styleable, own, children, wrote, tags, prefixed>>
        BY <1>1 DEF StyleableEnd, EndOf
    <2>2. /\ BeneathOK(parent, scope[1]) /\ Deep(parent) /\ Len(scope) = 1
          /\ StyledOK(parent, scope[1], own.decls, own.prefix, children)
          /\ ~prefixed => Plain(parent) /\ own.prefix = Absent
        BY <2>1 DEF IInv, Placed, StyledOK
    <2>3. translateName(parent, name.space) # Unknown /\ (own.prefix = Absent => name.space = Absent)
        BY <2>2, StyledEnds DEF Name
    <2>. HIDE DEF name
    <2>4. /\ tearDownState(parent) \in Encoders /\ BeneathOK(tearDownState(parent), scope[1])
          /\ ~prefixed => ~Unbalanced(parent, name) /\ Plain(tearDownState(parent))
        BY <2>2, <2>3, TagCloses
    <2>5. /\ parent' = tearDownState(parent) /\ mode' \in {"res", "unbalanced"}
          /\ mode' = "unbalanced" => prefixed
        BY <2>1, <2>3, <2>4 DEF Ended, EndMode
    <2>6. Fine' /\ Written'
        BY <2>1, <2>4, <2>5 DEF IInv, Fine, Written
    <2>7. Placed'
        BY <2>1, <2>2, <2>4, <2>5 DEF Placed
    <2>. QED
        BY <2>6, <2>7 DEF IInv
<1>2. CASE ResourcesEnd
    <2>. DEFINE name == Name("resources", Absent)
    <2>1. /\ mode = "res"
          /\ parent' = Ended(parent, name) /\ mode' = EndMode(parent, name, "done")
          /\ UNCHANGED <<child, scope, names, styleable, own, children, wrote, tags, prefixed>>
        BY <1>2 DEF ResourcesEnd, EndOf
    <2>2. BeneathOK(parent, scope[1]) /\ parent \in Encoders /\ (~prefixed => Plain(parent))
        BY <2>1 DEF IInv, Placed, Fine
    <2>3. name.space = Absent
        BY DEF Name
    <2>. HIDE DEF name
    <2>4. translateName(parent, name.space) # Unknown
        BY <2>2, <2>3, TranslateIs, Words
    <2>5. /\ tearDownState(parent) \in Encoders
          /\ ~prefixed => ~Unbalanced(parent, name)
        BY <2>2, <2>3, TagCloses
    <2>6. /\ parent' = tearDownState(parent) /\ mode' \in {"done", "unbalanced"}
          /\ mode' = "unbalanced" => prefixed
        BY <2>1, <2>4, <2>5 DEF Ended, EndMode
    <2>7. Fine' /\ Written' /\ Placed'
        BY <2>1, <2>5, <2>6 DEF IInv, Fine, Written, Placed
    <2>. QED
        BY <2>7 DEF IInv
<1>. QED
    BY <1>1, <1>2

LEMMA StaysPut == IInv /\ UNCHANGED vars => IInv'
<1>. SUFFICES ASSUME IInv, UNCHANGED vars PROVE IInv'
    OBVIOUS
<1>1. UNCHANGED <<mode, parent, child, scope, names, styleable, own, children, wrote, tags,
                  prefixed>>
    BY DEF vars
<1>. QED
    BY <1>1 DEF IInv, Fine, Written, Placed

LEMMA Inductive == IInv /\ [Next]_vars => IInv'
<1>. SUFFICES ASSUME IInv, [Next]_vars PROVE IInv'
    OBVIOUS
<1>1. CASE Resources
    BY <1>1, ResourcesKeeps
<1>2. CASE Tag
    <2>1. PICK ds \in TagDecls, p \in KnownPrefixes \cup {Absent}, ofTag \in BOOLEAN :
              /\ p = Absent => ~ofTag
              /\ SkipTag(ds, p) \/ ExtractElement(ds, p, ofTag) \/ CopyStart(ds, p, ofTag)
        BY <1>2 DEF Tag
    <2>. QED
        BY <2>1, SkipTagKeeps, ExtractElementKeeps, CopyStartKeeps
<1>3. CASE CopyEnd
    BY <1>3, CopyEndKeeps
<1>4. CASE StyleableChild
    BY <1>4, StyleableChildKeeps
<1>5. CASE StyleableEnd \/ ResourcesEnd
    BY <1>5, EndsKeep
<1>6. CASE Returned \/ UNCHANGED vars
    BY <1>6, StaysPut DEF Returned
<1>. QED
    BY <1>1, <1>2, <1>3, <1>4, <1>5, <1>6 DEF Next

-----------------------------------------------------------------------------
(* The theorems *)

LEMMA InvImplies == IInv => TypeOK /\ PayloadResolves /\ (~UnboundNames => NeverFails)
<1>. SUFFICES ASSUME IInv PROVE TypeOK /\ PayloadResolves /\ (~UnboundNames => NeverFails)
    OBVIOUS
<1>1. parent \in Encoders /\ child \in Encoders
    BY DEF IInv, Fine
<1>2. ASSUME NEW enc \in Encoders
      PROVE  /\ DOMAIN enc.prefixURI \subseteq KnownPrefixes
             /\ Range(enc.prefixURI) \subseteq KnownURIs
             /\ DOMAIN enc.up \subseteq KnownURIs
             /\ ~enc.fatal
    <2>1. enc.prefixURI \in Maps /\ enc.up \in Ups /\ ~enc.fatal
        BY EncoderFacts
    <2>2. \A p \in DOMAIN enc.prefixURI : enc.prefixURI[p] \in KnownURIs
        BY <2>1, MapFacts
    <2>. QED
        BY <2>1, <2>2, MapFacts, UpFacts DEF Range
<1>3. TypeOK
    BY <1>1, <1>2 DEF IInv, Fine, TypeOK
<1>4. PayloadResolves
    BY DEF IInv, Written, Resolves, PayloadResolves
<1>5. ~UnboundNames => NeverFails
    BY <1>1, <1>2 DEF IInv, Written, NeverFails
<1>. QED
    BY <1>3, <1>4, <1>5

LEMMA Reached == Spec => []IInv
BY Starts, Inductive, PTL DEF Spec

\* The maps of the encoders hold prefixes and URIs of the document alone, and no payload
\* is deeper than its bound.
THEOREM TypeCorrect == Spec => []TypeOK
BY Reached, InvImplies, PTL

\* What the child encoder writes for a name of a payload, and what the archive has around
\* it, mean the URI that the source means, for every name whose URI has one prefix in the
\* document, whatever prefixes the other URIs have: bucketize/bucketize.go moves an element
\* without a change of such a name's meaning.
THEOREM NamesResolve == Spec => []PayloadResolves
BY Reached, InvImplies, PTL

\* Where every prefix that is used is declared, no name is refused, whatever prefixes its URI
\* has; the end of <resources> or of a declare-styleable is refused only after a tag with a
\* prefix of its own, whose end the shadow encoder was not given; and no state is corrupt.
THEOREM NothingRefused == ASSUME ~UnboundNames PROVE Spec => []NeverFails
<1>1. IInv => NeverFails
    BY InvImplies
<1>. QED
    BY <1>1, Reached, PTL

\* The map of prefixes is a function of what is in force.
LEMMA PrefixesFrom ==
    ASSUME NEW e \in Encoders, NEW f \in Encoders, Uri(e) = Uri(f)
    PROVE  e.prefixURI = f.prefixURI
<1>. DEFINE a == e.prefixURI
            b == f.prefixURI
<1>1. /\ a = [p \in DOMAIN a |-> a[p]] /\ b = [p \in DOMAIN b |-> b[p]]
      /\ DOMAIN a \subseteq KnownPrefixes /\ DOMAIN b \subseteq KnownPrefixes
      /\ (\A p \in DOMAIN a : a[p] \in KnownURIs) /\ \A p \in DOMAIN b : b[p] \in KnownURIs
    BY EncoderFacts, MapFacts
<1>2. \A p \in KnownPrefixes : /\ Uri(e)[p] = (IF p \in DOMAIN a THEN a[p] ELSE Absent)
                               /\ Uri(f)[p] = (IF p \in DOMAIN b THEN b[p] ELSE Absent)
    BY DEF Uri, URIOf
<1>. HIDE DEF a, b
<1>3. \A p \in KnownPrefixes : (p \in DOMAIN a <=> p \in DOMAIN b) /\ (p \in DOMAIN a => a[p] = b[p])
    BY <1>1, <1>2, Distinct
<1>4. DOMAIN a = DOMAIN b
    BY <1>1, <1>3
<1>5. a = b
    BY <1>1, <1>3, <1>4
<1>. QED
    BY <1>5 DEF a, b

LEMMA UpFrom ==
    ASSUME NEW e \in Encoders, NEW f \in Encoders, Held(e) = Held(f), NEW u \in DOMAIN e.up
    PROVE  e.up[u] = IF u \in DOMAIN f.up THEN f.up[u] ELSE <<Absent>>
<1>1. u \in KnownURIs
    BY EncoderFacts, UpFacts
<1>2. Held(e)[u] = Held(f)[u]
    OBVIOUS
<1>. QED
    BY <1>1, <1>2 DEF Held

\* The end of a payload leaves its encoder as the shadow encoder was when it began, but
\* for the keys that are kept: tearDownState undoes setUpState, for every element.
THEOREM PayloadRestores == Spec => ChildRestored
<1>. DEFINE Restored ==
                /\ child'.state = << >> /\ child'.prefixURI = parent.prefixURI
                /\ \A uri \in DOMAIN child'.up :
                      child'.up[uri] = IF uri \in DOMAIN parent.up THEN parent.up[uri]
                                       ELSE <<Absent>>
<1>1. ASSUME IInv, CopyEnd, Len(names) = 1, mode' # "failed" PROVE Restored
    <2>1. mode = "copy" /\ child' = tearDownState(child)
        BY <1>1 DEF CopyEnd, Ended, EndMode
    <2>2. /\ scope \in Seq(Maps) /\ names \in Seq(Names) /\ child \in Encoders /\ parent \in Encoders
          /\ PayloadOK(parent, child, own.decls, names, scope)
        BY <1>1, <2>1 DEF IInv, Fine, Placed
    <2>3. child' \in Encoders /\ child'.state = << >> /\ Uri(child') = Uri(parent)
          /\ Held(child') = Held(parent)
        <3>. DEFINE e == tearDownState(child)
        <3>1. e \in Encoders
            BY ONLY <2>2, PayloadCloses
        <3>2. Len(names) = 1 => e.state = << >> /\ Uri(e) = Uri(parent) /\ Held(e) = Held(parent)
            BY ONLY <2>2, PayloadCloses
        <3>3. child' = e
            BY <2>1
        <3>. HIDE DEF e
        <3>. QED
            BY <1>1, <3>1, <3>2, <3>3
    <2>4. child'.prefixURI = parent.prefixURI
        BY <2>2, <2>3, PrefixesFrom
    <2>5. \A uri \in DOMAIN child'.up :
              child'.up[uri] = IF uri \in DOMAIN parent.up THEN parent.up[uri] ELSE <<Absent>>
        BY <2>2, <2>3, UpFrom
    <2>. QED
        BY <2>3, <2>4, <2>5
<1>2. IInv /\ [Next]_vars => [CopyEnd /\ Len(names) = 1 /\ mode' # "failed" => Restored]_vars
    BY <1>1
<1>. QED
    BY <1>2, Reached, PTL DEF Spec, ChildRestored
=============================================================================
