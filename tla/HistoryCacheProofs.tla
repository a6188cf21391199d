------------------------- MODULE HistoryCacheProofs -------------------------
(***************************************************************************)
(* Proofs about the history cache of stateful workers: it keeps within its *)
(* limits, and what a turn replays is what the sidecar has committed.      *)
(***************************************************************************)
EXTENDS HistoryCache, SequenceTheorems, WellFoundedInduction, TLAPS

----------------------------------------------------------------------------
(* The size of a sequence of entries.                                      *)

\* A set of natural numbers has a smallest element.
LEMMA Smallest ==
  ASSUME NEW S, S \subseteq Nat, S # {}
  PROVE  \E x \in S : \A y \in S : x <= y
<1> DEFINE R == OpToRel(<, Nat)
<1>1. IsWellFoundedOn(R, Nat)
  BY NatLessThanWellFounded
<1>2. \A x, y \in Nat : x < y => <<x, y>> \in R
  BY DEF OpToRel
<1> HIDE DEF R
<1>3. PICK x \in S : \A y \in S : ~(<<y, x>> \in R)
  BY <1>1, WFMin
<1>4. ASSUME NEW y \in S PROVE x <= y
  <2>1. x \in Nat /\ y \in Nat /\ ~(y < x)
    BY <1>2, <1>3
  <2> QED
    BY <2>1
<1> QED
  BY <1>4

Sizable(s) == Len(s) \in Nat /\ \A j \in 1 .. Len(s) : Len(s[j].events) \in Nat

\* f sums up the sizes of the first n entries.
Sums(s, n, f) ==
  /\ f \in [0 .. n -> Nat] /\ f[0] = 0
  /\ \A j \in 1 .. n : f[j] = f[j - 1] + Len(s[j].events)

\* There are such sums.
LEMMA SumsExist ==
  ASSUME NEW s, Sizable(s)
  PROVE  \E f : Sums(s, Len(s), f)
<1> DEFINE Bad == {n \in 0 .. Len(s) : ~ \E f : Sums(s, n, f)}
<1>0. Len(s) \in Nat /\ \A j \in 1 .. Len(s) : Len(s[j].events) \in Nat
  BY DEF Sizable
<1>1. ASSUME Bad # {} PROVE FALSE
  <2>1. Bad \subseteq Nat
    BY <1>0
  <2> HIDE DEF Bad
  <2>2. PICK n \in Bad : \A m \in Bad : n <= m
    BY <1>1, <2>1, Smallest
  <2> USE DEF Bad
  <2>3. n # 0
    <3> DEFINE z == [j \in 0 .. 0 |-> 0]
    <3>1. Sums(s, 0, z)
      BY DEF Sums
    <3> HIDE DEF z
    <3>2. 0 \notin Bad
      BY <3>1
    <3> QED
      BY <2>2, <3>2
  <2>4. n \in 1 .. Len(s) /\ n - 1 \in 0 .. Len(s) /\ n - 1 \notin Bad
    BY <1>0, <2>2, <2>3
  <2>5. PICK f : Sums(s, n - 1, f)
    BY <2>4
  <2> DEFINE g == [j \in 0 .. n |-> IF j = n THEN f[n - 1] + Len(s[n].events) ELSE f[j]]
  <2>6. f \in [0 .. n - 1 -> Nat] /\ n \in Nat /\ Len(s[n].events) \in Nat
    BY <1>0, <2>4, <2>5 DEF Sums
  <2>7. g \in [0 .. n -> Nat] /\ g[0] = 0
    BY <2>4, <2>5, <2>6 DEF Sums
  <2>8. ASSUME NEW j \in 1 .. n PROVE g[j] = g[j - 1] + Len(s[j].events)
    <3>1. CASE j = n
      BY <2>6, <3>1
    <3>2. CASE j # n
      <4>1. j \in 1 .. n - 1 /\ j - 1 \in 0 .. n - 1 /\ j - 1 # n
        BY <2>6, <3>2
      <4> QED
        BY <2>5, <2>6, <3>2, <4>1 DEF Sums
    <3> QED
      BY <3>1, <3>2
  <2>9. Sums(s, n, g)
    <3> HIDE DEF g
    <3> QED
      BY <2>7, <2>8 DEF Sums
  <2> QED
    BY <2>2, <2>9
<1> QED
  BY <1>0, <1>1

\* They are what Size computes.
LEMMA SizeIs ==
  ASSUME NEW s, Sizable(s), NEW f, Sums(s, Len(s), f)
  PROVE  Size(s) = f[Len(s)]
<1> DEFINE Body(h) == [j \in 0 .. Len(s) |-> IF j = 0 THEN 0 ELSE h[j - 1] + Len(s[j].events)]
           g == CHOOSE h : h = Body(h)
           Bad == {n \in 0 .. Len(s) : g[n] # f[n]}
<1>0. Len(s) \in Nat /\ f \in [0 .. Len(s) -> Nat] /\ f[0] = 0
      /\ \A j \in 1 .. Len(s) : f[j] = f[j - 1] + Len(s[j].events)
  BY DEF Sizable, Sums
<1>1. Size(s) = g[Len(s)]
  BY DEF Size
<1>2. f = Body(f)
  <2>1. ASSUME NEW j \in 0 .. Len(s) PROVE f[j] = Body(f)[j]
    <3>1. CASE j = 0
      BY <1>0, <3>1
    <3>2. CASE j # 0
      <4>1. j \in 1 .. Len(s)
        BY <1>0, <3>2
      <4> QED
        BY <1>0, <3>2, <4>1
    <3> QED
      BY <3>1, <3>2
  <2> QED
    BY <1>0, <2>1
<1>3. g = Body(g)
  <2> HIDE DEF Body
  <2> QED
    BY <1>2
<1> HIDE DEF g
<1>4. g[0] = 0 /\ \A j \in 1 .. Len(s) : g[j] = g[j - 1] + Len(s[j].events)
  <2>1. \A j \in 0 .. Len(s) : g[j] = IF j = 0 THEN 0 ELSE g[j - 1] + Len(s[j].events)
    BY <1>3
  <2> HIDE DEF Body
  <2> QED
    BY <1>0, <2>1
<1>5. ASSUME Bad # {} PROVE FALSE
  <2>1. Bad \subseteq Nat
    BY <1>0
  <2> HIDE DEF Bad
  <2>2. PICK n \in Bad : \A m \in Bad : n <= m
    BY <1>5, <2>1, Smallest
  <2> USE DEF Bad
  <2>3. n \in 1 .. Len(s) /\ n - 1 \in 0 .. Len(s) /\ n - 1 \notin Bad
    BY <1>0, <1>4, <2>2
  <2>4. g[n - 1] = f[n - 1]
    BY <2>3
  <2> QED
    BY <1>0, <1>4, <2>2, <2>3, <2>4
<1> QED
  BY <1>0, <1>1, <1>5

----------------------------------------------------------------------------
(* Caches of histories over a set of events.                               *)

Entries(G) == [inst: Instances, events: Seq(G)]
Unique(s) == \A j, k \in DOMAIN s : s[j].inst = s[k].inst => j = k
\* Every entry of s is one of t.
From(s, t) == \A j \in DOMAIN s : \E k \in DOMAIN t : s[j] = t[k]

\* Entries have sizes.
LEMMA EntriesSizable == ASSUME NEW G, NEW s \in Seq(Entries(G)) PROVE Sizable(s)
<1>1. Len(s) \in Nat /\ \A j \in 1 .. Len(s) : s[j] \in Entries(G)
  OBVIOUS
<1>2. \A e \in Entries(G) : Len(e.events) \in Nat
  BY DEF Entries
<1> QED
  BY <1>1, <1>2 DEF Sizable

\* Two sequences of entries one after the other.
LEMMA SizeConcat ==
  ASSUME NEW G, NEW s \in Seq(Entries(G)), NEW t \in Seq(Entries(G))
  PROVE  Size(s) \in Nat /\ Size(t) \in Nat /\ Size(s \o t) = Size(s) + Size(t)
<1> DEFINE a == Len(s)
           b == Len(t)
           u == s \o t
<1>1. /\ a \in Nat /\ b \in Nat /\ u \in Seq(Entries(G)) /\ Len(u) = a + b
      /\ \A j \in 1 .. a + b : u[j] = IF j <= a THEN s[j] ELSE t[j - a]
  BY ConcatProperties
<1>2. Sizable(s) /\ Sizable(t) /\ Sizable(u)
  BY <1>1, EntriesSizable
<1>3. PICK f : Sums(s, a, f)
  BY <1>2, SumsExist
<1>4. PICK g : Sums(t, b, g)
  BY <1>2, SumsExist
<1>5. Size(s) = f[a] /\ Size(t) = g[b]
  BY <1>2, <1>3, <1>4, SizeIs
<1> HIDE DEF u, a, b
<1> DEFINE h == [j \in 0 .. a + b |-> IF j <= a THEN f[j] ELSE f[a] + g[j - a]]
<1>6. /\ f \in [0 .. a -> Nat] /\ f[0] = 0 /\ \A j \in 1 .. a : f[j] = f[j - 1] + Len(s[j].events)
      /\ g \in [0 .. b -> Nat] /\ g[0] = 0 /\ \A j \in 1 .. b : g[j] = g[j - 1] + Len(t[j].events)
      /\ f[a] \in Nat /\ g[b] \in Nat
  BY <1>1, <1>3, <1>4 DEF Sums
<1>7. h \in [0 .. a + b -> Nat] /\ h[0] = 0 /\ h[a + b] = f[a] + g[b]
  <2>1. \A j \in 0 .. a + b : j <= a => j \in 0 .. a
    BY <1>1
  <2>2. \A j \in 0 .. a + b : ~(j <= a) => j - a \in 0 .. b
    BY <1>1
  <2>3. h \in [0 .. a + b -> Nat]
    <3>1. \A j \in 0 .. a : f[j] \in Nat
      BY <1>6
    <3>2. \A j \in 0 .. b : f[a] + g[j] \in Nat
      BY <1>6
    <3>3. \A j \in 0 .. a + b : (IF j <= a THEN f[j] ELSE f[a] + g[j - a]) \in Nat
      BY <2>1, <2>2, <3>1, <3>2
    <3> QED
      BY <3>3
  <2>4. h[0] = 0
    BY <1>1, <1>6
  <2>5. h[a + b] = f[a] + g[b]
    <3>1. CASE b = 0
      BY <1>1, <1>6, <3>1
    <3>2. CASE b # 0
      <4>1. ~(a + b <= a) /\ a + b - a = b /\ a + b \in 0 .. a + b
        BY <1>1, <3>2
      <4> DEFINE m == a + b
      <4>2. h = [j \in 0 .. m |-> IF j <= a THEN f[j] ELSE f[a] + g[j - a]]
        BY Zenon
      <4>m. m \in 0 .. m
        BY <4>1, Zenon
      <4>3. ~(m <= a) /\ m - a = b
        <5> HIDE DEF h
        <5> QED
          BY <1>1, <3>2
      <4> HIDE DEF h, m
      <4>4. h[m] = f[a] + g[m - a]
        BY <4>2, <4>3, <4>m
      <4> QED
        BY <4>3, <4>4 DEF m
    <3> QED
      BY <3>1, <3>2
  <2> QED
    BY <2>3, <2>4, <2>5
<1>8. ASSUME NEW j \in 1 .. a + b PROVE h[j] = h[j - 1] + Len(u[j].events)
  <2>0. j \in 0 .. a + b /\ j - 1 \in 0 .. a + b /\ j \in Nat
    BY <1>1
  <2>1. CASE j <= a
    <3>1. j \in 1 .. a /\ j - 1 <= a /\ u[j] = s[j]
      BY <1>1, <2>0, <2>1
    <3> QED
      BY <1>6, <2>0, <2>1, <3>1
  <2>2. CASE j = a + 1
    <3>1. ~(j <= a) /\ j - 1 <= a /\ j - 1 = a /\ j - a = 1 /\ 1 \in 1 .. b /\ u[j] = t[1]
      BY <1>1, <2>0, <2>2
    <3>2. g[1] = Len(t[1].events)
      <4>1. Len(t[1].events) \in Nat
        BY <1>2, <3>1 DEF Sizable, b
      <4>2. g[1] = g[1 - 1] + Len(t[1].events) /\ 1 - 1 = 0
        BY <1>6, <3>1
      <4> QED
        BY <1>6, <4>1, <4>2
    <3>3. h[j] = f[a] + g[1] /\ h[j - 1] = f[a]
      BY <2>0, <3>1
    <3> QED
      BY <3>1, <3>2, <3>3
  <2>3. CASE j > a + 1
    <3>1. /\ ~(j <= a) /\ ~(j - 1 <= a) /\ j - a \in 1 .. b /\ j - 1 - a \in 0 .. b
          /\ (j - a) - 1 = j - 1 - a /\ u[j] = t[j - a]
      BY <1>1, <2>0, <2>3
    <3>2. h[j] = f[a] + g[j - a] /\ h[j - 1] = f[a] + g[j - 1 - a]
      BY <2>0, <3>1
    <3>3. g[j - a] = g[j - 1 - a] + Len(t[j - a].events)
      BY <1>6, <3>1
    <3>4. g[j - 1 - a] \in Nat /\ Len(t[j - a].events) \in Nat
      BY <1>2, <1>6, <3>1 DEF Sizable, b
    <3>5. f[a] + g[j - a] = (f[a] + g[j - 1 - a]) + Len(t[j - a].events)
      <4>1. f[a] \in Nat
        BY <1>6
      <4> QED
        BY <3>3, <3>4, <4>1
    <3> QED
      BY <3>1, <3>2, <3>5
  <2> QED
    BY <1>1, <2>0, <2>1, <2>2, <2>3
<1>9. Sums(u, Len(u), h)
  <2> HIDE DEF h
  <2> QED
    BY <1>1, <1>7, <1>8 DEF Sums
<1>10. Size(u) = h[a + b]
  BY <1>1, <1>2, <1>9, SizeIs
<1> QED
  BY <1>5, <1>6, <1>7, <1>10 DEF u

\* No entry, and one.
LEMMA SizeSmall ==
  /\ Size(<<>>) = 0
  /\ \A G : \A e \in Entries(G) : Size(<<e>>) = Len(e.events)
<1>1. Size(<<>>) = 0
  <2> DEFINE f == [j \in 0 .. 0 |-> 0]
  <2>1. Sizable(<<>>) /\ Sums(<<>>, Len(<<>>), f)
    BY DEF Sizable, Sums
  <2> HIDE DEF f
  <2>2. Size(<<>>) = f[Len(<<>>)]
    BY <2>1, SizeIs
  <2> QED
    BY <2>2 DEF f
<1>2. ASSUME NEW G, NEW e \in Entries(G) PROVE Size(<<e>>) = Len(e.events)
  <2> DEFINE f == [j \in 0 .. 1 |-> IF j = 0 THEN 0 ELSE Len(e.events)]
  <2>0. Len(e.events) \in Nat /\ Len(<<e>>) = 1 /\ <<e>>[1] = e
    BY DEF Entries
  <2>1. Sizable(<<e>>) /\ Sums(<<e>>, 1, f)
    BY <2>0 DEF Sizable, Sums
  <2> HIDE DEF f
  <2>2. Size(<<e>>) = f[1]
    BY <2>0, <2>1, SizeIs
  <2> QED
    BY <2>2 DEF f
<1> QED
  BY <1>1, <1>2

\* The oldest entries and the others.
LEMMA Suffix ==
  ASSUME NEW G, NEW s \in Seq(Entries(G)), NEW k \in 0 .. Len(s)
  PROVE  LET t == SubSeq(s, k + 1, Len(s))
             u == SubSeq(s, 1, k) IN
         /\ t \in Seq(Entries(G)) /\ u \in Seq(Entries(G)) /\ Len(t) = Len(s) - k /\ Len(u) = k
         /\ \A j \in 1 .. Len(s) - k : t[j] = s[k + j]
         /\ \A j \in 1 .. k : u[j] = s[j]
         /\ Size(t) \in Nat /\ Size(u) \in Nat /\ Size(s) = Size(u) + Size(t)
         /\ From(t, s) /\ (Unique(s) => Unique(t))
<1> DEFINE n == Len(s)
           t == SubSeq(s, k + 1, n)
           u == SubSeq(s, 1, k)
<1>0. n \in Nat /\ k \in Nat /\ k <= n /\ k + 1 \in Int /\ n \in Int /\ 1 \in Int /\ k \in Int
      /\ DOMAIN s = 1 .. n
  OBVIOUS
<1>1. t \in Seq(Entries(G)) /\ Len(t) = n - k /\ \A j \in 1 .. n - k : t[j] = s[k + j]
  <2>1. \A j \in k + 1 .. n : s[j] \in Entries(G)
    BY <1>0
  <2>2. /\ t \in Seq(Entries(G)) /\ Len(t) = IF k + 1 <= n THEN n - (k + 1) + 1 ELSE 0
        /\ \A j \in 1 .. n - (k + 1) + 1 : t[j] = s[k + 1 + j - 1]
    BY <1>0, <2>1, SubSeqProperties
  <2>3. n - (k + 1) + 1 = n - k /\ \A j \in 1 .. n - k : k + 1 + j - 1 = k + j
    BY <1>0
  <2>4. Len(t) = n - k
    <3> HIDE DEF n, t
    <3> QED
      BY <1>0, <2>2
  <2>5. \A j \in 1 .. n - k : t[j] = s[k + j]
    <3> HIDE DEF n, t
    <3> QED
      BY <2>2, <2>3
  <2> QED
    BY <2>2, <2>4, <2>5
<1>2. u \in Seq(Entries(G)) /\ Len(u) = k /\ \A j \in 1 .. k : u[j] = s[j]
  <2>1. \A j \in 1 .. k : s[j] \in Entries(G)
    BY <1>0
  <2>2. /\ u \in Seq(Entries(G)) /\ Len(u) = IF 1 <= k THEN k - 1 + 1 ELSE 0
        /\ \A j \in 1 .. k - 1 + 1 : u[j] = s[1 + j - 1]
    BY <1>0, <2>1, SubSeqProperties
  <2>3. k - 1 + 1 = k /\ \A j \in 1 .. k : 1 + j - 1 = j
    BY <1>0
  <2>4. Len(u) = k
    BY <1>0, <2>2
  <2>5. \A j \in 1 .. k : u[j] = s[j]
    BY <2>2, <2>3
  <2> QED
    BY <2>2, <2>4, <2>5
<1>3. u \o t = s
  <2>1. 1 \in 1 .. n + 1 /\ k \in 1 - 1 .. n /\ n \in k .. n
    BY <1>0
  <2>2. u \o t = SubSeq(s, 1, n)
    BY <2>1, ConcatAdjacentSubSeq
  <2> QED
    BY <2>2, SubSeqFull
<1> HIDE DEF t, u, n
<1>4. DOMAIN t = 1 .. n - k /\ \A j \in 1 .. n - k : k + j \in DOMAIN s
  <2>1. DOMAIN t = 1 .. Len(t)
    BY <1>1
  <2>2. \A j \in 1 .. n - k : k + j \in 1 .. n
    BY <1>0
  <2> QED
    BY <1>0, <1>1, <2>1, <2>2
<1>5. Size(t) \in Nat /\ Size(u) \in Nat /\ Size(s) = Size(u) + Size(t)
  BY <1>1, <1>2, <1>3, SizeConcat
<1>6. From(t, s)
  BY <1>1, <1>4 DEF From
<1>7. ASSUME Unique(s) PROVE Unique(t)
  <2> SUFFICES ASSUME NEW i \in DOMAIN t, NEW j \in DOMAIN t, t[i].inst = t[j].inst PROVE i = j
    BY DEF Unique
  <2>1. s[k + i].inst = s[k + j].inst /\ k + i \in DOMAIN s /\ k + j \in DOMAIN s
    BY <1>1, <1>4
  <2>2. k + i = k + j
    BY <1>7, <2>1 DEF Unique
  <2> QED
    BY <1>0, <1>4, <2>2
<1> QED
  BY <1>1, <1>2, <1>5, <1>6, <1>7 DEF t, u, n

\* What is left without the entry of an instance.
LEMMA WithoutIs ==
  ASSUME NEW G, NEW s \in Seq(Entries(G)), Unique(s), NEW i
  PROVE  LET w == Without(s, i) IN
         /\ w \in Seq(Entries(G)) /\ Unique(w) /\ From(w, s) /\ i \notin Keys(w)
         /\ Len(w) <= Len(s) /\ Size(s) \in Nat /\ Size(w) \in Nat
         /\ i \notin Keys(s) => w = s
         /\ i \in Keys(s) => /\ Position(s, i) \in DOMAIN s /\ s[Position(s, i)].inst = i
                             /\ Len(w) = Len(s) - 1
                             /\ Size(s) = Size(w) + Len(s[Position(s, i)].events)
<1> DEFINE w == Without(s, i)
           n == Len(s)
<1>0. n \in Nat /\ DOMAIN s = 1 .. n /\ Size(s) \in Nat
  BY SizeConcat
<1>1. CASE i \notin Keys(s)
  <2>1. w = s
    BY <1>1 DEF Without
  <2>2. From(s, s) /\ Len(s) <= Len(s)
    BY <1>0 DEF From
  <2> QED
    BY <1>0, <1>1, <2>1, <2>2, Zenon
<1>2. CASE i \in Keys(s)
  <2> DEFINE j == Position(s, i)
             u == SubSeq(s, 1, j - 1)
             t == SubSeq(s, j + 1, n)
             v == SubSeq(s, 1, j)
             e == s[j]
  <2>1. j \in DOMAIN s /\ s[j].inst = i
    <3>1. \E k \in DOMAIN s : s[k].inst = i
      BY <1>2 DEF Keys
    <3> QED
      BY <3>1 DEF Position
  <2>2. w = u \o t
    BY <1>2 DEF Without, RemoveAt
  <2> HIDE DEF j
  <2>3. /\ j \in 1 .. n /\ j \in 0 .. n /\ j - 1 \in 0 .. n /\ 1 \in 1 .. n /\ j \in Nat
        /\ e \in Entries(G) /\ j \in 1 .. Len(s) /\ j <= n
    BY <1>0, <2>1
  <2>4. /\ u \in Seq(Entries(G)) /\ Len(u) = j - 1 /\ Size(u) \in Nat
        /\ \A k \in 1 .. j - 1 : u[k] = s[k]
    BY <2>3, Suffix
  <2>5. /\ t \in Seq(Entries(G)) /\ v \in Seq(Entries(G)) /\ Len(t) = n - j /\ Size(t) \in Nat
        /\ Size(s) = Size(v) + Size(t) /\ Size(v) \in Nat
        /\ \A k \in 1 .. n - j : t[k] = s[j + k]
    BY <2>3, Suffix
  <2>6. v = u \o <<e>>
    BY <2>3, SubSeqRecursiveSecond
  <2> HIDE DEF u, t, v, w, n
  <2>7. Size(v) = Size(u) + Len(e.events) /\ Len(e.events) \in Nat
    <3>1. <<e>> \in Seq(Entries(G)) /\ Size(<<e>>) = Len(e.events) /\ Len(e.events) \in Nat
      BY <2>3, SizeSmall DEF Entries
    <3> HIDE DEF e
    <3> QED
      BY <2>4, <2>6, <3>1, SizeConcat
  <2>8. Size(w) = Size(u) + Size(t) /\ Size(w) \in Nat
    <3>1. Size(u \o t) = Size(u) + Size(t)
      BY <2>4, <2>5, SizeConcat
    <3> QED
      BY <2>2, <2>4, <2>5, <3>1
  <2>9. Size(s) = Size(w) + Len(e.events)
    <3> HIDE DEF e
    <3> QED
      BY <2>4, <2>5, <2>7, <2>8
  <2>10. /\ w \in Seq(Entries(G)) /\ Len(w) = (j - 1) + (n - j)
         /\ \A k \in 1 .. (j - 1) + (n - j) : w[k] = IF k <= j - 1 THEN u[k] ELSE t[k - (j - 1)]
    BY <2>2, <2>4, <2>5, ConcatProperties
  <2>11. Len(w) = n - 1 /\ DOMAIN w = 1 .. n - 1
    <3>1. (j - 1) + (n - j) = n - 1
      BY <1>0, <2>3
    <3>2. Len(w) = n - 1
      BY <2>10, <3>1
    <3> QED
      BY <2>10, <3>2
  <2> DEFINE at(k) == IF k <= j - 1 THEN k ELSE k + 1
  <2>12. ASSUME NEW k \in DOMAIN w
         PROVE  w[k] = s[at(k)] /\ at(k) \in DOMAIN s /\ at(k) # j
    <3>1. k \in 1 .. n - 1 /\ k \in 1 .. (j - 1) + (n - j) /\ k \in Nat
      BY <1>0, <2>3, <2>11
    <3>2. CASE k <= j - 1
      <4>1. k \in 1 .. j - 1 /\ k \in 1 .. n /\ k # j
        BY <1>0, <2>3, <3>1, <3>2
      <4> QED
        BY <1>0, <2>4, <2>10, <3>1, <3>2, <4>1
    <3>3. CASE ~(k <= j - 1)
      <4>1. k - (j - 1) \in 1 .. n - j /\ j + (k - (j - 1)) = k + 1 /\ k + 1 \in 1 .. n /\ k + 1 # j
        BY <1>0, <2>3, <3>1, <3>3
      <4>2. w[k] = t[k - (j - 1)]
        BY <2>10, <3>1, <3>3
      <4>3. t[k - (j - 1)] = s[j + (k - (j - 1))]
        BY <2>5, <4>1
      <4> QED
        BY <1>0, <3>3, <4>1, <4>2, <4>3
    <3> QED
      BY <3>2, <3>3
  <2>13. ASSUME NEW k \in DOMAIN w, NEW m \in DOMAIN w, at(k) = at(m) PROVE k = m
    <3>1. k \in Nat /\ m \in Nat
      BY <2>11, <1>0
    <3> QED
      BY <2>3, <2>13, <3>1
  <2> HIDE DEF at, e
  <2>14. Unique(w)
    <3> SUFFICES ASSUME NEW k \in DOMAIN w, NEW m \in DOMAIN w, w[k].inst = w[m].inst PROVE k = m
      BY DEF Unique
    <3>1. at(k) = at(m)
      BY <2>12 DEF Unique
    <3> QED
      BY <2>13, <3>1
  <2>15. i \notin Keys(w)
    <3> SUFFICES ASSUME NEW k \in DOMAIN w, w[k].inst = i PROVE FALSE
      BY DEF Keys
    <3>1. s[at(k)].inst = i /\ at(k) \in DOMAIN s /\ at(k) # j
      BY <2>12
    <3> QED
      BY <2>1, <3>1 DEF Unique
  <2>16. From(w, s)
    BY <2>12 DEF From
  <2>17. Len(w) <= n
    BY <1>0, <2>11
  <2> QED
    BY <1>0, <1>2, <2>1, <2>8, <2>9, <2>10, <2>11, <2>14, <2>15, <2>16, <2>17 DEF w, n, e, j
<1> QED
  BY <1>1, <1>2

\* A new entry at the end.
LEMMA AppendIs ==
  ASSUME NEW G, NEW s \in Seq(Entries(G)), Unique(s), NEW e \in Entries(G), e.inst \notin Keys(s)
  PROVE  LET a == Append(s, e) IN
         /\ a \in Seq(Entries(G)) /\ Unique(a) /\ Len(a) = Len(s) + 1 /\ a[Len(s) + 1] = e
         /\ \A j \in 1 .. Len(s) : a[j] = s[j]
         /\ Size(a) = Size(s) + Len(e.events) /\ Size(s) \in Nat /\ Len(e.events) \in Nat
<1> DEFINE a == Append(s, e)
           n == Len(s)
<1>1. /\ a \in Seq(Entries(G)) /\ Len(a) = n + 1 /\ a[n + 1] = e /\ n \in Nat
      /\ \A j \in 1 .. n : a[j] = s[j]
  BY AppendProperties
<1>2. a = s \o <<e>> /\ <<e>> \in Seq(Entries(G))
  BY AppendIsConcat
<1> HIDE DEF a
<1>3. Size(a) = Size(s) + Len(e.events) /\ Size(s) \in Nat /\ Len(e.events) \in Nat
  <2>1. Size(<<e>>) = Len(e.events) /\ Len(e.events) \in Nat
    BY SizeSmall DEF Entries
  <2> QED
    BY <1>2, <2>1, SizeConcat
<1>4. Unique(a)
  <2> SUFFICES ASSUME NEW j \in DOMAIN a, NEW k \in DOMAIN a, a[j].inst = a[k].inst PROVE j = k
    BY DEF Unique
  <2>1. DOMAIN a = 1 .. n + 1 /\ DOMAIN s = 1 .. n
    BY <1>1
  <2>2. \A m \in DOMAIN s : s[m].inst # e.inst
    BY DEF Keys
  <2>3. \A m \in 1 .. n + 1 : m \in 1 .. n \/ m = n + 1
    BY <1>1
  <2>4. CASE j \in 1 .. n /\ k \in 1 .. n
    BY <1>1, <2>1, <2>4 DEF Unique
  <2>5. CASE j = n + 1 \/ k = n + 1
    BY <1>1, <2>1, <2>2, <2>3, <2>5
  <2> QED
    BY <2>1, <2>3, <2>4, <2>5
<1> QED
  BY <1>1, <1>3, <1>4 DEF a

\* _evict_to_fit stops at the first number of evictions that will do.
LEMMA EvictedIs ==
  ASSUME NEW s, Len(s) \in Nat \ {0}, NEW total
  PROVE  LET k == Evicted(s, total) IN
         /\ k \in 0 .. Len(s) - 1
         /\ k = Len(s) - 1 \/ InBounds(Len(s) - k, total - Size(SubSeq(s, 1, k)))
<1> DEFINE fine(k) == k = Len(s) - 1 \/ InBounds(Len(s) - k, total - Size(SubSeq(s, 1, k)))
           Fine == {k \in 0 .. Len(s) - 1 : fine(k)}
<1>1. Fine \subseteq Nat /\ Len(s) - 1 \in Fine
  OBVIOUS
<1>2. PICK k \in Fine : \A m \in Fine : k <= m
  <2> HIDE DEF Fine
  <2> QED
    BY <1>1, Smallest
<1>3. k \in 0 .. Len(s) - 1 /\ fine(k)
  BY <1>2
<1>4. ASSUME NEW m \in 0 .. k - 1 PROVE ~fine(m)
  <2>1. m \in 0 .. Len(s) - 1 /\ ~(k <= m)
    BY <1>3
  <2> QED
    BY <1>2, <2>1
<1> HIDE DEF fine
<1>5. LET c == CHOOSE c \in 0 .. Len(s) - 1 : fine(c) /\ \A m \in 0 .. c - 1 : ~fine(m)
      IN c \in 0 .. Len(s) - 1 /\ fine(c)
  BY <1>3, <1>4
<1> QED
  BY <1>5 DEF Evicted, fine

----------------------------------------------------------------------------
(* _WorkflowHistoryCache: every method keeps the cache in order.           *)

Events == 0 .. scene.generations

CacheOK(s, bytes) ==
  /\ s \in Seq(Entries(Events)) /\ Unique(s) /\ bytes = Size(s)
  /\ Len(s) > 1 => InBounds(Len(s), Size(s))

\* Fewer and smaller is within the bounds, too.
LEMMA InBoundsLess ==
  ASSUME scene \in Scenes, NEW n \in Nat, NEW b \in Nat, NEW m \in Nat, NEW c \in Nat,
         InBounds(n, b), m <= n, c <= b
  PROVE  InBounds(m, c)
<1>1. scene.maxInstances \in Nat /\ scene.maxBytes \in Nat
  BY HistoryCacheAssumption
<1> QED
  BY <1>1 DEF InBounds

\* The oldest entries go.
LEMMA SuffixOK ==
  ASSUME scene \in Scenes, NEW s, NEW b, CacheOK(s, b), NEW k \in 0 .. Len(s)
  PROVE  /\ CacheOK(SubSeq(s, k + 1, Len(s)), b - Size(SubSeq(s, 1, k)))
         /\ From(SubSeq(s, k + 1, Len(s)), s)
<1> DEFINE t == SubSeq(s, k + 1, Len(s))
           u == SubSeq(s, 1, k)
<1>0. s \in Seq(Entries(Events)) /\ Unique(s) /\ b = Size(s) /\ Len(s) \in Nat /\ k \in Nat /\ k <= Len(s)
  BY DEF CacheOK
<1>1. /\ t \in Seq(Entries(Events)) /\ Unique(t) /\ From(t, s) /\ Len(t) = Len(s) - k
      /\ Size(t) \in Nat /\ Size(u) \in Nat /\ Size(s) = Size(u) + Size(t)
  BY <1>0, Suffix
<1> HIDE DEF t, u
<1>2. b - Size(u) = Size(t) /\ Size(t) <= Size(s) /\ Size(s) \in Nat
  BY <1>0, <1>1
<1>3. ASSUME Len(t) > 1 PROVE InBounds(Len(t), Size(t))
  <2>1. Len(s) > 1 /\ Len(t) <= Len(s) /\ Len(t) \in Nat
    BY <1>0, <1>1, <1>3
  <2>2. InBounds(Len(s), Size(s))
    BY <2>1 DEF CacheOK
  <2> QED
    BY <1>0, <1>1, <1>2, <2>1, <2>2, InBoundsLess
<1> QED
  BY <1>1, <1>2, <1>3 DEF CacheOK, t, u

\* The entry of an instance goes.
LEMMA WithoutOK ==
  ASSUME scene \in Scenes, CacheOK(entries, totalBytes), NEW i
  PROVE  /\ CacheOK(Without(entries, i), totalBytes - NumBytes(i))
         /\ From(Without(entries, i), entries) /\ i \notin Keys(Without(entries, i))
<1> DEFINE w == Without(entries, i)
<1>0. entries \in Seq(Entries(Events)) /\ Unique(entries) /\ totalBytes = Size(entries) /\ Len(entries) \in Nat
  BY DEF CacheOK
<1>1. /\ w \in Seq(Entries(Events)) /\ Unique(w) /\ From(w, entries) /\ i \notin Keys(w)
      /\ Len(w) <= Len(entries) /\ Size(entries) \in Nat /\ Size(w) \in Nat
      /\ i \notin Keys(entries) => w = entries
      /\ i \in Keys(entries) => /\ Position(entries, i) \in DOMAIN entries
                                /\ Size(entries) = Size(w) + Len(entries[Position(entries, i)].events)
  BY <1>0, WithoutIs
<1> HIDE DEF w
<1>2. Size(w) = totalBytes - NumBytes(i) /\ Size(w) <= Size(entries)
  <2>1. CASE i \in Keys(entries)
    <3>1. NumBytes(i) = Len(entries[Position(entries, i)].events) /\ NumBytes(i) \in Nat
      BY <1>0, <1>1, <2>1 DEF NumBytes, Entries
    <3>2. Size(entries) = Size(w) + NumBytes(i)
      BY <1>1, <2>1, <3>1
    <3> QED
      BY <1>0, <1>1, <3>1, <3>2
  <2>2. CASE i \notin Keys(entries)
    <3>1. NumBytes(i) = 0 /\ w = entries
      BY <1>1, <2>2 DEF NumBytes
    <3> QED
      BY <1>0, <1>1, <3>1
  <2> QED
    BY <2>1, <2>2
<1>3. ASSUME Len(w) > 1 PROVE InBounds(Len(w), Size(w))
  <2>1. Len(entries) > 1 /\ Len(w) \in Nat
    BY <1>0, <1>1, <1>3
  <2>2. InBounds(Len(entries), Size(entries))
    BY <2>1 DEF CacheOK
  <2> QED
    BY <1>0, <1>1, <1>2, <2>1, <2>2, InBoundsLess
<1> QED
  BY <1>1, <1>2, <1>3 DEF CacheOK, w

\* An entry is put, and the oldest are evicted.
LEMMA PutOK ==
  ASSUME scene \in Scenes, CacheOK(entries, totalBytes), NEW i \in Instances, NEW h \in Seq(Events), Put(i, h)
  PROVE  /\ CacheOK(entries', totalBytes')
         /\ \A j \in DOMAIN entries' :
              entries'[j] = Entry(i, h) \/ \E k \in DOMAIN entries : entries'[j] = entries[k]
<1> DEFINE w == Without(entries, i)
           e == Entry(i, h)
           s == Append(w, e)
           total == totalBytes - ReplacedSize(i) + Len(h)
           k == Evicted(s, total)
           t == SubSeq(s, k + 1, Len(s))
           u == SubSeq(s, 1, k)
<1>0. /\ w \in Seq(Entries(Events)) /\ Unique(w) /\ totalBytes - NumBytes(i) = Size(w)
      /\ From(w, entries) /\ i \notin Keys(w) /\ Len(w) \in Nat
  BY WithoutOK DEF CacheOK
<1>1. e \in Entries(Events) /\ e.inst = i /\ e.events = h /\ Len(h) \in Nat
  BY DEF Entry, Entries
<1>2. entries' = t /\ totalBytes' = total - Size(u)
  BY DEF Put
<1>n. ReplacedSize(i) = NumBytes(i)
  BY DEF ReplacedSize
<1> HIDE DEF w, e
<1>3. /\ s \in Seq(Entries(Events)) /\ Unique(s) /\ Len(s) = Len(w) + 1 /\ s[Len(w) + 1] = e
      /\ \A j \in 1 .. Len(w) : s[j] = w[j]
      /\ Size(s) = Size(w) + Len(h) /\ Size(w) \in Nat
  BY <1>0, <1>1, AppendIs
<1>4. total = Size(s) /\ Size(s) \in Nat
  <2>1. total = (totalBytes - NumBytes(i)) + Len(h)
    BY <1>n
  <2> HIDE DEF total, s
  <2> QED
    BY <1>0, <1>1, <1>3, <2>1
<1> HIDE DEF s, total
<1>5. /\ k \in 0 .. Len(s) - 1
      /\ k = Len(s) - 1 \/ InBounds(Len(s) - k, total - Size(u))
  <2>1. Len(s) \in Nat \ {0}
    BY <1>0, <1>3
  <2> QED
    BY <2>1, EvictedIs
<1> HIDE DEF k
<1>6. k \in 0 .. Len(s) /\ Len(s) \in Nat /\ k \in Nat
  BY <1>0, <1>3, <1>5
<1>7. /\ t \in Seq(Entries(Events)) /\ Unique(t) /\ From(t, s) /\ Len(t) = Len(s) - k
      /\ Size(t) \in Nat /\ Size(u) \in Nat /\ Size(s) = Size(u) + Size(t)
  BY <1>3, <1>6, Suffix
<1> HIDE DEF t, u
<1>8. total - Size(u) = Size(t)
  BY <1>4, <1>7
<1>9. ASSUME Len(t) > 1 PROVE InBounds(Len(t), Size(t))
  <2>1. k # Len(s) - 1
    BY <1>6, <1>7, <1>9
  <2> QED
    BY <1>5, <1>7, <1>8, <2>1
<1>10. CacheOK(entries', totalBytes')
  BY <1>2, <1>7, <1>8, <1>9 DEF CacheOK
<1>11. ASSUME NEW j \in DOMAIN t PROVE t[j] = e \/ \E m \in DOMAIN entries : t[j] = entries[m]
  <2>1. PICK m \in DOMAIN s : t[j] = s[m]
    BY <1>7 DEF From
  <2>2. m \in 1 .. Len(w) \/ m = Len(w) + 1
    BY <1>0, <1>3
  <2>3. CASE m = Len(w) + 1
    BY <1>3, <2>1, <2>3
  <2>4. CASE m \in 1 .. Len(w)
    <3>1. t[j] = w[m] /\ m \in DOMAIN w
      BY <1>0, <1>3, <2>1, <2>4
    <3> QED
      BY <1>0, <3>1 DEF From
  <2> QED
    BY <2>2, <2>3, <2>4
<1> QED
  BY <1>2, <1>10, <1>11 DEF e

\* An entry is read.
LEMMA TouchedOK ==
  ASSUME scene \in Scenes, CacheOK(entries, totalBytes), NEW i
  PROVE  /\ CacheOK(Touched(i), totalBytes) /\ From(Touched(i), entries)
         /\ \A e \in Cached(i) : \E j \in DOMAIN entries : e = entries[j] /\ e.inst = i
<1> DEFINE w == Without(entries, i)
           p == Position(entries, i)
           e == entries[p]
<1>0. entries \in Seq(Entries(Events)) /\ Unique(entries) /\ totalBytes = Size(entries)
  BY DEF CacheOK
<1>1. CASE i \notin Keys(entries)
  BY <1>1 DEF Touched, Cached, From
<1>2. CASE i \in Keys(entries)
  <2>1. /\ w \in Seq(Entries(Events)) /\ Unique(w) /\ From(w, entries) /\ i \notin Keys(w)
        /\ Size(w) \in Nat /\ p \in DOMAIN entries /\ e.inst = i /\ Len(w) = Len(entries) - 1
        /\ Size(entries) = Size(w) + Len(e.events)
    BY <1>0, <1>2, WithoutIs
  <2>2. Touched(i) = Append(w, e) /\ Cached(i) = {e} /\ e \in Entries(Events)
    BY <1>0, <1>2, <2>1 DEF Touched, Cached
  <2>3. e \in {entries[j] : j \in DOMAIN entries}
    BY <2>1
  <2> HIDE DEF w, e, p
  <2> DEFINE s == Append(w, e)
  <2>4. /\ s \in Seq(Entries(Events)) /\ Unique(s) /\ Len(s) = Len(w) + 1 /\ s[Len(w) + 1] = e
        /\ \A j \in 1 .. Len(w) : s[j] = w[j]
        /\ Size(s) = Size(w) + Len(e.events)
    BY <2>1, <2>2, AppendIs
  <2> HIDE DEF s
  <2>5. Size(s) = Size(entries) /\ Len(s) = Len(entries)
    <3>1. Len(w) + 1 = Len(entries)
      BY <1>0, <2>1
    <3> QED
      BY <2>1, <2>4, <3>1
  <2>6. CacheOK(s, totalBytes)
    BY <1>0, <2>4, <2>5 DEF CacheOK
  <2>7. From(s, entries)
    <3> SUFFICES ASSUME NEW j \in DOMAIN s PROVE \E k \in DOMAIN entries : s[j] = entries[k]
      BY DEF From
    <3>1. Len(w) \in Nat /\ DOMAIN w = 1 .. Len(w) /\ DOMAIN s = 1 .. Len(w) + 1
      BY <2>1, <2>4
    <3>2. j \in 1 .. Len(w) \/ j = Len(w) + 1
      BY <3>1
    <3>3. CASE j \in 1 .. Len(w)
      BY <2>1, <2>4, <3>1, <3>3 DEF From
    <3>4. CASE j = Len(w) + 1
      BY <2>3, <2>4, <3>4
    <3> QED
      BY <3>2, <3>3, <3>4
  <2> QED
    BY <2>1, <2>2, <2>3, <2>6, <2>7 DEF s
<1> QED
  BY <1>1, <1>2

----------------------------------------------------------------------------
(* Turns and the sidecar.                                                  *)

TurnRecords ==
  [stream: 0 .. stream, inst: Instances, count: 0 .. Full, past: Seq(Events), history: Seq(Events),
   ends: BOOLEAN, stage: {"received", "missed", "resolved", "executed"}]

\* A turn that the sidecar waits for has what it needs to replay, or has
\* replayed as many events as are committed; the one that reaches the bound
\* ends the execution.
TurnInv(t) ==
  /\ t.inst \in pending
  /\ t.stage = "received" /\ t.count = Full => t.past = committed[t.inst]
  /\ t.stage = "received" /\ t.count # Full =>
       /\ t.count <= Len(committed[t.inst])
       /\ t.past = SubSeq(committed[t.inst], t.count + 1, Len(committed[t.inst]))
  /\ t.stage \in {"resolved", "executed"} => Len(t.history) = Len(committed[t.inst])
  /\ t.stage = "executed" /\ ~t.ends => Len(t.history) # MaxLen

\* What the sidecar takes the worker to have is committed.
SidecarInv(i) ==
  Len(committed[i]) <= MaxLen /\ (warm[i] # Full => warm[i] <= Len(committed[i]))

SidecarOK ==
  /\ committed \in [Instances -> Seq(Events)] /\ gen \in [Instances -> Events]
  /\ ended \subseteq Instances /\ pending \subseteq Instances /\ warm \in [Instances -> 0 .. Full]
  /\ \A i \in Instances : SidecarInv(i)

TurnsOK ==
  /\ turns \subseteq TurnRecords
  /\ \A t \in turns : Live(t) => TurnInv(t)
  /\ \A t, u \in turns : Live(t) /\ Live(u) /\ t.inst = u.inst => t = u

CoreInv ==
  /\ scene \in Scenes /\ stream \in Nat /\ failures \in Nat
  /\ CacheOK(entries, totalBytes) /\ SidecarOK /\ TurnsOK

\* It is what Inv says, and more.
LEMMA CoreImpliesInv == CoreInv => Inv
<1> SUFFICES ASSUME CoreInv PROVE Inv
  OBVIOUS
<1>1. entries \in Seq([inst: Instances, events: Seq(0 .. scene.generations)]) /\ totalBytes = Size(entries)
      /\ \A j, k \in DOMAIN entries : entries[j].inst = entries[k].inst => j = k
  BY DEF CoreInv, CacheOK, Entries, Events, Unique
<1>2. totalBytes \in Nat
  BY SizeConcat DEF CoreInv, CacheOK
<1>3. TypeOK
  BY <1>1, <1>2 DEF CoreInv, SidecarOK, TurnsOK, TurnRecords, TypeOK, History, Events
<1>4. BytesAccounted /\ WithinBounds
  BY <1>1 DEF CoreInv, CacheOK, BytesAccounted, WithinBounds
<1> QED
  BY <1>3, <1>4 DEF Inv

\* A turn moves on.
LEMMA AdvancedOK ==
  ASSUME CoreInv, NEW t \in turns, NEW u \in TurnRecords, Advanced(t, u),
         u.inst = t.inst, u.stream = t.stream, Live(t) => TurnInv(u)
  PROVE  /\ turns' \subseteq TurnRecords
         /\ \A v \in turns' : Live(v) => TurnInv(v)
         /\ \A v, x \in turns' : Live(v) /\ Live(x) /\ v.inst = x.inst => v = x
<1>1. turns' = (turns \ {t}) \cup {u}
  BY DEF Advanced
<1>2. Live(u) = Live(t)
  BY DEF Live
<1> QED
  BY <1>1, <1>2 DEF CoreInv, TurnsOK

\* Nothing of the turns' surroundings changes.
LEMMA Surroundings ==
  ASSUME CoreInv, scene' = scene, stream' = stream, failures' = failures, UNCHANGED sidecarVars,
         CacheOK(entries', totalBytes'), turns' \subseteq TurnRecords,
         \A v \in turns' : Live(v) => TurnInv(v),
         \A v, x \in turns' : Live(v) /\ Live(x) /\ v.inst = x.inst => v = x
  PROVE  CoreInv'
<1>1. CacheOK(entries, totalBytes)'
  BY DEF CacheOK, InBounds, Events, Entries
<1>2. SidecarOK'
  BY DEF CoreInv, SidecarOK, SidecarInv, Events, sidecarVars
<1>3. \A v : TurnInv(v)' = TurnInv(v) /\ Live(v)' = Live(v)
  BY DEF TurnInv, Live, sidecarVars
<1>4. TurnsOK'
  BY <1>3 DEF TurnsOK, TurnRecords, Events
<1> QED
  BY <1>1, <1>2, <1>4 DEF CoreInv

\* A new stream: no turn of the old one is waited for.
LEMMA NewStreamOK ==
  ASSUME CoreInv, scene' = scene, failures' \in Nat, NewStream, turns' \subseteq turns
  PROVE  CoreInv'
<1>0. /\ scene \in Scenes /\ stream \in Nat /\ stream' = stream + 1 /\ MaxLen \in Nat
      /\ entries' = <<>> /\ totalBytes' = 0 /\ warm' = [i \in Instances |-> Full] /\ pending' = {}
      /\ committed' = committed /\ gen' = gen /\ ended' = ended
  BY HistoryCacheAssumption DEF CoreInv, NewStream, Reset
<1>1. CacheOK(entries, totalBytes)'
  <2>1. entries' \in Seq(Entries(Events)) /\ Len(entries') = 0 /\ DOMAIN entries' = {}
    BY <1>0
  <2>2. Size(entries') = 0
    BY <1>0, SizeSmall
  <2>3. Unique(entries')
    BY <2>1 DEF Unique
  <2>4. CacheOK(entries', totalBytes')
    BY <1>0, <2>1, <2>2, <2>3 DEF CacheOK
  <2> QED
    BY <2>4 DEF CacheOK, InBounds, Events, Entries
<1>2. SidecarOK'
  <2>1. Full \in 0 .. Full
    BY <1>0 DEF Full
  <2>2. \A i \in Instances : warm'[i] = Full
    BY <1>0
  <2> QED
    BY <1>0, <2>1, <2>2 DEF CoreInv, SidecarOK, SidecarInv, Events
<1>3. \A t \in turns' : t \in TurnRecords' /\ ~Live(t)'
  <2> SUFFICES ASSUME NEW t \in turns PROVE t \in TurnRecords' /\ ~Live(t)'
    OBVIOUS
  <2>1. t \in TurnRecords /\ t.stream \in 0 .. stream
    BY DEF CoreInv, TurnsOK, TurnRecords
  <2>2. t.stream \in 0 .. stream' /\ t.stream # stream'
    BY <1>0, <2>1
  <2> QED
    BY <2>1, <2>2 DEF TurnRecords, Live, Events
<1>4. TurnsOK'
  BY <1>3 DEF TurnsOK
<1> QED
  BY <1>0, <1>1, <1>2, <1>4 DEF CoreInv

\* A cached prefix and the delta are as long as the committed history.
LEMMA JoinedLength ==
  ASSUME NEW c \in Seq(Events), NEW h \in Seq(Events), Len(h) <= Len(c)
  PROVE  LET d == SubSeq(c, Len(h) + 1, Len(c)) IN
         /\ d \in Seq(Events) /\ h \o d \in Seq(Events) /\ Len(h \o d) = Len(c)
         /\ (\A k \in 1 .. Len(h) : h[k] = c[k]) => h \o d = c
<1> DEFINE m == Len(h)
           n == Len(c)
           d == SubSeq(c, m + 1, n)
           j == h \o d
<1>0. m \in Nat /\ n \in Nat /\ m <= n /\ m + 1 \in Int /\ n \in Int /\ \A k \in m + 1 .. n : c[k] \in Events
  OBVIOUS
<1>1. /\ d \in Seq(Events) /\ Len(d) = IF m + 1 <= n THEN n - (m + 1) + 1 ELSE 0
      /\ \A k \in 1 .. n - (m + 1) + 1 : d[k] = c[m + 1 + k - 1]
  BY <1>0, SubSeqProperties
<1>2. /\ j \in Seq(Events) /\ Len(j) = m + Len(d)
      /\ \A k \in 1 .. m + Len(d) : j[k] = IF k <= m THEN h[k] ELSE d[k - m]
  BY <1>1, ConcatProperties
<1> HIDE DEF d, j, m, n
<1>3. Len(d) = n - m
  BY <1>0, <1>1
<1>4. Len(j) = n
  BY <1>0, <1>2, <1>3
<1>5. ASSUME \A k \in 1 .. m : h[k] = c[k] PROVE j = c
  <2>1. ASSUME NEW k \in 1 .. n PROVE j[k] = c[k]
    <3>0. k \in 1 .. m + Len(d) /\ k \in Nat
      BY <1>0, <1>3
    <3>1. CASE k <= m
      <4>1. k \in 1 .. m
        BY <1>0, <3>0, <3>1
      <4> QED
        BY <1>2, <1>5, <3>0, <3>1, <4>1
    <3>2. CASE ~(k <= m)
      <4>1. k - m \in 1 .. n - (m + 1) + 1 /\ m + 1 + (k - m) - 1 = k
        BY <1>0, <3>0, <3>2
      <4>2. d[k - m] = c[m + 1 + (k - m) - 1]
        BY <1>1, <4>1
      <4> QED
        BY <1>2, <3>0, <3>2, <4>1, <4>2
    <3> QED
      BY <3>1, <3>2
  <2>2. Len(c) = n
    BY DEF n
  <2> QED
    BY <1>2, <1>4, <2>1, <2>2, SeqEqual
<1> QED
  BY <1>1, <1>2, <1>4, <1>5 DEF d, j, m, n

\* Every step keeps the cache, the turns and the sidecar in order.
LEMMA CoreStep == CoreInv /\ [Next]_vars => CoreInv'
<1> SUFFICES ASSUME CoreInv, [Next]_vars PROVE CoreInv'
  OBVIOUS
<1>0. /\ scene \in Scenes /\ stream \in Nat /\ failures \in Nat /\ CacheOK(entries, totalBytes)
      /\ MaxLen \in Nat /\ turns \subseteq TurnRecords
      /\ \A t \in turns : Live(t) => TurnInv(t)
      /\ \A t, u \in turns : Live(t) /\ Live(u) /\ t.inst = u.inst => t = u
  BY HistoryCacheAssumption DEF CoreInv, TurnsOK
<1>c. /\ committed \in [Instances -> Seq(Events)] /\ gen \in [Instances -> Events]
      /\ ended \subseteq Instances /\ pending \subseteq Instances /\ warm \in [Instances -> 0 .. Full]
      /\ \A i \in Instances : SidecarInv(i)
  BY DEF CoreInv, SidecarOK
<1>t. \A t \in turns : /\ t.inst \in Instances /\ t.past \in Seq(Events) /\ t.history \in Seq(Events)
                       /\ t.ends \in BOOLEAN /\ t.count \in 0 .. Full /\ t.stream \in 0 .. stream
  BY <1>0 DEF TurnRecords
<1>1. CASE UNCHANGED vars
  <2>1. /\ scene' = scene /\ stream' = stream /\ failures' = failures /\ UNCHANGED sidecarVars
        /\ entries' = entries /\ totalBytes' = totalBytes /\ turns' = turns
    BY <1>1 DEF vars
  <2> QED
    BY <1>0, <2>1, Surroundings
<1>s. ASSUME Next PROVE scene' = scene
  BY <1>s DEF Next
<1>2. CASE ResolveFull /\ scene' = scene
  <2>1. PICK t \in turns : /\ t.stage = "received" /\ t.count = Full
                           /\ Advanced(t, [t EXCEPT !.stage = "resolved", !.history = t.past])
    BY <1>2 DEF ResolveFull
  <2> DEFINE u == [t EXCEPT !.stage = "resolved", !.history = t.past]
  <2>2. /\ u \in TurnRecords /\ u.stream = t.stream /\ u.inst = t.inst /\ u.stage = "resolved"
        /\ u.history = t.past
    BY <1>0, <1>t DEF TurnRecords
  <2>3. Advanced(t, u)
    BY <2>1
  <2> HIDE DEF u
  <2>4. Live(t) => TurnInv(u)
    BY <1>0, <2>1, <2>2 DEF TurnInv
  <2>5. /\ entries' = entries /\ totalBytes' = totalBytes /\ stream' = stream /\ failures' = failures
        /\ UNCHANGED sidecarVars
    BY <1>2 DEF ResolveFull
  <2>6. /\ turns' \subseteq TurnRecords
        /\ \A v \in turns' : Live(v) => TurnInv(v)
        /\ \A v, x \in turns' : Live(v) /\ Live(x) /\ v.inst = x.inst => v = x
    BY <2>2, <2>3, <2>4, AdvancedOK
  <2> QED
    BY <1>0, <1>2, <2>5, <2>6, Surroundings
<1>3. CASE ResolveDelta /\ scene' = scene
  <2>1. PICK t \in turns :
          /\ t.stage = "received" /\ t.count # Full /\ entries' = Touched(t.inst)
          /\ \/ Advanced(t, [t EXCEPT !.stage = "missed"])
             \/ \E e \in Prefix(t.inst, t.count) :
                  Advanced(t, [t EXCEPT !.stage = "resolved", !.history = e.events \o t.past])
    BY <1>3 DEF ResolveDelta
  <2>2. CacheOK(entries', totalBytes)
        /\ \A e \in Cached(t.inst) : \E j \in DOMAIN entries : e = entries[j] /\ e.inst = t.inst
    BY <1>0, <2>1, TouchedOK
  <2>3. PICK u \in TurnRecords : /\ Advanced(t, u) /\ u.inst = t.inst /\ u.stream = t.stream
                                 /\ Live(t) => TurnInv(u)
    <3>1. CASE Advanced(t, [t EXCEPT !.stage = "missed"])
      <4> DEFINE u == [t EXCEPT !.stage = "missed"]
      <4>1. u \in TurnRecords /\ u.stream = t.stream /\ u.inst = t.inst /\ u.stage = "missed"
        BY <1>0, <1>t DEF TurnRecords
      <4>2. Advanced(t, u)
        BY <3>1
      <4> HIDE DEF u
      <4>3. Live(t) => TurnInv(u)
        BY <1>0, <4>1 DEF TurnInv
      <4> QED
        BY <4>1, <4>2, <4>3
    <3>2. CASE \E e \in Prefix(t.inst, t.count) :
                 Advanced(t, [t EXCEPT !.stage = "resolved", !.history = e.events \o t.past])
      <4>1. PICK e \in Prefix(t.inst, t.count) :
              Advanced(t, [t EXCEPT !.stage = "resolved", !.history = e.events \o t.past])
        BY <3>2
      <4> DEFINE h == e.events \o t.past
                 u == [t EXCEPT !.stage = "resolved", !.history = h]
      <4>2. e.events \in Seq(Events) /\ Len(e.events) = t.count
        <5>1. e \in Entries(Events)
          BY <1>0, <2>2 DEF Prefix, CacheOK
        <5> QED
          BY <5>1 DEF Prefix, Entries
      <4>3. h \in Seq(Events)
        BY <1>t, <4>2, ConcatProperties
      <4>4. ASSUME Live(t) PROVE Len(h) = Len(committed[t.inst]) /\ t.inst \in pending
        <5>1. /\ t.count <= Len(committed[t.inst]) /\ t.inst \in pending
              /\ t.past = SubSeq(committed[t.inst], t.count + 1, Len(committed[t.inst]))
          BY <1>0, <2>1, <4>4 DEF TurnInv
        <5>2. committed[t.inst] \in Seq(Events)
          BY <1>c, <1>t
        <5>3. LET c == committed[t.inst]
                  d == SubSeq(c, Len(e.events) + 1, Len(c)) IN Len(e.events \o d) = Len(c)
          BY <4>2, <5>1, <5>2, JoinedLength
        <5> QED
          BY <4>2, <5>1, <5>3
      <4> HIDE DEF h
      <4>5. u \in TurnRecords /\ u.stream = t.stream /\ u.inst = t.inst /\ u.stage = "resolved" /\ u.history = h
        BY <1>0, <1>t, <4>3 DEF TurnRecords
      <4>6. Advanced(t, u)
        BY <4>1 DEF h
      <4> HIDE DEF u
      <4>7. Live(t) => TurnInv(u)
        BY <4>4, <4>5 DEF TurnInv
      <4> QED
        BY <4>5, <4>6, <4>7
    <3> QED
      BY <2>1, <3>1, <3>2
  <2>4. /\ totalBytes' = totalBytes /\ stream' = stream /\ failures' = failures /\ UNCHANGED sidecarVars
    BY <1>3 DEF ResolveDelta
  <2>5. /\ turns' \subseteq TurnRecords
        /\ \A v \in turns' : Live(v) => TurnInv(v)
        /\ \A v, x \in turns' : Live(v) /\ Live(x) /\ v.inst = x.inst => v = x
    BY <2>3, AdvancedOK
  <2> QED
    BY <1>3, <2>2, <2>4, <2>5, Surroundings
<1>4. CASE Fetch /\ scene' = scene
  <2>1. PICK t \in turns :
          Advanced(t, [t EXCEPT !.stage = "resolved", !.history = committed[t.inst]])
    BY <1>4 DEF Fetch
  <2> DEFINE u == [t EXCEPT !.stage = "resolved", !.history = committed[t.inst]]
  <2>2. /\ u \in TurnRecords /\ u.stream = t.stream /\ u.inst = t.inst /\ u.stage = "resolved"
        /\ u.history = committed[t.inst]
    <3>1. committed[t.inst] \in Seq(Events)
      BY <1>c, <1>t
    <3> QED
      BY <1>0, <1>t, <3>1 DEF TurnRecords
  <2>3. Advanced(t, u)
    BY <2>1
  <2> HIDE DEF u
  <2>4. Live(t) => TurnInv(u)
    BY <1>0, <2>2 DEF TurnInv
  <2>5. /\ entries' = entries /\ totalBytes' = totalBytes /\ stream' = stream /\ failures' = failures
        /\ UNCHANGED sidecarVars
    BY <1>4 DEF Fetch
  <2>6. /\ turns' \subseteq TurnRecords
        /\ \A v \in turns' : Live(v) => TurnInv(v)
        /\ \A v, x \in turns' : Live(v) /\ Live(x) /\ v.inst = x.inst => v = x
    BY <2>2, <2>3, <2>4, AdvancedOK
  <2> QED
    BY <1>0, <1>4, <2>5, <2>6, Surroundings
<1>5. CASE Execute /\ scene' = scene
  <2>1. PICK t \in turns, b \in BOOLEAN :
          /\ t.stage = "resolved" /\ (Len(t.history) = MaxLen => b)
          /\ IF b THEN Delete(t.inst) ELSE Put(t.inst, t.history)
          /\ Advanced(t, [t EXCEPT !.stage = "executed", !.ends = b])
    BY <1>5 DEF Execute
  <2> DEFINE u == [t EXCEPT !.stage = "executed", !.ends = b]
  <2>2. /\ u \in TurnRecords /\ u.stream = t.stream /\ u.inst = t.inst /\ u.stage = "executed"
        /\ u.history = t.history /\ u.ends = b
    BY <1>0, <1>t DEF TurnRecords
  <2>3. Advanced(t, u)
    BY <2>1
  <2> HIDE DEF u
  <2>4. Live(t) => TurnInv(u)
    BY <1>0, <2>1, <2>2 DEF TurnInv
  <2>5. CacheOK(entries', totalBytes')
    <3>1. CASE b
      BY <1>0, <2>1, <3>1, WithoutOK DEF Delete
    <3>2. CASE ~b
      BY <1>0, <1>t, <2>1, <3>2, PutOK
    <3> QED
      BY <3>1, <3>2
  <2>6. stream' = stream /\ failures' = failures /\ UNCHANGED sidecarVars
    BY <1>5 DEF Execute
  <2>7. /\ turns' \subseteq TurnRecords
        /\ \A v \in turns' : Live(v) => TurnInv(v)
        /\ \A v, x \in turns' : Live(v) /\ Live(x) /\ v.inst = x.inst => v = x
    BY <2>2, <2>3, <2>4, AdvancedOK
  <2> QED
    BY <1>5, <2>5, <2>6, <2>7, Surroundings
<1>6. CASE Respond /\ scene' = scene
  <2>0. entries' = entries /\ totalBytes' = totalBytes /\ stream' = stream /\ failures' = failures
    BY <1>6 DEF Respond
  <2>1. PICK t \in turns :
          /\ t.stage = "executed" /\ Live(t) /\ turns' = turns \ {t} /\ pending' = pending \ {t.inst}
          /\ \/ /\ ~t.ends /\ UNCHANGED <<gen, ended>>
                /\ committed' = [committed EXCEPT ![t.inst] = Append(@, gen[t.inst])]
                /\ warm' = [warm EXCEPT ![t.inst] = Len(committed[t.inst])]
             \/ /\ ended' = ended \cup {t.inst} /\ UNCHANGED <<committed, gen>>
                /\ warm' = [warm EXCEPT ![t.inst] = Full]
             \/ /\ gen[t.inst] < scene.generations /\ UNCHANGED ended
                /\ gen' = [gen EXCEPT ![t.inst] = @ + 1]
                /\ committed' = [committed EXCEPT ![t.inst] = <<>>]
                /\ warm' = [warm EXCEPT ![t.inst] = Full]
    BY <1>6 DEF Respond
  <2> DEFINE i == t.inst
  <2>2. i \in Instances /\ committed[i] \in Seq(Events) /\ SidecarInv(i) /\ gen[i] \in Events /\ TurnInv(t)
        /\ Full \in 0 .. Full /\ Full = MaxLen + 1 /\ Len(committed[i]) \in Nat
    BY <1>0, <1>c, <1>t, <2>1 DEF Full
  <2> HIDE DEF i
  <2>3. /\ committed' \in [Instances -> Seq(Events)] /\ gen' \in [Instances -> Events]
        /\ ended' \subseteq Instances /\ warm' \in [Instances -> 0 .. Full]
        /\ Len(committed'[i]) <= MaxLen /\ (warm'[i] # Full => warm'[i] <= Len(committed'[i]))
        /\ \A k \in Instances : k # i => committed'[k] = committed[k] /\ warm'[k] = warm[k]
    <3>1. CASE ~t.ends /\ committed' = [committed EXCEPT ![i] = Append(committed[i], gen[i])]
               /\ warm' = [warm EXCEPT ![i] = Len(committed[i])] /\ UNCHANGED <<gen, ended>>
      <4>1. Append(committed[i], gen[i]) \in Seq(Events)
            /\ Len(Append(committed[i], gen[i])) = Len(committed[i]) + 1
        BY <2>2, AppendProperties
      <4>2. Len(committed[i]) < MaxLen
        <5>1. Len(committed[i]) # MaxLen /\ Len(committed[i]) <= MaxLen
          BY <2>1, <2>2, <3>1 DEF TurnInv, SidecarInv, i
        <5> QED
          BY <1>0, <2>2, <5>1
      <4>3. Len(committed[i]) \in 0 .. Full /\ Len(committed[i]) + 1 <= MaxLen
            /\ Len(committed[i]) <= Len(committed[i]) + 1
        BY <1>0, <2>2, <4>2
      <4>4. committed'[i] = Append(committed[i], gen[i]) /\ warm'[i] = Len(committed[i])
        BY <1>c, <2>2, <3>1
      <4>5. committed' \in [Instances -> Seq(Events)] /\ warm' \in [Instances -> 0 .. Full]
        BY <1>c, <3>1, <4>1, <4>3
      <4> QED
        BY <1>c, <3>1, <4>1, <4>3, <4>4, <4>5
    <3>2. CASE ended' = ended \cup {i} /\ UNCHANGED <<committed, gen>> /\ warm' = [warm EXCEPT ![i] = Full]
      BY <1>c, <2>2, <3>2 DEF SidecarInv
    <3>3. CASE gen[i] < scene.generations /\ gen' = [gen EXCEPT ![i] = gen[i] + 1] /\ UNCHANGED ended
               /\ committed' = [committed EXCEPT ![i] = <<>>] /\ warm' = [warm EXCEPT ![i] = Full]
      <4>1. gen[i] + 1 \in Events
        <5>1. scene.generations \in Nat
          BY <1>0, HistoryCacheAssumption
        <5> QED
          BY <2>2, <3>3, <5>1 DEF Events
      <4>2. <<>> \in Seq(Events) /\ Len(<<>>) <= MaxLen
        BY <1>0
      <4>3. committed'[i] = <<>> /\ warm'[i] = Full
        BY <1>c, <2>2, <3>3
      <4> QED
        BY <1>c, <2>2, <3>3, <4>1, <4>2, <4>3
    <3> QED
      BY <2>1, <3>1, <3>2, <3>3 DEF i
  <2>4. SidecarOK'
    <3>1. pending' \subseteq Instances
      BY <1>c, <2>1
    <3>2. \A k \in Instances : SidecarInv(k)'
      BY <1>c, <2>3 DEF SidecarInv
    <3> QED
      BY <1>6, <2>3, <3>1, <3>2 DEF SidecarOK, Events
  <2>5. ASSUME NEW v \in turns', Live(v) PROVE TurnInv(v)'
    <3>1. v \in turns /\ v # t /\ v.inst # i /\ TurnInv(v) /\ v.inst \in Instances
      BY <1>0, <1>t, <2>1, <2>5 DEF i
    <3>2. committed'[v.inst] = committed[v.inst] /\ v.inst \in pending'
      BY <2>1, <2>3, <3>1 DEF TurnInv, i
    <3> QED
      BY <3>1, <3>2 DEF TurnInv
  <2>6. TurnsOK'
    <3>1. \A v : Live(v)' = Live(v)
      BY <2>0 DEF Live
    <3>2. TurnRecords' = TurnRecords
      BY <1>6, <2>0 DEF TurnRecords, Events
    <3> QED
      BY <1>0, <2>1, <2>5, <3>1, <3>2 DEF TurnsOK
  <2>7. CacheOK(entries, totalBytes)'
    BY <1>0, <1>6, <2>0 DEF CacheOK, InBounds, Events, Entries
  <2> QED
    BY <1>0, <1>6, <2>0, <2>4, <2>6, <2>7 DEF CoreInv
<1>7. CASE RespondLate /\ scene' = scene
  <2>1. /\ turns' \subseteq turns /\ entries' = entries /\ totalBytes' = totalBytes
        /\ stream' = stream /\ failures' = failures /\ UNCHANGED sidecarVars
    BY <1>7 DEF RespondLate
  <2> QED
    BY <1>0, <1>7, <2>1, Surroundings
<1>8. CASE Dispatch /\ scene' = scene
  <2>0. /\ entries' = entries /\ totalBytes' = totalBytes /\ stream' = stream /\ failures' = failures
        /\ committed' = committed /\ gen' = gen /\ ended' = ended /\ warm' = warm
    BY <1>8 DEF Dispatch
  <2>1. PICK i \in Instances \ (ended \cup pending) :
          /\ pending' = pending \cup {i}
          /\ turns' = turns \cup
               {Turn(i, warm[i], IF warm[i] = Full THEN committed[i]
                                 ELSE SubSeq(committed[i], warm[i] + 1, Len(committed[i])))}
    BY <1>8 DEF Dispatch
  <2> DEFINE p == IF warm[i] = Full THEN committed[i]
                  ELSE SubSeq(committed[i], warm[i] + 1, Len(committed[i]))
  <2>2. committed[i] \in Seq(Events) /\ warm[i] \in 0 .. Full /\ SidecarInv(i) /\ Len(committed[i]) \in Nat
        /\ warm[i] \in Nat
    BY <1>c, <1>0 DEF Full
  <2>3. p \in Seq(Events)
    <3>1. CASE warm[i] = Full
      BY <2>2, <3>1
    <3>2. CASE warm[i] # Full
      <4>1. \A k \in warm[i] + 1 .. Len(committed[i]) : committed[i][k] \in Events
        BY <2>2
      <4>2. warm[i] + 1 \in Int /\ Len(committed[i]) \in Int
        BY <2>2
      <4>3. SubSeq(committed[i], warm[i] + 1, Len(committed[i])) \in Seq(Events)
        BY <4>1, <4>2, SubSeqProperties
      <4> QED
        BY <3>2, <4>3
    <3> QED
      BY <3>1, <3>2
  <2>p. /\ warm[i] = Full => p = committed[i]
        /\ warm[i] # Full => p = SubSeq(committed[i], warm[i] + 1, Len(committed[i]))
    OBVIOUS
  <2>u. PICK u : u = Turn(i, warm[i], p)
    OBVIOUS
  <2>4. turns' = turns \cup {u}
    BY <2>1, <2>u
  <2> HIDE DEF p
  <2>5. /\ u \in TurnRecords /\ u.stream = stream /\ u.inst = i /\ u.count = warm[i] /\ u.past = p
        /\ u.stage = "received"
    <3>1. stream \in 0 .. stream /\ <<>> \in Seq(Events)
      BY <1>0
    <3> QED
      BY <2>2, <2>3, <2>u, <3>1 DEF Turn, TurnRecords
  <2>6. SidecarOK'
    BY <1>8, <1>c, <2>0, <2>1 DEF SidecarOK, SidecarInv, Events
  <2>7. \A v : Live(v)' = Live(v)
    BY <2>0 DEF Live
  <2>8. TurnInv(u)'
    <3>1. i \in pending' /\ committed'[i] = committed[i]
      BY <2>0, <2>1
    <3>2. warm[i] # Full => warm[i] <= Len(committed[i])
      BY <2>2 DEF SidecarInv
    <3> QED
      BY <2>5, <2>p, <3>1, <3>2 DEF TurnInv
  <2>9. \A v \in turns : Live(v) => TurnInv(v)' /\ v.inst # i
    BY <1>0, <2>0, <2>1 DEF TurnInv
  <2>10. TurnsOK'
    <3>1. TurnRecords' = TurnRecords
      BY <1>8, <2>0 DEF TurnRecords, Events
    <3>2. turns' \subseteq TurnRecords'
      BY <1>0, <2>4, <2>5, <3>1
    <3>3. \A v \in turns' : Live(v)' => TurnInv(v)'
      BY <2>4, <2>7, <2>8, <2>9, Zenon
    <3>4. \A v, x \in turns' : Live(v)' /\ Live(x)' /\ v.inst = x.inst => v = x
      BY <1>0, <2>4, <2>5, <2>7, <2>9
    <3> QED
      BY <3>2, <3>3, <3>4 DEF TurnsOK
  <2>11. CacheOK(entries, totalBytes)'
    BY <1>0, <1>8, <2>0 DEF CacheOK, InBounds, Events, Entries
  <2> QED
    BY <1>0, <1>8, <2>0, <2>6, <2>10, <2>11 DEF CoreInv
<1>9. CASE SweepExpired /\ scene' = scene
  <2>1. PICK k \in 1 .. Len(entries) : /\ entries' = SubSeq(entries, k + 1, Len(entries))
                                       /\ totalBytes' = totalBytes - Size(SubSeq(entries, 1, k))
    BY <1>9 DEF SweepExpired
  <2>2. k \in 0 .. Len(entries)
    OBVIOUS
  <2>3. CacheOK(entries', totalBytes')
    BY <1>0, <2>1, <2>2, SuffixOK
  <2>4. turns' = turns /\ stream' = stream /\ failures' = failures /\ UNCHANGED sidecarVars
    BY <1>9 DEF SweepExpired
  <2> QED
    BY <1>0, <1>9, <2>3, <2>4, Surroundings
<1>10. CASE Reconnect /\ scene' = scene
  BY <1>0, <1>10, NewStreamOK DEF Reconnect
<1>11. CASE FetchFails /\ scene' = scene
  <2>1. /\ failures' \in Nat /\ turns' \subseteq turns
        /\ NewStream \/ UNCHANGED <<stream, entries, totalBytes, sidecarVars>>
    BY <1>0, <1>11 DEF FetchFails
  <2>2. CASE NewStream
    BY <1>11, <2>1, <2>2, NewStreamOK
  <2>3. CASE UNCHANGED <<stream, entries, totalBytes, sidecarVars>>
    <3>1. \A v : TurnInv(v)' = TurnInv(v) /\ Live(v)' = Live(v)
      BY <2>3 DEF TurnInv, Live, sidecarVars
    <3>2. TurnsOK'
      BY <1>0, <1>11, <2>1, <2>3, <3>1 DEF TurnsOK, TurnRecords, Events
    <3>3. SidecarOK'
      BY <1>c, <1>11, <2>3 DEF SidecarOK, SidecarInv, Events, sidecarVars
    <3>4. CacheOK(entries, totalBytes)'
      BY <1>0, <1>11, <2>3 DEF CacheOK, InBounds, Events, Entries
    <3> QED
      BY <1>0, <1>11, <2>1, <2>3, <3>2, <3>3, <3>4 DEF CoreInv
  <2> QED
    BY <2>1, <2>2, <2>3
<1> QED
  BY <1>1, <1>2, <1>3, <1>4, <1>5, <1>6, <1>7, <1>8, <1>9, <1>10, <1>11, <1>s DEF Next

\* The cache and the turns of a worker that starts are in order.
LEMMA CoreInit == Init => CoreInv
<1> SUFFICES ASSUME Init PROVE CoreInv
  OBVIOUS
<1>0. scene \in Scenes /\ scene.generations \in Nat /\ MaxLen \in Nat
  BY HistoryCacheAssumption DEF Init
<1>1. CacheOK(entries, totalBytes)
  <2>1. entries = <<>> /\ totalBytes = 0 /\ Size(<<>>) = 0
    BY SizeSmall DEF Init
  <2>2. <<>> \in Seq(Entries(Events)) /\ Len(<<>>) = 0 /\ Unique(<<>>)
    BY DEF Unique
  <2> QED
    BY <2>1, <2>2 DEF CacheOK
<1>2. SidecarOK
  <2>1. <<>> \in Seq(Events) /\ 0 \in Events /\ Full \in 0 .. Full /\ Len(<<>>) <= MaxLen
    BY <1>0 DEF Events, Full
  <2>2. \A i \in Instances : committed[i] = <<>> /\ warm[i] = Full
    BY DEF Init
  <2>3. \A i \in Instances : SidecarInv(i)
    BY <2>1, <2>2 DEF SidecarInv
  <2> QED
    BY <2>1, <2>3 DEF Init, SidecarOK
<1> QED
  BY <1>0, <1>1, <1>2 DEF Init, CoreInv, TurnsOK

\* Whatever is put, replaced, deleted, evicted, swept and reset, by turns of
\* any stream, the cache knows its size and stays within the limits of its
\* options (worker.py, _WorkflowHistoryCache, _evict_to_fit).
THEOREM CacheWithinLimits == Spec => []Inv
<1>1. CoreInv => Inv
  BY CoreImpliesInv
<1> QED
  BY <1>1, CoreInit, CoreStep, PTL DEF Spec

----------------------------------------------------------------------------
(* What a turn replays.                                                    *)

\* An instance that starts anew, and a stream that is replaced, are not both
\* there.
NoLatePut == \A s \in Scenes : s.generations = 0 \/ (s.reconnects = 0 /\ s.failures = 0)

\* On the one stream, an entry is the beginning of what is committed, and an
\* execution that has ended has none.
PrefixInv ==
  scene.generations # 0 =>
    /\ stream = 0
    /\ \A j \in DOMAIN entries :
         LET e == entries[j] IN
         /\ Len(e.events) <= Len(committed[e.inst])
         /\ \A k \in 1 .. Len(e.events) : e.events[k] = committed[e.inst][k]
    /\ \A t \in turns : t.stage = "executed" /\ t.ends => t.inst \notin Keys(entries)
    /\ ReplaysCommitted

\* Histories of a single execution differ in their lengths alone.
LEMMA OneExecution ==
  ASSUME CoreInv, scene.generations = 0
  PROVE  ReplaysCommitted
<1> SUFFICES ASSUME NEW t \in turns, Live(t), t.stage \in {"resolved", "executed"}
             PROVE  t.history = committed[t.inst]
  BY DEF ReplaysCommitted
<1>1. /\ t.history \in Seq(Events) /\ committed[t.inst] \in Seq(Events)
      /\ Len(t.history) = Len(committed[t.inst])
  BY DEF CoreInv, TurnsOK, TurnInv, TurnRecords, SidecarOK
<1>2. Events = {0}
  BY DEF Events
<1>3. \A k \in 1 .. Len(t.history) : t.history[k] = 0
  BY <1>1, <1>2
<1>4. \A k \in 1 .. Len(t.history) : committed[t.inst][k] = 0
  BY <1>1, <1>2
<1> QED
  BY <1>1, <1>3, <1>4, SeqEqual

\* Every step keeps it so.
LEMMA PrefixStep ==
  ASSUME NoLatePut
  PROVE  CoreInv /\ PrefixInv /\ [Next]_vars => PrefixInv'
<1> SUFFICES ASSUME CoreInv, PrefixInv, [Next]_vars, scene.generations # 0
             PROVE  PrefixInv'
  <2>1. ASSUME [Next]_vars PROVE scene' = scene
    <3>1. CASE Next
      BY <3>1 DEF Next
    <3>2. CASE UNCHANGED vars
      BY <3>2 DEF vars
    <3> QED
      BY <2>1, <3>1, <3>2
  <2> QED
    BY <2>1 DEF PrefixInv
<1>0. /\ scene \in Scenes /\ scene.reconnects = 0 /\ scene.failures = 0 /\ CacheOK(entries, totalBytes)
      /\ failures \in Nat /\ stream = 0 /\ turns \subseteq TurnRecords
      /\ committed \in [Instances -> Seq(Events)]
      /\ \A t, u \in turns : Live(t) /\ Live(u) /\ t.inst = u.inst => t = u
  BY DEF CoreInv, NoLatePut, PrefixInv, SidecarOK, TurnsOK
<1>p. /\ \A j \in DOMAIN entries : /\ Len(entries[j].events) <= Len(committed[entries[j].inst])
                                   /\ \A k \in 1 .. Len(entries[j].events) :
                                        entries[j].events[k] = committed[entries[j].inst][k]
      /\ \A t \in turns : t.stage = "executed" /\ t.ends => t.inst \notin Keys(entries)
  BY DEF PrefixInv
<1>t. \A t \in turns : /\ Live(t) /\ TurnInv(t) /\ t.inst \in Instances /\ t.past \in Seq(Events)
                       /\ t.history \in Seq(Events) /\ committed[t.inst] \in Seq(Events)
                       /\ t.ends \in BOOLEAN
                       /\ t.stage \in {"resolved", "executed"} => t.history = committed[t.inst]
  <2>1. \A t \in turns : t.stream \in 0 .. stream /\ t.inst \in Instances /\ t.past \in Seq(Events)
                         /\ t.history \in Seq(Events) /\ t.ends \in BOOLEAN
    BY <1>0 DEF TurnRecords
  <2>2. \A t \in turns : Live(t)
    BY <1>0, <2>1 DEF Live
  <2> QED
    BY <1>0, <2>1, <2>2 DEF CoreInv, TurnsOK, PrefixInv, ReplaysCommitted
\* What has to be shown of the cache and of the turns.
<1> DEFINE Begins(s, c) == \A j \in DOMAIN s : /\ Len(s[j].events) <= Len(c[s[j].inst])
                                               /\ \A k \in 1 .. Len(s[j].events) :
                                                    s[j].events[k] = c[s[j].inst][k]
           Replays(t, c) == t.stage \in {"resolved", "executed"} => t.history = c[t.inst]
           Dropped(t, s) == t.stage = "executed" /\ t.ends => t.inst \notin Keys(s)
<1>q. ASSUME stream' = 0, Begins(entries', committed'),
             \A t \in turns' : Replays(t, committed') /\ Dropped(t, entries')
      PROVE  PrefixInv'
  BY <1>q DEF PrefixInv, ReplaysCommitted, Keys
<1>f. ASSUME NEW s, From(s, entries) PROVE Begins(s, committed) /\ Keys(s) \subseteq Keys(entries)
  <2>1. ASSUME NEW j \in DOMAIN s
        PROVE  /\ Len(s[j].events) <= Len(committed[s[j].inst])
               /\ \A k \in 1 .. Len(s[j].events) : s[j].events[k] = committed[s[j].inst][k]
    <3>1. PICK i \in DOMAIN entries : s[j] = entries[i]
      BY <1>f DEF From
    <3> QED
      BY <1>p, <3>1
  <2>2. Keys(s) \subseteq Keys(entries)
    BY <1>f DEF From, Keys
  <2> QED
    BY <2>1, <2>2
<1>e. From(entries, entries)
  BY DEF From
<1>r. \A t \in turns : Replays(t, committed) /\ Dropped(t, entries)
  BY <1>p, <1>t
<1> HIDE DEF Begins
<1>1. CASE UNCHANGED vars
  BY <1>0, <1>1, <1>e, <1>f, <1>q, <1>r DEF vars, sidecarVars
<1>2. CASE ResolveFull
  <2>1. PICK t \in turns : /\ t.stage = "received" /\ t.count = Full
                           /\ turns' = (turns \ {t}) \cup {[t EXCEPT !.stage = "resolved", !.history = t.past]}
    BY <1>2 DEF ResolveFull, Advanced
  <2> DEFINE u == [t EXCEPT !.stage = "resolved", !.history = t.past]
  <2>2. u.inst = t.inst /\ u.stage = "resolved" /\ u.history = t.past
    BY <1>0 DEF TurnRecords
  <2>3. turns' = (turns \ {t}) \cup {u}
    BY <2>1
  <2> HIDE DEF u
  <2>4. Replays(u, committed) /\ Dropped(u, entries)
    BY <1>t, <2>1, <2>2 DEF TurnInv
  <2>5. entries' = entries /\ committed' = committed /\ stream' = stream
    BY <1>2 DEF ResolveFull, sidecarVars
  <2> QED
    BY <1>0, <1>e, <1>f, <1>q, <1>r, <2>3, <2>4, <2>5
<1>3. CASE ResolveDelta
  <2>1. PICK t \in turns :
          /\ t.stage = "received" /\ t.count # Full /\ entries' = Touched(t.inst)
          /\ \/ Advanced(t, [t EXCEPT !.stage = "missed"])
             \/ \E e \in Prefix(t.inst, t.count) :
                  Advanced(t, [t EXCEPT !.stage = "resolved", !.history = e.events \o t.past])
    BY <1>3 DEF ResolveDelta
  <2>2. /\ From(entries', entries)
        /\ \A e \in Cached(t.inst) : \E j \in DOMAIN entries : e = entries[j] /\ e.inst = t.inst
    BY <1>0, <2>1, TouchedOK
  <2>3. Begins(entries', committed) /\ Keys(entries') \subseteq Keys(entries)
    BY <1>f, <2>2
  <2>4. \E u : turns' = (turns \ {t}) \cup {u} /\ Replays(u, committed) /\ u.stage # "executed"
    <3>1. CASE Advanced(t, [t EXCEPT !.stage = "missed"])
      <4> DEFINE u == [t EXCEPT !.stage = "missed"]
      <4>1. u.stage = "missed"
        BY <1>0 DEF TurnRecords
      <4>2. turns' = (turns \ {t}) \cup {u}
        BY <3>1 DEF Advanced
      <4> HIDE DEF u
      <4> QED
        BY <4>1, <4>2
    <3>2. CASE \E e \in Prefix(t.inst, t.count) :
                 Advanced(t, [t EXCEPT !.stage = "resolved", !.history = e.events \o t.past])
      <4>1. PICK e \in Prefix(t.inst, t.count) :
              Advanced(t, [t EXCEPT !.stage = "resolved", !.history = e.events \o t.past])
        BY <3>2
      <4> DEFINE h == e.events \o t.past
                 u == [t EXCEPT !.stage = "resolved", !.history = h]
      <4>2. PICK j \in DOMAIN entries : e = entries[j] /\ e.inst = t.inst
        BY <2>2 DEF Prefix
      <4>3. e.events \in Seq(Events) /\ Len(e.events) = t.count
        <5>1. e \in Entries(Events)
          BY <1>0, <4>2 DEF CacheOK
        <5> QED
          BY <5>1 DEF Prefix, Entries
      <4>4. /\ Len(e.events) <= Len(committed[t.inst])
            /\ \A k \in 1 .. Len(e.events) : e.events[k] = committed[t.inst][k]
        BY <1>p, <4>2
      <4>5. /\ t.past = SubSeq(committed[t.inst], Len(e.events) + 1, Len(committed[t.inst]))
            /\ committed[t.inst] \in Seq(Events)
        BY <1>t, <2>1, <4>3 DEF TurnInv
      <4>6. h = committed[t.inst]
        <5>1. LET c == committed[t.inst]
                  d == SubSeq(c, Len(e.events) + 1, Len(c)) IN e.events \o d = c
          BY <4>3, <4>4, <4>5, JoinedLength
        <5> QED
          BY <4>5, <5>1
      <4>7. turns' = (turns \ {t}) \cup {u}
        BY <4>1 DEF Advanced
      <4> HIDE DEF h
      <4>8. u.inst = t.inst /\ u.stage = "resolved" /\ u.history = h
        BY <1>0 DEF TurnRecords
      <4> HIDE DEF u
      <4> QED
        BY <4>6, <4>7, <4>8
    <3> QED
      BY <2>1, <3>1, <3>2
  <2>5. committed' = committed /\ stream' = stream
    BY <1>3 DEF ResolveDelta, sidecarVars
  <2> QED
    BY <1>0, <1>q, <1>r, <2>3, <2>4, <2>5
<1>4. CASE Fetch
  <2>1. PICK t \in turns : turns' = (turns \ {t}) \cup
                             {[t EXCEPT !.stage = "resolved", !.history = committed[t.inst]]}
    BY <1>4 DEF Fetch, Advanced
  <2> DEFINE u == [t EXCEPT !.stage = "resolved", !.history = committed[t.inst]]
  <2>2. u.inst = t.inst /\ u.stage = "resolved" /\ u.history = committed[t.inst]
    BY <1>0 DEF TurnRecords
  <2>3. turns' = (turns \ {t}) \cup {u}
    BY <2>1
  <2> HIDE DEF u
  <2>4. Replays(u, committed) /\ Dropped(u, entries)
    BY <2>2
  <2>5. entries' = entries /\ committed' = committed /\ stream' = stream
    BY <1>4 DEF Fetch, sidecarVars
  <2> QED
    BY <1>0, <1>e, <1>f, <1>q, <1>r, <2>3, <2>4, <2>5
<1>5. CASE Execute
  <2>1. PICK t \in turns, b \in BOOLEAN :
          /\ t.stage = "resolved"
          /\ IF b THEN Delete(t.inst) ELSE Put(t.inst, t.history)
          /\ turns' = (turns \ {t}) \cup {[t EXCEPT !.stage = "executed", !.ends = b]}
    BY <1>5 DEF Execute, Advanced
  <2> DEFINE u == [t EXCEPT !.stage = "executed", !.ends = b]
  <2>2. u.inst = t.inst /\ u.stage = "executed" /\ u.history = t.history /\ u.ends = b
    BY <1>0 DEF TurnRecords
  <2>3. turns' = (turns \ {t}) \cup {u}
    BY <2>1
  <2> HIDE DEF u
  <2>4. committed' = committed /\ stream' = stream
    BY <1>5 DEF Execute, sidecarVars
  <2>5. Replays(u, committed)
    BY <1>t, <2>1, <2>2
  <2>6. CASE b
    <3>1. entries' = Without(entries, t.inst)
      BY <2>1, <2>6 DEF Delete
    <3>2. From(entries', entries) /\ t.inst \notin Keys(entries')
      BY <1>0, <3>1, WithoutOK
    <3>3. Begins(entries', committed) /\ Keys(entries') \subseteq Keys(entries)
      BY <1>f, <3>2
    <3>4. \A v \in turns' : Replays(v, committed) /\ Dropped(v, entries')
      BY <1>r, <2>2, <2>3, <2>5, <3>2, <3>3
    <3> QED
      BY <1>0, <1>q, <2>4, <3>3, <3>4
  <2>7. CASE ~b
    <3>1. \A j \in DOMAIN entries' : entries'[j] = Entry(t.inst, t.history)
                                     \/ \E k \in DOMAIN entries : entries'[j] = entries[k]
      BY <1>0, <1>t, <2>1, <2>7, PutOK
    <3>2. /\ Entry(t.inst, t.history).inst = t.inst /\ Entry(t.inst, t.history).events = committed[t.inst]
          /\ Len(committed[t.inst]) <= Len(committed[t.inst])
      BY <1>t, <2>1 DEF Entry
    <3>3. Begins(entries', committed)
      BY <1>p, <3>1, <3>2 DEF Begins
    <3>4. Keys(entries') \subseteq Keys(entries) \cup {t.inst}
      BY <3>1, <3>2 DEF Keys
    <3>5. ASSUME NEW v \in turns' PROVE Replays(v, committed) /\ Dropped(v, entries')
      <4>1. CASE v = u
        BY <2>2, <2>5, <2>7, <4>1
      <4>2. CASE v \in turns /\ v # t
        <5>1. v.inst # t.inst
          BY <1>0, <1>t, <4>2
        <5> QED
          BY <1>r, <3>4, <4>2, <5>1
      <4> QED
        BY <2>3, <4>1, <4>2
    <3> QED
      BY <1>0, <1>q, <2>4, <3>3, <3>5
  <2> QED
    BY <2>6, <2>7
<1>6. CASE Respond
  <2>0. entries' = entries /\ stream' = stream
    BY <1>6 DEF Respond
  <2>1. PICK t \in turns :
          /\ t.stage = "executed" /\ turns' = turns \ {t}
          /\ \/ committed' = [committed EXCEPT ![t.inst] = Append(@, gen[t.inst])]
             \/ committed' = committed
             \/ t.ends /\ committed' = [committed EXCEPT ![t.inst] = <<>>]
    BY <1>6 DEF Respond
  <2>2. t.inst \in Instances /\ committed[t.inst] \in Seq(Events) /\ gen[t.inst] \in Events
        /\ DOMAIN committed = Instances
    BY <1>0, <1>t DEF CoreInv, SidecarOK
  <2>3. \A i \in Instances : i # t.inst => committed'[i] = committed[i]
    BY <1>0, <2>1, <2>2
  <2>4. ASSUME NEW v \in turns' PROVE Replays(v, committed') /\ Dropped(v, entries')
    <3>1. v \in turns /\ v.inst # t.inst /\ v.inst \in Instances
      BY <1>0, <1>t, <2>1
    <3> QED
      BY <1>r, <2>0, <2>3, <3>1
  <2>5. Begins(entries, committed')
    <3> SUFFICES ASSUME NEW j \in DOMAIN entries
                 PROVE  /\ Len(entries[j].events) <= Len(committed'[entries[j].inst])
                        /\ \A k \in 1 .. Len(entries[j].events) :
                             entries[j].events[k] = committed'[entries[j].inst][k]
      BY DEF Begins
    <3>0. entries[j].inst \in Instances /\ entries[j].events \in Seq(Events)
          /\ Len(entries[j].events) \in Nat
      <4>1. entries[j] \in Entries(Events)
        BY <1>0 DEF CacheOK
      <4>2. entries[j].inst \in Instances /\ entries[j].events \in Seq(Events)
        BY <4>1 DEF Entries
      <4> QED
        BY <4>2, LenProperties
    <3>1. CASE entries[j].inst # t.inst
      BY <1>p, <2>3, <3>0, <3>1
    <3>2. CASE entries[j].inst = t.inst
      <4> DEFINE c == committed[t.inst]
                 n == Len(entries[j].events)
      <4>1. n <= Len(c) /\ \A k \in 1 .. n : entries[j].events[k] = c[k]
        BY <1>p, <3>2
      <4>2. ~t.ends
        <5>1. t.inst \in Keys(entries)
          BY <3>2 DEF Keys
        <5> QED
          BY <1>p, <2>1, <5>1
      <4>3. CASE committed' = committed
        BY <1>p, <4>3
      <4>4. CASE committed' = [committed EXCEPT ![t.inst] = Append(committed[t.inst], gen[t.inst])]
        <5>1. committed'[t.inst] = Append(c, gen[t.inst])
          BY <2>2, <4>4
        <5>2. /\ Len(Append(c, gen[t.inst])) = Len(c) + 1 /\ Len(c) \in Nat
              /\ \A k \in 1 .. Len(c) : Append(c, gen[t.inst])[k] = c[k]
          BY <2>2, AppendProperties
        <5>3. n <= Len(c) + 1 /\ \A k \in 1 .. n : k \in 1 .. Len(c)
          BY <3>0, <4>1, <5>2
        <5> HIDE DEF c
        <5> QED
          BY <3>2, <4>1, <5>1, <5>2, <5>3
      <4> QED
        BY <2>1, <4>2, <4>3, <4>4
    <3> QED
      BY <3>1, <3>2
  <2> QED
    BY <1>0, <1>q, <2>0, <2>4, <2>5
<1>7. CASE RespondLate
  <2>1. turns' \subseteq turns /\ entries' = entries /\ committed' = committed /\ stream' = stream
    BY <1>7 DEF RespondLate, sidecarVars
  <2> QED
    BY <1>0, <1>e, <1>f, <1>q, <1>r, <2>1
<1>8. CASE Dispatch
  <2>1. entries' = entries /\ committed' = committed /\ stream' = stream
    BY <1>8 DEF Dispatch
  <2>2. PICK u : turns' = turns \cup {u} /\ u.stage = "received"
    <3>1. PICK i \in Instances :
            turns' = turns \cup
              {Turn(i, warm[i], IF warm[i] = Full THEN committed[i]
                                ELSE SubSeq(committed[i], warm[i] + 1, Len(committed[i])))}
      BY <1>8 DEF Dispatch
    <3>2. ASSUME NEW n, NEW p PROVE Turn(i, n, p).stage = "received"
      BY DEF Turn
    <3> QED
      BY <3>1, <3>2
  <2> QED
    BY <1>0, <1>e, <1>f, <1>q, <1>r, <2>1, <2>2
<1>9. CASE SweepExpired
  <2>1. PICK k \in 1 .. Len(entries) : entries' = SubSeq(entries, k + 1, Len(entries))
    BY <1>9 DEF SweepExpired
  <2>2. From(entries', entries)
    BY <1>0, <2>1, SuffixOK
  <2>3. Begins(entries', committed) /\ Keys(entries') \subseteq Keys(entries)
    BY <1>f, <2>2
  <2>4. turns' = turns /\ committed' = committed /\ stream' = stream
    BY <1>9 DEF SweepExpired, sidecarVars
  <2> QED
    BY <1>0, <1>q, <1>r, <2>3, <2>4
<1>10. ~Reconnect
  BY <1>0 DEF Reconnect
<1>11. ~FetchFails
  BY <1>0 DEF FetchFails
<1> QED
  BY <1>1, <1>2, <1>3, <1>4, <1>5, <1>6, <1>7, <1>8, <1>9, <1>10, <1>11 DEF Next

\* A turn replays the committed history of its instance, whatever the cache
\* holds, evicts or drops (worker.py, _resolve_history,
\* _update_history_cache): for any instances, limits, lengths and numbers of
\* streams or executions, unless instances start anew on a worker whose stream
\* is replaced.  There a turn of the old stream puts the history of an older
\* execution.
THEOREM TurnsReplayCommitted ==
  ASSUME \A s \in Scenes : s.generations = 0 \/ (s.reconnects = 0 /\ s.failures = 0)
  PROVE  Spec => []ReplaysCommitted
<1>1. NoLatePut
  BY DEF NoLatePut
<1>2. Init => PrefixInv
  BY DEF Init, PrefixInv, ReplaysCommitted
<1>3. CoreInv /\ PrefixInv => ReplaysCommitted
  BY OneExecution DEF PrefixInv
<1>4. CoreInv /\ PrefixInv /\ [Next]_vars => PrefixInv'
  BY <1>1, PrefixStep
<1> QED
  BY <1>2, <1>3, <1>4, CoreInit, CoreStep, PTL DEF Spec
=============================================================================
