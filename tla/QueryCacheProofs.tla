--------------------------- MODULE QueryCacheProofs ---------------------------
(***************************************************************************)
(* Lemmas about the operators of QueryCache: what a filter, a removal or   *)
(* an arrival leaves of the answers of a tab, and what a fetch or a        *)
(* cancellation leaves of its calls.  SessionGateProofs and AdminUiProofs  *)
(* rest on them.                                                           *)
(***************************************************************************)
EXTENDS QueryCache, SequenceTheorems, FiniteSetTheorems, WellFoundedInduction, TLAPS

(***************************************************************************)
(* Sequences                                                               *)
(***************************************************************************)

LEMMA Least ==
    ASSUME NEW S, S \subseteq Nat, S # {}
    PROVE  \E x \in S : \A y \in S : x <= y
<1>1. PICK x \in S : \A y \in S : ~(<<y, x>> \in OpToRel(<, Nat))
  BY NatLessThanWellFounded, WFMin
<1>2. \A y \in S : ~(y < x)
  BY <1>1 DEF OpToRel
<1> QED
  BY <1>2

LEMMA ToSetAppend ==
    ASSUME NEW T, NEW s \in Seq(T), NEW x \in T
    PROVE  /\ Append(s, x) \in Seq(T)
           /\ ToSet(Append(s, x)) = ToSet(s) \cup {x}
<1> DEFINE z == Append(s, x)
<1>1. z \in Seq(T) /\ Len(z) = Len(s) + 1 /\ z[Len(s) + 1] = x /\ Len(s) \in Nat
  OBVIOUS
<1>2. \A i \in 1 .. Len(s) : z[i] = s[i]
  OBVIOUS
<1>3. DOMAIN z = 1 .. Len(s) + 1 /\ DOMAIN s = 1 .. Len(s)
  BY <1>1
<1> HIDE DEF z
<1>4. ToSet(z) = ToSet(s) \cup {x}
  BY <1>1, <1>2, <1>3 DEF ToSet
<1> QED
  BY <1>1, <1>4 DEF z

LEMMA ToSetRemoveAt ==
    ASSUME NEW T, NEW s \in Seq(T), NEW i \in DOMAIN s
    PROVE  /\ RemoveAt(s, i) \in Seq(T)
           /\ ToSet(RemoveAt(s, i)) \subseteq ToSet(s)
<1> DEFINE A == SubSeq(s, 1, i - 1)
           B == SubSeq(s, i + 1, Len(s))
<1>1. Len(s) \in Nat /\ i \in 1 .. Len(s) /\ DOMAIN s = 1 .. Len(s)
  OBVIOUS
<1>2. A \in Seq(T) /\ B \in Seq(T)
  BY <1>1
<1>3. \A k \in 1 .. Len(A) : A[k] \in ToSet(s)
  BY <1>1 DEF ToSet
<1>4. \A k \in 1 .. Len(B) : B[k] \in ToSet(s)
  BY <1>1 DEF ToSet
<1> HIDE DEF A, B
<1>5. /\ A \o B \in Seq(T)
      /\ \A k \in DOMAIN (A \o B) : (A \o B)[k] \in ToSet(s)
  <2>1. /\ A \o B \in Seq(T)
        /\ Len(A \o B) = Len(A) + Len(B)
        /\ \A k \in 1 .. Len(A) + Len(B) :
              (A \o B)[k] = IF k <= Len(A) THEN A[k] ELSE B[k - Len(A)]
    BY <1>2, ConcatProperties
  <2>2. Len(A) \in Nat /\ Len(B) \in Nat /\ DOMAIN (A \o B) = 1 .. Len(A) + Len(B)
    BY <1>2, <2>1
  <2> QED
    BY <2>1, <2>2, <1>3, <1>4
<1>6. RemoveAt(s, i) = A \o B
  BY DEF RemoveAt, A, B
<1> QED
  BY <1>5, <1>6 DEF ToSet

(* What filters a sequence, without the elements at the places K.          *)
IsFilter(f, s, K) ==
    f = [n \in 0 .. Len(s) |->
            IF n = 0 THEN <<>>
            ELSE IF n \in K THEN f[n - 1] ELSE Append(f[n - 1], s[n])]
Survivors(s, K) == {s[i] : i \in DOMAIN s \ K}

(* There is such a function: else there is none up to some least n.        *)
LEMMA FilterExists ==
    ASSUME NEW T, NEW s \in Seq(T), NEW K
    PROVE  \E f : IsFilter(f, s, K)
<1> DEFINE Value(g, n) == IF n = 0 THEN <<>>
                          ELSE IF n \in K THEN g[n - 1] ELSE Append(g[n - 1], s[n])
           Upto(n) == \E g : g = [i \in 0 .. n |-> Value(g, i)]
           Bad == {n \in Nat : ~Upto(n)}
<1>1. Upto(0)
  <2> DEFINE g == [i \in 0 .. 0 |-> <<>>]
  <2>1. g = [i \in 0 .. 0 |-> Value(g, i)]
    OBVIOUS
  <2> QED
    BY <2>1
<1>2. ASSUME NEW n \in Nat \ {0}, Upto(n - 1)
      PROVE  Upto(n)
  <2>1. PICK g : g = [i \in 0 .. n - 1 |-> Value(g, i)]
    BY <1>2
  <2> DEFINE h == [i \in 0 .. n |-> IF i < n THEN g[i] ELSE Value(g, n)]
  <2>2. \A i \in 0 .. n - 1 : h[i] = g[i] /\ g[i] = Value(g, i)
    <3>1. \A i \in 0 .. n - 1 : i \in 0 .. n /\ i < n
      BY <1>2
    <3>2. \A i \in 0 .. n - 1 : h[i] = g[i]
      <4> HIDE DEF Value
      <4> QED
        BY <3>1
    <3>3. \A i \in 0 .. n - 1 : g[i] = Value(g, i)
      BY <2>1, Zenon
    <3> QED
      BY <3>2, <3>3
  <2>3. h[n] = Value(g, n) /\ DOMAIN h = 0 .. n
    OBVIOUS
  <2> HIDE DEF h
  <2>4. ASSUME NEW i \in 0 .. n
        PROVE  h[i] = Value(h, i)
    <3>1. CASE i = 0
      BY <3>1, <2>2
    <3>2. CASE i \in 1 .. n
      <4>1. i - 1 \in 0 .. n - 1 /\ i # 0
        BY <3>2
      <4>2. h[i - 1] = g[i - 1]
        BY <4>1, <2>2
      <4>3. Value(h, i) = Value(g, i)
        BY <4>1, <4>2
      <4>4. i = n \/ i \in 0 .. n - 1
        BY <3>2
      <4> QED
        BY <4>3, <4>4, <2>2, <2>3
    <3> QED
      BY <3>1, <3>2
  <2>5. h = [i \in 0 .. n |-> h[i]]
    BY DEF h
  <2>6. h = [i \in 0 .. n |-> Value(h, i)]
    BY <2>4, <2>5
  <2> QED
    BY <2>6
<1> HIDE DEF Upto
<1>3. Bad = {}
  <2> SUFFICES ASSUME Bad # {} PROVE FALSE
    OBVIOUS
  <2>1. PICK n \in Bad : \A m \in Bad : n <= m
    BY Least
  <2>2. n \in Nat \ {0}
    BY <1>1, <2>1
  <2>3. n - 1 \in Nat /\ n - 1 \notin Bad
    BY <2>1, <2>2
  <2> QED
    BY <1>2, <2>1, <2>2, <2>3
<1>4. Upto(Len(s))
  BY <1>3
<1> QED
  BY <1>4 DEF IsFilter, Upto

(* Whichever it is, it keeps the elements at the other places.             *)
LEMMA FilterKeeps ==
    ASSUME NEW T, NEW s \in Seq(T), NEW K, NEW f, IsFilter(f, s, K)
    PROVE  /\ f[Len(s)] \in Seq(T)
           /\ Len(f[Len(s)]) <= Len(s)
           /\ ToSet(f[Len(s)]) \subseteq Survivors(s, K)
<1> DEFINE Rest == {s[i] : i \in DOMAIN s \ K}
           Good(n) == /\ f[n] \in Seq(T)
                      /\ Len(f[n]) <= n
                      /\ ToSet(f[n]) \subseteq Rest
           Bad == {n \in 0 .. Len(s) : ~Good(n)}
<1>0. Len(s) \in Nat /\ DOMAIN s = 1 .. Len(s)
  OBVIOUS
<1>1. Good(0)
  <2>1. f[0] = <<>>
    BY <1>0 DEF IsFilter
  <2> QED
    BY <2>1 DEF ToSet
<1>2. ASSUME NEW n \in 1 .. Len(s), Good(n - 1)
      PROVE  Good(n)
  <2>1. f[n] = IF n \in K THEN f[n - 1] ELSE Append(f[n - 1], s[n])
    <3>1. n \in 0 .. Len(s) /\ n # 0
      BY <1>0
    <3>2. f[n] = IF n = 0 THEN <<>>
                 ELSE IF n \in K THEN f[n - 1] ELSE Append(f[n - 1], s[n])
      BY <3>1, Zenon DEF IsFilter
    <3> QED
      BY <3>1, <3>2
  <2>2. s[n] \in T /\ (n \notin K => s[n] \in Rest)
    BY <1>0
  <2>3. CASE n \in K
    BY <1>0, <1>2, <2>1, <2>3
  <2>4. CASE n \notin K
    <3>1. /\ Append(f[n - 1], s[n]) \in Seq(T)
          /\ Len(Append(f[n - 1], s[n])) = Len(f[n - 1]) + 1
      BY <1>2, <2>2
    <3>2. ToSet(Append(f[n - 1], s[n])) = ToSet(f[n - 1]) \cup {s[n]}
      BY <1>2, <2>2, ToSetAppend
    <3>3. Len(f[n - 1]) \in Nat /\ n \in Nat
      BY <1>0, <1>2
    <3> QED
      BY <1>2, <2>1, <2>2, <2>4, <3>1, <3>2, <3>3
  <2> QED
    BY <2>3, <2>4
<1> HIDE DEF Good
<1>3. Bad = {}
  <2> SUFFICES ASSUME Bad # {} PROVE FALSE
    OBVIOUS
  <2>0. Bad \subseteq Nat
    BY <1>0
  <2>1. PICK n \in Bad : \A m \in Bad : n <= m
    BY <2>0, Least
  <2>2. n \in 1 .. Len(s)
    BY <1>0, <1>1, <2>1
  <2>3. n - 1 \in 0 .. Len(s) /\ n - 1 \notin Bad
    BY <1>0, <2>0, <2>1, <2>2
  <2> QED
    BY <1>2, <2>1, <2>2, <2>3
<1>4. Good(Len(s))
  BY <1>0, <1>3
<1> QED
  BY <1>4 DEF Good, Survivors

(* Remaining is such a filter.                                             *)
LEMMA RemainingIsFilter ==
    ASSUME NEW T, NEW s \in Seq(T), NEW keys
    PROVE  LET Dropped(call) == call.method = "GET" /\ call.path \in keys
               K == {i \in DOMAIN s : Dropped(s[i].call)}
           IN \E f : IsFilter(f, s, K) /\ Remaining(s, keys) = f[Len(s)]
<1> DEFINE Dropped(call) == call.method = "GET" /\ call.path \in keys
           K == {i \in DOMAIN s : Dropped(s[i].call)}
           Is(f) == f = [n \in 0 .. Len(s) |->
                            IF n = 0 THEN <<>>
                            ELSE IF Dropped(s[n].call) THEN f[n - 1]
                            ELSE Append(f[n - 1], s[n])]
           f == CHOOSE g : Is(g)
<1>1. \A g : IsFilter(g, s, K) <=> Is(g)
  <2>1. Len(s) \in Nat /\ DOMAIN s = 1 .. Len(s)
    OBVIOUS
  <2>2. \A n \in 0 .. Len(s) : n # 0 => (n \in K <=> Dropped(s[n].call))
    BY <2>1
  <2> HIDE DEF K, Dropped
  <2> QED
    BY <2>2 DEF IsFilter
<1>2. \E g : IsFilter(g, s, K)
  BY FilterExists
<1>3. Is(f)
  <2> HIDE DEF Is, K
  <2> QED
    BY <1>1, <1>2
<1>4. IsFilter(f, s, K)
  BY <1>1, <1>3
<1>5. Remaining(s, keys) = f[Len(s)]
  BY DEF Remaining
<1> HIDE DEF f
<1> QED
  BY <1>4, <1>5

LEMMA RemainingKeeps ==
    ASSUME NEW T, NEW s \in Seq(T), NEW keys
    PROVE  /\ Remaining(s, keys) \in Seq(T)
           /\ ToSet(Remaining(s, keys)) \subseteq
                {a \in ToSet(s) : ~(a.call.method = "GET" /\ a.call.path \in keys)}
<1> DEFINE Dropped(call) == call.method = "GET" /\ call.path \in keys
           K == {i \in DOMAIN s : Dropped(s[i].call)}
<1>1. PICK f : IsFilter(f, s, K) /\ Remaining(s, keys) = f[Len(s)]
  BY RemainingIsFilter
<1>2. Survivors(s, K) \subseteq {a \in ToSet(s) : ~Dropped(a.call)}
  BY DEF ToSet, Survivors
<1> HIDE DEF K
<1>3. /\ f[Len(s)] \in Seq(T)
      /\ ToSet(f[Len(s)]) \subseteq Survivors(s, K)
  <2>1. IsFilter(f, s, K)
    BY <1>1
  <2> QED
    BY <2>1, FilterKeeps
<1> QED
  BY <1>1, <1>2, <1>3

(***************************************************************************)
(* Order                                                                   *)
(***************************************************************************)

(* Behind every element of A comes one of B.                               *)
Covered(s, A, B) ==
    \A i \in DOMAIN s : s[i] \in A => \E j \in DOMAIN s : j > i /\ s[j] \in B

LEMMA CoveredAppend ==
    ASSUME NEW T, NEW s \in Seq(T), NEW x \in T, NEW A, NEW B,
           x \notin A, x \in B \/ Covered(s, A, B)
    PROVE  Covered(Append(s, x), A, B)
<1> DEFINE z == Append(s, x)
<1>1. z \in Seq(T) /\ Len(z) = Len(s) + 1 /\ z[Len(s) + 1] = x /\ Len(s) \in Nat
  OBVIOUS
<1>2. \A i \in 1 .. Len(s) : z[i] = s[i]
  OBVIOUS
<1>3. DOMAIN z = 1 .. Len(s) + 1 /\ DOMAIN s = 1 .. Len(s)
  BY <1>1
<1> HIDE DEF z
<1>4. Covered(z, A, B)
  <2> SUFFICES ASSUME NEW i \in DOMAIN z, z[i] \in A
               PROVE  \E j \in DOMAIN z : j > i /\ z[j] \in B
    BY DEF Covered
  <2>1. i \in 1 .. Len(s) /\ s[i] \in A
    BY <1>1, <1>2, <1>3
  <2>2. CASE x \in B
    BY <1>1, <1>3, <2>1, <2>2
  <2>3. CASE Covered(s, A, B)
    <3>1. PICK j \in DOMAIN s : j > i /\ s[j] \in B
      BY <1>3, <2>1, <2>3 DEF Covered
    <3> QED
      BY <1>2, <1>3, <3>1
  <2> QED
    BY <2>2, <2>3
<1> QED
  BY <1>4 DEF z

(* The first element goes.                                                 *)
LEMMA CoveredRest ==
    ASSUME NEW T, NEW s \in Seq(T), 1 \in DOMAIN s
    PROVE  /\ ToSet(s) = {s[1]} \cup ToSet(RemoveAt(s, 1))
           /\ \A A, B : Covered(s, A, B) =>
                /\ Covered(RemoveAt(s, 1), A, B)
                /\ s[1] \in A => ToSet(RemoveAt(s, 1)) \cap B # {}
<1> DEFINE r == RemoveAt(s, 1)
<1>1. Len(s) \in Nat \ {0} /\ DOMAIN s = 1 .. Len(s)
  OBVIOUS
<1>2. /\ r = SubSeq(s, 1, 0) \o SubSeq(s, 2, Len(s))
      /\ r = SubSeq(s, 2, Len(s))
  BY <1>1 DEF RemoveAt
<1>3. /\ DOMAIN r = 1 .. Len(s) - 1
      /\ \A j \in 1 .. Len(s) - 1 : r[j] = s[j + 1]
  BY <1>1, <1>2
<1> HIDE DEF r
<1>4. ToSet(s) = {s[1]} \cup ToSet(r)
  <2>1. ASSUME NEW i \in DOMAIN s, i # 1
        PROVE  s[i] \in ToSet(r)
    <3>1. i - 1 \in 1 .. Len(s) - 1 /\ (i - 1) + 1 = i
      BY <1>1, <2>1
    <3> QED
      BY <1>3, <3>1 DEF ToSet
  <2>2. \A j \in DOMAIN r : r[j] \in ToSet(s)
    BY <1>1, <1>3 DEF ToSet
  <2> QED
    BY <1>1, <2>1, <2>2 DEF ToSet
<1>5. ASSUME NEW A, NEW B, Covered(s, A, B)
      PROVE  Covered(r, A, B) /\ (s[1] \in A => ToSet(r) \cap B # {})
  <2>1. ASSUME NEW i \in DOMAIN s, s[i] \in A
        PROVE  \E j \in DOMAIN r : j + 1 > i /\ r[j] \in B
    <3>1. PICK j \in DOMAIN s : j > i /\ s[j] \in B
      BY <1>5, <2>1 DEF Covered
    <3>2. j - 1 \in 1 .. Len(s) - 1 /\ (j - 1) + 1 = j
      BY <1>1, <3>1
    <3> QED
      BY <1>3, <3>1, <3>2
  <2>2. Covered(r, A, B)
    <3> SUFFICES ASSUME NEW i \in DOMAIN r, r[i] \in A
                 PROVE  \E j \in DOMAIN r : j > i /\ r[j] \in B
      BY DEF Covered
    <3>1. i + 1 \in DOMAIN s /\ s[i + 1] \in A /\ i \in Int
      BY <1>1, <1>3
    <3>2. PICK j \in DOMAIN r : j + 1 > i + 1 /\ r[j] \in B
      BY <2>1, <3>1
    <3>3. j \in Int
      BY <1>3
    <3> QED
      BY <3>1, <3>2, <3>3
  <2> QED
    BY <2>1, <2>2 DEF ToSet
<1> QED
  BY <1>4, <1>5 DEF r

(* A filter that drops none of B.                                          *)
LEMMA FilterCovers ==
    ASSUME NEW T, NEW s \in Seq(T), NEW K, NEW f, IsFilter(f, s, K)
    PROVE  /\ Survivors(s, K) \subseteq ToSet(f[Len(s)])
           /\ \A A, B :
                Covered(s, A, B) /\ (\A i \in DOMAIN s \cap K : s[i] \notin B)
                    => Covered(f[Len(s)], A, B)
<1>0. Len(s) \in Nat /\ DOMAIN s = 1 .. Len(s)
  OBVIOUS
<1>a. f[0] = <<>>
  BY <1>0 DEF IsFilter
<1>b. ASSUME NEW n \in 1 .. Len(s)
      PROVE  f[n] = IF n \in K THEN f[n - 1] ELSE Append(f[n - 1], s[n])
  <2>1. n \in 0 .. Len(s) /\ n # 0
    BY <1>0
  <2>2. f[n] = IF n = 0 THEN <<>>
               ELSE IF n \in K THEN f[n - 1] ELSE Append(f[n - 1], s[n])
    BY <2>1, Zenon DEF IsFilter
  <2> QED
    BY <2>1, <2>2
<1> DEFINE Typed(n) == /\ f[n] \in Seq(T)
                       /\ \A i \in 1 .. n : i \notin K => s[i] \in ToSet(f[n])
<1>1. \A n \in 0 .. Len(s) : Typed(n)
  <2> DEFINE Bad == {n \in 0 .. Len(s) : ~Typed(n)}
  <2>1. Typed(0)
    BY <1>a
  <2>2. ASSUME NEW n \in 1 .. Len(s), Typed(n - 1)
        PROVE  Typed(n)
    <3>0. n \in Nat /\ n \in 0 .. Len(s) /\ s[n] \in T
      BY <1>0
    <3>1. CASE n \in K
      BY <1>b, <2>2, <3>0, <3>1
    <3>2. CASE n \notin K
      <4>1. f[n] = Append(f[n - 1], s[n])
        BY <1>b, <3>2
      <4>2. f[n] \in Seq(T) /\ ToSet(f[n]) = ToSet(f[n - 1]) \cup {s[n]}
        BY <2>2, <3>0, <4>1, ToSetAppend
      <4> QED
        BY <2>2, <3>0, <4>2
    <3> QED
      BY <3>1, <3>2
  <2> HIDE DEF Typed
  <2>3. Bad = {}
    <3> SUFFICES ASSUME Bad # {} PROVE FALSE
      OBVIOUS
    <3>0. Bad \subseteq Nat
      BY <1>0
    <3>1. PICK n \in Bad : \A m \in Bad : n <= m
      BY <3>0, Least
    <3>2. n \in 1 .. Len(s)
      BY <1>0, <2>1, <3>1
    <3>3. n - 1 \in 0 .. Len(s) /\ n - 1 \notin Bad
      BY <1>0, <3>0, <3>1, <3>2
    <3> QED
      BY <2>2, <3>1, <3>2, <3>3
  <2> QED
    BY <2>3
<1>2. Survivors(s, K) \subseteq ToSet(f[Len(s)])
  BY <1>0, <1>1 DEF Survivors
<1>3. ASSUME NEW A, NEW B, Covered(s, A, B), \A i \in DOMAIN s \cap K : s[i] \notin B
      PROVE  Covered(f[Len(s)], A, B)
  <2> DEFINE Behind(n) == \E j \in DOMAIN s : j > n /\ s[j] \in B
             Open(n) == \A i \in DOMAIN f[n] : f[n][i] \in A =>
                          \/ \E j \in DOMAIN f[n] : j > i /\ f[n][j] \in B
                          \/ Behind(n)
             Bad == {n \in 0 .. Len(s) : ~Open(n)}
  <2>1. Open(0)
    BY <1>a
  <2>2. ASSUME NEW n \in 1 .. Len(s), Open(n - 1)
        PROVE  Open(n)
    <3>0. n \in Nat /\ n - 1 \in 0 .. Len(s) /\ n \in DOMAIN s /\ s[n] \in T
      BY <1>0
    <3>1. f[n - 1] \in Seq(T)
      BY <1>1, <3>0
    <3>2. Behind(n - 1) => Behind(n) \/ s[n] \in B
      BY <1>0, <3>0
    <3>3. CASE n \in K
      <4>1. s[n] \notin B /\ f[n] = f[n - 1]
        BY <1>3, <1>b, <3>0, <3>3
      <4>2. Behind(n - 1) => Behind(n)
        BY <3>2, <4>1
      <4> HIDE DEF Behind
      <4> QED
        BY <2>2, <4>1, <4>2
    <3>4. CASE n \notin K
      <4> DEFINE g == f[n - 1]
                 z == Append(g, s[n])
      <4>1. f[n] = z
        BY <1>b, <3>4
      <4>2. g \in Seq(T) /\ Len(g) \in Nat /\ DOMAIN g = 1 .. Len(g)
        BY <3>1
      <4>3. DOMAIN z = 1 .. Len(g) + 1 /\ z[Len(g) + 1] = s[n]
        BY <3>0, <4>2
      <4>4. \A i \in 1 .. Len(g) : z[i] = g[i]
        BY <3>0, <4>2
      <4>5. s[n] \in A => Behind(n)
        BY <1>3, <3>0 DEF Covered
      <4>6. \A i \in DOMAIN g : g[i] \in A =>
              \/ \E j \in DOMAIN g : j > i /\ g[j] \in B
              \/ Behind(n - 1)
        BY <2>2
      <4> HIDE DEF g, z, Behind
      <4>7. ASSUME NEW i \in DOMAIN z, z[i] \in A
            PROVE  (\E j \in DOMAIN z : j > i /\ z[j] \in B) \/ Behind(n)
        <5>1. CASE i = Len(g) + 1
          BY <4>3, <4>5, <4>7, <5>1
        <5>2. CASE i \in 1 .. Len(g)
          <6>1. g[i] \in A /\ i \in DOMAIN g
            BY <4>2, <4>4, <4>7, <5>2
          <6>2. CASE \E j \in DOMAIN g : j > i /\ g[j] \in B
            BY <4>2, <4>3, <4>4, <6>2
          <6>3. CASE Behind(n)
            BY <6>3
          <6>4. CASE s[n] \in B
            <7>1. Len(g) + 1 \in DOMAIN z /\ Len(g) + 1 > i
              BY <4>2, <4>3, <5>2
            <7> QED
              BY <4>3, <6>4, <7>1
          <6> QED
            BY <3>2, <4>6, <6>1, <6>2, <6>3, <6>4
        <5> QED
          BY <4>2, <4>3, <5>1, <5>2
      <4> QED
        BY <4>1, <4>7
    <3> QED
      BY <3>3, <3>4
  <2> HIDE DEF Open
  <2>3. Bad = {}
    <3> SUFFICES ASSUME Bad # {} PROVE FALSE
      OBVIOUS
    <3>0. Bad \subseteq Nat
      BY <1>0
    <3>1. PICK n \in Bad : \A m \in Bad : n <= m
      BY <3>0, Least
    <3>2. n \in 1 .. Len(s)
      BY <1>0, <2>1, <3>1
    <3>3. n - 1 \in 0 .. Len(s) /\ n - 1 \notin Bad
      BY <1>0, <3>0, <3>1, <3>2
    <3> QED
      BY <2>2, <3>1, <3>2, <3>3
  <2>4. Open(Len(s))
    BY <1>0, <2>3
  <2>5. ~Behind(Len(s))
    BY <1>0
  <2> QED
    BY <2>4, <2>5 DEF Open, Covered
<1> QED
  BY <1>2, <1>3

LEMMA RemainingCovers ==
    ASSUME NEW T, NEW s \in Seq(T), NEW keys
    PROVE  /\ {a \in ToSet(s) : ~(a.call.method = "GET" /\ a.call.path \in keys)}
                \subseteq ToSet(Remaining(s, keys))
           /\ \A A, B :
                Covered(s, A, B) /\ (\A a \in B : a.call.method # "GET")
                    => Covered(Remaining(s, keys), A, B)
<1> DEFINE Dropped(call) == call.method = "GET" /\ call.path \in keys
           K == {i \in DOMAIN s : Dropped(s[i].call)}
<1>1. PICK f : IsFilter(f, s, K) /\ Remaining(s, keys) = f[Len(s)]
  BY RemainingIsFilter
<1>2. {a \in ToSet(s) : ~Dropped(a.call)} \subseteq Survivors(s, K)
  BY DEF ToSet, Survivors
<1>3. \A i \in DOMAIN s \cap K : s[i].call.method = "GET"
  OBVIOUS
<1> HIDE DEF K
<1>4. /\ Survivors(s, K) \subseteq ToSet(f[Len(s)])
      /\ \A A, B :
            Covered(s, A, B) /\ (\A i \in DOMAIN s \cap K : s[i] \notin B)
                => Covered(f[Len(s)], A, B)
  BY <1>1, FilterCovers
<1>5. ASSUME NEW A, NEW B, Covered(s, A, B), \A a \in B : a.call.method # "GET"
      PROVE  Covered(f[Len(s)], A, B)
  <2>1. \A i \in DOMAIN s \cap K : s[i] \notin B
    BY <1>3, <1>5
  <2> QED
    BY <1>4, <1>5, <2>1
<1> QED
  BY <1>1, <1>2, <1>4, <1>5

(***************************************************************************)
(* Clients                                                                 *)
(***************************************************************************)

(* A tab with queries K, data D, calls S and answers T.                    *)
IsClient(c, K, D, S, T) ==
    c \in [cache : [K -> [data : D, error : BOOLEAN]],
           sent : SUBSET S, answers : Seq(T)]

(* A query has one fetch in flight.                                        *)
OneFetchEach(c) ==
    \A x, y \in CallsOf(c) :
        x.method = "GET" /\ y.method = "GET" /\ x.path = y.path => x = y

(* d is c after fetches of some of the queries K as the session who.       *)
IsFetch(call, K, who) ==
    call \in [method : {"GET"}, path : K, as : {who}, body : {None}]

Extends(c, d, K, who) ==
    /\ d.cache = c.cache
    /\ d.answers = c.answers
    /\ c.sent \subseteq d.sent
    /\ \A call \in d.sent \ c.sent : IsFetch(call, K, who) /\ ~Fetching(c, call.path)

LEMMA ClientFields ==
    ASSUME NEW K, NEW D, NEW S, NEW T, NEW c, IsClient(c, K, D, S, T)
    PROVE  /\ c = [cache |-> c.cache, sent |-> c.sent, answers |-> c.answers]
           /\ c.cache \in [K -> [data : D, error : BOOLEAN]]
           /\ DOMAIN c.cache = K
           /\ c.sent \subseteq S
           /\ c.answers \in Seq(T)
           /\ AnswersOf(c) \subseteq T
BY DEF IsClient, AnswersOf, ToSet

(* Two fields of a client.                                                 *)
LEMMA SentAndAnswers ==
    ASSUME NEW A, NEW B, NEW C, NEW c \in [cache : A, sent : B, answers : C],
           NEW X \in B, NEW Y \in C
    PROVE  LET d == [c EXCEPT !.sent = X, !.answers = Y]
           IN /\ d \in [cache : A, sent : B, answers : C]
              /\ d.cache = c.cache /\ d.sent = X /\ d.answers = Y
OBVIOUS

LEMMA IsFetchGet ==
    ASSUME NEW call, NEW K, NEW who, IsFetch(call, K, who)
    PROVE  call.method = "GET" /\ call.path \in K /\ call.as = who /\ call.body = None
BY DEF IsFetch

(* A fetch changes nothing but the calls.                                  *)
LEMMA FetchAllExtends ==
    ASSUME NEW K, NEW D, NEW S, NEW T, NEW c, IsClient(c, K, D, S, T),
           NEW keys, NEW Q, keys \subseteq Q, NEW who,
           \A k \in Q : Call("GET", k, who, None) \in S
    PROVE  /\ IsClient(FetchAll(c, keys, who), K, D, S, T)
           /\ Extends(c, FetchAll(c, keys, who), Q, who)
<1> DEFINE new == {Call("GET", k, who, None) : k \in {q \in keys : ~Fetching(c, q)}}
           d == [c EXCEPT !.sent = @ \cup new]
<1>1. FetchAll(c, keys, who) = d
  BY DEF FetchAll
<1>2. new \subseteq S
  BY DEF Call
<1>3. \A call \in new : IsFetch(call, Q, who) /\ ~Fetching(c, call.path)
  <2> TAKE call \in new
  <2>1. PICK k \in keys : call = Call("GET", k, who, None) /\ ~Fetching(c, k)
    OBVIOUS
  <2>2. call.path = k
    BY <2>1 DEF Call
  <2> QED
    BY <2>1, <2>2 DEF IsFetch, Call
<1> HIDE DEF new
<1>4. d.sent = c.sent \cup new /\ d.cache = c.cache /\ d.answers = c.answers
  BY ClientFields
<1>5. IsClient(d, K, D, S, T)
  BY <1>2, ClientFields DEF IsClient
<1> QED
  BY <1>1, <1>3, <1>4, <1>5 DEF Extends

(* Fetches after fetches.                                                  *)
LEMMA ExtendsTrans ==
    ASSUME NEW c, NEW d, NEW e, NEW K, NEW who, Extends(c, d, K, who), Extends(d, e, K, who)
    PROVE  Extends(c, e, K, who)
<1>1. \A k : Fetching(c, k) => Fetching(d, k)
  BY DEF Extends, Fetching, CallsOf, AnswersOf
<1> QED
  BY <1>1 DEF Extends

LEMMA ExtendsRefl ==
    ASSUME NEW c, NEW K, NEW who
    PROVE  Extends(c, c, K, who)
BY DEF Extends

(* The calls after a fetch.                                                *)
LEMMA ExtendsCalls ==
    ASSUME NEW c, NEW d, NEW K, NEW who, Extends(c, d, K, who)
    PROVE  /\ AnswersOf(d) = AnswersOf(c)
           /\ CallsOf(c) \subseteq CallsOf(d)
           /\ \A call \in CallsOf(d) \ CallsOf(c) :
                IsFetch(call, K, who) /\ ~Fetching(c, call.path)
           /\ Mutating(d) = Mutating(c)
<1>1. /\ AnswersOf(d) = AnswersOf(c)
      /\ CallsOf(c) \subseteq CallsOf(d)
      /\ CallsOf(d) \ CallsOf(c) \subseteq d.sent \ c.sent
  BY DEF Extends, AnswersOf, CallsOf
<1>2. \A call \in CallsOf(d) \ CallsOf(c) :
        IsFetch(call, K, who) /\ ~Fetching(c, call.path)
  BY <1>1 DEF Extends
<1>3. \A call \in CallsOf(d) \ CallsOf(c) : call.method = "GET"
  BY <1>2, IsFetchGet
<1> QED
  BY <1>1, <1>2, <1>3 DEF Mutating

LEMMA ExtendsOneFetch ==
    ASSUME NEW c, NEW d, NEW K, NEW who, Extends(c, d, K, who), OneFetchEach(c)
    PROVE  OneFetchEach(d)
<1> SUFFICES ASSUME NEW x \in CallsOf(d), NEW y \in CallsOf(d),
                    x.method = "GET", y.method = "GET", x.path = y.path
             PROVE  x = y
  BY DEF OneFetchEach
<1>1. \A call \in CallsOf(d) \ CallsOf(c) :
        IsFetch(call, K, who) /\ ~Fetching(c, call.path)
  BY ExtendsCalls, Zenon
<1>3. CASE x \in CallsOf(c) /\ y \in CallsOf(c)
  BY <1>3 DEF OneFetchEach
<1>4. CASE x \notin CallsOf(c) /\ y \notin CallsOf(c)
  <2>1. IsFetch(x, K, who) /\ IsFetch(y, K, who)
    BY <1>1, <1>4
  <2>2. /\ x = [method |-> "GET", path |-> x.path, as |-> who, body |-> None]
        /\ y = [method |-> "GET", path |-> y.path, as |-> who, body |-> None]
    BY <2>1 DEF IsFetch
  <2> QED
    BY <2>2
<1>5. CASE x \in CallsOf(c) /\ y \notin CallsOf(c)
  BY <1>1, <1>5 DEF Fetching, Fetches
<1>6. CASE x \notin CallsOf(c) /\ y \in CallsOf(c)
  BY <1>1, <1>6 DEF Fetching, Fetches
<1> QED
  BY <1>3, <1>4, <1>5, <1>6

(* What is cancelled is no longer sent and no longer answered.             *)
LEMMA CancelAllKeeps ==
    ASSUME NEW K, NEW D, NEW S, NEW T, NEW c, IsClient(c, K, D, S, T), NEW keys
    PROVE  LET d == CancelAll(c, keys)
               Kept(call) == ~(call.method = "GET" /\ call.path \in keys)
           IN /\ IsClient(d, K, D, S, T)
              /\ d.cache = c.cache
              /\ d.sent = {call \in c.sent : Kept(call)}
              /\ AnswersOf(d) \subseteq {a \in AnswersOf(c) : Kept(a.call)}
<1> DEFINE d == CancelAll(c, keys)
           Kept(call) == ~(call.method = "GET" /\ call.path \in keys)
           X == {call \in c.sent : Kept(call)}
           Y == Remaining(c.answers, keys)
<1>0. c.sent \subseteq S /\ c.answers \in Seq(T)
  BY ClientFields
<1>1. /\ Y \in Seq(T)
      /\ ToSet(Y) \subseteq {a \in ToSet(c.answers) : Kept(a.call)}
  BY ClientFields, RemainingKeeps
<1>2. X \in SUBSET S
  BY <1>0
<1>3. d = [c EXCEPT !.sent = X, !.answers = Y]
  BY DEF CancelAll
<1> HIDE DEF X, Y, d
<1>4. IsClient(d, K, D, S, T) /\ d.cache = c.cache /\ d.sent = X /\ d.answers = Y
  BY <1>1, <1>2, <1>3 DEF IsClient
<1> QED
  BY <1>1, <1>4 DEF AnswersOf, d, X, Y

LEMMA AnsweredKeeps ==
    ASSUME NEW K, NEW D, NEW S, NEW T, NEW c, IsClient(c, K, D, S, T), NEW a \in T
    PROVE  LET d == Answered(c, a)
           IN /\ IsClient(d, K, D, S, T)
              /\ d.cache = c.cache
              /\ d.sent = c.sent \ {a.call}
              /\ AnswersOf(d) = AnswersOf(c) \cup {a}
<1> DEFINE d == Answered(c, a)
           X == c.sent \ {a.call}
           Y == Append(c.answers, a)
<1>0. c.sent \subseteq S /\ c.answers \in Seq(T)
  BY ClientFields
<1>1. /\ Y \in Seq(T)
      /\ ToSet(Y) = ToSet(c.answers) \cup {a}
  BY ClientFields, ToSetAppend
<1>2. X \in SUBSET S
  BY <1>0
<1>3. d = [c EXCEPT !.sent = X, !.answers = Y]
  BY DEF Answered
<1> HIDE DEF X, Y, d
<1>4. IsClient(d, K, D, S, T) /\ d.cache = c.cache /\ d.sent = X /\ d.answers = Y
  BY <1>1, <1>2, <1>3 DEF IsClient
<1> QED
  BY <1>1, <1>4 DEF AnswersOf, d, X, Y

(* The answer that arrives is one that was there.                          *)
LEMMA WithoutAnswerKeeps ==
    ASSUME NEW K, NEW D, NEW S, NEW T, IsClient(client, K, D, S, T), NEW i \in Arrivable
    PROVE  LET d == WithoutAnswer(i)
           IN /\ IsClient(d, K, D, S, T)
              /\ d.cache = client.cache
              /\ d.sent = client.sent
              /\ AnswersOf(d) \subseteq AnswersOf(client)
              /\ client.answers[i] \in AnswersOf(client)
<1> DEFINE d == WithoutAnswer(i)
<1>0. i \in DOMAIN client.answers
  BY DEF Arrivable
<1>1. /\ d.cache = client.cache
      /\ d.sent = client.sent
      /\ d.answers = RemoveAt(client.answers, i)
      /\ d = [cache |-> d.cache, sent |-> d.sent, answers |-> d.answers]
  BY ClientFields DEF WithoutAnswer
<1>2. /\ RemoveAt(client.answers, i) \in Seq(T)
      /\ ToSet(RemoveAt(client.answers, i)) \subseteq ToSet(client.answers)
  BY <1>0, ClientFields, ToSetRemoveAt
<1> HIDE DEF d
<1>3. IsClient(d, K, D, S, T)
  BY <1>1, <1>2, ClientFields DEF IsClient
<1>4. client.answers[i] \in AnswersOf(client)
  BY <1>0 DEF AnswersOf, ToSet
<1> QED
  BY <1>1, <1>2, <1>3, <1>4 DEF AnswersOf, d

LEMMA SetQueryDataKeeps ==
    ASSUME NEW K, NEW D, NEW S, NEW T, NEW c, IsClient(c, K, D, S, T),
           NEW k \in K, NEW data \in D
    PROVE  LET d == SetQueryData(c, k, data)
           IN /\ IsClient(d, K, D, S, T)
              /\ d.sent = c.sent
              /\ d.answers = c.answers
              /\ Data(d, k) = data
              /\ \A q \in K \ {k} : d.cache[q] = c.cache[q]
<1> DEFINE d == SetQueryData(c, k, data)
           entry == [data |-> data, error |-> FALSE]
           next == [c.cache EXCEPT ![k] = entry]
<1>0. /\ c = [cache |-> c.cache, sent |-> c.sent, answers |-> c.answers]
      /\ c.cache \in [K -> [data : D, error : BOOLEAN]]
      /\ DOMAIN c.cache = K
      /\ c.sent \subseteq S
      /\ c.answers \in Seq(T)
  BY ClientFields
<1>1. entry \in [data : D, error : BOOLEAN]
  OBVIOUS
<1>a. d = [c EXCEPT !.cache = next]
  BY DEF SetQueryData
<1> HIDE DEF entry, next, d
<1>2. /\ d.cache = next
      /\ d.sent = c.sent
      /\ d.answers = c.answers
      /\ d = [cache |-> d.cache, sent |-> d.sent, answers |-> d.answers]
  BY <1>0, <1>a
<1>b. next \in [K -> [data : D, error : BOOLEAN]]
  BY <1>0, <1>1 DEF next
<1>3. IsClient(d, K, D, S, T)
  BY <1>0, <1>b, <1>2 DEF IsClient
<1>4. d.cache[k] = entry /\ \A q \in K \ {k} : d.cache[q] = c.cache[q]
  BY <1>2, <1>0 DEF next
<1> QED
  BY <1>2, <1>3, <1>4 DEF Data, d, entry

(* A fetch that failed keeps its data.                                     *)
LEMMA SetErrorKeeps ==
    ASSUME NEW K, NEW D, NEW S, NEW T, NEW c, IsClient(c, K, D, S, T), NEW k \in K
    PROVE  LET d == [c EXCEPT !.cache[k].error = TRUE]
           IN /\ IsClient(d, K, D, S, T)
              /\ d.sent = c.sent
              /\ d.answers = c.answers
              /\ \A q \in K : Data(d, q) = Data(c, q)
<1> DEFINE d == [c EXCEPT !.cache[k].error = TRUE]
           entry == [c.cache[k] EXCEPT !.error = TRUE]
           next == [c.cache EXCEPT ![k] = entry]
<1>0. /\ c = [cache |-> c.cache, sent |-> c.sent, answers |-> c.answers]
      /\ c.cache \in [K -> [data : D, error : BOOLEAN]]
      /\ DOMAIN c.cache = K
      /\ c.sent \subseteq S
      /\ c.answers \in Seq(T)
  BY ClientFields
<1>1. entry \in [data : D, error : BOOLEAN] /\ entry.data = c.cache[k].data
  BY <1>0
<1>a. d = [c EXCEPT !.cache = next]
  OBVIOUS
<1> HIDE DEF entry, next, d
<1>2. /\ d.cache = next
      /\ d.sent = c.sent
      /\ d.answers = c.answers
      /\ d = [cache |-> d.cache, sent |-> d.sent, answers |-> d.answers]
  BY <1>0, <1>a
<1>b. next \in [K -> [data : D, error : BOOLEAN]]
  BY <1>0, <1>1 DEF next
<1>3. IsClient(d, K, D, S, T)
  BY <1>0, <1>b, <1>2 DEF IsClient
<1>4. \A q \in K : d.cache[q].data = c.cache[q].data
  BY <1>1, <1>2, <1>0 DEF next
<1> QED
  BY <1>2, <1>3, <1>4 DEF Data, d

(* An answer that is lost.                                                 *)
LEMMA LostAnswerKeeps ==
    ASSUME NEW K, NEW D, NEW S, NEW T, NEW c, IsClient(c, K, D, S, T),
           NEW i \in DOMAIN c.answers, NEW a \in T, a = [c.answers[i] EXCEPT !.ok = FALSE]
    PROVE  LET d == [c EXCEPT !.answers[i].ok = FALSE]
           IN /\ IsClient(d, K, D, S, T)
              /\ d.cache = c.cache
              /\ d.sent = c.sent
              /\ AnswersOf(d) \subseteq AnswersOf(c) \cup {a}
              /\ c.answers[i] \in AnswersOf(c)
<1> DEFINE d == [c EXCEPT !.answers[i].ok = FALSE]
           X == [c.answers EXCEPT ![i] = a]
<1>0. c.answers \in Seq(T) /\ c.sent \subseteq S
  BY ClientFields
<1>1. X \in Seq(T) /\ ToSet(X) \subseteq ToSet(c.answers) \cup {a}
  <2>1. X \in Seq(T) /\ DOMAIN X = DOMAIN c.answers
    BY <1>0
  <2>2. \A j \in DOMAIN X : X[j] = a \/ X[j] = c.answers[j]
    BY <1>0
  <2> HIDE DEF X
  <2> QED
    BY <2>1, <2>2 DEF ToSet
<1>2. d = [c EXCEPT !.answers = X]
  OBVIOUS
<1> HIDE DEF X, d
<1>3. IsClient(d, K, D, S, T) /\ d.cache = c.cache /\ d.sent = c.sent /\ d.answers = X
  BY <1>1, <1>2 DEF IsClient
<1>4. c.answers[i] \in AnswersOf(c)
  BY DEF AnswersOf, ToSet
<1> QED
  BY <1>1, <1>3, <1>4 DEF AnswersOf, d

LEMMA SendKeeps ==
    ASSUME NEW K, NEW D, NEW S, NEW T, NEW c, IsClient(c, K, D, S, T), NEW call \in S
    PROVE  LET d == Send(c, call)
           IN /\ IsClient(d, K, D, S, T)
              /\ d.cache = c.cache
              /\ d.sent = c.sent \cup {call}
              /\ d.answers = c.answers
<1> DEFINE d == Send(c, call)
           X == c.sent \cup {call}
<1>1. X \in SUBSET S
  BY ClientFields
<1>2. d = [c EXCEPT !.sent = X]
  BY DEF Send
<1> HIDE DEF X, d
<1>3. IsClient(d, K, D, S, T) /\ d.cache = c.cache /\ d.sent = X /\ d.answers = c.answers
  BY <1>1, <1>2 DEF IsClient
<1> QED
  BY <1>3 DEF X, d
===============================================================================
