-------------------------- MODULE AutoTesterProofs --------------------------
(***************************************************************************)
(* TLAPS proofs about AutoTester, for any group, any number of threads and *)
(* any settings: when a running profile is given up and what takes over,   *)
(* the pool, and the rotation of the test cycles.                          *)
(***************************************************************************)
EXTENDS AutoTester, Integers, SequenceTheorems, NaturalsInduction, WellFoundedInduction,
        FiniteSetTheorems, TLAPS

-----------------------------------------------------------------------------
(* Numbers and sequences.                                                  *)

\* A set of naturals that is not empty has a least element.
LEMMA NatMin == ASSUME NEW S \in SUBSET Nat, S # {} PROVE \E m \in S : \A n \in S : m <= n
<1> DEFINE R == OpToRel(<, Nat)
<1>1. IsWellFoundedOn(R, Nat)
  BY NatLessThanWellFounded
<1>2. \A x, y \in Nat : x < y => <<x, y>> \in R
  BY DEF OpToRel
<1> HIDE DEF R
<1>3. PICK m \in S : \A n \in S : <<n, m>> \notin R
  BY <1>1, WFMin
<1>4. ASSUME NEW n \in S PROVE m <= n
  <2>1. ~(n < m) /\ n \in Nat /\ m \in Nat
    BY <1>2, <1>3
  <2> QED
    BY <2>1
<1> QED
  BY <1>4

\* What Kept takes of the n-th place.
Taken(s, S, n, before) == IF s[n] \in S THEN Append(before, s[n]) ELSE before

\* The function Kept is defined by, up to place m.
IsUpTo(f, s, S, m) ==
  f = [n \in 0 .. m |-> IF n = 0 THEN <<>> ELSE Taken(s, S, n, f[n - 1])]

\* It exists: one more place can always be added.
LEMMA UpToExists == ASSUME NEW s, NEW S, NEW m \in Nat PROVE \E f : IsUpTo(f, s, S, m)
<1> DEFINE Bad == {b \in Nat : ~\E f : IsUpTo(f, s, S, b)}
<1> SUFFICES ASSUME Bad # {} PROVE FALSE
  OBVIOUS
<1>1. PICK b \in Bad : \A n \in Bad : b <= n
  BY NatMin
<1>2. CASE b = 0
  <2>1. IsUpTo([n \in 0 .. 0 |-> <<>>], s, S, 0)
    BY DEF IsUpTo
  <2> QED
    BY <1>2, <2>1
<1>3. CASE b > 0
  <2>1. b - 1 \in Nat /\ b - 1 \notin Bad
    BY <1>1, <1>3
  <2>2. PICK g : IsUpTo(g, s, S, b - 1)
    BY <2>1
  <2> DEFINE f == [n \in 0 .. b |-> IF n = 0 THEN <<>> ELSE Taken(s, S, n, g[n - 1])]
  <2>3. ASSUME NEW n \in 0 .. b - 1 PROVE f[n] = g[n]
    BY <2>1, <2>2 DEF IsUpTo
  <2>4. ASSUME NEW n \in 0 .. b, n # 0 PROVE Taken(s, S, n, g[n - 1]) = Taken(s, S, n, f[n - 1])
    <3>1. n - 1 \in 0 .. b - 1
      BY <2>1, <2>4
    <3>2. f[n - 1] = g[n - 1]
      BY <3>1, <2>3
    <3> QED
      BY <3>2 DEF Taken
  <2>5. f = [n \in 0 .. b |-> IF n = 0 THEN <<>> ELSE Taken(s, S, n, f[n - 1])]
    BY <2>4
  <2>6. IsUpTo(f, s, S, b)
    BY <2>5 DEF IsUpTo
  <2> QED
    BY <2>6
<1> QED
  BY <1>1, <1>2, <1>3

\* Kept is the last value of it.
LEMMA KeptIsLast == ASSUME NEW s, NEW S, Len(s) \in Nat
   PROVE \E f : IsUpTo(f, s, S, Len(s)) /\ Kept(s, S) = f[Len(s)]
<1> DEFINE g == CHOOSE f : IsUpTo(f, s, S, Len(s))
<1>1. IsUpTo(g, s, S, Len(s))
  BY UpToExists
<1>2. Kept(s, S) = g[Len(s)]
  BY DEF Kept, IsUpTo, Taken
<1> QED
  BY <1>1, <1>2

\* No element is twice in the sequence.
Once(s) == \A i, j \in DOMAIN s : s[i] = s[j] => i = j

\* What a prefix of the walk has kept: in order, no more than it walked over, just those
\* in S, and none twice that was not there twice.
KeptOf(t, s, S, n, T) ==
  /\ t \in Seq(T) /\ Len(t) <= n
  /\ \A x : (\E i \in 1 .. Len(t) : t[i] = x) <=> x \in S /\ \E i \in 1 .. n : s[i] = x
  /\ Once(s) => \A i, j \in 1 .. Len(t) : t[i] = t[j] => i = j

\* One place more.
LEMMA KeptGrows ==
  ASSUME NEW T, NEW S, NEW s \in Seq(T), NEW n \in 1 .. Len(s), NEW t,
         KeptOf(t, s, S, n - 1, T)
  PROVE  KeptOf(Taken(s, S, n, t), s, S, n, T)
<1>1. n \in Nat /\ n > 0 /\ s[n] \in T /\ Len(s) \in Nat
  OBVIOUS
<1>2. t \in Seq(T) /\ Len(t) \in Nat /\ Len(t) <= n - 1
  BY DEF KeptOf
<1>3. \A x : (\E i \in 1 .. n : s[i] = x) <=> x = s[n] \/ \E i \in 1 .. n - 1 : s[i] = x
  BY <1>1
<1>4. CASE s[n] \notin S
  <2>1. Taken(s, S, n, t) = t
    BY <1>4 DEF Taken
  <2>2. \A x : (\E i \in 1 .. Len(t) : t[i] = x) <=> x \in S /\ \E i \in 1 .. n : s[i] = x
    BY <1>3, <1>4 DEF KeptOf
  <2> QED
    BY <1>1, <1>2, <2>1, <2>2 DEF KeptOf
<1>5. CASE s[n] \in S
  <2> DEFINE u == Append(t, s[n])
  <2>1. Taken(s, S, n, t) = u
    BY <1>5 DEF Taken
  <2>2. /\ u \in Seq(T) /\ Len(u) = Len(t) + 1
        /\ \A i \in 1 .. Len(t) : u[i] = t[i]
        /\ u[Len(t) + 1] = s[n]
    BY <1>1, <1>2
  <2> HIDE DEF u
  <2>3. \A x : (\E i \in 1 .. Len(u) : u[i] = x)
                 <=> x = s[n] \/ \E i \in 1 .. Len(t) : t[i] = x
    <3>1. /\ \A i \in 1 .. Len(u) : i \in 1 .. Len(t) \/ i = Len(t) + 1
          /\ \A i \in 1 .. Len(t) : i \in 1 .. Len(u)
          /\ Len(t) + 1 \in 1 .. Len(u)
      BY <1>2, <2>2
    <3> QED
      BY <2>2, <3>1, Zenon
  <2>4. \A x : (\E i \in 1 .. Len(u) : u[i] = x) <=> x \in S /\ \E i \in 1 .. n : s[i] = x
    BY <1>3, <1>5, <2>3, Zenon DEF KeptOf
  <2>5. ASSUME Once(s), NEW i \in 1 .. Len(u), NEW j \in 1 .. Len(u), u[i] = u[j]
        PROVE  i = j
    <3>1. ASSUME NEW k \in 1 .. Len(t) PROVE t[k] # s[n]
      <4>1. PICK m \in 1 .. n - 1 : s[m] = t[k]
        BY DEF KeptOf
      <4>2. m \in DOMAIN s /\ n \in DOMAIN s /\ m # n
        BY <1>1
      <4> QED
        BY <2>5, <4>1, <4>2 DEF Once
    <3>2. \A k, m \in 1 .. Len(t) : t[k] = t[m] => k = m
      BY <2>5 DEF KeptOf
    <3>3. /\ i \in 1 .. Len(t) \/ i = Len(t) + 1
          /\ j \in 1 .. Len(t) \/ j = Len(t) + 1
      BY <1>2, <2>2
    <3> QED
      BY <2>2, <2>5, <3>1, <3>2, <3>3
  <2>6. Len(u) <= n
    BY <1>1, <1>2, <2>2
  <2> QED
    BY <2>1, <2>2, <2>4, <2>5, <2>6 DEF KeptOf
<1> QED
  BY <1>4, <1>5

\* What removeAll and pruneWorkingPool return: the elements in S, each as often as
\* before or less.
LEMMA KeptFacts ==
  ASSUME NEW T, NEW S, NEW s \in Seq(T)
  PROVE  /\ Kept(s, S) \in Seq(T) /\ Len(Kept(s, S)) <= Len(s)
         /\ Elems(Kept(s, S)) = Elems(s) \cap S
         /\ Once(s) => Once(Kept(s, S))
<1>1. Len(s) \in Nat /\ DOMAIN s = 1 .. Len(s)
  OBVIOUS
<1>2. PICK f : IsUpTo(f, s, S, Len(s)) /\ Kept(s, S) = f[Len(s)]
  BY <1>1, KeptIsLast
<1>3. f[0] = <<>> /\ \A n \in 1 .. Len(s) : f[n] = Taken(s, S, n, f[n - 1])
  <2>1. \A n \in 0 .. Len(s) : f[n] = IF n = 0 THEN <<>> ELSE Taken(s, S, n, f[n - 1])
    BY <1>2, Zenon DEF IsUpTo
  <2> QED
    BY <1>1, <2>1
<1>4. \A n \in 0 .. Len(s) : KeptOf(f[n], s, S, n, T)
  <2> DEFINE Bad == {n \in 0 .. Len(s) : ~KeptOf(f[n], s, S, n, T)}
  <2> SUFFICES ASSUME Bad # {} PROVE FALSE
    OBVIOUS
  <2>1. Bad \in SUBSET Nat
    BY <1>1
  <2>2. PICK b \in Bad : \A n \in Bad : b <= n
    BY <2>1, NatMin
  <2>3. CASE b = 0
    <3>1. <<>> \in Seq(T) /\ Len(<<>>) = 0
      OBVIOUS
    <3>2. KeptOf(<<>>, s, S, 0, T)
      BY <3>1 DEF KeptOf
    <3> QED
      BY <1>3, <2>3, <3>2
  <2>4. CASE b # 0
    <3>1. b \in 1 .. Len(s) /\ b - 1 \in 0 .. Len(s) /\ b - 1 \notin Bad
      BY <1>1, <2>1, <2>2, <2>4
    <3>2. KeptOf(f[b - 1], s, S, b - 1, T)
      BY <3>1
    <3> QED
      BY <1>3, <3>1, <3>2, KeptGrows
  <2> QED
    BY <2>3, <2>4
<1>5. KeptOf(Kept(s, S), s, S, Len(s), T)
  BY <1>1, <1>2, <1>4
<1>6. DOMAIN Kept(s, S) = 1 .. Len(Kept(s, S))
  BY <1>5 DEF KeptOf
<1>7. Elems(Kept(s, S)) = Elems(s) \cap S
  <2>1. \A x : (\E i \in DOMAIN Kept(s, S) : Kept(s, S)[i] = x)
                 <=> x \in S /\ \E i \in DOMAIN s : s[i] = x
    BY <1>1, <1>5, <1>6, Zenon DEF KeptOf
  <2> QED
    BY <2>1, Zenon DEF Elems
<1> QED
  BY <1>5, <1>6, <1>7 DEF KeptOf, Once

\* How many the first n numbers are.
LEMMA UpToCounts ==
  ASSUME NEW n \in Nat
  PROVE  /\ IsFiniteSet(1 .. n) /\ Cardinality(1 .. n) = n
         /\ IsFiniteSet(0 .. n - 1) /\ Cardinality(0 .. n - 1) = n
<1>1. 1 \in Int /\ n \in Int /\ 0 \in Int /\ n - 1 \in Int
  OBVIOUS
<1>2. IsFiniteSet(1 .. n) /\ Cardinality(1 .. n) = IF 1 > n THEN 0 ELSE n - 1 + 1
  BY <1>1, FS_Interval, Zenon
<1>3. IsFiniteSet(0 .. n - 1) /\ Cardinality(0 .. n - 1) = IF 0 > n - 1 THEN 0 ELSE n - 1 - 0 + 1
  BY <1>1, FS_Interval, Zenon
<1> QED
  BY <1>2, <1>3

\* A sequence that has no element twice has as many elements as places.
LEMMA OnceCounts == ASSUME NEW T, NEW s \in Seq(T), Once(s) PROVE Cardinality(Elems(s)) = Len(s)
<1>1. Len(s) \in Nat /\ DOMAIN s = 1 .. Len(s)
  OBVIOUS
<1>2. IsFiniteSet(1 .. Len(s)) /\ Cardinality(1 .. Len(s)) = Len(s)
  BY <1>1, UpToCounts, Zenon
<1>3. s \in Surjection(1 .. Len(s), Elems(s)) /\ s \in Injection(1 .. Len(s), Elems(s))
  BY <1>1 DEF Surjection, Injection, IsInjective, Elems, Once
<1> QED
  BY <1>2, <1>3, FS_Surjection

\* Prepending an element the sequence does not have.
LEMMA Prepended ==
  ASSUME NEW T, NEW s \in Seq(T), NEW x \in T
  PROVE  /\ <<x>> \o s \in Seq(T) /\ Len(<<x>> \o s) = Len(s) + 1
         /\ Elems(<<x>> \o s) = {x} \cup Elems(s)
         /\ Once(s) /\ x \notin Elems(s) => Once(<<x>> \o s)
<1> DEFINE u == <<x>> \o s
<1>1. Len(s) \in Nat /\ DOMAIN s = 1 .. Len(s)
  OBVIOUS
<1>2. /\ u \in Seq(T) /\ Len(u) = Len(s) + 1 /\ DOMAIN u = 1 .. Len(s) + 1
      /\ u[1] = x /\ \A i \in 2 .. Len(s) + 1 : u[i] = s[i - 1]
  BY <1>1
<1> HIDE DEF u
<1>3. ASSUME NEW i \in DOMAIN u
      PROVE  IF i = 1 THEN u[i] = x ELSE i - 1 \in DOMAIN s /\ u[i] = s[i - 1]
  BY <1>1, <1>2
<1>4. ASSUME NEW i \in DOMAIN s PROVE i + 1 \in DOMAIN u /\ u[i + 1] = s[i]
  BY <1>1, <1>2
<1>5. Elems(u) = {x} \cup Elems(s)
  <2>1. \A y : (\E i \in DOMAIN u : u[i] = y) <=> y = x \/ \E i \in DOMAIN s : s[i] = y
    <3> TAKE y
    <3>1. ASSUME NEW i \in DOMAIN u, u[i] = y PROVE y = x \/ \E k \in DOMAIN s : s[k] = y
      BY <1>3, <3>1
    <3>2. CASE y = x
      BY <1>1, <1>2, <3>2
    <3>3. ASSUME NEW i \in DOMAIN s, s[i] = y PROVE \E k \in DOMAIN u : u[k] = y
      BY <1>4, <3>3
    <3> QED
      BY <1>1, <1>2, <3>1, <3>2, <3>3
  <2> QED
    BY <2>1, Zenon DEF Elems
<1>6. ASSUME Once(s), x \notin Elems(s) PROVE Once(u)
  <2>1. ASSUME NEW i \in DOMAIN u, NEW j \in DOMAIN u, u[i] = u[j] PROVE i = j
    <3>1. \A k \in DOMAIN s : s[k] # x
      BY <1>6 DEF Elems
    <3>2. i \in Nat /\ j \in Nat
      BY <1>1, <1>2
    <3>3. CASE i # 1 /\ j # 1
      <4>1. i - 1 = j - 1
        BY <1>3, <1>6, <2>1, <3>3 DEF Once
      <4> QED
        BY <3>2, <4>1
    <3>4. CASE i = 1 \/ j = 1
      BY <1>3, <2>1, <3>1, <3>4
    <3> QED
      BY <3>3, <3>4
  <2> QED
    BY <2>1 DEF Once
<1> QED
  BY <1>2, <1>5, <1>6 DEF u

-----------------------------------------------------------------------------
(* The remainders the offset is counted in.                                *)

LEMMA Divided ==
  ASSUME NEW L \in Nat, L > 0, NEW a \in Nat
  PROVE  a \div L \in Nat /\ a = L * (a \div L) + (a % L) /\ a % L \in 0 .. L - 1
  OBVIOUS

\* There is one remainder.
LEMMA OneRemainder ==
  ASSUME NEW L \in Nat, L > 0, NEW q \in Int, NEW u \in Int,
         NEW r \in 0 .. L - 1, NEW t \in 0 .. L - 1, L * q + r = L * u + t
  PROVE  r = t
<1>1. CASE q >= u + 1
  <2>1. L * q >= L * (u + 1) /\ L * (u + 1) = L * u + L
    BY <1>1
  <2> QED
    BY <2>1
<1>2. CASE u >= q + 1
  <2>1. L * u >= L * (q + 1) /\ L * (q + 1) = L * q + L
    BY <1>2
  <2> QED
    BY <2>1
<1> QED
  BY <1>1, <1>2

\* A summand may be reduced first.
LEMMA ReduceFirst ==
  ASSUME NEW L \in Nat, L > 0, NEW a \in Nat, NEW b \in Nat
  PROVE  ((a % L) + b) % L = (a + b) % L
<1> DEFINE c == (a % L) + b
           q == a \div L  u == (a + b) \div L  v == c \div L
<1>1. a = L * q + (a % L) /\ q \in Nat /\ a % L \in Nat
  BY Divided
<1>2. c = L * v + (c % L) /\ v \in Nat /\ c % L \in 0 .. L - 1
  BY <1>1, Divided
<1>3. a + b = L * u + ((a + b) % L) /\ u \in Nat /\ (a + b) % L \in 0 .. L - 1
  BY Divided
<1> HIDE DEF q, u, v
<1>4. a + b = L * q + c
  BY <1>1
<1> HIDE DEF c
<1>5. L * (v + q) + (c % L) = L * u + ((a + b) % L)
  <2>1. L * (v + q) = L * v + L * q
    BY <1>1, <1>2
  <2> QED
    BY <1>1, <1>2, <1>3, <1>4, <2>1
<1>6. c % L = (a + b) % L
  <2> DEFINE r == c % L
             t == (a + b) % L
  <2>1. v + q \in Int /\ u \in Int /\ r \in 0 .. L - 1 /\ t \in 0 .. L - 1
    BY <1>1, <1>2, <1>3
  <2>2. L * (v + q) + r = L * u + t
    BY <1>5
  <2> HIDE DEF r, t
  <2>3. r = t
    BY <2>1, <2>2, OneRemainder
  <2> QED
    BY <2>3 DEF r, t
<1> QED
  BY <1>6 DEF c

\* Once round is nowhere.
LEMMA OnceRound == ASSUME NEW L \in Nat, L > 0, NEW a \in 0 .. L - 1 PROVE (a + L) % L = a
<1> DEFINE u == (a + L) \div L
<1>1. a + L = L * u + ((a + L) % L) /\ u \in Nat /\ (a + L) % L \in 0 .. L - 1
  BY Divided
<1>2. a + L = L * 1 + a
  OBVIOUS
<1> HIDE DEF u
<1> QED
  BY <1>1, <1>2, OneRemainder

\* A number past w, counted from w.
LEMMA Shifted ==
  ASSUME NEW w \in Nat, NEW c \in Nat, NEW j \in 0 .. (w + c) - 1, j >= w
  PROVE  j - w \in 0 .. c - 1 /\ w + (j - w) = j
  OBVIOUS

\* Every place is reached from every other one.
LEMMA Reached ==
  ASSUME NEW L \in Nat, L > 0, NEW s \in 0 .. L - 1, NEW i \in 0 .. L - 1
  PROVE  \E j \in 0 .. L - 1 : (s + j) % L = i
<1>1. CASE s <= i
  <2>1. i - s \in 0 .. L - 1 /\ s + (i - s) = i /\ i % L = i
    BY <1>1
  <2> QED
    BY <2>1
<1>2. CASE s > i
  <2>1. i - s + L \in 0 .. L - 1 /\ s + (i - s + L) = i + L /\ (i + L) % L = i
    BY <1>2, OnceRound
  <2> QED
    BY <2>1
<1> QED
  BY <1>1, <1>2

-----------------------------------------------------------------------------
(* What getProxiesToTest takes.                                            *)

\* Those before place k that can be tested, from offset o.
Before(o, k) == {j \in 0 .. k - 1 : At(o, j) \notin Chains}

LEMMA BeforeFinite ==
  ASSUME NEW o, NEW k \in Nat
  PROVE  /\ IsFiniteSet(Before(o, k)) /\ Cardinality(Before(o, k)) \in Nat
         /\ Cardinality(Before(o, k)) <= k
<1>1. IsFiniteSet(0 .. k - 1) /\ Cardinality(0 .. k - 1) = k
  BY UpToCounts, Zenon
<1>2. Before(o, k) \in SUBSET (0 .. k - 1)
  BY DEF Before
<1> QED
  BY <1>1, <1>2, FS_Subset, FS_CardinalityType

\* The profiles are in the group, and no more are taken than there are, or asked for.
LEMMA PicksFacts ==
  ASSUME NEW T, list \in Seq(T), list # <<>>, NEW o \in Nat
  PROVE  /\ \A k \in Nat : At(o, k) \in Elems(list) /\ At(o, k) \in T
         /\ Cardinality(Picks(o)) \in Nat
         /\ Cardinality(Picks(o)) <= Len(list) /\ Cardinality(Picks(o)) <= PerCycle
<1> DEFINE L == Len(list)
<1>1. L \in Nat /\ L > 0 /\ DOMAIN list = 1 .. L
  OBVIOUS
<1>2. ASSUME NEW k \in Nat PROVE At(o, k) \in Elems(list) /\ At(o, k) \in T
  <2>1. (o + k) % L \in 0 .. L - 1
    BY <1>1, Divided
  <2>2. ((o + k) % L) + 1 \in 1 .. L
    BY <1>1, <2>1
  <2> QED
    BY <1>1, <2>2 DEF At, Elems
<1>3. /\ Picks(o) \in SUBSET (0 .. L - 1)
      /\ \A k \in Picks(o) : Cardinality(Before(o, k)) < PerCycle
      /\ \A k \in Picks(o) : At(o, k) \notin Chains
  BY DEF Picks, Before
<1>4. IsFiniteSet(Picks(o)) /\ Cardinality(Picks(o)) \in Nat /\ Cardinality(Picks(o)) <= L
  <2>1. IsFiniteSet(0 .. L - 1) /\ Cardinality(0 .. L - 1) = L
    BY <1>1, UpToCounts, Zenon
  <2> HIDE DEF L
  <2> QED
    BY <1>3, <2>1, FS_Subset, FS_CardinalityType
<1>5. CASE Picks(o) = {}
  <2>1. Cardinality(Picks(o)) = 0
    BY <1>5, FS_EmptySet
  <2> QED
    BY <1>2, <1>4, <2>1, TesterAssumption
<1>6. CASE Picks(o) # {}
  <2> DEFINE R == {n \in Nat : L - n \in Picks(o)}
  <2>0. PICK x \in Picks(o) : TRUE
    BY <1>6
  <2>1. L - x \in R /\ R \in SUBSET Nat
    BY <1>1, <1>3, <2>0
  <2>2. PICK n \in R : \A z \in R : n <= z
    BY <2>1, NatMin
  <2> DEFINE m == L - n
  <2>3. m \in Picks(o) /\ m \in Nat /\ m \in 0 .. L - 1
    BY <1>1, <1>3, <2>2
  <2>4. ASSUME NEW k \in Picks(o) PROVE k \in Before(o, m) \cup {m}
    <3>1. k \in 0 .. L - 1 /\ L - k \in R
      BY <1>1, <1>3
    <3>2. n <= L - k /\ n \in Nat
      BY <2>2, <3>1
    <3>3. k <= m
      BY <1>1, <3>1, <3>2
    <3> QED
      BY <1>3, <2>3, <3>1, <3>3 DEF Before
  <2> HIDE DEF m, R, L
  <2>5. /\ IsFiniteSet(Before(o, m) \cup {m})
        /\ Cardinality(Before(o, m) \cup {m}) <= Cardinality(Before(o, m)) + 1
    <3>1. IsFiniteSet(Before(o, m)) /\ Cardinality(Before(o, m)) \in Nat
      BY <2>3, BeforeFinite
    <3> DEFINE B == Before(o, m)
    <3> HIDE DEF B
    <3>2. /\ IsFiniteSet(B \cup {m})
          /\ Cardinality(B \cup {m}) = IF m \in B THEN Cardinality(B) ELSE Cardinality(B) + 1
      BY <3>1, FS_AddElement, Zenon DEF B
    <3> QED
      BY <3>1, <3>2 DEF B
  <2>6. Cardinality(Picks(o)) <= Cardinality(Before(o, m) \cup {m})
    BY <2>4, <2>5, FS_Subset
  <2>7. Cardinality(Before(o, m)) < PerCycle /\ Cardinality(Before(o, m)) \in Nat
    BY <1>3, <2>3, BeforeFinite
  <2>8. Cardinality(Before(o, m) \cup {m}) \in Nat /\ PerCycle \in Nat
    BY <2>5, FS_CardinalityType, TesterAssumption
  <2> QED
    BY <1>2, <1>4, <2>5, <2>6, <2>7, <2>8 DEF L
<1> QED
  BY <1>5, <1>6

\* As far as the offset advances, whoever can be tested is taken.
LEMMA NoneSkipped ==
  ASSUME NEW T, list \in Seq(T), list # <<>>, NEW o \in Nat,
         NEW k \in 0 .. Cardinality(Picks(o)) - 1
  PROVE  At(o, k) \in Chains \/ k \in Picks(o)
<1>1. /\ Cardinality(Picks(o)) \in Nat /\ Cardinality(Picks(o)) <= Len(list)
      /\ Cardinality(Picks(o)) <= PerCycle /\ PerCycle \in Nat /\ Len(list) \in Nat
  BY PicksFacts, TesterAssumption
<1>2. k \in Nat /\ k \in 0 .. Len(list) - 1 /\ k < PerCycle
  BY <1>1
<1>3. Cardinality(Before(o, k)) < PerCycle
  BY <1>1, <1>2, BeforeFinite
<1> QED
  BY <1>2, <1>3 DEF Picks, Before

\* None is taken only if none can be.
LEMMA SomeTaken ==
  ASSUME NEW T, list \in Seq(T), list # <<>>, NEW o \in Nat, PerCycle > 0, Picks(o) = {}
  PROVE  Known \subseteq Chains
<1> DEFINE L == Len(list)
           R == {k \in 0 .. L - 1 : At(o, k) \notin Chains}
<1>1. L \in Nat /\ L > 0 /\ DOMAIN list = 1 .. L
  OBVIOUS
<1>2. R = {}
  <2> SUFFICES ASSUME R # {} PROVE FALSE
    OBVIOUS
  <2>1. PICK k \in R : \A j \in R : k <= j
    <3>1. R \in SUBSET Nat
      BY <1>1
    <3> HIDE DEF R
    <3> QED
      BY <3>1, NatMin
  <2>2. k \in 0 .. L - 1 /\ At(o, k) \notin Chains /\ k \in Nat
    BY <1>1, <2>1
  <2>3. Before(o, k) = {}
    BY <1>1, <2>1, <2>2 DEF Before
  <2>4. Cardinality(Before(o, k)) < PerCycle
    BY <2>3, FS_EmptySet
  <2> QED
    BY <2>2, <2>4 DEF Picks, Before
<1>3. ASSUME NEW i \in 1 .. L PROVE list[i] \in Chains
  <2>1. o % L \in 0 .. L - 1 /\ i - 1 \in 0 .. L - 1
    BY <1>1, Divided
  <2>2. PICK j \in 0 .. L - 1 : ((o % L) + j) % L = i - 1
    BY <1>1, <2>1, Reached
  <2>3. (o + j) % L = i - 1
    <3>1. j \in Nat
      OBVIOUS
    <3> HIDE DEF L
    <3>2. ((o % L) + j) % L = (o + j) % L
      BY <1>1, <3>1, ReduceFirst
    <3> QED
      BY <2>2, <3>2
  <2>4. At(o, j) = list[i]
    BY <1>1, <2>3 DEF At
  <2> QED
    BY <1>2, <2>4
<1> QED
  BY <1>1, <1>3 DEF Known, Elems

-----------------------------------------------------------------------------
(***************************************************************************)
(* The strengthening.  As long as no profile was switched under a count or *)
(* a check, every check is about the profile that runs, and the count of   *)
(* failures is made of that profile's own ones.                            *)
(***************************************************************************)
CheckStates == [pc : {"idle", "measure", "handle", "failover"},
                id : Profiles \cup {NoId}, contested : BOOLEAN]

CheckType ==
  /\ failures \in Nat
  /\ started \in Profiles \cup {NoId}
  /\ own \in [Profiles -> Nat]
  /\ check \in [Checks -> CheckStates]

CheckHasProfile == \A k \in Checks : check[k].pc # "idle" => check[k].id \in Profiles

CountIsOwn ==
  ~switched => /\ \A k \in Checks : check[k].pc # "idle" => check[k].id = started
               /\ failures > 0 => started \in Profiles /\ own[started] >= failures

HealthInv == CheckType /\ CheckHasProfile /\ CountIsOwn

USE TesterAssumption DEF Profiles, NoId
-----------------------------------------------------------------------------
\* The variables of HealthInv; the steps of a test cycle leave all but check alone.
healthVars == <<failures, started, own, check, switched>>

\* A step that leaves the variables of the health checks alone.
LEMMA HealthUnchanged == ASSUME HealthInv, UNCHANGED healthVars PROVE HealthInv'
  BY DEF HealthInv, CheckType, CheckHasProfile, CountIsOwn, healthVars

\* The states a check moves to.
LEMMA CheckMoves ==
  ASSUME CheckType, NEW k \in Checks
  PROVE  /\ NoCheck \in CheckStates /\ NoCheck.pc = "idle"
         /\ \A l \in {"handle", "failover"} :
              /\ [check[k] EXCEPT !.pc = l] \in CheckStates
              /\ [check[k] EXCEPT !.pc = l].id = check[k].id
              /\ [check[k] EXCEPT !.pc = l].pc = l
  BY DEF CheckType, CheckStates, NoCheck

\* Beginning a cycle is no business of the health checks.
LEMMA LBegin ==
  ASSUME HealthInv, TestTimer \/ CoreCameUp PROVE HealthInv'
  BY HealthUnchanged DEF TestTimer, CoreCameUp, BeginAt, healthVars

\* The steps of a cycle but one leave the variables alone; UpdatePool only marks a
\* check whose profile it puts back.
LEMMA LCycle == ASSUME HealthInv, NEW c \in Cycles, CycleStep(c) PROVE HealthInv'
<1>1. CASE TestFails(c) \/ TestAnswers(c) \/ EndCycle(c) \/ AutoStart(c)
  BY <1>1, HealthUnchanged DEF TestFails, TestAnswers, EndCycle, AutoStart, healthVars,
                               history
<1>2. CASE \E p \in Profiles, ok \in BOOLEAN : Result(c, p, ok)
  BY <1>2, HealthUnchanged DEF Result, healthVars, history
<1>3. CASE UpdatePool(c)
  <2>1. UNCHANGED <<failures, started, own, switched>>
    BY <1>3 DEF UpdatePool, history
  <2>2. check' \in [Checks -> CheckStates]
    BY <1>3 DEF UpdatePool, HealthInv, CheckType, CheckStates
  <2>3. \A k \in Checks : check'[k].pc = check[k].pc /\ check'[k].id = check[k].id
    BY <1>3 DEF UpdatePool, HealthInv, CheckType, CheckStates
  <2> QED
    BY <2>1, <2>2, <2>3 DEF HealthInv, CheckType, CheckHasProfile, CountIsOwn
<1> QED
  BY <1>1, <1>2, <1>3 DEF CycleStep

\* A new check is about the profile that runs.
LEMMA LHealthTimer == ASSUME HealthInv, HealthTimer PROVE HealthInv'
<1>1. UNCHANGED <<failures, started, own, switched>> /\ started \in Profiles
  BY DEF HealthTimer, history, HealthInv, CheckType
<1>2. PICK k \in Checks :
        check' = [check EXCEPT ![k] = [NoCheck EXCEPT !.pc = "measure", !.id = started]]
  BY DEF HealthTimer
<1>3. check'[k] = [pc |-> "measure", id |-> started, contested |-> FALSE]
  BY <1>2 DEF NoCheck, HealthInv, CheckType
<1>4. \A j \in Checks \ {k} : check'[j] = check[j]
  BY <1>2 DEF HealthInv, CheckType
<1>5. check'[k] \in CheckStates
  BY <1>1, <1>3 DEF CheckStates
<1>6. CheckType'
  BY <1>1, <1>2, <1>4, <1>5 DEF HealthInv, CheckType
<1> QED
  BY <1>1, <1>3, <1>4, <1>6 DEF HealthInv, CheckHasProfile, CountIsOwn

\* A success clears the count; it stays suspect if another check is about a profile
\* that no longer runs.
LEMMA LHealthy == ASSUME HealthInv, NEW k \in Checks, Healthy(k) PROVE HealthInv'
<1>1. /\ failures' = 0 /\ started' = started
      /\ own' = [own EXCEPT ![check[k].id] = 0]
      /\ check' = [check EXCEPT ![k] = NoCheck]
      /\ switched' = StaleBut(k)
  BY DEF Healthy
<1>2. CheckType'
  BY <1>1, CheckMoves DEF HealthInv, CheckType
<1>3. \A j \in Checks : check'[j].pc # "idle" => j # k /\ check'[j] = check[j]
  BY <1>1, CheckMoves DEF HealthInv, CheckType
<1>4. ~switched' => \A j \in Checks \ {k} : check[j].pc # "idle" => check[j].id = started
  BY <1>1 DEF StaleBut
<1> QED
  BY <1>1, <1>2, <1>3, <1>4 DEF HealthInv, CheckHasProfile, CountIsOwn

\* A failure counts for the profile it is about.
LEMMA LUnhealthy ==
  ASSUME HealthInv, NEW k \in Checks, Unhealthy(k)
  PROVE  HealthInv' /\ (switched \/ own'[check[k].id] >= failures')
<1>1. /\ failures' = failures + 1 /\ started' = started /\ switched' = switched
      /\ own' = [own EXCEPT ![check[k].id] = @ + 1]
      /\ check[k].pc = "measure"
  BY DEF Unhealthy
<1>2. \/ check' = [check EXCEPT ![k] = [@ EXCEPT !.pc = "handle"]]
      \/ check' = [check EXCEPT ![k] = NoCheck]
  BY DEF Unhealthy
<1>3. check[k].id \in Profiles
  BY <1>1 DEF HealthInv, CheckHasProfile
<1>4. own' \in [Profiles -> Nat] /\ failures' \in Nat
  BY SMTT(30), <1>1, <1>3 DEF HealthInv, CheckType
<1>5. CheckType'
  BY <1>1, <1>2, <1>4, CheckMoves DEF HealthInv, CheckType
<1>6. /\ CheckHasProfile'
      /\ \A j \in Checks : check'[j].pc # "idle" =>
           check'[j].id = check[j].id /\ check[j].pc # "idle"
  <2>1. \A j \in Checks \ {k} : check'[j] = check[j]
    BY <1>1, <1>2 DEF HealthInv, CheckType
  <2>2. \/ check'[k] = [check[k] EXCEPT !.pc = "handle"]
        \/ check'[k] = NoCheck
    BY <1>1, <1>2 DEF HealthInv, CheckType
  <2>3. check'[k].pc # "idle" => check'[k].id = check[k].id
    BY <2>2, CheckMoves DEF HealthInv
  <2> QED
    BY <1>1, <1>3, <2>1, <2>3 DEF HealthInv, CheckHasProfile
<1>7. ~switched => started = check[k].id /\ own[started] >= failures
  BY <1>1, <1>3 DEF HealthInv, CheckType, CountIsOwn
<1>8. ~switched => own'[started] >= failures'
  BY <1>1, <1>3, <1>7 DEF HealthInv, CheckType
<1> QED
  BY <1>1, <1>3, <1>5, <1>6, <1>7, <1>8 DEF HealthInv, CountIsOwn

\* Handling the failure moves the check on.
LEMMA LHandle == ASSUME HealthInv, NEW k \in Checks, Handle(k) PROVE HealthInv'
  BY CheckMoves DEF Handle, history, HealthInv, CheckType, CheckHasProfile, CountIsOwn

\* A failover clears the count, or leaves it.
LEMMA LFailover == ASSUME HealthInv, NEW k \in Checks, Failover(k) PROVE HealthInv'
<1>1. /\ started' = started /\ own' = own
      /\ check' = [check EXCEPT ![k] = NoCheck]
      /\ \/ failures' = failures /\ switched' = switched
         \/ failures' = 0 /\ switched' = StaleBut(k)
  BY DEF Failover
<1>2. CheckType'
  <2>1. failures' \in Nat
    BY <1>1 DEF HealthInv, CheckType
  <2>2. check' \in [Checks -> CheckStates]
    BY <1>1, CheckMoves DEF HealthInv, CheckType
  <2> QED
    BY <1>1, <2>1, <2>2 DEF HealthInv, CheckType
<1>3. \A j \in Checks : check'[j].pc # "idle" => j # k /\ check'[j] = check[j]
  BY <1>1, CheckMoves DEF HealthInv, CheckType
<1>4. CASE failures' = failures /\ switched' = switched
  BY <1>1, <1>2, <1>3, <1>4 DEF HealthInv, CheckHasProfile, CountIsOwn
<1>5. CASE failures' = 0 /\ switched' = StaleBut(k)
  <2>1. ~switched' => \A j \in Checks \ {k} : check[j].pc # "idle" => check[j].id = started
    BY <1>5 DEF StaleBut
  <2> QED
    BY <1>1, <1>2, <1>3, <1>5, <2>1 DEF HealthInv, CheckHasProfile, CountIsOwn
<1> QED
  BY <1>1, <1>4, <1>5

\* Another profile runs: the count and the checks are suspect, or there are none.
LEMMA LSwitch ==
  ASSUME HealthInv, NEW p \in Profiles \cup {NoId}, Switch(p), UNCHANGED <<failures, check>>
  PROVE  HealthInv'
<1>1. CheckType'
  BY DEF Switch, HealthInv, CheckType
<1> QED
  BY <1>1 DEF Switch, HealthInv, CheckType, CheckHasProfile, CountIsOwn

\* Changed settings clear the count, or stop the timers.
LEMMA LSettings ==
  ASSUME HealthInv, NEW on \in BOOLEAN, SettingsChanged(on) PROVE HealthInv'
<1>1. /\ UNCHANGED <<started, own, check>>
      /\ \/ failures' = failures /\ switched' = switched
         \/ /\ failures' = 0
            /\ switched' = \E k \in Checks : check[k].pc # "idle" /\ check[k].id # started
  BY DEF SettingsChanged
<1>2. CASE failures' = failures /\ switched' = switched
  BY <1>1, <1>2, HealthUnchanged DEF healthVars
<1>3. CASE /\ failures' = 0
           /\ switched' = \E k \in Checks : check[k].pc # "idle" /\ check[k].id # started
  <2>1. ~switched' => \A k \in Checks : check[k].pc # "idle" => check[k].id = started
    BY <1>3
  <2> QED
    BY <1>1, <1>3, <2>1 DEF HealthInv, CheckType, CheckHasProfile, CountIsOwn
<1> QED
  BY <1>1, <1>2, <1>3

\* The inductive step, one case per action.
LEMMA HealthStep == ASSUME HealthInv, [Next]_vars PROVE HealthInv'
<1>1. CASE TestTimer \/ CoreCameUp
  BY <1>1, LBegin
<1>2. CASE HealthTimer
  BY <1>2, LHealthTimer
<1>3. ASSUME NEW c \in Cycles, CycleStep(c) PROVE HealthInv'
  BY <1>3, LCycle
<1>4. ASSUME NEW k \in Checks, CheckStep(k) PROVE HealthInv'
  BY <1>4, LHealthy, LUnhealthy, LHandle, LFailover DEF CheckStep
<1>5. ASSUME NEW p \in Profiles \cup {NoId}, UserSwitch(p) PROVE HealthInv'
  BY <1>5, LSwitch DEF UserSwitch
<1>6. ASSUME NEW p \in Profiles, RunPosted(p) PROVE HealthInv'
  <2>1. UNCHANGED <<failures, check>>
    BY <1>6 DEF RunPosted
  <2>2. CASE Switch(p) \/ Switch(NoId)
    BY <2>1, <2>2, LSwitch
  <2>3. CASE UNCHANGED <<started, own, switched>>
    BY <2>1, <2>3, HealthUnchanged DEF healthVars
  <2> QED
    BY <1>6, <2>2, <2>3 DEF RunPosted
<1>7. ASSUME NEW p \in Profiles, Delete(p) PROVE HealthInv'
  BY <1>7, HealthUnchanged DEF Delete, healthVars
<1>8. ASSUME NEW on \in BOOLEAN, SettingsChanged(on) PROVE HealthInv'
  BY <1>8, LSettings
<1>9. CASE UNCHANGED vars
  BY <1>9, HealthUnchanged DEF vars, history, healthVars
<1> QED
  BY <1>1, <1>2, <1>3, <1>4, <1>5, <1>6, <1>7, <1>8, <1>9 DEF Next

\* The strengthened invariant holds in every reachable state.
THEOREM HealthInductive == Spec => []HealthInv
<1>1. Init => HealthInv
  BY DEF Init, HealthInv, CheckType, CheckStates, CheckHasProfile, CountIsOwn, NoCheck
<1> QED
  BY <1>1, HealthStep, PTL DEF Spec

(***************************************************************************)
(* For any number of checks and of retries: a running profile is given up  *)
(* only after as many failures of its own as the settings ask for, unless  *)
(* the profile was switched under the count.                               *)
(***************************************************************************)
THEOREM GivenUpDeservedly == Spec => FailoverDeserved
<1> DEFINE Deserved ==
      \A k \in Checks :
        check[k].pc = "measure" /\ check'[k].pc = "handle" =>
          own'[check[k].id] >= RetryCount \/ switched
<1>1. HealthInv /\ [Next]_vars => [Deserved]_vars
  <2> SUFFICES ASSUME HealthInv, Next, NEW k \in Checks,
                      check[k].pc = "measure", check'[k].pc = "handle"
               PROVE  own'[check[k].id] >= RetryCount \/ switched
    OBVIOUS
  <2>1. Unhealthy(k)
    <3>1. ASSUME UNCHANGED check PROVE FALSE
      BY <3>1
    <3>2. ASSUME NEW c \in Cycles, CycleStep(c) PROVE FALSE
      <4>1. UpdatePool(c)
        BY <3>1, <3>2 DEF CycleStep, TestFails, TestAnswers, Result, EndCycle, AutoStart
      <4>2. check'[k].pc = check[k].pc
        BY <4>1 DEF UpdatePool, HealthInv, CheckType, CheckStates
      <4> QED
        BY <4>2
    <3>3. ASSUME HealthTimer PROVE FALSE
      BY <3>3 DEF HealthTimer, NoCheck, HealthInv, CheckType
    <3>4. ASSUME NEW j \in Checks, CheckStep(j) PROVE j = k /\ Unhealthy(j)
      <4>1. j = k
        BY <3>4 DEF CheckStep, Healthy, Unhealthy, Handle, Failover, HealthInv, CheckType
      <4>2. ~Healthy(k)
        BY CheckMoves DEF Healthy, HealthInv, CheckType
      <4>3. ~Handle(k) /\ ~Failover(k)
        BY DEF Handle, Failover
      <4> QED
        BY <3>4, <4>1, <4>2, <4>3 DEF CheckStep
    <3> QED
      BY <3>1, <3>2, <3>3, <3>4
         DEF Next, TestTimer, CoreCameUp, UserSwitch, RunPosted, Delete, SettingsChanged
  <2>2. failures' >= RetryCount
    BY <2>1, CheckMoves DEF Unhealthy, HealthInv, CheckType
  <2>3. switched \/ own'[check[k].id] >= failures'
    BY <2>1, LUnhealthy
  <2>4. check[k].id \in Profiles /\ own' \in [Profiles -> Nat] /\ failures' \in Nat
    BY <2>1, LUnhealthy DEF HealthInv, CheckType, CheckHasProfile
  <2> QED
    BY <2>2, <2>3, <2>4
<1> QED
  BY <1>1, HealthInductive, PTL DEF Spec, FailoverDeserved

-----------------------------------------------------------------------------
(***************************************************************************)
(* The posted starts.  Each was decided for the profile that runs, or for  *)
(* none, or the running profile has changed since.                         *)
(***************************************************************************)
PostStates(S) == [id : S, from : Profiles \cup {NoId}, stale : BOOLEAN, contested : BOOLEAN]

PostType == \E S : posted \in Seq(PostStates(S))

PostInv ==
  /\ PostType
  /\ \A i \in 1 .. Len(posted) :
       posted[i].stale \/ started = NoId \/ started = posted[i].from

\* Marking the posts as stale keeps them posts.
LEMMA StaleIsStale ==
  ASSUME NEW S, NEW s \in Seq(PostStates(S))
  PROVE  /\ Stale(s) \in Seq(PostStates(S)) /\ Len(Stale(s)) = Len(s)
         /\ \A i \in 1 .. Len(Stale(s)) : Stale(s)[i].stale
<1>1. DOMAIN s = 1 .. Len(s) /\ Len(s) \in Nat
  OBVIOUS
<1>2. \A i \in 1 .. Len(s) :
        [s[i] EXCEPT !.stale = TRUE] \in PostStates(S) /\ [s[i] EXCEPT !.stale = TRUE].stale
  <2>1. \A i \in 1 .. Len(s) : s[i] \in PostStates(S)
    OBVIOUS
  <2>2. \A r \in PostStates(S) :
          [r EXCEPT !.stale = TRUE] \in PostStates(S) /\ [r EXCEPT !.stale = TRUE].stale
    BY DEF PostStates
  <2> QED
    BY <2>1, <2>2
<1>3. Stale(s) = [i \in 1 .. Len(s) |-> [s[i] EXCEPT !.stale = TRUE]]
  BY <1>1 DEF Stale
<1>4. Stale(s) \in Seq(PostStates(S)) /\ Len(Stale(s)) = Len(s)
  BY <1>1, <1>2, <1>3
<1> QED
  BY <1>2, <1>3, <1>4

\* A post decided for the running profile, or for none, keeps the invariant.
LEMMA PostKeeps ==
  ASSUME PostInv, NEW id, NEW from \in Profiles \cup {NoId}, NEW contested \in BOOLEAN,
         Post(id, from, contested), started' = started,
         started = NoId \/ started = from
  PROVE  PostInv'
<1> DEFINE e == [id |-> id, from |-> from, stale |-> FALSE, contested |-> contested]
<1>1. PICK S : posted \in Seq(PostStates(S))
  BY DEF PostInv, PostType
<1>2. PostStates(S) \subseteq PostStates(S \cup {id}) /\ e \in PostStates(S \cup {id})
  <2>1. S \subseteq S \cup {id} /\ id \in S \cup {id}
    OBVIOUS
  <2>2. PostStates(S) \subseteq PostStates(S \cup {id})
    BY <2>1 DEF PostStates
  <2>3. e \in PostStates(S \cup {id})
    BY <2>1 DEF PostStates
  <2> QED
    BY <2>2, <2>3
<1>3. posted \in Seq(PostStates(S \cup {id}))
  BY <1>1, <1>2, SeqMonotonic
<1>4. posted' = Append(posted, e)
  BY DEF Post
<1> HIDE DEF e
<1>5. /\ posted' \in Seq(PostStates(S \cup {id})) /\ Len(posted') = Len(posted) + 1
      /\ posted'[Len(posted) + 1] = e
      /\ \A i \in 1 .. Len(posted) : posted'[i] = posted[i]
  BY <1>2, <1>3, <1>4
<1>6. e.from = from
  BY DEF e
<1> QED
  BY <1>1, <1>5, <1>6 DEF PostInv, PostType

\* The inductive step, for the actions that touch the posts or the running profile.
LEMMA PostStep == ASSUME HealthInv, PostInv, [Next]_vars PROVE PostInv'
<1>1. CASE UNCHANGED <<posted, started>>
  BY <1>1 DEF PostInv, PostType
<1>2. PICK S : posted \in Seq(PostStates(S))
  BY DEF PostInv, PostType
<1>3. ASSUME NEW c \in Cycles, CycleStep(c) PROVE PostInv'
  <2>1. CASE AutoStart(c)
    <3>1. CASE Post(Head(Pruned), NoId, FALSE) /\ NoneRuns
      BY <2>1, <3>1, PostKeeps DEF AutoStart, NoneRuns, history
    <3>2. CASE UNCHANGED posted
      BY <1>1, <2>1, <3>2 DEF AutoStart
    <3> QED
      BY <2>1, <3>1, <3>2 DEF AutoStart
  <2>2. CASE ~AutoStart(c)
    BY <1>1, <1>3, <2>2 DEF CycleStep, TestFails, TestAnswers, Result, UpdatePool, EndCycle
  <2> QED
    BY <2>1, <2>2
<1>4. ASSUME NEW k \in Checks, CheckStep(k) PROVE PostInv'
  <2>1. CASE Failover(k)
    <3>1. check[k].id \in Profiles \cup {NoId} /\ check[k].contested \in BOOLEAN
      BY DEF HealthInv, CheckType, CheckStates
    <3>2. CASE Post(Head(Pruned), check[k].id, check[k].contested) /\ StillRuns(k)
      BY <2>1, <3>1, <3>2, PostKeeps DEF Failover, StillRuns
    <3>3. CASE UNCHANGED posted
      BY <1>1, <2>1, <3>3 DEF Failover
    <3> QED
      BY <2>1, <3>2, <3>3 DEF Failover
  <2>2. CASE ~Failover(k)
    BY <1>1, <1>4, <2>2 DEF CheckStep, Healthy, Unhealthy, Handle, history
  <2> QED
    BY <2>1, <2>2
<1>5. ASSUME NEW p \in Profiles \cup {NoId}, UserSwitch(p) PROVE PostInv'
  <2>1. posted' = Stale(posted)
    BY <1>5 DEF UserSwitch
  <2> QED
    BY <1>2, <2>1, StaleIsStale DEF PostInv, PostType
<1>6. ASSUME NEW p \in Profiles, RunPosted(p) PROVE PostInv'
  <2>1. posted' = Stale(Tail(posted)) /\ posted # <<>>
    BY <1>6 DEF RunPosted
  <2>2. Tail(posted) \in Seq(PostStates(S))
    BY <1>2, <2>1
  <2> QED
    BY <2>1, <2>2, StaleIsStale DEF PostInv, PostType
<1>7. CASE \/ TestTimer \/ HealthTimer \/ CoreCameUp \/ UNCHANGED vars
           \/ \E p \in Profiles : Delete(p)
           \/ \E on \in BOOLEAN : SettingsChanged(on)
  BY <1>1, <1>7 DEF TestTimer, HealthTimer, CoreCameUp, Delete, SettingsChanged, vars
<1> QED
  BY <1>3, <1>4, <1>5, <1>6, <1>7 DEF Next

THEOREM PostInductive == Spec => []PostInv
<1>1. Init => PostInv
  <2> SUFFICES ASSUME Init PROVE PostInv
    OBVIOUS
  <2>1. posted = <<>>
    BY DEF Init
  <2>2. posted \in Seq(PostStates({})) /\ Len(posted) = 0
    BY <2>1
  <2> QED
    BY <2>2 DEF PostInv, PostType
<1> QED
  BY <1>1, PostStep, HealthInductive, PTL DEF Spec

(***************************************************************************)
(* For any group and any number of threads: the tester takes over only     *)
(* from a profile that has failed, or from one that was started after the  *)
(* decision.                                                               *)
(***************************************************************************)
THEOREM TakesOver == Spec => TakesOverFailed
<1> DEFINE Takes ==
      posted # <<>> /\ posted' = Stale(Tail(posted)) /\ started' # started =>
        LET e == Head(posted) IN started \in {NoId, e.from} \/ e.stale
<1>1. PostInv => Takes
  <2> SUFFICES ASSUME PostInv, posted # <<>>
               PROVE  started \in {NoId, Head(posted).from} \/ Head(posted).stale
    OBVIOUS
  <2>1. Len(posted) > 0 /\ Len(posted) \in Nat /\ Head(posted) = posted[1]
    BY DEF PostInv, PostType
  <2> QED
    BY <2>1 DEF PostInv
<1>2. PostInv => [Takes]_vars
  BY <1>1
<1> QED
  BY <1>2, PostInductive, PTL DEF TakesOverFailed

-----------------------------------------------------------------------------
(***************************************************************************)
(* The pool.  It is too long only while a cycle still has results to       *)
(* apply: EndCycle cuts it.  Until two cycles have run at once, one cycle  *)
(* at most is under way, no profile is in the pool twice, and the profile  *)
(* that is about to be added is not in it.                                 *)
(***************************************************************************)
CycleStates == [pc : {"idle", "test", "result", "pool", "decide"},
                todo : SUBSET Profiles, id : Profiles \cup {NoId},
                op : {"none", "add", "move", "remove"}]

PoolType ==
  /\ pool \in Seq(Profiles) /\ list \in Seq(Profiles)
  /\ cycle \in [Cycles -> CycleStates]
  /\ overlap \in BOOLEAN /\ offset \in Nat

AppliesToAProfile ==
  \A c \in Cycles : cycle[c].pc = "pool" => cycle[c].id \in Profiles /\ cycle[c].op # "none"

CutLater == Len(pool) > PoolSize => \E c \in Cycles : cycle[c].pc \in {"result", "pool"}

NotYetIn == \A c \in Cycles :
  cycle[c].pc = "pool" /\ cycle[c].op = "add" => cycle[c].id \notin Elems(pool)

OneCycle == \A c, d \in Cycles : cycle[c].pc # "idle" /\ cycle[d].pc # "idle" => c = d

PoolInv ==
  /\ PoolType /\ AppliesToAProfile /\ CutLater
  /\ ~overlap => OneCycle /\ Once(pool) /\ NotYetIn

\* A sequence that has lost elements of s: it is no longer, and has none twice.
Shrunk(t, s) ==
  /\ t \in Seq(Profiles) /\ Len(t) <= Len(s) /\ Elems(t) \subseteq Elems(s)
  /\ Once(s) => Once(t)

LEMMA ShrunkSelf == ASSUME NEW s \in Seq(Profiles) PROVE Shrunk(s, s)
  BY DEF Shrunk

\* removeAll.
LEMMA WithoutFacts ==
  ASSUME NEW s \in Seq(Profiles), NEW p \in Profiles
  PROVE  Shrunk(Without(s, p), s) /\ Elems(Without(s, p)) = Elems(s) \ {p}
<1>1. Elems(s) \subseteq Profiles
  <2>1. \A i \in DOMAIN s : s[i] \in Profiles
    OBVIOUS
  <2> QED
    BY <2>1 DEF Elems
<1> HIDE DEF Profiles
<1>2. Elems(Without(s, p)) = Elems(s) \ {p}
  BY <1>1, KeptFacts DEF Without
<1> QED
  BY <1>2, KeptFacts DEF Without, Shrunk

\* pruneWorkingPool.
LEMMA PrunedFacts ==
  ASSUME pool \in Seq(Profiles) PROVE Shrunk(Pruned, pool) /\ Len(Pruned) <= PoolSize
<1> DEFINE m == IF Len(pool) < PoolSize THEN Len(pool) ELSE PoolSize
           t == Cut(pool)
<1>1. m \in Nat /\ m <= Len(pool) /\ m <= PoolSize /\ Len(pool) \in Nat
  OBVIOUS
<1>2. t \in Seq(Profiles) /\ Len(t) = m /\ \A i \in 1 .. m : t[i] = pool[i]
  BY <1>1 DEF Cut
<1> HIDE DEF m, t, Profiles
<1>3. DOMAIN t = 1 .. m /\ DOMAIN pool = 1 .. Len(pool) /\ 1 .. m \subseteq 1 .. Len(pool)
  BY <1>1, <1>2
<1>4. Elems(t) \subseteq Elems(pool)
  BY <1>2, <1>3 DEF Elems
<1>5. Once(pool) => Once(t)
  BY <1>2, <1>3 DEF Once
<1>6. Pruned = Kept(t, Known \cap working)
  BY DEF Pruned, t
<1>7. /\ Pruned \in Seq(Profiles) /\ Len(Pruned) <= Len(t) /\ Len(Pruned) \in Nat
      /\ Elems(Pruned) \subseteq Elems(t)
      /\ Once(t) => Once(Pruned)
  BY <1>2, <1>6, KeptFacts
<1> QED
  BY <1>1, <1>2, <1>4, <1>5, <1>7 DEF Shrunk

\* A step that takes elements out of the pool at most, and begins nothing.
LEMMA PoolShrinks ==
  ASSUME PoolInv, list' \in Seq(Profiles), offset' \in Nat, UNCHANGED <<cycle, overlap>>,
         Shrunk(pool', pool)
  PROVE  PoolInv'
<1>1. /\ PoolType' /\ Len(pool) \in Nat /\ Len(pool') \in Nat
      /\ Len(pool') <= Len(pool) /\ PoolSize \in Nat
      /\ cycle' = cycle /\ overlap' = overlap /\ Elems(pool') \subseteq Elems(pool)
  BY DEF PoolInv, PoolType, Shrunk
<1>2. AppliesToAProfile' /\ CutLater'
  BY <1>1 DEF PoolInv, AppliesToAProfile, CutLater
<1>3. ASSUME ~overlap PROVE (OneCycle /\ Once(pool) /\ NotYetIn)'
  <2>1. OneCycle /\ Once(pool) /\ NotYetIn
    BY <1>3 DEF PoolInv
  <2>2. Once(pool')
    BY <2>1 DEF Shrunk
  <2> QED
    BY <1>1, <2>1, <2>2 DEF OneCycle, NotYetIn
<1> QED
  BY <1>1, <1>2, <1>3 DEF PoolInv

\* A step of cycle c to x that takes elements out of the pool at most.
LEMMA CycleMoves ==
  ASSUME PoolInv, NEW c \in Cycles, NEW x \in CycleStates, cycle[c].pc # "idle",
         cycle' = [cycle EXCEPT ![c] = x], UNCHANGED <<list, offset, overlap>>,
         Shrunk(pool', pool),
         \/ cycle[c].pc \notin {"result", "pool"}
         \/ x.pc \in {"result", "pool"}
         \/ Len(pool') <= PoolSize,
         x.pc = "pool" => /\ x.id \in Profiles /\ x.op # "none"
                          /\ x.op = "add" => x.id \notin Elems(pool)
  PROVE  PoolInv'
<1>1. PoolType'
  BY DEF PoolInv, PoolType, Shrunk
<1>2. cycle'[c] = x /\ \A d \in Cycles \ {c} : cycle'[d] = cycle[d]
  BY DEF PoolInv, PoolType
<1>3. AppliesToAProfile'
  BY <1>2 DEF PoolInv, AppliesToAProfile
<1>4. CutLater'
  <2> SUFFICES ASSUME Len(pool') > PoolSize
               PROVE  \E d \in Cycles : cycle'[d].pc \in {"result", "pool"}
    BY DEF CutLater
  <2>1. Len(pool) > PoolSize
    BY DEF Shrunk, PoolInv, PoolType
  <2>2. PICK d \in Cycles : cycle[d].pc \in {"result", "pool"}
    BY <2>1 DEF PoolInv, CutLater
  <2>3. ~(Len(pool') <= PoolSize)
    BY <1>1 DEF PoolType
  <2> QED
    BY <1>2, <2>2, <2>3
<1>5. ASSUME ~overlap PROVE (OneCycle /\ Once(pool) /\ NotYetIn)'
  <2>1. OneCycle /\ Once(pool) /\ NotYetIn /\ Elems(pool') \subseteq Elems(pool)
    BY <1>5 DEF PoolInv, Shrunk
  <2>2. OneCycle'
    BY <1>2, <2>1 DEF OneCycle
  <2>3. NotYetIn'
    BY <1>2, <2>1 DEF NotYetIn
  <2>4. Once(pool')
    BY <2>1 DEF Shrunk
  <2> QED
    BY <2>2, <2>3, <2>4
<1> QED
  BY <1>1, <1>3, <1>4, <1>5 DEF PoolInv

\* Beginning a cycle: it has nothing to apply yet, and overlap says whether it is the
\* only one.
LEMMA LPoolBegin ==
  ASSUME PoolInv, NEW o \in Nat, BeginAt(o), UNCHANGED list, Shrunk(pool', pool)
  PROVE  PoolInv'
<1>1. CASE list = <<>> \/ Picks(o) = {}
  BY <1>1, PoolShrinks DEF BeginAt, PoolInv, PoolType
<1>2. CASE ~(list = <<>> \/ Picks(o) = {})
  <2> DEFINE S == {At(o, k) : k \in Picks(o)}
             x == [NoCycle EXCEPT !.pc = "test", !.todo = S]
  <2>1. list \in Seq(Profiles) /\ list # <<>> /\ Len(list) \in Nat /\ Len(list) > 0
    BY <1>2 DEF PoolInv, PoolType
  <2>2. PICK c \in Cycles \ Busy : cycle' = [cycle EXCEPT ![c] = x]
    BY <1>2 DEF BeginAt
  <2>3. offset' = Advance(o) /\ overlap' = (overlap \/ Busy # {})
    BY <1>2, Zenon DEF BeginAt
  <2>4. x \in CycleStates /\ x.pc = "test"
    <3>1. S \in SUBSET Profiles
      <4>1. \A k \in Picks(o) : k \in Nat /\ At(o, k) \in Profiles
        <5>1. \A k \in Nat : At(o, k) \in Profiles
          BY <2>1, PicksFacts
        <5>2. Picks(o) \subseteq Nat
          BY <2>1 DEF Picks
        <5> QED
          BY <5>1, <5>2
      <4> QED
        BY <4>1
    <3> HIDE DEF S
    <3> QED
      BY <3>1 DEF CycleStates, NoCycle
  <2>5. offset' \in Nat
    <3> DEFINE L == Len(list)
               n == (o % L) + Cardinality(Picks(o))
    <3>1. L \in Nat /\ L > 0 /\ Cardinality(Picks(o)) \in Nat
      BY <2>1, PicksFacts
    <3> HIDE DEF L
    <3>2. n \in Nat
      BY <3>1, Divided
    <3>3. offset' = n % L
      BY <2>3 DEF Advance, L
    <3> HIDE DEF n
    <3> QED
      BY <3>1, <3>2, <3>3, Divided
  <2> HIDE DEF x
  <2>6. PoolType'
    BY <2>2, <2>3, <2>4, <2>5 DEF PoolInv, PoolType, Shrunk
  <2>7. cycle'[c] = x /\ cycle[c].pc = "idle" /\ \A d \in Cycles \ {c} : cycle'[d] = cycle[d]
    BY <2>2 DEF PoolInv, PoolType, Busy
  <2>8. AppliesToAProfile'
    BY <2>4, <2>7 DEF PoolInv, AppliesToAProfile
  <2>9. CutLater'
    <3>1. Len(pool') > PoolSize => Len(pool) > PoolSize
      BY DEF PoolInv, PoolType, Shrunk
    <3> QED
      BY <2>4, <2>7, <3>1 DEF PoolInv, CutLater
  <2>10. ASSUME ~overlap' PROVE (OneCycle /\ Once(pool) /\ NotYetIn)'
    <3>1. ~overlap /\ \A d \in Cycles : cycle[d].pc = "idle"
      BY <2>3, <2>10 DEF Busy
    <3>2. \A d \in Cycles \ {c} : cycle'[d].pc = "idle"
      BY <2>7, <3>1
    <3>3. OneCycle'
      BY <3>2 DEF OneCycle
    <3>4. NotYetIn'
      BY <2>4, <2>7, <3>2 DEF NotYetIn
    <3>5. Once(pool')
      BY <3>1 DEF PoolInv, Shrunk
    <3> QED
      BY <3>3, <3>4, <3>5
  <2> QED
    BY <2>6, <2>8, <2>9, <2>10 DEF PoolInv
<1> QED
  BY <1>1, <1>2

\* updateWorkingPool: the one step by which the pool grows.
LEMMA PoolAfterFacts ==
  ASSUME PoolInv, NEW c \in Cycles, cycle[c].pc = "pool"
  PROVE  LET p == cycle[c].id  t == PoolAfter(cycle[c].op, p) IN
         /\ p \in Profiles /\ t \in Seq(Profiles)
         /\ Elems(t) \subseteq Elems(pool) \cup {p}
         /\ cycle[c].op = "remove" => Elems(t) = Elems(pool) \ {p}
         /\ ~overlap => Once(t)
<1> DEFINE p == cycle[c].id
           t == PoolAfter(cycle[c].op, p)
           w == Without(pool, p)
<1>1. /\ p \in Profiles /\ pool \in Seq(Profiles) /\ cycle[c].op \in {"add", "move", "remove"}
      /\ ~overlap => Once(pool)
  BY DEF PoolInv, PoolType, AppliesToAProfile, CycleStates
<1>2. w \in Seq(Profiles) /\ Elems(w) = Elems(pool) \ {p} /\ (Once(pool) => Once(w))
  BY <1>1, WithoutFacts DEF Shrunk
<1> HIDE DEF w
<1>3. CASE cycle[c].op = "remove"
  <2>1. t = w
    BY <1>3 DEF PoolAfter, w
  <2> QED
    BY <1>1, <1>2, <2>1
<1>4. CASE cycle[c].op = "move"
  <2>1. t = <<p>> \o w
    BY <1>4 DEF PoolAfter, w
  <2> HIDE DEF p, t, Profiles
  <2>2. /\ t \in Seq(Profiles) /\ Elems(t) = {p} \cup Elems(w)
        /\ Once(w) /\ p \notin Elems(w) => Once(t)
    BY <1>1, <1>2, <2>1, Prepended
  <2> QED
    BY <1>1, <1>2, <1>4, <2>2 DEF p, t
<1>5. CASE cycle[c].op = "add"
  <2>1. t = <<p>> \o pool
    BY <1>5 DEF PoolAfter
  <2> HIDE DEF p, t, Profiles
  <2>2. /\ t \in Seq(Profiles) /\ Elems(t) = {p} \cup Elems(pool)
        /\ Once(pool) /\ p \notin Elems(pool) => Once(t)
    BY <1>1, <2>1, Prepended
  <2>3. ~overlap => p \notin Elems(pool)
    BY <1>5 DEF PoolInv, NotYetIn, p
  <2> QED
    BY <1>1, <1>5, <2>2, <2>3 DEF p, t
<1> QED
  BY <1>1, <1>3, <1>4, <1>5

LEMMA LPoolUpdate == ASSUME PoolInv, NEW c \in Cycles, UpdatePool(c) PROVE PoolInv'
<1> DEFINE x == [cycle[c] EXCEPT !.pc = "result", !.id = NoId, !.op = "none"]
           p == cycle[c].id
           t == PoolAfter(cycle[c].op, p)
<1>1. /\ cycle[c].pc = "pool" /\ pool' = t /\ cycle' = [cycle EXCEPT ![c] = x]
      /\ UNCHANGED <<list, offset, overlap>>
  BY DEF UpdatePool, history
<1>2. p \in Profiles /\ t \in Seq(Profiles) /\ (~overlap => Once(t))
  BY <1>1, PoolAfterFacts
<1>3. x \in CycleStates /\ x.pc = "result"
  BY DEF PoolInv, PoolType, CycleStates
<1> HIDE DEF x, p, t
<1>4. PoolType'
  BY <1>1, <1>2, <1>3 DEF PoolInv, PoolType
<1>5. cycle'[c] = x /\ \A d \in Cycles \ {c} : cycle'[d] = cycle[d]
  BY <1>1 DEF PoolInv, PoolType
<1>6. AppliesToAProfile'
  BY <1>3, <1>5 DEF PoolInv, AppliesToAProfile
<1>7. CutLater'
  BY <1>3, <1>5 DEF CutLater
<1>8. ASSUME ~overlap PROVE (OneCycle /\ Once(pool) /\ NotYetIn)'
  <2>1. OneCycle /\ \A d \in Cycles \ {c} : cycle'[d].pc = "idle"
    BY <1>1, <1>5, <1>8 DEF PoolInv, OneCycle
  <2>2. OneCycle' /\ NotYetIn'
    BY <1>3, <1>5, <2>1 DEF OneCycle, NotYetIn
  <2> QED
    BY <1>1, <1>2, <1>8, <2>2
<1> QED
  BY <1>1, <1>4, <1>6, <1>7, <1>8 DEF PoolInv

\* The steps of a cycle.
LEMMA LPoolCycle == ASSUME PoolInv, NEW c \in Cycles, CycleStep(c) PROVE PoolInv'
<1>1. /\ cycle[c] \in CycleStates /\ pool \in Seq(Profiles) /\ NoCycle \in CycleStates
      /\ NoCycle.pc = "idle"
  BY DEF PoolInv, PoolType, CycleStates, NoCycle
<1>2. Shrunk(pool, pool) /\ Shrunk(Pruned, pool) /\ Len(Pruned) <= PoolSize
  BY <1>1, ShrunkSelf, PrunedFacts
<1>3. CASE TestFails(c)
  <2>1. /\ cycle[c].pc = "test" /\ cycle' = [cycle EXCEPT ![c] = NoCycle]
        /\ UNCHANGED <<list, offset, overlap, pool>>
    BY <1>3 DEF TestFails, history
  <2> QED
    BY <1>1, <1>2, <2>1, CycleMoves
<1>4. CASE TestAnswers(c)
  <2> DEFINE x == [cycle[c] EXCEPT !.pc = "result"]
  <2>1. /\ cycle[c].pc = "test" /\ cycle' = [cycle EXCEPT ![c] = x]
        /\ UNCHANGED <<list, offset, overlap, pool>>
    BY <1>4 DEF TestAnswers, history
  <2>2. x \in CycleStates /\ x.pc = "result"
    BY <1>1 DEF CycleStates
  <2> HIDE DEF x
  <2> QED
    BY <1>2, <2>1, <2>2, CycleMoves
<1>5. CASE UpdatePool(c)
  BY <1>5, LPoolUpdate
<1>6. CASE EndCycle(c)
  <2> DEFINE x == [cycle[c] EXCEPT !.pc = "decide"]
  <2>1. /\ cycle[c].pc = "result" /\ cycle' = [cycle EXCEPT ![c] = x] /\ pool' = Pruned
        /\ UNCHANGED <<list, offset, overlap>>
    BY <1>6 DEF EndCycle, history
  <2>2. x \in CycleStates /\ x.pc = "decide"
    BY <1>1 DEF CycleStates
  <2> HIDE DEF x
  <2> QED
    BY <1>2, <2>1, <2>2, CycleMoves
<1>7. CASE AutoStart(c)
  <2>1. /\ cycle[c].pc = "decide" /\ cycle' = [cycle EXCEPT ![c] = NoCycle]
        /\ pool' = pool \/ pool' = Pruned
        /\ UNCHANGED <<list, offset, overlap>>
    BY <1>7 DEF AutoStart, history
  <2> QED
    BY <1>1, <1>2, <2>1, CycleMoves
<1>8. ASSUME NEW p \in Profiles, NEW ok \in BOOLEAN, Result(c, p, ok) PROVE PoolInv'
  <2>1. /\ cycle[c].pc = "result" /\ UNCHANGED <<list, offset, overlap, pool>>
    BY <1>8 DEF Result, history
  <2>2. CASE p \notin Known
    <3> DEFINE x == [cycle[c] EXCEPT !.todo = @ \ {p}]
    <3>1. cycle' = [cycle EXCEPT ![c] = x]
      BY <1>1, <1>8, <2>2 DEF Result
    <3>2. x \in CycleStates /\ x.pc = "result"
      BY <1>1, <2>1 DEF CycleStates
    <3> HIDE DEF x
    <3> QED
      BY <1>2, <2>1, <3>1, <3>2, CycleMoves
  <2>3. CASE p \in Known
    <3> DEFINE op == IF ~ok THEN "remove" ELSE IF p \in Elems(pool) THEN "move" ELSE "add"
               x == [cycle[c] EXCEPT !.todo = @ \ {p}, !.pc = "pool", !.id = p, !.op = op]
    <3>1. cycle' = [cycle EXCEPT ![c].todo = @ \ {p}, ![c].pc = "pool", ![c].id = p,
                                 ![c].op = op]
      BY <1>8, <2>3 DEF Result
    <3>2. /\ op \in {"remove", "move", "add"}
          /\ op = "add" => p \notin Elems(pool)
      OBVIOUS
    <3> HIDE DEF op
    <3>3. cycle' = [cycle EXCEPT ![c] = x]
      BY <1>1, <3>1 DEF PoolInv, PoolType
    <3>4. x \in CycleStates /\ x.pc = "pool" /\ x.id = p /\ x.op = op
      BY <1>1, <3>2 DEF CycleStates
    <3> HIDE DEF x
    <3> QED
      BY <1>2, <2>1, <3>2, <3>3, <3>4, CycleMoves
  <2> QED
    BY <2>2, <2>3
<1> QED
  BY <1>3, <1>4, <1>5, <1>6, <1>7, <1>8 DEF CycleStep

\* The steps of a health check.
LEMMA LPoolCheck == ASSUME HealthInv, PoolInv, NEW k \in Checks, CheckStep(k) PROVE PoolInv'
<1>1. UNCHANGED <<list, offset, cycle, overlap>>
  BY DEF CheckStep, Healthy, Unhealthy, Handle, Failover, history
<1>2. list \in Seq(Profiles) /\ pool \in Seq(Profiles) /\ offset \in Nat
  BY DEF PoolInv, PoolType
<1>3. Shrunk(pool', pool)
  <2>1. CASE pool' = pool
    BY <1>2, <2>1, ShrunkSelf
  <2>2. CASE Handle(k)
    <3>1. check[k].id \in Profiles /\ pool' = Without(pool, check[k].id)
      BY <2>2 DEF Handle, HealthInv, CheckHasProfile
    <3> QED
      BY <1>2, <3>1, WithoutFacts
  <2>3. CASE pool' = Pruned
    BY <1>2, <2>3, PrunedFacts
  <2> QED
    BY <2>1, <2>2, <2>3 DEF CheckStep, Healthy, Unhealthy, Failover
<1> QED
  BY <1>1, <1>2, <1>3, PoolShrinks

\* The other steps.
LEMMA LPoolOthers ==
  ASSUME PoolInv,
         \/ TestTimer \/ HealthTimer \/ CoreCameUp \/ UNCHANGED vars
         \/ \E p \in Profiles \cup {NoId} : UserSwitch(p)
         \/ \E p \in Profiles : RunPosted(p) \/ Delete(p)
         \/ \E on \in BOOLEAN : SettingsChanged(on)
  PROVE  PoolInv'
<1>1. list \in Seq(Profiles) /\ pool \in Seq(Profiles) /\ offset \in Nat
  BY DEF PoolInv, PoolType
<1>2. Shrunk(pool, pool) /\ Shrunk(<<>>, pool)
  <2>1. <<>> \in Seq(Profiles) /\ Len(<<>>) = 0 /\ Elems(<<>>) = {} /\ Once(<<>>)
    BY DEF Elems, Once
  <2>2. Shrunk(<<>>, pool)
    BY <1>1, <2>1 DEF Shrunk
  <2> QED
    BY <1>1, <2>2, ShrunkSelf
<1>3. CASE TestTimer \/ CoreCameUp
  <2>1. BeginAt(offset) /\ UNCHANGED <<list, pool>>
    BY <1>3 DEF TestTimer, CoreCameUp
  <2> QED
    BY <1>1, <1>2, <2>1, LPoolBegin
<1>4. CASE UNCHANGED <<list, pool, offset, cycle, overlap>>
  BY <1>1, <1>2, <1>4, PoolShrinks
<1>5. CASE HealthTimer \/ UNCHANGED vars
  BY <1>4, <1>5 DEF HealthTimer, history, vars
<1>6. CASE \/ \E p \in Profiles \cup {NoId} : UserSwitch(p)
           \/ \E p \in Profiles : RunPosted(p)
  BY <1>4, <1>6 DEF UserSwitch, RunPosted
<1>7. ASSUME NEW p \in Profiles, Delete(p) PROVE PoolInv'
  <2>1. list' \in Seq(Profiles)
    BY <1>1, <1>7, WithoutFacts DEF Delete, Shrunk
  <2>2. UNCHANGED <<pool, offset, cycle, overlap>>
    BY <1>7 DEF Delete
  <2> QED
    BY <1>1, <1>2, <2>1, <2>2, PoolShrinks
<1>8. ASSUME NEW on \in BOOLEAN, SettingsChanged(on) PROVE PoolInv'
  <2>1. UNCHANGED list /\ Shrunk(pool', pool)
    BY <1>2, <1>8 DEF SettingsChanged
  <2>2. CASE BeginAt(0)
    BY <2>1, <2>2, LPoolBegin
  <2>3. CASE UNCHANGED <<cycle, overlap>> /\ offset' \in Nat
    BY <1>1, <2>1, <2>3, PoolShrinks
  <2>4. BeginAt(0) \/ NoCore \/ UNCHANGED <<offset, cycle, overlap>>
    BY <1>8 DEF SettingsChanged
  <2> QED
    BY <1>1, <2>2, <2>3, <2>4 DEF NoCore
<1> QED
  BY <1>3, <1>5, <1>6, <1>7, <1>8

LEMMA PoolStep == ASSUME HealthInv, PoolInv, [Next]_vars PROVE PoolInv'
<1>1. CASE \E c \in Cycles : CycleStep(c)
  BY <1>1, LPoolCycle
<1>2. CASE \E k \in Checks : CheckStep(k)
  BY <1>2, LPoolCheck
<1>3. CASE \/ TestTimer \/ HealthTimer \/ CoreCameUp \/ UNCHANGED vars
           \/ \E p \in Profiles \cup {NoId} : UserSwitch(p)
           \/ \E p \in Profiles : RunPosted(p) \/ Delete(p)
           \/ \E on \in BOOLEAN : SettingsChanged(on)
  BY <1>3, LPoolOthers
<1> QED
  BY <1>1, <1>2, <1>3 DEF Next

THEOREM PoolInductive == Spec => []PoolInv
<1>1. Init => PoolInv
  <2> SUFFICES ASSUME Init PROVE PoolInv
    OBVIOUS
  <2>1. /\ pool = <<>> /\ offset = 0 /\ overlap = FALSE /\ list = [i \in Profiles |-> i]
        /\ cycle = [c \in Cycles |-> NoCycle]
    BY DEF Init
  <2>2. list \in Seq(Profiles)
    BY <2>1
  <2>3. NoCycle \in CycleStates /\ NoCycle.pc = "idle"
    BY DEF NoCycle, CycleStates
  <2>4. <<>> \in Seq(Profiles) /\ Len(<<>>) = 0 /\ Once(<<>>)
    BY DEF Once
  <2>5. PoolType /\ \A c \in Cycles : cycle[c].pc = "idle"
    BY <2>1, <2>2, <2>3, <2>4 DEF PoolType
  <2> QED
    BY <2>1, <2>4, <2>5
       DEF PoolInv, AppliesToAProfile, CutLater, OneCycle, NotYetIn
<1> QED
  BY <1>1, PoolStep, HealthInductive, PTL DEF Spec

(***************************************************************************)
(* For any group, any number of cycles and checks and any size of the      *)
(* pool: once no cycle is under way, the pool keeps to its size, and no    *)
(* profile is in it twice, unless two cycles have run at once              *)
(* (updateWorkingPool, pruneWorkingPool).                                  *)
(***************************************************************************)
THEOREM PoolIsSound == Spec => []PoolSound
<1>1. PoolInv => PoolSound
  <2> SUFFICES ASSUME PoolInv, Busy = {}
               PROVE  /\ Len(pool) <= PoolSize
                      /\ overlap \/ Cardinality(Elems(pool)) = Len(pool)
    BY DEF PoolSound
  <2>1. \A c \in Cycles : cycle[c].pc = "idle"
    BY DEF Busy
  <2>2. ~(Len(pool) > PoolSize) /\ pool \in Seq(Profiles) /\ Len(pool) \in Nat
    BY <2>1 DEF PoolInv, PoolType, CutLater
  <2>3. ~overlap => Cardinality(Elems(pool)) = Len(pool)
    BY <2>2, OnceCounts DEF PoolInv
  <2> QED
    BY <2>2, <2>3
<1> QED
  BY <1>1, PoolInductive, PTL

-----------------------------------------------------------------------------
(***************************************************************************)
(* The failover.  Until a cycle puts it back, the profile that failed is   *)
(* not in the pool its successor is taken from.                            *)
(***************************************************************************)
FailedIsOut == \A k \in Checks :
  check[k].pc = "failover" => check[k].contested \/ check[k].id \notin Elems(pool)

FailoverInv == FailedIsOut /\ FailoverElsewhere

\* A step that puts nothing into the pool and begins no failover.
LEMMA FailedStaysOut ==
  ASSUME FailedIsOut, Elems(pool') \subseteq Elems(pool),
         \A k \in Checks : check'[k].pc = "failover" => check'[k] = check[k]
  PROVE  FailedIsOut'
  BY DEF FailedIsOut

\* A post that is for another profile, or contested.
LEMMA ElsewhereKept ==
  ASSUME PostInv, FailoverElsewhere, NEW id, NEW from, NEW contested \in BOOLEAN,
         Post(id, from, contested), id # from \/ contested
  PROVE  FailoverElsewhere'
<1> DEFINE e == [id |-> id, from |-> from, stale |-> FALSE, contested |-> contested]
<1>1. PICK S : posted \in Seq(PostStates(S))
  BY DEF PostInv, PostType
<1>2. e.id = id /\ e.from = from /\ e.contested = contested /\ posted' = Append(posted, e)
  BY DEF Post
<1> HIDE DEF e
<1>3. /\ Len(posted) \in Nat /\ DOMAIN posted = 1 .. Len(posted)
      /\ DOMAIN posted' = 1 .. Len(posted) + 1
      /\ posted'[Len(posted) + 1] = e
      /\ \A i \in 1 .. Len(posted) : posted'[i] = posted[i]
  BY <1>1, <1>2
<1>4. ASSUME NEW i \in DOMAIN posted'
      PROVE  posted'[i].id # posted'[i].from \/ posted'[i].contested
  <2>1. i \in DOMAIN posted \/ i = Len(posted) + 1
    BY <1>3
  <2>2. CASE i \in DOMAIN posted
    BY <1>3, <2>2 DEF FailoverElsewhere
  <2>3. CASE i = Len(posted) + 1
    BY <1>2, <1>3, <2>3
  <2> QED
    BY <2>1, <2>2, <2>3
<1> QED
  BY <1>4 DEF FailoverElsewhere

\* Marking posts as stale changes neither who starts nor whom it takes over from.
LEMMA ElsewhereStale ==
  ASSUME NEW S, NEW s \in Seq(PostStates(S)), posted' = Stale(s),
         \A i \in DOMAIN s : s[i].id # s[i].from \/ s[i].contested
  PROVE  FailoverElsewhere'
<1>1. DOMAIN posted' = DOMAIN s /\ \A i \in DOMAIN s : posted'[i] = [s[i] EXCEPT !.stale = TRUE]
  BY DEF Stale
<1>2. ASSUME NEW i \in DOMAIN s
      PROVE  posted'[i].id # posted'[i].from \/ posted'[i].contested
  <2>1. s[i] \in PostStates(S)
    OBVIOUS
  <2> DEFINE r == s[i]
             t == posted'[i]
  <2>2. t = [r EXCEPT !.stale = TRUE] /\ (r.id # r.from \/ r.contested)
    BY <1>1
  <2> HIDE DEF r, t
  <2>3. t.id = r.id /\ t.from = r.from /\ t.contested = r.contested
    BY <2>1, <2>2 DEF PostStates, r
  <2> QED
    BY <2>2, <2>3 DEF t
<1> QED
  BY <1>1, <1>2 DEF FailoverElsewhere

\* The successor that is chosen is one of the pool.
LEMMA SuccessorInPool ==
  ASSUME PoolInv, Pruned # <<>> PROVE Head(Pruned) \in Elems(pool) /\ Head(Pruned) \in Profiles
<1>1. Pruned \in Seq(Profiles) /\ Elems(Pruned) \subseteq Elems(pool)
  BY PrunedFacts DEF PoolInv, PoolType, Shrunk
<1>2. Len(Pruned) \in Nat /\ Len(Pruned) > 0 /\ Head(Pruned) = Pruned[1]
      /\ Head(Pruned) \in Profiles /\ 1 \in DOMAIN Pruned
  BY <1>1
<1>3. Head(Pruned) \in Elems(Pruned)
  BY <1>2 DEF Elems
<1> QED
  BY <1>1, <1>2, <1>3

\* The steps of a cycle.  One that puts a failed profile back marks its check.
LEMMA LFailCycle ==
  ASSUME HealthInv, PostInv, PoolInv, FailoverInv, NEW c \in Cycles, CycleStep(c)
  PROVE  FailoverInv'
<1>1. pool \in Seq(Profiles) /\ FailedIsOut /\ FailoverElsewhere
  BY DEF PoolInv, PoolType, FailoverInv
<1>2. CASE UpdatePool(c)
  <2> DEFINE p == cycle[c].id
  <2>1. /\ cycle[c].pc = "pool" /\ pool' = PoolAfter(cycle[c].op, p) /\ UNCHANGED posted
        /\ check' = [k \in Checks |->
             IF cycle[c].op # "remove" /\ check[k].pc = "failover" /\ check[k].id = p
             THEN [check[k] EXCEPT !.contested = TRUE] ELSE check[k]]
    BY <1>2 DEF UpdatePool
  <2>2. /\ Elems(pool') \subseteq Elems(pool) \cup {p}
        /\ cycle[c].op = "remove" => Elems(pool') = Elems(pool) \ {p}
    BY <2>1, PoolAfterFacts
  <2>3. ASSUME NEW k \in Checks, check'[k].pc = "failover"
        PROVE  check'[k].contested \/ check'[k].id \notin Elems(pool')
    <3>1. check[k] \in CheckStates
      BY DEF HealthInv, CheckType
    <3>2. CASE cycle[c].op # "remove" /\ check[k].pc = "failover" /\ check[k].id = p
      BY <2>1, <3>1, <3>2 DEF CheckStates
    <3>3. CASE ~(cycle[c].op # "remove" /\ check[k].pc = "failover" /\ check[k].id = p)
      <4>1. check'[k] = check[k]
        BY <2>1, <3>3
      <4>2. check[k].contested \/ check[k].id \notin Elems(pool)
        BY <1>1, <2>3, <4>1 DEF FailedIsOut
      <4> HIDE DEF p
      <4>3. check[k].id \in Elems(pool') => check[k].id \in Elems(pool)
        BY <2>2, <2>3, <3>3, <4>1
      <4> QED
        BY <4>1, <4>2, <4>3
    <3> QED
      BY <3>2, <3>3
  <2> QED
    BY <1>1, <2>1, <2>3 DEF FailoverInv, FailedIsOut, FailoverElsewhere
<1>3. CASE ~UpdatePool(c)
  <2>1. UNCHANGED check /\ (pool' = pool \/ pool' = Pruned)
    BY <1>3 DEF CycleStep, TestFails, TestAnswers, Result, EndCycle, AutoStart
  <2>2. FailedIsOut'
    <3>1. Elems(pool') \subseteq Elems(pool)
      BY <1>1, <2>1, PrunedFacts DEF Shrunk
    <3> QED
      BY <1>1, <2>1, <3>1, FailedStaysOut
  <2>3. CASE UNCHANGED posted
    BY <1>1, <2>2, <2>3 DEF FailoverInv, FailoverElsewhere
  <2>4. CASE ~UNCHANGED posted
    <3>1. Pruned # <<>> /\ Post(Head(Pruned), NoId, FALSE)
      BY <1>3, <2>4 DEF CycleStep, TestFails, TestAnswers, Result, EndCycle, AutoStart
    <3>2. Head(Pruned) # NoId
      BY <3>1, SuccessorInPool
    <3> QED
      BY <1>1, <2>2, <3>1, <3>2, ElsewhereKept DEF FailoverInv
  <2> QED
    BY <2>3, <2>4
<1> QED
  BY <1>2, <1>3

\* The steps of a health check: HandleProxyFailure takes the profile out of the pool
\* before it looks for another one.
LEMMA LFailCheck ==
  ASSUME HealthInv, PostInv, PoolInv, FailoverInv, NEW k \in Checks, CheckStep(k)
  PROVE  FailoverInv'
<1>1. /\ pool \in Seq(Profiles) /\ FailedIsOut /\ FailoverElsewhere
      /\ check \in [Checks -> CheckStates]
  BY DEF PoolInv, PoolType, FailoverInv, HealthInv, CheckType
<1>2. CASE Healthy(k) \/ Unhealthy(k)
  <2>1. UNCHANGED <<pool, posted>>
    BY <1>2 DEF Healthy, Unhealthy
  <2>2. \A j \in Checks : check'[j].pc = "failover" => check'[j] = check[j]
    BY <1>1, <1>2 DEF Healthy, Unhealthy, CheckStates, NoCheck
  <2> QED
    BY <1>1, <2>1, <2>2, FailedStaysOut DEF FailoverInv, FailoverElsewhere
<1>3. CASE Handle(k)
  <2> DEFINE p == check[k].id
  <2>1. /\ p \in Profiles /\ pool' = Without(pool, p) /\ UNCHANGED posted
        /\ check' = [check EXCEPT ![k].pc = "failover"]
    BY <1>3 DEF Handle, HealthInv, CheckHasProfile
  <2>2. Elems(pool') = Elems(pool) \ {p}
    BY <1>1, <2>1, WithoutFacts
  <2>3. /\ check'[k].id = p
        /\ \A j \in Checks \ {k} : check'[j] = check[j]
    BY <1>1, <2>1 DEF CheckStates
  <2>4. FailedIsOut'
    BY <1>1, <2>2, <2>3 DEF FailedIsOut
  <2> QED
    BY <1>1, <2>1, <2>4 DEF FailoverInv, FailoverElsewhere
<1>4. CASE Failover(k)
  <2>1. /\ check[k].pc = "failover" /\ check' = [check EXCEPT ![k] = NoCheck]
        /\ pool' = pool \/ pool' = Pruned
    BY <1>4 DEF Failover
  <2>2. FailedIsOut'
    <3>1. Elems(pool') \subseteq Elems(pool)
      BY <1>1, <2>1, PrunedFacts DEF Shrunk
    <3>2. \A j \in Checks : check'[j].pc = "failover" => check'[j] = check[j]
      BY <1>1, <2>1 DEF NoCheck
    <3> QED
      BY <1>1, <3>1, <3>2, FailedStaysOut
  <2>3. CASE UNCHANGED posted
    BY <1>1, <2>2, <2>3 DEF FailoverInv, FailoverElsewhere
  <2>4. CASE ~UNCHANGED posted
    <3>1. Pruned # <<>> /\ Post(Head(Pruned), check[k].id, check[k].contested)
      BY <1>4, <2>4 DEF Failover
    <3>2. check[k].contested \in BOOLEAN /\ (Head(Pruned) # check[k].id \/ check[k].contested)
      BY <1>1, <2>1, <3>1, SuccessorInPool DEF FailedIsOut, CheckStates
    <3> QED
      BY <1>1, <2>2, <3>1, <3>2, ElsewhereKept DEF FailoverInv
  <2> QED
    BY <2>3, <2>4
<1> QED
  BY <1>2, <1>3, <1>4 DEF CheckStep

\* The other steps.
LEMMA LFailOthers ==
  ASSUME HealthInv, PostInv, PoolInv, FailoverInv,
         \/ TestTimer \/ HealthTimer \/ CoreCameUp \/ UNCHANGED vars
         \/ \E p \in Profiles \cup {NoId} : UserSwitch(p)
         \/ \E p \in Profiles : RunPosted(p) \/ Delete(p)
         \/ \E on \in BOOLEAN : SettingsChanged(on)
  PROVE  FailoverInv'
<1>1. PICK S : posted \in Seq(PostStates(S))
  BY DEF PostInv, PostType
<1>2. FailedIsOut /\ FailoverElsewhere
  BY DEF FailoverInv
<1>3. FailedIsOut'
  <2>1. Elems(pool') \subseteq Elems(pool)
    <3>1. Elems(<<>>) = {}
      BY DEF Elems
    <3> QED
      BY <3>1 DEF TestTimer, HealthTimer, CoreCameUp, UserSwitch, RunPosted, Delete,
                  SettingsChanged, vars
  <2>2. \A k \in Checks : check'[k].pc = "failover" => check'[k] = check[k]
    <3>1. CASE UNCHANGED check
      BY <3>1
    <3>2. CASE HealthTimer
      BY <3>2 DEF HealthTimer, NoCheck, HealthInv, CheckType
    <3> QED
      BY <3>1, <3>2 DEF TestTimer, CoreCameUp, UserSwitch, RunPosted, Delete,
                        SettingsChanged, vars
  <2> QED
    BY <1>2, <2>1, <2>2, FailedStaysOut
<1>4. FailoverElsewhere'
  <2>1. CASE UNCHANGED posted
    BY <1>2, <2>1 DEF FailoverElsewhere
  <2>2. CASE posted' = Stale(posted)
    BY <1>1, <1>2, <2>2, ElsewhereStale DEF FailoverElsewhere
  <2>3. CASE posted # <<>> /\ posted' = Stale(Tail(posted))
    <3> DEFINE t == Tail(posted)
    <3>1. /\ t \in Seq(PostStates(S)) /\ DOMAIN posted = 1 .. Len(posted)
          /\ \A i \in DOMAIN t : i + 1 \in DOMAIN posted /\ t[i] = posted[i + 1]
      BY <1>1, <2>3
    <3>2. \A i \in DOMAIN t : t[i].id # t[i].from \/ t[i].contested
      BY <1>2, <3>1 DEF FailoverElsewhere
    <3> HIDE DEF t
    <3> QED
      BY <2>3, <3>1, <3>2, ElsewhereStale DEF t
  <2> QED
    BY <2>1, <2>2, <2>3 DEF TestTimer, HealthTimer, CoreCameUp, UserSwitch, RunPosted, Delete,
                            SettingsChanged, vars
<1> QED
  BY <1>3, <1>4 DEF FailoverInv

LEMMA FailoverStep ==
  ASSUME HealthInv, PostInv, PoolInv, FailoverInv, [Next]_vars PROVE FailoverInv'
<1>1. CASE \E c \in Cycles : CycleStep(c)
  BY <1>1, LFailCycle
<1>2. CASE \E k \in Checks : CheckStep(k)
  BY <1>2, LFailCheck
<1>3. CASE \/ TestTimer \/ HealthTimer \/ CoreCameUp \/ UNCHANGED vars
           \/ \E p \in Profiles \cup {NoId} : UserSwitch(p)
           \/ \E p \in Profiles : RunPosted(p) \/ Delete(p)
           \/ \E on \in BOOLEAN : SettingsChanged(on)
  BY <1>3, LFailOthers
<1> QED
  BY <1>1, <1>2, <1>3 DEF Next

(***************************************************************************)
(* For any group, any number of cycles, of checks and of posts: a failover *)
(* never switches to the profile that has just failed, unless a test cycle *)
(* put it back between its removal and the choice (HandleProxyFailure).    *)
(***************************************************************************)
THEOREM SwitchesElsewhere == Spec => []FailoverElsewhere
<1>1. Init => FailoverInv
  BY DEF Init, FailoverInv, FailedIsOut, FailoverElsewhere, NoCheck
<1>2. FailoverInv => FailoverElsewhere
  BY DEF FailoverInv
<1> QED
  BY <1>1, <1>2, FailoverStep, PostInductive, PoolInductive, HealthInductive, PTL DEF Spec

-----------------------------------------------------------------------------
(***************************************************************************)
(* The rotation.  A turn began at some place s of the group; what was      *)
(* taken since leads from there to the offset, and whoever can be tested   *)
(* on that way was tested.                                                 *)
(***************************************************************************)
TurnFrom(s, group, o, t) ==
  /\ (s + t.way) % Len(group) = o % Len(group)
  /\ \A j \in 0 .. t.way - 1 : group[((s + j) % Len(group)) + 1] \in Chains \cup t.tested

TurnCovers(group, o, t) ==
  group # <<>> => \/ Elems(group) \subseteq Chains
                  \/ \E s \in 0 .. Len(group) - 1 : TurnFrom(s, group, o, t)

Turns == [way : Nat, tested : SUBSET Profiles]

RotationInv ==
  /\ turn \in Turns
  /\ turn.way > 0 => PerCycle > 0
  /\ TurnCovers(list, offset, turn)

\* A turn that has just begun.
LEMMA TurnBegins ==
  ASSUME NEW T, NEW group \in Seq(T), NEW o \in Nat, NEW t, t.way = 0
  PROVE  TurnCovers(group, o, t)
<1>1. ASSUME group # <<>> PROVE \E s \in 0 .. Len(group) - 1 : TurnFrom(s, group, o, t)
  <2> DEFINE L == Len(group)
             s == o % L
  <2>1. L \in Nat /\ L > 0
    BY <1>1
  <2> HIDE DEF L
  <2>2. s \in 0 .. L - 1 /\ s % L = s /\ s + 0 = s
    BY <2>1, Divided
  <2>3. TurnFrom(s, group, o, t)
    BY <2>2 DEF TurnFrom, L
  <2> QED
    BY <2>2, <2>3 DEF L
<1> QED
  BY <1>1 DEF TurnCovers

\* A turn that begins with a cycle that takes some: its own way is what they are.
LEMMA TurnBeginsAt ==
  ASSUME NEW T, list \in Seq(T), list # <<>>, NEW o \in Nat
  PROVE  LET t == [way |-> Cardinality(Picks(o)), tested |-> {At(o, k) : k \in Picks(o)}]
         IN TurnFrom(o % Len(list), list, Advance(o), t) /\ o % Len(list) \in 0 .. Len(list) - 1
<1> DEFINE L == Len(list)
           c == Cardinality(Picks(o))
           S == {At(o, k) : k \in Picks(o)}
           t == [way |-> c, tested |-> S]
           s == o % L
<1>1. L \in Nat /\ L > 0 /\ c \in Nat
  <2>1. c \in Nat
    BY PicksFacts, Zenon
  <2> QED
    BY <2>1
<1>2. s \in 0 .. L - 1
  BY <1>1, Divided
<1>3. Advance(o) = (s + c) % L
  BY DEF Advance
<1>4. ASSUME NEW j \in 0 .. c - 1 PROVE list[((s + j) % L) + 1] \in Chains \cup S
  <2>1. j \in Nat /\ (At(o, j) \in Chains \/ j \in Picks(o))
    BY <1>1, NoneSkipped
  <2> HIDE DEF c, L
  <2>2. (s + j) % L = (o + j) % L
    BY <1>1, <2>1, ReduceFirst, Zenon
  <2>3. list[((s + j) % L) + 1] = At(o, j)
    BY <2>2 DEF At, L
  <2> QED
    BY <2>1, <2>3
<1> HIDE DEF s, c, L, S
<1>5. (s + c) % L = ((s + c) % L) % L
  <2> DEFINE r == (s + c) % L
  <2>1. r \in 0 .. L - 1
    BY <1>1, <1>2, Divided
  <2> HIDE DEF r
  <2>2. r % L = r
    BY <1>1, <2>1
  <2> QED
    BY <2>2 DEF r
<1>6. TurnFrom(s, list, Advance(o), t)
  BY <1>3, <1>4, <1>5 DEF TurnFrom, L
<1> QED
  BY <1>2, <1>6 DEF s, c, L, S

\* A turn that goes on: the way is longer by those that were taken.
LEMMA TurnGoesOn ==
  ASSUME NEW T, list \in Seq(T), list # <<>>, offset \in Nat,
         NEW w \in Nat, NEW tested, NEW s \in 0 .. Len(list) - 1,
         TurnFrom(s, list, offset, [way |-> w, tested |-> tested])
  PROVE  TurnFrom(s, list, Advance(offset),
                  [way |-> w + Cardinality(Picks(offset)),
                   tested |-> tested \cup {At(offset, k) : k \in Picks(offset)}])
<1> DEFINE L == Len(list)
           c == Cardinality(Picks(offset))
           S == {At(offset, k) : k \in Picks(offset)}
<1>1. L \in Nat /\ L > 0 /\ c \in Nat /\ s \in Nat
  <2>1. c \in Nat
    BY PicksFacts, Zenon
  <2> QED
    BY <2>1
<1>2. /\ (s + w) % L = offset % L
      /\ \A j \in 0 .. w - 1 : list[((s + j) % L) + 1] \in Chains \cup tested
  BY DEF TurnFrom
<1> HIDE DEF c, L, S
<1>3. ASSUME NEW k \in Nat PROVE (s + (w + k)) % L = (offset + k) % L
  <2> DEFINE x == s + w
  <2>1. x \in Nat /\ s + (w + k) = x + k
    BY <1>1
  <2>2. x % L = offset % L
    BY <1>2, Zenon
  <2>3. L \in Nat /\ L > 0
    BY <1>1
  <2> HIDE DEF x
  <2>4. ((x % L) + k) % L = (x + k) % L
    BY <2>1, <2>3, ReduceFirst, Zenon
  <2>5. ((offset % L) + k) % L = (offset + k) % L
    BY <2>3, ReduceFirst, Zenon
  <2> QED
    BY <2>1, <2>2, <2>4, <2>5, Zenon
<1>4. Advance(offset) = ((offset % L) + c) % L
  BY DEF Advance, L, c
<1>5. ASSUME NEW k \in 0 .. c - 1
      PROVE  list[((s + (w + k)) % L) + 1] \in Chains \cup S
  <2>1. k \in Nat /\ (At(offset, k) \in Chains \/ k \in Picks(offset))
    BY <1>1, NoneSkipped DEF c
  <2>2. (s + (w + k)) % L = (offset + k) % L
    BY <1>3, <2>1
  <2>3. list[((s + (w + k)) % L) + 1] = At(offset, k)
    BY <2>2 DEF At, L
  <2> QED
    BY <2>1, <2>3 DEF S
<1>6. ASSUME NEW j \in 0 .. (w + c) - 1
      PROVE  list[((s + j) % L) + 1] \in Chains \cup (tested \cup S)
  <2>1. CASE j < w
    <3>1. j \in 0 .. w - 1
      BY <1>1, <2>1
    <3> QED
      BY <1>2, <3>1
  <2>2. CASE j >= w
    <3> DEFINE k == j - w
    <3>1. k \in 0 .. c - 1 /\ w + k = j
      <4>1. c \in Nat
        BY <1>1
      <4> QED
        BY <2>2, <4>1, Shifted, Zenon
    <3> HIDE DEF k
    <3>2. list[((s + (w + k)) % L) + 1] \in Chains \cup S
      BY <1>5, <3>1
    <3> QED
      BY <3>1, <3>2
  <2> QED
    BY <1>1, <2>1, <2>2
<1>7. (s + (w + c)) % L = Advance(offset) % L
  <2>1. (s + (w + c)) % L = (offset + c) % L
    BY <1>1, <1>3
  <2>2. ((offset % L) + c) % L = (offset + c) % L
    BY <1>1, ReduceFirst, Zenon
  <2> DEFINE r == (offset + c) % L
  <2>3. r \in 0 .. L - 1
    BY <1>1, Divided
  <2>4. Advance(offset) = r /\ (s + (w + c)) % L = r
    BY <1>4, <2>1, <2>2
  <2> HIDE DEF r
  <2>5. r % L = r
    BY <1>1, <2>3
  <2> QED
    BY <2>4, <2>5
<1> QED
  BY <1>6, <1>7 DEF TurnFrom, L, c, S

LEMMA TurnsAre ==
  /\ NoTurn \in Turns /\ NoTurn.way = 0
  /\ \A t \in Turns : t.way \in Nat /\ t.tested \in SUBSET Profiles
                      /\ t = [way |-> t.way, tested |-> t.tested]
  BY DEF Turns, NoTurn

\* Beginning a cycle.
LEMMA LTurnBegin ==
  ASSUME PoolInv, RotationInv, NEW o \in Nat, BeginAt(o), UNCHANGED list
  PROVE  RotationInv'
<1> DEFINE taken == {At(o, k) : k \in Picks(o)}
           c == Cardinality(Picks(o))
<1>1. /\ list \in Seq(Profiles) /\ offset \in Nat /\ PerCycle \in Nat
      /\ turn \in Turns /\ (turn.way > 0 => PerCycle > 0) /\ TurnCovers(list, offset, turn)
  BY DEF PoolInv, PoolType, RotationInv
<1>2. CASE list = <<>> \/ Picks(o) = {}
  <2>1. UNCHANGED <<turn, list>> /\ offset' = o
    BY <1>2 DEF BeginAt
  <2>2. TurnCovers(list, o, turn)
    <3>1. CASE list = <<>>
      BY <3>1 DEF TurnCovers
    <3>2. CASE list # <<>> /\ PerCycle > 0
      <4>1. Known \subseteq Chains
        BY <1>1, <1>2, <3>2, SomeTaken
      <4> QED
        BY <4>1 DEF TurnCovers, Known
    <3>3. CASE PerCycle = 0
      <4>1. turn.way = 0
        BY <1>1, <3>3, TurnsAre
      <4> QED
        BY <1>1, <4>1, TurnBegins
    <3> QED
      BY <1>1, <3>1, <3>2, <3>3
  <2> QED
    BY <1>1, <2>1, <2>2 DEF RotationInv
<1>3. CASE ~(list = <<>> \/ Picks(o) = {})
  <2>1. /\ list' = list /\ list # <<>> /\ Picks(o) # {}
        /\ offset' = Advance(o) /\ turn' = NextTurn(o)
    BY <1>3, Zenon DEF BeginAt
  <2>2. c \in Nat /\ \A k \in Nat : At(o, k) \in Profiles
    BY <1>1, <2>1, PicksFacts
  <2>3. PerCycle > 0 /\ taken \in SUBSET Profiles
    <3>1. Picks(o) \subseteq Nat
      BY <1>1 DEF Picks
    <3>2. PICK k \in Picks(o) : Cardinality(Before(o, k)) < PerCycle
      BY <2>1 DEF Picks, Before
    <3>3. Cardinality(Before(o, k)) \in Nat
      BY <3>1, BeforeFinite
    <3>4. taken \in SUBSET Profiles
      BY <2>2, <3>1
    <3> QED
      BY <1>1, <3>2, <3>3, <3>4
  <2>4. CASE turn.way >= Len(list) \/ o # offset
    <3> DEFINE t == [way |-> c, tested |-> taken]
    <3>1. turn' = t
      BY <2>1, <2>4 DEF NextTurn
    <3>2. \E s \in 0 .. Len(list) - 1 : TurnFrom(s, list, Advance(o), t)
      BY <1>1, <2>1, TurnBeginsAt
    <3>3. t \in Turns
      BY <2>2, <2>3 DEF Turns
    <3> HIDE DEF t
    <3> QED
      BY <2>1, <2>3, <3>1, <3>2, <3>3 DEF RotationInv, TurnCovers
  <2>5. CASE ~(turn.way >= Len(list) \/ o # offset)
    <3> DEFINE t == [way |-> turn.way + c, tested |-> turn.tested \cup taken]
    <3>1. turn' = t /\ o = offset
      BY <2>1, <2>5 DEF NextTurn
    <3>2. t \in Turns
      <4>1. turn.way \in Nat /\ turn.tested \in SUBSET Profiles
        BY <1>1, TurnsAre
      <4> DEFINE w == turn.way + c
                 all == turn.tested \cup taken
      <4>2. w \in Nat /\ all \in SUBSET Profiles
        BY <2>2, <2>3, <4>1
      <4> HIDE DEF w, all
      <4>3. [way |-> w, tested |-> all] \in Turns
        BY <4>2 DEF Turns
      <4> QED
        BY <4>3 DEF w, all
    <3>3. TurnCovers(list, Advance(o), t)
      <4>1. CASE Elems(list) \subseteq Chains
        BY <4>1 DEF TurnCovers
      <4>2. ASSUME NEW s \in 0 .. Len(list) - 1, TurnFrom(s, list, offset, turn)
            PROVE  TurnFrom(s, list, Advance(o), t)
        <5> DEFINE w == turn.way
                   tested == turn.tested
        <5>1. w \in Nat /\ turn = [way |-> w, tested |-> tested]
          BY <1>1, TurnsAre
        <5> HIDE DEF w, tested
        <5>2. TurnFrom(s, list, offset, [way |-> w, tested |-> tested])
          BY <4>2, <5>1
        <5> QED
          BY <1>1, <2>1, <3>1, <5>1, <5>2, TurnGoesOn DEF w, tested
      <4> QED
        BY <1>1, <2>1, <4>1, <4>2 DEF TurnCovers
    <3> HIDE DEF t
    <3> QED
      BY <2>1, <2>3, <3>1, <3>2, <3>3 DEF RotationInv
  <2> QED
    BY <2>4, <2>5
<1> QED
  BY <1>2, <1>3

\* The turn begins anew: a profile is deleted, or the core is down.
LEMMA LTurnAnew ==
  ASSUME turn' = NoTurn, list' \in Seq(Profiles), offset' \in Nat PROVE RotationInv'
<1>1. TurnCovers(list', offset', turn')
  BY TurnBegins, TurnsAre
<1> QED
  BY <1>1, TurnsAre DEF RotationInv

LEMMA RotationStep == ASSUME PoolInv, PoolInv', RotationInv, [Next]_vars PROVE RotationInv'
<1>1. /\ list \in Seq(Profiles) /\ offset \in Nat
      /\ list' \in Seq(Profiles) /\ offset' \in Nat
  BY DEF PoolInv, PoolType
<1>2. CASE UNCHANGED <<list, offset, turn>>
  BY <1>2 DEF RotationInv
<1>3. CASE TestTimer \/ CoreCameUp
  <2>1. BeginAt(offset) /\ UNCHANGED list
    BY <1>3 DEF TestTimer, CoreCameUp
  <2> QED
    BY <1>1, <2>1, LTurnBegin
<1>4. ASSUME NEW p \in Profiles, Delete(p) PROVE RotationInv'
  BY <1>1, <1>4, LTurnAnew DEF Delete
<1>5. ASSUME NEW on \in BOOLEAN, SettingsChanged(on) PROVE RotationInv'
  <2>1. UNCHANGED list /\ (BeginAt(0) \/ NoCore \/ UNCHANGED <<offset, turn>>)
    BY <1>5 DEF SettingsChanged
  <2>2. CASE BeginAt(0)
    BY <2>1, <2>2, LTurnBegin
  <2>3. CASE NoCore
    BY <1>1, <2>3, LTurnAnew DEF NoCore
  <2> QED
    BY <1>2, <2>1, <2>2, <2>3
<1>6. ASSUME NEW c \in Cycles, CycleStep(c) PROVE RotationInv'
  BY <1>2, <1>6
     DEF CycleStep, TestFails, TestAnswers, Result, UpdatePool, EndCycle, AutoStart, history
<1>7. ASSUME NEW k \in Checks, CheckStep(k) PROVE RotationInv'
  BY <1>2, <1>7 DEF CheckStep, Healthy, Unhealthy, Handle, Failover, history
<1>8. CASE \/ HealthTimer \/ UNCHANGED vars
           \/ \E p \in Profiles \cup {NoId} : UserSwitch(p)
           \/ \E p \in Profiles : RunPosted(p)
  BY <1>2, <1>8 DEF HealthTimer, UserSwitch, RunPosted, history, vars
<1> QED
  BY <1>3, <1>4, <1>5, <1>6, <1>7, <1>8 DEF Next

(***************************************************************************)
(* For any group, any offset and any number of profiles per cycle: every   *)
(* profile that can be tested has had its turn by the time the offset has  *)
(* gone round, although it advances by the profiles taken and not by those *)
(* looked at (getProxiesToTest).                                           *)
(***************************************************************************)
THEOREM EveryoneHasATurn == Spec => []RotationCovers
<1>1. Init => RotationInv
  <2> SUFFICES ASSUME Init PROVE RotationInv
    OBVIOUS
  <2>1. turn = NoTurn /\ offset = 0 /\ list = [i \in Profiles |-> i]
    BY DEF Init
  <2>2. list \in Seq(Profiles)
    BY <2>1
  <2>3. TurnCovers(list, offset, turn)
    BY <2>1, <2>2, TurnBegins, TurnsAre
  <2> QED
    BY <2>1, <2>3, TurnsAre DEF RotationInv
<1>2. PoolInv /\ RotationInv => RotationCovers
  <2> SUFFICES ASSUME PoolInv, RotationInv, list # <<>>, turn.way >= Len(list),
                      NEW i \in DOMAIN list, list[i] \notin Chains
               PROVE  list[i] \in turn.tested
    BY DEF RotationCovers, Known, Elems
  <2> DEFINE L == Len(list)
  <2>1. L \in Nat /\ L > 0 /\ DOMAIN list = 1 .. L /\ turn.way \in Nat
    <3>1. list \in Seq(Profiles) /\ turn.way \in Nat
      BY TurnsAre DEF PoolInv, PoolType, RotationInv
    <3> QED
      BY <3>1
  <2>2. PICK s \in 0 .. L - 1 : TurnFrom(s, list, offset, turn)
    BY DEF RotationInv, TurnCovers, Elems
  <2> HIDE DEF L
  <2>3. i - 1 \in 0 .. L - 1 /\ (i - 1) + 1 = i
    BY <2>1
  <2>4. PICK j \in 0 .. L - 1 : (s + j) % L = i - 1
    BY <2>1, <2>3, Reached
  <2>5. j \in 0 .. turn.way - 1
    BY <2>1 DEF L
  <2>6. list[((s + j) % L) + 1] \in Chains \cup turn.tested
    BY <2>2, <2>5 DEF TurnFrom, L
  <2> QED
    BY <2>3, <2>4, <2>6
<1> QED
  BY <1>1, <1>2, RotationStep, PoolInductive, PTL DEF Spec
=============================================================================
