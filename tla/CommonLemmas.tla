---------------------------- MODULE CommonLemmas ----------------------------
(***************************************************************************)
(* Lemmas that the proofs about several components need: induction over    *)
(* the naturals stated with sets, quotients, what an order of the members  *)
(* of a set is, what taking from the head of a Go channel and sending to   *)
(* its tail do to the set of its values, to their being distinct and to    *)
(* their order, and sums over finite sets.                                 *)
(***************************************************************************)
EXTENDS Integers, Sequences, FiniteSets, SequencesExt, SequenceTheorems,
        FiniteSetTheorems, WellFoundedInduction, TLAPS

(* A set of naturals has a least member.                                   *)
LEMMA HasLeast ==
  ASSUME NEW S \in SUBSET Nat, S # {}
  PROVE  \E n \in S : \A m \in S : n <= m
<1>1. PICK n \in S : \A m \in S : <<m, n>> \notin OpToRel(<, Nat)
  BY NatLessThanWellFounded, WFMin
<1>2. ASSUME NEW m \in S PROVE n <= m
  <2>1. ~(m < n) BY <1>1, <1>2 DEF OpToRel
  <2>2. QED BY <2>1
<1>3. QED BY <1>2

(* A finite set of naturals has a greatest member.                         *)
LEMMA HasGreatest ==
  ASSUME NEW S \in SUBSET Nat, IsFiniteSet(S), S # {}
  PROVE  \E n \in S : \A m \in S : m <= n
<1> DEFINE Above(n) == {m \in S : m > n}
           Counts == {Cardinality(Above(n)) : n \in S}
<1>1. ASSUME NEW n \in S PROVE IsFiniteSet(Above(n)) /\ Cardinality(Above(n)) \in Nat
  BY FS_Subset, FS_CardinalityType
<1>2. Counts \in SUBSET Nat /\ Counts # {}
  BY <1>1
<1>3. PICK k \in Counts : \A l \in Counts : k <= l
  <2> HIDE DEF Counts
  <2> QED BY <1>2, HasLeast
<1>4. PICK n \in S : k = Cardinality(Above(n))
  BY <1>3
<1>5. ASSUME NEW m \in S, ~(m <= n) PROVE FALSE
  <2>1. m > n BY <1>5
  <2>2. Above(m) \subseteq Above(n) /\ m \in Above(n) /\ m \notin Above(m)
    <3>1. ASSUME NEW x \in Above(m) PROVE x \in Above(n)
      <4>1. x \in Nat /\ m \in Nat /\ n \in Nat /\ x > m BY <3>1
      <4>2. x > n BY <2>1, <4>1
      <4>3. QED BY <3>1, <4>2
    <3>2. ~(m > m) BY <1>5
    <3>3. QED BY <2>1, <3>1, <3>2
  <2>3. Cardinality(Above(m)) <= Cardinality(Above(n)) /\ Cardinality(Above(n)) # Cardinality(Above(m))
    <3> HIDE DEF Above
    <3> QED BY <1>1, <2>2, FS_Subset
  <2>4. k <= Cardinality(Above(m))
    BY <1>3
  <2>5. QED BY <1>1, <1>4, <2>3, <2>4
<1>6. QED BY <1>5

(* A set that has 0, and has k + 1 when it has k, has the numbers up to n. *)
LEMMA InductionUpTo ==
  ASSUME NEW n \in Nat, NEW S, 0 \in S,
         \A k \in 0..(n - 1) : k \in S => k + 1 \in S
  PROVE  0..n \subseteq S
<1> DEFINE Missing == {k \in 0..n : k \notin S}
<1>1. ASSUME Missing # {} PROVE FALSE
  <2>1. PICK m \in Missing : \A k \in Missing : m <= k
    <3>1. Missing \in SUBSET Nat
      OBVIOUS
    <3> HIDE DEF Missing
    <3> QED BY <1>1, <3>1, HasLeast
  <2>2. m # 0 /\ m - 1 \in 0..(n - 1) /\ (m - 1) + 1 = m
    OBVIOUS
  <2>3. m - 1 \in S
    BY <2>1, <2>2
  <2> QED BY <2>2, <2>3
<1> QED BY <1>1

(* What a quotient is less than, and that it grows with what is divided.   *)
LEMMA QuotientBound ==
  ASSUME NEW a \in Nat, NEW b \in Nat \ {0}, NEW c \in Nat \ {0}, a < c * b
  PROVE  a \div b \in 0..(c - 1)
<1> DEFINE q == a \div b
<1>1. q \in Nat /\ a = b * q + (a % b) /\ a % b \in Nat
  OBVIOUS
<1>2. ASSUME q >= c PROVE FALSE
  <2>1. b * q >= b * c
    BY <1>1, <1>2
  <2> QED BY <1>1, <2>1
<1> QED BY <1>1, <1>2

LEMMA QuotientMonotone ==
  ASSUME NEW a \in Nat, NEW c \in Nat, NEW b \in Nat \ {0}, a <= c
  PROVE  a \div b \in Nat /\ c \div b \in Nat /\ a \div b <= c \div b
<1> DEFINE q == a \div b
           r == c \div b
<1>1. q \in Nat /\ a = b * q + (a % b) /\ a % b \in Nat
  OBVIOUS
<1>2. r \in Nat /\ c = b * r + (c % b) /\ c % b \in 0..(b - 1)
  OBVIOUS
<1>3. ASSUME q >= r + 1 PROVE FALSE
  <2>1. b * q >= b * (r + 1)
    BY <1>1, <1>2, <1>3
  <2> QED BY <1>1, <1>2, <2>1
<1> QED BY <1>1, <1>2, <1>3

(* An order of the members of a set has each of them.                      *)
LEMMA OrderHasAll ==
  ASSUME NEW S, IsFiniteSet(S), NEW order \in SetToSeqs(S)
  PROVE  /\ Cardinality(S) \in Nat
         /\ order \in [1..Cardinality(S) -> S]
         /\ Len(order) = Cardinality(S)
         /\ \A x \in S : \E i \in 1..Cardinality(S) : order[i] = x
         /\ \A i, j \in 1..Cardinality(S) : i # j => order[i] # order[j]
<1> DEFINE n == Cardinality(S)
<1>1. n \in Nat
  BY FS_CardinalityType
<1>2. order \in [1..n -> S] /\ \A i, j \in 1..n : i # j => order[i] # order[j]
  BY DEF SetToSeqs
<1>3. Cardinality(1..n) = n /\ IsFiniteSet(1..n)
  BY <1>1, FS_Interval
<1>4. order \in Injection(1..n, S)
  BY <1>2 DEF Injection, IsInjective
<1>5. order \in Surjection(1..n, S)
  BY <1>3, <1>4, FS_Injection
<1>6. \A x \in S : \E i \in 1..n : order[i] = x
  BY <1>5 DEF Surjection
<1>7. Len(order) = n
  BY <1>1, <1>2
<1> QED BY <1>1, <1>2, <1>6, <1>7

(* The values of a queue ascend.                                           *)
Ascends(q) == \A a, b \in DOMAIN q : a < b => q[a] < q[b]

(* An empty queue is a queue of anything, and holds nothing.               *)
LEMMA EmptyQueue ==
  ASSUME NEW S
  PROVE  /\ <<>> \in Seq(S)
         /\ Len(<<>>) = 0
         /\ ToSet(<<>>) = {}
         /\ IsInjective(<<>>)
         /\ Ascends(<<>>)
BY EmptySeq DEF ToSet, IsInjective, Ascends

(* Taking the head leaves the other values, in their order.                *)
LEMMA TakeHead ==
  ASSUME NEW S, NEW q \in Seq(S), q # <<>>
  PROVE  /\ Head(q) \in S
         /\ Tail(q) \in Seq(S)
         /\ Len(Tail(q)) = Len(q) - 1
         /\ ToSet(q) = {Head(q)} \cup ToSet(Tail(q))
         /\ IsInjective(q) => /\ IsInjective(Tail(q))
                              /\ Head(q) \notin ToSet(Tail(q))
         /\ Ascends(q)
              => /\ Ascends(Tail(q))
                 /\ \A x \in ToSet(Tail(q)) : Head(q) < x
<1> DEFINE n == Len(q)
           t == Tail(q)
<1>1. n \in Nat \ {0} /\ DOMAIN q = 1..n
  BY EmptySeq, LenProperties
<1>2. /\ Head(q) = q[1] /\ Head(q) \in S
      /\ t \in Seq(S) /\ Len(t) = n - 1 /\ DOMAIN t = 1..(n - 1)
      /\ \A i \in 1..(n - 1) : t[i] = q[i + 1]
  BY HeadTailProperties, LenProperties, ElementOfSeq, <1>1
<1>3. ToSet(q) = {Head(q)} \cup ToSet(t)
  <2>1. ASSUME NEW i \in 1..n PROVE q[i] \in {Head(q)} \cup ToSet(t)
    <3>1. CASE i = 1
      BY <1>2, <3>1
    <3>2. CASE i # 1
      <4>1. i - 1 \in 1..(n - 1) /\ (i - 1) + 1 = i
        BY <1>1, <3>2
      <4>2. q[i] = t[i - 1]
        BY <1>2, <4>1
      <4> QED
        BY <1>2, <4>1, <4>2 DEF ToSet
    <3> QED
      BY <3>1, <3>2
  <2>2. ASSUME NEW i \in 1..(n - 1) PROVE t[i] \in ToSet(q)
    <3>1. i + 1 \in 1..n
      BY <1>1
    <3> QED
      BY <1>1, <1>2, <3>1 DEF ToSet
  <2>3. Head(q) \in ToSet(q)
    BY <1>1, <1>2 DEF ToSet
  <2>4. ToSet(t) \subseteq ToSet(q)
    BY <1>2, <2>2 DEF ToSet
  <2>5. ToSet(q) \subseteq {Head(q)} \cup ToSet(t)
    BY <1>1, <2>1 DEF ToSet
  <2> QED
    BY <2>3, <2>4, <2>5
<1>4. ASSUME IsInjective(q) PROVE IsInjective(t) /\ Head(q) \notin ToSet(t)
  <2>1. \A i \in 1..(n - 1) : i + 1 \in 1..n /\ i + 1 # 1
    BY <1>1
  <2>2. IsInjective(t)
    BY <1>1, <1>2, <1>4 DEF IsInjective
  <2>3. Head(q) \notin ToSet(t)
    BY <1>1, <1>2, <1>4, <2>1 DEF IsInjective, ToSet
  <2> QED
    BY <2>2, <2>3
<1>5. ASSUME Ascends(q)
      PROVE  Ascends(t) /\ \A x \in ToSet(t) : Head(q) < x
  <2>1. ASSUME NEW a \in 1..(n - 1), NEW b \in 1..(n - 1), a < b
        PROVE  t[a] < t[b]
    <3>1. a + 1 \in 1..n /\ b + 1 \in 1..n /\ a + 1 < b + 1
      BY <1>1, <2>1
    <3> QED
      BY <1>1, <1>2, <1>5, <3>1 DEF Ascends
  <2>2. ASSUME NEW i \in 1..(n - 1) PROVE Head(q) < t[i]
    <3>1. 1 \in 1..n /\ i + 1 \in 1..n /\ 1 < i + 1
      BY <1>1
    <3> QED
      BY <1>1, <1>2, <1>5, <3>1 DEF Ascends
  <2> QED
    BY <1>2, <2>1, <2>2 DEF Ascends, ToSet
<1> QED
  BY <1>2, <1>3, <1>4, <1>5

(* Sending puts one value more at the end.                                 *)
LEMMA SendLast ==
  ASSUME NEW S, NEW q \in Seq(S), NEW x \in S
  PROVE  /\ Append(q, x) \in Seq(S)
         /\ Len(Append(q, x)) = Len(q) + 1
         /\ ToSet(Append(q, x)) = ToSet(q) \cup {x}
         /\ IsInjective(q) /\ x \notin ToSet(q) => IsInjective(Append(q, x))
         /\ Ascends(q) /\ (\A y \in ToSet(q) : y < x)
              => Ascends(Append(q, x))
<1> DEFINE n == Len(q)
           r == Append(q, x)
<1>1. n \in Nat /\ DOMAIN q = 1..n
  BY LenProperties
<1>2. /\ r \in Seq(S) /\ Len(r) = n + 1 /\ DOMAIN r = 1..(n + 1)
      /\ \A i \in 1..n : r[i] = q[i]
      /\ r[n + 1] = x
  BY AppendProperties, LenProperties, <1>1
<1>3. \A i \in 1..(n + 1) : i \in 1..n \/ i = n + 1
  BY <1>1
<1>4. 1..n \subseteq 1..(n + 1) /\ n + 1 \in 1..(n + 1)
  BY <1>1
<1> HIDE DEF n, r
<1>5. ToSet(r) = ToSet(q) \cup {x}
  BY <1>1, <1>2, <1>3, <1>4 DEF ToSet
<1>6. ASSUME IsInjective(q), x \notin ToSet(q) PROVE IsInjective(r)
  BY <1>1, <1>2, <1>3, <1>4, <1>6 DEF IsInjective, ToSet
<1>7. ASSUME Ascends(q), \A y \in ToSet(q) : y < x
      PROVE  Ascends(r)
  <2> SUFFICES ASSUME NEW a \in 1..(n + 1), NEW b \in 1..(n + 1), a < b
               PROVE  r[a] < r[b]
    BY <1>2 DEF Ascends
  <2>1. a \in 1..n
    BY <1>1
  <2>2. CASE b \in 1..n
    BY <1>1, <1>2, <1>7, <2>1, <2>2 DEF Ascends
  <2>3. CASE b = n + 1
    BY <1>1, <1>2, <1>7, <2>1, <2>3 DEF ToSet
  <2> QED
    BY <1>3, <2>2, <2>3
<1> QED
  BY <1>2, <1>5, <1>6, <1>7 DEF n, r

(* A queue holds at most as many values as it is long, and as many as that *)
(* when they are distinct.                                                 *)
LEMMA QueueCount ==
  ASSUME NEW S, NEW q \in Seq(S)
  PROVE  /\ IsFiniteSet(ToSet(q))
         /\ Cardinality(ToSet(q)) <= Len(q)
         /\ IsInjective(q) => Cardinality(ToSet(q)) = Len(q)
<1> DEFINE n == Len(q)
           T == ToSet(q)
<1>1. n \in Nat /\ DOMAIN q = 1..n /\ q \in [1..n -> S]
  BY LenProperties
<1>2. q \in [1..n -> T]
  BY <1>1 DEF ToSet
<1>3. q \in Surjection(1..n, T)
  BY <1>1, <1>2 DEF Surjection, ToSet
<1>4. IsFiniteSet(1..n) /\ Cardinality(1..n) = n
  BY <1>1, FS_Interval
<1>5. IsInjective(q) => q \in Injection(1..n, T)
  BY <1>2 DEF Injection
<1> HIDE DEF n, T
<1>6. /\ IsFiniteSet(T)
      /\ Cardinality(T) <= Cardinality(1..n)
      /\ Cardinality(T) = Cardinality(1..n) <=> q \in Injection(1..n, T)
  BY <1>3, <1>4, FS_Surjection
<1> QED
  BY <1>4, <1>5, <1>6 DEF n, T
-----------------------------------------------------------------------------
(* Sums over finite sets.  SumBy(c, S) is what MapThenSumSet adds up when  *)
(* it maps with the function c; SumsUp says which function it iterates.    *)
SumBy(c, S) == MapThenSumSet(LAMBDA x : c[x], S)

SumsUp(c, S, g) ==
  g = [s \in SUBSET S |-> IF s = {} THEN 0
                          ELSE c[CHOOSE x \in s : TRUE] + g[s \ {CHOOSE x \in s : TRUE}]]

(* A family of subsets of S that has {} and every set of which it has all  *)
(* that lack an element has them all.                                      *)
LEMMA SubsetInduction ==
  ASSUME NEW S, IsFiniteSet(S), NEW P, {} \in P,
         \A T \in SUBSET S : T # {} /\ (\A x \in T : T \ {x} \in P) => T \in P
  PROVE  SUBSET S \subseteq P
<1> DEFINE n == Cardinality(S)
           Good == {k \in 0..n : \A T \in SUBSET S : Cardinality(T) = k => T \in P}
<1>1. n \in Nat /\ \A T \in SUBSET S : IsFiniteSet(T) /\ Cardinality(T) \in 0..n
  <2>1. \A T \in SUBSET S : IsFiniteSet(T) /\ Cardinality(T) \in Nat /\ Cardinality(T) <= n
    BY FS_Subset, FS_CardinalityType
  <2> QED BY <2>1, FS_CardinalityType
<1>2. 0 \in Good
  <2>1. \A T \in SUBSET S : Cardinality(T) = 0 => T = {}
    BY <1>1, FS_EmptySet
  <2> QED BY <1>1, <2>1
<1>3. ASSUME NEW k \in 0..(n - 1), k \in Good PROVE k + 1 \in Good
  <2>1. ASSUME NEW T \in SUBSET S, Cardinality(T) = k + 1 PROVE T \in P
    <3>1. \A x \in T : T \ {x} \in SUBSET S /\ Cardinality(T \ {x}) = (k + 1) - 1
      BY <1>1, <2>1, FS_RemoveElement
    <3>2. (k + 1) - 1 = k /\ k + 1 # 0
      OBVIOUS
    <3>3. \A x \in T : T \ {x} \in P
      BY <1>3, <3>1, <3>2
    <3>4. T # {}
      BY <2>1, <3>2, FS_EmptySet
    <3> QED BY <3>3, <3>4
  <2>2. k + 1 \in 0..n
    BY <1>1
  <2> QED BY <2>1, <2>2
<1> HIDE DEF Good
<1>4. 0..n \subseteq Good
  BY <1>1, <1>2, <1>3, InductionUpTo
<1>5. ASSUME NEW T \in SUBSET S PROVE T \in P
  <2>1. Cardinality(T) \in Good
    BY <1>1, <1>4
  <2> QED BY <2>1 DEF Good
<1> QED BY <1>5

(* What is chosen from a set is in it.                                     *)
LEMMA ChosenElement ==
  ASSUME NEW s, s # {}
  PROVE  (CHOOSE x \in s : TRUE) \in s
OBVIOUS

(* There is such a function: it is found for sets of up to k elements, one *)
(* element more after another.                                             *)
LEMMA SumsUpExists ==
  ASSUME NEW c, NEW S, IsFiniteSet(S)
  PROVE  \E g : SumsUp(c, S, g)
<1> DEFINE n == Cardinality(S)
           ch(s) == CHOOSE x \in s : TRUE
           UpTo(k, g) == g = [s \in SUBSET S |-> IF Cardinality(s) > k \/ s = {} THEN 0
                                                 ELSE c[ch(s)] + g[s \ {ch(s)}]]
           Good == {k \in 0..n : \E g : UpTo(k, g)}
<1>1. n \in Nat /\ \A T \in SUBSET S : IsFiniteSet(T) /\ Cardinality(T) \in 0..n
  <2>1. \A T \in SUBSET S : IsFiniteSet(T) /\ Cardinality(T) \in Nat /\ Cardinality(T) <= n
    BY FS_Subset, FS_CardinalityType
  <2> QED BY <2>1, FS_CardinalityType
<1>2. 0 \in Good
  <2> DEFINE g == [s \in SUBSET S |-> 0]
  <2>1. \A s \in SUBSET S : Cardinality(s) > 0 \/ s = {}
    <3> SUFFICES ASSUME NEW s \in SUBSET S, s # {} PROVE Cardinality(s) > 0
      OBVIOUS
    <3>1. Cardinality(s) \in 0..n /\ Cardinality(s) # 0
      BY <1>1, FS_EmptySet
    <3> QED BY <3>1
  <2>2. UpTo(0, g)
    BY <2>1
  <2>3. \E f : UpTo(0, f)
    <3> HIDE DEF UpTo
    <3> QED BY <2>2
  <2>4. 0 \in 0..n
    BY <1>1
  <2> QED BY <2>3, <2>4
<1>3. ASSUME NEW k \in 0..(n - 1), k \in Good PROVE k + 1 \in Good
  <2>1. PICK g : UpTo(k, g)
    BY <1>3
  <2> DEFINE h == [s \in SUBSET S |-> IF Cardinality(s) > k + 1 \/ s = {} THEN 0
                                      ELSE c[ch(s)] + g[s \ {ch(s)}]]
  <2>2. ASSUME NEW s \in SUBSET S, Cardinality(s) <= k PROVE h[s] = g[s]
    <3>1. ~(Cardinality(s) > k + 1) /\ ~(Cardinality(s) > k)
      BY <1>1, <2>2
    <3> QED BY <2>1, <3>1
  <2>3. ASSUME NEW s \in SUBSET S, ~(Cardinality(s) > k + 1), s # {}
        PROVE  s \ {ch(s)} \in SUBSET S /\ Cardinality(s \ {ch(s)}) <= k
    <3>1. ch(s) \in s
      BY <2>3, ChosenElement
    <3> HIDE DEF ch
    <3>2. Cardinality(s \ {ch(s)}) = Cardinality(s) - 1
      BY <1>1, <3>1, FS_RemoveElement
    <3> QED BY <1>1, <2>3, <3>2
  <2>4. UpTo(k + 1, h)
    <3>1. \A s \in SUBSET S : h[s] = IF Cardinality(s) > k + 1 \/ s = {} THEN 0
                                     ELSE c[ch(s)] + h[s \ {ch(s)}]
      <4> SUFFICES ASSUME NEW s \in SUBSET S, ~(Cardinality(s) > k + 1), s # {}
                   PROVE  h[s] = c[ch(s)] + h[s \ {ch(s)}]
        OBVIOUS
      <4>1. h[s] = c[ch(s)] + g[s \ {ch(s)}]
        OBVIOUS
      <4> HIDE DEF h, ch
      <4>2. h[s \ {ch(s)}] = g[s \ {ch(s)}]
        BY <2>2, <2>3
      <4> QED BY <4>1, <4>2
    <3>2. h = [s \in SUBSET S |-> h[s]]
      OBVIOUS
    <3> HIDE DEF h, ch
    <3> QED BY <3>1, <3>2
  <2>5. k + 1 \in 0..n
    BY <1>1
  <2> HIDE DEF UpTo
  <2> QED BY <2>4, <2>5
<1>4. n \in Good
  <2> HIDE DEF Good
  <2>1. 0..n \subseteq Good
    BY <1>1, <1>2, <1>3, InductionUpTo
  <2> QED BY <1>1, <2>1
<1>5. PICK g : UpTo(n, g)
  BY <1>4
<1>6. \A s \in SUBSET S : ~(Cardinality(s) > n)
  BY <1>1
<1>7. SumsUp(c, S, g)
  BY <1>5, <1>6 DEF SumsUp
<1> QED BY <1>7

(* On a subset it is the function of the subset.                           *)
LEMMA SumsUpOnSubset ==
  ASSUME NEW c, NEW S, IsFiniteSet(S), NEW T \in SUBSET S,
         NEW g, SumsUp(c, S, g), NEW h, SumsUp(c, T, h)
  PROVE  \A s \in SUBSET T : g[s] = h[s]
<1> DEFINE P == {s \in SUBSET T : g[s] = h[s]}
<1>1. IsFiniteSet(T)
  BY FS_Subset
<1>2. {} \in P
  BY DEF SumsUp
<1>3. ASSUME NEW s \in SUBSET T, s # {}, \A x \in s : s \ {x} \in P PROVE s \in P
  <2> DEFINE x == CHOOSE x \in s : TRUE
  <2>1. x \in s
    BY <1>3, ChosenElement
  <2>2. g[s] = c[x] + g[s \ {x}] /\ h[s] = c[x] + h[s \ {x}]
    BY <1>3 DEF SumsUp
  <2> HIDE DEF x
  <2> QED BY <1>3, <2>1, <2>2
<1> HIDE DEF P
<1>4. SUBSET T \subseteq P
  BY <1>1, <1>2, <1>3, SubsetInduction
<1> QED BY <1>4 DEF P

(* What such a function gives for all of the set is the sum.               *)
LEMMA SumByIs ==
  ASSUME NEW c, NEW S, IsFiniteSet(S), NEW g, SumsUp(c, S, g)
  PROVE  SumBy(c, S) = g[S]
<1> DEFINE h == CHOOSE h : SumsUp(c, S, h)
<1>1. SumsUp(c, S, h)
  OBVIOUS
<1>2. SumBy(c, S) = h[S]
  BY DEF SumBy, MapThenSumSet, MapThenFoldSet, SumsUp
<1> HIDE DEF h
<1>3. h[S] = g[S]
  BY <1>1, SumsUpOnSubset
<1> QED BY <1>2, <1>3

(* The sum of no numbers, and of one number more.                          *)
LEMMA SumEmpty ==
  ASSUME NEW c
  PROVE  SumBy(c, {}) = 0
<1>1. PICK g : SumsUp(c, {}, g)
  BY SumsUpExists, FS_EmptySet
<1>2. g[{}] = 0
  BY <1>1 DEF SumsUp
<1> QED BY <1>1, <1>2, SumByIs, FS_EmptySet

(* The element that is chosen from a set is added to the sum of the rest.  *)
LEMMA SumOfFirst ==
  ASSUME NEW c, NEW S, IsFiniteSet(S), S # {}
  PROVE  LET x == CHOOSE x \in S : TRUE
         IN  x \in S /\ SumBy(c, S) = c[x] + SumBy(c, S \ {x})
<1> DEFINE x == CHOOSE x \in S : TRUE
<1>1. x \in S
  BY ChosenElement
<1>2. PICK g : SumsUp(c, S, g)
  BY SumsUpExists
<1>3. g[S] = c[x] + g[S \ {x}]
  BY <1>2 DEF SumsUp
<1> HIDE DEF x
<1>4. IsFiniteSet(S \ {x})
  BY FS_RemoveElement
<1>5. PICK h : SumsUp(c, S \ {x}, h)
  BY <1>4, SumsUpExists
<1>6. g[S \ {x}] = h[S \ {x}]
  BY <1>2, <1>5, SumsUpOnSubset
<1>7. SumBy(c, S) = g[S] /\ SumBy(c, S \ {x}) = h[S \ {x}]
  BY <1>2, <1>4, <1>5, SumByIs
<1> QED BY <1>1, <1>3, <1>6, <1>7 DEF x

LEMMA SumOfChosen ==
  ASSUME NEW c, NEW S, IsFiniteSet(S), S # {}
  PROVE  \E x \in S : SumBy(c, S) = c[x] + SumBy(c, S \ {x})
BY SumOfFirst

(* A sum of integers is one.                                               *)
LEMMA SumIsInt ==
  ASSUME NEW c, NEW S, IsFiniteSet(S), \A x \in S : c[x] \in Int
  PROVE  SumBy(c, S) \in Int
<1> DEFINE P == {T \in SUBSET S : SumBy(c, T) \in Int}
<1>1. {} \in P
  BY SumEmpty
<1>2. ASSUME NEW T \in SUBSET S, T # {}, \A x \in T : T \ {x} \in P PROVE T \in P
  <2>1. IsFiniteSet(T)
    BY FS_Subset
  <2>2. PICK x \in T : SumBy(c, T) = c[x] + SumBy(c, T \ {x})
    BY <1>2, <2>1, SumOfChosen
  <2>3. SumBy(c, T \ {x}) \in Int /\ c[x] \in Int
    BY <1>2
  <2> QED BY <2>2, <2>3
<1> HIDE DEF P
<1>3. SUBSET S \subseteq P
  BY <1>1, <1>2, SubsetInduction
<1> QED BY <1>3 DEF P

(* Any element may be taken out of a sum, not only the chosen one.         *)
LEMMA SumTakeOut ==
  ASSUME NEW c, NEW S, IsFiniteSet(S), \A x \in S : c[x] \in Int, NEW x \in S
  PROVE  SumBy(c, S) = c[x] + SumBy(c, S \ {x})
<1> DEFINE P == {T \in SUBSET S : \A y \in T : SumBy(c, T) = c[y] + SumBy(c, T \ {y})}
<1>1. {} \in P
  OBVIOUS
<1>2. ASSUME NEW T \in SUBSET S, T # {}, \A y \in T : T \ {y} \in P PROVE T \in P
  <2>1. \A U \in SUBSET S : IsFiniteSet(U) /\ SumBy(c, U) \in Int
    <3>1. \A U \in SUBSET S : IsFiniteSet(U)
      BY FS_Subset
    <3> QED BY <3>1, SumIsInt
  <2>2. PICK z \in T : SumBy(c, T) = c[z] + SumBy(c, T \ {z})
    BY <1>2, <2>1, SumOfChosen
  <2>3. ASSUME NEW y \in T PROVE SumBy(c, T) = c[y] + SumBy(c, T \ {y})
    <3>1. CASE y = z
      BY <2>2, <3>1
    <3>2. CASE y # z
      <4>1. SumBy(c, T \ {z}) = c[y] + SumBy(c, (T \ {z}) \ {y})
        BY <1>2, <3>2
      <4>2. SumBy(c, T \ {y}) = c[z] + SumBy(c, (T \ {y}) \ {z})
        BY <1>2, <3>2
      <4>3. (T \ {z}) \ {y} = (T \ {y}) \ {z} /\ (T \ {z}) \ {y} \in SUBSET S
        OBVIOUS
      <4>4. c[y] \in Int /\ c[z] \in Int /\ SumBy(c, (T \ {z}) \ {y}) \in Int
        BY <2>1, <4>3
      <4> DEFINE rest == SumBy(c, (T \ {z}) \ {y})
      <4>5. SumBy(c, T) = c[z] + (c[y] + rest) /\ SumBy(c, T \ {y}) = c[z] + rest
        BY <2>2, <4>1, <4>2, <4>3
      <4>6. rest \in Int
        BY <4>4
      <4> HIDE DEF rest
      <4> QED BY <4>4, <4>5, <4>6
    <3> QED BY <3>1, <3>2
  <2> QED BY <2>3
<1> HIDE DEF P
<1>3. SUBSET S \subseteq P
  BY <1>1, <1>2, SubsetInduction
<1> QED BY <1>3 DEF P

(* A sum of naturals is one.                                               *)
LEMMA SumIsNat ==
  ASSUME NEW c, NEW S, IsFiniteSet(S), \A x \in S : c[x] \in Nat
  PROVE  SumBy(c, S) \in Nat
<1> DEFINE P == {T \in SUBSET S : SumBy(c, T) \in Nat}
<1>1. {} \in P
  BY SumEmpty
<1>2. ASSUME NEW T \in SUBSET S, T # {}, \A x \in T : T \ {x} \in P PROVE T \in P
  <2>1. IsFiniteSet(T)
    BY FS_Subset
  <2>2. PICK x \in T : SumBy(c, T) = c[x] + SumBy(c, T \ {x})
    BY <1>2, <2>1, SumOfChosen
  <2>3. SumBy(c, T \ {x}) \in Nat /\ c[x] \in Nat
    BY <1>2
  <2> QED BY <2>2, <2>3
<1> HIDE DEF P
<1>3. SUBSET S \subseteq P
  BY <1>1, <1>2, SubsetInduction
<1> QED BY <1>3 DEF P

(* A sum of smaller numbers is smaller, and of the same numbers the same.  *)
LEMMA SumAtMost ==
  ASSUME NEW c, NEW d, NEW S, IsFiniteSet(S),
         \A x \in S : c[x] \in Int /\ d[x] \in Int /\ c[x] <= d[x]
  PROVE  SumBy(c, S) <= SumBy(d, S)
<1> DEFINE P == {T \in SUBSET S : SumBy(c, T) <= SumBy(d, T)}
<1>1. {} \in P
  BY SumEmpty
<1>2. ASSUME NEW T \in SUBSET S, T # {}, \A x \in T : T \ {x} \in P PROVE T \in P
  <2>1. IsFiniteSet(T) /\ \A x \in T : IsFiniteSet(T \ {x})
    BY FS_Subset
  <2>2. PICK x \in T : SumBy(c, T) = c[x] + SumBy(c, T \ {x})
    BY <1>2, <2>1, SumOfChosen
  <2>3. SumBy(d, T) = d[x] + SumBy(d, T \ {x})
    BY <2>1, SumTakeOut
  <2>4. SumBy(c, T \ {x}) \in Int /\ SumBy(d, T \ {x}) \in Int
    BY <2>1, SumIsInt
  <2>5. SumBy(c, T \ {x}) <= SumBy(d, T \ {x}) /\ c[x] \in Int /\ d[x] \in Int /\ c[x] <= d[x]
    BY <1>2
  <2> QED BY <2>2, <2>3, <2>4, <2>5
<1> HIDE DEF P
<1>3. SUBSET S \subseteq P
  BY <1>1, <1>2, SubsetInduction
<1> QED BY <1>3 DEF P

LEMMA SumOfSame ==
  ASSUME NEW c, NEW d, NEW S, IsFiniteSet(S), \A x \in S : c[x] = d[x]
  PROVE  SumBy(c, S) = SumBy(d, S)
<1> DEFINE P == {T \in SUBSET S : SumBy(c, T) = SumBy(d, T)}
<1>1. {} \in P
  BY SumEmpty
<1>2. ASSUME NEW T \in SUBSET S, T # {}, \A x \in T : T \ {x} \in P PROVE T \in P
  <2> DEFINE x == CHOOSE x \in T : TRUE
  <2>1. IsFiniteSet(T)
    BY FS_Subset
  <2>2. x \in T /\ SumBy(c, T) = c[x] + SumBy(c, T \ {x})
    BY <1>2, <2>1, SumOfFirst
  <2>3. SumBy(d, T) = d[x] + SumBy(d, T \ {x})
    BY <1>2, <2>1, SumOfFirst
  <2> HIDE DEF x
  <2>4. SumBy(c, T \ {x}) = SumBy(d, T \ {x}) /\ c[x] = d[x]
    BY <1>2, <2>2
  <2> QED BY <2>2, <2>3, <2>4
<1> HIDE DEF P
<1>3. SUBSET S \subseteq P
  BY <1>1, <1>2, SubsetInduction
<1> QED BY <1>3 DEF P

(* Sums of disjoint sets add up.                                           *)
LEMMA SumOfUnion ==
  ASSUME NEW c, NEW S, IsFiniteSet(S), \A x \in S : c[x] \in Int, NEW A \in SUBSET S
  PROVE  SumBy(c, S) = SumBy(c, A) + SumBy(c, S \ A)
<1> DEFINE P == {T \in SUBSET A : SumBy(c, S) = SumBy(c, T) + SumBy(c, S \ T)}
<1>0. IsFiniteSet(A) /\ \A T \in SUBSET S : IsFiniteSet(T) /\ SumBy(c, T) \in Int
  <2>1. \A T \in SUBSET S : IsFiniteSet(T)
    BY FS_Subset
  <2> QED BY <2>1, SumIsInt
<1>1. {} \in P
  <2>1. S \ {} = S /\ SumBy(c, S) \in Int
    BY <1>0
  <2> QED BY <2>1, SumEmpty
<1>2. ASSUME NEW T \in SUBSET A, T # {}, \A x \in T : T \ {x} \in P PROVE T \in P
  <2>1. PICK x \in T : TRUE
    BY <1>2
  <2>2. SumBy(c, T) = c[x] + SumBy(c, T \ {x})
    BY <1>0, SumTakeOut
  <2>3. S \ (T \ {x}) \in SUBSET S /\ (S \ (T \ {x})) \ {x} = S \ T /\ x \in S \ (T \ {x})
    OBVIOUS
  <2>4. SumBy(c, S \ (T \ {x})) = c[x] + SumBy(c, (S \ (T \ {x})) \ {x})
    BY <1>0, <2>3, SumTakeOut
  <2>5. SumBy(c, S) = SumBy(c, T \ {x}) + SumBy(c, S \ (T \ {x}))
    BY <1>2
  <2>6. SumBy(c, T \ {x}) \in Int /\ c[x] \in Int /\ SumBy(c, S \ T) \in Int
    BY <1>0
  <2>7. SumBy(c, S \ (T \ {x})) = c[x] + SumBy(c, S \ T)
    BY <2>3, <2>4
  <2>8. SumBy(c, S) = SumBy(c, T) + SumBy(c, S \ T)
    BY <2>2, <2>5, <2>6, <2>7
  <2> QED BY <2>8
<1> HIDE DEF P
<1>3. SUBSET A \subseteq P
  BY <1>0, <1>1, <1>2, SubsetInduction
<1> QED BY <1>3 DEF P

(* A part of a set of naturals adds up to no more than all of it.          *)
LEMMA SumOfPart ==
  ASSUME NEW c, NEW S, IsFiniteSet(S), \A x \in S : c[x] \in Nat, NEW A \in SUBSET S
  PROVE  SumBy(c, A) <= SumBy(c, S)
<1>1. SumBy(c, S) = SumBy(c, A) + SumBy(c, S \ A)
  BY SumOfUnion
<1>2. SumBy(c, A) \in Nat /\ SumBy(c, S \ A) \in Nat
  BY FS_Subset, SumIsNat
<1> QED BY <1>1, <1>2

(* What is in groups adds up to the sum of the groups' sums: f names the   *)
(* group of an element, K is a set with all groups.                        *)
LEMMA SumOfGroups ==
  ASSUME NEW c, NEW S, IsFiniteSet(S), \A x \in S : c[x] \in Int,
         NEW K, IsFiniteSet(K), NEW f, \A x \in S : f[x] \in K,
         NEW of, \A k \in K : \A x : x \in of[k] <=> x \in S /\ f[x] = k,
         NEW d, \A k \in K : d[k] = SumBy(c, of[k])
  PROVE  SumBy(d, K) = SumBy(c, S)
<1> DEFINE In(L) == {x \in S : f[x] \in L}
           Of(k) == {x \in S : f[x] = k}
           P == {L \in SUBSET K : SumBy(d, L) = SumBy(c, In(L))}
<1>0. \A T \in SUBSET S : IsFiniteSet(T) /\ SumBy(c, T) \in Int
  <2>1. \A T \in SUBSET S : IsFiniteSet(T)
    BY FS_Subset
  <2> QED BY <2>1, SumIsInt
<1>1. {} \in P
  <2>1. In({}) = {}
    OBVIOUS
  <2> QED BY <2>1, SumEmpty
<1>2. ASSUME NEW L \in SUBSET K, L # {}, \A k \in L : L \ {k} \in P PROVE L \in P
  <2>1. IsFiniteSet(L)
    BY FS_Subset
  <2>2. PICK k \in L : SumBy(d, L) = d[k] + SumBy(d, L \ {k})
    BY <1>2, <2>1, SumOfChosen
  <2>3. SumBy(d, L \ {k}) = SumBy(c, In(L \ {k}))
    BY <1>2
  <2>4. d[k] = SumBy(c, Of(k))
    <3>1. of[k] = Of(k)
      OBVIOUS
    <3> QED BY <3>1
  <2>5. Of(k) \in SUBSET In(L) /\ In(L) \ Of(k) = In(L \ {k}) /\ In(L) \in SUBSET S
    BY <2>2
  <2> HIDE DEF In, Of
  <2>6. SumBy(c, In(L)) = SumBy(c, Of(k)) + SumBy(c, In(L) \ Of(k))
    <3>1. IsFiniteSet(In(L)) /\ \A x \in In(L) : c[x] \in Int
      BY <1>0, <2>5
    <3> QED BY <2>5, <3>1, SumOfUnion
  <2> QED BY <2>2, <2>3, <2>4, <2>5, <2>6
<1> HIDE DEF P
<1>3. SUBSET K \subseteq P
  BY <1>1, <1>2, SubsetInduction
<1>4. K \in P /\ In(K) = S
  BY <1>3
<1> QED BY <1>4 DEF P

(* Counting is a sum of ones.                                              *)
LEMMA SumOfOnes ==
  ASSUME NEW c, NEW S, IsFiniteSet(S), NEW k \in Nat, \A x \in S : c[x] = k
  PROVE  SumBy(c, S) = k * Cardinality(S)
<1> DEFINE P == {T \in SUBSET S : SumBy(c, T) = k * Cardinality(T)}
<1>1. {} \in P
  BY SumEmpty, FS_EmptySet
<1>2. ASSUME NEW T \in SUBSET S, T # {}, \A x \in T : T \ {x} \in P PROVE T \in P
  <2>1. IsFiniteSet(T) /\ Cardinality(T) \in Nat
    BY FS_Subset, FS_CardinalityType
  <2>2. PICK x \in T : SumBy(c, T) = c[x] + SumBy(c, T \ {x})
    BY <1>2, <2>1, SumOfChosen
  <2>3. Cardinality(T \ {x}) = Cardinality(T) - 1
    BY <2>1, FS_RemoveElement
  <2>4. SumBy(c, T \ {x}) = k * Cardinality(T \ {x}) /\ c[x] = k
    BY <1>2
  <2> DEFINE m == Cardinality(T)
  <2>5. SumBy(c, T) = k + k * (m - 1) /\ m \in Nat
    BY <2>1, <2>2, <2>3, <2>4
  <2> HIDE DEF m
  <2>6. SumBy(c, T) = k * m
    BY <2>5
  <2> QED BY <2>6 DEF m
<1> HIDE DEF P
<1>3. SUBSET S \subseteq P
  BY <1>1, <1>2, SubsetInduction
<1> QED BY <1>3 DEF P

(* The sizes of the groups of a set add up to its size.                    *)
LEMMA GroupsAddUp ==
  ASSUME NEW S, IsFiniteSet(S), NEW K, IsFiniteSet(K), NEW f, \A x \in S : f[x] \in K,
         NEW of, \A k \in K : \A x : x \in of[k] <=> x \in S /\ f[x] = k,
         NEW d, \A k \in K : d[k] = Cardinality(of[k])
  PROVE  SumBy(d, K) = Cardinality(S)
<1>1. PICK one : \A x \in S : one[x] = 1
  <2> WITNESS [x \in S |-> 1]
  <2> QED OBVIOUS
<1>2. \A T \in SUBSET S : SumBy(one, T) = Cardinality(T)
  <2> SUFFICES ASSUME NEW T \in SUBSET S PROVE SumBy(one, T) = Cardinality(T)
    OBVIOUS
  <2>1. IsFiniteSet(T) /\ Cardinality(T) \in Nat /\ \A x \in T : one[x] = 1
    BY <1>1, FS_Subset, FS_CardinalityType
  <2>2. SumBy(one, T) = 1 * Cardinality(T)
    BY <2>1, SumOfOnes
  <2> QED BY <2>1, <2>2
<1>3. \A x \in S : one[x] \in Int
  BY <1>1
<1>4. \A k \in K : of[k] \in SUBSET S /\ d[k] = Cardinality(of[k])
  OBVIOUS
<1>5. \A k \in K : d[k] = SumBy(one, of[k])
  BY <1>2, <1>4
<1>6. SumBy(d, K) = SumBy(one, S)
  BY <1>3, <1>5, SumOfGroups
<1> QED BY <1>2, <1>6

(* What is computed step by step exists: st[k] is step k, A has all values.*)
Iterates(g, n, A, base, st) ==
  g \in [0..n -> A] /\ g[0] = base /\ \A k \in 1..n : g[k] = st[k][g[k - 1]]

LEMMA IterationExists ==
  ASSUME NEW n \in Nat, NEW A, NEW base \in A, NEW st \in [1..n -> [A -> A]]
  PROVE  \E g : Iterates(g, n, A, base, st)
<1> DEFINE Steps(k, g) == g[0] = base /\ \A j \in 1..k : g[j] = st[j][g[j - 1]]
           Good == {k \in 0..n : \E g \in [0..k -> A] : Steps(k, g)}
<1>1. 0 \in Good
  <2> DEFINE g == [j \in 0..0 |-> base]
  <2>1. g \in [0..0 -> A] /\ Steps(0, g)
    OBVIOUS
  <2>2. \E f \in [0..0 -> A] : Steps(0, f)
    <3> HIDE DEF Steps, g
    <3> QED BY <2>1
  <2> QED BY <2>2
<1>2. ASSUME NEW k \in 0..(n - 1), k \in Good PROVE k + 1 \in Good
  <2>1. PICK g \in [0..k -> A] : Steps(k, g)
    BY <1>2
  <2> DEFINE h == [j \in 0..(k + 1) |-> IF j = k + 1 THEN st[k + 1][g[k]] ELSE g[j]]
  <2>2. k + 1 \in 1..n /\ k \in 0..k /\ k + 1 \in 0..n
    OBVIOUS
  <2>3. st[k + 1][g[k]] \in A
    BY <2>1, <2>2
  <2>4. h \in [0..(k + 1) -> A]
    BY <2>1, <2>3
  <2>5. h[0] = base
    BY <2>1
  <2>6. ASSUME NEW j \in 1..(k + 1) PROVE h[j] = st[j][h[j - 1]]
    <3>1. CASE j = k + 1
      <4>1. h[j] = st[j][g[k]] /\ h[j - 1] = g[k]
        BY <3>1
      <4> QED BY <4>1
    <3>2. CASE j # k + 1
      <4>1. j \in 1..k
        BY <3>2
      <4>2. h[j] = g[j] /\ h[j - 1] = g[j - 1]
        BY <4>1
      <4>3. g[j] = st[j][g[j - 1]]
        BY <2>1, <4>1
      <4> QED BY <4>2, <4>3
    <3> QED BY <3>1, <3>2
  <2>7. Steps(k + 1, h)
    <3> HIDE DEF h
    <3> QED BY <2>5, <2>6
  <2>8. \E f \in [0..(k + 1) -> A] : Steps(k + 1, f)
    <3> HIDE DEF Steps, h
    <3> QED BY <2>4, <2>7
  <2> QED BY <2>2, <2>8
<1> HIDE DEF Good
<1>3. 0..n \subseteq Good
  BY <1>1, <1>2, InductionUpTo
<1>4. n \in Good
  BY <1>3
<1>5. PICK g \in [0..n -> A] : Steps(n, g)
  BY <1>4 DEF Good
<1>6. Iterates(g, n, A, base, st)
  BY <1>5 DEF Iterates
<1> QED BY <1>6

(* A finite set has no fewer members than its image.                       *)
LEMMA ImageAtMost ==
  ASSUME NEW S, IsFiniteSet(S), NEW T, NEW f,
         \A x \in S : f[x] \in T, \A y \in T : \E x \in S : f[x] = y
  PROVE  IsFiniteSet(T) /\ Cardinality(T) \in Nat /\ Cardinality(T) <= Cardinality(S)
<1> DEFINE g == [x \in S |-> f[x]]
<1>1. g \in Surjection(S, T)
  BY DEF Surjection
<1> HIDE DEF g
<1> QED BY <1>1, FS_Surjection, FS_CardinalityType
=============================================================================
