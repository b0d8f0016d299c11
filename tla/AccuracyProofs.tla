--------------------------- MODULE AccuracyProofs ---------------------------
(***************************************************************************)
(* Proofs about the second implementation of the allocation, for all       *)
(* relays, weights and depths: how many chunks it counts as free in each   *)
(* of its two loops, and how many of them there are; that its assertions   *)
(* hold; and that without over-allocation every relay gets its share.      *)
(***************************************************************************)
EXTENDS Accuracy, FiniteSetTheorems, WellFoundedInduction, TLAPS

\* Every set of numbers has a least one: the form of induction used below.
LEMMA Least ==
  ASSUME NEW T, T \subseteq Nat, T # {}
  PROVE  \E x \in T : \A y \in T : x <= y
<1> DEFINE R == OpToRel(<, Nat)
<1>1. IsWellFoundedOn(R, Nat)
  BY NatLessThanWellFounded
<1>2. PICK x \in T : \A y \in T : ~(<<y, x>> \in R)
  <2> HIDE DEF R
  <2> QED BY <1>1, WFMin
<1>3. \A y \in T : ~(y < x)
  BY <1>2 DEF OpToRel
<1> QED BY <1>3

\* A power of two is a positive number (a subtree has at least one leaf).
LEMMA PowerPositive == \A k \in Nat : 2^k \in Nat \ {0}
<1> TAKE k \in Nat
<1>1. IsFiniteSet(1..k) /\ Cardinality(1..k) = k
  BY FS_Interval
<1>2. IsFiniteSet(SUBSET (1..k)) /\ Cardinality(SUBSET (1..k)) = 2^k
  BY <1>1, FS_SUBSET
<1>3. Cardinality(SUBSET (1..k)) # 0
  BY <1>2, FS_EmptySet
<1>4. Cardinality(SUBSET (1..k)) \in Nat
  BY <1>2, FS_CardinalityType
<1> QED BY <1>2, <1>3, <1>4

\* The next power of two is twice the last one (a node's two children halve
\* its subtree): half of the subsets of 1..k+1 do not contain k+1.
LEMMA PowerDoubles == \A k \in Nat : 2^(k + 1) = 2 * 2^k
<1> TAKE k \in Nat
<1> DEFINE S == SUBSET (1..k)
           T == SUBSET (1..k + 1)
           U == T \ S
           f == [s \in S |-> s \cup {k + 1}]
<1>1. /\ IsFiniteSet(1..k) /\ Cardinality(1..k) = k
      /\ IsFiniteSet(1..k + 1) /\ Cardinality(1..k + 1) = k + 1
  BY FS_Interval
<1>2. /\ IsFiniteSet(S) /\ Cardinality(S) = 2^k
      /\ IsFiniteSet(T) /\ Cardinality(T) = 2^(k + 1)
  BY <1>1, FS_SUBSET
<1>3. f \in Bijection(S, U)
  <2>1. f \in [S -> U]
    OBVIOUS
  <2>2. \A s, t \in S : f[s] = f[t] => s = t
    OBVIOUS
  <2>3. ASSUME NEW u \in U
        PROVE  \E s \in S : f[s] = u
    <3>1. u \ {k + 1} \in S
      OBVIOUS
    <3>2. k + 1 \in u
      BY <3>1
    <3> QED BY <3>1, <3>2
  <2> QED BY <2>1, <2>2, <2>3 DEF Bijection, Injection, Surjection, IsInjective
<1>4. IsFiniteSet(U) /\ Cardinality(U) = Cardinality(S)
  BY <1>2, <1>3, FS_Bijection DEF ExistsBijection
<1>5. S \cup U = T /\ S \cap U = {}
  OBVIOUS
<1>6. Cardinality(S) \in Nat
  BY <1>2, FS_CardinalityType
<1> HIDE DEF S, T, U
<1>7. Cardinality(T) = Cardinality(S) + Cardinality(U) - Cardinality(S \cap U)
  BY <1>2, <1>4, <1>5, FS_Union
<1>8. Cardinality(S \cap U) = 0
  BY <1>5, FS_EmptySet
<1> QED BY <1>2, <1>4, <1>6, <1>7, <1>8

\* A power of two above 1 halves into the one below it (the size of a cell
\* when it is split).
LEMMA PowerHalves ==
  \A k \in Nat \ {0} : 2^k = 2 * 2^(k - 1) /\ 2^k \div 2 = 2^(k - 1)
<1> TAKE k \in Nat \ {0}
<1>1. 2^(k - 1) \in Nat \ {0}
  BY PowerPositive
<1>2. 2^((k - 1) + 1) = 2 * 2^(k - 1)
  BY PowerDoubles
<1>3. (k - 1) + 1 = k
  OBVIOUS
<1>4. 2^k = 2 * 2^(k - 1)
  BY <1>2, <1>3
<1> QED BY <1>1, <1>4

-----------------------------------------------------------------------------
(* Sums.                                                                   *)

SumIter(g, s, f) ==
  IF s = {} THEN 0 ELSE g[s \ {CHOOSE x \in s : TRUE}] + f[CHOOSE x \in s : TRUE]

\* The sums of f over all sets of relays.
IsSums(g, f) == g = [s \in SUBSET Relay |-> SumIter(g, s, f)]

\* A set of relays without the one that is added first is smaller.
LEMMA OneLess ==
  ASSUME NEW s \in SUBSET Relay, s # {}
  PROVE  LET x == CHOOSE x \in s : TRUE IN
         /\ x \in s /\ s \ {x} \in SUBSET Relay
         /\ Cardinality(s) \in Nat /\ Cardinality(s \ {x}) \in Nat
         /\ Cardinality(s \ {x}) = Cardinality(s) - 1
<1> DEFINE x == CHOOSE x \in s : TRUE
<1>1. x \in s
  OBVIOUS
<1>2. IsFiniteSet(s)
  BY AccuracyAssumption, FS_Subset
<1> HIDE DEF x
<1>3. /\ Cardinality(s) \in Nat /\ Cardinality(s \ {x}) \in Nat
      /\ Cardinality(s \ {x}) = Cardinality(s) - 1
  BY <1>1, <1>2, FS_CardinalityType, FS_RemoveElement
<1> QED BY <1>1, <1>3 DEF x

\* There are such sums, and that over all relays is the one of the module.
LEMMA SumsExist ==
  ASSUME NEW f
  PROVE  \E g : IsSums(g, f) /\ Sum(f) = g[Relay]
<1> DEFINE Ok(k, g) == \A s \in SUBSET Relay : Cardinality(s) <= k => g[s] = SumIter(g, s, f)
           T == {k \in Nat : ~ \E g : Ok(k, g)}
<1>1. T = {}
  <2> SUFFICES ASSUME T # {} PROVE FALSE
    OBVIOUS
  <2>1. PICK k \in T : \A j \in T : k <= j
    <3>1. T \subseteq Nat
      OBVIOUS
    <3> HIDE DEF T
    <3> QED BY <3>1, Least
  <2>2. k \in Nat /\ ~ \E g : Ok(k, g)
    OBVIOUS
  <2>3. k # 0
    <3> SUFFICES ASSUME k = 0 PROVE FALSE
      OBVIOUS
    <3>1. ASSUME NEW s \in SUBSET Relay, Cardinality(s) <= 0
          PROVE  s = {}
      <4> SUFFICES ASSUME s # {} PROVE FALSE
        OBVIOUS
      <4> DEFINE c == Cardinality(s)
                 d == Cardinality(s \ {CHOOSE x \in s : TRUE})
      <4>1. c \in Nat /\ d \in Nat /\ d = c - 1
        BY OneLess
      <4> HIDE DEF c, d
      <4>2. c <= 0
        BY <3>1 DEF c
      <4> QED BY <4>1, <4>2
    <3> DEFINE g == [s \in SUBSET Relay |-> 0]
    <3>2. Ok(0, g)
      BY <3>1 DEF SumIter
    <3> HIDE DEF Ok
    <3> QED BY <2>2, <3>2
  <2>4. k - 1 \in Nat /\ ~(k <= k - 1)
    BY <2>2, <2>3
  <2>5. PICK g : Ok(k - 1, g)
    BY <2>1, <2>4
  <2> DEFINE h == [s \in SUBSET Relay |-> SumIter(g, s, f)]
  <2>6. ASSUME NEW s \in SUBSET Relay, Cardinality(s) <= k
        PROVE  h[s] = SumIter(h, s, f)
    <3>1. CASE s = {}
      BY <3>1 DEF SumIter
    <3>2. CASE s # {}
      <4> DEFINE x == CHOOSE x \in s : TRUE
                 t == s \ {x}
      <4>1. t \in SUBSET Relay /\ Cardinality(t) <= k - 1
        <5> HIDE DEF t
        <5>1. t \in SUBSET Relay /\ Cardinality(s) \in Nat /\ Cardinality(t) = Cardinality(s) - 1
          BY <3>2, OneLess DEF t
        <5> QED BY <2>2, <2>6, <5>1
      <4>2. h[t] = g[t]
        <5>1. g[t] = SumIter(g, t, f)
          <6> HIDE DEF t
          <6> QED BY <2>5, <4>1
        <5>2. h[t] = SumIter(g, t, f)
          BY <4>1
        <5> QED BY <5>1, <5>2
      <4>3. h[s] = SumIter(g, s, f)
        OBVIOUS
      <4> HIDE DEF h
      <4> QED BY <3>2, <4>2, <4>3 DEF SumIter
    <3> QED BY <3>1, <3>2
  <2>7. Ok(k, h)
    BY <2>6
  <2> HIDE DEF Ok
  <2> QED BY <2>2, <2>7
<1> DEFINE n == Cardinality(Relay)
<1>2. n \in Nat
  BY AccuracyAssumption, FS_CardinalityType
<1>3. PICK g : Ok(n, g)
  <2> HIDE DEF n
  <2> QED BY <1>1, <1>2
<1> DEFINE h == [s \in SUBSET Relay |-> g[s]]
           e == CHOOSE e : e = [s \in SUBSET Relay |-> SumIter(e, s, f)]
<1>4. ASSUME NEW s \in SUBSET Relay
      PROVE  g[s] = SumIter(g, s, f)
  <2>1. Cardinality(s) <= n
    BY AccuracyAssumption, FS_Subset
  <2> QED BY <1>3, <2>1
<1>5. ASSUME NEW s \in SUBSET Relay
      PROVE  SumIter(h, s, f) = SumIter(g, s, f)
  <2>1. s # {} => s \ {CHOOSE x \in s : TRUE} \in SUBSET Relay
    BY OneLess
  <2> QED BY <2>1 DEF SumIter
<1>6. h = [s \in SUBSET Relay |-> SumIter(h, s, f)]
  <2>1. \A s \in SUBSET Relay : h[s] = SumIter(h, s, f)
    <3>1. \A s \in SUBSET Relay : h[s] = g[s]
      OBVIOUS
    <3> HIDE DEF h
    <3> QED BY <1>4, <1>5, <3>1
  <2> QED BY <2>1
<1>7. e = [s \in SUBSET Relay |-> SumIter(e, s, f)]
  <2> HIDE DEF h
  <2> QED BY <1>6
<1>8. Sum(f) = e[Relay]
  BY DEF Sum, FoldSet, MapThenFoldSet, SumIter, e
<1> HIDE DEF e
<1> QED BY <1>7, <1>8 DEF IsSums

\* The sum of nothing, and that of what is there and one more.
LEMMA SumsEquation ==
  ASSUME NEW f, NEW g, IsSums(g, f), NEW s \in SUBSET Relay
  PROVE  /\ s = {} => g[s] = 0
         /\ s # {} => LET x == CHOOSE x \in s : TRUE IN g[s] = g[s \ {x}] + f[x]
<1>1. g[s] = SumIter(g, s, f)
  BY DEF IsSums
<1> QED BY <1>1 DEF SumIter

\* The sum over no relay.
LEMMA SumOfNone ==
  ASSUME NEW f, NEW g, IsSums(g, f)
  PROVE  g[{}] = 0
<1>1. {} \in SUBSET Relay
  OBVIOUS
<1> QED BY <1>1, SumsEquation

\* What holds for the sum over no relay, and with one more if without it,
\* holds: the form of induction for what follows.
LEMMA SmallestSet ==
  ASSUME NEW Bad, Bad \subseteq SUBSET Relay, Bad # {}
  PROVE  \E s \in Bad : s # {} => s \ {CHOOSE x \in s : TRUE} \notin Bad
<1> DEFINE T == {Cardinality(s) : s \in Bad}
<1>1. T \subseteq Nat /\ T # {}
  <2>1. \A s \in Bad : Cardinality(s) \in Nat
    BY AccuracyAssumption, FS_Subset, FS_CardinalityType
  <2> QED BY <2>1
<1>2. PICK k \in T : \A j \in T : k <= j
  BY <1>1, Least
<1>3. PICK s \in Bad : Cardinality(s) = k
  OBVIOUS
<1>4. ASSUME s # {}, s \ {CHOOSE x \in s : TRUE} \in Bad
      PROVE  FALSE
  <2> DEFINE t == s \ {CHOOSE x \in s : TRUE}
  <2>1. /\ Cardinality(s) \in Nat /\ Cardinality(t) \in Nat
        /\ Cardinality(t) = Cardinality(s) - 1
    BY <1>4, OneLess
  <2>2. Cardinality(t) \in T
    BY <1>4
  <2> HIDE DEF T, t
  <2>3. k <= Cardinality(t)
    BY <1>2, <2>2
  <2> QED BY <1>3, <2>1, <2>3
<1> QED BY <1>4

\* A sum of numbers is a number, and none of them is larger.
LEMMA SumAtLeast ==
  ASSUME NEW f \in [Relay -> Nat]
  PROVE  Sum(f) \in Nat /\ \A r \in Relay : f[r] <= Sum(f)
<1>1. PICK g : IsSums(g, f) /\ Sum(f) = g[Relay]
  BY SumsExist
<1> DEFINE Good(s) == g[s] \in Nat /\ \A r \in s : f[r] <= g[s]
           Bad == {s \in SUBSET Relay : ~Good(s)}
<1>2. ASSUME Bad # {} PROVE FALSE
  <2>1. PICK s \in Bad : s # {} => s \ {CHOOSE x \in s : TRUE} \notin Bad
    <3>1. Bad \subseteq SUBSET Relay
      OBVIOUS
    <3> HIDE DEF Bad
    <3> QED BY <1>2, <3>1, SmallestSet
  <2>2. s \in SUBSET Relay /\ ~Good(s)
    OBVIOUS
  <2>3. s # {}
    <3> SUFFICES ASSUME s = {} PROVE Good(s)
      BY <2>2
    <3> QED BY <1>1, SumsEquation
  <2> DEFINE x == CHOOSE x \in s : TRUE
             t == s \ {x}
  <2>4. x \in s /\ t \in SUBSET Relay
    BY <2>2, <2>3, OneLess
  <2>5. g[s] = g[t] + f[x]
    BY <1>1, <2>2, <2>3, SumsEquation, SMTT(60)
  <2> HIDE DEF x
  <2>6. Good(t)
    BY <2>1, <2>3, <2>4 DEF x
  <2>7. f[x] \in Nat /\ \A r \in s : f[r] \in Nat /\ (r = x \/ r \in t)
    BY <2>2, <2>4
  <2>8. Good(s)
    <3> HIDE DEF t
    <3> QED BY <2>5, <2>6, <2>7
  <2> QED BY <2>2, <2>8
<1>3. Good(Relay)
  BY <1>2
<1> QED BY <1>1, <1>3

\* Sums of two functions.
LEMMA SumOfSums ==
  ASSUME NEW f \in [Relay -> Nat], NEW g \in [Relay -> Nat], NEW h \in [Relay -> Nat],
         \A r \in Relay : h[r] = f[r] + g[r]
  PROVE  Sum(h) = Sum(f) + Sum(g)
<1>1. PICK F : IsSums(F, f) /\ Sum(f) = F[Relay]
  BY SumsExist
<1>2. PICK G : IsSums(G, g) /\ Sum(g) = G[Relay]
  BY SumsExist
<1>3. PICK H : IsSums(H, h) /\ Sum(h) = H[Relay]
  BY SumsExist
<1> DEFINE Good(s) == F[s] \in Nat /\ G[s] \in Nat /\ H[s] = F[s] + G[s]
           Bad == {s \in SUBSET Relay : ~Good(s)}
<1>4. ASSUME Bad # {} PROVE FALSE
  <2>1. PICK s \in Bad : s # {} => s \ {CHOOSE x \in s : TRUE} \notin Bad
    <3>1. Bad \subseteq SUBSET Relay
      OBVIOUS
    <3> HIDE DEF Bad
    <3> QED BY <1>4, <3>1, SmallestSet
  <2>2. s \in SUBSET Relay /\ ~Good(s)
    OBVIOUS
  <2>3. s # {}
    <3> SUFFICES ASSUME s = {} PROVE Good(s)
      BY <2>2
    <3>1. F[{}] = 0 /\ G[{}] = 0 /\ H[{}] = 0
      BY <1>1, <1>2, <1>3, SumOfNone
    <3> QED BY <3>1
  <2> DEFINE x == CHOOSE x \in s : TRUE
             t == s \ {x}
  <2>4. x \in s /\ t \in SUBSET Relay
    BY <2>2, <2>3, OneLess
  <2>5. F[s] = F[t] + f[x] /\ G[s] = G[t] + g[x] /\ H[s] = H[t] + h[x]
    BY <1>1, <1>2, <1>3, <2>2, <2>3, SumsEquation
  <2> HIDE DEF x
  <2>6. Good(t)
    BY <2>1, <2>3, <2>4 DEF x
  <2>7. f[x] \in Nat /\ g[x] \in Nat /\ h[x] = f[x] + g[x]
    BY <2>2, <2>4
  <2>8. Good(s)
    <3> HIDE DEF t
    <3> QED BY <2>5, <2>6, <2>7
  <2> QED BY <2>2, <2>8
<1>5. Good(Relay)
  BY <1>4
<1> QED BY <1>1, <1>2, <1>3, <1>5

\* One relay gets more.
LEMMA SumOfMore ==
  ASSUME NEW f \in [Relay -> Nat], NEW r \in Relay, NEW c \in Nat
  PROVE  Sum([f EXCEPT ![r] = @ + c]) = Sum(f) + c
<1> DEFINE h == [f EXCEPT ![r] = @ + c]
<1>1. PICK F : IsSums(F, f) /\ Sum(f) = F[Relay]
  BY SumsExist
<1>2. PICK H : IsSums(H, h) /\ Sum(h) = H[Relay]
  BY SumsExist
<1>3. \A q \in Relay : f[q] \in Nat /\ h[q] = IF q = r THEN f[q] + c ELSE f[q]
  OBVIOUS
<1> HIDE DEF h
<1> DEFINE Good(s) == F[s] \in Nat /\ H[s] = F[s] + (IF r \in s THEN c ELSE 0)
           Bad == {s \in SUBSET Relay : ~Good(s)}
<1>4. ASSUME Bad # {} PROVE FALSE
  <2>1. PICK s \in Bad : s # {} => s \ {CHOOSE x \in s : TRUE} \notin Bad
    <3>1. Bad \subseteq SUBSET Relay
      OBVIOUS
    <3> HIDE DEF Bad
    <3> QED BY <1>4, <3>1, SmallestSet
  <2>2. s \in SUBSET Relay /\ ~Good(s)
    OBVIOUS
  <2>3. s # {}
    <3> SUFFICES ASSUME s = {} PROVE Good(s)
      BY <2>2
    <3>1. F[s] = 0 /\ H[s] = 0
      BY <1>1, <1>2, SumsEquation
    <3> QED BY <3>1
  <2> DEFINE x == CHOOSE x \in s : TRUE
             t == s \ {x}
  <2>4. x \in s /\ t \in SUBSET Relay
    BY <2>2, <2>3, OneLess
  <2>5. F[s] = F[t] + f[x] /\ H[s] = H[t] + h[x]
    BY <1>1, <1>2, <2>2, <2>3, SumsEquation
  <2> HIDE DEF x
  <2>6. Good(t)
    BY <2>1, <2>3, <2>4 DEF x
  <2>7. f[x] \in Nat /\ h[x] = IF x = r THEN f[x] + c ELSE f[x]
    BY <1>3, <2>2, <2>4
  <2>8. r \in s <=> r \in t \/ r = x
    BY <2>4
  <2>9. r \in t => r # x
    OBVIOUS
  <2>10. Good(s)
    <3> HIDE DEF t
    <3> QED BY <2>5, <2>6, <2>7, <2>8, <2>9
  <2> QED BY <2>2, <2>10
<1>5. Good(Relay)
  BY <1>4
<1> QED BY <1>1, <1>2, <1>5 DEF h

\* Quotients do not exceed: what is at most a fraction of each is at most that
\* fraction of the sum.
LEMMA SumScales ==
  ASSUME NEW f \in [Relay -> Nat], NEW g \in [Relay -> Nat], NEW a \in Nat, NEW b \in Nat,
         \A r \in Relay : a * g[r] <= b * f[r]
  PROVE  a * Sum(g) <= b * Sum(f)
<1>1. PICK F : IsSums(F, f) /\ Sum(f) = F[Relay]
  BY SumsExist
<1>2. PICK G : IsSums(G, g) /\ Sum(g) = G[Relay]
  BY SumsExist
<1> DEFINE Good(s) == F[s] \in Nat /\ G[s] \in Nat /\ a * G[s] <= b * F[s]
           Bad == {s \in SUBSET Relay : ~Good(s)}
<1>4. ASSUME Bad # {} PROVE FALSE
  <2>1. PICK s \in Bad : s # {} => s \ {CHOOSE x \in s : TRUE} \notin Bad
    <3>1. Bad \subseteq SUBSET Relay
      OBVIOUS
    <3> HIDE DEF Bad
    <3> QED BY <1>4, <3>1, SmallestSet
  <2>2. s \in SUBSET Relay /\ ~Good(s)
    OBVIOUS
  <2>3. s # {}
    <3> SUFFICES ASSUME s = {} PROVE Good(s)
      BY <2>2
    <3>1. F[s] = 0
      BY <1>1, SumsEquation, ZenonT(60)
    <3>2. G[s] = 0
      BY <1>2, SumsEquation
    <3> QED BY <3>1, <3>2
  <2> DEFINE x == CHOOSE x \in s : TRUE
             t == s \ {x}
  <2>4. x \in s /\ t \in SUBSET Relay
    BY <2>2, <2>3, OneLess
  <2>5. F[s] = F[t] + f[x] /\ G[s] = G[t] + g[x]
    <3>1. F[s] = F[t] + f[x]
      BY <1>1, <2>2, <2>3, SumsEquation, ZenonT(60)
    <3>2. G[s] = G[t] + g[x]
      BY <1>2, <2>2, <2>3, SumsEquation
    <3> QED BY <3>1, <3>2
  <2> HIDE DEF x
  <2>6. Good(t)
    BY <2>1, <2>3, <2>4 DEF x
  <2>7. f[x] \in Nat /\ g[x] \in Nat /\ a * g[x] <= b * f[x]
    BY <2>2, <2>4
  <2>8. Good(s)
    <3> DEFINE p == F[t]
               q == G[t]
               v == f[x]
               w == g[x]
    <3>1. p \in Nat /\ q \in Nat /\ v \in Nat /\ w \in Nat /\ a * q <= b * p /\ a * w <= b * v
      BY <2>6, <2>7
    <3>2. F[s] = p + v /\ G[s] = q + w
      BY <2>5
    <3> HIDE DEF p, q, v, w
    <3>3. a * (q + w) = a * q + a * w /\ b * (p + v) = b * p + b * v
      BY <3>1
    <3>4. a * q \in Nat /\ a * w \in Nat /\ b * p \in Nat /\ b * v \in Nat
      BY <3>1
    <3>5. a * (q + w) <= b * (p + v)
      BY <3>1, <3>3, <3>4
    <3> QED BY <3>1, <3>2, <3>5
  <2> QED BY <2>2, <2>8
<1>5. Good(Relay)
  BY <1>4
<1> QED BY <1>1, <1>2, <1>5

-----------------------------------------------------------------------------
(* The loops.                                                              *)

Requests == [r \in Relay |-> Request(r)]

AccuracyInvariant ==
  /\ weight \in [Relay -> Nat]
  /\ overallocate \in BOOLEAN
  /\ queue \subseteq Relay
  /\ allocation_request \in [Relay -> Nat]
  /\ assigned_weight \in [Relay -> Nat]
  /\ current_size \in Nat
  /\ num_free \in Nat
  /\ pc \in {"loop", "overallocate", "done"}
  /\ pc = "loop" \/ ~overallocate =>
       \A r \in Relay : assigned_weight[r] + allocation_request[r] = Request(r)
  /\ pc = "loop" =>
       /\ \A r \in Relay \ queue : allocation_request[r] = 0
       /\ \A r \in queue : allocation_request[r] # 0 \/ Request(r) = 0
  /\ pc # "loop" => \A r \in queue : Request(r) = 0 /\ assigned_weight[r] = 0
  /\ pc # "loop" /\ current_size > 0 => queue = {}
  /\ pc = "overallocate" => overallocate
  /\ current_size > 0 =>
       /\ \E k \in 0..DEPTH : current_size = 2^k
       /\ num_free * current_size + Sum(assigned_weight) = allocation_space_size
  /\ current_size = 0 =>
       num_free + Sum(assigned_weight) = allocation_space_size + Unrequested
  /\ pc # "loop" \/ current_size = 0 => \A r \in Relay : allocation_request[r] = 0
  /\ pc = "loop" /\ current_size > 0 =>
       \A r \in queue : allocation_request[r] < 2 * current_size
  /\ \A r \in Relay : assigned_weight[r] > Request(r) =>
       current_size = 0 /\ Request(r) = 0 /\ assigned_weight[r] = 1

\* The requests together do not exceed what there is.
LEMMA RequestsFit ==
  ASSUME weight \in [Relay -> Nat]
  PROVE  /\ Requests \in [Relay -> Nat]
         /\ Sum(Requests) <= allocation_space_size
<1> DEFINE N == allocation_space_size
           W == Sum(weight)
<1>1. N \in Nat \ {0}
  BY AccuracyAssumption, PowerPositive DEF allocation_space_size
<1>2. W \in Nat /\ \A r \in Relay : weight[r] \in Nat
  BY SumAtLeast
<1> HIDE DEF N, W
<1>3. CASE W = 0
  <2>1. Requests = [r \in Relay |-> 0]
    BY <1>3 DEF Requests, Request, W
  <2>2. Requests \in [Relay -> Nat]
    BY <2>1
  <2>3. \A r \in Relay : 1 * Requests[r] <= 0 * Requests[r]
    BY <2>1
  <2>4. 1 * Sum(Requests) <= 0 * Sum(Requests)
    <3> DEFINE o == 1
               z == 0
    <3>1. o \in Nat /\ z \in Nat /\ \A r \in Relay : o * Requests[r] <= z * Requests[r]
      BY <2>3
    <3> HIDE DEF o, z
    <3>2. o * Sum(Requests) <= z * Sum(Requests)
      BY <2>2, <3>1, SumScales
    <3> QED BY <3>2 DEF o, z
  <2>5. Sum(Requests) \in Nat
    BY <2>2, SumAtLeast
  <2>6. Sum(Requests) <= N
    BY <1>1, <2>4, <2>5
  <2> QED BY <2>2, <2>6 DEF N
<1>4. CASE W # 0
  <2>1. \A r \in Relay : Requests[r] = (N * weight[r]) \div W
    BY <1>4 DEF Requests, Request, N, W
  <2>2. ASSUME NEW r \in Relay
        PROVE  Requests[r] \in Nat /\ W * Requests[r] <= N * weight[r]
    <3> DEFINE a == N * weight[r]
    <3>1. a \in Nat /\ W \in Nat \ {0}
      BY <1>1, <1>2, <1>4
    <3>2. Requests[r] = a \div W
      BY <2>1
    <3> HIDE DEF a
    <3>3. a \div W \in Nat /\ W * (a \div W) <= a
      BY <3>1
    <3> QED BY <3>2, <3>3 DEF a
  <2>3. Requests \in [Relay -> Nat]
    BY <2>2 DEF Requests
  <2>4. W * Sum(Requests) <= N * W
    <3>1. N \in Nat
      BY <1>1
    <3>2. W * Sum(Requests) <= N * Sum(weight)
      BY <1>2, <2>2, <2>3, <3>1, SumScales
    <3> QED BY <3>2 DEF W
  <2>5. Sum(Requests) \in Nat
    BY <2>3, SumAtLeast
  <2>6. Sum(Requests) <= N
    <3> DEFINE s == Sum(Requests)
    <3>1. s \in Nat /\ W * s <= N * W
      BY <2>4, <2>5
    <3> HIDE DEF s
    <3>2. s <= N
      <4> SUFFICES ASSUME s >= N + 1 PROVE FALSE
        BY <1>1, <3>1
      <4>1. W * s >= W * (N + 1)
        BY <1>1, <1>2, <3>1
      <4>2. W * (N + 1) = N * W + W
        BY <1>1, <1>2
      <4>3. W * s \in Nat /\ N * W \in Nat
        BY <1>1, <1>2, <3>1
      <4> QED BY <1>2, <1>4, <3>1, <4>1, <4>2, <4>3
    <3> QED BY <3>2 DEF s
  <2> QED BY <2>3, <2>6 DEF N
<1> QED BY <1>3, <1>4

\* At first, one chunk is the whole space.
LEMMA AccuracyInit == Init => AccuracyInvariant
<1> SUFFICES ASSUME Init PROVE AccuracyInvariant
  OBVIOUS
<1>1. weight \in [Relay -> Nat]
  BY AccuracyAssumption DEF Init
<1>2. Requests \in [Relay -> Nat]
  BY <1>1, RequestsFit
<1>3. allocation_request = Requests
  BY DEF Init, Requests
<1>4. assigned_weight \in [Relay -> Nat] /\ \A r \in Relay : assigned_weight[r] = 0
  BY DEF Init
<1>5. \A r \in Relay : assigned_weight[r] + allocation_request[r] = Request(r)
  <2>1. \A r \in Relay : Requests[r] = Request(r) /\ Requests[r] \in Nat
    BY <1>2 DEF Requests
  <2> QED BY <1>3, <1>4, <2>1
<1>6. Sum(assigned_weight) = 0
  <2> DEFINE o == 1
             z == 0
  <2>1. o \in Nat /\ z \in Nat /\ \A r \in Relay : o * assigned_weight[r] <= z * assigned_weight[r]
    BY <1>4
  <2>2. Sum(assigned_weight) \in Nat
    BY <1>4, SumAtLeast
  <2> HIDE DEF o, z
  <2>3. o * Sum(assigned_weight) <= z * Sum(assigned_weight)
    BY <1>4, <2>1, SumScales
  <2> QED BY <2>2, <2>3 DEF o, z
<1>7. allocation_space_size \in Nat \ {0}
  BY AccuracyAssumption, PowerPositive DEF allocation_space_size
<1>8. \E k \in 0..DEPTH : current_size = 2^k
  <2>1. DEPTH \in 0..DEPTH
    BY AccuracyAssumption
  <2> QED BY <2>1 DEF Init, allocation_space_size
<1>9. num_free * current_size + Sum(assigned_weight) = allocation_space_size
  BY <1>6, <1>7 DEF Init
<1>10. ASSUME NEW r \in Relay
      PROVE  /\ allocation_request[r] # 0 \/ Request(r) = 0
             /\ allocation_request[r] < 2 * current_size
             /\ ~(assigned_weight[r] > Request(r))
  <2>1. /\ Requests[r] = Request(r) /\ Requests[r] \in Nat
        /\ Requests[r] <= Sum(Requests) /\ Sum(Requests) \in Nat
    BY <1>2, SumAtLeast DEF Requests
  <2>2. Sum(Requests) <= allocation_space_size
    BY <1>1, RequestsFit
  <2>3. current_size = allocation_space_size
    BY DEF Init
  <2> HIDE DEF allocation_space_size
  <2> QED BY <1>3, <1>4, <1>7, <2>1, <2>2, <2>3
<1>11. /\ queue \subseteq Relay /\ overallocate \in BOOLEAN /\ num_free = 1 /\ pc = "loop"
       /\ \A r \in Relay \ queue : allocation_request[r] = 0
       /\ current_size \in Nat \ {0}
  BY <1>7 DEF Init
<1> QED BY <1>1, <1>2, <1>3, <1>4, <1>5, <1>8, <1>9, <1>10, <1>11 DEF AccuracyInvariant

\* What relays still ask for fits into the free chunks.
LEMMA LeftFits ==
  ASSUME AccuracyInvariant, pc = "loop", current_size > 0, NEW r \in Relay
  PROVE  allocation_request[r] <= num_free * current_size
<1>1. /\ weight \in [Relay -> Nat] /\ allocation_request \in [Relay -> Nat]
      /\ assigned_weight \in [Relay -> Nat] /\ num_free \in Nat /\ current_size \in Nat
      /\ \A q \in Relay : assigned_weight[q] + allocation_request[q] = Request(q)
      /\ num_free * current_size + Sum(assigned_weight) = allocation_space_size
  BY DEF AccuracyInvariant
<1>2. Requests \in [Relay -> Nat] /\ Sum(Requests) <= allocation_space_size
  BY <1>1, RequestsFit
<1>3. \A q \in Relay : Requests[q] = assigned_weight[q] + allocation_request[q]
  BY <1>1 DEF Requests
<1>4. Sum(Requests) = Sum(assigned_weight) + Sum(allocation_request)
  BY <1>1, <1>2, <1>3, SumOfSums
<1>5. /\ Sum(assigned_weight) \in Nat /\ Sum(allocation_request) \in Nat
      /\ allocation_request[r] <= Sum(allocation_request) /\ allocation_request[r] \in Nat
  BY <1>1, SumAtLeast
<1>6. num_free * current_size \in Int
  BY <1>1
<1> QED BY <1>1, <1>2, <1>4, <1>5, <1>6

\* Without a request left, relays have what they asked for.
LEMMA FulfilledSum ==
  ASSUME weight \in [Relay -> Nat], assigned_weight \in [Relay -> Nat],
         \A r \in Relay : assigned_weight[r] = Request(r)
  PROVE  Unrequested = allocation_space_size - Sum(assigned_weight)
<1>1. assigned_weight = [r \in Relay |-> assigned_weight[r]]
  OBVIOUS
<1>2. assigned_weight = [r \in Relay |-> Request(r)]
  BY <1>1
<1> QED BY <1>2 DEF Unrequested

\* What is asked for depends on the weights alone.
LEMMA RequestsStay ==
  ASSUME weight' = weight
  PROVE  /\ \A r \in Relay : Request(r)' = Request(r)
         /\ Unrequested' = Unrequested
         /\ allocation_space_size' = allocation_space_size
<1>1. \A r \in Relay : Request(r)' = Request(r)
  BY DEF Request, Sum, FoldSet, MapThenFoldSet, allocation_space_size
<1>2. Unrequested' = Unrequested
  BY DEF Unrequested, Request, Sum, FoldSet, MapThenFoldSet, allocation_space_size
<1> QED BY <1>1, <1>2 DEF allocation_space_size

\* Halving the chunks leaves as much as there was, unless they were of one
\* identity each: then nobody asks for anything any more, and each chunk that
\* remains is counted twice.
LEMMA SplitStep == AccuracyInvariant /\ SplitChunks => AccuracyInvariant'
<1> SUFFICES ASSUME AccuracyInvariant, SplitChunks PROVE AccuracyInvariant'
  OBVIOUS
<1>1. PICK r \in queue : /\ Popped(r) /\ allocation_request[r] < current_size
                         /\ Pushed(r, allocation_request[r])
  BY DEF SplitChunks
<1>2. /\ pc = "loop" /\ pc' = "loop" /\ current_size > 0
      /\ current_size' = current_size \div 2 /\ num_free' = num_free * 2
      /\ UNCHANGED <<weight, overallocate, allocation_request, assigned_weight>>
  BY DEF SplitChunks, Looping
<1>3. /\ weight \in [Relay -> Nat] /\ overallocate \in BOOLEAN /\ queue \subseteq Relay
      /\ allocation_request \in [Relay -> Nat] /\ assigned_weight \in [Relay -> Nat]
      /\ current_size \in Nat /\ num_free \in Nat
      /\ \A q \in Relay : assigned_weight[q] + allocation_request[q] = Request(q)
      /\ \A q \in Relay \ queue : allocation_request[q] = 0
      /\ \A q \in queue : allocation_request[q] # 0 \/ Request(q) = 0
      /\ num_free * current_size + Sum(assigned_weight) = allocation_space_size
  BY <1>2 DEF AccuracyInvariant
<1>4. PICK k \in 0..DEPTH : current_size = 2^k
  BY <1>2 DEF AccuracyInvariant
<1>5. \A q \in Relay : allocation_request[q] \in Nat /\ assigned_weight[q] \in Nat
  BY <1>3
<1>6. /\ queue' \subseteq queue
      /\ \A q \in Relay \ queue' : allocation_request[q] = 0
  BY <1>1, <1>3 DEF Pushed
<1>7. /\ \A q \in Relay : Request(q)' = Request(q)
      /\ Unrequested' = Unrequested /\ allocation_space_size' = allocation_space_size
  BY <1>2, RequestsStay
<1>8. Sum(assigned_weight)' = Sum(assigned_weight) /\ Sum(assigned_weight) \in Nat
  <2>1. Sum(assigned_weight)' = Sum(assigned_weight)
    BY <1>2 DEF Sum, FoldSet, MapThenFoldSet
  <2> QED BY <1>3, <2>1, SumAtLeast
<1>9. allocation_space_size \in Nat
  BY AccuracyAssumption, PowerPositive DEF allocation_space_size
<1>10. \A q \in queue : allocation_request[q] < current_size
  <2>1. \A q \in queue : allocation_request[q] <= allocation_request[r]
    BY <1>1 DEF Popped
  <2> QED BY <1>1, <1>3, <1>5, <2>1
<1>11. \A q \in Relay : ~(assigned_weight[q] > Request(q))
  BY <1>3, <1>5
<1>12. CASE k = 0
  <2>1. current_size = 1
    BY <1>4, <1>12
  <2>2. current_size' = 0
    BY <1>2, <2>1
  <2>3. \A q \in Relay : allocation_request[q] = 0
    BY <1>3, <1>5, <1>10, <2>1
  <2>4. num_free' + Sum(assigned_weight)' = allocation_space_size' + Unrequested'
    <3>1. \A q \in Relay : assigned_weight[q] = Request(q)
      BY <1>3, <1>5, <2>3
    <3>2. Unrequested = allocation_space_size - Sum(assigned_weight)
      BY <1>3, <3>1, FulfilledSum
    <3> HIDE DEF allocation_space_size
    <3>3. num_free + Sum(assigned_weight) = allocation_space_size
      BY <1>3, <2>1
    <3> QED BY <1>2, <1>3, <1>7, <1>8, <1>9, <3>2, <3>3
  <2>5. num_free' \in Nat
    BY <1>2, <1>3
  <2>6. queue' \subseteq Relay
    BY <1>3, <1>6
  <2> QED BY <1>2, <1>3, <1>6, <1>7, <1>11, <2>2, <2>3, <2>4, <2>5, <2>6 DEF AccuracyInvariant
<1>13. CASE k # 0
  <2>1. k \in Nat \ {0} /\ k - 1 \in 0..DEPTH /\ k - 1 \in Nat
    BY <1>13, AccuracyAssumption
  <2>2. 2^k = 2 * 2^(k - 1) /\ 2^k \div 2 = 2^(k - 1) /\ 2^(k - 1) \in Nat \ {0}
    BY <2>1, PowerHalves, PowerPositive
  <2>3. current_size' = 2^(k - 1) /\ current_size = 2 * current_size'
    BY <1>2, <1>4, <2>2
  <2>4. current_size' \in Nat \ {0} /\ num_free' \in Nat
    BY <1>2, <1>3, <2>2, <2>3
  <2>5. num_free' * current_size' = num_free * current_size
    BY <1>2, <1>3, <2>3, <2>4
  <2>6. num_free' * current_size' + Sum(assigned_weight)' = allocation_space_size'
    BY <1>3, <1>7, <1>8, <2>5
  <2>7. \E l \in 0..DEPTH : current_size' = 2^l
    BY <2>1, <2>3
  <2>8. \A q \in queue' : allocation_request'[q] < 2 * current_size'
    BY <1>2, <1>6, <1>10, <2>3
  <2>9. queue' \subseteq Relay
    BY <1>3, <1>6
  <2> QED BY <1>2, <1>3, <1>6, <1>7, <1>11, <2>4, <2>6, <2>7, <2>8, <2>9 DEF AccuracyInvariant
<1> QED BY <1>12, <1>13

\* There is a free chunk for a relay that asks for one.
LEMMA AssignStep == AccuracyInvariant /\ AssignChunk => AccuracyInvariant'
<1> SUFFICES ASSUME AccuracyInvariant, AssignChunk PROVE AccuracyInvariant'
  OBVIOUS
<1>1. PICK r \in queue :
        /\ Popped(r) /\ allocation_request[r] >= current_size
        /\ Asserted(allocation_request[r] - current_size)
        /\ allocation_request' = [allocation_request EXCEPT ![r] = @ - current_size]
        /\ assigned_weight' = [assigned_weight EXCEPT ![r] = @ + current_size]
        /\ Pushed(r, allocation_request[r] - current_size)
  BY DEF AssignChunk
<1>2. /\ pc = "loop" /\ pc' = "loop" /\ current_size > 0 /\ num_free' = num_free - 1
      /\ UNCHANGED <<weight, overallocate, current_size>>
  BY DEF AssignChunk, Looping
<1>3. /\ weight \in [Relay -> Nat] /\ overallocate \in BOOLEAN /\ queue \subseteq Relay
      /\ allocation_request \in [Relay -> Nat] /\ assigned_weight \in [Relay -> Nat]
      /\ current_size \in Nat /\ num_free \in Nat
      /\ \A q \in Relay : assigned_weight[q] + allocation_request[q] = Request(q)
      /\ \A q \in Relay \ queue : allocation_request[q] = 0
      /\ \A q \in queue : allocation_request[q] # 0 \/ Request(q) = 0
      /\ \A q \in queue : allocation_request[q] < 2 * current_size
      /\ num_free * current_size + Sum(assigned_weight) = allocation_space_size
      /\ \E k \in 0..DEPTH : current_size = 2^k
  BY <1>2 DEF AccuracyInvariant
<1>4. r \in Relay /\ allocation_request[r] \in Nat /\ assigned_weight[r] \in Nat
  BY <1>3
<1>5. \A q \in Relay :
        /\ allocation_request'[q] = IF q = r THEN allocation_request[q] - current_size
                                    ELSE allocation_request[q]
        /\ assigned_weight'[q] = IF q = r THEN assigned_weight[q] + current_size
                                 ELSE assigned_weight[q]
  BY <1>1, <1>3
<1>6. allocation_request' \in [Relay -> Nat] /\ assigned_weight' \in [Relay -> Nat]
  <2>1. allocation_request[r] - current_size \in Nat /\ assigned_weight[r] + current_size \in Nat
    BY <1>1, <1>3, <1>4
  <2> QED BY <1>1, <1>3, <2>1
<1>7. /\ \A q \in Relay : Request(q)' = Request(q)
      /\ allocation_space_size' = allocation_space_size
  BY <1>2, RequestsStay
<1>8. \A q \in Relay : assigned_weight'[q] + allocation_request'[q] = Request(q)'
  <2> TAKE q \in Relay
  <2>1. allocation_request[q] \in Nat /\ assigned_weight[q] \in Nat
    BY <1>3
  <2> QED BY <1>3, <1>5, <1>7, <2>1
<1>9. /\ queue' \subseteq queue
      /\ \A q \in Relay \ queue' : allocation_request'[q] = 0
      /\ \A q \in queue' : allocation_request'[q] # 0 \/ Request(q)' = 0
  <2>1. CASE allocation_request[r] - current_size = 0
    <3>1. queue' = queue \ {r}
      BY <1>1, <2>1 DEF Pushed
    <3> QED BY <1>3, <1>5, <1>7, <2>1, <3>1
  <2>2. CASE allocation_request[r] - current_size # 0
    <3>1. queue' = queue
      BY <1>1, <2>2 DEF Pushed
    <3> QED BY <1>1, <1>3, <1>5, <1>7, <2>2, <3>1
  <2> QED BY <2>1, <2>2
<1>10. num_free >= 1
  <2>1. allocation_request[r] <= num_free * current_size
    BY <1>2, <1>4, LeftFits
  <2>2. num_free # 0
    <3> SUFFICES ASSUME num_free = 0 PROVE FALSE
      OBVIOUS
    <3>1. num_free * current_size = 0
      BY <1>3
    <3> QED BY <1>1, <1>2, <1>3, <1>4, <2>1, <3>1
  <2> QED BY <1>3, <2>2
<1>11. num_free' * current_size' + Sum(assigned_weight)' = allocation_space_size'
  <2>1. Sum([assigned_weight EXCEPT ![r] = @ + current_size]) = Sum(assigned_weight) + current_size
    BY <1>3, <1>4, SumOfMore
  <2>2. Sum(assigned_weight)' = Sum(assigned_weight) + current_size
    BY <1>1, <2>1 DEF Sum, FoldSet, MapThenFoldSet
  <2>3. Sum(assigned_weight) \in Nat
    BY <1>3, SumAtLeast
  <2>4. num_free' * current_size' = num_free * current_size - current_size
    BY <1>2, <1>3
  <2>5. num_free * current_size \in Int
    BY <1>3
  <2> HIDE DEF allocation_space_size
  <2> QED BY <1>3, <1>7, <2>2, <2>3, <2>4, <2>5
<1>12. num_free' \in Nat
  BY <1>2, <1>3, <1>10
<1>13. \A q \in queue' : allocation_request'[q] < 2 * current_size'
  <2> TAKE q \in queue'
  <2>1. q \in queue /\ q \in Relay /\ allocation_request[q] \in Nat
    BY <1>3, <1>9
  <2> QED BY <1>2, <1>3, <1>5, <2>1
<1>14. \A q \in Relay : ~(assigned_weight'[q] > Request(q)')
  BY <1>6, <1>8
<1>15. queue' \subseteq Relay
  BY <1>3, <1>9
<1> QED BY <1>2, <1>3, <1>6, <1>8, <1>9, <1>11, <1>12, <1>13, <1>14, <1>15 DEF AccuracyInvariant

\* When the first loop ends, nobody asks for anything any more.
LEMMA EndStep == AccuracyInvariant /\ EndLoop => AccuracyInvariant'
<1> SUFFICES ASSUME AccuracyInvariant, EndLoop PROVE AccuracyInvariant'
  OBVIOUS
<1>1. /\ pc = "loop" /\ (queue = {} \/ ~(current_size > 0))
      /\ pc' = IF overallocate THEN "overallocate" ELSE "done"
      /\ UNCHANGED <<weight, overallocate, queue, allocation_request,
                     assigned_weight, current_size, num_free>>
  BY DEF EndLoop, Looping
<1>2. pc = "loop" /\ pc' \in {"overallocate", "done"} /\ (pc' = "done" => ~overallocate)
      /\ (pc' = "overallocate" => overallocate)
  BY <1>1 DEF EndLoop
<1>3. \A r \in Relay : allocation_request[r] = 0
  <2>1. CASE queue = {}
    BY <1>2, <2>1 DEF AccuracyInvariant
  <2>2. CASE ~(current_size > 0)
    <3>1. current_size = 0
      BY <2>2 DEF AccuracyInvariant
    <3> QED BY <1>2, <3>1 DEF AccuracyInvariant
  <2> QED BY <1>1, <2>1, <2>2
<1>4. /\ \A r \in Relay : Request(r)' = Request(r)
      /\ Unrequested' = Unrequested /\ allocation_space_size' = allocation_space_size
  BY <1>1, RequestsStay
<1>5. Sum(assigned_weight)' = Sum(assigned_weight)
  BY <1>1 DEF Sum, FoldSet, MapThenFoldSet
<1>6. \A r \in queue : Request(r) = 0 /\ assigned_weight[r] = 0
  <2> TAKE r \in queue
  <2>1. /\ r \in Relay /\ assigned_weight[r] \in Nat
        /\ assigned_weight[r] + allocation_request[r] = Request(r)
        /\ allocation_request[r] # 0 \/ Request(r) = 0
    BY <1>1 DEF AccuracyInvariant
  <2> QED BY <1>3, <2>1
<1> QED BY <1>1, <1>2, <1>3, <1>4, <1>5, <1>6 DEF AccuracyInvariant

\* The second loop, which runs only with over-allocation and only if the chunks
\* have no size, gives one identity to a relay that has none.
LEMMA OverallocateStep == AccuracyInvariant /\ Overallocate => AccuracyInvariant'
<1> SUFFICES ASSUME AccuracyInvariant, Overallocate PROVE AccuracyInvariant'
  OBVIOUS
<1>1. PICK r \in queue : /\ assigned_weight' = [assigned_weight EXCEPT ![r] = @ + 1]
                         /\ queue' = queue \ {r}
  BY DEF Overallocate
<1>2. /\ pc = "overallocate" /\ pc' = "overallocate"
      /\ num_free > 0 /\ num_free' = num_free - 1
      /\ UNCHANGED <<weight, overallocate, allocation_request, current_size>>
  BY DEF Overallocate
<1>3. /\ weight \in [Relay -> Nat] /\ overallocate = TRUE /\ queue \subseteq Relay
      /\ allocation_request \in [Relay -> Nat] /\ assigned_weight \in [Relay -> Nat]
      /\ num_free \in Nat /\ current_size = 0
      /\ Request(r) = 0 /\ assigned_weight[r] = 0 /\ r \in Relay
      /\ num_free + Sum(assigned_weight) = allocation_space_size + Unrequested
  BY <1>2 DEF AccuracyInvariant
<1>4. /\ \A q \in Relay : Request(q)' = Request(q)
      /\ Unrequested' = Unrequested /\ allocation_space_size' = allocation_space_size
  BY <1>2, RequestsStay
<1>5. assigned_weight' \in [Relay -> Nat]
  BY <1>1, <1>3
<1>6. \A q \in Relay : assigned_weight'[q] = IF q = r THEN 1 ELSE assigned_weight[q]
  BY <1>1, <1>3
<1>7. Sum(assigned_weight)' = Sum(assigned_weight) + 1
  <2>1. Sum([assigned_weight EXCEPT ![r] = @ + 1]) = Sum(assigned_weight) + 1
    <3> DEFINE o == 1
    <3>1. o \in Nat
      OBVIOUS
    <3> HIDE DEF o
    <3>2. Sum([assigned_weight EXCEPT ![r] = @ + o]) = Sum(assigned_weight) + o
      BY <1>3, <3>1, SumOfMore
    <3> QED BY <3>2 DEF o
  <2> QED BY <1>1, <2>1 DEF Sum, FoldSet, MapThenFoldSet
<1>8. num_free' \in Nat /\ num_free' + Sum(assigned_weight)' = allocation_space_size' + Unrequested'
  <2>1. Sum(assigned_weight) \in Nat
    BY <1>3, SumAtLeast
  <2>2. num_free' + (Sum(assigned_weight) + 1) = num_free + Sum(assigned_weight)
    BY <1>2, <1>3, <2>1
  <2>3. num_free' \in Nat
    BY <1>2, <1>3
  <2> QED BY <1>3, <1>4, <1>7, <2>2, <2>3
<1>9. \A q \in queue' : Request(q)' = 0 /\ assigned_weight'[q] = 0
  BY <1>1, <1>2, <1>3, <1>4, <1>6 DEF AccuracyInvariant
<1>10. \A q \in Relay : assigned_weight'[q] > Request(q)' =>
         current_size' = 0 /\ Request(q)' = 0 /\ assigned_weight'[q] = 1
  BY <1>2, <1>3, <1>4, <1>6 DEF AccuracyInvariant
<1>11. queue' \subseteq Relay /\ \A q \in Relay : allocation_request'[q] = 0
  BY <1>1, <1>2, <1>3 DEF AccuracyInvariant
<1> QED BY <1>2, <1>3, <1>5, <1>8, <1>9, <1>10, <1>11 DEF AccuracyInvariant

\* Every step preserves the invariant.
LEMMA AccuracyStep == AccuracyInvariant /\ [Next]_vars => AccuracyInvariant'
<1> SUFFICES ASSUME AccuracyInvariant, [Next]_vars PROVE AccuracyInvariant'
  OBVIOUS
<1>1. CASE SplitChunks
  BY <1>1, SplitStep
<1>2. CASE AssignChunk
  BY <1>2, AssignStep
<1>3. CASE EndLoop
  BY <1>3, EndStep
<1>4. CASE Overallocate
  BY <1>4, OverallocateStep
<1>5. CASE EndOverallocation \/ UNCHANGED vars
  <2>1. /\ UNCHANGED <<weight, overallocate, queue, allocation_request, assigned_weight,
                       current_size, num_free>>
        /\ pc' = pc \/ (pc = "overallocate" /\ pc' = "done")
    BY <1>5 DEF EndOverallocation, vars
  <2>2. /\ \A r \in Relay : Request(r)' = Request(r)
        /\ Unrequested' = Unrequested /\ allocation_space_size' = allocation_space_size
    BY <2>1, RequestsStay
  <2>3. Sum(assigned_weight)' = Sum(assigned_weight)
    BY <2>1 DEF Sum, FoldSet, MapThenFoldSet
  <2> QED BY <2>1, <2>2, <2>3 DEF AccuracyInvariant
<1> QED BY <1>1, <1>2, <1>3, <1>4, <1>5 DEF Next

\* The invariant holds in every state.
THEOREM AccuracyHolds == Spec => []AccuracyInvariant
<1> QED BY AccuracyInit, AccuracyStep, PTL DEF Spec

\* How many chunks are counted as free, however many relays, whatever their
\* weights and however deep the tree: those that are left, as long as chunks
\* have a size; then, in the second loop, too, those that are left and once more
\* as many.  What is given out of these goes to relays without a request, one
\* chunk to each.
THEOREM AccuracyChunksAreAccountedFor == Spec => []ChunksAreAccountedFor
<1>1. AccuracyInvariant => ChunksAreAccountedFor
  BY DEF AccuracyInvariant, ChunksAreAccountedFor
<1> QED BY <1>1, AccuracyHolds, PTL

\* Whenever a relay is given a chunk, less of its request than a chunk is left,
\* and no less than nothing: what allocate_weights() asserts.
AssertionsHold ==
  Looping => \A r \in queue : Popped(r) /\ allocation_request[r] >= current_size
                              => Asserted(allocation_request[r] - current_size)

\* No assertion of allocate_weights() ever fails.
THEOREM AccuracyAssertionsHold == Spec => []AssertionsHold
<1>1. AccuracyInvariant => AssertionsHold
  <2> SUFFICES ASSUME AccuracyInvariant, Looping, NEW r \in queue,
                      allocation_request[r] >= current_size
               PROVE  Asserted(allocation_request[r] - current_size)
    BY DEF AssertionsHold
  <2>1. /\ allocation_request[r] \in Nat /\ current_size \in Nat
        /\ allocation_request[r] < 2 * current_size
    BY DEF AccuracyInvariant, Looping
  <2> QED BY <2>1 DEF Asserted
<1> QED BY <1>1, AccuracyHolds, PTL

\* Without over-allocation every relay ends up with its share rounded down:
\* no relay is left with part of its request when the chunks run out.
THEOREM AccuracySharesAreRequests == Spec => []SharesAreRequests
<1>1. AccuracyInvariant => SharesAreRequests
  <2> SUFFICES ASSUME AccuracyInvariant, pc = "done", ~overallocate, NEW r \in Relay
               PROVE  assigned_weight[r] = Request(r)
    BY DEF SharesAreRequests
  <2>1. /\ assigned_weight[r] + allocation_request[r] = Request(r)
        /\ allocation_request[r] = 0 /\ assigned_weight[r] \in Nat
    BY DEF AccuracyInvariant
  <2> QED BY <2>1
<1> QED BY <1>1, AccuracyHolds, PTL
=============================================================================
