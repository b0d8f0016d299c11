------------------------------ MODULE KeyProofs ------------------------------
(***************************************************************************)
(* Proofs about the private keys of a relay, for every depth of the tree,  *)
(* every width of identities and every order of the groups: the arithmetic *)
(* of NodeName is that of a tree, derived keys are like generated ones,    *)
(* and a key opens what is for its leaf and nothing else.                  *)
(***************************************************************************)
EXTENDS PrivateKeys, FiniteSetTheorems, WellFoundedInduction, TLAPS

-----------------------------------------------------------------------------
(* Numbers.                                                                *)

\* Every set of numbers has a least one: the form of induction used below.
LEMMA Least ==
  ASSUME NEW T, T \subseteq Nat, T # {}
  PROVE  \E x \in T : \A y \in T : x <= y
<1> DEFINE R == OpToRel(<, Nat)
<1>1. IsWellFoundedOn(R, Nat)
  BY NatLessThanWellFounded
<1>2. PICK x \in T : \A y \in T : ~(<<y, x>> \in R)
  <2> HIDE DEF R
  <2> QED BY <1>1, WFMin
<1>3. \A y \in T : ~(y < x)
  BY <1>2 DEF OpToRel
<1> QED BY <1>3

\* A power of two is a positive number (a subtree has at least one leaf).
LEMMA PowerPositive == \A k \in Nat : 2^k \in Nat \ {0}
<1> TAKE k \in Nat
<1>1. IsFiniteSet(1..k) /\ Cardinality(1..k) = k
  BY FS_Interval
<1>2. IsFiniteSet(SUBSET (1..k)) /\ Cardinality(SUBSET (1..k)) = 2^k
  BY <1>1, FS_SUBSET
<1>3. Cardinality(SUBSET (1..k)) # 0
  BY <1>2, FS_EmptySet
<1>4. Cardinality(SUBSET (1..k)) \in Nat
  BY <1>2, FS_CardinalityType
<1> QED BY <1>2, <1>3, <1>4

\* The next power of two is twice the last one (a node's two children halve
\* its subtree): half of the subsets of 1..k+1 do not contain k+1.
LEMMA PowerDoubles == \A k \in Nat : 2^(k + 1) = 2 * 2^k
<1> TAKE k \in Nat
<1> DEFINE S == SUBSET (1..k)
           T == SUBSET (1..k + 1)
           U == T \ S
           f == [s \in S |-> s \cup {k + 1}]
<1>1. /\ IsFiniteSet(1..k) /\ Cardinality(1..k) = k
      /\ IsFiniteSet(1..k + 1) /\ Cardinality(1..k + 1) = k + 1
  BY FS_Interval
<1>2. /\ IsFiniteSet(S) /\ Cardinality(S) = 2^k
      /\ IsFiniteSet(T) /\ Cardinality(T) = 2^(k + 1)
  BY <1>1, FS_SUBSET
<1>3. f \in Bijection(S, U)
  <2>1. f \in [S -> U]
    OBVIOUS
  <2>2. \A s, t \in S : f[s] = f[t] => s = t
    OBVIOUS
  <2>3. ASSUME NEW u \in U
        PROVE  \E s \in S : f[s] = u
    <3>1. u \ {k + 1} \in S
      OBVIOUS
    <3>2. k + 1 \in u
      BY <3>1
    <3> QED BY <3>1, <3>2
  <2> QED BY <2>1, <2>2, <2>3 DEF Bijection, Injection, Surjection, IsInjective
<1>4. IsFiniteSet(U) /\ Cardinality(U) = Cardinality(S)
  BY <1>2, <1>3, FS_Bijection DEF ExistsBijection
<1>5. S \cup U = T /\ S \cap U = {}
  OBVIOUS
<1>6. Cardinality(S) \in Nat
  BY <1>2, FS_CardinalityType
<1> HIDE DEF S, T, U
<1>7. Cardinality(T) = Cardinality(S) + Cardinality(U) - Cardinality(S \cap U)
  BY <1>2, <1>4, <1>5, FS_Union
<1>8. Cardinality(S \cap U) = 0
  BY <1>5, FS_EmptySet
<1> QED BY <1>2, <1>4, <1>6, <1>7, <1>8

\* A power of two above 1 halves into the one below it (the size of a cell
\* when it is split).
LEMMA PowerHalves ==
  \A k \in Nat \ {0} : 2^k = 2 * 2^(k - 1) /\ 2^k \div 2 = 2^(k - 1)
<1> TAKE k \in Nat \ {0}
<1>1. 2^(k - 1) \in Nat \ {0}
  BY PowerPositive
<1>2. 2^((k - 1) + 1) = 2 * 2^(k - 1)
  BY PowerDoubles
<1>3. (k - 1) + 1 = k
  OBVIOUS
<1>4. 2^k = 2 * 2^(k - 1)
  BY <1>2, <1>3
<1> QED BY <1>1, <1>4

\* A quotient is determined by its remainder's bounds.
LEMMA QuotientUnique ==
  ASSUME NEW a \in Nat, NEW b \in Nat \ {0}, NEW q \in Int, NEW r \in 0..b - 1,
         a = b * q + r
  PROVE  a \div b = q
<1> DEFINE s == a \div b
           t == a % b
<1>1. s \in Int /\ t \in 0..b - 1 /\ a = b * s + t
  OBVIOUS
<1> HIDE DEF s, t
<1>2. b * (q - s) = t - r
  BY <1>1
<1> DEFINE d == q - s
<1>3. d \in Int /\ b * d = t - r /\ t - r < b /\ t - r > -b
  BY <1>1, <1>2
<1> HIDE DEF d
<1>4. d < 1 /\ d > -1
  BY <1>3
<1>5. d = 0
  BY <1>3, <1>4
<1> QED BY <1>1, <1>5 DEF d, s

\* A sequence is the function of its elements.
LEMMA ElementsOf ==
  ASSUME NEW S, NEW s \in Seq(S)
  PROVE  s = [i \in 1..Len(s) |-> s[i]] /\ DOMAIN s = 1..Len(s) /\ Len(s) \in Nat
OBVIOUS

\* What comes after the first elements of a sequence.
LEMMA AfterFirst ==
  ASSUME NEW S, NEW s \in Seq(S), NEW l \in 0..Len(s)
  PROVE  SubSeq(s, l + 1, Len(s)) = [i \in 1..Len(s) - l |-> s[l + i]]
<1> DEFINE t == SubSeq(s, l + 1, Len(s))
<1>1. ASSUME NEW i \in 1..Len(s) - l
      PROVE  t[i] = s[l + i]
  <2>1. i + (l + 1) - 1 = l + i
    OBVIOUS
  <2>2. t[i] = s[i + (l + 1) - 1]
    OBVIOUS
  <2> QED BY <2>1, <2>2
<1>2. t \in Seq(S) /\ Len(t) = Len(s) - l
  OBVIOUS
<1> HIDE DEF t
<1>3. t = [i \in 1..Len(t) |-> t[i]]
  BY <1>2, ElementsOf
<1>4. t = [i \in 1..Len(s) - l |-> s[l + i]]
  BY <1>1, <1>2, <1>3
<1> QED BY <1>4 DEF t

\* What comes after the first one.
LEMMA AfterHead ==
  ASSUME NEW S, NEW s \in Seq(S), s # <<>>
  PROVE  Tail(s) = [i \in 1..Len(s) - 1 |-> s[i + 1]]
<1> DEFINE t == Tail(s)
<1>1. t \in Seq(S) /\ Len(t) = Len(s) - 1
  OBVIOUS
<1>2. \A i \in 1..Len(s) - 1 : t[i] = s[i + 1]
  OBVIOUS
<1> HIDE DEF t
<1>3. t = [i \in 1..Len(t) |-> t[i]]
  BY <1>1, ElementsOf
<1>4. t = [i \in 1..Len(s) - 1 |-> s[i + 1]]
  BY <1>1, <1>2, <1>3
<1> QED BY <1>4 DEF t

\* What comes before the last one.
LEMMA BeforeLast ==
  ASSUME NEW S, NEW s \in Seq(S), s # <<>>
  PROVE  Front(s) = [i \in 1..Len(s) - 1 |-> s[i]]
<1> DEFINE n == Len(s) - 1
           t == SubSeq(s, 1, n)
<1>1. n \in Nat /\ n <= Len(s)
  <2>1. Len(s) # 0
    OBVIOUS
  <2> QED BY <2>1
<1> HIDE DEF n
<1>2. t \in Seq(S) /\ Len(t) = n
  BY <1>1
<1>3. ASSUME NEW i \in 1..n PROVE t[i] = s[i]
  <2>1. i + 1 - 1 = i
    OBVIOUS
  <2>2. t[i] = s[i + 1 - 1]
    BY <1>1
  <2> QED BY <2>1, <2>2
<1> HIDE DEF t
<1>4. t = [i \in 1..Len(t) |-> t[i]]
  BY <1>2, ElementsOf
<1>5. t = [i \in 1..n |-> s[i]]
  BY <1>2, <1>3, <1>4
<1> QED BY <1>5 DEF t, n, Front

\* Powers of two multiply.
LEMMA PowerSplits == \A a, b \in Nat : 2^(a + b) = 2^a * 2^b
<1> SUFFICES ASSUME NEW a \in Nat PROVE \A b \in Nat : 2^(a + b) = 2^a * 2^b
  OBVIOUS
<1> DEFINE T == {b \in Nat : 2^(a + b) # 2^a * 2^b}
<1>1. T = {}
  <2> SUFFICES ASSUME T # {} PROVE FALSE
    OBVIOUS
  <2>1. PICK b \in T : \A c \in T : b <= c
    <3>1. T \subseteq Nat
      OBVIOUS
    <3> HIDE DEF T
    <3> QED BY <3>1, Least
  <2>2. b \in Nat /\ 2^(a + b) # 2^a * 2^b
    OBVIOUS
  <2>3. 2^a \in Nat \ {0}
    BY PowerPositive
  <2>4. b # 0
    <3> SUFFICES ASSUME b = 0 PROVE FALSE
      OBVIOUS
    <3>1. 2^0 = 1 /\ a + 0 = a
      OBVIOUS
    <3> QED BY <2>2, <2>3, <3>1
  <2>5. b - 1 \in Nat /\ ~(b <= b - 1)
    BY <2>2, <2>4
  <2>6. 2^(a + (b - 1)) = 2^a * 2^(b - 1)
    BY <2>1, <2>5
  <2>7. 2^b = 2 * 2^(b - 1) /\ 2^(a + b) = 2 * 2^((a + b) - 1)
    BY <2>2, <2>4, PowerHalves
  <2>8. (a + b) - 1 = a + (b - 1) /\ 2^(b - 1) \in Nat
    BY <2>2, <2>5, PowerPositive
  <2> QED BY <2>2, <2>3, <2>6, <2>7, <2>8
<1> QED BY <1>1

\* Dividing by one number and then by another is dividing by their product.
LEMMA QuotientOfQuotient ==
  ASSUME NEW a \in Nat, NEW b \in Nat \ {0}, NEW c \in Nat \ {0}
  PROVE  (a \div b) \in Nat /\ (a \div b) \div c = a \div (b * c)
<1> DEFINE q == a \div b
           r == a % b
           s == q \div c
           t == q % c
<1>1. q \in Nat /\ r \in 0..b - 1 /\ a = b * q + r
  OBVIOUS
<1> HIDE DEF q, r
<1>2. s \in Nat /\ t \in 0..c - 1 /\ q = c * s + t
  BY <1>1
<1> HIDE DEF s, t
<1> DEFINE u == b * t + r
<1>3. b * c \in Nat \ {0} /\ u \in 0..b * c - 1
  <2>1. b * t \in Nat /\ b * c \in Nat
    BY <1>2
  <2>2. b * t <= b * (c - 1)
    BY <1>2
  <2>3. b * (c - 1) = b * c - b
    OBVIOUS
  <2> QED BY <1>1, <1>2, <2>1, <2>2, <2>3
<1>4. a = (b * c) * s + u
  <2>1. b * (c * s + t) = (b * c) * s + b * t
    BY <1>2
  <2> QED BY <1>1, <1>2, <2>1
<1> DEFINE m == b * c
<1>5. m \in Nat \ {0} /\ u \in 0..m - 1 /\ a = m * s + u /\ s \in Int
  BY <1>2, <1>3, <1>4
<1> HIDE DEF u, m
<1>6. a \div m = s
  BY <1>5, QuotientUnique
<1> QED BY <1>1, <1>6 DEF m, s, q

\* A number below a power of two has no higher bits.
LEMMA NoHigherBits ==
  ASSUME NEW m \in Nat \ {0}, NEW p \in 0..m - 1
  PROVE  p \div m = 0 /\ p % m = p
<1>1. p = m * 0 + p
  OBVIOUS
<1>2. p \div m = 0
  BY <1>1, QuotientUnique
<1>3. p = m * (p \div m) + (p % m) /\ p % m \in Int
  OBVIOUS
<1> QED BY <1>2, <1>3

\* Shifting by i - j and then by j bits is shifting by i bits.
LEMMA ShiftShift ==
  ASSUME NEW p \in Nat, NEW i \in Nat, NEW j \in 0..i
  PROVE  /\ p \div 2^(i - j) \in Nat
         /\ (p \div 2^(i - j)) \div 2^j = p \div 2^i
<1>1. 2^(i - j) \in Nat \ {0} /\ 2^j \in Nat \ {0}
  BY PowerPositive
<1>2. 2^((i - j) + j) = 2^(i - j) * 2^j /\ (i - j) + j = i
  BY PowerSplits
<1>3. 2^i = 2^(i - j) * 2^j
  BY <1>2
<1> DEFINE b == 2^(i - j)
           c == 2^j
<1>4. b \in Nat \ {0} /\ c \in Nat \ {0} /\ 2^i = b * c
  BY <1>1, <1>3
<1> HIDE DEF b, c
<1>5. p \div b \in Nat /\ (p \div b) \div c = p \div (b * c)
  BY <1>4, QuotientOfQuotient
<1> QED BY <1>4, <1>5 DEF b, c

\* What is left of a number below 2^i when j bits are shifted out of it.
LEMMA ShiftBound ==
  ASSUME NEW i \in Nat, NEW j \in 0..i, NEW p \in 0..2^i - 1
  PROVE  p \div 2^j \in 0..2^(i - j) - 1
<1>1. 2^j \in Nat \ {0} /\ 2^(i - j) \in Nat \ {0} /\ 2^i \in Nat \ {0}
  BY PowerPositive
<1>2. 2^((i - j) + j) = 2^(i - j) * 2^j /\ (i - j) + j = i
  BY PowerSplits
<1>3. p < 2^(i - j) * 2^j /\ p \in Nat
  BY <1>1, <1>2
<1> DEFINE b == 2^j
           c == 2^(i - j)
           q == p \div b
           r == p % b
<1>4. b \in Nat \ {0} /\ c \in Nat \ {0} /\ p < c * b /\ p \in Nat
  BY <1>1, <1>3
<1> HIDE DEF b, c
<1>5. q \in Nat /\ r \in 0..b - 1 /\ p = b * q + r
  BY <1>4
<1> HIDE DEF q, r
<1>6. q < c
  <2> SUFFICES ASSUME q >= c PROVE FALSE
    BY <1>4, <1>5
  <2>1. b * q >= b * c
    BY <1>4, <1>5
  <2>2. b * c = c * b /\ b * q \in Nat /\ b * c \in Nat
    BY <1>4, <1>5
  <2> QED BY <1>4, <1>5, <2>1, <2>2
<1> QED BY <1>4, <1>5, <1>6 DEF q, b, c

\* The bits of a number, the topmost of its k bits first.
Bit(p, k, i) == (p \div 2^(k - i)) % 2

\* Numbers with the same bits are the same.
LEMMA SameBits ==
  ASSUME NEW k \in Nat, NEW p \in 0..2^k - 1, NEW q \in 0..2^k - 1,
         \A i \in 1..k : Bit(p, k, i) = Bit(q, k, i)
  PROVE  p = q
<1> DEFINE T == {i \in 0..k : p \div 2^(k - i) # q \div 2^(k - i)}
<1>0. p \in Nat /\ q \in Nat /\ 2^k \in Nat \ {0}
  BY PowerPositive
<1>1. T = {}
  <2> SUFFICES ASSUME T # {} PROVE FALSE
    OBVIOUS
  <2>1. PICK i \in T : \A j \in T : i <= j
    <3>1. T \subseteq Nat
      OBVIOUS
    <3> HIDE DEF T
    <3> QED BY <3>1, Least
  <2>2. i \in 0..k /\ p \div 2^(k - i) # q \div 2^(k - i)
    OBVIOUS
  <2>3. i # 0
    <3>1. p \div 2^k = 0 /\ q \div 2^k = 0
      <4> DEFINE m == 2^k
      <4>1. m \in Nat \ {0} /\ p \in 0..m - 1 /\ q \in 0..m - 1
        BY <1>0
      <4> HIDE DEF m
      <4>2. p \div m = 0 /\ q \div m = 0
        BY <4>1, NoHigherBits
      <4> QED BY <4>2 DEF m
    <3>2. k - 0 = k
      OBVIOUS
    <3> QED BY <2>2, <3>1, <3>2
  <2>4. i - 1 \in 0..k /\ ~(i <= i - 1) /\ i \in 1..k
    BY <2>2, <2>3
  <2>5. p \div 2^(k - (i - 1)) = q \div 2^(k - (i - 1))
    BY <2>1, <2>4
  <2> DEFINE n == k - (i - 1)
             x == p \div 2^(n - 1)
             y == q \div 2^(n - 1)
  <2>6. n \in Nat /\ 1 \in 0..n /\ n - 1 = k - i /\ 2^1 = 2
    BY <2>2, <2>4
  <2>7. x \in Nat /\ x \div 2 = p \div 2^n /\ y \in Nat /\ y \div 2 = q \div 2^n
    <3> HIDE DEF n
    <3>1. /\ p \div 2^(n - 1) \in Nat /\ (p \div 2^(n - 1)) \div 2^1 = p \div 2^n
          /\ q \div 2^(n - 1) \in Nat /\ (q \div 2^(n - 1)) \div 2^1 = q \div 2^n
      BY <1>0, <2>6, ShiftShift
    <3> QED BY <2>6, <3>1
  <2>8. x % 2 = y % 2
    BY <2>4, <2>6 DEF Bit
  <2>9. x \div 2 = y \div 2
    BY <2>5, <2>7
  <2>10. x = y
    <3> HIDE DEF x, y
    <3> QED BY <2>7, <2>8, <2>9
  <2> QED BY <2>2, <2>6, <2>10
<1>2. k \in 0..k /\ k - k = 0 /\ 2^0 = 1
  OBVIOUS
<1>3. p \div 2^0 = q \div 2^0
  BY <1>1, <1>2
<1>4. p \div 1 = q \div 1
  BY <1>2, <1>3
<1> QED BY <1>0, <1>4

-----------------------------------------------------------------------------
(* Cells.                                                                  *)

\* A cell's depth and path are what they should be.
LEMMA CellType ==
  ASSUME NEW n \in Cell
  PROVE  /\ n.len \in 0..HIERARCHY_DEPTH /\ n.path \in 0..2^n.len - 1
         /\ n = [len |-> n.len, path |-> n.path]
<1>1. n.len \in Nat
  BY DepthAssumption DEF Cell
<1>2. 2^n.len \in Nat
  BY <1>1, PowerPositive
<1>3. 2^HIERARCHY_DEPTH \in Nat
  BY DepthAssumption, PowerPositive
<1> QED BY <1>1, <1>2, <1>3 DEF Cell, IsCanonical

\* And what has such a depth and path is a cell.
LEMMA CellIs ==
  ASSUME NEW l \in 0..HIERARCHY_DEPTH, NEW p \in 0..2^l - 1
  PROVE  [len |-> l, path |-> p] \in Cell
<1>1. 2^(l + (HIERARCHY_DEPTH - l)) = 2^l * 2^(HIERARCHY_DEPTH - l)
  BY DepthAssumption, PowerSplits
<1>2. l + (HIERARCHY_DEPTH - l) = HIERARCHY_DEPTH
  BY DepthAssumption
<1>3. 2^l \in Nat \ {0} /\ 2^(HIERARCHY_DEPTH - l) \in Nat \ {0}
  BY DepthAssumption, PowerPositive
<1> DEFINE b == 2^l
           c == 2^(HIERARCHY_DEPTH - l)
           d == 2^HIERARCHY_DEPTH
<1>4. b \in Nat \ {0} /\ c \in Nat \ {0} /\ d = b * c
  BY <1>1, <1>2, <1>3
<1> HIDE DEF b, c, d
<1>5. b <= d /\ d \in Nat
  BY <1>4
<1>6. p \in 0..d - 1
  BY <1>3, <1>5 DEF b
<1> QED BY <1>3, <1>6 DEF Cell, IsCanonical, d

\* The HIBE identity of a cell.
LEMMA MappedIs ==
  ASSUME NEW n \in Cell
  PROVE  /\ mapped(n) = [i \in 1..n.len |-> 1 + Bit(n.path, n.len, i)]
         /\ mapped(n) \in Seq({1, 2})
         /\ Len(mapped(n)) = n.len
         /\ DOMAIN mapped(n) = 1..n.len
<1>1. n.len \in 0..HIERARCHY_DEPTH /\ n.path \in Nat /\ n.len \in Nat
  BY CellType, DepthAssumption
<1>2. ASSUME NEW i \in 1..n.len
      PROVE  /\ hashed(map_identity(n)[i]) = 1 + Bit(n.path, n.len, i)
             /\ 1 + Bit(n.path, n.len, i) \in {1, 2}
  <2>1. 2^(n.len - i) \in Nat \ {0}
    BY <1>1, PowerPositive
  <2>2. n.path \div 2^(n.len - i) \in Nat
    BY <1>1, <2>1
  <2>3. (n.path \div 2^(n.len - i)) % 2 \in {0, 1}
    BY <2>2
  <2> QED BY <2>3 DEF hashed, map_identity, Bit
<1>3. mapped(n) = [i \in 1..n.len |-> 1 + Bit(n.path, n.len, i)]
  BY <1>2 DEF mapped
<1> QED BY <1>1, <1>2, <1>3

\* What is below a cell begins with its bits, and only that.
LEMMA ContainsIsPrefix ==
  ASSUME NEW a \in Cell, NEW b \in Cell
  PROVE  contains(a, b) <=> /\ a.len <= b.len
                            /\ \A i \in 1..a.len : mapped(a)[i] = mapped(b)[i]
<1>1. /\ a.len \in Nat /\ a.path \in 0..2^a.len - 1
      /\ b.len \in Nat /\ b.path \in 0..2^b.len - 1
  BY CellType, DepthAssumption
<1>2. SUFFICES ASSUME a.len <= b.len
               PROVE  b.path \div 2^(b.len - a.len) = a.path
                        <=> \A i \in 1..a.len : mapped(a)[i] = mapped(b)[i]
  BY DEF contains
<1> DEFINE q == b.path \div 2^(b.len - a.len)
<1>3. q \in 0..2^a.len - 1
  <2>1. b.len - a.len \in 0..b.len /\ b.len - (b.len - a.len) = a.len
    BY <1>1, <1>2
  <2> QED BY <1>1, <2>1, ShiftBound
<1>4. ASSUME NEW i \in 1..a.len
      PROVE  /\ Bit(q, a.len, i) = Bit(b.path, b.len, i)
             /\ Bit(q, a.len, i) \in Int /\ Bit(a.path, a.len, i) \in Int
             /\ mapped(a)[i] = 1 + Bit(a.path, a.len, i)
             /\ mapped(b)[i] = 1 + Bit(q, a.len, i)
  <2>1. /\ b.len - i \in Nat /\ a.len - i \in 0..b.len - i
        /\ (b.len - i) - (a.len - i) = b.len - a.len
        /\ b.path \in Nat /\ a.path \in Nat /\ i \in 1..b.len
    BY <1>1, <1>2
  <2> DEFINE m == b.len - i
             k == a.len - i
  <2>2. m \in Nat /\ k \in 0..m /\ m - k = b.len - a.len
    BY <2>1
  <2>3. (b.path \div 2^(m - k)) \div 2^k = b.path \div 2^m
    <3> HIDE DEF m, k
    <3> QED BY <2>1, <2>2, ShiftShift
  <2>4. Bit(q, a.len, i) = Bit(b.path, b.len, i)
    BY <2>2, <2>3 DEF Bit
  <2>5. 2^(a.len - i) \in Nat \ {0} /\ q \in Nat
    BY <1>1, <1>3, <2>1, PowerPositive
  <2>6. q \div 2^(a.len - i) \in Int /\ a.path \div 2^(a.len - i) \in Int
    BY <2>1, <2>5
  <2>7. Bit(q, a.len, i) \in Int /\ Bit(a.path, a.len, i) \in Int
    BY <2>6 DEF Bit
  <2>8. mapped(a)[i] = 1 + Bit(a.path, a.len, i) /\ mapped(b)[i] = 1 + Bit(b.path, b.len, i)
    BY <2>1, MappedIs
  <2> QED BY <2>4, <2>7, <2>8
<1>5. ASSUME \A i \in 1..a.len : mapped(a)[i] = mapped(b)[i]
      PROVE  q = a.path
  <2>1. \A i \in 1..a.len : Bit(q, a.len, i) = Bit(a.path, a.len, i)
    BY <1>4, <1>5
  <2> HIDE DEF q
  <2> QED BY <1>1, <1>3, <2>1, SameBits
<1>6. ASSUME q = a.path, NEW i \in 1..a.len
      PROVE  mapped(a)[i] = mapped(b)[i]
  BY <1>4, <1>6
<1> QED BY <1>5, <1>6

\* The leaf of an identity.
LEMMA NodeIs ==
  ASSUME identity \in Word
  PROVE  /\ node \in Cell /\ node.len = HIERARCHY_DEPTH
         /\ node.path = identity % 2^HIERARCHY_DEPTH
<1>1. identity \in Nat
  <2>1. 2^WORD_BITS \in Nat
    BY DepthAssumption, PowerPositive
  <2> QED BY <2>1 DEF Word
<1>2. 2^HIERARCHY_DEPTH \in Nat \ {0}
  BY DepthAssumption, PowerPositive
<1>3. identity % 2^HIERARCHY_DEPTH \in 0..2^HIERARCHY_DEPTH - 1
  <2> DEFINE m == 2^HIERARCHY_DEPTH
  <2>1. m \in Nat \ {0}
    BY <1>2
  <2> HIDE DEF m
  <2>2. identity % m \in 0..m - 1
    BY <1>1, <2>1
  <2> QED BY <2>2 DEF m
<1>4. node = [len |-> HIERARCHY_DEPTH, path |-> identity % 2^HIERARCHY_DEPTH]
  BY DEF node, number, new, canonicalized
<1>5. HIERARCHY_DEPTH \in 0..HIERARCHY_DEPTH
  BY DepthAssumption
<1> QED BY <1>3, <1>4, <1>5, CellIs

\* The nodes on the way down to it contain it.
LEMMA WalkIs ==
  ASSUME identity \in Word, NEW i \in 1..HIERARCHY_DEPTH
  PROVE  /\ DOMAIN walk(node) = 1..HIERARCHY_DEPTH
         /\ walk(node)[i] \in Cell /\ walk(node)[i].len = i
         /\ contains(walk(node)[i], node)
<1>1. /\ node.len = HIERARCHY_DEPTH /\ node.path \in 0..2^HIERARCHY_DEPTH - 1
      /\ HIERARCHY_DEPTH \in Nat
  BY NodeIs, CellType, DepthAssumption
<1> DEFINE p == node.path \div 2^(HIERARCHY_DEPTH - i)
<1>2. p \in 0..2^i - 1
  <2>1. HIERARCHY_DEPTH - i \in 0..HIERARCHY_DEPTH
        /\ HIERARCHY_DEPTH - (HIERARCHY_DEPTH - i) = i
    BY <1>1
  <2> QED BY <1>1, <2>1, ShiftBound
<1>3. p % 2^i = p
  <2>1. 2^i \in Nat \ {0}
    BY PowerPositive
  <2> DEFINE m == 2^i
  <2>2. m \in Nat \ {0} /\ p \in 0..m - 1
    BY <1>2, <2>1
  <2> HIDE DEF m, p
  <2>3. p % m = p
    BY <2>2, NoHigherBits
  <2> QED BY <2>3 DEF m
<1>4. walk(node)[i] = [len |-> i, path |-> p] /\ DOMAIN walk(node) = 1..HIERARCHY_DEPTH
  BY <1>1, <1>3 DEF walk, new, canonicalized
<1>5. [len |-> i, path |-> p] \in Cell
  <2> HIDE DEF p
  <2>1. i \in 0..HIERARCHY_DEPTH
    BY <1>1
  <2> QED BY <1>2, <2>1, CellIs
<1>6. contains(walk(node)[i], node)
  BY <1>1, <1>4 DEF contains
<1> QED BY <1>4, <1>5, <1>6

\* A cell above an identity has the first part of the identity's HIBE identity.
LEMMA MappedAbove ==
  ASSUME identity \in Word, NEW n \in Cell, contains(n, node)
  PROVE  mapped(n) = [i \in 1..n.len |-> mapped(node)[i]]
<1>1. node \in Cell
  BY NodeIs
<1>2. \A i \in 1..n.len : mapped(n)[i] = mapped(node)[i]
  BY <1>1, ContainsIsPrefix
<1> QED BY <1>2, MappedIs

\* Of overlapping cells one contains the other.
LEMMA NestedCells ==
  ASSUME NEW a \in Cell, NEW b \in Cell, NEW c \in Cell,
         contains(a, c), contains(b, c), a.len <= b.len
  PROVE  contains(a, b)
<1>1. /\ a.len \in Nat /\ b.len \in Nat
  BY CellType, DepthAssumption
<1>2. \A i \in 1..a.len : i \in 1..b.len /\ mapped(a)[i] = mapped(c)[i] /\ mapped(b)[i] = mapped(c)[i]
  BY <1>1, ContainsIsPrefix
<1> QED BY <1>2, ContainsIsPrefix

-----------------------------------------------------------------------------
(* The parts of the identities below a cell.                               *)

Below(n) == {x \in Word : contains(n, number(x))}

\* The identities below a cell: any bits above the depth of the tree, and any
\* below the cell.
LEMMA BelowIs ==
  ASSUME NEW n \in Cell, NEW x \in Word
  PROVE  contains(n, number(x))
           <=> (x % 2^HIERARCHY_DEPTH) \div 2^(HIERARCHY_DEPTH - n.len) = n.path
<1>1. n.len <= HIERARCHY_DEPTH
  BY CellType, DepthAssumption
<1> QED BY <1>1 DEF contains, number, new, canonicalized

\* How many they are.
LEMMA BelowCount ==
  ASSUME NEW n \in Cell
  PROVE  Cardinality(Below(n)) = subtree_size(n) * 2^(WORD_BITS - HIERARCHY_DEPTH)
<1> DEFINE h == WORD_BITS - HIERARCHY_DEPTH
           l == HIERARCHY_DEPTH - n.len
           H == 2^h
           L == 2^l
           P == 2^n.len
           S == (0..H - 1) \X (0..L - 1)
<1>1. /\ HIERARCHY_DEPTH \in Nat /\ WORD_BITS \in Nat
      /\ h \in Nat /\ l \in Nat /\ n.len \in Nat /\ n.path \in 0..P - 1
      /\ h + HIERARCHY_DEPTH = WORD_BITS /\ n.len + l = HIERARCHY_DEPTH
  BY CellType, DepthAssumption
<1>2. H \in Nat \ {0} /\ L \in Nat \ {0} /\ P \in Nat \ {0}
  BY <1>1, PowerPositive
<1>3. 2^HIERARCHY_DEPTH = P * L
  <2>1. 2^(n.len + l) = 2^n.len * 2^l
    BY <1>1, PowerSplits
  <2> QED BY <1>1, <2>1
<1>4. 2^WORD_BITS = H * (P * L)
  <2>1. 2^(h + HIERARCHY_DEPTH) = 2^h * 2^HIERARCHY_DEPTH
    BY <1>1, PowerSplits
  <2> QED BY <1>1, <1>3, <2>1
<1>5. /\ IsFiniteSet(S) /\ Cardinality(S) = H * L
  <2> HIDE DEF H, L
  <2>1. /\ IsFiniteSet(0..H - 1) /\ Cardinality(0..H - 1) = H
        /\ IsFiniteSet(0..L - 1) /\ Cardinality(0..L - 1) = L
    BY <1>2, FS_Interval, SMTT(60)
  <2> DEFINE A == 0..H - 1
             B == 0..L - 1
  <2>2. /\ IsFiniteSet(A) /\ Cardinality(A) = H
        /\ IsFiniteSet(B) /\ Cardinality(B) = L
    BY <2>1
  <2>3. S = A \X B
    BY DEF S
  <2> HIDE DEF A, B
  <2> QED BY <2>2, <2>3, FS_Product
<1> DEFINE at(u, v) == (P * L) * u + (L * n.path + v)
           f == [s \in S |-> at(s[1], s[2])]
           q == n.path
<1> HIDE DEF H, L, P, S
<1>6. P * L \in Nat \ {0}
  BY <1>2
<1>7. ASSUME NEW u \in 0..H - 1, NEW v \in 0..L - 1
      PROVE  /\ at(u, v) \in Below(n)
             /\ u = at(u, v) \div (P * L)
             /\ v = (at(u, v) % (P * L)) % L
  <2> DEFINE w == L * n.path + v
             m == P * L
  <2>1. n.path \in Nat /\ v \in Nat /\ L * n.path \in Nat /\ u \in Nat
    BY <1>1, <1>2
  <2>2. w \in 0..m - 1
    <3>1. L * n.path <= L * (P - 1)
      BY <1>1, <1>2
    <3>2. L * (P - 1) = P * L - L
      BY <1>2
    <3> QED BY <1>2, <2>1, <3>1, <3>2
  <2>3. w \div L = n.path /\ w % L = v
    <3>1. w \in Nat /\ n.path \in Int
      BY <2>1
    <3>2. w \div L = n.path
      <4>1. w = L * n.path + v
        OBVIOUS
      <4> HIDE DEF w
      <4> QED BY <1>2, <3>1, <4>1, QuotientUnique
    <3>3. w = L * (w \div L) + (w % L)
      <4> HIDE DEF w
      <4> QED BY <1>2, <3>1
    <3> DEFINE z == w % L
    <3>4. L * n.path + v = L * n.path + z /\ z \in Int
      <4>1. z \in Int
        <5> HIDE DEF w
        <5> QED BY <1>2, <3>1
      <4> HIDE DEF z
      <4> QED BY <3>2, <3>3, <4>1 DEF z
    <3>5. z = v
      <4> HIDE DEF z, w
      <4> QED BY <2>1, <3>4
    <3> QED BY <3>2, <3>5
  <2>4. at(u, v) \div m = u /\ at(u, v) % m = w /\ at(u, v) \in Nat /\ at(u, v) < H * m
    <3> HIDE DEF w, m
    <3>1. m \in Nat \ {0} /\ at(u, v) = m * u + w
      BY <1>6 DEF w, m
    <3>2. m * u \in Nat /\ m * u + w \in Nat
      BY <2>1, <2>2, <3>1
    <3>3. (m * u + w) \div m = u
      <4> DEFINE x == m * u + w
      <4>1. x = m * u + w /\ x \in Nat /\ u \in Int
        BY <2>1, <3>2
      <4> HIDE DEF x
      <4>2. x \div m = u
        BY <2>2, <3>1, <4>1, QuotientUnique
      <4> QED BY <4>2 DEF x
    <3> DEFINE x == m * u + w
    <3>4. x = m * (x \div m) + (x % m) /\ x % m \in Int
      <4> HIDE DEF x
      <4>1. x \in Nat
        BY <3>2 DEF x
      <4> QED BY <3>1, <4>1
    <3>5. (m * u + w) % m = w
      <4> DEFINE y == x % m
      <4>1. x = m * u + y /\ y \in Int
        <5>1. x \div m = u
          BY <3>3
        <5> HIDE DEF x
        <5> QED BY <3>4, <5>1
      <4> HIDE DEF y
      <4>2. y = w
        BY <2>2, <3>2, <4>1
      <4> QED BY <4>2 DEF y
    <3>6. m * u <= m * (H - 1)
      BY <1>2, <3>1
    <3>7. m * (H - 1) = H * m - m
      BY <1>2, <3>1
    <3>8. H * m \in Nat
      BY <1>2, <3>1
    <3>9. m * u + w < H * m
      BY <2>2, <3>1, <3>2, <3>6, <3>7, <3>8
    <3> QED BY <3>1, <3>2, <3>3, <3>5, <3>9
  <2>5. at(u, v) \in Word
    <3>1. 2^WORD_BITS = H * m
      BY <1>4
    <3>2. H * m \in Nat
      BY <1>2, <1>6
    <3> DEFINE x == at(u, v)
    <3> HIDE DEF x, m
    <3>3. x \in Nat /\ x < H * m
      BY <2>4 DEF x
    <3>4. x \in 0..H * m - 1
      BY <3>2, <3>3
    <3> QED BY <3>1, <3>4 DEF Word, x
  <2>6. contains(n, number(at(u, v)))
    <3>1. (at(u, v) % 2^HIERARCHY_DEPTH) \div 2^l = n.path
      BY <1>3, <2>3, <2>4 DEF L
    <3> QED BY <2>5, <3>1, BelowIs
  <2> QED BY <2>3, <2>4, <2>5, <2>6 DEF Below
<1>8. ASSUME NEW x \in Below(n)
      PROVE  \E s \in S : f[s] = x
  <2> DEFINE m == P * L
             u == x \div m
             w == x % m
             v == w % L
  <2>1. x \in Nat /\ x < H * m /\ x \in Word
    <3>1. 2^WORD_BITS \in Nat
      BY <1>1, PowerPositive
    <3>2. x \in 0..2^WORD_BITS - 1
      BY DEF Below, Word
    <3> QED BY <1>4, <3>1, <3>2 DEF Word
  <2>2. u \in Nat /\ w \in 0..m - 1 /\ x = m * u + w
    <3> HIDE DEF m
    <3>1. m \in Nat \ {0}
      BY <1>6 DEF m
    <3> QED BY <2>1, <3>1
  <2>3. w \div L = n.path
    BY <1>3, <2>1, BelowIs DEF Below, L
  <2>4. v \in 0..L - 1 /\ w = L * n.path + v
    <3>1. w \in Nat
      BY <2>2
    <3> HIDE DEF w
    <3>2. w = L * (w \div L) + (w % L) /\ w % L \in 0..L - 1
      BY <1>2, <3>1
    <3> QED BY <2>3, <3>2
  <2>5. u \in 0..H - 1
    <3> HIDE DEF u, w, m
    <3>1. m \in Nat \ {0}
      BY <1>6 DEF m
    <3>2. ASSUME u >= H PROVE FALSE
      <4>1. m * u >= m * H /\ m * u \in Nat /\ m * H = H * m /\ m * H \in Nat
        BY <1>2, <2>2, <3>1, <3>2
      <4> QED BY <2>1, <2>2, <4>1
    <3> QED BY <1>2, <2>2, <3>2
  <2>6. <<u, v>> \in S
    BY <2>4, <2>5 DEF S
  <2>7. f[<<u, v>>] = at(u, v)
    BY <2>6
  <2>8. at(u, v) = x
    <3> HIDE DEF u, w, v
    <3> QED BY <2>2, <2>4
  <2> QED BY <2>6, <2>7, <2>8
<1>9. f \in Bijection(S, Below(n))
  <2>1. \A s \in S : s[1] \in 0..H - 1 /\ s[2] \in 0..L - 1 /\ s = <<s[1], s[2]>>
    BY DEF S
  <2>2. f \in [S -> Below(n)]
    BY <1>7, <2>1
  <2>3. ASSUME NEW s \in S, NEW t \in S, f[s] = f[t]
        PROVE  s = t
    <3>1. at(s[1], s[2]) = at(t[1], t[2])
      BY <2>3
    <3>2. s[1] = t[1] /\ s[2] = t[2]
      BY <1>7, <2>1, <3>1
    <3> QED BY <2>1, <3>2
  <2> HIDE DEF f
  <2> QED BY <1>8, <2>2, <2>3 DEF Bijection, Injection, Surjection, IsInjective
<1>10. Cardinality(Below(n)) = Cardinality(S)
  BY <1>5, <1>9, FS_Bijection DEF ExistsBijection
<1>11. subtree_size(n) = L
  BY DEF subtree_size, L
<1> QED BY <1>2, <1>5, <1>10, <1>11 DEF H

-----------------------------------------------------------------------------
(* Exponents, which are added and multiplied modulo the order.             *)

\* A remainder is unique.
LEMMA RemainderUnique ==
  ASSUME NEW a \in Int, NEW b \in Int, NEW q \in Int, a = b + ORDER * q
  PROVE  a % ORDER = b % ORDER
<1>1. ORDER \in Nat \ {0}
  BY OrderAssumption
<1> DEFINE x == a \div ORDER
           r == a % ORDER
           y == b \div ORDER
           s == b % ORDER
<1>2. /\ x \in Int /\ r \in 0..ORDER - 1 /\ a = ORDER * x + r
      /\ y \in Int /\ s \in 0..ORDER - 1 /\ b = ORDER * y + s
  BY <1>1
<1> HIDE DEF x, r, y, s
<1> DEFINE d == (x - y) - q
<1>3. ORDER * d = s - r /\ d \in Int
  BY <1>1, <1>2
<1> HIDE DEF d
<1>4. d < 1 /\ d > -1
  BY <1>1, <1>2, <1>3
<1>5. d = 0
  BY <1>3, <1>4
<1> QED BY <1>1, <1>2, <1>3, <1>5 DEF r, s

\* Remainders of sums and products.
LEMMA RemainderOfSum ==
  ASSUME NEW a \in Int, NEW b \in Int
  PROVE  /\ a % ORDER \in 0..ORDER - 1
         /\ ((a % ORDER) + b) % ORDER = (a + b) % ORDER
         /\ (a + (b % ORDER)) % ORDER = (a + b) % ORDER
<1>1. ORDER \in Nat \ {0}
  BY OrderAssumption
<1> DEFINE x == a \div ORDER
           r == a % ORDER
           y == b \div ORDER
           s == b % ORDER
<1>2. /\ x \in Int /\ r \in 0..ORDER - 1 /\ a = ORDER * x + r
      /\ y \in Int /\ s \in 0..ORDER - 1 /\ b = ORDER * y + s
  BY <1>1
<1> HIDE DEF x, r, y, s
<1>3. a + b = (r + b) + ORDER * x /\ a + b = (a + s) + ORDER * y
  BY <1>1, <1>2
<1>4. (a + b) % ORDER = (r + b) % ORDER
  <2>1. a + b \in Int /\ r + b \in Int
    BY <1>2
  <2> QED BY <1>2, <1>3, <2>1, RemainderUnique
<1>5. (a + b) % ORDER = (a + s) % ORDER
  <2>1. a + b \in Int /\ a + s \in Int
    BY <1>2
  <2> QED BY <1>2, <1>3, <2>1, RemainderUnique
<1> QED BY <1>2, <1>4, <1>5 DEF r, s

\* Multiples of the order leave nothing.
LEMMA RemainderOfProduct ==
  ASSUME NEW a \in Int, NEW b \in Int
  PROVE  (a * (b % ORDER)) % ORDER = (a * b) % ORDER
<1>1. ORDER \in Nat \ {0}
  BY OrderAssumption
<1> DEFINE y == b \div ORDER
           s == b % ORDER
<1>2. y \in Int /\ s \in 0..ORDER - 1 /\ b = ORDER * y + s
  BY <1>1
<1> HIDE DEF y, s
<1>3. a * b = a * s + ORDER * (a * y)
  BY <1>1, <1>2
<1>4. a * b \in Int /\ a * s \in Int /\ a * y \in Int
  BY <1>2
<1>5. (a * b) % ORDER = (a * s) % ORDER
  BY <1>3, <1>4, RemainderUnique
<1> QED BY <1>5 DEF s

\* A scalar is its own remainder.
LEMMA ScalarRemainder ==
  ASSUME NEW a \in Scalar
  PROVE  a % ORDER = a /\ (a + ORDER) % ORDER = a
<1>1. ORDER \in Nat \ {0} /\ a \in Nat
  BY OrderAssumption DEF Scalar
<1>2. a % ORDER = a
  BY <1>1, NoHigherBits DEF Scalar
<1>3. (a + ORDER) % ORDER = a % ORDER
  <2> DEFINE b == a + ORDER
         q == 1
  <2>1. b = a + ORDER * q /\ b \in Int /\ q \in Int /\ a \in Int
    BY <1>1
  <2> HIDE DEF b, q
  <2>2. b % ORDER = a % ORDER
    BY <1>1, <2>1, RemainderUnique
  <2> QED BY <2>2 DEF b
<1> QED BY <1>2, <1>3

-----------------------------------------------------------------------------
(* Products, cached or not.                                                *)

\* What identity_product is: the exponents of g3 and of the elements.
Hash(id) == [j \in Generator |-> IF j = G3 THEN 1 ELSE IF j \in 1..Len(id) THEN id[j] ELSE 0]

Caches == {generate(matrix) : matrix \in Matrices} \cup {<<>>}

\* Whatever is cached, products are the same.
LEMMA ProductIs ==
  ASSUME NEW cache \in Caches, NEW i, NEW element
  PROVE  product(cache, i, element) = generator(i) ** element
<1>1. CASE cache = <<>>
  BY <1>1 DEF product
<1>2. CASE cache \in {generate(matrix) : matrix \in Matrices}
  <2>1. PICK matrix : cache = generate(matrix)
    BY <1>2
  <2> SUFFICES ASSUME <<i, element>> \in DOMAIN cache
               PROVE  cache[<<i, element>>] = generator(i) ** element
    BY DEF product
  <2> QED BY <2>1 DEF generate
<1> QED BY <1>1, <1>2 DEF Caches

Addend(id, i, j) == IF i = j THEN id[i] ELSE 0

\* One exponent of a sum of products.
LEMMA ExponentIs ==
  ASSUME NEW cache \in Caches, NEW id \in Seq({1, 2}), Len(id) <= HIERARCHY_DEPTH,
         NEW i \in 1..Len(id), NEW j \in Generator
  PROVE  product(cache, i, id[i])[j] = Addend(id, i, j)
<1>1. id[i] \in {1, 2}
  OBVIOUS
<1>2. id[i] \in Scalar /\ 0 \in Scalar
  BY <1>1, OrderAssumption DEF Scalar
<1>3. id[i] % ORDER = id[i] /\ 0 % ORDER = 0
  BY <1>2, ScalarRemainder
<1>4. product(cache, i, id[i])[j] = ((IF j = i THEN 1 ELSE 0) * id[i]) % ORDER
  BY ProductIs DEF **, generator
<1>5. 1 * id[i] = id[i] /\ 0 * id[i] = 0
  BY <1>1
<1> QED BY <1>3, <1>4, <1>5 DEF Addend

SumIter(g, s, cache, id, j) ==
  IF s = {} THEN 0
  ELSE product(cache, CHOOSE x \in s : TRUE, id[CHOOSE x \in s : TRUE])[j]
         + g[s \ {CHOOSE x \in s : TRUE}]

\* The sum of the j-th exponents has one addend that is not 0, or none.
LEMMA SumIs ==
  ASSUME NEW cache \in Caches, NEW id \in Seq({1, 2}), Len(id) <= HIERARCHY_DEPTH,
         NEW j \in Generator
  PROVE  MapThenSumSet(LAMBDA i : product(cache, i, id[i])[j], DOMAIN id)
           = IF j \in 1..Len(id) THEN id[j] ELSE 0
<1> DEFINE n == Len(id)
           S == SUBSET (1..n)
           f == [s \in S |-> IF j \in s THEN id[j] ELSE 0]
           e == CHOOSE e : e = [s \in S |-> SumIter(e, s, cache, id, j)]
<1>1. n \in Nat /\ DOMAIN id = 1..n /\ \A i \in 1..n : id[i] \in Int
  OBVIOUS
<1>2. ASSUME NEW s \in S, s # {}
      PROVE  /\ (CHOOSE x \in s : TRUE) \in s
             /\ s \ {CHOOSE x \in s : TRUE} \in S
             /\ product(cache, CHOOSE x \in s : TRUE, id[CHOOSE x \in s : TRUE])[j]
                  + f[s \ {CHOOSE x \in s : TRUE}] = f[s]
  <2> DEFINE c == CHOOSE x \in s : TRUE
  <2>1. c \in s
    BY <1>2
  <2> HIDE DEF c
  <2>2. c \in 1..n /\ s \ {c} \in S
    BY <2>1
  <2>3. product(cache, c, id[c])[j] = Addend(id, c, j)
    BY <2>2, ExponentIs
  <2>4. f[s \ {c}] = IF j \in s /\ j # c THEN id[j] ELSE 0
    BY <2>2
  <2>5. f[s] = IF j \in s THEN id[j] ELSE 0
    OBVIOUS
  <2>6. j \in s => id[j] \in Int
    BY <1>1
  <2>7. Addend(id, c, j) + f[s \ {c}] = f[s]
    <3> HIDE DEF f, S
    <3> QED BY <2>1, <2>4, <2>5, <2>6 DEF Addend
  <2> QED BY <2>1, <2>2, <2>3, <2>7 DEF c
<1>3. f = [s \in S |-> SumIter(f, s, cache, id, j)]
  <2>1. ASSUME NEW s \in S
        PROVE  f[s] = SumIter(f, s, cache, id, j)
    <3>1. CASE s = {}
      BY <3>1 DEF SumIter
    <3>2. CASE s # {}
      <4> HIDE DEF f
      <4> QED BY <1>2, <3>2 DEF SumIter
    <3> QED BY <3>1, <3>2
  <2> QED BY <2>1
<1>4. e = [s \in S |-> SumIter(e, s, cache, id, j)]
  <2> HIDE DEF f, S
  <2> QED BY <1>3
<1>5. MapThenSumSet(LAMBDA i : product(cache, i, id[i])[j], DOMAIN id) = e[1..n]
  BY <1>1 DEF MapThenSumSet, MapThenFoldSet, SumIter, e
<1> HIDE DEF e
<1> DEFINE Bad(k) == \E s \in S : Cardinality(s) = k /\ e[s] # f[s]
           T == {k \in Nat : Bad(k)}
<1>6. T = {}
  <2> SUFFICES ASSUME T # {} PROVE FALSE
    OBVIOUS
  <2>1. PICK k \in T : \A l \in T : k <= l
    <3>1. T \subseteq Nat
      OBVIOUS
    <3> HIDE DEF T
    <3> QED BY <3>1, Least
  <2>2. PICK s \in S : Cardinality(s) = k /\ e[s] # f[s]
    OBVIOUS
  <2>3. s # {}
    <3>1. e[{}] = 0 /\ f[{}] = 0
      BY <1>4 DEF SumIter
    <3> QED BY <2>2, <3>1
  <2> DEFINE c == CHOOSE x \in s : TRUE
             t == s \ {c}
  <2>4. c \in s /\ t \in S
    BY <1>2, <2>3
  <2>5. e[t] # f[t]
    <3>1. e[s] = product(cache, c, id[c])[j] + e[t]
      BY <1>4, <2>3 DEF SumIter
    <3>2. f[s] = product(cache, c, id[c])[j] + f[t]
      BY <1>2, <2>3
    <3> QED BY <2>2, <3>1, <3>2
  <2>6. Cardinality(t) \in Nat /\ k \in Nat /\ Cardinality(t) = k - 1
    <3>1. IsFiniteSet(1..n)
      BY <1>1, FS_Interval
    <3>2. IsFiniteSet(s)
      BY <3>1, FS_Subset
    <3> HIDE DEF c
    <3> QED BY <2>2, <2>4, <3>2, FS_RemoveElement, FS_CardinalityType
  <2>7. Cardinality(t) \in T
    BY <2>4, <2>5, <2>6
  <2>8. k <= Cardinality(t)
    <3> HIDE DEF T, t
    <3> QED BY <2>1, <2>7
  <2> QED BY <2>6, <2>8
<1>7. e[1..n] = f[1..n]
  <2>1. 1..n \in S
    OBVIOUS
  <2>2. IsFiniteSet(1..n)
    BY <1>1, FS_Interval
  <2>3. Cardinality(1..n) \in Nat
    BY <2>2, FS_CardinalityType
  <2>4. Cardinality(1..n) \notin T
    <3> HIDE DEF T
    <3> QED BY <1>6
  <2> QED BY <2>1, <2>3, <2>4
<1>8. f[1..n] = IF j \in 1..Len(id) THEN id[j] ELSE 0
  OBVIOUS
<1> HIDE DEF f
<1> QED BY <1>5, <1>7, <1>8

\* What a random number is multiplied by does not depend on the cache.
LEMMA IdentityProductIs ==
  ASSUME NEW cache \in Caches, NEW id \in Seq({1, 2}), Len(id) <= HIERARCHY_DEPTH
  PROVE  identity_product(cache, id) = Hash(id)
<1>1. ASSUME NEW j \in Generator
      PROVE  (generator(G3)[j]
               + MapThenSumSet(LAMBDA i : product(cache, i, id[i])[j], DOMAIN id)) % ORDER
               = Hash(id)[j]
  <2>1. MapThenSumSet(LAMBDA i : product(cache, i, id[i])[j], DOMAIN id)
           = IF j \in 1..Len(id) THEN id[j] ELSE 0
    BY SumIs
  <2>2. generator(G3)[j] = IF j = G3 THEN 1 ELSE 0
    BY DEF generator
  <2>3. j \in 1..Len(id) => id[j] \in {1, 2}
    OBVIOUS
  <2>4. G3 \notin 1..Len(id)
    BY DEF G3
  <2>5. (generator(G3)[j]
          + MapThenSumSet(LAMBDA i : product(cache, i, id[i])[j], DOMAIN id)) = Hash(id)[j]
    BY <2>1, <2>2, <2>3, <2>4 DEF Hash
  <2>6. Hash(id)[j] \in Scalar
    BY <2>3, OrderAssumption DEF Hash, Scalar
  <2> QED BY <2>5, <2>6, ScalarRemainder
<1> QED BY <1>1 DEF identity_product, Hash

-----------------------------------------------------------------------------
(* Keys.                                                                   *)

Exponent(id, j, r) == ((IF j = MASTER THEN 1 ELSE 0) + Hash(id)[j] * r) % ORDER

KeyOf(id, r) ==
  <<[j \in Generator |-> Exponent(id, j, r)],
    r,
    [i \in 1..HIERARCHY_DEPTH - Len(id) |->
       [j \in Generator |-> IF j = Len(id) + i THEN r ELSE 0]]>>

\* The exponents of a key are small numbers.
LEMMA HashType ==
  ASSUME NEW id \in Seq({1, 2}), NEW j \in Generator
  PROVE  Hash(id)[j] \in {0, 1, 2}
<1>1. j \in 1..Len(id) => id[j] \in {1, 2}
  OBVIOUS
<1> QED BY <1>1 DEF Hash

\* A multiple of a generator.
LEMMA MultipleIs ==
  ASSUME NEW i, NEW r \in Scalar
  PROVE  generator(i) ** r = [j \in Generator |-> IF j = i THEN r ELSE 0]
<1>1. r \in Int /\ 1 * r = r /\ 0 * r = 0 /\ 0 \in Scalar
  BY OrderAssumption DEF Scalar
<1>2. r % ORDER = r /\ 0 % ORDER = 0
  BY <1>1, ScalarRemainder
<1> QED BY <1>1, <1>2 DEF generator, **

\* What the authority generates.
LEMMA GeneratedIs ==
  ASSUME NEW cache \in Caches, NEW id \in Seq({1, 2}), Len(id) <= HIERARCHY_DEPTH,
         NEW r \in Scalar
  PROVE  generate_key(cache, id, r) = KeyOf(id, r)
<1>1. r \in Int
  BY OrderAssumption DEF Scalar
<1>2. ASSUME NEW j \in Generator
      PROVE  (generator(MASTER)[j] + ((Hash(id)[j] * r) % ORDER)) % ORDER = Exponent(id, j, r)
  <2> DEFINE m == IF j = MASTER THEN 1 ELSE 0
             h == Hash(id)[j] * r
  <2>1. m \in Int /\ h \in Int
    BY <1>1, HashType
  <2>2. generator(MASTER)[j] = m
    BY DEF generator
  <2> HIDE DEF m, h
  <2>3. (m + (h % ORDER)) % ORDER = (m + h) % ORDER
    BY <2>1, RemainderOfSum
  <2> QED BY <2>2, <2>3 DEF m, h, Exponent
<1>3. generator(MASTER) ++ (Hash(id) ** r) = [j \in Generator |-> Exponent(id, j, r)]
  BY <1>2 DEF ++, **
<1>4. \A i \in 1..HIERARCHY_DEPTH - Len(id) :
        generator(Len(id) + i) ** r = [j \in Generator |-> IF j = Len(id) + i THEN r ELSE 0]
  BY MultipleIs
<1> QED BY <1>3, <1>4, IdentityProductIs DEF generate_key, KeyOf

\* What is derived: the key with the sum of the two random numbers.
LEMMA DerivedIs ==
  ASSUME NEW cache \in Caches, NEW id \in Seq({1, 2}), Len(id) + 1 <= HIERARCHY_DEPTH,
         NEW e \in {1, 2}, NEW r \in Scalar, NEW t \in Scalar
  PROVE  /\ (r + t) % ORDER \in Scalar
         /\ derive_key(cache, KeyOf(id, r), id, e, t)
              = KeyOf(Append(id, e), (r + t) % ORDER)
<1> DEFINE n == Len(id)
           next == Append(id, e)
           s == (r + t) % ORDER
           k == KeyOf(id, r)
<1>1. /\ r \in Int /\ t \in Int /\ r + t \in Int /\ ORDER \in Nat \ {0} /\ n \in Nat
      /\ HIERARCHY_DEPTH \in Nat
  BY OrderAssumption, DepthAssumption DEF Scalar
<1>2. s \in Scalar /\ s \in Int
  <2>1. (r + t) % ORDER \in 0..ORDER - 1
    BY <1>1, RemainderOfSum
  <2> QED BY <1>1, <2>1 DEF Scalar
<1>3. /\ next \in Seq({1, 2}) /\ Len(next) = n + 1
      /\ \A i \in 1..n : next[i] = id[i]
      /\ next[n + 1] = e
  OBVIOUS
<1>4. /\ k[1] = [j \in Generator |-> Exponent(id, j, r)]
      /\ k[2] = r
      /\ k[3] = [i \in 1..HIERARCHY_DEPTH - n |->
                   [j \in Generator |-> IF j = n + i THEN r ELSE 0]]
  BY DEF KeyOf
<1>5. Len(k[3]) = HIERARCHY_DEPTH - n
  BY <1>1, <1>4
<1> HIDE DEF s
<1>6. ASSUME NEW j \in Generator
      PROVE  (((Exponent(id, j, r) + (((IF j = n + 1 THEN r ELSE 0) * e) % ORDER)) % ORDER)
                + ((Hash(next)[j] * t) % ORDER)) % ORDER = Exponent(next, j, s)
  <2> DEFINE m == IF j = MASTER THEN 1 ELSE 0
             h == Hash(id)[j]
             g == IF j = n + 1 THEN 1 ELSE 0
             H == Hash(next)[j]
             a == m + h * r
             b == (IF j = n + 1 THEN r ELSE 0) * e
             c == H * t
  <2>1. /\ m \in Int /\ h \in Int /\ H \in Int /\ e \in Int
        /\ a \in Int /\ b \in Int /\ c \in Int
    <3>1. h \in Int /\ H \in Int
      <4> HIDE DEF next
      <4>1. Hash(id)[j] \in {0, 1, 2} /\ Hash(next)[j] \in {0, 1, 2}
        BY <1>3, HashType
      <4> QED BY <4>1
    <3> HIDE DEF h, H
    <3> QED BY <1>1, <3>1
  <2>2. h * r + b = H * r
    <3>1. CASE j = n + 1
      <4>1. j # G3 /\ j \notin 1..Len(id) /\ j \in 1..Len(next)
        BY <1>1, <1>3, <3>1 DEF G3
      <4>2. h = 0 /\ H = e
        BY <1>3, <3>1, <4>1 DEF Hash
      <4>3. b = r * e
        BY <3>1
      <4>4. r * e = e * r
        BY <1>1
      <4> HIDE DEF h, H, b
      <4> QED BY <1>1, <4>2, <4>3, <4>4
    <3>2. CASE j # n + 1
      <4>1. j \in 1..Len(id) <=> j \in 1..Len(next)
        BY <1>1, <1>3, <3>2
      <4>2. j \in 1..Len(id) => id[j] = next[j]
        BY <1>3
      <4>3. h = H
        BY <4>1, <4>2 DEF Hash
      <4>4. b = 0
        BY <2>1, <3>2
      <4> HIDE DEF h, H, b
      <4> QED BY <1>1, <2>1, <4>3, <4>4
    <3> QED BY <3>1, <3>2
  <2>3. (a + b) + c = m + H * (r + t)
    <3>1. H * (r + t) = H * r + H * t
      <4> HIDE DEF H
      <4> QED BY <1>1, <2>1
    <3> DEFINE x == h * r
               y == H * r
               z == H * t
    <3>2. x \in Int /\ y \in Int /\ z \in Int
      <4> HIDE DEF h, H
      <4> QED BY <1>1, <2>1
    <3>3. x + b = y /\ c = z /\ a = m + x /\ H * (r + t) = y + z
      BY <2>2, <3>1
    <3> HIDE DEF x, y, z, a, b, c, H, m
    <3> QED BY <2>1, <3>2, <3>3
  <2>4. Exponent(next, j, s) = (m + H * (r + t)) % ORDER
    <3> DEFINE u == H * s
               v == H * (r + t)
    <3>1. u \in Int /\ v \in Int
      <4> HIDE DEF H
      <4> QED BY <1>1, <1>2, <2>1
    <3>2. u % ORDER = v % ORDER
      <4> HIDE DEF H
      <4> QED BY <1>1, <2>1, RemainderOfProduct DEF s
    <3>3. Exponent(next, j, s) = (m + u) % ORDER
      BY DEF Exponent
    <3> HIDE DEF u
    <3>4. (m + u) % ORDER = (m + (u % ORDER)) % ORDER
      <4> HIDE DEF m, v
      <4> QED BY <2>1, <3>1, RemainderOfSum
    <3>5. (m + v) % ORDER = (m + (v % ORDER)) % ORDER
      <4> HIDE DEF m, v
      <4> QED BY <2>1, <3>1, RemainderOfSum
    <3> HIDE DEF m, v
    <3> QED BY <3>2, <3>3, <3>4, <3>5 DEF v
  <2>5. Exponent(id, j, r) = a % ORDER
    BY DEF Exponent
  <2> HIDE DEF a, b, c, m, H
  <2>6. ((a % ORDER) + (b % ORDER)) % ORDER = (a + b) % ORDER
    <3>1. a % ORDER \in Int
      BY <1>1, <2>1
    <3> QED BY <2>1, <3>1, RemainderOfSum
  <2>7. (((a + b) % ORDER) + (c % ORDER)) % ORDER = ((a + b) + c) % ORDER
    <3> DEFINE d == a + b
    <3>1. d \in Int /\ d % ORDER \in Int
      BY <1>1, <2>1
    <3> HIDE DEF d
    <3>2. ((d % ORDER) + (c % ORDER)) % ORDER = (d + c) % ORDER
      BY <2>1, <3>1, RemainderOfSum
    <3> QED BY <3>2 DEF d
  <2> QED BY <2>3, <2>4, <2>5, <2>6, <2>7 DEF b, c, H
<1>7. (k[1] ++ (k[3][1] ** e)) ++ (Hash(next) ** t) = [j \in Generator |-> Exponent(next, j, s)]
  <2>1. k[3][1] = [j \in Generator |-> IF j = n + 1 THEN r ELSE 0]
    BY <1>1, <1>4
  <2>2. k[3][1] ** e = [j \in Generator |-> ((IF j = n + 1 THEN r ELSE 0) * e) % ORDER]
    BY <2>1 DEF **
  <2>3. Hash(next) ** t = [j \in Generator |-> (Hash(next)[j] * t) % ORDER]
    BY DEF **
  <2> HIDE DEF k, next, n
  <2>4. k[1] ++ (k[3][1] ** e)
          = [j \in Generator |-> (Exponent(id, j, r)
                                   + (((IF j = n + 1 THEN r ELSE 0) * e) % ORDER)) % ORDER]
    BY <1>4, <2>2 DEF ++
  <2> QED BY <1>6, <2>3, <2>4 DEF ++
<1>8. ASSUME NEW i \in 1..HIERARCHY_DEPTH - n - 1
      PROVE  k[3][i + 1] ++ (generator(n + 1 + i) ** t)
               = [j \in Generator |-> IF j = n + 1 + i THEN s ELSE 0]
  <2>1. i + 1 \in 1..HIERARCHY_DEPTH - n
    BY <1>1
  <2>2. k[3][i + 1] = [j \in Generator |-> IF j = n + (i + 1) THEN r ELSE 0]
    BY <1>4, <2>1
  <2>3. generator(n + 1 + i) ** t = [j \in Generator |-> IF j = n + 1 + i THEN t ELSE 0]
    BY MultipleIs
  <2>4. n + (i + 1) = n + 1 + i
    BY <1>1
  <2>5. (0 + 0) % ORDER = 0
    <3>1. 0 \in Scalar
      BY <1>1 DEF Scalar
    <3> QED BY <3>1, ScalarRemainder
  <2> HIDE DEF k, n
  <2> QED BY <2>2, <2>3, <2>4, <2>5 DEF ++, s
<1>9. HIERARCHY_DEPTH - Len(next) = HIERARCHY_DEPTH - n - 1
  BY <1>1, <1>3
<1>10. identity_product(cache, next) = Hash(next)
  BY <1>1, <1>3, IdentityProductIs
<1>11. derive_key(cache, k, id, e, t)
         = <<(k[1] ++ (k[3][1] ** e)) ++ (Hash(next) ** t), (k[2] + t) % ORDER,
             [i \in 1..Len(k[3]) - 1 |-> k[3][i + 1] ++ (generator(n + 1 + i) ** t)]>>
  <2> HIDE DEF k
  <2> QED BY <1>10 DEF derive_key
<1>12. KeyOf(next, s)
         = <<[j \in Generator |-> Exponent(next, j, s)], s,
             [i \in 1..HIERARCHY_DEPTH - n - 1 |->
                [j \in Generator |-> IF j = n + 1 + i THEN s ELSE 0]]>>
  <2> HIDE DEF next
  <2>1. Len(next) = n + 1
    BY <1>3
  <2> QED BY <1>9, <2>1 DEF KeyOf
<1>13. derive_key(cache, k, id, e, t) = KeyOf(next, s)
  <2>1. (k[2] + t) % ORDER = s
    BY <1>4 DEF s
  <2>2. [i \in 1..Len(k[3]) - 1 |-> k[3][i + 1] ++ (generator(n + 1 + i) ** t)]
          = [i \in 1..HIERARCHY_DEPTH - n - 1 |->
                [j \in Generator |-> IF j = n + 1 + i THEN s ELSE 0]]
    <3> HIDE DEF k, n
    <3> QED BY <1>5, <1>8
  <2> HIDE DEF k, n, next
  <2> QED BY <1>7, <1>11, <1>12, <2>1, <2>2
<1> QED BY <1>2, <1>13 DEF s

-----------------------------------------------------------------------------
(* The relay.                                                              *)

KeyInvariant ==
  /\ identity \in Word
  /\ products \in {generate(matrix) : matrix \in Matrices}
  /\ DOMAIN received_keys \subseteq Cell
  /\ \A a, b \in DOMAIN received_keys : contains(a, b) => a = b
  /\ \A cell \in DOMAIN received_keys : received_keys[cell] \in GeneratedKeys(cell)
  /\ pc \in {"find", "none", "derive", "some"}
  /\ pc \in {"derive", "some"} =>
       /\ name \in Cell /\ contains(name, node)
       /\ key \in GeneratedKeys(name)
       /\ subnodes = SubSeq(walk(node), name.len + 1, HIERARCHY_DEPTH)
  /\ pc = "some" => subnodes = <<>>

\* The keys of a cell are the generated ones.
LEMMA GeneratedKeysAre ==
  ASSUME NEW n \in Cell
  PROVE  GeneratedKeys(n) = {KeyOf(mapped(n), r) : r \in Scalar}
<1>1. /\ mapped(n) \in Seq({1, 2}) /\ Len(mapped(n)) <= HIERARCHY_DEPTH
  BY MappedIs, CellType, DepthAssumption
<1>2. <<>> \in Caches
  BY DEF Caches
<1>3. \A r \in Scalar : generate_key(<<>>, mapped(n), r) = KeyOf(mapped(n), r)
  BY <1>1, <1>2, GeneratedIs
<1> QED BY <1>3 DEF GeneratedKeys

\* The nodes still to come, when the cell in hand is one above the identity.
LEMMA StillToCome ==
  ASSUME identity \in Word, NEW n \in Cell
  PROVE  LET rest == SubSeq(walk(node), n.len + 1, HIERARCHY_DEPTH) IN
         /\ rest = [i \in 1..HIERARCHY_DEPTH - n.len |-> walk(node)[n.len + i]]
         /\ rest \in Seq(Cell) /\ Len(rest) = HIERARCHY_DEPTH - n.len
         /\ rest # <<>> =>
              /\ n.len + 1 \in 1..HIERARCHY_DEPTH
              /\ Head(rest) = walk(node)[n.len + 1]
              /\ Tail(rest) = SubSeq(walk(node), n.len + 2, HIERARCHY_DEPTH)
<1>1. n.len \in Nat /\ n.len <= HIERARCHY_DEPTH /\ HIERARCHY_DEPTH \in Nat
  BY CellType, DepthAssumption
<1>2. \A i \in 1..HIERARCHY_DEPTH : walk(node)[i] \in Cell
  BY WalkIs
<1>3. Len(walk(node)) = HIERARCHY_DEPTH /\ walk(node) \in Seq(Cell)
  <2>1. node.len = HIERARCHY_DEPTH
    BY NodeIs
  <2>2. walk(node) = [i \in 1..HIERARCHY_DEPTH |-> walk(node)[i]]
    BY <2>1 DEF walk
  <2> DEFINE w == walk(node)
  <2> HIDE DEF w
  <2> QED BY <1>1, <1>2, <2>2 DEF w
<1> DEFINE w == walk(node)
           rest == SubSeq(w, n.len + 1, HIERARCHY_DEPTH)
<1>4. w \in Seq(Cell) /\ Len(w) = HIERARCHY_DEPTH
  BY <1>3
<1> HIDE DEF w
<1>5. rest = [i \in 1..HIERARCHY_DEPTH - n.len |-> w[n.len + i]]
  <2> DEFINE l == n.len
  <2>1. l \in 0..Len(w)
    BY <1>1, <1>4
  <2> HIDE DEF l
  <2>2. SubSeq(w, l + 1, Len(w)) = [i \in 1..Len(w) - l |-> w[l + i]]
    BY <1>4, <2>1, AfterFirst
  <2> QED BY <1>4, <2>2 DEF l
<1>6. rest \in Seq(Cell) /\ Len(rest) = HIERARCHY_DEPTH - n.len
  <2> DEFINE m == HIERARCHY_DEPTH - n.len
  <2>1. m \in Nat /\ \A i \in 1..m : w[n.len + i] \in Cell
    BY <1>1, <1>4
  <2> HIDE DEF m, rest
  <2> QED BY <1>5, <2>1 DEF m
<1>7. ASSUME rest # <<>>
      PROVE  /\ n.len + 1 \in 1..HIERARCHY_DEPTH
             /\ Head(rest) = w[n.len + 1]
             /\ Tail(rest) = SubSeq(w, n.len + 2, HIERARCHY_DEPTH)
  <2>1. n.len < HIERARCHY_DEPTH
    BY <1>1, <1>6, <1>7
  <2>2. Head(rest) = w[n.len + 1]
    <3>1. rest[1] = w[n.len + 1]
      <4> HIDE DEF rest
      <4> QED BY <1>1, <1>5, <2>1
    <3> HIDE DEF rest
    <3> QED BY <1>6, <1>7, <3>1
  <2>3. Tail(rest) = [i \in 1..HIERARCHY_DEPTH - n.len - 1 |-> w[n.len + 1 + i]]
    <3>1. Tail(rest) = [i \in 1..Len(rest) - 1 |-> rest[i + 1]]
      <4> HIDE DEF rest
      <4> QED BY <1>6, <1>7, AfterHead
    <3>2. \A i \in 1..Len(rest) - 1 : rest[i + 1] = w[n.len + 1 + i]
      <4> HIDE DEF rest
      <4> QED BY <1>1, <1>5, <1>6
    <3> HIDE DEF rest
    <3> QED BY <1>6, <3>1, <3>2
  <2>4. SubSeq(w, n.len + 2, HIERARCHY_DEPTH)
          = [i \in 1..HIERARCHY_DEPTH - n.len - 1 |-> w[n.len + 1 + i]]
    <3> DEFINE l == n.len + 1
    <3>1. l \in 0..Len(w) /\ l + 1 = n.len + 2 /\ Len(w) - l = HIERARCHY_DEPTH - n.len - 1
      BY <1>1, <1>4, <2>1
    <3> HIDE DEF l
    <3>2. SubSeq(w, l + 1, Len(w)) = [i \in 1..Len(w) - l |-> w[l + i]]
      BY <1>4, <3>1, AfterFirst
    <3> QED BY <1>4, <3>1, <3>2 DEF l
  <2>5. n.len + 1 \in 1..HIERARCHY_DEPTH
    BY <1>1, <2>1
  <2> HIDE DEF rest
  <2>6. Tail(rest) = SubSeq(w, n.len + 2, HIERARCHY_DEPTH)
    BY <2>3, <2>4
  <2> QED BY <2>2, <2>5, <2>6
<1> QED BY <1>5, <1>6, <1>7 DEF w

\* The next node on the way down, and what it is derived with.
LEMMA NextIs ==
  ASSUME KeyInvariant, pc = "derive", subnodes # <<>>
  PROVE  LET next == Head(subnodes)
             elements == mapped(next) IN
         /\ next \in Cell /\ next.len = name.len + 1 /\ contains(next, node)
         /\ name.len + 1 <= HIERARCHY_DEPTH
         /\ Front(elements) = mapped(name) /\ Last(elements) \in {1, 2}
         /\ elements = Append(mapped(name), Last(elements))
         /\ Tail(subnodes) = SubSeq(walk(node), next.len + 1, HIERARCHY_DEPTH)
<1> DEFINE next == Head(subnodes)
           n == name.len
<1>1. /\ identity \in Word /\ name \in Cell /\ contains(name, node)
      /\ subnodes = SubSeq(walk(node), n + 1, HIERARCHY_DEPTH)
  BY DEF KeyInvariant
<1>2. /\ n + 1 \in 1..HIERARCHY_DEPTH /\ next = walk(node)[n + 1]
      /\ Tail(subnodes) = SubSeq(walk(node), n + 2, HIERARCHY_DEPTH)
  BY <1>1, StillToCome
<1>3. next \in Cell /\ next.len = n + 1 /\ contains(next, node)
  <2> HIDE DEF next
  <2> QED BY <1>1, <1>2, WalkIs
<1>4. n \in Nat
  BY <1>1, CellType, DepthAssumption
<1> DEFINE m == mapped(next)
<1>5. /\ m = [i \in 1..n + 1 |-> mapped(node)[i]]
      /\ mapped(name) = [i \in 1..n |-> mapped(node)[i]]
  <2> HIDE DEF next
  <2> QED BY <1>1, <1>3, MappedAbove
<1>6. m \in Seq({1, 2}) /\ Len(m) = n + 1
  <2> HIDE DEF next
  <2> QED BY <1>3, MappedIs
<1>7. mapped(name) \in Seq({1, 2}) /\ Len(mapped(name)) = n
  BY <1>1, MappedIs
<1> HIDE DEF m
<1>8. Last(m) = m[n + 1] /\ Last(m) \in {1, 2}
  BY <1>4, <1>6 DEF Last
<1>9. Front(m) = mapped(name)
  <2>1. Front(m) = [i \in 1..n |-> m[i]]
    <3>1. m # <<>> /\ Len(m) - 1 = n
      BY <1>4, <1>6
    <3> QED BY <1>6, <3>1, BeforeLast
  <2>2. \A i \in 1..n : m[i] = mapped(node)[i]
    BY <1>4, <1>5
  <2> HIDE DEF n
  <2>3. [i \in 1..n |-> m[i]] = [i \in 1..n |-> mapped(node)[i]]
    BY <2>2
  <2> QED BY <1>5, <2>1, <2>3
<1>10. m = Append(mapped(name), Last(m))
  <2> DEFINE a == mapped(name)
  <2>1. a \in Seq({1, 2}) /\ Len(a) = n /\ \A i \in 1..n : a[i] = m[i]
    BY <1>4, <1>5, <1>7
  <2> HIDE DEF a
  <2> QED BY <1>4, <1>6, <1>8, <2>1 DEF a
<1>11. Tail(subnodes) = SubSeq(walk(node), next.len + 1, HIERARCHY_DEPTH)
  <2>1. next.len + 1 = n + 2
    BY <1>3, <1>4
  <2> HIDE DEF next
  <2> QED BY <1>2, <2>1
<1>12. n + 1 <= HIERARCHY_DEPTH
  BY <1>2
<1> QED BY <1>3, <1>8, <1>9, <1>10, <1>11, <1>12 DEF m

\* Initially, the keys are what the authority generated.
LEMMA KeyInit == Init => KeyInvariant
<1> SUFFICES ASSUME Init PROVE KeyInvariant
  OBVIOUS
<1>1. PICK cells \in CellSets, r \in Scalar :
        received_keys = [cell \in cells |-> generate_key(<<>>, mapped(cell), r)]
  BY DEF Init
<1>2. cells \subseteq Cell /\ \A a, b \in cells : contains(a, b) => a = b
  BY DEF CellSets, kSubset
<1>3. DOMAIN received_keys = cells
  BY <1>1
<1>4. \A cell \in cells : received_keys[cell] \in GeneratedKeys(cell)
  BY <1>1 DEF GeneratedKeys
<1> QED BY <1>2, <1>3, <1>4 DEF KeyInvariant, Init

\* A derived key is one that could have been generated, and every one is.
LEMMA KeyDerived ==
  ASSUME KeyInvariant, pc = "derive", subnodes # <<>>
  PROVE  LET next == Head(subnodes)
             elements == mapped(next)
             derived(t) == derive_key(products, key, Front(elements), Last(elements), t) IN
         {derived(t) : t \in Scalar} = GeneratedKeys(next)
<1> DEFINE next == Head(subnodes)
           elements == mapped(next)
           e == Last(elements)
           id == mapped(name)
           derived(t) == derive_key(products, key, Front(elements), e, t)
<1>1. /\ next \in Cell /\ name.len + 1 <= HIERARCHY_DEPTH
      /\ Front(elements) = id /\ e \in {1, 2} /\ elements = Append(id, e)
  BY NextIs
<1>2. name \in Cell /\ key \in GeneratedKeys(name) /\ products \in Caches
  BY DEF KeyInvariant, Caches
<1>3. PICK r \in Scalar : key = KeyOf(id, r)
  BY <1>2, GeneratedKeysAre
<1>4. id \in Seq({1, 2}) /\ Len(id) + 1 <= HIERARCHY_DEPTH
  BY <1>1, <1>2, MappedIs
<1>5. GeneratedKeys(next) = {KeyOf(elements, s) : s \in Scalar}
  BY <1>1, GeneratedKeysAre
<1>6. ASSUME NEW t \in Scalar
      PROVE  (r + t) % ORDER \in Scalar /\ derived(t) = KeyOf(elements, (r + t) % ORDER)
  <2> HIDE DEF id, e, elements
  <2> QED BY <1>1, <1>2, <1>3, <1>4, DerivedIs
<1>7. ASSUME NEW s \in Scalar
      PROVE  \E t \in Scalar : (r + t) % ORDER = s
  <2> DEFINE t == (s - r) % ORDER
  <2>1. s \in Int /\ r \in Int /\ s - r \in Int /\ ORDER \in Nat \ {0}
    BY OrderAssumption DEF Scalar
  <2>2. t \in 0..ORDER - 1
    <3> DEFINE d == s - r
    <3> HIDE DEF d
    <3>1. d % ORDER \in 0..ORDER - 1
      BY <2>1, RemainderOfSum DEF d
    <3> QED BY <3>1 DEF d
  <2>3. (r + t) % ORDER = (r + (s - r)) % ORDER
    BY <2>1, RemainderOfSum
  <2>4. r + (s - r) = s
    BY <2>1
  <2>5. (r + t) % ORDER = s
    <3> HIDE DEF t
    <3> QED BY <2>3, <2>4, ScalarRemainder
  <2> QED BY <2>2, <2>5 DEF Scalar
<1> HIDE DEF derived, next, elements, e, id
<1>8. {derived(t) : t \in Scalar} = GeneratedKeys(next)
  BY <1>5, <1>6, <1>7
<1> QED BY <1>8 DEF derived, next, elements, e

\* What the relay does keeps it so.
LEMMA KeyStep == KeyInvariant /\ [Next]_vars => KeyInvariant'
<1> SUFFICES ASSUME KeyInvariant, [Next]_vars PROVE KeyInvariant'
  OBVIOUS
<1>1. CASE Find
  <2>1. PICK cell \in DOMAIN received_keys :
          /\ contains(cell, node) /\ name' = cell /\ key' = received_keys[cell]
          /\ subnodes' = SubSeq(walk(node), cell.len + 1, HIERARCHY_DEPTH)
    BY <1>1 DEF Find
  <2>2. node' = node
    BY <1>1 DEF Find, node
  <2>3. cell \in Cell /\ received_keys[cell] \in GeneratedKeys(cell)
    BY DEF KeyInvariant
  <2> QED BY <1>1, <2>1, <2>2, <2>3 DEF KeyInvariant, Find
<1>2. CASE NotFound
  BY <1>2 DEF NotFound, KeyInvariant
<1>3. CASE Derive
  <2> DEFINE next == Head(subnodes)
             elements == mapped(next)
  <2>1. pc = "derive" /\ subnodes # <<>> /\ pc' = pc /\ node' = node
    BY <1>3 DEF Derive, node
  <2>2. /\ next \in Cell /\ contains(next, node)
        /\ Tail(subnodes) = SubSeq(walk(node), next.len + 1, HIERARCHY_DEPTH)
    BY <2>1, NextIs
  <2>3. key' \in GeneratedKeys(next)
    BY <1>3, <2>1, KeyDerived DEF Derive
  <2>4. name' = next /\ subnodes' = Tail(subnodes)
        /\ UNCHANGED <<identity, products, received_keys>>
    BY <1>3 DEF Derive
  <2> HIDE DEF next
  <2> QED BY <2>1, <2>2, <2>3, <2>4 DEF KeyInvariant
<1>4. CASE Return
  <2>1. node' = node
    BY <1>4 DEF Return, node
  <2> QED BY <1>4, <2>1 DEF Return, KeyInvariant
<1>5. CASE UNCHANGED vars
  <2>1. node' = node
    BY <1>5 DEF vars, node
  <2> QED BY <1>5, <2>1 DEF vars, KeyInvariant
<1> QED BY <1>1, <1>2, <1>3, <1>4, <1>5 DEF Next

\* The keys a relay has, and the one in hand, are always ones that the
\* authority could have generated for the cells they are for.
THEOREM PrivateKeysInvariant == Spec => []KeyInvariant
<1> QED BY KeyInit, KeyStep, PTL DEF Spec

\* However far a key was derived, with whatever cache, it is like a generated
\* one, and derivation leads to each of these (DerivedLikeGenerated).
THEOREM PrivateKeysDerivedLikeGenerated == Spec => []DerivedLikeGenerated
<1>1. KeyInvariant => DerivedLikeGenerated
  <2> SUFFICES ASSUME KeyInvariant, pc = "derive" PROVE DerivedLikeGenerated
    BY DEF DerivedLikeGenerated
  <2>1. key \in GeneratedKeys(name)
    BY DEF KeyInvariant
  <2> QED BY <2>1, KeyDerived DEF DerivedLikeGenerated
<1> QED BY <1>1, PrivateKeysInvariant, PTL

\* A relay can derive a leaf's key from a cell's exactly if the cell contains
\* the leaf (DerivableIffContained).
THEOREM PrivateKeysDerivableIffContained == Spec => []DerivableIffContained
<1>1. KeyInvariant => DerivableIffContained
  <2> SUFFICES ASSUME KeyInvariant, NEW cell \in DOMAIN received_keys
               PROVE  contains(cell, node) <=> IsPrefix(mapped(cell), mapped(node))
    BY DEF DerivableIffContained
  <2> DEFINE a == mapped(cell)
             b == mapped(node)
  <2>1. cell \in Cell /\ node \in Cell
    BY NodeIs DEF KeyInvariant
  <2>2. a \in Seq({1, 2}) /\ Len(a) = cell.len /\ b \in Seq({1, 2}) /\ Len(b) = node.len
    BY <2>1, MappedIs
  <2>3. contains(cell, node) <=> Len(a) <= Len(b) /\ \A i \in 1..Len(a) : a[i] = b[i]
    BY <2>1, <2>2, ContainsIsPrefix
  <2> HIDE DEF a, b
  <2>4. IsPrefix(a, b) <=> Len(a) <= Len(b) /\ \A i \in 1..Len(a) : a[i] = b[i]
    <3> SUFFICES ASSUME Len(a) <= Len(b)
                 PROVE  SubSeq(a, 1, Len(a)) = SubSeq(b, 1, Len(a))
                          <=> \A i \in 1..Len(a) : a[i] = b[i]
      BY DEF IsPrefix
    <3>1. SubSeq(a, 1, Len(a)) = [i \in 1..Len(a) |-> a[i]]
      BY <2>2
    <3>2. SubSeq(b, 1, Len(a)) = [i \in 1..Len(a) |-> b[i]]
      BY <2>2
    <3> QED BY <3>1, <3>2
  <2> QED BY <2>3, <2>4 DEF a, b
<1> QED BY <1>1, PrivateKeysInvariant, PTL

\* Each cell of a relay has its part of all identities, and no two share one
\* (IdentitiesSplitByLevel).
THEOREM PrivateKeysIdentitiesSplitByLevel == Spec => []IdentitiesSplitByLevel
<1>1. KeyInvariant => IdentitiesSplitByLevel
  <2> SUFFICES ASSUME KeyInvariant, NEW a \in DOMAIN received_keys,
                      NEW b \in DOMAIN received_keys
               PROVE  /\ Cardinality(Below(a)) = subtree_size(a) * 2^(WORD_BITS - HIERARCHY_DEPTH)
                      /\ a # b => Below(a) \cap Below(b) = {}
    BY DEF IdentitiesSplitByLevel, Below
  <2>1. a \in Cell /\ b \in Cell
    BY DEF KeyInvariant
  <2>2. ASSUME NEW x \in Below(a) \cap Below(b) PROVE a = b
    <3>1. x \in Word /\ contains(a, number(x)) /\ contains(b, number(x))
      BY DEF Below
    <3>2. number(x) \in Cell
      <4>1. x \in Nat
        <5>1. 2^WORD_BITS \in Nat
          BY DepthAssumption, PowerPositive
        <5> QED BY <3>1, <5>1 DEF Word
      <4> DEFINE m == 2^HIERARCHY_DEPTH
      <4>2. m \in Nat \ {0}
        BY DepthAssumption, PowerPositive
      <4> HIDE DEF m
      <4>3. x % m \in 0..m - 1
        BY <4>1, <4>2
      <4>4. x % 2^HIERARCHY_DEPTH \in 0..2^HIERARCHY_DEPTH - 1
        BY <4>3 DEF m
      <4>5. HIERARCHY_DEPTH \in 0..HIERARCHY_DEPTH
        BY DepthAssumption
      <4>6. [len |-> HIERARCHY_DEPTH, path |-> x % 2^HIERARCHY_DEPTH] \in Cell
        BY <4>4, <4>5, CellIs
      <4> QED BY <4>6 DEF number, new, canonicalized
    <3>3. a.len <= b.len \/ b.len <= a.len
      BY <2>1, CellType, DepthAssumption
    <3>4. contains(a, b) \/ contains(b, a)
      BY <2>1, <3>1, <3>2, <3>3, NestedCells
    <3> QED BY <3>4 DEF KeyInvariant
  <2> QED BY <2>1, <2>2, BelowCount
<1> QED BY <1>1, PrivateKeysInvariant, PTL

\* A key opens what is for the identity it was generated for.
LEMMA OpensOwn ==
  ASSUME NEW h \in {0, 1, 2}, NEW m \in {0, 1}, m = 1 => h = 0, NEW r \in Scalar
  PROVE  (((m + h * r) % ORDER) + ((h * (ORDER - r)) % ORDER)) % ORDER = m
<1>1. ORDER \in Nat \ {0} /\ r \in Int /\ m \in Scalar
  BY OrderAssumption DEF Scalar
<1> DEFINE a == m + h * r
           b == h * (ORDER - r)
<1>2. a \in Int /\ b \in Int /\ a + b = m + ORDER * h
  BY <1>1
<1> HIDE DEF a, b
<1>3. ((a % ORDER) + (b % ORDER)) % ORDER = (a + b) % ORDER
  <2>1. a % ORDER \in Int
    BY <1>1, <1>2
  <2> QED BY <1>2, <2>1, RemainderOfSum
<1>4. (a + b) % ORDER = m % ORDER
  <2> DEFINE c == a + b
  <2>1. c \in Int /\ c = m + ORDER * h
    BY <1>2
  <2> HIDE DEF c
  <2>2. c % ORDER = m % ORDER
    BY <2>1, RemainderUnique
  <2> QED BY <2>2 DEF c
<1> QED BY <1>1, <1>3, <1>4, ScalarRemainder DEF a, b

\* But not what is for one that differs in an element.
LEMMA OpensNoOther ==
  ASSUME NEW h \in {1, 2}, NEW g \in {1, 2}, h # g, NEW r \in Scalar, r # 0
  PROVE  (((0 + h * r) % ORDER) + ((g * (ORDER - r)) % ORDER)) % ORDER # 0
<1>1. ORDER \in Nat \ {0} /\ r \in 1..ORDER - 1 /\ r \in Int
  BY OrderAssumption DEF Scalar
<1> DEFINE a == 0 + h * r
           b == g * (ORDER - r)
<1>2. a \in Int /\ b \in Int
  BY <1>1
<1>3. ((a % ORDER) + (b % ORDER)) % ORDER = (a + b) % ORDER
  <2> HIDE DEF a, b
  <2>1. a % ORDER \in Int
    BY <1>1, <1>2
  <2> QED BY <1>2, <2>1, RemainderOfSum
<1>4. (a + b) % ORDER # 0
  <2> DEFINE c == a + b
  <2>0. c \in Int
    BY <1>2
  <2>1. CASE h = 2
    <3>1. c = r + ORDER
      BY <1>1, <2>1
    <3> HIDE DEF c
    <3>2. c % ORDER = r
      BY <3>1, ScalarRemainder
    <3> QED BY <1>1, <3>2 DEF c
  <2>2. CASE h = 1
    <3> DEFINE d == ORDER - r
    <3>1. c = d + ORDER /\ d \in Scalar /\ d # 0
      BY <1>1, <2>2 DEF Scalar
    <3> HIDE DEF c, d
    <3>2. c % ORDER = d
      BY <3>1, ScalarRemainder
    <3> QED BY <3>1, <3>2 DEF c
  <2> QED BY <2>1, <2>2
<1> QED BY <1>3, <1>4 DEF a, b

\* The key of one identity opens what is for another one if they are the same,
\* or the random number was 0.
LEMMA OpensIs ==
  ASSUME NEW id \in Seq({1, 2}), NEW other \in Seq({1, 2}),
         Len(id) <= HIERARCHY_DEPTH, Len(other) = Len(id), NEW r \in Scalar
  PROVE  opens(KeyOf(id, r), other) <=> id = other \/ r = 0
<1> DEFINE at(j) == (Exponent(id, j, r) + ((Hash(other)[j] * (ORDER - r)) % ORDER)) % ORDER
<1>1. <<>> \in Caches
  BY DEF Caches
<1>2. identity_product(<<>>, other) = Hash(other)
  BY <1>1, IdentityProductIs
<1>3. KeyOf(id, r)[1] = [j \in Generator |-> Exponent(id, j, r)] /\ KeyOf(id, r)[2] = r
  BY DEF KeyOf
<1>4. KeyOf(id, r)[1] ++ (identity_product(<<>>, other) ** (ORDER - KeyOf(id, r)[2]))
        = [j \in Generator |-> at(j)]
  BY <1>2, <1>3 DEF ++, **
<1>5. generator(MASTER) = [j \in Generator |-> IF j = MASTER THEN 1 ELSE 0]
  BY DEF generator
<1>6. opens(KeyOf(id, r), other)
        <=> \A j \in Generator : at(j) = IF j = MASTER THEN 1 ELSE 0
  <2> HIDE DEF at
  <2> QED BY <1>4, <1>5 DEF opens
<1>7. ASSUME NEW j \in Generator
      PROVE  /\ Hash(id)[j] \in {0, 1, 2} /\ Hash(other)[j] \in {0, 1, 2}
             /\ j = MASTER => Hash(id)[j] = 0 /\ Hash(other)[j] = 0
  <2>1. j = MASTER => j # G3 /\ j \notin 1..Len(id) /\ j \notin 1..Len(other)
    BY DEF MASTER, G3
  <2>2. j = MASTER => Hash(id)[j] = 0 /\ Hash(other)[j] = 0
    BY <2>1 DEF Hash
  <2> QED BY <2>2, HashType
<1>8. ASSUME id = other, NEW j \in Generator
      PROVE  at(j) = IF j = MASTER THEN 1 ELSE 0
  <2> DEFINE h == Hash(id)[j]
             m == IF j = MASTER THEN 1 ELSE 0
  <2>1. h \in {0, 1, 2} /\ m \in {0, 1} /\ (m = 1 => h = 0)
    BY <1>7
  <2> HIDE DEF h, m
  <2>2. (((m + h * r) % ORDER) + ((h * (ORDER - r)) % ORDER)) % ORDER = m
    BY <2>1, OpensOwn
  <2> QED BY <1>8, <2>2 DEF h, m, Exponent
<1>9. ASSUME r = 0, NEW j \in Generator
      PROVE  at(j) = IF j = MASTER THEN 1 ELSE 0
  <2> DEFINE m == IF j = MASTER THEN 1 ELSE 0
             h == Hash(id)[j]
             g == Hash(other)[j]
  <2>1. ORDER \in Nat \ {0} /\ m \in Scalar /\ m \in Int /\ 0 \in Scalar
    BY OrderAssumption DEF Scalar
  <2>2. h \in Int /\ g \in Int
    BY <1>7
  <2>3. Exponent(id, j, r) = (m + h * r) % ORDER
    BY DEF Exponent
  <2> HIDE DEF m, h, g
  <2>4. m + h * r = m
    BY <1>9, <2>1, <2>2
  <2>5. (g * (ORDER - r)) % ORDER = 0
    <3> DEFINE c == g * (ORDER - r)
               z == 0
    <3>1. c = z + ORDER * g /\ c \in Int /\ z \in Int
      BY <1>9, <2>1, <2>2
    <3> HIDE DEF c, z
    <3>2. c % ORDER = z % ORDER
      BY <2>2, <3>1, RemainderUnique
    <3> QED BY <2>1, <3>2, ScalarRemainder DEF c, z
  <2>6. m % ORDER = m /\ m + 0 = m
    BY <2>1, ScalarRemainder
  <2> QED BY <2>3, <2>4, <2>5, <2>6 DEF g, m
<1>10. ASSUME id # other, r # 0
       PROVE  \E j \in Generator : at(j) # IF j = MASTER THEN 1 ELSE 0
  <2>1. PICK j \in 1..Len(id) : id[j] # other[j]
    <3>1. /\ id = [i \in 1..Len(id) |-> id[i]] /\ other = [i \in 1..Len(id) |-> other[i]]
      BY ElementsOf
    <3> QED BY <1>10, <3>1
  <2>2. j \in Generator /\ j # MASTER /\ j # G3
    <3>1. Len(id) \in Nat /\ HIERARCHY_DEPTH \in Nat
      BY DepthAssumption
    <3> QED BY <3>1 DEF Generator, MASTER, G3
  <2> DEFINE h == Hash(id)[j]
             g == Hash(other)[j]
  <2>3. h \in {1, 2} /\ g \in {1, 2} /\ h # g
    <3>1. h = id[j] /\ g = other[j]
      BY <2>2 DEF Hash
    <3>2. id[j] \in {1, 2} /\ other[j] \in {1, 2}
      OBVIOUS
    <3> HIDE DEF h, g
    <3> QED BY <2>1, <3>1, <3>2
  <2>4. Exponent(id, j, r) = (0 + h * r) % ORDER
    BY <2>2 DEF Exponent
  <2> HIDE DEF h, g
  <2>5. (((0 + h * r) % ORDER) + ((g * (ORDER - r)) % ORDER)) % ORDER # 0
    BY <1>10, <2>3, OpensNoOther
  <2>6. at(j) # 0
    BY <2>4, <2>5 DEF g
  <2> HIDE DEF at
  <2> QED BY <2>2, <2>6
<1> HIDE DEF at
<1> QED BY <1>6, <1>8, <1>9, <1>10

\* The key that is returned is for the identity's leaf (OpensItsLeaf).
THEOREM PrivateKeysOpensItsLeaf == Spec => []OpensItsLeaf
<1>1. KeyInvariant => OpensItsLeaf
  <2> SUFFICES ASSUME KeyInvariant, pc = "some", NEW n \in Cell, is_leaf(n)
               PROVE  opens(key, mapped(n)) <=> n = node \/ key[2] = 0
    BY DEF OpensItsLeaf
  <2>1. /\ identity \in Word /\ name \in Cell /\ contains(name, node)
        /\ key \in GeneratedKeys(name)
        /\ SubSeq(walk(node), name.len + 1, HIERARCHY_DEPTH) = <<>>
    BY DEF KeyInvariant
  <2>2. /\ node \in Cell /\ node.len = HIERARCHY_DEPTH /\ n.len = HIERARCHY_DEPTH
        /\ HIERARCHY_DEPTH \in Nat
    BY <2>1, NodeIs, DepthAssumption DEF is_leaf
  <2>3. name.len = HIERARCHY_DEPTH
    <3>1. Len(SubSeq(walk(node), name.len + 1, HIERARCHY_DEPTH)) = HIERARCHY_DEPTH - name.len
      BY <2>1, StillToCome
    <3>2. Len(SubSeq(walk(node), name.len + 1, HIERARCHY_DEPTH)) = 0
      <4>1. Len(<<>>) = 0
        OBVIOUS
      <4> QED BY <2>1, <4>1
    <3>3. name.len \in Int
      BY <2>1, CellType, DepthAssumption
    <3> QED BY <2>2, <3>1, <3>2, <3>3
  <2>4. mapped(name) = mapped(node)
    <3>1. mapped(name) = [i \in 1..HIERARCHY_DEPTH |-> mapped(node)[i]]
      BY <2>1, <2>3, MappedAbove
    <3>2. mapped(node) \in Seq({1, 2}) /\ Len(mapped(node)) = HIERARCHY_DEPTH
      BY <2>2, MappedIs
    <3>3. mapped(node) = [i \in 1..HIERARCHY_DEPTH |-> mapped(node)[i]]
      BY <3>2, ElementsOf
    <3> QED BY <3>1, <3>3
  <2> DEFINE id == mapped(node)
             other == mapped(n)
  <2>5. PICK r \in Scalar : key = KeyOf(id, r)
    BY <2>1, <2>4, GeneratedKeysAre
  <2>6. key[2] = r
    BY <2>5 DEF KeyOf
  <2>7. /\ id \in Seq({1, 2}) /\ Len(id) = HIERARCHY_DEPTH
        /\ other \in Seq({1, 2}) /\ Len(other) = HIERARCHY_DEPTH
    BY <2>2, MappedIs
  <2>8. id = other <=> n = node
    <3> SUFFICES ASSUME id = other PROVE n = node
      OBVIOUS
    <3>1. \A i \in 1..HIERARCHY_DEPTH : mapped(n)[i] = mapped(node)[i]
      OBVIOUS
    <3>2. contains(n, node)
      BY <2>2, <3>1, ContainsIsPrefix
    <3>3. node.path \div 2^0 = n.path
      <4>1. HIERARCHY_DEPTH - HIERARCHY_DEPTH = 0
        BY <2>2
      <4> QED BY <2>2, <3>2, <4>1 DEF contains
    <3>4. node.path \in Nat
      BY <2>2, CellType, DepthAssumption, PowerPositive
    <3>5. node.path = n.path
      BY <3>3, <3>4
    <3> QED BY <2>2, <3>5, CellType
  <2> HIDE DEF id, other
  <2>9. opens(KeyOf(id, r), other) <=> id = other \/ r = 0
    BY <2>2, <2>7, OpensIs
  <2> QED BY <2>5, <2>6, <2>8, <2>9 DEF other
<1> QED BY <1>1, PrivateKeysInvariant, PTL

=============================================================================
