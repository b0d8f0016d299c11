--------------------------- MODULE AllocationProofs ---------------------------
(***************************************************************************)
(* Proofs about allocation::allocate for every set of relays, all weights  *)
(* and every depth of the identity tree:                                   *)
(*   - the free cells never run out, and a relay has one cell per level;   *)
(*   - the identities are partitioned: every one is below exactly one      *)
(*     cell, and every relay is given its exact share;                     *)
(*   - two authorities with the same registrations allocate the same.      *)
(*                                                                         *)
(* A sum of weights is the number of elements of Units(f), so that what is *)
(* needed of sums follows from the library's theorems on finite sets.      *)
(***************************************************************************)
EXTENDS AllocationAgreement, FiniteSetTheorems, SequenceTheorems, TLAPS

-----------------------------------------------------------------------------
(* Powers of two, the sizes of the subtrees of the identity tree.  The     *)
(* provers know nothing of x^y; what they need is obtained by counting the *)
(* subsets of 1..k, of which the library proves that there are 2^k.        *)

\* A power of two is a positive number (a subtree has at least one leaf).
LEMMA PowerPositive == \A k \in Nat : 2^k \in Nat \ {0}
<1> TAKE k \in Nat
<1>1. IsFiniteSet(1..k) /\ Cardinality(1..k) = k
  BY FS_Interval
<1>2. IsFiniteSet(SUBSET (1..k)) /\ Cardinality(SUBSET (1..k)) = 2^k
  BY <1>1, FS_SUBSET
<1>3. Cardinality(SUBSET (1..k)) # 0
  BY <1>2, FS_EmptySet
<1>4. Cardinality(SUBSET (1..k)) \in Nat
  BY <1>2, FS_CardinalityType
<1> QED BY <1>2, <1>3, <1>4

\* The next power of two is twice the last one (a node's two children halve
\* its subtree): half of the subsets of 1..k+1 do not contain k+1.
LEMMA PowerDoubles == \A k \in Nat : 2^(k + 1) = 2 * 2^k
<1> TAKE k \in Nat
<1> DEFINE S == SUBSET (1..k)
           T == SUBSET (1..k + 1)
           U == T \ S
           f == [s \in S |-> s \cup {k + 1}]
<1>1. /\ IsFiniteSet(1..k) /\ Cardinality(1..k) = k
      /\ IsFiniteSet(1..k + 1) /\ Cardinality(1..k + 1) = k + 1
  BY FS_Interval
<1>2. /\ IsFiniteSet(S) /\ Cardinality(S) = 2^k
      /\ IsFiniteSet(T) /\ Cardinality(T) = 2^(k + 1)
  BY <1>1, FS_SUBSET
<1>3. f \in Bijection(S, U)
  <2>1. f \in [S -> U]
    OBVIOUS
  <2>2. \A s, t \in S : f[s] = f[t] => s = t
    OBVIOUS
  <2>3. ASSUME NEW u \in U
        PROVE  \E s \in S : f[s] = u
    <3>1. u \ {k + 1} \in S
      OBVIOUS
    <3>2. k + 1 \in u
      BY <3>1
    <3> QED BY <3>1, <3>2
  <2> QED BY <2>1, <2>2, <2>3 DEF Bijection, Injection, Surjection, IsInjective
<1>4. IsFiniteSet(U) /\ Cardinality(U) = Cardinality(S)
  BY <1>2, <1>3, FS_Bijection DEF ExistsBijection
<1>5. S \cup U = T /\ S \cap U = {}
  OBVIOUS
<1>6. Cardinality(S) \in Nat
  BY <1>2, FS_CardinalityType
<1> HIDE DEF S, T, U
<1>7. Cardinality(T) = Cardinality(S) + Cardinality(U) - Cardinality(S \cap U)
  BY <1>2, <1>4, <1>5, FS_Union
<1>8. Cardinality(S \cap U) = 0
  BY <1>5, FS_EmptySet
<1> QED BY <1>2, <1>4, <1>6, <1>7, <1>8

\* A power of two above 1 halves into the one below it (the size of a cell
\* when it is split).
LEMMA PowerHalves ==
  \A k \in Nat \ {0} : 2^k = 2 * 2^(k - 1) /\ 2^k \div 2 = 2^(k - 1)
<1> TAKE k \in Nat \ {0}
<1>1. 2^(k - 1) \in Nat \ {0}
  BY PowerPositive
<1>2. 2^((k - 1) + 1) = 2 * 2^(k - 1)
  BY PowerDoubles
<1>3. (k - 1) + 1 = k
  OBVIOUS
<1>4. 2^k = 2 * 2^(k - 1)
  BY <1>2, <1>3
<1> QED BY <1>1, <1>4

-----------------------------------------------------------------------------
(* Sums.                                                                   *)

\* The units of f are the pairs <<r, i>> with i among 1..f[r].
LEMMA UnitsDef ==
  ASSUME NEW S, NEW f \in [S -> Nat]
  PROVE  /\ \A r \in S : \A i \in 1..f[r] : <<r, i>> \in Units(f)
         /\ \A u \in Units(f) : /\ u = <<u[1], u[2]>>
                                /\ u[1] \in S
                                /\ u[2] \in 1..f[u[1]]
<1>1. DOMAIN f = S
  OBVIOUS
<1>2. ASSUME NEW r \in S, NEW i \in 1..f[r]
      PROVE  <<r, i>> \in Units(f)
  <2>1. <<r, i>> \in {r} \X (1..f[r])
    OBVIOUS
  <2> QED BY <1>1, <2>1 DEF Units
<1>3. ASSUME NEW u \in Units(f)
      PROVE  u = <<u[1], u[2]>> /\ u[1] \in S /\ u[2] \in 1..f[u[1]]
  <2>1. PICK r \in S : u \in {r} \X (1..f[r])
    BY <1>1 DEF Units
  <2> QED BY <2>1
<1> QED BY <1>2, <1>3

\* A sum of boundedly many bounded weights is a natural number.
LEMMA TotalType ==
  ASSUME NEW S, IsFiniteSet(S), NEW M \in Nat, NEW f \in [S -> 0..M]
  PROVE  IsFiniteSet(Units(f)) /\ Total(f) \in Nat
<1>1. Units(f) \subseteq S \X (1..M)
  BY UnitsDef
<1>2. IsFiniteSet(1..M)
  BY FS_Interval
<1>3. IsFiniteSet(S \X (1..M))
  BY <1>2, FS_Product
<1>4. IsFiniteSet(Units(f))
  BY <1>1, <1>3, FS_Subset
<1> QED BY <1>4, FS_CardinalityType DEF Total

\* The units of one relay alone.
LEMMA UnitRange ==
  ASSUME NEW r, NEW a \in Nat, NEW b \in Nat, a <= b
  PROVE  /\ IsFiniteSet({r} \X (a + 1..b))
         /\ Cardinality({r} \X (a + 1..b)) = b - a
<1>1. IsFiniteSet({r}) /\ Cardinality({r}) = 1
  BY FS_Singleton
<1> DEFINE I == a + 1..b
<1>2. IsFiniteSet(I) /\ Cardinality(I) = b - a
  <2>1. a + 1 \in Int /\ b \in Int
    OBVIOUS
  <2>2. IsFiniteSet(I) /\ Cardinality(I) = IF a + 1 > b THEN 0 ELSE b - (a + 1) + 1
    BY <2>1, FS_Interval
  <2> QED BY <2>2
<1> HIDE DEF I
<1>3. IsFiniteSet({r} \X I) /\ Cardinality({r} \X I) = Cardinality({r}) * Cardinality(I)
  BY <1>1, <1>2, FS_Product
<1>4. Cardinality({r}) * Cardinality(I) = b - a
  BY <1>1, <1>2
<1> QED BY <1>3, <1>4 DEF I

\* No weight exceeds the sum.
LEMMA TotalAtLeast ==
  ASSUME NEW S, IsFiniteSet(S), NEW M \in Nat, NEW f \in [S -> 0..M],
         NEW r \in S
  PROVE  f[r] <= Total(f)
<1>1. {r} \X (0 + 1..f[r]) \subseteq Units(f)
  BY UnitsDef
<1>2. IsFiniteSet(Units(f))
  BY TotalType
<1>3. Cardinality({r} \X (0 + 1..f[r])) = f[r] - 0
  <2>1. 0 \in Nat /\ f[r] \in Nat /\ 0 <= f[r]
    OBVIOUS
  <2> QED BY <2>1, UnitRange
<1>4. Cardinality({r} \X (0 + 1..f[r])) <= Cardinality(Units(f))
  BY <1>1, <1>2, FS_Subset
<1> QED BY <1>3, <1>4 DEF Total

\* Charging one relay for a cell lowers the sum by the size of the cell.
LEMMA TotalCharged ==
  ASSUME NEW S, IsFiniteSet(S), NEW M \in Nat, NEW f \in [S -> 0..M],
         NEW r \in S, NEW c \in 0..f[r],
         NEW g \in [S -> 0..M], g[r] = f[r] - c,
         \A s \in S \ {r} : g[s] = f[s]
  PROVE  Total(g) = Total(f) - c
<1> DEFINE C == {r} \X ((f[r] - c) + 1..f[r])
<1>1. g \in [S -> 0..M] /\ g \in [S -> Nat] /\ f \in [S -> Nat]
  OBVIOUS
<1>u. ASSUME NEW u \in Units(g)
      PROVE  u = <<u[1], u[2]>> /\ u[1] \in S /\ u[2] \in 1..g[u[1]]
  BY <1>1, UnitsDef
<1>v. \A s \in S : \A i \in 1..g[s] : <<s, i>> \in Units(g)
  BY <1>1, UnitsDef
<1>2. IsFiniteSet(Units(g)) /\ IsFiniteSet(Units(f)) /\ Total(g) \in Nat
  BY <1>1, TotalType
<1>3. IsFiniteSet(C) /\ Cardinality(C) = c
  <2>1. f[r] - c \in Nat /\ f[r] \in Nat /\ f[r] - c <= f[r]
    OBVIOUS
  <2>2. IsFiniteSet(C) /\ Cardinality(C) = f[r] - (f[r] - c)
    BY <2>1, UnitRange
  <2> QED BY <2>1, <2>2
<1>4. Units(g) \cap C = {}
  <2> SUFFICES ASSUME NEW u \in Units(g), u \in C PROVE FALSE
    OBVIOUS
  <2>1. u[1] = r /\ u[2] \in (f[r] - c) + 1..f[r]
    OBVIOUS
  <2>2. u[2] \in 1..(f[r] - c)
    BY <1>u, <2>1
  <2> QED BY <2>1, <2>2
<1>5. Units(g) \cup C = Units(f)
  <2>1. ASSUME NEW u \in Units(g)
        PROVE  u \in Units(f)
    <3>1. u = <<u[1], u[2]>> /\ u[1] \in S /\ u[2] \in 1..g[u[1]]
      BY <1>u
    <3>2. u[2] \in 1..f[u[1]]
      BY <3>1
    <3> QED BY <3>1, <3>2, UnitsDef
  <2>2. ASSUME NEW u \in C
        PROVE  u \in Units(f)
    <3>1. u = <<r, u[2]>> /\ u[2] \in 1..f[r]
      OBVIOUS
    <3> QED BY <3>1, UnitsDef
  <2>3. ASSUME NEW u \in Units(f), u \notin C
        PROVE  u \in Units(g)
    <3>1. u = <<u[1], u[2]>> /\ u[1] \in S /\ u[2] \in 1..f[u[1]]
      BY UnitsDef
    <3>2. u[2] \in 1..g[u[1]]
      <4>1. CASE u[1] = r
        <5>1. g[r] = f[r] - c
          OBVIOUS
        <5> QED BY <3>1, <4>1, <5>1, <2>3
      <4>2. CASE u[1] # r
        BY <3>1, <4>2
      <4> QED BY <4>1, <4>2
    <3>3. <<u[1], u[2]>> \in Units(g)
      BY <1>v, <3>1, <3>2
    <3> QED BY <3>1, <3>3
  <2> QED BY <2>1, <2>2, <2>3
<1> HIDE DEF C
<1>6. Cardinality(Units(g) \cup C) =
        Cardinality(Units(g)) + Cardinality(C) - Cardinality(Units(g) \cap C)
  BY <1>2, <1>3, FS_Union
<1>7. Cardinality(Units(g) \cap C) = 0
  BY <1>4, FS_EmptySet
<1>8. Total(f) = Total(g) + c - 0
  BY <1>3, <1>5, <1>6, <1>7 DEF Total
<1>9. c \in Nat
  OBVIOUS
<1> QED BY <1>2, <1>8, <1>9

\* Rounding down, the shares of all relays fit into the weight space: the
\* counting argument for "sum_weight divides what it is the sum of".  Each of
\* the units of the shares, taken Total(f) times, is sent to its own pair of
\* a unit of weight and one of W numbers.
LEMMA ScaledFits ==
  ASSUME NEW S, IsFiniteSet(S), NEW M \in Nat, NEW f \in [S -> 0..M],
         NEW W \in Nat, Total(f) # 0,
         NEW g, g = [r \in S |-> (W * f[r]) \div Total(f)]
  PROVE  g \in [S -> 0..W] /\ Total(g) <= W
<1> DEFINE T == Total(f)
<1>1. T \in Nat /\ T > 0 /\ IsFiniteSet(Units(f))
  BY TotalType
<1>2. \A r \in S : f[r] \in Nat /\ f[r] <= T
  BY TotalAtLeast
<1>3. \A r \in S : /\ g[r] \in Nat
                    /\ g[r] * T <= W * f[r]
                    /\ g[r] <= W
  <2> SUFFICES ASSUME NEW r \in S
               PROVE  g[r] \in Nat /\ g[r] * T <= W * f[r] /\ g[r] <= W
    OBVIOUS
  <2> DEFINE x == W * f[r]
  <2>1. x \in Nat /\ x <= W * T
    BY <1>1, <1>2
  <2>2. g[r] = x \div T
    OBVIOUS
  <2> HIDE DEF x, T
  <2>3. x \div T \in Nat /\ (x \div T) * T <= x
    BY <1>1, <2>1
  <2>4. g[r] <= W
    BY <1>1, <2>1, <2>2, <2>3
  <2> QED BY <2>2, <2>3, <2>4 DEF x
<1>4. g \in [S -> 0..W] /\ g \in [S -> Nat] /\ f \in [S -> Nat]
  BY <1>3
<1>5. IsFiniteSet(Units(g)) /\ Total(g) \in Nat
  BY <1>4, TotalType
<1> DEFINE D == Units(g) \X (0..T - 1)
           E == Units(f) \X (0..W - 1)
           pos(d) == (d[1][2] - 1) * T + d[2]
           h == [d \in D |-> << <<d[1][1], pos(d) \div W + 1>>, pos(d) % W >>]
<1>6. IsFiniteSet(D) /\ Cardinality(D) = Total(g) * T
  <2>1. IsFiniteSet(0..T - 1) /\ Cardinality(0..T - 1) = T
    BY <1>1, FS_Interval
  <2>2. /\ IsFiniteSet(D)
        /\ Cardinality(D) = Cardinality(Units(g)) * Cardinality(0..T - 1)
    BY <2>1, <1>5, FS_Product
  <2> QED BY <2>1, <2>2 DEF Total
<1>7. IsFiniteSet(E) /\ Cardinality(E) = T * W
  <2>1. IsFiniteSet(0..W - 1) /\ Cardinality(0..W - 1) = W
    BY FS_Interval
  <2> QED BY <2>1, <1>1, FS_Product DEF Total
<1>8. ASSUME NEW d \in D
      PROVE  /\ d[1][1] \in S /\ d[1][2] \in 1..g[d[1][1]] /\ d[2] \in 0..T - 1
             /\ d = << <<d[1][1], d[1][2]>>, d[2] >>
             /\ pos(d) \in 0..W * f[d[1][1]] - 1
             /\ W > 0
  <2>1. d[1] \in Units(g) /\ d[2] \in 0..T - 1 /\ d = <<d[1], d[2]>>
    OBVIOUS
  <2>2. d[1] = <<d[1][1], d[1][2]>> /\ d[1][1] \in S /\ d[1][2] \in 1..g[d[1][1]]
    BY <2>1, <1>4, UnitsDef
  <2> DEFINE r == d[1][1]
             i == d[1][2]
             j == d[2]
  <2>3. r \in S /\ i \in Nat /\ i >= 1 /\ i <= g[r] /\ j \in Nat /\ j < T
    BY <1>1, <1>3, <2>1, <2>2
  <2>4. g[r] \in Nat /\ f[r] \in Nat /\ g[r] * T <= W * f[r] /\ g[r] <= W
    BY <1>2, <1>3, <2>3
  <2> HIDE DEF r, i, j, T
  <2>5. (i - 1) * T + j \in Nat /\ (i - 1) * T + j < i * T /\ i * T <= g[r] * T
    BY <1>1, <2>3, <2>4
  <2>6. W > 0
    BY <2>3, <2>4
  <2>7. (i - 1) * T + j \in 0..W * f[r] - 1
    BY <2>4, <2>5, <1>1, <2>3
  <2> QED BY <2>1, <2>2, <2>6, <2>7 DEF r, i, j
<1>9. h \in Injection(D, E)
  <2>1. h \in [D -> E]
    <3> SUFFICES ASSUME NEW d \in D
                 PROVE  << <<d[1][1], pos(d) \div W + 1>>, pos(d) % W >> \in E
      OBVIOUS
    <3> DEFINE p == pos(d)
               r == d[1][1]
    <3>1. p \in Nat /\ p < W * f[r] /\ W > 0 /\ r \in S /\ f[r] \in Nat
      BY <1>8, <1>2
    <3> HIDE DEF p, r
    <3>2. p \div W \in Nat /\ p \div W < f[r] /\ p % W \in 0..W - 1
      BY <3>1
    <3>3. p \div W + 1 \in 1..f[r]
      BY <3>1, <3>2
    <3>4. <<r, p \div W + 1>> \in Units(f)
      BY <3>1, <3>3, <1>4, UnitsDef
    <3> QED BY <3>2, <3>4 DEF p, r
  <2>2. ASSUME NEW d \in D, NEW e \in D, h[d] = h[e]
        PROVE  d = e
    <3> DEFINE p == pos(d)
               q == pos(e)
    <3>1. d[1][1] = e[1][1] /\ p \div W + 1 = q \div W + 1 /\ p % W = q % W
      BY <2>2
    <3>2. p \in Nat /\ q \in Nat /\ W > 0
      BY <1>8, <1>2
    <3>3. p = q
      <4> HIDE DEF p, q
      <4>1. p = W * (p \div W) + (p % W) /\ q = W * (q \div W) + (q % W)
        BY <3>2
      <4>2. p \div W = q \div W
        BY <3>1, <3>2
      <4> QED BY <3>1, <4>1, <4>2
    <3> DEFINE i == d[1][2] - 1
               j == d[2]
               k == e[1][2] - 1
               l == e[2]
    <3>4. i \in Nat /\ j \in Nat /\ j < T /\ k \in Nat /\ l \in Nat /\ l < T
      BY <1>8, <1>1, <1>3
    <3>5. i * T + j = k * T + l
      BY <3>3
    <3> HIDE DEF i, j, k, l, T
    <3>6. i = k /\ j = l
      BY <3>4, <3>5, <1>1
    <3>7. d[1][2] = e[1][2] /\ d[2] = e[2]
      BY <3>6, <1>8, <1>3 DEF i, j, k, l
    <3> QED BY <3>1, <3>7, <1>8
  <2> QED BY <2>1, <2>2 DEF Injection, IsInjective
<1>10. Cardinality(D) <= Cardinality(E)
  BY <1>7, <1>9, FS_Injection
<1>11. Total(g) * T <= T * W
  BY <1>6, <1>7, <1>10
<1>12. Total(g) <= W
  <2> HIDE DEF T
  <2> DEFINE n == Total(g)
  <2>1. n \in Nat /\ n * T <= T * W
    BY <1>5, <1>11
  <2> HIDE DEF n
  <2>2. n <= W
    BY <2>1, <1>1
  <2> QED BY <2>2 DEF n
<1> QED BY <1>4, <1>12

-----------------------------------------------------------------------------
(* The loop.                                                               *)

\* What the invariant says of the requests alone.
LEMMA RequestType ==
  ASSUME TypeOK
  PROVE  /\ IsFiniteSet(DOMAIN request)
         /\ request \in [DOMAIN request -> 0..MAX_WEIGHT]
         /\ MAX_WEIGHT \in Nat
         /\ WEIGHT_SPACE_SIZE \in Nat \ {0}
<1>1. PICK S \in SUBSET Relay : request \in [S -> 0..MAX_WEIGHT]
  BY DEF TypeOK
<1>2. DOMAIN request = S
  BY <1>1
<1>3. IsFiniteSet(S)
  BY <1>1, FS_Subset, RelayAssumption
<1> QED BY <1>1, <1>2, <1>3, RelayAssumption, DepthAssumption, PowerPositive
        DEF WEIGHT_SPACE_SIZE

\* The invariant holds when allocate() is called.
LEMMA AllocationInit == Init => InductiveInvariant
<1> SUFFICES ASSUME Init PROVE InductiveInvariant
  OBVIOUS
<1>1. DOMAIN request \in SUBSET Relay /\ request \in [DOMAIN request -> 0..MAX_WEIGHT]
  BY DEF Init
<1>2. ROOT \in Node
  BY DepthAssumption DEF ROOT, Node
<1>3. cell_size = WEIGHT_SPACE_SIZE
  BY DepthAssumption DEF Init, subtree_size, ROOT, WEIGHT_SPACE_SIZE
<1>4. WEIGHT_SPACE_SIZE \in Nat \ {0}
  BY PowerPositive, DepthAssumption DEF WEIGHT_SPACE_SIZE
<1>5. TypeOK
  BY <1>1, <1>2, <1>3, <1>4, RelayAssumption DEF Init, TypeOK
<1>6. NeverOutOfCells /\ OneCellPerLevel
  BY DEF Init, NeverOutOfCells, OneCellPerLevel
<1> QED BY <1>5, <1>6 DEF Init, InductiveInvariant

\* Scaling establishes the loop invariant: the whole tree is one free cell,
\* and the shares fit into it.
LEMMA ScaleStep == InductiveInvariant /\ Scale => InductiveInvariant'
<1> SUFFICES ASSUME InductiveInvariant, Scale PROVE InductiveInvariant'
  OBVIOUS
<1> DEFINE S == DOMAIN request
<1>1. /\ TypeOK /\ NeverOutOfCells /\ OneCellPerLevel
      /\ pc = "scale" /\ weight = request
      /\ nodes = [r \in S |-> <<>>]
      /\ free_cells = <<ROOT>> /\ cell_size = subtree_size(ROOT)
      /\ UNCHANGED <<request, nodes, free_cells, cell_size>>
  BY DEF InductiveInvariant, Scale
<1>2. /\ IsFiniteSet(S) /\ request \in [S -> 0..MAX_WEIGHT]
      /\ MAX_WEIGHT \in Nat /\ WEIGHT_SPACE_SIZE \in Nat \ {0}
  BY <1>1, RequestType
<1>3. CASE S # {} /\ Total(request) = 0
  <2>1. pc' = "panic" /\ weight' = weight
    BY <1>3 DEF Scale
  <2>2. \A r \in S : request[r] = 0
    <3>1. \A r \in S : request[r] <= Total(request)
      BY <1>2, TotalAtLeast
    <3> QED BY <3>1, <1>2, <1>3
  <2> QED BY <1>1, <2>1, <2>2
          DEF InductiveInvariant, TypeOK, NeverOutOfCells, OneCellPerLevel
<1>4. CASE ~(S # {} /\ Total(request) = 0)
  <2>1. pc' = "loop" /\ weight' = Scaled(request)
    BY <1>4 DEF Scale
  <2>2. weight' \in [S -> 0..WEIGHT_SPACE_SIZE] /\ Total(weight') <= WEIGHT_SPACE_SIZE
    <3>1. CASE S = {}
      <4>1. Units(weight') = {}
        BY <2>1, <3>1 DEF Units, Scaled
      <4>2. Total(weight') = 0
        BY <4>1, FS_EmptySet DEF Total
      <4> QED BY <1>2, <2>1, <3>1, <4>2 DEF Scaled
    <3>2. CASE Total(request) # 0
      <4> DEFINE g == Scaled(request)
      <4>1. g = [r \in S |-> (WEIGHT_SPACE_SIZE * request[r]) \div Total(request)]
        BY DEF Scaled
      <4> HIDE DEF g
      <4>2. g \in [S -> 0..WEIGHT_SPACE_SIZE] /\ Total(g) <= WEIGHT_SPACE_SIZE
        BY <1>2, <3>2, <4>1, ScaledFits
      <4> QED BY <2>1, <4>2 DEF g
    <3> QED BY <1>4, <3>1, <3>2
  <2>3. cell_size = WEIGHT_SPACE_SIZE /\ cell_size = 2^(HIERARCHY_DEPTH - 0)
    BY <1>1, DepthAssumption DEF subtree_size, ROOT, WEIGHT_SPACE_SIZE
  <2>4. TypeOK'
    BY <1>1, <1>2, <2>1, <2>2 DEF TypeOK
  <2>5. LoopInvariant'
    <3>1. 0 \in 0..HIERARCHY_DEPTH
      BY DepthAssumption
    <3>2. \A i \in DOMAIN free_cells' : free_cells'[i].len = 0
      BY <1>1 DEF ROOT
    <3>3. Total(weight') <= Len(free_cells') * cell_size'
      BY <1>1, <1>2, <2>2, <2>3
    <3>4. \A r \in DOMAIN request' :
            /\ weight'[r] < 2 * cell_size'
            /\ nodes'[r] = <<>>
      BY <1>1, <1>2, <2>2, <2>3
    <3> QED BY <1>1, <2>3, <3>1, <3>2, <3>3, <3>4 DEF LoopInvariant, LoopAt
  <2> QED BY <1>1, <2>1, <2>4, <2>5
          DEF InductiveInvariant, NeverOutOfCells, OneCellPerLevel
<1> QED BY <1>3, <1>4

\* What an iteration of the loop starts from.
LEMMA InLoop ==
  ASSUME InductiveInvariant, pc = "loop"
  PROVE  /\ TypeOK /\ OneCellPerLevel /\ NeverOutOfCells
         /\ IsFiniteSet(DOMAIN request)
         /\ weight \in [DOMAIN request -> Nat]
         /\ cell_size \in Nat \ {0}
         /\ weight \in [DOMAIN request -> 0..2 * cell_size]
         /\ 2 * cell_size \in Nat
         /\ \E level \in 0..HIERARCHY_DEPTH : LoopAt(level)
<1>1. TypeOK /\ OneCellPerLevel /\ NeverOutOfCells /\ LoopInvariant
  BY DEF InductiveInvariant
<1>2. PICK level \in 0..HIERARCHY_DEPTH : LoopAt(level)
  BY <1>1 DEF LoopInvariant
<1>3. cell_size \in Nat \ {0} /\ weight \in [DOMAIN request -> Nat]
  BY <1>1, RequestType DEF TypeOK
<1>4. weight \in [DOMAIN request -> 0..2 * cell_size]
  BY <1>2, <1>3 DEF LoopAt
<1> QED BY <1>1, <1>2, <1>3, <1>4, RequestType

\* Every cell a relay has is a node.
LEMMA NodesType ==
  ASSUME TypeOK
  PROVE  \A r \in DOMAIN request :
           /\ Len(nodes[r]) \in Nat
           /\ DOMAIN nodes[r] = 1..Len(nodes[r])
           /\ \A i \in DOMAIN nodes[r] : /\ nodes[r][i] \in Node
                                        /\ nodes[r][i].len \in Nat
<1> SUFFICES ASSUME NEW r \in DOMAIN request
             PROVE  /\ Len(nodes[r]) \in Nat
                    /\ DOMAIN nodes[r] = 1..Len(nodes[r])
                    /\ \A i \in DOMAIN nodes[r] : /\ nodes[r][i] \in Node
                                                 /\ nodes[r][i].len \in Nat
  OBVIOUS
<1>1. nodes[r] \in Seq(Node)
  BY DEF TypeOK
<1>2. \A x \in Node : x.len \in Nat
  BY DepthAssumption DEF Node
<1> HIDE DEF Node
<1> QED BY <1>1, <1>2

\* Splitting every free cell keeps the space: twice as many cells of half the
\* size, one level down.
LEMMA SplitStep == InductiveInvariant /\ Split => InductiveInvariant'
<1> SUFFICES ASSUME InductiveInvariant, Split PROVE InductiveInvariant'
  OBVIOUS
<1> DEFINE n == Len(free_cells)
           half == cell_size \div 2
<1>1. /\ pc = "loop" /\ pc' = "loop" /\ cell_size' = half
      /\ UNCHANGED <<request, weight, nodes>>
      /\ free_cells' = [i \in 1..2 * n |->
                          IF i % 2 = 1 THEN left(free_cells[(i + 1) \div 2])
                                       ELSE right(free_cells[i \div 2])]
  BY DEF Split
<1>2. PICK q \in DOMAIN weight :
             Largest(q) /\ weight[q] # 0 /\ weight[q] < cell_size
  BY DEF Split
<1>3. PICK level \in 0..HIERARCHY_DEPTH : LoopAt(level)
  BY <1>1, InLoop
<1>4. /\ TypeOK /\ OneCellPerLevel /\ NeverOutOfCells
      /\ weight \in [DOMAIN request -> Nat]
      /\ cell_size \in Nat \ {0}
      /\ HIERARCHY_DEPTH \in Nat
  BY <1>1, InLoop, DepthAssumption
<1>5. cell_size > 1
  BY <1>2, <1>4
<1>6. /\ level < HIERARCHY_DEPTH
      /\ half = 2^(HIERARCHY_DEPTH - (level + 1))
      /\ half \in Nat \ {0} /\ cell_size = 2 * half
  <2> DEFINE k == HIERARCHY_DEPTH - level
  <2>1. k \in Nat /\ cell_size = 2^k
    BY <1>3, <1>4 DEF LoopAt
  <2>2. k # 0
    <3>1. 2^0 = 1
      <4>1. Cardinality(SUBSET {}) = 2^0
        BY FS_SUBSET, FS_EmptySet
      <4>2. SUBSET {} = {{}}
        OBVIOUS
      <4>3. Cardinality({{}}) = 1
        BY FS_Singleton
      <4> QED BY <4>1, <4>2, <4>3
    <3> HIDE DEF k
    <3>2. k = 0 => 2^k = 1
      BY <3>1
    <3> QED BY <2>1, <3>2, <1>5
  <2>3. 2^k = 2 * 2^(k - 1) /\ 2^k \div 2 = 2^(k - 1) /\ 2^(k - 1) \in Nat \ {0}
    BY <2>1, <2>2, PowerHalves, PowerPositive
  <2>4. k - 1 = HIERARCHY_DEPTH - (level + 1) /\ level < HIERARCHY_DEPTH
    BY <1>3, <1>4, <2>1, <2>2
  <2> QED BY <2>1, <2>3, <2>4
<1>7. n \in Nat /\ \A i \in 1..n : free_cells[i] \in Node /\ free_cells[i].len = level
  BY <1>3, <1>4 DEF TypeOK, LoopAt
<1>8. \A i \in 1..2 * n : /\ free_cells'[i] \in Node
                          /\ free_cells'[i].len = level + 1
  <2> SUFFICES ASSUME NEW i \in 1..2 * n
               PROVE  free_cells'[i] \in Node /\ free_cells'[i].len = level + 1
    OBVIOUS
  <2>1. CASE i % 2 = 1
    <3>1. (i + 1) \div 2 \in 1..n
      BY <1>7, <2>1
    <3>2. free_cells'[i] = left(free_cells[(i + 1) \div 2])
      BY <1>1, <2>1
    <3> QED BY <1>4, <1>6, <1>7, <3>1, <3>2 DEF left, Node
  <2>2. CASE i % 2 # 1
    <3>1. i \div 2 \in 1..n
      BY <1>7, <2>2
    <3>2. free_cells'[i] = right(free_cells[i \div 2])
      BY <1>1, <2>2
    <3> QED BY <1>4, <1>6, <1>7, <3>1, <3>2, SMTT(60) DEF right, Node
  <2> QED BY <2>1, <2>2
<1>9. free_cells' \in Seq(Node) /\ Len(free_cells') = 2 * n
  BY <1>1, <1>7, <1>8
<1>10. TypeOK'
  <2>1. cell_size \in 1..WEIGHT_SPACE_SIZE /\ WEIGHT_SPACE_SIZE \in Nat
    BY <1>4, RequestType DEF TypeOK
  <2>2. half \in 1..WEIGHT_SPACE_SIZE
    BY <1>6, <2>1
  <2> HIDE DEF half
  <2> QED BY <1>1, <1>4, <2>2, <1>9 DEF TypeOK
<1>11. \A r \in DOMAIN request : weight[r] < cell_size
  <2>1. \A r \in DOMAIN request : ~Less(q, r)
    BY <1>2, <1>4 DEF Largest
  <2>2. \A r \in DOMAIN request : weight[r] <= weight[q]
    BY <1>2, <1>4, <2>1 DEF Less
  <2> QED BY <1>2, <1>4, <2>2
<1>12. LoopAt(level + 1)'
  <2>1. cell_size' = 2^(HIERARCHY_DEPTH - (level + 1))
    BY <1>1, <1>6
  <2>2. \A i \in DOMAIN free_cells' : free_cells'[i].len = level + 1
    BY <1>1, <1>8
  <2>3. Total(weight') <= Len(free_cells') * cell_size'
    <3>1. n * (2 * half) = (2 * n) * half
      BY <1>6, <1>7
    <3> QED BY <1>1, <1>3, <1>6, <1>9, <3>1 DEF LoopAt
  <2>4. ASSUME NEW r \in DOMAIN request'
        PROVE  /\ weight'[r] < 2 * cell_size'
               /\ \A i \in DOMAIN nodes'[r] : nodes'[r][i].len < level + 1
    <3>1. \A i \in DOMAIN nodes[r] : nodes[r][i].len \in Nat
      BY <1>1, <1>4, <2>4, NodesType
    <3>2. \A i \in DOMAIN nodes[r] : nodes[r][i].len <= level
      BY <1>1, <1>3, <2>4 DEF LoopAt
    <3> QED BY <1>1, <1>3, <1>6, <1>11, <2>4, <3>1, <3>2
  <2>5. \A r \in DOMAIN request' : \A i \in DOMAIN nodes'[r] : nodes'[r][i].len \in Nat
    BY <1>1, <1>4, NodesType
  <2> QED BY <2>1, <2>2, <2>3, <2>4, <2>5, <1>3 DEF LoopAt
<1>13. LoopInvariant'
  BY <1>6, <1>12, <1>4 DEF LoopInvariant
<1> QED BY <1>1, <1>4, <1>10, <1>13
        DEF InductiveInvariant, NeverOutOfCells, OneCellPerLevel

\* Giving a cell away: there is one, because the free cells are enough for
\* what is owed; and the relay had none of that size.
LEMMA AssignStep == InductiveInvariant /\ Assign => InductiveInvariant'
<1> SUFFICES ASSUME InductiveInvariant, Assign PROVE InductiveInvariant'
  OBVIOUS
<1> DEFINE S == DOMAIN request
           n == Len(free_cells)
           cell == free_cells[n]
<1>1. PICK r \in DOMAIN weight :
             /\ weight[r] # 0 /\ weight[r] >= cell_size
             /\ weight' = [weight EXCEPT ![r] = @ - cell_size]
             /\ IF free_cells = <<>>
                  THEN pc' = "panic" /\ UNCHANGED <<nodes, free_cells>>
                  ELSE /\ nodes' = [nodes EXCEPT ![r] = Append(@, cell)]
                       /\ free_cells' = SubSeq(free_cells, 1, n - 1)
                       /\ UNCHANGED pc
  BY DEF Assign
<1>2. pc = "loop" /\ UNCHANGED <<request, cell_size>>
  BY DEF Assign
<1>3. PICK level \in 0..HIERARCHY_DEPTH : LoopAt(level)
  BY <1>2, InLoop
<1>4. /\ TypeOK /\ OneCellPerLevel /\ NeverOutOfCells /\ IsFiniteSet(S)
      /\ weight \in [S -> Nat] /\ cell_size \in Nat \ {0}
      /\ weight \in [S -> 0..2 * cell_size] /\ 2 * cell_size \in Nat
      /\ r \in S /\ free_cells \in Seq(Node) /\ nodes \in [S -> Seq(Node)]
      /\ n \in Nat
  BY <1>1, <1>2, InLoop DEF TypeOK
<1>5. Total(weight) \in Nat /\ weight[r] <= Total(weight)
  BY <1>4, TotalType, TotalAtLeast
<1>6. free_cells # <<>> /\ n > 0
  <2>1. Total(weight) <= n * cell_size
    BY <1>3 DEF LoopAt
  <2>2. n # 0
    BY <1>1, <1>4, <1>5, <2>1
  <2> QED BY <1>4, <2>2
<1>7. /\ nodes' = [nodes EXCEPT ![r] = Append(@, cell)]
      /\ free_cells' = SubSeq(free_cells, 1, n - 1)
      /\ pc' = "loop"
  BY <1>1, <1>2, <1>6
<1>8. cell \in Node /\ cell.len = level
  BY <1>3, <1>4, <1>6 DEF LoopAt
<1>9. /\ free_cells' \in Seq(Node) /\ Len(free_cells') = n - 1
      /\ \A i \in 1..n - 1 : free_cells'[i] = free_cells[i]
  <2> DEFINE t == SubSeq(free_cells, 1, n - 1)
             m == n - 1
  <2>1. m \in Nat /\ 1 \in Int /\ m \in Int
    BY <1>4, <1>6
  <2>2. \A i \in 1..m : free_cells[i] \in Node
    <3> HIDE DEF Node
    <3> QED BY <1>4, <1>6
  <2>3. /\ SubSeq(free_cells, 1, m) \in Seq(Node)
        /\ Len(SubSeq(free_cells, 1, m)) = IF 1 <= m THEN m - 1 + 1 ELSE 0
        /\ \A i \in 1..m - 1 + 1 : SubSeq(free_cells, 1, m)[i] = free_cells[1 + i - 1]
    <3> HIDE DEF Node, m
    <3> QED BY <2>1, <2>2, SubSeqProperties
  <2> HIDE DEF t
  <2>4. t \in Seq(Node) /\ Len(t) = m /\ \A i \in 1..m : t[i] = free_cells[i]
    <3> HIDE DEF Node, m
    <3>1. m - 1 + 1 = m /\ (\A i \in 1..m : 1 + i - 1 = i) /\ (1 <= m \/ m = 0)
      BY <2>1
    <3>2. Len(t) = m
      BY <2>1, <2>3, <3>1 DEF t, m
    <3>3. \A i \in 1..m : t[i] = free_cells[i]
      BY <2>3, <3>1 DEF t, m
    <3> QED BY <2>3, <3>2, <3>3 DEF t, m
  <2> QED BY <1>7, <2>4 DEF t
<1>10. weight' \in [S -> Nat] /\ weight'[r] = weight[r] - cell_size
  BY <1>1, <1>4
<1>11. TypeOK'
  <2>1. nodes' \in [S -> Seq(Node)]
    <3>1. Append(nodes[r], cell) \in Seq(Node)
      <4> HIDE DEF Node, cell
      <4> QED BY <1>4, <1>8
    <3> QED BY <1>4, <1>7, <3>1
  <2> QED BY <1>2, <1>4, <1>7, <1>9, <1>10, <2>1 DEF TypeOK
<1>12. Total(weight') <= Len(free_cells') * cell_size'
  <2>1. cell_size \in 0..weight[r]
    BY <1>1, <1>4
  <2>2. Total(weight') = Total(weight) - cell_size
    <3> DEFINE M == 2 * cell_size
    <3>1. M \in Nat /\ weight \in [S -> 0..M] /\ IsFiniteSet(S) /\ r \in S
      BY <1>4
    <3>2. /\ weight' \in [S -> 0..M] /\ weight'[r] = weight[r] - cell_size
          /\ \A s \in S \ {r} : weight'[s] = weight[s]
      BY <1>1, <1>4
    <3> HIDE DEF M, S
    <3> QED BY <2>1, <3>1, <3>2, TotalCharged
  <2>3. Total(weight) <= n * cell_size
    BY <1>3 DEF LoopAt
  <2>4. (n - 1) * cell_size = n * cell_size - cell_size
    BY <1>4, <1>6
  <2>5. n * cell_size \in Nat
    BY <1>4
  <2> QED BY <1>2, <1>4, <1>5, <1>9, <2>2, <2>3, <2>4, <2>5
<1>13. /\ Len(nodes[r]) \in Nat
       /\ DOMAIN nodes[r] = 1..Len(nodes[r])
       /\ DOMAIN nodes'[r] = 1..Len(nodes[r]) + 1
       /\ \A i \in 1..Len(nodes[r]) : nodes'[r][i] = nodes[r][i]
       /\ nodes'[r][Len(nodes[r]) + 1] = cell
       /\ \A s \in S : s # r => nodes'[s] = nodes[s]
  BY <1>4, <1>7, <1>8
<1>14. \A i \in DOMAIN nodes[r] : nodes[r][i].len \in Nat /\ nodes[r][i].len < level
  <2>1. \A i \in DOMAIN nodes[r] : nodes[r][i].len \in Nat
    BY <1>4, NodesType
  <2> QED BY <1>1, <1>3, <1>4, <2>1, SMTT(60) DEF LoopAt
<1>15. weight[r] - cell_size < cell_size
  BY <1>3, <1>4 DEF LoopAt
<1>16. LoopAt(level)'
  <2>1. cell_size' = 2^(HIERARCHY_DEPTH - level)
    BY <1>2, <1>3 DEF LoopAt
  <2>2. \A i \in DOMAIN free_cells' : free_cells'[i].len = level
    <3>1. \A i \in 1..n : free_cells[i].len = level
      BY <1>3, <1>4 DEF LoopAt
    <3>2. DOMAIN free_cells' = 1..n - 1
      <4>1. free_cells' \in Seq(Node) /\ Len(free_cells') = n - 1
        BY <1>9
      <4> HIDE DEF Node
      <4> QED BY <4>1
    <3>3. \A i \in 1..n - 1 : free_cells'[i] = free_cells[i] /\ i \in 1..n
      BY <1>4, <1>9
    <3> QED BY <3>1, <3>2, <3>3
  <2>3. ASSUME NEW s \in S
        PROVE  /\ weight'[s] < 2 * cell_size
               /\ \A i \in DOMAIN nodes'[s] :
                    /\ nodes'[s][i].len <= level
                    /\ nodes'[s][i].len = level => weight'[s] < cell_size
    <3>1. CASE s = r
      <4>1. weight'[s] < cell_size /\ weight'[s] \in Nat
        BY <1>10, <1>15, <3>1
      <4>2. \A i \in DOMAIN nodes'[r] : nodes'[r][i].len <= level
        <5>1. level <= level
          BY <1>3, DepthAssumption
        <5>2. ASSUME NEW i \in 1..Len(nodes[r])
              PROVE  nodes'[r][i].len <= level
          <6>1. nodes[r][i].len \in Nat /\ nodes[r][i].len < level
            BY <1>13, <1>14
          <6>2. level \in Nat
            BY <1>3, DepthAssumption
          <6>3. nodes'[r][i] = nodes[r][i]
            BY <1>13
          <6> QED BY <6>1, <6>2, <6>3
        <5>3. nodes'[r][Len(nodes[r]) + 1].len <= level
          BY <1>8, <1>13, <5>1
        <5>4. \A i \in DOMAIN nodes'[r] :
                i \in 1..Len(nodes[r]) \/ i = Len(nodes[r]) + 1
          BY <1>13
        <5> QED BY <5>2, <5>3, <5>4
      <4> QED BY <1>4, <3>1, <4>1, <4>2
    <3>2. CASE s # r
      <4>1. weight'[s] = weight[s] /\ nodes'[s] = nodes[s]
        BY <1>1, <1>4, <1>13, <3>2
      <4> QED BY <1>3, <4>1 DEF LoopAt
    <3> QED BY <3>1, <3>2
  <2> QED BY <1>2, <1>12, <2>1, <2>2, <2>3 DEF LoopAt
<1>17. OneCellPerLevel'
  <2> SUFFICES ASSUME NEW s \in S, NEW i \in DOMAIN nodes'[s],
                      NEW j \in DOMAIN nodes'[s], i < j
               PROVE  nodes'[s][i].len < nodes'[s][j].len
    BY <1>4, <1>7 DEF OneCellPerLevel
  <2>1. CASE s # r
    BY <1>4, <1>13, <2>1 DEF OneCellPerLevel
  <2>2. CASE s = r
    <3> DEFINE m == Len(nodes[r])
    <3>1. m \in Nat /\ i \in 1..m + 1 /\ j \in 1..m + 1 /\ i < j
      BY <1>13, <2>2
    <3> HIDE DEF m
    <3>2. i \in 1..m
      BY <3>1
    <3>3. CASE j = m + 1
      <4>1. nodes'[r][i].len < level /\ nodes'[r][j].len = level
        BY <1>8, <1>13, <1>14, <3>2, <3>3 DEF m
      <4> QED BY <2>2, <4>1
    <3>4. CASE j # m + 1
      <4>1. j \in 1..m
        BY <3>1, <3>4
      <4>2. nodes[r][i].len < nodes[r][j].len
        BY <1>4, <1>13, <3>1, <3>2, <4>1 DEF OneCellPerLevel, m
      <4> QED BY <1>13, <2>2, <3>2, <4>1, <4>2 DEF m
    <3> QED BY <3>3, <3>4
  <2> QED BY <2>1, <2>2
<1> QED BY <1>7, <1>11, <1>16, <1>17
        DEF InductiveInvariant, NeverOutOfCells, LoopInvariant

\* Leaving the loop changes nothing the invariant is about.
LEMMA StopStep == InductiveInvariant /\ Stop => InductiveInvariant'
<1> SUFFICES ASSUME InductiveInvariant, Stop PROVE InductiveInvariant'
  OBVIOUS
<1>1. pc' = "done" /\ UNCHANGED <<request, weight, nodes, free_cells, cell_size>>
  BY DEF Stop
<1> QED BY <1>1 DEF InductiveInvariant, TypeOK, NeverOutOfCells, OneCellPerLevel

-----------------------------------------------------------------------------
(* Theorems.                                                               *)

\* The invariant holds throughout every run of allocate().
THEOREM AllocationInvariant == Spec => []InductiveInvariant
<1>1. Init => InductiveInvariant
  BY AllocationInit
<1>2. InductiveInvariant /\ [Next]_vars => InductiveInvariant'
  <2> SUFFICES ASSUME InductiveInvariant, [Next]_vars PROVE InductiveInvariant'
    OBVIOUS
  <2>1. CASE Scale  BY <2>1, ScaleStep
  <2>2. CASE Split  BY <2>2, SplitStep
  <2>3. CASE Assign BY <2>3, AssignStep
  <2>4. CASE Stop   BY <2>4, StopStep
  <2>5. CASE UNCHANGED vars
    <3>1. UNCHANGED <<request, weight, nodes, free_cells, cell_size, pc>>
      BY <2>5 DEF vars
    <3> QED BY <3>1
            DEF InductiveInvariant, TypeOK, NeverOutOfCells, OneCellPerLevel,
                LoopInvariant, LoopAt
  <2> QED BY <2>1, <2>2, <2>3, <2>4, <2>5 DEF Next
<1> QED BY <1>1, <1>2, PTL DEF Spec

\* Every value allocate() computes with is of its type: no path, weight or
\* cell size is ever out of range.
THEOREM AllocationTypeOK == Spec => []TypeOK
<1>1. InductiveInvariant => TypeOK
  BY DEF InductiveInvariant
<1> QED BY <1>1, AllocationInvariant, PTL

\* allocate() never pops from an empty stack of free cells, for any number of
\* relays and any weights; only requests of weight zero make it fail.
THEOREM AllocationNeverOutOfCells == Spec => []NeverOutOfCells
<1>1. InductiveInvariant => NeverOutOfCells
  BY DEF InductiveInvariant
<1> QED BY <1>1, AllocationInvariant, PTL

\* The cells of a relay are all of different levels, so that there are at
\* most HIERARCHY_DEPTH + 1 of them.
THEOREM AllocationOneCellPerLevel == Spec => []OneCellPerLevel
<1>1. InductiveInvariant => OneCellPerLevel
  BY DEF InductiveInvariant
<1> QED BY <1>1, AllocationInvariant, PTL

-----------------------------------------------------------------------------
(* Identities and cells.                                                   *)

\* A quotient is determined by its remainder's bounds.
LEMMA QuotientUnique ==
  ASSUME NEW a \in Nat, NEW b \in Nat \ {0}, NEW q \in Int, NEW r \in 0..b - 1,
         a = b * q + r
  PROVE  a \div b = q
<1> DEFINE s == a \div b
           t == a % b
<1>1. s \in Int /\ t \in 0..b - 1 /\ a = b * s + t
  OBVIOUS
<1> HIDE DEF s, t
<1>2. b * (q - s) = t - r
  BY <1>1
<1> DEFINE d == q - s
<1>3. d \in Int /\ b * d = t - r /\ t - r < b /\ t - r > -b
  BY <1>1, <1>2
<1> HIDE DEF d
<1>4. d < 1 /\ d > -1
  BY <1>3
<1>5. d = 0
  BY <1>3, <1>4
<1> QED BY <1>1, <1>5 DEF d, s

\* Dividing twice by two is dividing by four, and so on: one step of it.
LEMMA QuotientHalves ==
  ASSUME NEW a \in Nat, NEW b \in Nat \ {0}
  PROVE  /\ a \div b \in Nat /\ a \div (2 * b) \in Nat
         /\ a \div b = 2 * (a \div (2 * b)) \/ a \div b = 2 * (a \div (2 * b)) + 1
<1> DEFINE s == a \div (2 * b)
           t == a % (2 * b)
<1>1. 2 * b \in Nat \ {0}
  OBVIOUS
<1>2. s \in Nat /\ t \in 0..2 * b - 1 /\ a = 2 * b * s + t
  <2> DEFINE c == 2 * b
  <2>1. c \in Nat \ {0}
    BY <1>1
  <2> HIDE DEF c
  <2>2. a \div c \in Nat /\ a % c \in 0..c - 1 /\ a = c * (a \div c) + (a % c)
    BY <2>1
  <2> QED BY <2>2 DEF c
<1> HIDE DEF s, t
<1>3. CASE t < b
  <2>1. t \in 0..b - 1 /\ a = b * (2 * s) + t /\ 2 * s \in Int
    BY <1>2, <1>3
  <2>2. a \div b = 2 * s
    BY <2>1, QuotientUnique
  <2> QED BY <1>2, <2>2 DEF s
<1>4. CASE ~(t < b)
  <2>1. t - b \in 0..b - 1 /\ a = b * (2 * s + 1) + (t - b) /\ 2 * s + 1 \in Int
    BY <1>2, <1>4
  <2>2. a \div b = 2 * s + 1
    BY <2>1, QuotientUnique
  <2> QED BY <1>2, <2>2 DEF s
<1> QED BY <1>3, <1>4

\* An identity is below a cell if its first bits are the cell's path.
LEMMA ContainsLeaf ==
  ASSUME NEW n \in Node, NEW l \in Leaves
  PROVE  contains(n, number(l)) <=> l \div 2^(HIERARCHY_DEPTH - n.len) = n.path
<1>1. WEIGHT_SPACE_SIZE \in Nat \ {0} /\ HIERARCHY_DEPTH \in Nat
  BY DepthAssumption, PowerPositive DEF WEIGHT_SPACE_SIZE
<1>2. l \in Nat /\ l < WEIGHT_SPACE_SIZE
  BY <1>1 DEF Leaves
<1>3. l % WEIGHT_SPACE_SIZE = l
  <2> DEFINE W == WEIGHT_SPACE_SIZE
  <2>1. l \in 0..W - 1 /\ l = W * 0 + l /\ W \in Nat \ {0}
    BY <1>1, <1>2
  <2> HIDE DEF W
  <2>2. l \div W = 0
    BY <1>2, <2>1, QuotientUnique
  <2>3. l = W * (l \div W) + (l % W)
    BY <1>2, <2>1
  <2> QED BY <1>2, <2>1, <2>2, <2>3 DEF W
<1>4. number(l) = [len |-> HIERARCHY_DEPTH, path |-> l]
  BY <1>3 DEF number, new, canonicalized, WEIGHT_SPACE_SIZE
<1>5. n.len <= HIERARCHY_DEPTH
  BY <1>1 DEF Node
<1> QED BY <1>4, <1>5 DEF contains

\* Everything is below the root.
LEMMA RootContains ==
  \A l \in Leaves : contains(ROOT, number(l))
<1> TAKE l \in Leaves
<1> DEFINE W == WEIGHT_SPACE_SIZE
<1>1. W \in Nat \ {0} /\ HIERARCHY_DEPTH \in Nat /\ ROOT \in Node
  BY DepthAssumption, PowerPositive DEF WEIGHT_SPACE_SIZE, ROOT, Node
<1>2. l \in Nat /\ l \in 0..W - 1 /\ l = W * 0 + l
  BY <1>1 DEF Leaves
<1>3. l \div W = 0
  <2> HIDE DEF W
  <2> QED BY <1>1, <1>2, QuotientUnique
<1>4. HIERARCHY_DEPTH - ROOT.len = HIERARCHY_DEPTH /\ ROOT.path = 0
  BY <1>1 DEF ROOT
<1> QED BY <1>1, <1>3, <1>4, ContainsLeaf DEF WEIGHT_SPACE_SIZE

\* What is below a node is below exactly one of its children.
LEMMA ChildrenSplit ==
  ASSUME NEW n \in Node, n.len < HIERARCHY_DEPTH, NEW l \in Leaves
  PROVE  /\ left(n) \in Node /\ right(n) \in Node
         /\ contains(left(n), number(l)) \/ contains(right(n), number(l))
              <=> contains(n, number(l))
         /\ ~(contains(left(n), number(l)) /\ contains(right(n), number(l)))
<1> DEFINE k == HIERARCHY_DEPTH - n.len
           b == 2^(k - 1)
<1>1. HIERARCHY_DEPTH \in Nat /\ n.len \in Nat /\ n.path \in Nat /\ k \in Nat \ {0}
  BY DepthAssumption DEF Node
<1>2. left(n) \in Node /\ right(n) \in Node
  BY <1>1 DEF left, right, Node
<1>3. 2^k = 2 * b /\ b \in Nat \ {0}
  <2> HIDE DEF k
  <2> QED BY <1>1, PowerHalves, PowerPositive
<1>4. l \in Nat
  BY DepthAssumption, PowerPositive DEF Leaves, WEIGHT_SPACE_SIZE
<1>5. /\ l \div b \in Nat /\ l \div (2 * b) \in Nat
      /\ l \div b = 2 * (l \div (2 * b)) \/ l \div b = 2 * (l \div (2 * b)) + 1
  <2> HIDE DEF b
  <2> QED BY <1>3, <1>4, QuotientHalves
<1>6. contains(n, number(l)) <=> l \div (2 * b) = n.path
  <2> HIDE DEF b
  <2> QED BY <1>3, ContainsLeaf
<1>7. HIERARCHY_DEPTH - (n.len + 1) = k - 1
  BY <1>1
<1>8. contains(left(n), number(l)) <=> l \div b = 2 * n.path
  <2>1. left(n).len = n.len + 1 /\ left(n).path = 2 * n.path
    BY DEF left
  <2> HIDE DEF k
  <2> QED BY <1>2, <1>7, <2>1, ContainsLeaf
<1>9. contains(right(n), number(l)) <=> l \div b = 2 * n.path + 1
  <2>1. right(n).len = n.len + 1 /\ right(n).path = 2 * n.path + 1
    BY DEF right
  <2> HIDE DEF k
  <2> QED BY <1>2, <1>7, <2>1, ContainsLeaf
<1> DEFINE x == l \div b
           y == l \div (2 * b)
<1> HIDE DEF b, x, y
<1> QED BY <1>1, <1>2, <1>5, <1>6, <1>8, <1>9 DEF x, y
-----------------------------------------------------------------------------
(* Where cells are.                                                        *)

\* Places and CellAt, for any nodes and free cells.
PlacesIn(nds, free) ==
  (UNION {{r} \X DOMAIN nds[r] : r \in DOMAIN nds}) \cup ({NoRelay} \X DOMAIN free)

CellIn(nds, free, p) == IF p[1] = NoRelay THEN free[p[2]] ELSE nds[p[1]][p[2]]

\* Exactly one place has a cell that the identity is below.
BelowOne(nds, free, l) ==
  \E p \in PlacesIn(nds, free) : \A q \in PlacesIn(nds, free) :
    contains(CellIn(nds, free, q), number(l)) <=> q = p

\* Places are pairs of a holder and an index.
PlacesArePairs(S, nds, free) ==
  /\ \A i \in 1..Len(free) :
       /\ <<NoRelay, i>> \in PlacesIn(nds, free)
       /\ CellIn(nds, free, <<NoRelay, i>>) = free[i]
  /\ \A r \in S : \A i \in 1..Len(nds[r]) :
       /\ <<r, i>> \in PlacesIn(nds, free)
       /\ CellIn(nds, free, <<r, i>>) = nds[r][i]
  /\ \A p \in PlacesIn(nds, free) :
       \/ \E i \in 1..Len(free) : p = <<NoRelay, i>>
       \/ \E r \in S : \E i \in 1..Len(nds[r]) : p = <<r, i>>

\* The places are the positions on the stack and in each relay's list, one place for each.
LEMMA PlaceCases ==
  ASSUME NEW S, S \subseteq Nat, NEW nds \in [S -> Seq(Node)], NEW free \in Seq(Node)
  PROVE  PlacesArePairs(S, nds, free)
<1> HIDE DEF Node
<1>0. \A r \in S : r # NoRelay /\ r \in DOMAIN nds /\ DOMAIN nds[r] = 1..Len(nds[r])
  BY DEF NoRelay
<1>00. DOMAIN free = 1..Len(free)
  OBVIOUS
<1> DEFINE A == UNION {{r} \X DOMAIN nds[r] : r \in DOMAIN nds}
           B == {NoRelay} \X DOMAIN free
<1>p. PlacesIn(nds, free) = A \cup B
  BY DEF PlacesIn
<1>A. /\ \A r \in S : {r} \X DOMAIN nds[r] \subseteq A
      /\ \A p \in A : \E r \in S : p \in {r} \X DOMAIN nds[r]
  OBVIOUS
<1>B. /\ \A i \in 1..Len(free) : <<NoRelay, i>> \in B
      /\ \A p \in B : \E i \in 1..Len(free) : p = <<NoRelay, i>>
  BY <1>00
<1> HIDE DEF A, B
<1>1. ASSUME NEW i \in 1..Len(free)
      PROVE  /\ <<NoRelay, i>> \in PlacesIn(nds, free)
             /\ CellIn(nds, free, <<NoRelay, i>>) = free[i]
  <2>1. <<NoRelay, i>> \in PlacesIn(nds, free)
    BY <1>p, <1>B
  <2> QED BY <2>1 DEF CellIn
<1>2. ASSUME NEW r \in S, NEW i \in 1..Len(nds[r])
      PROVE  /\ <<r, i>> \in PlacesIn(nds, free)
             /\ CellIn(nds, free, <<r, i>>) = nds[r][i]
  <2>1. <<r, i>> \in {r} \X DOMAIN nds[r]
    BY <1>0
  <2>2. <<r, i>> \in PlacesIn(nds, free)
    BY <1>p, <1>A, <2>1
  <2> QED BY <1>0, <2>2 DEF CellIn
<1>3. ASSUME NEW p \in PlacesIn(nds, free)
      PROVE  \/ \E i \in 1..Len(free) : p = <<NoRelay, i>>
             \/ \E r \in S : \E i \in 1..Len(nds[r]) : p = <<r, i>>
  <2>1. CASE p \in B
    BY <1>B, <2>1
  <2>2. CASE p \in A
    <3>1. PICK r \in S : p \in {r} \X DOMAIN nds[r]
      BY <1>A, <2>2
    <3>2. DOMAIN nds[r] = 1..Len(nds[r])
      BY <1>0
    <3>3. \E i \in 1..Len(nds[r]) : p = <<r, i>>
      BY <3>1, <3>2
    <3> QED BY <3>3
  <2> QED BY <1>p, <1>3, <2>1, <2>2
<1> QED BY <1>1, <1>2, <1>3 DEF PlacesArePairs

\* Splitting every free cell: the half that the identity is below takes the
\* place of the whole.
LEMMA SplitKeepsOne ==
  ASSUME NEW S, S \subseteq Nat, NEW nds \in [S -> Seq(Node)],
         NEW free \in Seq(Node), NEW halves \in Seq(Node),
         Len(halves) = 2 * Len(free),
         \A i \in 1..Len(free) : /\ free[i].len < HIERARCHY_DEPTH
                                 /\ halves[2 * i - 1] = left(free[i])
                                 /\ halves[2 * i] = right(free[i]),
         NEW l \in Leaves, BelowOne(nds, free, l)
  PROVE  BelowOne(nds, halves, l)
<1> DEFINE n == Len(free)
           in(c) == contains(c, number(l))
           old == PlacesIn(nds, free)
           now == PlacesIn(nds, halves)
<1> HIDE DEF Node
<1>1. n \in Nat /\ \A i \in 1..n : free[i] \in Node
  OBVIOUS
<1>2. \A i \in 1..n :
        /\ in(halves[2 * i - 1]) \/ in(halves[2 * i]) <=> in(free[i])
        /\ ~(in(halves[2 * i - 1]) /\ in(halves[2 * i]))
  <2> TAKE i \in 1..n
  <2> DEFINE c == free[i]
  <2>1. c \in Node /\ c.len < HIERARCHY_DEPTH
    BY <1>1
  <2>2. halves[2 * i - 1] = left(c) /\ halves[2 * i] = right(c)
    OBVIOUS
  <2> HIDE DEF c
  <2>3. /\ contains(left(c), number(l)) \/ contains(right(c), number(l))
              <=> contains(c, number(l))
        /\ ~(contains(left(c), number(l)) /\ contains(right(c), number(l)))
    BY <2>1, ChildrenSplit
  <2> QED BY <2>2, <2>3 DEF c
<1>a. PlacesArePairs(S, nds, free)
  BY PlaceCases
<1>b. PlacesArePairs(S, nds, halves)
  BY PlaceCases
<1>3. PICK p \in old : \A q \in old : in(CellIn(nds, free, q)) <=> q = p
  BY DEF BelowOne
<1>4. \A j \in 1..2 * n : \E i \in 1..n : j = 2 * i - 1 \/ j = 2 * i
  <2> TAKE j \in 1..2 * n
  <2>1. CASE j % 2 = 1
    <3>1. j \div 2 + 1 \in 1..n /\ j = 2 * (j \div 2 + 1) - 1
      BY <1>1, <2>1
    <3> QED BY <3>1
  <2>2. CASE j % 2 # 1
    <3>1. j \div 2 \in 1..n /\ j = 2 * (j \div 2)
      BY <1>1, <2>2
    <3> QED BY <3>1
  <2> QED BY <2>1, <2>2
<1>5. \A i \in 1..n : 2 * i - 1 \in 1..Len(halves) /\ 2 * i \in 1..Len(halves)
  BY <1>1
<1> SUFFICES \E one \in now : \A q \in now : in(CellIn(nds, halves, q)) <=> q = one
  BY DEF BelowOne
<1> HIDE DEF in
<1>6. CASE \E i \in 1..n : p = <<NoRelay, i>>
  <2>1. PICK i \in 1..n : p = <<NoRelay, i>>
    BY <1>6
  <2>2. in(free[i])
    BY <1>3, <2>1, <1>a DEF PlacesArePairs
  <2>3. \A k \in 1..n : in(free[k]) <=> k = i
    <3>1. \A k \in 1..n : in(free[k]) <=> <<NoRelay, k>> = <<NoRelay, i>>
      BY <1>3, <2>1, <1>a DEF PlacesArePairs
    <3> QED BY <3>1
  <2>4. PICK j \in {2 * i - 1, 2 * i} : in(halves[j])
    BY <1>2, <2>2
  <2>5. j \in 1..Len(halves) /\ <<NoRelay, j>> \in now
    BY <1>5, <2>4, <1>b DEF PlacesArePairs
  <2>6. ASSUME NEW q \in now
        PROVE  in(CellIn(nds, halves, q)) <=> q = <<NoRelay, j>>
    <3>1. CASE \E k \in 1..Len(halves) : q = <<NoRelay, k>>
      <4>1. PICK k \in 1..Len(halves) : q = <<NoRelay, k>>
        BY <3>1
      <4>2. CellIn(nds, halves, q) = halves[k]
        BY <4>1, <1>b DEF PlacesArePairs
      <4>3. PICK h \in 1..n : k = 2 * h - 1 \/ k = 2 * h
        BY <1>4
      <4>4. in(halves[k]) => k = j
        <5> SUFFICES ASSUME in(halves[k]) PROVE k = j
          OBVIOUS
        <5>1. in(free[h])
          BY <1>2, <4>3
        <5>2. h = i
          BY <2>3, <5>1
        <5> QED BY <1>2, <2>4, <4>3, <5>2
      <4> QED BY <2>4, <4>1, <4>2, <4>4
    <3>2. CASE \E r \in S : \E k \in 1..Len(nds[r]) : q = <<r, k>>
      <4>0. PICK r \in S : \E k \in 1..Len(nds[r]) : q = <<r, k>>
        BY <3>2
      <4>1. PICK k \in 1..Len(nds[r]) : q = <<r, k>>
        BY <4>0
      <4>2. q \in old /\ CellIn(nds, free, q) = nds[r][k] /\ CellIn(nds, halves, q) = nds[r][k]
        BY <4>1, <1>a, <1>b DEF PlacesArePairs
      <4>3. r # NoRelay
        BY DEF NoRelay
      <4>4. q # p /\ q # <<NoRelay, j>>
        BY <2>1, <4>1, <4>3
      <4> QED BY <1>3, <4>2, <4>4
    <3> QED BY <3>1, <3>2, <1>b DEF PlacesArePairs
  <2> QED BY <2>5, <2>6
<1>7. CASE \E r \in S : \E i \in 1..Len(nds[r]) : p = <<r, i>>
  <2>0. PICK r \in S : \E i \in 1..Len(nds[r]) : p = <<r, i>>
    BY <1>7
  <2>1. PICK i \in 1..Len(nds[r]) : p = <<r, i>>
    BY <2>0
  <2>2. r # NoRelay
    BY DEF NoRelay
  <2>3. p \in now
    BY <2>1, <1>b DEF PlacesArePairs
  <2>4. \A k \in 1..n : ~in(free[k])
    <3>1. \A k \in 1..n : in(free[k]) <=> <<NoRelay, k>> = <<r, i>>
      BY <1>3, <2>1, <1>a DEF PlacesArePairs
    <3> QED BY <2>2, <3>1
  <2>5. ASSUME NEW q \in now
        PROVE  in(CellIn(nds, halves, q)) <=> q = p
    <3>1. CASE \E k \in 1..Len(halves) : q = <<NoRelay, k>>
      <4>1. PICK k \in 1..Len(halves) : q = <<NoRelay, k>>
        BY <3>1
      <4>2. CellIn(nds, halves, q) = halves[k]
        BY <4>1, <1>b DEF PlacesArePairs
      <4>3. PICK h \in 1..n : k = 2 * h - 1 \/ k = 2 * h
        BY <1>4
      <4>4. ~in(halves[k])
        BY <1>2, <2>4, <4>3
      <4> QED BY <2>1, <2>2, <4>1, <4>2, <4>4
    <3>2. CASE \E s \in S : \E k \in 1..Len(nds[s]) : q = <<s, k>>
      <4>0. PICK s \in S : \E k \in 1..Len(nds[s]) : q = <<s, k>>
        BY <3>2
      <4>1. PICK k \in 1..Len(nds[s]) : q = <<s, k>>
        BY <4>0
      <4>2. q \in old /\ CellIn(nds, free, q) = nds[s][k] /\ CellIn(nds, halves, q) = nds[s][k]
        BY <4>1, <1>a, <1>b DEF PlacesArePairs
      <4> QED BY <1>3, <4>2
    <3> QED BY <3>1, <3>2, <1>b DEF PlacesArePairs
  <2> QED BY <2>3, <2>5
<1> QED BY <1>6, <1>7, <1>a DEF PlacesArePairs

\* What is left of a stack when its last element is popped.
LEMMA AllButLast ==
  ASSUME NEW T, NEW s \in Seq(T), Len(s) > 0
  PROVE  /\ Len(SubSeq(s, 1, Len(s) - 1)) = Len(s) - 1
         /\ \A i \in 1..Len(s) - 1 : SubSeq(s, 1, Len(s) - 1)[i] = s[i]
<1> DEFINE m == Len(s) - 1
<1>1. m \in Nat /\ 1 \in Int /\ m \in Int /\ \A i \in 1..m : s[i] \in T
  OBVIOUS
<1> HIDE DEF m
<1>2. /\ Len(SubSeq(s, 1, m)) = IF 1 <= m THEN m - 1 + 1 ELSE 0
      /\ \A i \in 1..m - 1 + 1 : SubSeq(s, 1, m)[i] = s[1 + i - 1]
  BY <1>1, SubSeqProperties
<1>3. m - 1 + 1 = m /\ (\A i \in 1..m : 1 + i - 1 = i) /\ (1 <= m \/ m = 0)
  BY <1>1
<1>4. Len(SubSeq(s, 1, m)) = m /\ \A i \in 1..m : SubSeq(s, 1, m)[i] = s[i]
  BY <1>1, <1>2, <1>3
<1> QED BY <1>4 DEF m

\* Giving away the last free cell: it only changes its place.
LEMMA AssignKeepsOne ==
  ASSUME NEW S, S \subseteq Nat, NEW nds \in [S -> Seq(Node)],
         NEW free \in Seq(Node), free # <<>>, NEW r \in S,
         NEW l \in Leaves, BelowOne(nds, free, l)
  PROVE  BelowOne([nds EXCEPT ![r] = Append(@, free[Len(free)])],
                  SubSeq(free, 1, Len(free) - 1), l)
<1> DEFINE nds2 == [nds EXCEPT ![r] = Append(@, free[Len(free)])]
           free2 == SubSeq(free, 1, Len(free) - 1)
           n == Len(free)
           m == Len(nds[r])
           in(c) == contains(c, number(l))
           old == PlacesIn(nds, free)
           now == PlacesIn(nds2, free2)
           g(p) == IF p = <<NoRelay, n>> THEN <<r, m + 1>> ELSE p
<1> HIDE DEF Node
<1>1. n \in Nat /\ n > 0 /\ free[n] \in Node /\ m \in Nat /\ r # NoRelay
  BY DEF NoRelay
<1>0. /\ nds2 = [nds EXCEPT ![r] = Append(@, free[n])]
      /\ Len(free2) = n - 1 /\ free2 \in Seq(Node)
      /\ \A i \in 1..n - 1 : free2[i] = free[i]
  BY <1>1, AllButLast
<1> HIDE DEF nds2, free2
<1>2. nds2 \in [S -> Seq(Node)]
  BY <1>0, <1>1
<1>3. /\ Len(nds2[r]) = m + 1 /\ nds2[r][m + 1] = free[n]
      /\ \A i \in 1..m : nds2[r][i] = nds[r][i]
      /\ \A s \in S : s # r => nds2[s] = nds[s]
  BY <1>0, <1>1
<1>a. PlacesArePairs(S, nds, free)
  BY PlaceCases
<1>b. PlacesArePairs(S, nds2, free2)
  BY <1>0, <1>2, PlaceCases
<1>4. ASSUME NEW p \in old
      PROVE  g(p) \in now /\ CellIn(nds2, free2, g(p)) = CellIn(nds, free, p)
  <2>1. CASE p = <<NoRelay, n>>
    <3>1. g(p) = <<r, m + 1>> /\ m + 1 \in 1..Len(nds2[r])
      BY <1>1, <1>3, <2>1
    <3>2. g(p) \in now /\ CellIn(nds2, free2, g(p)) = free[n]
      <4>1. /\ <<r, m + 1>> \in now
            /\ CellIn(nds2, free2, <<r, m + 1>>) = nds2[r][m + 1]
        BY <1>b, <3>1 DEF PlacesArePairs
      <4> HIDE DEF g, m
      <4> QED BY <1>3, <3>1, <4>1
    <3>3. CellIn(nds, free, p) = free[n]
      BY <1>1, <1>a, <2>1 DEF PlacesArePairs
    <3> QED BY <3>2, <3>3
  <2>2. CASE p # <<NoRelay, n>> /\ \E i \in 1..n : p = <<NoRelay, i>>
    <3>1. PICK i \in 1..n : p = <<NoRelay, i>>
      BY <2>2
    <3>2. i \in 1..Len(free2) /\ g(p) = p /\ free2[i] = free[i]
      BY <1>0, <1>1, <2>2, <3>1
    <3>3. CellIn(nds, free, <<NoRelay, i>>) = free[i]
      BY <1>a DEF PlacesArePairs
    <3>4. <<NoRelay, i>> \in now /\ CellIn(nds2, free2, <<NoRelay, i>>) = free2[i]
      BY <1>b, <3>2 DEF PlacesArePairs
    <3> HIDE DEF g, now
    <3> QED BY <3>1, <3>2, <3>3, <3>4
  <2>3. CASE \E s \in S : \E i \in 1..Len(nds[s]) : p = <<s, i>>
    <3>0. PICK s \in S : \E i \in 1..Len(nds[s]) : p = <<s, i>>
      BY <2>3
    <3>1. PICK i \in 1..Len(nds[s]) : p = <<s, i>>
      BY <3>0
    <3>2. s # NoRelay
      BY DEF NoRelay
    <3>3. g(p) = p
      BY <3>1, <3>2
    <3>4. i \in 1..Len(nds2[s]) /\ nds2[s][i] = nds[s][i]
      BY <1>1, <1>3
    <3>5. CellIn(nds, free, <<s, i>>) = nds[s][i]
      BY <1>a DEF PlacesArePairs
    <3>6. <<s, i>> \in now /\ CellIn(nds2, free2, <<s, i>>) = nds2[s][i]
      BY <1>b, <3>4 DEF PlacesArePairs
    <3> HIDE DEF g, now
    <3> QED BY <3>1, <3>3, <3>4, <3>5, <3>6
  <2> QED BY <1>a, <2>1, <2>2, <2>3 DEF PlacesArePairs
<1>5. ASSUME NEW q \in now
      PROVE  \E p \in old : q = g(p)
  <2>1. CASE \E i \in 1..Len(free2) : q = <<NoRelay, i>>
    <3>1. PICK i \in 1..Len(free2) : q = <<NoRelay, i>>
      BY <2>1
    <3>2. i \in 1..n /\ i # n
      BY <1>0, <1>1
    <3>3. q \in old /\ g(q) = q
      BY <1>a, <3>1, <3>2 DEF PlacesArePairs
    <3> QED BY <3>3
  <2>2. CASE \E s \in S : \E i \in 1..Len(nds2[s]) : q = <<s, i>>
    <3>0. PICK s \in S : \E i \in 1..Len(nds2[s]) : q = <<s, i>>
      BY <2>2
    <3>1. PICK i \in 1..Len(nds2[s]) : q = <<s, i>>
      BY <3>0
    <3>2. s # NoRelay
      BY DEF NoRelay
    <3>3. CASE s = r /\ i = m + 1
      <4>1. <<NoRelay, n>> \in old /\ g(<<NoRelay, n>>) = q
        BY <1>1, <1>a, <3>1, <3>3 DEF PlacesArePairs
      <4> QED BY <4>1
    <3>4. CASE ~(s = r /\ i = m + 1)
      <4>1. i \in 1..Len(nds[s])
        BY <1>1, <1>3, <3>4
      <4>2. q \in old /\ g(q) = q
        BY <1>a, <3>1, <3>2, <4>1 DEF PlacesArePairs
      <4> QED BY <4>2
    <3> QED BY <3>3, <3>4
  <2> QED BY <1>b, <2>1, <2>2 DEF PlacesArePairs
<1>6. ASSUME NEW p \in old, NEW q \in old, g(p) = g(q)
      PROVE  p = q
  <2>1. <<r, m + 1>> \notin old
    <3> SUFFICES ASSUME <<r, m + 1>> \in old PROVE FALSE
      OBVIOUS
    <3>1. ~\E i \in 1..n : <<r, m + 1>> = <<NoRelay, i>>
      BY <1>1
    <3>2. PICK s \in S : \E i \in 1..Len(nds[s]) : <<r, m + 1>> = <<s, i>>
      BY <1>a, <3>1 DEF PlacesArePairs
    <3>3. m + 1 \in 1..m
      BY <3>2
    <3> QED BY <1>1, <3>3
  <2> QED BY <1>6, <2>1
<1>7. PICK p \in old : \A q \in old : in(CellIn(nds, free, q)) <=> q = p
  BY DEF BelowOne
<1>8. ASSUME NEW q \in now
      PROVE  in(CellIn(nds2, free2, q)) <=> q = g(p)
  <2>1. PICK q0 \in old : q = g(q0)
    BY <1>5
  <2>2. CellIn(nds2, free2, q) = CellIn(nds, free, q0)
    BY <1>4, <2>1
  <2>3. q = g(p) <=> q0 = p
    BY <1>6, <2>1
  <2> QED BY <1>7, <2>2, <2>3
<1>9. g(p) \in now
  BY <1>4
<1>10. BelowOne(nds2, free2, l)
  BY <1>8, <1>9 DEF BelowOne
<1> QED BY <1>10 DEF nds2, free2

-----------------------------------------------------------------------------
(* How much is below a cell.                                               *)

\* The identities below a cell do not go beyond the last one there is.
Fits(c) == (c.path + 1) * 2^(HIERARCHY_DEPTH - c.len) <= WEIGHT_SPACE_SIZE

\* The two halves of a cell fit into it, side by side.
LEMMA ChildrenFit ==
  ASSUME NEW n \in Node, n.len < HIERARCHY_DEPTH, Fits(n)
  PROVE  Fits(left(n)) /\ Fits(right(n))
<1> DEFINE k == HIERARCHY_DEPTH - n.len
           b == 2^(k - 1)
           p == n.path
           W == WEIGHT_SPACE_SIZE
<1>1. HIERARCHY_DEPTH \in Nat /\ n.len \in Nat /\ p \in Nat /\ k \in Nat \ {0}
  BY DepthAssumption DEF Node
<1>2. 2^k = 2 * b /\ b \in Nat \ {0}
  <2> HIDE DEF k
  <2> QED BY <1>1, PowerHalves, PowerPositive
<1>3. W \in Nat
  BY <1>1, PowerPositive DEF WEIGHT_SPACE_SIZE
<1>4. HIERARCHY_DEPTH - (n.len + 1) = k - 1
  BY <1>1
<1>5. (p + 1) * (2 * b) <= W
  BY <1>2 DEF Fits
<1>6. /\ left(n).len = n.len + 1 /\ left(n).path = 2 * p
      /\ right(n).len = n.len + 1 /\ right(n).path = 2 * p + 1
  BY DEF left, right
<1>7. (2 * p + 1) * b <= W /\ (2 * p + 1 + 1) * b <= W
  <2> HIDE DEF b, p, W
  <2>1. (p + 1) * (2 * b) = (2 * p + 1) * b + b /\ (2 * p + 1) * b \in Nat
    BY <1>1, <1>2
  <2>2. (2 * p + 1 + 1) * b = (2 * p + 1) * b + b
    BY <1>1, <1>2
  <2> QED BY <1>2, <1>3, <1>5, <2>1, <2>2
<1> HIDE DEF k, W
<1> QED BY <1>4, <1>6, <1>7 DEF Fits, W

\* What is below a cell is a range, as long as its size.
LEMMA BelowRange ==
  ASSUME NEW c \in Node, Fits(c)
  PROVE  /\ IsFiniteSet(Below(c))
         /\ Cardinality(Below(c)) = 2^(HIERARCHY_DEPTH - c.len)
         /\ \A l, k \in Below(c) : l..k \subseteq Below(c)
<1> DEFINE b == 2^(HIERARCHY_DEPTH - c.len)
           p == c.path
           W == WEIGHT_SPACE_SIZE
           first == b * p
           last == b * p + b - 1
<1>1. b \in Nat \ {0} /\ p \in Nat /\ W \in Nat
  <2>1. HIERARCHY_DEPTH - c.len \in Nat /\ HIERARCHY_DEPTH \in Nat
    BY DepthAssumption DEF Node
  <2> QED BY <2>1, PowerPositive DEF Node, WEIGHT_SPACE_SIZE
<1>2. first \in Nat /\ last \in Nat /\ last < W
  <2>1. (p + 1) * b <= W
    BY DEF Fits
  <2> HIDE DEF b, p, W
  <2> QED BY <1>1, <2>1
<1>3. \A l \in Leaves : l \in Below(c) <=> l \div b = p
  BY ContainsLeaf DEF Below
<1>4. Leaves = 0..W - 1
  BY DEF Leaves
<1>5. Below(c) = first..last
  <2>1. ASSUME NEW l \in Below(c)
        PROVE  l \in first..last
    <3>1. l \in Leaves
      BY DEF Below
    <3>2. l \div b = p /\ l \in Nat
      BY <1>1, <1>3, <1>4, <3>1
    <3> HIDE DEF b, p
    <3>3. l = b * (l \div b) + (l % b) /\ l % b \in 0..b - 1
      BY <1>1, <3>2
    <3> QED BY <1>1, <3>2, <3>3
  <2>2. ASSUME NEW l \in first..last
        PROVE  l \in Below(c)
    <3>1. l \in Leaves
      BY <1>1, <1>2, <1>4
    <3>2. l - b * p \in 0..b - 1 /\ l = b * p + (l - b * p) /\ l \in Nat
      <4> HIDE DEF b, p
      <4> QED BY <1>1, <1>2
    <3>3. l \div b = p
      <4> HIDE DEF b, p
      <4> QED BY <1>1, <3>2, QuotientUnique
    <3> QED BY <1>3, <3>1, <3>3
  <2> QED BY <2>1, <2>2
<1>6. IsFiniteSet(first..last) /\ Cardinality(first..last) = last - first + 1
  <2> DEFINE x == first
             y == last
  <2>1. x \in Int /\ y \in Int /\ ~(x > y)
    BY <1>1, <1>2
  <2> HIDE DEF x, y
  <2>2. IsFiniteSet(x..y) /\ Cardinality(x..y) = y - x + 1
    BY <2>1, FS_Interval
  <2> QED BY <2>2 DEF x, y
<1>7. last - first + 1 = b
  <2> HIDE DEF b, p
  <2> QED BY <1>1
<1>8. \A l, k \in first..last : l..k \subseteq first..last
  <2> HIDE DEF first, last
  <2> QED BY <1>2
<1> HIDE DEF first, last
<1> QED BY <1>5, <1>6, <1>7, <1>8

-----------------------------------------------------------------------------
(* The heap.                                                               *)

\* Something can be popped from a heap that is not empty: of all elements, one
\* with as few as possible above it has none above it.
LEMMA LargestExists ==
  ASSUME IsFiniteSet(DOMAIN weight), DOMAIN weight \subseteq Nat, DOMAIN weight # {},
         weight \in [DOMAIN weight -> Nat]
  PROVE  \E r \in DOMAIN weight : Largest(r)
<1> DEFINE S == DOMAIN weight
           Above(r) == {q \in S : Less(r, q)}
           T == {Above(r) : r \in S}
<1>1. FiniteSubsetsOf(S) = SUBSET S
  BY FS_FiniteSubsetsOfFinite
<1>2. T \subseteq FiniteSubsetsOf(S) /\ T # {}
  <2>1. \A r \in S : Above(r) \in SUBSET S
    OBVIOUS
  <2>2. T # {}
    OBVIOUS
  <2> HIDE DEF Above
  <2>3. T \subseteq SUBSET S
    BY <2>1
  <2> QED BY <1>1, <2>2, <2>3
<1>3. IsWellFoundedOn(StrictSubsetOrdering(S), FiniteSubsetsOf(S))
  BY FS_StrictSubsetOrderingWellFounded
<1>4. PICK t \in T : \A u \in T : ~(<<u, t>> \in StrictSubsetOrdering(S))
  <2> HIDE DEF T
  <2> QED BY <1>2, <1>3, WFMin
<1>5. PICK r \in S : t = Above(r)
  OBVIOUS
<1>6. ASSUME NEW q \in S, Less(r, q)
      PROVE  FALSE
  <2>1. Above(q) \subseteq Above(r) /\ q \in Above(r) /\ q \notin Above(q)
    BY <1>6 DEF Less
  <2>2. <<Above(q), Above(r)>> \in StrictSubsetOrdering(S)
    BY <2>1 DEF StrictSubsetOrdering
  <2> QED BY <1>4, <1>5, <2>2
<1> QED BY <1>6 DEF Largest

-----------------------------------------------------------------------------
(* The loop partitions the identities.                                     *)

\* What each relay has been given, and what it is still owed, are its share;
\* when the loop ends, nothing is owed.
SharesAddUp ==
  /\ pc \in {"loop", "done"} =>
       /\ Total(request) # 0 \/ DOMAIN request = {}
       /\ \A r \in DOMAIN request :
            Cardinality(Given(r)) + weight[r] = Scaled(request)[r]
  /\ pc = "done" => \A r \in DOMAIN request : weight[r] = 0

\* The invariant that the partition rests on.
PartitionInvariant ==
  /\ InductiveInvariant
  /\ \A l \in Leaves : BelowOne(nodes, free_cells, l)
  /\ \A i \in DOMAIN free_cells : Fits(free_cells[i])
  /\ \A r \in DOMAIN request : \A i \in DOMAIN nodes[r] : Fits(nodes[r][i])
  /\ SharesAddUp

\* At first the root is the only cell.
LEMMA PartitionInit == Init => PartitionInvariant
<1> SUFFICES ASSUME Init PROVE PartitionInvariant
  OBVIOUS
<1>1. InductiveInvariant
  BY AllocationInit
<1>2. /\ free_cells = <<ROOT>> /\ nodes = [r \in DOMAIN request |-> <<>>]
      /\ pc = "scale"
  BY DEF Init
<1>3. ASSUME NEW l \in Leaves
      PROVE  BelowOne(nodes, free_cells, l)
  <2>1. PlacesIn(nodes, free_cells) = {<<NoRelay, 1>>}
    BY <1>2 DEF PlacesIn
  <2>2. contains(CellIn(nodes, free_cells, <<NoRelay, 1>>), number(l))
    BY <1>2, RootContains DEF CellIn
  <2> QED BY <2>1, <2>2 DEF BelowOne
<1>4. Fits(ROOT)
  <2>1. HIERARCHY_DEPTH \in Nat /\ WEIGHT_SPACE_SIZE \in Nat
    BY DepthAssumption, PowerPositive DEF WEIGHT_SPACE_SIZE
  <2>2. ROOT.len = 0 /\ ROOT.path = 0 /\ HIERARCHY_DEPTH - 0 = HIERARCHY_DEPTH
    BY <2>1 DEF ROOT
  <2> QED BY <2>1, <2>2 DEF Fits, WEIGHT_SPACE_SIZE
<1> QED BY <1>1, <1>2, <1>3, <1>4 DEF PartitionInvariant, SharesAddUp

\* Once scaled, everything is owed and nothing is given.
LEMMA PartitionScale == PartitionInvariant /\ Scale => PartitionInvariant'
<1> SUFFICES ASSUME PartitionInvariant, Scale PROVE PartitionInvariant'
  OBVIOUS
<1>1. InductiveInvariant'
  BY ScaleStep DEF PartitionInvariant
<1>2. /\ pc = "scale" /\ UNCHANGED <<request, nodes, free_cells>>
      /\ \/ pc' = "panic"
         \/ /\ pc' = "loop" /\ weight' = Scaled(request)
            /\ (DOMAIN request = {} \/ Total(request) # 0)
  BY DEF Scale
<1>3. nodes = [r \in DOMAIN request |-> <<>>]
  BY <1>2 DEF PartitionInvariant, InductiveInvariant
<1>4. Total(request) \in Nat /\ DOMAIN Scaled(request) = DOMAIN request
  <2>1. TypeOK
    BY DEF PartitionInvariant, InductiveInvariant
  <2> QED BY <2>1, RequestType, TotalType DEF Scaled
<1>5. SharesAddUp'
  <2>1. CASE pc' = "panic"
    BY <2>1 DEF SharesAddUp
  <2>2. CASE pc' = "loop" /\ weight' = Scaled(request)
    <3>1. ASSUME NEW r \in DOMAIN request
          PROVE  Cardinality(Given(r))' + weight'[r] = Scaled(request)[r]
      <4>1. Given(r)' = {}
        BY <1>2, <1>3 DEF Given
      <4>2. Cardinality(Given(r)') = 0
        BY <4>1, FS_EmptySet
      <4>3. weight'[r] \in Nat
        BY <1>1, <1>2 DEF InductiveInvariant, TypeOK
      <4> QED BY <2>2, <4>2, <4>3
    <3> QED BY <1>2, <2>2, <3>1 DEF SharesAddUp
  <2> QED BY <1>2, <2>1, <2>2
<1> QED BY <1>1, <1>2, <1>5 DEF PartitionInvariant

\* Splitting gives nothing to anybody.
LEMMA PartitionSplit == PartitionInvariant /\ Split => PartitionInvariant'
<1> SUFFICES ASSUME PartitionInvariant, Split PROVE PartitionInvariant'
  OBVIOUS
<1> DEFINE n == Len(free_cells)
<1>1. InductiveInvariant /\ InductiveInvariant' /\ TypeOK /\ TypeOK'
  BY SplitStep DEF PartitionInvariant, InductiveInvariant
<1>2. /\ pc = "loop" /\ pc' = "loop" /\ UNCHANGED <<request, weight, nodes>>
      /\ free_cells' = [i \in 1..2 * n |->
                          IF i % 2 = 1 THEN left(free_cells[(i + 1) \div 2])
                                       ELSE right(free_cells[i \div 2])]
  BY DEF Split
<1>3. DOMAIN request \subseteq Nat /\ HIERARCHY_DEPTH \in Nat
  BY <1>1, RelayAssumption, DepthAssumption DEF TypeOK
<1>4. /\ free_cells \in Seq(Node) /\ free_cells' \in Seq(Node)
      /\ nodes \in [DOMAIN request -> Seq(Node)]
      /\ n \in Nat /\ Len(free_cells') = 2 * n
  BY <1>1, <1>2 DEF TypeOK
<1>5. ASSUME NEW i \in 1..n
      PROVE  /\ free_cells[i] \in Node
             /\ free_cells'[2 * i - 1] = left(free_cells[i])
             /\ free_cells'[2 * i] = right(free_cells[i])
  <2>1. /\ 2 * i - 1 \in 1..2 * n /\ (2 * i - 1) % 2 = 1
        /\ ((2 * i - 1) + 1) \div 2 = i
        /\ 2 * i \in 1..2 * n /\ (2 * i) % 2 # 1 /\ (2 * i) \div 2 = i
    BY <1>4
  <2>2. free_cells[i] \in Node
    <3> HIDE DEF Node
    <3> QED BY <1>4
  <2> QED BY <1>2, <2>1, <2>2
<1>6. \A i \in 1..n : free_cells[i].len < HIERARCHY_DEPTH
  <2> TAKE i \in 1..n
  <2>1. free_cells'[2 * i] \in Node
    <3>1. 2 * i \in 1..2 * n
      BY <1>4
    <3> HIDE DEF Node, n
    <3> QED BY <1>4, <3>1
  <2>2. free_cells'[2 * i].len = free_cells[i].len + 1
    <3>1. free_cells'[2 * i] = right(free_cells[i])
      BY <1>5
    <3> QED BY <3>1 DEF right
  <2>3. free_cells[i].len \in Nat
    BY <1>5, <1>3 DEF Node
  <2> QED BY <2>1, <2>2, <2>3, <1>3 DEF Node
<1>7. ASSUME NEW l \in Leaves
      PROVE  BelowOne(nodes, free_cells', l)
  <2>1. BelowOne(nodes, free_cells, l)
    BY DEF PartitionInvariant
  <2> HIDE DEF Node
  <2> QED BY <1>3, <1>4, <1>5, <1>6, <2>1, SplitKeepsOne
<1>8. \A j \in DOMAIN free_cells' : Fits(free_cells'[j])
  <2> SUFFICES ASSUME NEW j \in 1..2 * n PROVE Fits(free_cells'[j])
    BY <1>2
  <2>1. \A i \in 1..n : Fits(free_cells[i])
    <3> HIDE DEF Node
    <3> QED BY <1>4 DEF PartitionInvariant
  <2>2. \A i \in 1..n : Fits(left(free_cells[i])) /\ Fits(right(free_cells[i]))
    BY <1>5, <1>6, <2>1, ChildrenFit
  <2>3. CASE j % 2 = 1
    <3>1. (j + 1) \div 2 \in 1..n
      BY <1>4, <2>3
    <3> QED BY <1>2, <2>2, <2>3, <3>1
  <2>4. CASE j % 2 # 1
    <3>1. j \div 2 \in 1..n
      BY <1>4, <2>4
    <3> QED BY <1>2, <2>2, <2>4, <3>1
  <2> QED BY <2>3, <2>4
<1>9. SharesAddUp'
  BY <1>2 DEF PartitionInvariant, SharesAddUp, Given
<1> QED BY <1>1, <1>2, <1>7, <1>8, <1>9 DEF PartitionInvariant

\* What a relay is assigned: a free cell of the current size.
LEMMA AssignedCell ==
  ASSUME InductiveInvariant, Assign
  PROVE  \E r \in DOMAIN request :
           /\ weight[r] >= cell_size
           /\ weight' = [weight EXCEPT ![r] = @ - cell_size]
           /\ free_cells # <<>> /\ Len(free_cells) > 0
           /\ cell_size = 2^(HIERARCHY_DEPTH - free_cells[Len(free_cells)].len)
           /\ nodes' = [nodes EXCEPT ![r] = Append(@, free_cells[Len(free_cells)])]
           /\ free_cells' = SubSeq(free_cells, 1, Len(free_cells) - 1)
           /\ pc = "loop" /\ pc' = "loop" /\ UNCHANGED request
<1> DEFINE S == DOMAIN request
           n == Len(free_cells)
<1>1. PICK r \in DOMAIN weight :
             /\ weight[r] # 0 /\ weight[r] >= cell_size
             /\ weight' = [weight EXCEPT ![r] = @ - cell_size]
             /\ IF free_cells = <<>>
                  THEN pc' = "panic" /\ UNCHANGED <<nodes, free_cells>>
                  ELSE /\ nodes' = [nodes EXCEPT ![r] = Append(@, free_cells[n])]
                       /\ free_cells' = SubSeq(free_cells, 1, n - 1)
                       /\ UNCHANGED pc
  BY DEF Assign
<1>2. pc = "loop" /\ UNCHANGED <<request, cell_size>>
  BY DEF Assign
<1>3. PICK level \in 0..HIERARCHY_DEPTH : LoopAt(level)
  BY <1>2, InLoop
<1>4. /\ TypeOK /\ IsFiniteSet(S)
      /\ weight \in [S -> 0..2 * cell_size] /\ 2 * cell_size \in Nat
      /\ cell_size \in Nat \ {0} /\ n \in Nat
      /\ r \in S /\ free_cells \in Seq(Node)
  BY <1>1, <1>2, InLoop DEF TypeOK
<1>5. Total(weight) \in Nat /\ weight[r] <= Total(weight)
  BY <1>4, TotalType, TotalAtLeast
<1>6. n > 0 /\ free_cells # <<>>
  <2>1. Total(weight) <= n * cell_size
    BY <1>3 DEF LoopAt
  <2>2. n # 0
    BY <1>1, <1>4, <1>5, <2>1
  <2> QED BY <1>4, <2>2
<1>7. cell_size = 2^(HIERARCHY_DEPTH - level) /\ free_cells[n].len = level
  <2>1. n \in DOMAIN free_cells
    BY <1>4, <1>6
  <2> QED BY <1>3, <2>1 DEF LoopAt
<1> QED BY <1>1, <1>2, <1>4, <1>6, <1>7

\* What a relay has can be counted.
LEMMA GivenFinite ==
  ASSUME NEW r
  PROVE  IsFiniteSet(Given(r)) /\ Cardinality(Given(r)) \in Nat
<1>1. WEIGHT_SPACE_SIZE - 1 \in Int
  BY DepthAssumption, PowerPositive DEF WEIGHT_SPACE_SIZE
<1>2. IsFiniteSet(Leaves)
  BY <1>1, FS_Interval DEF Leaves
<1>3. Given(r) \subseteq Leaves
  BY DEF Given, Below
<1> QED BY <1>2, <1>3, FS_Subset, FS_CardinalityType

\* A relay gets what nobody had, as much as it is charged for.
AssignGives ==
  LET n == Len(free_cells)
      cell == free_cells[n] IN
  \E r \in DOMAIN request :
        /\ weight[r] >= cell_size
        /\ weight' = [weight EXCEPT ![r] = @ - cell_size]
        /\ free_cells # <<>> /\ n > 0
        /\ cell_size = 2^(HIERARCHY_DEPTH - cell.len)
        /\ nodes' = [nodes EXCEPT ![r] = Append(@, cell)]
        /\ free_cells' = SubSeq(free_cells, 1, n - 1)
        /\ pc = "loop" /\ pc' = "loop" /\ UNCHANGED request
        /\ cell \in Node /\ Fits(cell)
        /\ Given(r)' = Given(r) \cup Below(cell)
        /\ \A s \in DOMAIN request : /\ s # r => Given(s)' = Given(s)
                                     /\ Given(s) \cap Below(cell) = {}

\* Every assignment is such a gift.
LEMMA AssignIsGiving ==
  ASSUME PartitionInvariant, Assign
  PROVE  AssignGives
<1> DEFINE S == DOMAIN request
           n == Len(free_cells)
           cell == free_cells[n]
<1>1. InductiveInvariant /\ InductiveInvariant' /\ TypeOK /\ TypeOK'
  BY AssignStep DEF PartitionInvariant, InductiveInvariant
<1>2. PICK r \in S :
        /\ weight[r] >= cell_size
        /\ weight' = [weight EXCEPT ![r] = @ - cell_size]
        /\ free_cells # <<>> /\ n > 0
        /\ cell_size = 2^(HIERARCHY_DEPTH - cell.len)
        /\ nodes' = [nodes EXCEPT ![r] = Append(@, cell)]
        /\ free_cells' = SubSeq(free_cells, 1, n - 1)
        /\ pc = "loop" /\ pc' = "loop" /\ UNCHANGED request
  BY <1>1, AssignedCell
<1>3. /\ S \subseteq Nat /\ weight \in [S -> Nat] /\ weight' \in [S -> Nat]
      /\ nodes \in [S -> Seq(Node)] /\ nodes' \in [S -> Seq(Node)]
      /\ free_cells \in Seq(Node) /\ free_cells' \in Seq(Node)
      /\ n \in Nat /\ cell_size \in Nat
  <2> HIDE DEF Node
  <2>1. S \subseteq Nat /\ weight \in [S -> Nat] /\ nodes \in [S -> Seq(Node)]
        /\ free_cells \in Seq(Node)
    BY <1>1, RelayAssumption DEF TypeOK
  <2>2. weight' \in [S -> Nat] /\ nodes' \in [S -> Seq(Node)] /\ free_cells' \in Seq(Node)
    BY <1>1, <1>2 DEF TypeOK
  <2>3. cell_size \in 1..WEIGHT_SPACE_SIZE
    BY <1>1 DEF TypeOK
  <2>4. WEIGHT_SPACE_SIZE \in Nat
    BY <1>1, RequestType
  <2> QED BY <2>1, <2>2, <2>3, <2>4
<1>4. cell \in Node /\ n \in 1..n
  <2> HIDE DEF Node
  <2> QED BY <1>2, <1>3
<1>7. /\ Len(nodes[r]) \in Nat /\ DOMAIN nodes[r] = 1..Len(nodes[r])
      /\ DOMAIN nodes'[r] = 1..Len(nodes[r]) + 1
      /\ \A i \in 1..Len(nodes[r]) : nodes'[r][i] = nodes[r][i]
      /\ nodes'[r][Len(nodes[r]) + 1] = cell
      /\ \A s \in S : s # r => nodes'[s] = nodes[s]
  <2> HIDE DEF Node, cell
  <2> QED BY <1>2, <1>3, <1>4
<1>8. \A i \in 1..n : Fits(free_cells[i])
  <2> HIDE DEF Node
  <2> QED BY <1>3 DEF PartitionInvariant
<1>10. /\ Given(r)' = Given(r) \cup Below(cell)
       /\ \A s \in S : s # r => Given(s)' = Given(s)
  <2>1. \A i \in DOMAIN nodes'[r] : i \in 1..Len(nodes[r]) \/ i = Len(nodes[r]) + 1
    BY <1>7
  <2>2. Len(nodes[r]) + 1 \in DOMAIN nodes'[r] /\ DOMAIN nodes[r] \subseteq DOMAIN nodes'[r]
    BY <1>7
  <2> DEFINE B(c) == Below(c)
  <2> HIDE DEF B, cell
  <2>3. UNION {B(nodes'[r][i]) : i \in DOMAIN nodes'[r]}
          = (UNION {B(nodes[r][i]) : i \in DOMAIN nodes[r]}) \cup B(cell)
    BY <1>7, <2>1, <2>2
  <2>4. Given(r)' = UNION {B(nodes'[r][i]) : i \in DOMAIN nodes'[r]}
    BY DEF Given, B, Below
  <2>5. Given(r) = UNION {B(nodes[r][i]) : i \in DOMAIN nodes[r]}
    BY DEF Given, B
  <2>6. \A s \in S : s # r => Given(s)' = Given(s)
    BY <1>7 DEF Given, Below
  <2> QED BY <2>3, <2>4, <2>5, <2>6 DEF B
<1>11. ASSUME NEW s \in S
       PROVE  Given(s) \cap Below(cell) = {}
  <2> SUFFICES ASSUME NEW l \in Given(s), l \in Below(cell)
               PROVE  FALSE
    OBVIOUS
  <2>0. Len(nodes[s]) \in Nat /\ DOMAIN nodes[s] = 1..Len(nodes[s])
    <3> HIDE DEF Node
    <3> QED BY <1>3
  <2>1. PICK i \in DOMAIN nodes[s] : l \in Below(nodes[s][i])
    BY DEF Given
  <2>2. l \in Leaves /\ contains(nodes[s][i], number(l)) /\ contains(cell, number(l))
    BY <2>1 DEF Below
  <2>3. BelowOne(nodes, free_cells, l)
    BY <2>2 DEF PartitionInvariant
  <2>4. PlacesArePairs(S, nodes, free_cells)
    <3> HIDE DEF Node
    <3> QED BY <1>3, PlaceCases
  <2>5. /\ <<s, i>> \in PlacesIn(nodes, free_cells)
        /\ CellIn(nodes, free_cells, <<s, i>>) = nodes[s][i]
        /\ <<NoRelay, n>> \in PlacesIn(nodes, free_cells)
        /\ CellIn(nodes, free_cells, <<NoRelay, n>>) = cell
    BY <1>4, <2>0, <2>1, <2>4 DEF PlacesArePairs
  <2>6. <<s, i>> = <<NoRelay, n>>
    BY <2>2, <2>3, <2>5 DEF BelowOne
  <2> QED BY <1>3, <2>6 DEF NoRelay
<1>12. Fits(cell)
  BY <1>4, <1>8
<1> QED BY <1>2, <1>4, <1>10, <1>11, <1>12 DEF AssignGives

\* What was given away is charged for, and the cells remain a partition.
LEMMA PartitionAssign == PartitionInvariant /\ Assign => PartitionInvariant'
<1> SUFFICES ASSUME PartitionInvariant, Assign PROVE PartitionInvariant'
  OBVIOUS
<1> DEFINE S == DOMAIN request
           n == Len(free_cells)
           cell == free_cells[n]
<1>1. InductiveInvariant /\ InductiveInvariant' /\ TypeOK /\ TypeOK'
  BY AssignStep DEF PartitionInvariant, InductiveInvariant
<1>2. PICK r \in S :
        /\ weight[r] >= cell_size
        /\ weight' = [weight EXCEPT ![r] = @ - cell_size]
        /\ free_cells # <<>> /\ n > 0
        /\ cell_size = 2^(HIERARCHY_DEPTH - cell.len)
        /\ nodes' = [nodes EXCEPT ![r] = Append(@, cell)]
        /\ free_cells' = SubSeq(free_cells, 1, n - 1)
        /\ cell \in Node /\ Fits(cell)
        /\ Given(r)' = Given(r) \cup Below(cell)
        /\ \A s \in S : /\ s # r => Given(s)' = Given(s)
                        /\ Given(s) \cap Below(cell) = {}
        /\ pc = "loop" /\ pc' = "loop" /\ UNCHANGED request
  BY AssignIsGiving DEF AssignGives
<1>3. /\ S \subseteq Nat /\ weight \in [S -> Nat] /\ weight' \in [S -> Nat]
      /\ nodes \in [S -> Seq(Node)] /\ nodes' \in [S -> Seq(Node)]
      /\ free_cells \in Seq(Node) /\ free_cells' \in Seq(Node)
      /\ n \in Nat /\ cell_size \in Nat
  <2> HIDE DEF Node
  <2>1. S \subseteq Nat /\ weight \in [S -> Nat] /\ nodes \in [S -> Seq(Node)]
        /\ free_cells \in Seq(Node)
    BY <1>1, RelayAssumption DEF TypeOK
  <2>2. weight' \in [S -> Nat] /\ nodes' \in [S -> Seq(Node)] /\ free_cells' \in Seq(Node)
    BY <1>1, <1>2 DEF TypeOK
  <2>3. cell_size \in 1..WEIGHT_SPACE_SIZE
    BY <1>1 DEF TypeOK
  <2>4. WEIGHT_SPACE_SIZE \in Nat
    BY <1>1, RequestType
  <2> QED BY <2>1, <2>2, <2>3, <2>4
<1>4. cell \in Node /\ n \in 1..n
  <2> HIDE DEF Node
  <2> QED BY <1>2, <1>3
<1>5. Len(free_cells') = n - 1 /\ \A i \in 1..n - 1 : free_cells'[i] = free_cells[i]
  <2> HIDE DEF Node
  <2> QED BY <1>2, <1>3, AllButLast
<1>6. ASSUME NEW l \in Leaves
      PROVE  BelowOne(nodes', free_cells', l)
  <2>1. BelowOne(nodes, free_cells, l)
    BY DEF PartitionInvariant
  <2>2. BelowOne([nodes EXCEPT ![r] = Append(@, free_cells[Len(free_cells)])],
                 SubSeq(free_cells, 1, Len(free_cells) - 1), l)
    <3> HIDE DEF Node, S
    <3> QED BY <1>2, <1>3, <2>1, AssignKeepsOne
  <2> QED BY <1>2, <2>2
<1>7. /\ Len(nodes[r]) \in Nat /\ DOMAIN nodes[r] = 1..Len(nodes[r])
      /\ DOMAIN nodes'[r] = 1..Len(nodes[r]) + 1
      /\ \A i \in 1..Len(nodes[r]) : nodes'[r][i] = nodes[r][i]
      /\ nodes'[r][Len(nodes[r]) + 1] = cell
      /\ \A s \in S : s # r => nodes'[s] = nodes[s]
  <2> HIDE DEF Node, cell
  <2> QED BY <1>2, <1>3, <1>4
<1>8. /\ \A i \in DOMAIN free_cells' : Fits(free_cells'[i])
      /\ Fits(cell)
  <2>1. \A i \in 1..n : Fits(free_cells[i])
    <3> HIDE DEF Node
    <3> QED BY <1>3 DEF PartitionInvariant
  <2>2. DOMAIN free_cells' = 1..n - 1
    <3> HIDE DEF Node
    <3> QED BY <1>3, <1>5
  <2>3. \A i \in 1..n - 1 : i \in 1..n
    BY <1>3
  <2> QED BY <1>4, <1>5, <2>1, <2>2, <2>3
<1>9. ASSUME NEW s \in S, NEW i \in DOMAIN nodes'[s]
      PROVE  Fits(nodes'[s][i])
  <2>1. \A j \in DOMAIN nodes[s] : Fits(nodes[s][j])
    BY DEF PartitionInvariant
  <2>2. CASE s # r
    BY <1>7, <2>1, <2>2
  <2>3. CASE s = r
    <3>1. i \in 1..Len(nodes[r]) \/ i = Len(nodes[r]) + 1
      BY <1>7, <2>3
    <3> QED BY <1>7, <1>8, <2>1, <2>3, <3>1
  <2> QED BY <2>2, <2>3
<1>13. IsFiniteSet(Given(r))
  BY GivenFinite
<1>14. Cardinality(Given(r)') = Cardinality(Given(r)) + cell_size
  <2>1. IsFiniteSet(Below(cell)) /\ Cardinality(Below(cell)) = cell_size
    BY <1>2, <1>4, <1>8, BelowRange
  <2>2. Cardinality(Given(r) \cap Below(cell)) = 0
    BY <1>2, FS_EmptySet
  <2>3. Cardinality(Given(r)) \in Nat
    BY <1>13, FS_CardinalityType
  <2>4. Cardinality(Given(r) \cup Below(cell))
          = Cardinality(Given(r)) + Cardinality(Below(cell)) - Cardinality(Given(r) \cap Below(cell))
    BY <1>13, <2>1, FS_Union
  <2> HIDE DEF cell
  <2> QED BY <1>3, <1>2, <2>1, <2>2, <2>3, <2>4
<1>15. SharesAddUp'
  <2>1. /\ Total(request) # 0 \/ DOMAIN request = {}
        /\ \A s \in S : Cardinality(Given(s)) + weight[s] = Scaled(request)[s]
    BY <1>2 DEF PartitionInvariant, SharesAddUp
  <2>2. ASSUME NEW s \in S
        PROVE  Cardinality(Given(s)') + weight'[s] = Scaled(request)[s]
    <3>1. CASE s = r
      <4>1. weight'[r] = weight[r] - cell_size
        BY <1>2, <1>3
      <4>2. Cardinality(Given(r)) \in Nat /\ weight[r] \in Nat
        BY <1>3, <1>13, FS_CardinalityType
      <4> QED BY <1>3, <1>14, <2>1, <3>1, <4>1, <4>2
    <3>2. CASE s # r
      BY <1>2, <1>3, <1>2, <2>1, <3>2
    <3> QED BY <3>1, <3>2
  <2> QED BY <1>2, <2>1, <2>2 DEF SharesAddUp
<1> QED BY <1>1, <1>2, <1>6, <1>8, <1>9, <1>15 DEF PartitionInvariant

\* The largest weight is zero: so are all.
LEMMA PartitionStop == PartitionInvariant /\ Stop => PartitionInvariant'
<1> SUFFICES ASSUME PartitionInvariant, Stop PROVE PartitionInvariant'
  OBVIOUS
<1>1. InductiveInvariant /\ InductiveInvariant' /\ TypeOK
  BY StopStep DEF PartitionInvariant, InductiveInvariant
<1>2. /\ pc = "loop" /\ pc' = "done"
      /\ UNCHANGED <<request, weight, nodes, free_cells, cell_size>>
      /\ \A r \in DOMAIN weight : Largest(r) => weight[r] = 0
  BY DEF Stop
<1>3. /\ weight \in [DOMAIN request -> Nat] /\ DOMAIN weight = DOMAIN request
      /\ IsFiniteSet(DOMAIN request) /\ DOMAIN request \subseteq Nat
  BY <1>1, RequestType, RelayAssumption DEF TypeOK
<1>4. \A r \in DOMAIN request : weight[r] = 0
  <2> SUFFICES ASSUME NEW r \in DOMAIN request PROVE weight[r] = 0
    OBVIOUS
  <2>1. PICK q \in DOMAIN weight : Largest(q)
    BY <1>3, LargestExists
  <2>2. weight[q] = 0 /\ ~Less(q, r)
    BY <1>2, <1>3, <2>1 DEF Largest
  <2> QED BY <1>3, <2>1, <2>2 DEF Less
<1>5. SharesAddUp'
  BY <1>2, <1>4 DEF PartitionInvariant, SharesAddUp, Given
<1> QED BY <1>1, <1>2, <1>5 DEF PartitionInvariant

-----------------------------------------------------------------------------
(* Partition, seen through the cells.                                      *)

\* The owner of an identity is the relay that was given a cell above it.
OwnerHasIt ==
  \A l \in Leaves :
    /\ \A r \in DOMAIN request : Owner[l] = r <=> l \in Given(r)
    /\ Owner[l] = NoRelay <=> \A r \in DOMAIN request : l \notin Given(r)

\* It is the only one.
LEMMA OwnerIs == PartitionInvariant => OwnerHasIt
<1> SUFFICES ASSUME PartitionInvariant, NEW l \in Leaves
    PROVE  /\ \A r \in DOMAIN request : Owner[l] = r <=> l \in Given(r)
           /\ Owner[l] = NoRelay <=> \A r \in DOMAIN request : l \notin Given(r)
  BY DEF OwnerHasIt
<1> DEFINE S == DOMAIN request
<1>1. /\ S \subseteq Nat /\ nodes \in [S -> Seq(Node)] /\ free_cells \in Seq(Node)
      /\ DOMAIN nodes = S
  BY RelayAssumption DEF PartitionInvariant, InductiveInvariant, TypeOK
<1>2. ASSUME NEW r \in S, NEW q \in S, l \in Given(r), l \in Given(q)
      PROVE  r = q
  <2>1. PICK i \in DOMAIN nodes[r] : l \in Below(nodes[r][i])
    BY <1>2 DEF Given
  <2>2. PICK j \in DOMAIN nodes[q] : l \in Below(nodes[q][j])
    BY <1>2 DEF Given
  <2>3. contains(nodes[r][i], number(l)) /\ contains(nodes[q][j], number(l))
    BY <2>1, <2>2 DEF Below
  <2>4. PlacesArePairs(S, nodes, free_cells)
    <3> HIDE DEF Node
    <3> QED BY <1>1, PlaceCases
  <2>5. i \in 1..Len(nodes[r]) /\ j \in 1..Len(nodes[q])
    <3> HIDE DEF Node
    <3> QED BY <1>1
  <2>6. /\ <<r, i>> \in PlacesIn(nodes, free_cells)
        /\ CellIn(nodes, free_cells, <<r, i>>) = nodes[r][i]
        /\ <<q, j>> \in PlacesIn(nodes, free_cells)
        /\ CellIn(nodes, free_cells, <<q, j>>) = nodes[q][j]
    BY <2>4, <2>5 DEF PlacesArePairs
  <2>7. BelowOne(nodes, free_cells, l)
    BY DEF PartitionInvariant
  <2>8. <<r, i>> = <<q, j>>
    BY <2>3, <2>6, <2>7 DEF BelowOne
  <2> QED BY <2>8
<1>3. Owner[l] = IF \A r \in S : l \notin Given(r) THEN NoRelay
                 ELSE CHOOSE r \in S : l \in Given(r)
  <2> DEFINE given == [r \in DOMAIN nodes |-> Given(r)]
  <2>1. Owner[l] = IF \A r \in DOMAIN nodes : l \notin given[r] THEN NoRelay
                   ELSE CHOOSE r \in DOMAIN nodes : l \in given[r]
    BY DEF Owner
  <2>2. \A r \in S : given[r] = Given(r)
    BY <1>1
  <2> HIDE DEF given, S
  <2>3. (CHOOSE r \in S : l \in given[r]) = CHOOSE r \in S : l \in Given(r)
    BY <2>2
  <2> QED BY <1>1, <2>1, <2>2, <2>3
<1>4. CASE \A r \in S : l \notin Given(r)
  BY <1>1, <1>3, <1>4 DEF NoRelay
<1>5. CASE \E r \in S : l \in Given(r)
  <2> DEFINE o == CHOOSE r \in S : l \in Given(r)
  <2>1. Owner[l] = o /\ o \in S /\ l \in Given(o)
    BY <1>3, <1>5
  <2> HIDE DEF o
  <2>2. o # NoRelay
    BY <1>1, <2>1 DEF NoRelay
  <2> QED BY <1>2, <1>5, <2>1, <2>2
<1> QED BY <1>4, <1>5

\* The instance counts as this module does.
LEMMA SameCardinality ==
  ASSUME NEW T
  PROVE  Partitioned!Cardinality(T) = Cardinality(T)
BY DEF Partitioned!Cardinality, Cardinality

\* What a relay owns is what it was given.
LEMMA OwnedIsGiven ==
  ASSUME PartitionInvariant
  PROVE  \A r \in DOMAIN request : Partitioned!Owned[r] = Given(r)
<1> SUFFICES ASSUME NEW r \in DOMAIN request PROVE Partitioned!Owned[r] = Given(r)
  OBVIOUS
<1>1. Given(r) \subseteq Leaves
  BY DEF Given, Below
<1>2. DOMAIN Share = DOMAIN request
  BY DEF Share, Scaled
<1>3. Partitioned!Owned[r] = {l \in Leaves : Owner[l] = r}
  BY <1>2 DEF Partitioned!Owned
<1>4. \A l \in Leaves : Owner[l] = r <=> l \in Given(r)
  BY OwnerIs DEF OwnerHasIt
<1> QED BY <1>1, <1>3, <1>4

\* The shares are no more than there is.
LEMMA RefineInit == Init => Partitioned!Init
<1> SUFFICES ASSUME Init PROVE Partitioned!Init
  OBVIOUS
<1> DEFINE S == DOMAIN request
           W == WEIGHT_SPACE_SIZE
<1>1. PartitionInvariant /\ TypeOK
  BY PartitionInit DEF PartitionInvariant, InductiveInvariant
<1>2. /\ IsFiniteSet(S) /\ request \in [S -> 0..MAX_WEIGHT] /\ MAX_WEIGHT \in Nat
      /\ W \in Nat \ {0}
  BY <1>1, RequestType
<1>3. Share \in [S -> Nat] /\ Total(Share) <= W
  <2>1. CASE Total(request) = 0
    <3>1. Share = [r \in S |-> 0]
      BY <2>1 DEF Share
    <3>2. Units(Share) = {}
      BY <3>1 DEF Units
    <3>3. Total(Share) = 0
      BY <3>2, FS_EmptySet DEF Total
    <3> QED BY <1>2, <3>1, <3>3
  <2>2. CASE Total(request) # 0
    <3>1. Share = [r \in S |-> (W * request[r]) \div Total(request)]
      BY <2>2 DEF Share, Scaled
    <3> HIDE DEF S, W
    <3>2. Share \in [S -> 0..W] /\ Total(Share) <= W
      BY <1>2, <2>2, <3>1, ScaledFits
    <3> QED BY <1>2, <3>2
  <2> QED BY <2>1, <2>2
<1>4. Cardinality(Leaves) = W
  <2>1. 0 \in Int /\ W - 1 \in Int /\ (0 > W - 1 <=> FALSE) /\ W - 1 - 0 + 1 = W
    BY <1>2
  <2> HIDE DEF W
  <2>2. Cardinality(0..W - 1) = IF 0 > W - 1 THEN 0 ELSE W - 1 - 0 + 1
    BY <2>1, FS_Interval
  <2> QED BY <2>1, <2>2 DEF Leaves, W
<1>5. Cardinality(UNION {{r} \X (1..Share[r]) : r \in DOMAIN Share}) <= Cardinality(Leaves)
  BY <1>3, <1>4 DEF Total, Units
<1>6. Owner = [l \in Leaves |-> NoRelay]
  <2>1. \A r \in S : Given(r) = {}
    BY DEF Init, Given
  <2>2. Owner = [l \in Leaves |-> Owner[l]]
    BY DEF Owner
  <2>3. \A l \in Leaves : Owner[l] = NoRelay
    BY <1>1, <2>1, OwnerIs DEF OwnerHasIt
  <2> QED BY <2>2, <2>3
<1>7. (pc = "done") = FALSE
  BY DEF Init
<1>8. Share \in [DOMAIN Share -> Nat]
  BY <1>3
<1> QED BY <1>5, <1>6, <1>7, <1>8, SameCardinality DEF Partitioned!Init

-----------------------------------------------------------------------------
(* Theorems.                                                               *)

\* The invariant is inductive.
LEMMA PartitionStep == PartitionInvariant /\ [Next]_vars => PartitionInvariant'
<1> SUFFICES ASSUME PartitionInvariant, [Next]_vars PROVE PartitionInvariant'
  OBVIOUS
<1>1. CASE Scale  BY <1>1, PartitionScale
<1>2. CASE Split  BY <1>2, PartitionSplit
<1>3. CASE Assign BY <1>3, PartitionAssign
<1>4. CASE Stop   BY <1>4, PartitionStop
<1>5. CASE UNCHANGED vars
  <2>1. UNCHANGED <<request, weight, nodes, free_cells, cell_size, pc>>
    BY <1>5 DEF vars
  <2>2. InductiveInvariant'
    BY <2>1 DEF PartitionInvariant, InductiveInvariant, TypeOK, NeverOutOfCells,
                OneCellPerLevel, LoopInvariant, LoopAt
  <2>3. SharesAddUp'
    BY <2>1 DEF PartitionInvariant, SharesAddUp, Given
  <2>4. \A l \in Leaves : BelowOne(nodes', free_cells', l)
    BY <2>1 DEF PartitionInvariant
  <2> QED BY <2>1, <2>2, <2>3, <2>4 DEF PartitionInvariant
<1> QED BY <1>1, <1>2, <1>3, <1>4, <1>5 DEF Next

\* An assignment is a grant of the identities below the cell.
LEMMA RefineAssign ==
  ASSUME PartitionInvariant, PartitionInvariant', OwnerHasIt', Assign
  PROVE  Partitioned!Grant
<1> DEFINE S == DOMAIN request
           cell == free_cells[Len(free_cells)]
           B == Below(cell)
<1>1. AssignGives
  BY AssignIsGiving
<1>2. PICK r \in S :
        /\ weight[r] >= cell_size
        /\ cell_size = 2^(HIERARCHY_DEPTH - cell.len)
        /\ pc = "loop" /\ pc' = "loop" /\ UNCHANGED request
        /\ cell \in Node /\ Fits(cell)
        /\ Given(r)' = Given(r) \cup B
        /\ \A s \in S : (s # r => Given(s)' = Given(s)) /\ Given(s) \cap B = {}
  BY <1>1 DEF AssignGives
<1>3. /\ IsFiniteSet(B) /\ Cardinality(B) = cell_size
      /\ \A l, k \in B : l..k \subseteq B
      /\ B \subseteq Leaves
  BY <1>2, BelowRange DEF Below
<1> HIDE DEF B, cell
<1>4. OwnerHasIt
  BY OwnerIs
<1>5. /\ \A l \in Leaves : \A s \in S : Owner'[l] = s <=> l \in Given(s)'
      /\ \A l \in Leaves : Owner'[l] = NoRelay <=> \A s \in S : l \notin Given(s)'
  BY <1>2 DEF OwnerHasIt
<1>6. /\ \A l \in Leaves : \A s \in S : Owner[l] = s <=> l \in Given(s)
      /\ \A l \in Leaves : Owner[l] = NoRelay <=> \A s \in S : l \notin Given(s)
  BY <1>4 DEF OwnerHasIt
<1>7. NoRelay \notin S
  BY RelayAssumption DEF PartitionInvariant, InductiveInvariant, TypeOK, NoRelay
<1>8. ASSUME NEW l \in B
      PROVE  l \in Leaves /\ Owner[l] = NoRelay /\ Owner'[l] = r
  BY <1>2, <1>3, <1>5, <1>6
<1>9. ASSUME NEW l \in Leaves, l \notin B
      PROVE  Owner'[l] = Owner[l]
  <2>1. \A s \in S : l \in Given(s)' <=> l \in Given(s)
    BY <1>2, <1>9
  <2>2. CASE \E s \in S : l \in Given(s)
    BY <1>5, <1>6, <2>1, <2>2
  <2>3. CASE \A s \in S : l \notin Given(s)
    BY <1>5, <1>6, <2>1, <2>3
  <2> QED BY <2>2, <2>3
<1>10. {l \in Leaves : Owner'[l] # Owner[l]} = B
  BY <1>3, <1>7, <1>8, <1>9
<1>11. B # {}
  <2>1. cell_size # 0
    BY <1>2, InLoop DEF PartitionInvariant
  <2> QED BY <1>3, <2>1, FS_EmptySet
<1>12. Cardinality(Partitioned!Owned[r]) + Cardinality(B) <= Share[r]
  <2>1. Cardinality(Partitioned!Owned[r]) = Cardinality(Given(r))
    BY OwnedIsGiven
  <2>2. /\ Cardinality(Given(r)) + weight[r] = Scaled(request)[r]
        /\ Total(request) # 0
    BY <1>2 DEF PartitionInvariant, SharesAddUp
  <2>3. Share[r] = Scaled(request)[r]
    BY <2>2 DEF Share
  <2>5. Cardinality(Given(r)) \in Nat
    BY GivenFinite
  <2>6. weight[r] \in Nat /\ cell_size \in Nat
    BY <1>2, InLoop DEF PartitionInvariant
  <2> QED BY <1>2, <1>3, <2>1, <2>2, <2>3, <2>5, <2>6
<1>13. DOMAIN Owner' = Leaves /\ Share' = Share /\ DOMAIN Share = S
  BY <1>2 DEF Owner, Share, Scaled
<1>14. ~(pc = "done") /\ (pc' = "done") = (pc = "done")
  BY <1>2
<1>15. /\ B # {} /\ \A l, k \in B : l..k \subseteq B
       /\ \A l \in B : Owner[l] = NoRelay
       /\ \E q \in DOMAIN Share :
            /\ \A l \in B : Owner'[l] = q
            /\ Cardinality(Partitioned!Owned[q]) + Cardinality(B) <= Share[q]
  BY <1>3, <1>8, <1>11, <1>12, <1>13
<1> QED BY <1>10, <1>13, <1>14, <1>15, SameCardinality DEF Partitioned!Grant

\* All other steps give nothing away; the last one closes the allocation, with
\* every quota met.
LEMMA RefineStep ==
  ASSUME PartitionInvariant, PartitionInvariant', OwnerHasIt', [Next]_vars
  PROVE  [Partitioned!Next]_Partitioned!vars
<1>1. ASSUME UNCHANGED <<request, nodes>>
      PROVE  UNCHANGED <<Share, Owner>>
  BY <1>1 DEF Share, Scaled, Owner, Given
<1>2. CASE Scale
  <2>1. UNCHANGED <<request, nodes>> /\ pc # "done" /\ pc' # "done"
    BY <1>2 DEF Scale
  <2> QED BY <1>1, <2>1 DEF Partitioned!vars
<1>3. CASE Split
  <2>1. UNCHANGED <<request, nodes, pc>>
    BY <1>3 DEF Split
  <2> QED BY <1>1, <2>1 DEF Partitioned!vars
<1>4. CASE Assign
  BY <1>4, RefineAssign DEF Partitioned!Next
<1>5. CASE Stop
  <2>1. UNCHANGED <<request, nodes>> /\ pc = "loop" /\ pc' = "done"
    BY <1>5 DEF Stop
  <2>2. UNCHANGED <<Share, Owner>>
    BY <1>1, <2>1
  <2>3. DOMAIN Share = DOMAIN request
    BY DEF Share, Scaled
  <2>4. ASSUME NEW r \in DOMAIN request
        PROVE  Cardinality(Partitioned!Owned[r]) = Share[r]
    <3>1. weight[r] = 0 /\ Cardinality(Given(r)) + weight[r] = Scaled(request)[r]
      BY <1>5, <2>1 DEF Stop, PartitionInvariant, SharesAddUp
    <3>2. Total(request) # 0
      BY <2>1 DEF PartitionInvariant, SharesAddUp
    <3>4. Cardinality(Given(r)) \in Nat
      BY GivenFinite
    <3>5. Share[r] = Scaled(request)[r]
      BY <3>2 DEF Share
    <3> QED BY <3>1, <3>4, <3>5, OwnedIsGiven
  <2>5. Partitioned!Met
    BY <2>3, <2>4, SameCardinality DEF Partitioned!Met
  <2> QED BY <2>1, <2>2, <2>5 DEF Partitioned!Next, Partitioned!Close
<1>6. CASE UNCHANGED vars
  <2>1. UNCHANGED <<request, nodes, pc>>
    BY <1>6 DEF vars
  <2> QED BY <1>1, <2>1 DEF Partitioned!vars
<1> QED BY <1>2, <1>3, <1>4, <1>5, <1>6 DEF Next

\* The invariant holds throughout every run of allocate().
THEOREM AllocationPartitionInvariant == Spec => []PartitionInvariant
BY PartitionInit, PartitionStep, PTL DEF Spec

\* Wherever the loop is, every identity is below exactly one cell: no identity
\* is given to two relays or twice, and none gets lost.
THEOREM AllocationCellsPartitionTheTree == Spec => []CellsPartitionTheTree
<1>1. PartitionInvariant => CellsPartitionTheTree
  <2> SUFFICES ASSUME PartitionInvariant, NEW l \in Leaves
               PROVE  Cardinality({p \in Places : contains(CellAt(p), number(l))}) = 1
    BY DEF CellsPartitionTheTree
  <2>1. Places = PlacesIn(nodes, free_cells)
    BY DEF Places, PlacesIn
  <2>2. \A p : CellAt(p) = CellIn(nodes, free_cells, p)
    BY DEF CellAt, CellIn
  <2>3. PICK p \in Places : \A q \in Places : contains(CellAt(q), number(l)) <=> q = p
    BY <2>1, <2>2 DEF PartitionInvariant, BelowOne
  <2>4. {q \in Places : contains(CellAt(q), number(l))} = {p}
    BY <2>3
  <2> QED BY <2>4, FS_Singleton
<1> QED BY <1>1, AllocationPartitionInvariant, PTL

\* Every relay is given its share of the identities, rounded down, and no
\* identity more or less: whatever the weights, no rounding error builds up.
THEOREM AllocationExactShares == Spec => []ExactShares
<1>1. PartitionInvariant => ExactShares
  BY DEF PartitionInvariant, SharesAddUp, ExactShares, Scaled
<1> QED BY <1>1, AllocationPartitionInvariant, PTL

\* The greedy loop on the tree implements the partition that the rest of the
\* system relies on: every step gives a range of free identities to a relay
\* that is owed as many, or changes nothing, and the last finds all quotas met.
THEOREM AllocationImplementsPartition == Spec => ImplementsPartition
<1>1. Init => Partitioned!Init
  BY RefineInit
<1>2. /\ PartitionInvariant /\ PartitionInvariant' /\ OwnerHasIt' /\ [Next]_vars
        => [Partitioned!Next]_Partitioned!vars
  BY RefineStep
<1>3. PartitionInvariant => OwnerHasIt
  BY OwnerIs
<1> QED BY <1>1, <1>2, <1>3, AllocationPartitionInvariant, PTL
        DEF Spec, ImplementsPartition, Partitioned!Spec

-----------------------------------------------------------------------------
(* Two authorities.  No step of allocate() has a choice: above all, the    *)
(* heap has only one largest request.  So the states that can be reached   *)
(* from one state are a chain, which has at most one end.  Both runs start *)
(* at the same state and return at an end.                                 *)

\* A state of allocate(): what its local variables hold.
Locals(w, n, f, c, p) ==
  [weight |-> w, nodes |-> n, free_cells |-> f, cell_size |-> c, pc |-> p]

Cell == [len : Nat, path : Nat]

States(req) ==
  [weight : [DOMAIN req -> Nat], nodes : [DOMAIN req -> Seq(Cell)],
   free_cells : Seq(Cell), cell_size : Nat, pc : {"scale", "loop", "done", "panic"}]

Start(req) == Locals(req, [r \in DOMAIN req |-> <<>>], <<ROOT>>, subtree_size(ROOT), "scale")

\* Where the two runs are.
Here == Locals(weight, nodes, free_cells, cell_size, pc)
There == Locals(other_weight, other_nodes, other_free_cells, other_cell_size, other_pc)

-----------------------------------------------------------------------------
(* The step after a state.                                                 *)

Highest(w, r) ==
  r \in DOMAIN w /\ \A q \in DOMAIN w : ~(w[r] < w[q] \/ (w[r] = w[q] /\ r < q))

Top(w) == CHOOSE r : Highest(w, r)

AfterScale(req, s) ==
  IF DOMAIN req # {} /\ Total(req) = 0
    THEN Locals(s.weight, s.nodes, s.free_cells, s.cell_size, "panic")
    ELSE Locals(Scaled(req), s.nodes, s.free_cells, s.cell_size, "loop")

AfterSplit(s) ==
  Locals(s.weight, s.nodes,
         [i \in 1..2 * Len(s.free_cells) |->
            IF i % 2 = 1 THEN left(s.free_cells[(i + 1) \div 2])
                         ELSE right(s.free_cells[i \div 2])],
         s.cell_size \div 2, s.pc)

AfterAssign(s, r) ==
  LET w == [s.weight EXCEPT ![r] = @ - s.cell_size]
      n == Len(s.free_cells)
  IN  IF s.free_cells = <<>> THEN Locals(w, s.nodes, s.free_cells, s.cell_size, "panic")
      ELSE Locals(w, [s.nodes EXCEPT ![r] = Append(@, s.free_cells[n])],
                  SubSeq(s.free_cells, 1, n - 1), s.cell_size, s.pc)

AfterStop(s) == Locals(s.weight, s.nodes, s.free_cells, s.cell_size, "done")

After(req, s) ==
  IF s.pc = "scale" THEN AfterScale(req, s)
  ELSE IF \A r \in DOMAIN s.weight : Highest(s.weight, r) => s.weight[r] = 0 THEN AfterStop(s)
  ELSE IF s.weight[Top(s.weight)] < s.cell_size THEN AfterSplit(s)
  ELSE AfterAssign(s, Top(s.weight))

\* The states from a state on, as the least set that has it and the steps
\* after all it has.
Closed(req, T) == \A s \in T : ~Returned(s.pc) => After(req, s) \in T

From(req, s) == {t \in States(req) : \A T \in SUBSET States(req) :
                                       s \in T /\ Closed(req, T) => t \in T}

-----------------------------------------------------------------------------
(* The chain of states.                                                    *)

\* Requests that a call may be made with.
Requests == UNION {[S -> 0..MAX_WEIGHT] : S \in SUBSET Relay}

\* What is known of requests.
LEMMA RequestsType ==
  ASSUME NEW req \in Requests
  PROVE  /\ DOMAIN req \in SUBSET Nat /\ IsFiniteSet(DOMAIN req)
         /\ req \in [DOMAIN req -> 0..MAX_WEIGHT]
         /\ MAX_WEIGHT \in Nat /\ WEIGHT_SPACE_SIZE \in Nat \ {0}
<1>1. PICK S \in SUBSET Relay : req \in [S -> 0..MAX_WEIGHT]
  BY DEF Requests
<1>2. DOMAIN req = S
  BY <1>1
<1> QED BY <1>1, <1>2, FS_Subset, RelayAssumption, DepthAssumption, PowerPositive
        DEF WEIGHT_SPACE_SIZE

\* Requests of the same weight are told apart by their keys: one is largest.
LEMMA HighestUnique ==
  ASSUME NEW S \in SUBSET Nat, NEW w \in [S -> Nat], NEW r, Highest(w, r)
  PROVE  r \in S /\ r = Top(w)
<1>1. Highest(w, Top(w))
  BY DEF Top
<1>2. ASSUME NEW q, Highest(w, q)
      PROVE  q = r
  <2>1. r \in S /\ q \in S /\ r \in Nat /\ q \in Nat /\ w[r] \in Nat /\ w[q] \in Nat
    BY <1>2 DEF Highest
  <2>2. ~(w[r] < w[q] \/ (w[r] = w[q] /\ r < q))
    BY <2>1 DEF Highest
  <2>3. ~(w[q] < w[r] \/ (w[q] = w[r] /\ q < r))
    BY <1>2, <2>1 DEF Highest
  <2> QED BY <2>1, <2>2, <2>3
<1> QED BY <1>1, <1>2 DEF Highest

\* Scaled requests are numbers.
LEMMA ScaledType ==
  ASSUME NEW req \in Requests, ~(DOMAIN req # {} /\ Total(req) = 0)
  PROVE  Scaled(req) \in [DOMAIN req -> Nat]
<1>1. CASE DOMAIN req = {}
  BY <1>1 DEF Scaled
<1>2. CASE Total(req) # 0
  <2> DEFINE g == Scaled(req)
  <2>1. g = [r \in DOMAIN req |-> (WEIGHT_SPACE_SIZE * req[r]) \div Total(req)]
    BY DEF Scaled
  <2> HIDE DEF g
  <2>2. g \in [DOMAIN req -> 0..WEIGHT_SPACE_SIZE]
    BY <1>2, <2>1, RequestsType, ScaledFits
  <2>3. 0..WEIGHT_SPACE_SIZE \subseteq Nat
    BY RequestsType
  <2> QED BY <2>2, <2>3 DEF g
<1> QED BY <1>1, <1>2

\* Each step leads to a state.
LEMMA AfterType ==
  ASSUME NEW req \in Requests, NEW s \in States(req), ~Returned(s.pc)
  PROVE  After(req, s) \in States(req)
<1> DEFINE S == DOMAIN req
<1>1. /\ s.weight \in [S -> Nat] /\ s.nodes \in [S -> Seq(Cell)]
      /\ s.free_cells \in Seq(Cell) /\ s.cell_size \in Nat /\ s.pc \in {"scale", "loop"}
  BY DEF States, Returned
<1>2. S \in SUBSET Nat
  BY RequestsType
<1>3. ASSUME NEW w \in [S -> Nat], NEW n \in [S -> Seq(Cell)], NEW f \in Seq(Cell),
             NEW c \in Nat, NEW p \in {"scale", "loop", "done", "panic"}
      PROVE  Locals(w, n, f, c, p) \in States(req)
  BY DEF Locals, States
<1> HIDE DEF S
<1>4. CASE s.pc = "scale"
  <2>1. AfterScale(req, s) \in States(req)
    BY <1>1, <1>3, ScaledType DEF AfterScale, S
  <2> QED BY <1>4, <2>1 DEF After
<1>5. CASE s.pc # "scale" /\ \A r \in DOMAIN s.weight : Highest(s.weight, r) => s.weight[r] = 0
  <2>1. AfterStop(s) \in States(req)
    BY <1>1, <1>3 DEF AfterStop
  <2> QED BY <1>5, <2>1 DEF After
<1>6. CASE s.pc # "scale" /\ ~\A r \in DOMAIN s.weight : Highest(s.weight, r) => s.weight[r] = 0
  <2> DEFINE r == Top(s.weight)
  <2>1. r \in S
    BY <1>1, <1>2, <1>6, HighestUnique
  <2>2. CASE s.weight[r] < s.cell_size
    <3> DEFINE n == Len(s.free_cells)
               f == [i \in 1..2 * n |-> IF i % 2 = 1 THEN left(s.free_cells[(i + 1) \div 2])
                                                     ELSE right(s.free_cells[i \div 2])]
    <3>1. f \in Seq(Cell)
      <4>1. n \in Nat /\ \A i \in 1..n : s.free_cells[i] \in Cell
        BY <1>1
      <4>2. \A c \in Cell : left(c) \in Cell /\ right(c) \in Cell
        BY DEF Cell, left, right
      <4>3. ASSUME NEW i \in 1..2 * n
            PROVE  f[i] \in Cell
        <5>1. CASE i % 2 = 1
          <6>1. (i + 1) \div 2 \in 1..n
            BY <4>1, <5>1
          <6> QED BY <4>1, <4>2, <5>1, <6>1
        <5>2. CASE i % 2 # 1
          <6>1. i \div 2 \in 1..n
            BY <4>1, <5>2
          <6> QED BY <4>1, <4>2, <5>2, <6>1
        <5> QED BY <5>1, <5>2
      <4> HIDE DEF n
      <4>4. f \in [1..2 * n -> Cell] /\ 2 * n \in Nat
        BY <4>1, <4>3
      <4> QED BY <4>4
    <3>2. s.cell_size \div 2 \in Nat
      BY <1>1
    <3>3. AfterSplit(s) = Locals(s.weight, s.nodes, f, s.cell_size \div 2, s.pc)
      BY DEF AfterSplit
    <3> HIDE DEF f
    <3>4. AfterSplit(s) \in States(req)
      BY <1>1, <1>3, <3>1, <3>2, <3>3, ZenonT(60)
    <3> QED BY <1>6, <2>2, <3>4 DEF After
  <2>3. CASE ~(s.weight[r] < s.cell_size)
    <3> DEFINE w == [s.weight EXCEPT ![r] = @ - s.cell_size]
               n == Len(s.free_cells)
    <3> HIDE DEF r
    <3>1. w \in [S -> Nat]
      BY <1>1, <2>1, <2>3
    <3>2. ASSUME s.free_cells # <<>>
          PROVE  /\ [s.nodes EXCEPT ![r] = Append(@, s.free_cells[n])] \in [S -> Seq(Cell)]
                 /\ SubSeq(s.free_cells, 1, n - 1) \in Seq(Cell)
      <4>1. n \in Nat \ {0} /\ s.free_cells[n] \in Cell
        BY <1>1, <3>2
      <4>2. SubSeq(s.free_cells, 1, n - 1) \in Seq(Cell)
        BY <1>1, <4>1
      <4>3. Append(s.nodes[r], s.free_cells[n]) \in Seq(Cell)
        BY <1>1, <2>1, <4>1
      <4> QED BY <1>1, <4>2, <4>3
    <3>3. AfterAssign(s, r) \in States(req)
      BY <1>1, <1>3, <3>1, <3>2 DEF AfterAssign
    <3> QED BY <1>6, <2>3, <3>3 DEF After, r
  <2> QED BY <2>2, <2>3
<1> QED BY <1>4, <1>5, <1>6

\* A chain has one end.
LEMMA OneEnd ==
  ASSUME NEW req \in Requests, NEW s \in States(req),
         NEW t \in From(req, s), NEW u \in From(req, s), Returned(t.pc), Returned(u.pc)
  PROVE  t = u
<1> DEFINE S == States(req)
           R == {x \in S : t \in From(req, x)}
<1>1. t \in S /\ u \in S
  BY DEF From
<1>2. Closed(req, R)
  <2> SUFFICES ASSUME NEW x \in R, ~Returned(x.pc)
               PROVE  After(req, x) \in R
    BY DEF Closed
  <2> DEFINE y == After(req, x)
  <2>1. x \in S /\ y \in S
    BY AfterType
  <2>2. ASSUME NEW T \in SUBSET S, y \in T, Closed(req, T)
        PROVE  t \in T
    <3>1. T \cup {x} \in SUBSET S
      BY <2>1
    <3>2. Closed(req, T \cup {x})
      BY <2>2 DEF Closed
    <3>3. t \in T \cup {x}
      BY <3>1, <3>2 DEF From
    <3> QED BY <3>3
  <2>3. t \in From(req, y)
    BY <1>1, <2>2 DEF From
  <2> QED BY <2>1, <2>3
<1>3. s \in R /\ R \in SUBSET S
  OBVIOUS
<1>4. u \in R
  BY <1>2, <1>3 DEF From
<1>5. Closed(req, {u}) /\ {u} \in SUBSET S
  BY <1>1 DEF Closed
<1>6. t \in {u}
  BY <1>4, <1>5 DEF From
<1> QED BY <1>6

\* It goes on from each of its states.
LEMMA OneMore ==
  ASSUME NEW req \in Requests, NEW s \in States(req),
         NEW t \in From(req, s), ~Returned(t.pc)
  PROVE  After(req, t) \in From(req, s)
<1>1. t \in States(req) /\ After(req, t) \in States(req)
  BY AfterType DEF From
<1>2. ASSUME NEW T \in SUBSET States(req), s \in T, Closed(req, T)
      PROVE  After(req, t) \in T
  <2>1. t \in T
    BY <1>2 DEF From
  <2> QED BY <1>2, <2>1 DEF Closed
<1> QED BY <1>1, <1>2 DEF From

\* The call starts in a state, which is on its own chain.
LEMMA StartType ==
  ASSUME NEW req \in Requests
  PROVE  Start(req) \in States(req) /\ Start(req) \in From(req, Start(req))
<1>1. ROOT \in Cell /\ <<ROOT>> \in Seq(Cell)
  BY DEF ROOT, Cell
<1>2. subtree_size(ROOT) \in Nat
  BY PowerPositive, DepthAssumption DEF subtree_size, ROOT
<1>3. [r \in DOMAIN req |-> <<>>] \in [DOMAIN req -> Seq(Cell)]
  OBVIOUS
<1>4. req \in [DOMAIN req -> Nat]
  BY RequestsType
<1>5. Start(req) \in States(req)
  BY <1>1, <1>2, <1>3, <1>4 DEF Start, Locals, States
<1> QED BY <1>5 DEF From

-----------------------------------------------------------------------------
(* The steps of both runs are the steps of the chain.                      *)

\* The cases that a step distinguishes, in the terms of a largest request.
LEMMA AfterCases ==
  ASSUME NEW req \in Requests, NEW w, NEW n, NEW f, NEW c, NEW p,
         Locals(w, n, f, c, p) \in States(req)
  PROVE  LET s == Locals(w, n, f, c, p) IN
         /\ p = "scale" => After(req, s) = AfterScale(req, s)
         /\ p = "loop" =>
              /\ (\A r \in DOMAIN w : Highest(w, r) => w[r] = 0) => After(req, s) = AfterStop(s)
              /\ \A r : Highest(w, r) /\ w[r] # 0 =>
                   After(req, s) = IF w[r] < c THEN AfterSplit(s) ELSE AfterAssign(s, r)
<1> DEFINE s == Locals(w, n, f, c, p)
<1>1. /\ s.weight = w /\ s.nodes = n /\ s.free_cells = f /\ s.cell_size = c /\ s.pc = p
      /\ w \in [DOMAIN req -> Nat]
  BY DEF Locals, States
<1>2. DOMAIN req \in SUBSET Nat
  BY RequestsType
<1>3. ASSUME NEW r, Highest(w, r)
      PROVE  r \in DOMAIN w /\ r = Top(w)
  BY <1>1, <1>2, <1>3, HighestUnique
<1> HIDE DEF s
<1> QED BY <1>1, <1>3 DEF After, s

\* Each step of the first run is the step after the state it is in.
LEMMA FirstStep ==
  ASSUME request \in Requests, Here \in States(request), Next
  PROVE  ~Returned(pc) /\ Here' = After(request, Here)
<1> DEFINE w == weight
           n == nodes
           f == free_cells
           c == cell_size
           p == pc
<1>1. /\ Here.weight = w /\ Here.nodes = n /\ Here.free_cells = f
      /\ Here.cell_size = c /\ Here.pc = p
  BY DEF Here, Locals
<1>2. \A r : Largest(r) <=> Highest(w, r)
  BY DEF Largest, Less, Highest
<1>3. CASE Scale
  <2>1. After(request, Here) = AfterScale(request, Here) /\ pc = "scale"
    BY <1>3, AfterCases DEF Here, Scale
  <2>2. Here' = AfterScale(request, Here)
    BY <1>1, <1>3 DEF Scale, AfterScale, Here
  <2> QED BY <2>1, <2>2 DEF Returned
<1>4. CASE Split
  <2>1. PICK r \in DOMAIN w : Highest(w, r) /\ w[r] # 0 /\ w[r] < c
    BY <1>2, <1>4 DEF Split
  <2>2. After(request, Here) = AfterSplit(Here) /\ pc = "loop"
    BY <1>4, <2>1, AfterCases DEF Here, Split
  <2>3. Here' = AfterSplit(Here)
    BY <1>1, <1>4 DEF Split, AfterSplit, Here
  <2> QED BY <2>2, <2>3 DEF Returned
<1>5. CASE Assign
  <2>1. PICK r \in DOMAIN w :
          /\ Highest(w, r) /\ w[r] # 0 /\ w[r] >= c
          /\ weight' = [w EXCEPT ![r] = @ - c]
          /\ IF f = <<>>
               THEN pc' = "panic" /\ UNCHANGED <<nodes, free_cells>>
               ELSE /\ nodes' = [n EXCEPT ![r] = Append(@, f[Len(f)])]
                    /\ free_cells' = SubSeq(f, 1, Len(f) - 1)
                    /\ UNCHANGED pc
    BY <1>2, <1>5 DEF Assign
  <2>2. w[r] \in Nat /\ c \in Nat
    BY <1>1 DEF States, Highest
  <2>3. After(request, Here) = AfterAssign(Here, r) /\ pc = "loop"
    BY <1>5, <2>1, <2>2, AfterCases DEF Here, Assign
  <2>4. Here' = AfterAssign(Here, r)
    BY <1>1, <1>5, <2>1 DEF Assign, AfterAssign, Here
  <2> QED BY <2>3, <2>4 DEF Returned
<1>6. CASE Stop
  <2>1. After(request, Here) = AfterStop(Here) /\ pc = "loop"
    BY <1>2, <1>6, AfterCases DEF Here, Stop
  <2>2. Here' = AfterStop(Here)
    BY <1>1, <1>6 DEF Stop, AfterStop, Here
  <2> QED BY <2>1, <2>2 DEF Returned
<1> QED BY <1>3, <1>4, <1>5, <1>6 DEF Next

\* Both runs scale the same requests to the same weights.
LEMMA SameScaled ==
  ASSUME NEW f
  PROVE  Other!Scaled(f) = Scaled(f) /\ Other!Total(f) = Total(f)
<1>1. ASSUME NEW T
      PROVE  Other!Cardinality(T) = Cardinality(T)
  BY DEF Other!Cardinality, Cardinality
<1>2. Other!Total(f) = Total(f)
  BY <1>1 DEF Other!Total, Other!Units, Total, Units
<1>3. Other!WEIGHT_SPACE_SIZE = WEIGHT_SPACE_SIZE
  BY DEF Other!WEIGHT_SPACE_SIZE, WEIGHT_SPACE_SIZE
<1> QED BY <1>2, <1>3 DEF Other!Scaled, Scaled

\* So is each step of the second run.
LEMMA SecondStep ==
  ASSUME request \in Requests, There \in States(request), Other!Next
  PROVE  ~Returned(other_pc) /\ There' = After(request, There)
<1> DEFINE w == other_weight
           n == other_nodes
           f == other_free_cells
           c == other_cell_size
           p == other_pc
<1>1. /\ There.weight = w /\ There.nodes = n /\ There.free_cells = f
      /\ There.cell_size = c /\ There.pc = p
  BY DEF There, Locals
<1>2. \A r : Other!Largest(r) <=> Highest(w, r)
  BY DEF Other!Largest, Other!Less, Highest
<1>3. CASE Other!Scale
  <2>1. After(request, There) = AfterScale(request, There) /\ other_pc = "scale"
    BY <1>3, AfterCases DEF There, Other!Scale
  <2>2. There' = AfterScale(request, There)
    BY <1>1, <1>3, SameScaled DEF Other!Scale, AfterScale, There
  <2> QED BY <2>1, <2>2 DEF Returned
<1>4. CASE Other!Split
  <2>1. PICK r \in DOMAIN w : Highest(w, r) /\ w[r] # 0 /\ w[r] < c
    BY <1>2, <1>4 DEF Other!Split
  <2>2. After(request, There) = AfterSplit(There) /\ other_pc = "loop"
    BY <1>4, <2>1, AfterCases DEF There, Other!Split
  <2>3. There' = AfterSplit(There)
    BY <1>1, <1>4 DEF Other!Split, AfterSplit, There, left, right, Other!left, Other!right
  <2> QED BY <2>2, <2>3 DEF Returned
<1>5. CASE Other!Assign
  <2>1. PICK r \in DOMAIN w :
          /\ Highest(w, r) /\ w[r] # 0 /\ w[r] >= c
          /\ other_weight' = [w EXCEPT ![r] = @ - c]
          /\ IF f = <<>>
               THEN other_pc' = "panic" /\ UNCHANGED <<other_nodes, other_free_cells>>
               ELSE /\ other_nodes' = [n EXCEPT ![r] = Append(@, f[Len(f)])]
                    /\ other_free_cells' = SubSeq(f, 1, Len(f) - 1)
                    /\ UNCHANGED other_pc
    BY <1>2, <1>5 DEF Other!Assign
  <2>2. w[r] \in Nat /\ c \in Nat
    BY <1>1 DEF States, Highest
  <2>3. After(request, There) = AfterAssign(There, r) /\ other_pc = "loop"
    BY <1>5, <2>1, <2>2, AfterCases DEF There, Other!Assign
  <2>4. There' = AfterAssign(There, r)
    BY <1>1, <1>5, <2>1 DEF Other!Assign, AfterAssign, There
  <2> QED BY <2>3, <2>4 DEF Returned
<1>6. CASE Other!Stop
  <2>1. After(request, There) = AfterStop(There) /\ other_pc = "loop"
    BY <1>2, <1>6, AfterCases DEF There, Other!Stop
  <2>2. There' = AfterStop(There)
    BY <1>1, <1>6 DEF Other!Stop, AfterStop, There
  <2> QED BY <2>1, <2>2 DEF Returned
<1> QED BY <1>3, <1>4, <1>5, <1>6 DEF Other!Next

-----------------------------------------------------------------------------
\* Both runs are always on the chain of states that starts with the call.
OnTheChain ==
  /\ request \in Requests
  /\ Here \in From(request, Start(request))
  /\ There \in From(request, Start(request))

\* Both runs start at the same state.
LEMMA ChainInit == BothInit => OnTheChain
<1> SUFFICES ASSUME BothInit PROVE OnTheChain
  OBVIOUS
<1>1. request \in Requests
  BY DEF BothInit, Init, Requests
<1>2. Here = Start(request)
  BY DEF BothInit, Init, Here, Start
<1>3. There = Start(request)
  BY DEF BothInit, Other!Init, There, Start, ROOT, Other!ROOT, subtree_size, Other!subtree_size
<1> QED BY <1>1, <1>2, <1>3, StartType DEF OnTheChain

\* Neither leaves the chain.
LEMMA ChainStep ==
  ASSUME OnTheChain, [BothNext]_<<request, local, other_local>>
  PROVE  OnTheChain'
<1> DEFINE req == request
<1>1. /\ req \in Requests /\ Start(req) \in States(req)
      /\ Here \in From(req, Start(req)) /\ There \in From(req, Start(req))
      /\ Here \in States(req) /\ There \in States(req)
  BY StartType DEF OnTheChain, From
<1>2. Here.pc = pc /\ There.pc = other_pc
  BY DEF Here, There, Locals
<1>3. request' = req
  BY DEF BothNext, First, Second, Next, Scale, Split, Assign, Stop,
         Other!Next, Other!Scale, Other!Split, Other!Assign, Other!Stop
<1>4. Here' \in From(req, Start(req)) /\ There' \in From(req, Start(req))
  <2>1. CASE First
    <3>1. There' = There
      BY <2>1 DEF First, other_local, There
    <3>2. ~Returned(pc) /\ Here' = After(req, Here)
      BY <1>1, <2>1, FirstStep DEF First
    <3> QED BY <1>1, <1>2, <3>1, <3>2, OneMore
  <2>2. CASE Second
    <3>1. Here' = Here
      BY <2>2 DEF Second, local, Here
    <3>2. ~Returned(other_pc) /\ There' = After(req, There)
      BY <1>1, <2>2, SecondStep DEF Second
    <3> QED BY <1>1, <1>2, <3>1, <3>2, OneMore
  <2>3. CASE UNCHANGED <<request, local, other_local>>
    <3>1. Here' = Here /\ There' = There
      BY <2>3 DEF local, other_local, Here, There
    <3> QED BY <1>1, <3>1
  <2> QED BY <2>1, <2>2, <2>3 DEF BothNext
<1>5. From(request', Start(request')) = From(req, Start(req))
  BY <1>3
<1> QED BY <1>1, <1>3, <1>4, <1>5 DEF OnTheChain

\* Authorities with the same registrations give every relay the same cells, so
\* that a relay can recover every authority's share of an onion.
THEOREM AllocationsAgree == BothSpec => []Agreement
<1>1. BothInit => OnTheChain
  BY ChainInit
<1>2. OnTheChain /\ [BothNext]_<<request, local, other_local>> => OnTheChain'
  BY ChainStep
<1>3. OnTheChain => Agreement
  <2> SUFFICES ASSUME OnTheChain, pc = "done", other_pc = "done"
               PROVE  nodes = other_nodes
    BY DEF Agreement
  <2>1. Returned(Here.pc) /\ Returned(There.pc)
    BY DEF Here, There, Locals, Returned
  <2>2. Here = There
    BY <2>1, StartType, OneEnd DEF OnTheChain
  <2>3. Here.nodes = nodes /\ There.nodes = other_nodes
    BY DEF Here, There, Locals
  <2> QED BY <2>2, <2>3
<1> QED BY <1>1, <1>2, <1>3, PTL DEF BothSpec
=============================================================================
