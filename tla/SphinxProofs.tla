----------------------------- MODULE SphinxProofs -----------------------------
(***************************************************************************)
(* Proofs about packets of the Sphinx library, for any nodes, routes,      *)
(* messages and sizes, any number of packets, and secrets used once or     *)
(* many times.                                                             *)
(***************************************************************************)
EXTENDS SphinxNet, FiniteSetTheorems, WellFoundedInduction, TLAPS

-----------------------------------------------------------------------------
(* What is done for every node of a route in turn.                         *)

\* Every set of numbers has a least one: the form of induction used below.
LEMMA Least ==
  ASSUME NEW T, T \subseteq Nat, T # {}
  PROVE  \E x \in T : \A y \in T : x <= y
<1> DEFINE R == OpToRel(<, Nat)
<1>1. IsWellFoundedOn(R, Nat)
  BY NatLessThanWellFounded
<1>2. PICK x \in T : \A y \in T : ~(<<y, x>> \in R)
  <2> HIDE DEF R
  <2> QED BY <1>1, WFMin
<1>3. \A y \in T : ~(y < x)
  BY <1>2 DEF OpToRel
<1> QED BY <1>3

\* The place taken next by a fold from the right is the first one left.
LEMMA MinIn ==
  ASSUME NEW n \in Nat, NEW s \in SUBSET (1..n), s # {}
  PROVE  Min(s) \in s /\ \A x \in s : Min(s) <= x
<1>1. s \subseteq Nat
  OBVIOUS
<1>2. \E x \in s : \A y \in s : x <= y
  BY <1>1, Least
<1> QED BY <1>2 DEF Min

\* That of a fold from the left is the last one left.
LEMMA MaxIn ==
  ASSUME NEW n \in Nat, NEW s \in SUBSET (1..n), s # {}
  PROVE  Max(s) \in s /\ \A x \in s : x <= Max(s)
<1> DEFINE T == {n - x : x \in s}
<1>1. T \subseteq Nat /\ T # {}
  OBVIOUS
<1>2. PICK t \in T : \A y \in T : t <= y
  BY <1>1, Least
<1>3. PICK x \in s : t = n - x
  OBVIOUS
<1>4. \A y \in s : n - x <= n - y
  BY <1>2, <1>3
<1>5. \E z \in s : \A y \in s : z >= y
  BY <1>4
<1> QED BY <1>5 DEF Max

\* The step of each of the library's loops over a route, as one operator: there
\* is one lemma for the loops that go forward and one for those that go back.
KeyStep(so_far, node) ==
  LET shared_key == diffie_hellman(so_far.accumulator, public_key(private_key(node)))
      keys == RoutingKeys(shared_key)
  IN  [accumulator  |-> so_far.accumulator \cup scalar(keys["blinding"]),
       routing_keys |-> Append(so_far.routing_keys, keys)]

FillStep(filler, i, routing_keys) ==
  filler_step(filler, i, generate_pseudorandom_bytes(routing_keys[i]["stream_cipher"]))

HopStep(next, i, delays, route, routing_keys) ==
  encapsulate_with_mac(
    encrypt(RoutingInformation(route[i + 1], delays[i], next), routing_keys[i]["stream_cipher"]),
    routing_keys[i]["integrity_mac"])

StepOf(kind, x, i, d) ==
  IF kind = "key" THEN KeyStep(x, d[i])
  ELSE IF kind = "filler" THEN FillStep(x, i, d)
  ELSE IF kind = "hop" THEN HopStep(x, i, d.delays, d.route, d.keys)
  ELSE add_encryption_layer(x, d[i])

UpIter(g, s, kind, b, d) ==
  IF s = {} THEN b ELSE StepOf(kind, g[s \ {Max(s)}], Max(s), d)

UpResult(n, kind, b, d) ==
  (CHOOSE c : c = [s \in SUBSET (1..n) |-> UpIter(c, s, kind, b, d)])[1..n]

GoesUp(h, n, kind, b, d) ==
  h[0] = b /\ \A i \in 1..n : h[i] = StepOf(kind, h[i - 1], i, d)

\* A loop that goes forward does its steps one after the other.
LEMMA Upwards ==
  ASSUME NEW n \in Nat, NEW kind, NEW b, NEW d
  PROVE  \E h : GoesUp(h, n, kind, b, d) /\ UpResult(n, kind, b, d) = h[n]
<1> DEFINE Ok(k, g) == \A s \in SUBSET (1..k) : g[s] = UpIter(g, s, kind, b, d)
           T == {k \in 0..n : ~ \E g : Ok(k, g)}
<1>1. T = {}
  <2> SUFFICES ASSUME T # {} PROVE FALSE
    OBVIOUS
  <2>0. T \subseteq Nat
    OBVIOUS
  <2>1. PICK k \in T : \A j \in T : k <= j
    <3> HIDE DEF T
    <3> QED BY <2>0, Least
  <2>2. k # 0
    <3>1. Ok(0, [s \in SUBSET (1..0) |-> b])
      BY DEF UpIter
    <3> QED BY <3>1
  <2>3. k - 1 \notin T /\ k - 1 \in 0..n
    <3>1. k \in 0..n /\ k - 1 < k
      OBVIOUS
    <3>2. k - 1 \in 0..n /\ ~(k <= k - 1)
      BY <2>2, <3>1
    <3> HIDE DEF T
    <3> QED BY <2>1, <3>2
  <2>4. PICK g : Ok(k - 1, g)
    BY <2>3
  <2> DEFINE f == [s \in SUBSET (1..n) |-> UpIter(g, s, kind, b, d)]
  <2>5. ASSUME NEW s \in SUBSET (1..k), s # {}
        PROVE  f[s] = UpIter(f, s, kind, b, d)
    <3>0. s \in SUBSET (1..n)
      OBVIOUS
    <3>1. Max(s) \in s /\ \A x \in s : x <= Max(s)
      BY <2>5, <3>0, MaxIn
    <3>2. ASSUME NEW x \in s, x # Max(s)
          PROVE  x \in 1..k - 1 /\ x \in 1..n
      <4>1. x \in 1..k /\ Max(s) \in 1..k /\ x <= Max(s) /\ k \in 0..n
        BY <3>1
      <4> QED BY <3>2, <4>1
    <3>3. f[s \ {Max(s)}] = g[s \ {Max(s)}]
      BY <2>4, <3>2
    <3> QED BY <2>5, <3>0, <3>3 DEF UpIter
  <2>6. f[{}] = UpIter(f, {}, kind, b, d)
    BY DEF UpIter
  <2>7. Ok(k, f)
    BY <2>5, <2>6
  <2> QED BY <2>1, <2>7
<1>2. PICK g : Ok(n, g)
  <2>1. n \in 0..n
    OBVIOUS
  <2> QED BY <1>1, <2>1
<1> DEFINE f == [s \in SUBSET (1..n) |-> g[s]]
           e == CHOOSE c : c = [s \in SUBSET (1..n) |-> UpIter(c, s, kind, b, d)]
           h == [i \in 0..n |-> e[1..i]]
<1>3. f = [s \in SUBSET (1..n) |-> UpIter(f, s, kind, b, d)]
  <2>1. ASSUME NEW s \in SUBSET (1..n)
        PROVE  f[s] = UpIter(f, s, kind, b, d)
    <3>1. s \ {Max(s)} \in SUBSET (1..n)
      OBVIOUS
    <3> QED BY <1>2, <3>1 DEF UpIter
  <2> QED BY <2>1
<1>4. e = [s \in SUBSET (1..n) |-> UpIter(e, s, kind, b, d)]
  <2> HIDE DEF f
  <2> QED BY <1>3
<1>7. UpResult(n, kind, b, d) = e[1..n]
  BY DEF UpResult
<1> HIDE DEF e
<1>5. h[0] = b
  <2>1. 1..0 = {} /\ {} \in SUBSET (1..n)
    OBVIOUS
  <2> QED BY <1>4, <2>1 DEF UpIter
<1>6. ASSUME NEW i \in 1..n
      PROVE  h[i] = StepOf(kind, h[i - 1], i, d)
  <2>1. 1..i \in SUBSET (1..n) /\ i \in 1..i /\ i - 1 \in 0..n
    OBVIOUS
  <2>2. Max(1..i) = i
    <3>1. Max(1..i) \in 1..i /\ i <= Max(1..i)
      BY <2>1, MaxIn
    <3> QED BY <3>1
  <2>3. (1..i) \ {i} = 1..(i - 1)
    OBVIOUS
  <2>4. e[1..i] = StepOf(kind, e[1..(i - 1)], i, d)
    BY <1>4, <2>1, <2>2, <2>3 DEF UpIter
  <2> QED BY <2>1, <2>4
<1>8. h[n] = e[1..n]
  OBVIOUS
<1> HIDE DEF h
<1> QED BY <1>5, <1>6, <1>7, <1>8 DEF GoesUp

DownIter(g, s, kind, b, d) ==
  IF s = {} THEN b ELSE StepOf(kind, g[s \ {Min(s)}], Min(s), d)

DownResult(n, kind, b, d) ==
  (CHOOSE c : c = [s \in SUBSET (1..n) |-> DownIter(c, s, kind, b, d)])[1..n]

GoesDown(h, n, kind, b, d) ==
  h[n + 1] = b /\ \A i \in 1..n : h[i] = StepOf(kind, h[i + 1], i, d)

\* A loop that goes back does its steps one after the other, too.
LEMMA Downwards ==
  ASSUME NEW n \in Nat, NEW kind, NEW b, NEW d
  PROVE  \E h : GoesDown(h, n, kind, b, d) /\ DownResult(n, kind, b, d) = h[1]
<1> DEFINE It(g, s) == DownIter(g, s, kind, b, d)
           Ok(k, g) == \A s \in SUBSET (k..n) : g[s] = It(g, s)
           T == {k \in 0..n : ~ \E g : Ok(n + 1 - k, g)}
<1>1. T = {}
  <2> SUFFICES ASSUME T # {} PROVE FALSE
    OBVIOUS
  <2>0. T \subseteq Nat
    OBVIOUS
  <2>1. PICK k \in T : \A j \in T : k <= j
    <3> HIDE DEF T
    <3> QED BY <2>0, Least
  <2>2. k # 0
    <3>1. (n + 1)..n = {} /\ n + 1 - 0 = n + 1
      OBVIOUS
    <3>2. Ok(n + 1, [s \in {{}} |-> b])
      BY <3>1 DEF DownIter
    <3> QED BY <3>1, <3>2
  <2>3. k - 1 \notin T /\ k - 1 \in 0..n
    <3>1. k \in 0..n /\ k - 1 < k
      OBVIOUS
    <3>2. k - 1 \in 0..n /\ ~(k <= k - 1)
      BY <2>2, <3>1
    <3> HIDE DEF T
    <3> QED BY <2>1, <3>2
  <2>4. PICK g : Ok(n + 1 - (k - 1), g)
    BY <2>3
  <2> DEFINE m == n + 1 - k
             f == [s \in SUBSET (1..n) |-> It(g, s)]
  <2>5. ASSUME NEW s \in SUBSET (m..n), s # {}
        PROVE  f[s] = It(f, s)
    <3>0. s \in SUBSET (1..n)
      OBVIOUS
    <3>1. Min(s) \in s /\ \A x \in s : Min(s) <= x
      BY <2>5, <3>0, MinIn
    <3>2. ASSUME NEW x \in s, x # Min(s)
          PROVE  x \in (n + 1 - (k - 1))..n /\ x \in 1..n
      <4>1. x \in m..n /\ Min(s) \in m..n /\ Min(s) <= x /\ k \in 0..n
        BY <3>1
      <4> QED BY <3>2, <4>1
    <3>3. f[s \ {Min(s)}] = g[s \ {Min(s)}]
      BY <2>4, <3>2
    <3> QED BY <2>5, <3>0, <3>3 DEF DownIter
  <2>6. f[{}] = It(f, {})
    BY DEF DownIter
  <2>7. Ok(m, f)
    BY <2>5, <2>6
  <2> QED BY <2>1, <2>7
<1>2. PICK g : Ok(1, g)
  <2>1. n \in 0..n /\ n + 1 - n = 1
    OBVIOUS
  <2>2. \E g : Ok(n + 1 - n, g)
    BY <1>1, <2>1
  <2> QED BY <2>1, <2>2
<1> DEFINE f == [s \in SUBSET (1..n) |-> g[s]]
           e == CHOOSE c : c = [s \in SUBSET (1..n) |-> It(c, s)]
           h == [i \in 1..(n + 1) |-> e[i..n]]
<1>3. f = [s \in SUBSET (1..n) |-> It(f, s)]
  <2>1. ASSUME NEW s \in SUBSET (1..n)
        PROVE  f[s] = It(f, s)
    <3>1. s \ {Min(s)} \in SUBSET (1..n)
      OBVIOUS
    <3> QED BY <1>2, <3>1 DEF DownIter
  <2> QED BY <2>1
<1>4. e = [s \in SUBSET (1..n) |-> It(e, s)]
  <2> HIDE DEF f, It
  <2> QED BY <1>3
<1>7. DownResult(n, kind, b, d) = e[1..n]
  BY DEF DownResult
<1> HIDE DEF e
<1>5. h[n + 1] = b
  <2>1. (n + 1)..n = {} /\ {} \in SUBSET (1..n)
    OBVIOUS
  <2> QED BY <1>4, <2>1 DEF DownIter
<1>6. ASSUME NEW i \in 1..n
      PROVE  h[i] = StepOf(kind, h[i + 1], i, d)
  <2>1. i..n \in SUBSET (1..n) /\ i \in i..n /\ i + 1 \in 1..(n + 1)
    OBVIOUS
  <2>2. Min(i..n) = i
    <3>1. Min(i..n) \in i..n /\ Min(i..n) <= i
      BY <2>1, MinIn
    <3> QED BY <3>1
  <2>3. (i..n) \ {i} = (i + 1)..n
    OBVIOUS
  <2>4. e[i..n] = It(e, i..n)
    BY <1>4, <2>1
  <2>5. e[i..n] = StepOf(kind, e[(i + 1)..n], i, d)
    BY <2>1, <2>2, <2>3, <2>4 DEF DownIter
  <2> QED BY <2>1, <2>5
<1>8. h[1] = e[1..n]
  OBVIOUS
<1> HIDE DEF h
<1> QED BY <1>5, <1>6, <1>7, <1>8 DEF GoesDown

\* The keys of a route.
LEMMA KeysInTurn ==
  ASSUME NEW n \in Nat, NEW route, DOMAIN route = 1..n, NEW secret
  PROVE  KeyMaterial(route, secret).routing_keys
           = UpResult(n, "key", [accumulator |-> secret, routing_keys |-> <<>>], route).routing_keys
<1> DEFINE b == [accumulator |-> secret, routing_keys |-> <<>>]
           Ot(g, s) == IF s = {} THEN b ELSE KeyStep(g[s \ {Max(s)}], route[Max(s)])
<1>1. ASSUME NEW g, NEW s PROVE Ot(g, s) = UpIter(g, s, "key", b, route)
  BY DEF UpIter, StepOf
<1>2. KeyMaterial(route, secret).routing_keys = FoldLeft(KeyStep, b, route).routing_keys
  BY DEF KeyMaterial, KeyStep
<1> DEFINE e == CHOOSE c : c = [s \in SUBSET (1..n) |-> Ot(c, s)]
           f == CHOOSE c : c = [s \in SUBSET (1..n) |-> UpIter(c, s, "key", b, route)]
<1>3. FoldLeft(KeyStep, b, route) = e[1..n]
  BY DEF FoldLeft, MapThenFoldSet
<1>4. \A g : [s \in SUBSET (1..n) |-> Ot(g, s)] = [s \in SUBSET (1..n) |-> UpIter(g, s, "key", b, route)]
  <2> HIDE DEF Ot, b
  <2> QED BY <1>1
<1>5. e = f
  <2> HIDE DEF Ot, b
  <2> QED BY <1>4
<1>6. UpResult(n, "key", b, route) = f[1..n]
  BY DEF UpResult
<1> HIDE DEF e, f
<1> QED BY <1>2, <1>3, <1>5, <1>6

\* A route's numbers, which two of the loops go through.
LEMMA Numbered ==
  ASSUME NEW n \in Nat, NEW s \in SUBSET (1..n), s # {}
  PROVE  [i \in 1..n |-> i][Max(s)] = Max(s) /\ [i \in 1..n |-> i][Min(s)] = Min(s)
BY MinIn, MaxIn

\* The filler.
LEMMA FillerInTurn ==
  ASSUME NEW n \in Nat, NEW keys, DOMAIN keys = 1..n
  PROVE  Filler(keys) = UpResult(n, "filler", <<>>, keys)
<1> DEFINE I == [i \in 1..n |-> i]
           Ot(g, s) == IF s = {} THEN <<>> ELSE FillStep(g[s \ {Max(s)}], I[Max(s)], keys)
           e == CHOOSE c : c = [s \in SUBSET (1..n) |-> Ot(c, s)]
           f == CHOOSE c : c = [s \in SUBSET (1..n) |-> UpIter(c, s, "filler", <<>>, keys)]
<1>1. ASSUME NEW g, NEW s \in SUBSET (1..n) PROVE Ot(g, s) = UpIter(g, s, "filler", <<>>, keys)
  BY Numbered DEF UpIter, StepOf
<1>2. Filler(keys) = e[1..n]
  BY DEF Filler, FillStep, FoldLeft, MapThenFoldSet
<1>3. \A g : [s \in SUBSET (1..n) |-> Ot(g, s)] = [s \in SUBSET (1..n) |-> UpIter(g, s, "filler", <<>>, keys)]
  <2> HIDE DEF Ot
  <2> QED BY <1>1
<1>4. e = f
  <2> HIDE DEF Ot
  <2> QED BY <1>3
<1>5. UpResult(n, "filler", <<>>, keys) = f[1..n]
  BY DEF UpResult
<1> HIDE DEF e, f
<1> QED BY <1>2, <1>4, <1>5

\* The header's layers.
LEMMA HopsInTurn ==
  ASSUME NEW final_hop, NEW delays, NEW route, NEW keys, Len(route) - 1 \in Nat
  PROVE  for_forward_hops(final_hop, delays, route, keys)
           = DownResult(Len(route) - 1, "hop", final_hop,
                        [delays |-> delays, route |-> route, keys |-> keys])
<1> DEFINE n == Len(route) - 1
           I == [i \in 1..n |-> i]
           d == [delays |-> delays, route |-> route, keys |-> keys]
           Ot(g, s) == IF s = {} THEN final_hop
                       ELSE HopStep(g[s \ {Min(s)}], I[Min(s)], delays, route, keys)
           e == CHOOSE c : c = [s \in SUBSET (1..n) |-> Ot(c, s)]
           f == CHOOSE c : c = [s \in SUBSET (1..n) |-> DownIter(c, s, "hop", final_hop, d)]
<1>1. ASSUME NEW g, NEW s \in SUBSET (1..n) PROVE Ot(g, s) = DownIter(g, s, "hop", final_hop, d)
  <2>0. n \in Nat
    OBVIOUS
  <2>1. s # {} => I[Min(s)] = Min(s)
    <3> HIDE DEF n
    <3> QED BY <2>0, Numbered
  <2> QED BY <2>1 DEF DownIter, StepOf
<1>2. for_forward_hops(final_hop, delays, route, keys) = e[1..n]
  BY DEF for_forward_hops, HopStep, FoldRight, MapThenFoldSet
<1>3. \A g : [s \in SUBSET (1..n) |-> Ot(g, s)] = [s \in SUBSET (1..n) |-> DownIter(g, s, "hop", final_hop, d)]
  <2> HIDE DEF Ot, d
  <2> QED BY <1>1
<1>4. e = f
  <2> HIDE DEF Ot, d
  <2> QED BY <1>3
<1>5. DownResult(n, "hop", final_hop, d) = f[1..n]
  BY DEF DownResult
<1> HIDE DEF e, f
<1> QED BY <1>2, <1>4, <1>5

Encrypted(text, keys) ==
  FoldRight(LAMBDA key, p : add_encryption_layer(p, key), keys, text)

\* The payload's layers.
LEMMA LayersInTurn ==
  ASSUME NEW n \in Nat, NEW text, NEW keys, DOMAIN keys = 1..n
  PROVE  Encrypted(text, keys) = DownResult(n, "payload", text, keys)
<1> DEFINE Ot(g, s) == IF s = {} THEN text
                       ELSE add_encryption_layer(g[s \ {Min(s)}], keys[Min(s)])
           e == CHOOSE c : c = [s \in SUBSET (1..n) |-> Ot(c, s)]
           f == CHOOSE c : c = [s \in SUBSET (1..n) |-> DownIter(c, s, "payload", text, keys)]
<1>1. ASSUME NEW g, NEW s PROVE Ot(g, s) = DownIter(g, s, "payload", text, keys)
  BY DEF DownIter, StepOf
<1>2. Encrypted(text, keys) = e[1..n]
  BY DEF Encrypted, FoldRight, MapThenFoldSet
<1>3. \A g : [s \in SUBSET (1..n) |-> Ot(g, s)] = [s \in SUBSET (1..n) |-> DownIter(g, s, "payload", text, keys)]
  <2> HIDE DEF Ot
  <2> QED BY <1>1
<1>4. e = f
  <2> HIDE DEF Ot
  <2> QED BY <1>3
<1>5. DownResult(n, "payload", text, keys) = f[1..n]
  BY DEF DownResult
<1> HIDE DEF e, f
<1> QED BY <1>2, <1>4, <1>5

-----------------------------------------------------------------------------
(* Strings.                                                                *)

IsString(a, n) == a = [i \in 1..n |-> a[i]]

\* A string followed by another one.
LEMMA Concat ==
  ASSUME NEW m \in Nat, NEW n \in Nat, NEW a, NEW b, IsString(a, m), IsString(b, n)
  PROVE  /\ IsString(a \o b, m + n)
         /\ \A i \in 1..(m + n) : (a \o b)[i] = IF i <= m THEN a[i] ELSE b[i - m]
<1> USE DEF IsString
<1> DEFINE S == {a[i] : i \in 1..m} \cup {b[i] : i \in 1..n}
<1>1. a \in [1..m -> S] /\ b \in [1..n -> S]
  OBVIOUS
<1> HIDE DEF S
<1>2. a \in Seq(S) /\ b \in Seq(S)
  BY <1>1
<1>3. Len(a) = m /\ Len(b) = n
  BY <1>1, <1>2
<1> QED BY <1>2, <1>3

\* A part of a string.
LEMMA Part ==
  ASSUME NEW m \in Nat, NEW a, IsString(a, m),
         NEW j \in 1..(m + 1), NEW k \in (j - 1)..m
  PROVE  SubSeq(a, j, k) = [i \in 1..(k - j + 1) |-> a[i + j - 1]]
<1> USE DEF IsString
<1> DEFINE S == {a[i] : i \in 1..m}
<1>1. a \in [1..m -> S]
  OBVIOUS
<1> HIDE DEF S
<1>2. a \in Seq(S)
  BY <1>1
<1>3. Len(a) = m
  BY <1>1, <1>2
<1> QED BY <1>2, <1>3

\* The length and the domain of a string.
LEMMA LenIs ==
  ASSUME NEW m \in Nat, NEW a, IsString(a, m)
  PROVE  Len(a) = m /\ DOMAIN a = 1..m
<1> USE DEF IsString
<1> DEFINE S == {a[i] : i \in 1..m}
<1>1. a \in [1..m -> S]
  OBVIOUS
<1> HIDE DEF S
<1> QED BY <1>1

\* A string with one more element.
LEMMA Added ==
  ASSUME NEW m \in Nat, NEW a, IsString(a, m), NEW c
  PROVE  Append(a, c) = [i \in 1..(m + 1) |-> IF i <= m THEN a[i] ELSE c]
<1> USE DEF IsString
<1> DEFINE S == {a[i] : i \in 1..m} \cup {c}
<1>1. a \in [1..m -> S] /\ c \in S
  OBVIOUS
<1> HIDE DEF S
<1>2. a \in Seq(S)
  BY <1>1
<1>3. Len(a) = m
  BY <1>1, <1>2
<1> QED BY <1>1, <1>2, <1>3

\* Sequences are strings.
LEMMA SequenceIs ==
  ASSUME NEW S, NEW a \in Seq(S)
  PROVE  Len(a) \in Nat /\ IsString(a, Len(a)) /\ \A i \in 1..Len(a) : a[i] \in S
BY DEF IsString

-----------------------------------------------------------------------------
(* The secrets of a route.                                                 *)

\* The secret that a packet has after so many nodes.
Chain(secret, route) ==
  LET a[i \in 0..Len(route)] ==
        IF i = 0 THEN secret
        ELSE a[i - 1] \cup {<<"blinding", a[i - 1] \cup {<<"node", route[i]>>}>>}
  IN  a

\* What a node of the route shares with the sender.
Shared(secret, route, i) == Chain(secret, route)[i - 1] \cup {<<"node", route[i]>>}

Keys(secret, route) == [i \in 1..Len(route) |-> RoutingKeys(Shared(secret, route, i))]

IsChain(a, secret, route) ==
  /\ a[0] = secret
  /\ \A i \in 1..Len(route) : a[i] = a[i - 1] \cup {<<"blinding", a[i - 1] \cup {<<"node", route[i]>>}>>}

\* There is one chain of secrets only.
LEMMA OneChain ==
  ASSUME NEW route, NEW n \in Nat, Len(route) = n, NEW secret, NEW a, NEW b,
         IsChain(a, secret, route), IsChain(b, secret, route)
  PROVE  \A i \in 0..n : a[i] = b[i]
<1> DEFINE T == {i \in 0..n : a[i] # b[i]}
<1>1. ASSUME T # {} PROVE FALSE
  <2>1. T \subseteq Nat
    OBVIOUS
  <2>2. PICK i \in T : \A j \in T : i <= j
    <3> HIDE DEF T
    <3> QED BY <1>1, <2>1, Least
  <2>3. i # 0
    BY DEF IsChain
  <2>4. i - 1 \in 0..n /\ i \in 1..n /\ ~(i <= i - 1)
    BY <2>3
  <2>5. a[i - 1] = b[i - 1]
    BY <2>2, <2>4
  <2>6. a[i] = b[i]
    BY <2>4, <2>5 DEF IsChain
  <2> QED BY <2>6
<1> QED BY <1>1

\* The sender's keys are those of the chain.
LEMMA ChainIs ==
  ASSUME NEW route \in Seq(Node), NEW secret
  PROVE  /\ IsChain(Chain(secret, route), secret, route)
         /\ KeyMaterial(route, secret) = [initial_shared_secret |-> secret,
                                          routing_keys |-> Keys(secret, route)]
<1> DEFINE n == Len(route)
           b == [accumulator |-> secret, routing_keys |-> <<>>]
<1>1. n \in Nat /\ DOMAIN route = 1..n
  OBVIOUS
<1> HIDE DEF n
<1>2. PICK h : /\ h[0] = b /\ UpResult(n, "key", b, route) = h[n]
               /\ \A i \in 1..n : h[i] = StepOf("key", h[i - 1], i, route)
  <2>1. \E h : GoesUp(h, n, "key", b, route) /\ UpResult(n, "key", b, route) = h[n]
    BY <1>1, Upwards
  <2> QED BY <2>1 DEF GoesUp
<1> DEFINE a == [i \in 0..n |-> h[i].accumulator]
           k == [i \in 1..n |-> RoutingKeys(a[i - 1] \cup {<<"node", route[i]>>})]
<1>3. ASSUME NEW i \in 1..n
      PROVE  /\ a[i] = a[i - 1] \cup {<<"blinding", a[i - 1] \cup {<<"node", route[i]>>}>>}
             /\ h[i].routing_keys = Append(h[i - 1].routing_keys, k[i])
  <2>1. i - 1 \in 0..n /\ i \in 0..n
    BY <1>1
  <2> DEFINE shared == h[i - 1].accumulator \cup {<<"node", route[i]>>}
  <2>2. h[i] = KeyStep(h[i - 1], route[i])
    BY <1>2 DEF StepOf
  <2>3. diffie_hellman(h[i - 1].accumulator, public_key(private_key(route[i]))) = shared
    BY DEF diffie_hellman, public_key, private_key
  <2> HIDE DEF shared
  <2>4. h[i] = [accumulator |-> h[i - 1].accumulator \cup {<<"blinding", shared>>},
                routing_keys |-> Append(h[i - 1].routing_keys, RoutingKeys(shared))]
    BY <2>2, <2>3 DEF KeyStep, scalar, RoutingKeys
  <2>5. a[i - 1] = h[i - 1].accumulator /\ a[i] = h[i].accumulator
    BY <2>1
  <2>6. k[i] = RoutingKeys(a[i - 1] \cup {<<"node", route[i]>>})
    <3> HIDE DEF a
    <3> QED OBVIOUS
  <2>7. shared = a[i - 1] \cup {<<"node", route[i]>>}
    BY <2>5 DEF shared
  <2> HIDE DEF a, k
  <2>8. h[i].accumulator = a[i - 1] \cup {<<"blinding", shared>>}
    BY <2>4, <2>5
  <2>9. h[i].routing_keys = Append(h[i - 1].routing_keys, k[i])
    BY <2>4, <2>6, <2>7
  <2> QED BY <2>5, <2>7, <2>8, <2>9
<1>4. IsChain(a, secret, route)
  <2>1. a[0] = secret
    BY <1>1, <1>2
  <2> HIDE DEF a
  <2> QED BY <1>3, <2>1 DEF IsChain, n
<1>5. IsChain(Chain(secret, route), secret, route)
  <2> DEFINE e == CHOOSE e : e = [i \in 0..n |->
                    IF i = 0 THEN secret
                    ELSE e[i - 1] \cup {<<"blinding", e[i - 1] \cup {<<"node", route[i]>>}>>}]
  <2>1. a = [i \in 0..n |->
               IF i = 0 THEN secret
               ELSE a[i - 1] \cup {<<"blinding", a[i - 1] \cup {<<"node", route[i]>>}>>}]
    <3>1. \A i \in 0..n : a[i] = IF i = 0 THEN secret
               ELSE a[i - 1] \cup {<<"blinding", a[i - 1] \cup {<<"node", route[i]>>}>>}
      <4> TAKE i \in 0..n
      <4>1. i # 0 => i \in 1..Len(route)
        BY <1>1 DEF n
      <4> HIDE DEF a
      <4> QED BY <1>4, <4>1 DEF IsChain
    <3>2. a = [i \in 0..n |-> a[i]]
      OBVIOUS
    <3> HIDE DEF a
    <3> QED BY <3>1, <3>2
  <2>2. e = [i \in 0..n |->
               IF i = 0 THEN secret
               ELSE e[i - 1] \cup {<<"blinding", e[i - 1] \cup {<<"node", route[i]>>}>>}]
    <3> HIDE DEF a
    <3> QED BY <2>1
  <2>3. Chain(secret, route) = e
    BY DEF Chain, n
  <2> HIDE DEF e
  <2>4. IsChain(e, secret, route)
    <3>1. e[0] = secret
      BY <1>1, <2>2
    <3>2. ASSUME NEW i \in 1..Len(route)
          PROVE  e[i] = e[i - 1] \cup {<<"blinding", e[i - 1] \cup {<<"node", route[i]>>}>>}
      <4>1. i \in 0..n /\ i # 0
        BY <1>1 DEF n
      <4> QED BY <2>2, <4>1
    <3> QED BY <3>1, <3>2 DEF IsChain
  <2> QED BY <2>3, <2>4
<1>6. \A i \in 0..n : Chain(secret, route)[i] = a[i]
  <2> HIDE DEF a
  <2> QED BY <1>1, <1>4, <1>5, OneChain DEF n
<1>7. Keys(secret, route) = k
  <2>1. ASSUME NEW i \in 1..n PROVE Keys(secret, route)[i] = k[i]
    <3>1. i - 1 \in 0..n
      BY <1>1
    <3>2. Chain(secret, route)[i - 1] = a[i - 1]
      BY <1>6, <3>1
    <3> HIDE DEF a
    <3> QED BY <3>2 DEF Keys, Shared, n
  <2> QED BY <2>1 DEF Keys, n
<1> HIDE DEF a
<1>8. \A i \in 0..n : h[i].routing_keys = [l \in 1..i |-> k[l]]
  <2> DEFINE T == {i \in 0..n : h[i].routing_keys # [l \in 1..i |-> k[l]]}
  <2>1. ASSUME T # {} PROVE FALSE
    <3>1. T \subseteq Nat
      OBVIOUS
    <3>2. PICK i \in T : \A j \in T : i <= j
      <4> HIDE DEF T
      <4> QED BY <2>1, <3>1, Least
    <3>3. i # 0
      <4>1. h[0].routing_keys = <<>>
        BY <1>2
      <4>2. [l \in 1..0 |-> k[l]] = <<>>
        OBVIOUS
      <4> QED BY <4>1, <4>2
    <3>4. i - 1 \in 0..n /\ i - 1 \in Nat /\ i \in 1..n /\ ~(i <= i - 1)
      BY <1>1, <3>3
    <3> DEFINE c == [l \in 1..(i - 1) |-> k[l]]
               m == i - 1
    <3>5. h[i - 1].routing_keys = c
      BY <3>2, <3>4
    <3>6. h[i].routing_keys = Append(c, k[i])
      BY <1>3, <3>4, <3>5
    <3>7. Append(c, k[i]) = [l \in 1..i |-> k[l]]
      <4>1. IsString(c, m) /\ m \in Nat
        BY <3>4 DEF IsString
      <4> HIDE DEF c, m
      <4>2. Append(c, k[i]) = [l \in 1..(m + 1) |-> IF l <= m THEN c[l] ELSE k[i]]
        <5> DEFINE x == k[i]
        <5> HIDE DEF x
        <5>1. Append(c, x) = [l \in 1..(m + 1) |-> IF l <= m THEN c[l] ELSE x]
          BY <4>1, Added
        <5> QED BY <5>1 DEF x
      <4>3. m + 1 = i
        BY <3>4 DEF m
      <4>4. \A l \in 1..i : (IF l <= m THEN c[l] ELSE k[i]) = k[l]
        <5> HIDE DEF k
        <5> QED BY <3>4 DEF c, m
      <4> HIDE DEF k
      <4> QED BY <4>2, <4>3, <4>4
    <3> QED BY <3>4, <3>6, <3>7
  <2> QED BY <2>1
<1>9. h[n].routing_keys = k
  <2>1. n \in 0..n
    BY <1>1
  <2> QED BY <1>8, <2>1
<1>10. KeyMaterial(route, secret).routing_keys = k
  BY <1>1, <1>2, <1>9, KeysInTurn
<1>11. KeyMaterial(route, secret)
        = [initial_shared_secret |-> secret,
           routing_keys |-> KeyMaterial(route, secret).routing_keys]
  BY DEF KeyMaterial, public_key
<1> QED BY <1>5, <1>7, <1>10, <1>11

\* An initial secret has no factor that comes from a node or a blinding.
IsSecret(secret) == \A factor \in secret : factor[1] = "secret"

\* What a secret is a product of: the initial one and the blinding factors.
LEMMA ChainHas ==
  ASSUME NEW route \in Seq(Node), NEW secret, NEW i \in 0..Len(route), NEW x
  PROVE  x \in Chain(secret, route)[i] <=>
           x \in secret \/ \E l \in 1..i : x = <<"blinding", Shared(secret, route, l)>>
<1> DEFINE n == Len(route)
           a == Chain(secret, route)
           Has(k) == x \in secret \/ \E l \in 1..k : x = <<"blinding", Shared(secret, route, l)>>
           T == {k \in 0..n : ~(x \in a[k] <=> Has(k))}
<1>1. n \in Nat
  OBVIOUS
<1>2. a[0] = secret /\ \A k \in 1..n : a[k] = a[k - 1] \cup {<<"blinding", Shared(secret, route, k)>>}
  <2>1. IsChain(a, secret, route)
    BY ChainIs
  <2>2. \A k : Shared(secret, route, k) = a[k - 1] \cup {<<"node", route[k]>>}
    BY DEF Shared
  <2> HIDE DEF a, T, Has
  <2> QED BY <2>1, <2>2 DEF IsChain
<1> HIDE DEF a, n
<1>3. ASSUME T # {} PROVE FALSE
  <2>1. T \subseteq Nat
    BY <1>1
  <2>2. PICK k \in T : \A j \in T : k <= j
    <3> HIDE DEF T
    <3> QED BY <1>3, <2>1, Least
  <2>3. k # 0
    BY <1>2
  <2>4. k \in 1..n /\ k - 1 \in 0..n /\ ~(k <= k - 1)
    BY <1>1, <2>3
  <2>5. x \in a[k - 1] <=> Has(k - 1)
    BY <2>2, <2>4
  <2>6. Has(k) <=> Has(k - 1) \/ x = <<"blinding", Shared(secret, route, k)>>
    <3>1. \A l : l \in 1..k <=> l \in 1..(k - 1) \/ l = k
      BY <1>1, <2>4
    <3> QED BY <3>1
  <2>7. x \in a[k] <=> x \in a[k - 1] \/ x = <<"blinding", Shared(secret, route, k)>>
    BY <1>2, <2>4
  <2>8. k \in T /\ ~(x \in a[k] <=> Has(k))
    OBVIOUS
  <2> HIDE DEF Has
  <2> QED BY <2>5, <2>6, <2>7, <2>8
<1>4. i \in 0..n
  BY DEF n
<1> QED BY <1>3, <1>4 DEF a

\* No two nodes of a route share the same with the sender, not even a node
\* that comes twice with itself.
LEMMA SharedDistinct ==
  ASSUME NEW route \in Seq(Node), NEW secret, IsSecret(secret),
         NEW i \in 1..Len(route), NEW j \in 1..Len(route), i # j
  PROVE  Shared(secret, route, i) # Shared(secret, route, j)
<1> DEFINE n == Len(route)
           S(l) == Shared(secret, route, l)
           T == {k \in 1..n : \E l \in 1..n : l < k /\ S(l) = S(k)}
<1>1. n \in Nat
  OBVIOUS
<1>2. ASSUME NEW k \in 1..n, NEW l \in 1..n
      PROVE  <<"blinding", S(l)>> \in S(k) <=> \E m \in 1..(k - 1) : S(l) = S(m)
  <2>1. k - 1 \in 0..Len(route)
    BY <1>1
  <2>2. <<"blinding", S(l)>> \notin secret
    BY DEF IsSecret
  <2>3. <<"blinding", S(l)>> \in Chain(secret, route)[k - 1] <=>
          \E m \in 1..(k - 1) : <<"blinding", S(l)>> = <<"blinding", S(m)>>
    <3> DEFINE q == k - 1
    <3>1. q \in 0..Len(route)
      BY <2>1
    <3> HIDE DEF S, q, T
    <3>2. \A x : x \in Chain(secret, route)[q] <=>
                   x \in secret \/ \E m \in 1..q : x = <<"blinding", Shared(secret, route, m)>>
      BY <3>1, ChainHas
    <3> QED BY <2>2, <3>2, ZenonT(60) DEF S, q
  <2>4. S(k) = Chain(secret, route)[k - 1] \cup {<<"node", route[k]>>}
    BY DEF Shared
  <2> HIDE DEF S
  <2> QED BY <2>3, <2>4
<1> HIDE DEF S, n
<1>3. ASSUME T # {} PROVE FALSE
  <2>1. T \subseteq Nat
    BY <1>1
  <2>2. PICK k \in T : \A m \in T : k <= m
    <3> HIDE DEF T
    <3> QED BY <1>3, <2>1, Least
  <2>3. PICK l \in 1..n : l < k /\ S(l) = S(k)
    OBVIOUS
  <2>4. k \in 1..n /\ l \in 1..(k - 1)
    BY <1>1, <2>3
  <2>5. <<"blinding", S(l)>> \in S(k)
    BY <1>2, <2>4
  <2>6. <<"blinding", S(l)>> \in S(l)
    BY <2>3, <2>5
  <2>7. PICK m \in 1..(l - 1) : S(l) = S(m)
    BY <1>2, <2>6
  <2>8. m \in 1..n /\ m < l
    BY <1>1, <2>4
  <2>9. l \in T /\ l < k
    BY <2>3, <2>7, <2>8
  <2> QED BY <1>1, <2>2, <2>4, <2>9
<1>4. i \in 1..n /\ j \in 1..n /\ (i < j \/ j < i)
  BY <1>1 DEF n
<1> QED BY <1>3, <1>4 DEF S

\* What a node would share with the sender.
Derived(secret, route, i, node) == Chain(secret, route)[i - 1] \cup {<<"node", node>>}

\* Who is not the route's next node does not share what that one shares.
LEMMA NodeIsShared ==
  ASSUME NEW route \in Seq(Node), NEW secret, IsSecret(secret), NEW i \in 1..Len(route),
         NEW node
  PROVE  Derived(secret, route, i, node) = Shared(secret, route, i) <=> node = route[i]
<1> DEFINE b == Derived(secret, route, i, node)
<1>1. i - 1 \in 0..Len(route)
  OBVIOUS
<1>2. <<"node", node>> \notin Chain(secret, route)[i - 1]
  <2>1. <<"node", node>> \notin secret
    BY DEF IsSecret
  <2>2. \A l \in 1..(i - 1) : <<"node", node>> # <<"blinding", Shared(secret, route, l)>>
    OBVIOUS
  <2> QED BY <1>1, <2>1, <2>2, ChainHas
<1>3. <<"node", node>> \in b /\ (b = Shared(secret, route, i) => <<"node", node>> = <<"node", route[i]>>)
  BY <1>2 DEF Shared, Derived
<1> QED BY <1>3 DEF Shared, Derived

\* A secret tells which initial secret it comes from and what nodes it has
\* passed.
LEMMA ChainTells ==
  ASSUME NEW route \in Seq(Node), NEW secret, IsSecret(secret), NEW i \in 0..Len(route),
         NEW other \in Seq(Node), NEW other_secret, IsSecret(other_secret), NEW j \in 0..Len(other),
         Chain(secret, route)[i] = Chain(other_secret, other)[j]
  PROVE  secret = other_secret /\ i = j /\ \A l \in 1..i : route[l] = other[l]
<1>0. \A l \in 1..Len(route) : \A x :
        Derived(secret, route, l, x) = Shared(secret, route, l) => x = route[l]
  BY NodeIsShared
<1> DEFINE S(l) == Shared(secret, route, l)
           R(l) == Shared(other_secret, other, l)
           B(shared) == <<"blinding", shared>>
<1>1. ASSUME NEW k \in 0..Len(route), NEW x
      PROVE  x \in Chain(secret, route)[k] <=> x \in secret \/ \E l \in 1..k : x = B(S(l))
  BY ChainHas
<1>2. ASSUME NEW k \in 0..Len(other), NEW x
      PROVE  x \in Chain(other_secret, other)[k] <=> x \in other_secret \/ \E l \in 1..k : x = B(R(l))
  BY ChainHas
<1>3. \A shared : B(shared) \notin secret /\ B(shared) \notin other_secret
  BY DEF IsSecret
<1>4. secret = other_secret
  <2>1. ASSUME NEW x PROVE x \in secret <=> x \in Chain(secret, route)[i] /\ x[1] = "secret"
    <3>1. x \in secret => x[1] = "secret"
      BY DEF IsSecret
    <3>2. \A l \in 1..i : x = B(S(l)) => x[1] # "secret"
      OBVIOUS
    <3> HIDE DEF B, S
    <3> QED BY <1>1, <3>1, <3>2
  <2>2. ASSUME NEW x
        PROVE  x \in other_secret <=> x \in Chain(other_secret, other)[j] /\ x[1] = "secret"
    <3>1. x \in other_secret => x[1] = "secret"
      BY DEF IsSecret
    <3>2. \A l \in 1..j : x = B(R(l)) => x[1] # "secret"
      OBVIOUS
    <3> HIDE DEF B, R
    <3> QED BY <1>2, <3>1, <3>2
  <2>3. \A x : x \in secret <=> x \in other_secret
    BY <2>1, <2>2
  <2> QED BY <2>3
<1>5. ASSUME NEW k \in 0..Len(route), NEW shared
      PROVE  B(shared) \in Chain(secret, route)[k] <=> \E l \in 1..k : shared = S(l)
  BY <1>1, <1>3
<1>6. ASSUME NEW k \in 0..Len(other), NEW shared
      PROVE  B(shared) \in Chain(other_secret, other)[k] <=> \E l \in 1..k : shared = R(l)
  BY <1>2, <1>3
<1>7. /\ Len(route) \in Nat /\ Len(other) \in Nat
      /\ \A l, m \in 1..Len(route) : S(l) = S(m) => l = m
      /\ \A l, m \in 1..Len(other) : R(l) = R(m) => l = m
  BY SharedDistinct
<1>8. /\ \A l \in 1..i : \E m \in 1..j : S(l) = R(m)
      /\ \A m \in 1..j : \E l \in 1..i : R(m) = S(l)
  <2>0. i \in 0..Len(route) /\ j \in 0..Len(other) /\ Chain(secret, route)[i] = Chain(other_secret, other)[j]
    OBVIOUS
  <2> HIDE DEF S, R, B
  <2>1. ASSUME NEW l \in 1..i PROVE \E m \in 1..j : S(l) = R(m)
    <3>1. B(S(l)) \in Chain(secret, route)[i]
      BY <1>5, <2>0
    <3> QED BY <1>6, <2>0, <3>1
  <2>2. ASSUME NEW m \in 1..j PROVE \E l \in 1..i : R(m) = S(l)
    <3>1. B(R(m)) \in Chain(other_secret, other)[j]
      BY <1>6, <2>0
    <3> QED BY <1>5, <2>0, <3>1
  <2> QED BY <2>1, <2>2
<1>9. /\ \A k \in 1..Len(route) : S(k) = Chain(secret, route)[k - 1] \cup {<<"node", route[k]>>}
      /\ \A k \in 1..Len(other) : R(k) = Chain(other_secret, other)[k - 1] \cup {<<"node", other[k]>>}
  BY DEF Shared
<1> DEFINE T == {l \in 1..i : l <= j /\ S(l) # R(l)}
<1> HIDE DEF S, R
<1>10. ASSUME T # {} PROVE FALSE
  <2>1. T \subseteq Nat
    OBVIOUS
  <2>2. PICK l \in T : \A k \in T : l <= k
    <3> HIDE DEF T
    <3> QED BY <1>10, <2>1, Least
  <2>3. /\ l \in 1..i /\ l \in 1..j /\ S(l) # R(l) /\ l - 1 \in 0..Len(route) /\ l - 1 \in 0..Len(other)
        /\ l \in 1..Len(route) /\ l \in 1..Len(other) /\ i \in Nat /\ j \in Nat
    BY <1>7
  <2>4. \A k \in 1..(l - 1) : S(k) = R(k)
    <3>1. ASSUME NEW k \in 1..(l - 1), S(k) # R(k) PROVE FALSE
      <4>1. k \in 1..i /\ k <= j /\ ~(l <= k)
        BY <2>3
      <4> QED BY <2>2, <3>1, <4>1
    <3> QED BY <3>1
  <2>5. PICK m \in 1..j : S(l) = R(m)
    BY <1>8, <2>3
  <2>6. m # l
    BY <2>3, <2>5
  <2>7. ~(m < l)
    <3> SUFFICES ASSUME m < l PROVE FALSE
      OBVIOUS
    <3>1. m \in 1..(l - 1) /\ m \in 1..Len(route)
      BY <1>7, <2>3
    <3>2. S(m) = S(l)
      BY <2>4, <2>5, <3>1
    <3> QED BY <1>7, <2>3, <2>6, <3>1, <3>2
  <2>8. l \in 1..(m - 1) /\ m \in 1..Len(other) /\ m - 1 \in 0..Len(other)
    BY <1>7, <2>3, <2>6, <2>7
  <2>9. B(R(l)) \in R(m)
    <3>1. B(R(l)) \in Chain(other_secret, other)[m - 1]
      <4> HIDE DEF B
      <4> QED BY <1>6, <2>8
    <3> QED BY <1>9, <2>8, <3>1
  <2>10. B(R(l)) \in Chain(secret, route)[l - 1]
    <3>1. S(l) = Chain(secret, route)[l - 1] \cup {<<"node", route[l]>>}
      BY <1>9, <2>3
    <3> QED BY <2>5, <2>9, <3>1
  <2>11. PICK k \in 1..(l - 1) : R(l) = S(k)
    <3> HIDE DEF B
    <3> QED BY <1>5, <2>3, <2>10
  <2>12. R(l) = R(k) /\ k \in 1..Len(other) /\ k # l
    BY <2>3, <2>4, <2>11
  <2> QED BY <1>7, <2>3, <2>12
<1>11. \A l \in 1..i : l <= j => S(l) = R(l)
  BY <1>10
<1>12. i = j
  <2>0. i \in Nat /\ j \in Nat
    OBVIOUS
  <2>1. ASSUME i < j PROVE FALSE
    <3>1. i + 1 \in 1..j /\ i + 1 \in 1..Len(other)
      BY <2>0, <2>1, <1>7
    <3>2. PICK l \in 1..i : R(i + 1) = S(l)
      BY <1>8, <3>1
    <3>3. l <= j /\ l \in 1..Len(other) /\ l # i + 1
      BY <2>0, <2>1, <1>7
    <3>4. R(i + 1) = R(l)
      BY <1>11, <3>2, <3>3
    <3> QED BY <1>7, <3>1, <3>3, <3>4
  <2>2. ASSUME j < i PROVE FALSE
    <3>1. j + 1 \in 1..i /\ j + 1 \in 1..Len(route)
      BY <2>0, <2>2, <1>7
    <3>2. PICK m \in 1..j : S(j + 1) = R(m)
      BY <1>8, <3>1
    <3>3. m \in 1..i /\ m <= j /\ m \in 1..Len(route) /\ m # j + 1
      BY <2>0, <2>2, <1>7
    <3>4. S(j + 1) = S(m)
      BY <1>11, <3>2, <3>3
    <3> QED BY <1>7, <3>1, <3>3, <3>4
  <2> QED BY <2>0, <2>1, <2>2
<1>13. ASSUME NEW l \in 1..i PROVE route[l] = other[l]
  <2>1. l <= j /\ l \in 1..Len(route) /\ l \in 1..Len(other) /\ l - 1 \in 0..Len(route) /\ l - 1 \in 0..Len(other)
    BY <1>7, <1>12
  <2>2. S(l) = R(l)
    BY <1>11, <2>1
  <2>3. Chain(secret, route)[l - 1] = Chain(other_secret, other)[l - 1]
    <3>1. \A k \in 1..(l - 1) : S(k) = R(k)
      BY <1>11, <1>12
    <3>2. ASSUME NEW x
          PROVE  x \in Chain(secret, route)[l - 1] <=> x \in Chain(other_secret, other)[l - 1]
      <4>1. x \in Chain(secret, route)[l - 1] <=> x \in secret \/ \E k \in 1..(l - 1) : x = B(S(k))
        BY <1>1, <2>1
      <4>2. x \in Chain(other_secret, other)[l - 1] <=> x \in other_secret \/ \E k \in 1..(l - 1) : x = B(R(k))
        BY <1>2, <2>1
      <4> HIDE DEF B
      <4> QED BY <1>4, <3>1, <4>1, <4>2
    <3>3. \A x : x \in Chain(secret, route)[l - 1] <=> x \in Chain(other_secret, other)[l - 1]
      BY <3>2
    <3> QED BY <3>3
  <2>4. R(l) = Chain(secret, route)[l - 1] \cup {<<"node", other[l]>>}
    BY <1>9, <2>1, <2>3
  <2>5. Derived(secret, route, l, other[l]) = Shared(secret, route, l)
    BY <2>2, <2>4 DEF S, Derived
  <2> QED BY <1>0, <2>1, <2>5
<1> QED BY <1>4, <1>12, <1>13

-----------------------------------------------------------------------------
(* Cells.                                                                  *)

IsCell(c) == c = [text |-> c.text, pads |-> c.pads]

AreCells(cells, n) == IsString(cells, n) /\ \A i \in 1..n : IsCell(cells[i])

flip(c, pad) == [c EXCEPT !.pads = SymDiff(@, {pad})]

\* A pad applied twice removes itself, and a pad that was not there is added.
LEMMA Flipped ==
  ASSUME NEW c, NEW pad, IsCell(c)
  PROVE  /\ IsCell(flip(c, pad)) /\ flip(flip(c, pad), pad) = c
         /\ flip(c, pad).text = c.text
         /\ pad \notin c.pads => flip(c, pad).pads = c.pads \cup {pad}
<1>1. flip(c, pad) = [text |-> c.text, pads |-> SymDiff(c.pads, {pad})]
  BY DEF IsCell, flip
<1>2. SymDiff(SymDiff(c.pads, {pad}), {pad}) = c.pads
  BY DEF SymDiff
<1>3. pad \notin c.pads => SymDiff(c.pads, {pad}) = c.pads \cup {pad}
  BY DEF SymDiff
<1> DEFINE P == SymDiff(c.pads, {pad})
<1>4. flip(flip(c, pad), pad) = [text |-> c.text, pads |-> c.pads]
  <2> HIDE DEF P
  <2>1. flip([text |-> c.text, pads |-> P], pad) = [text |-> c.text, pads |-> SymDiff(P, {pad})]
    BY DEF flip
  <2> QED BY <1>1, <1>2, <2>1 DEF P
<1> HIDE DEF P
<1>5. /\ flip(c, pad) = [text |-> c.text, pads |-> P]
      /\ pad \notin c.pads => P = c.pads \cup {pad}
  BY <1>1, <1>3 DEF P
<1> QED BY <1>4, <1>5 DEF IsCell

\* A new cell has a text and no pads.
LEMMA CellIsCell == \A text : IsCell(cell(text)) /\ cell(text).text = text /\ cell(text).pads = {}
BY DEF cell, IsCell

\* What applying pads does to a string of cells.
LEMMA Xored ==
  ASSUME NEW n \in Nat, NEW cells, AreCells(cells, n), NEW pads
  PROVE  /\ xor(cells, pads) = [i \in 1..n |-> flip(cells[i], pads[i])]
         /\ AreCells(xor(cells, pads), n)
<1>1. DOMAIN cells = 1..n
  BY LenIs DEF AreCells
<1>2. xor(cells, pads) = [i \in 1..n |-> flip(cells[i], pads[i])]
  BY <1>1 DEF xor, flip
<1>3. \A i \in 1..n : IsCell(flip(cells[i], pads[i]))
  BY Flipped DEF AreCells
<1> QED BY <1>2, <1>3 DEF AreCells, IsString

\* Zeros are cells.
LEMMA Zeros ==
  ASSUME NEW n \in Nat
  PROVE  AreCells(zeros(n), n) /\ \A i \in 1..n : zeros(n)[i] = cell(<<"zero">>)
<1> DEFINE zero == cell(<<"zero">>)
<1>1. IsCell(zero) /\ zeros(n) = [i \in 1..n |-> zero]
  BY CellIsCell DEF zeros
<1> HIDE DEF zero
<1>2. AreCells(zeros(n), n) /\ \A i \in 1..n : zeros(n)[i] = zero
  BY <1>1 DEF AreCells, IsString
<1> QED BY <1>2 DEF zero

Joins(c, a, m, b, n) ==
  AreCells(c, m + n) /\ \A i \in 1..(m + n) : c[i] = IF i <= m THEN a[i] ELSE b[i - m]

\* Cells followed by cells.
LEMMA Joined ==
  ASSUME NEW m \in Nat, NEW n \in Nat, NEW a, NEW b, AreCells(a, m), AreCells(b, n)
  PROVE  Joins(a \o b, a, m, b, n)
<1>0. IsString(a, m) /\ IsString(b, n) /\ Len(a) = m /\ Len(b) = n
  BY LenIs DEF AreCells
<1> DEFINE c == a \o b
<1>2. /\ IsString(c, m + n)
      /\ \A i \in 1..(m + n) : c[i] = IF i <= m THEN a[i] ELSE b[i - m]
  BY <1>0, Concat
<1> HIDE DEF c
<1>3. ASSUME NEW i \in 1..(m + n) PROVE IsCell(c[i])
  <2>1. i <= m => i \in 1..m
    OBVIOUS
  <2>2. ~(i <= m) => i - m \in 1..n
    OBVIOUS
  <2> QED BY <1>2, <2>1, <2>2 DEF AreCells
<1>4. Joins(c, a, m, b, n)
  BY <1>2, <1>3 DEF AreCells, Joins
<1> QED BY <1>4 DEF c

\* The first cells.
LEMMA Taken ==
  ASSUME NEW m \in Nat, NEW a, AreCells(a, m), NEW k \in 0..m
  PROVE  AreCells(take(a, k), k) /\ \A i \in 1..k : take(a, k)[i] = a[i]
<1> DEFINE c == take(a, k)
<1>1. c = [i \in 1..(k - 1 + 1) |-> a[i + 1 - 1]]
  BY Part DEF AreCells, take
<1>2. c = [i \in 1..k |-> a[i]]
  BY <1>1
<1> HIDE DEF c
<1>3. ASSUME NEW i \in 1..k PROVE c[i] = a[i] /\ IsCell(c[i])
  <2>1. i \in 1..m
    OBVIOUS
  <2> QED BY <1>2, <2>1 DEF AreCells
<1> QED BY <1>2, <1>3 DEF AreCells, IsString, c

\* All but the first cells.
LEMMA Dropped ==
  ASSUME NEW m \in Nat, NEW a, AreCells(a, m), NEW k \in 0..m
  PROVE  AreCells(drop(a, k), m - k) /\ \A i \in 1..(m - k) : drop(a, k)[i] = a[i + k]
<1> DEFINE c == drop(a, k)
<1>1. Len(a) = m
  BY LenIs DEF AreCells
<1>2. c = [i \in 1..(m - (k + 1) + 1) |-> a[i + (k + 1) - 1]]
  BY <1>1, Part DEF AreCells, drop
<1>3. c = [i \in 1..(m - k) |-> a[i + k]]
  BY <1>2
<1> HIDE DEF c
<1>4. ASSUME NEW i \in 1..(m - k) PROVE c[i] = a[i + k] /\ IsCell(c[i])
  <2>1. i + k \in 1..m
    OBVIOUS
  <2> QED BY <1>3, <2>1 DEF AreCells
<1> QED BY <1>3, <1>4 DEF AreCells, IsString, c

\* Sizes of headers.
LEMMA Sizes ==
  /\ MAX_PATH_LENGTH \in Nat
  /\ NODE_META_INFO_SIZE = 2 /\ HEADER_INTEGRITY_MAC_SIZE = 1 /\ FILLER_STEP_SIZE_INCREASE = 3
  /\ ENCRYPTED_ROUTING_INFO_SIZE = 3 * MAX_PATH_LENGTH
  /\ TRUNCATED_ROUTING_INFO_SIZE = 3 * MAX_PATH_LENGTH - 3
  /\ STREAM_CIPHER_OUTPUT_LENGTH = 3 * MAX_PATH_LENGTH + 3
  /\ HEADER_SIZE = 3 * MAX_PATH_LENGTH + 2
BY PathAssumption DEF NODE_META_INFO_SIZE, HEADER_INTEGRITY_MAC_SIZE, FILLER_STEP_SIZE_INCREASE,
  ENCRYPTED_ROUTING_INFO_SIZE, TRUNCATED_ROUTING_INFO_SIZE, STREAM_CIPHER_OUTPUT_LENGTH, HEADER_SIZE

\* The stream of a key, its beginning and its end.
LEMMA Stream ==
  ASSUME NEW key, NEW k \in 0..(3 * MAX_PATH_LENGTH + 3)
  PROVE  LET stream == generate_pseudorandom_bytes(key)
             N == 3 * MAX_PATH_LENGTH + 3
         IN  /\ \A i \in 1..N : stream[i] = <<key, i>>
             /\ \A i \in 1..k : take(stream, k)[i] = <<key, i>>
             /\ Len(stream) = N
             /\ \A i \in 1..k : drop(stream, N - k)[i] = <<key, N - k + i>>
<1> DEFINE stream == generate_pseudorandom_bytes(key)
           N == 3 * MAX_PATH_LENGTH + 3
<1>1. N \in Nat /\ k \in 0..N
  BY Sizes
<1>2. stream = [i \in 1..N |-> <<key, 0 + i>>]
  BY Sizes DEF generate_pseudorandom_bytes, keystream
<1> HIDE DEF N, stream
<1>3. stream = [i \in 1..N |-> <<key, i>>]
  BY <1>1, <1>2
<1>4. IsString(stream, N)
  BY <1>3 DEF IsString
<1>5. Len(stream) = N
  BY <1>1, <1>4, LenIs
<1>6. take(stream, k) = [i \in 1..(k - 1 + 1) |-> stream[i + 1 - 1]]
  BY <1>1, <1>4, Part DEF take
<1>7. drop(stream, N - k) = [i \in 1..(N - (N - k + 1) + 1) |-> stream[i + (N - k + 1) - 1]]
  <2>1. N - k + 1 \in 1..(N + 1) /\ N \in (N - k + 1 - 1)..N
    BY <1>1
  <2>2. SubSeq(stream, N - k + 1, N) = [i \in 1..(N - (N - k + 1) + 1) |-> stream[i + (N - k + 1) - 1]]
    BY <1>1, <1>4, <2>1, Part
  <2> QED BY <1>5, <2>2 DEF drop
<1>8. \A i \in 1..k : take(stream, k)[i] = <<key, i>>
  <2> TAKE i \in 1..k
  <2>1. i \in 1..(k - 1 + 1) /\ i + 1 - 1 = i /\ i \in 1..N
    BY <1>1
  <2> QED BY <1>3, <1>6, <2>1
<1>9. \A i \in 1..k : drop(stream, N - k)[i] = <<key, N - k + i>>
  <2> TAKE i \in 1..k
  <2>1. i \in 1..(N - (N - k + 1) + 1) /\ i + (N - k + 1) - 1 = N - k + i /\ N - k + i \in 1..N
    BY <1>1
  <2> QED BY <1>3, <1>7, <2>1
<1> QED BY <1>3, <1>5, <1>8, <1>9 DEF N, stream

-----------------------------------------------------------------------------
(* The sender's part of a header.                                          *)

\* One step of the filler.
LEMMA FillStepIs ==
  ASSUME NEW i \in 1..(MAX_PATH_LENGTH + 1), NEW f, AreCells(f, 3 * (i - 1)), NEW keys
  PROVE  /\ AreCells(FillStep(f, i, keys), 3 * i)
         /\ \A p \in 1..(3 * i) :
              FillStep(f, i, keys)[p]
                = flip(IF p <= 3 * (i - 1) THEN f[p] ELSE cell(<<"zero">>),
                       <<keys[i]["stream_cipher"], (3 * MAX_PATH_LENGTH + 3) - 3 * i + p>>)
<1> DEFINE key == keys[i]["stream_cipher"]
           N == 3 * MAX_PATH_LENGTH + 3
           m == 3 * (i - 1)
           k == 3 * i
           a == f \o zeros(3)
           pads == drop(generate_pseudorandom_bytes(key), N - k)
<1>1. m \in Nat /\ k \in Nat /\ m + 3 = k /\ k \in 0..N /\ 3 \in Nat /\ N \in Nat
  BY Sizes
<1>2. FillStep(f, i, keys) = xor(a, pads)
  <2>1. Len(generate_pseudorandom_bytes(key)) = N
    BY <1>1, Stream
  <2>2. i * FILLER_STEP_SIZE_INCREASE = k
    BY Sizes
  <2> QED BY <2>1, <2>2, Sizes DEF FillStep, filler_step
<1>3. \A p \in 1..k : pads[p] = <<key, N - k + p>>
  <2> HIDE DEF key
  <2> QED BY <1>1, Stream
<1> HIDE DEF key, N, m, k, pads
<1>4. AreCells(f, m) /\ AreCells(zeros(3), 3)
  BY <1>1, Zeros DEF m
<1>5. AreCells(a, k) /\ \A p \in 1..k : a[p] = IF p <= m THEN f[p] ELSE cell(<<"zero">>)
  <2> DEFINE z == zeros(3)
             zero == cell(<<"zero">>)
  <2>1. \A p \in 1..3 : z[p] = zero
    BY Zeros
  <2>2. AreCells(f, m) /\ AreCells(z, 3)
    BY <1>4
  <2> HIDE DEF z, zero
  <2> DEFINE c == f \o z
  <2>3. Joins(c, f, m, z, 3)
    BY <1>1, <2>2, Joined
  <2> HIDE DEF c
  <2>4. AreCells(c, k) /\ \A p \in 1..k : c[p] = IF p <= m THEN f[p] ELSE z[p - m]
    BY <1>1, <2>3 DEF Joins
  <2>5. ASSUME NEW p \in 1..k PROVE c[p] = IF p <= m THEN f[p] ELSE zero
    <3>1. ~(p <= m) => p - m \in 1..3
      BY <1>1
    <3> QED BY <2>1, <2>4, <3>1
  <2> QED BY <2>4, <2>5 DEF c, z, zero
<1> HIDE DEF a
<1>6. AreCells(xor(a, pads), k) /\ \A p \in 1..k : xor(a, pads)[p] = flip(a[p], pads[p])
  BY <1>1, <1>5, Xored
<1>7. \A p \in 1..k : xor(a, pads)[p] = flip(IF p <= m THEN f[p] ELSE cell(<<"zero">>), <<key, N - k + p>>)
  BY <1>3, <1>5, <1>6
<1>8. /\ AreCells(FillStep(f, i, keys), k)
      /\ \A p \in 1..k : FillStep(f, i, keys)[p]
                           = flip(IF p <= m THEN f[p] ELSE cell(<<"zero">>), <<key, N - k + p>>)
  BY <1>2, <1>6, <1>7
<1> QED BY <1>8 DEF key, N, m, k

\* The fillers, from the empty one on.
IsFiller(f, keys, m) == f[0] = <<>> /\ \A i \in 1..m : f[i] = FillStep(f[i - 1], i, keys)

\* Every step makes the filler a block longer.
LEMMA FillerCells ==
  ASSUME NEW m \in 0..(MAX_PATH_LENGTH + 1), NEW keys, NEW f, IsFiller(f, keys, m)
  PROVE  \A i \in 0..m : AreCells(f[i], 3 * i)
<1> DEFINE T == {i \in 0..m : ~AreCells(f[i], 3 * i)}
<1>1. ASSUME T # {} PROVE FALSE
  <2>1. T \subseteq Nat
    BY Sizes
  <2>2. PICK i \in T : \A j \in T : i <= j
    <3> HIDE DEF T
    <3> QED BY <1>1, <2>1, Least
  <2>3. i # 0
    <3>1. AreCells(<<>>, 0)
      BY DEF AreCells, IsString
    <3> QED BY <3>1 DEF IsFiller
  <2>4. i \in 1..m /\ i - 1 \in 0..m /\ ~(i <= i - 1) /\ i \in 1..(MAX_PATH_LENGTH + 1)
    BY <2>3, Sizes
  <2>5. AreCells(f[i - 1], 3 * (i - 1))
    BY <2>2, <2>4
  <2> DEFINE g == f[i - 1]
  <2>6. AreCells(g, 3 * (i - 1)) /\ f[i] = FillStep(g, i, keys)
    BY <2>4, <2>5 DEF IsFiller
  <2> HIDE DEF g
  <2>7. AreCells(f[i], 3 * i)
    BY <2>4, <2>6, FillStepIs
  <2> QED BY <2>7
<1> QED BY <1>1

\* How many cells of a header are not yet the filler, before node i.
Own(i) == 3 * MAX_PATH_LENGTH - 3 * (i - 1)

IsPadded(padded, n, final) ==
  /\ AreCells(padded, Own(n))
  /\ padded[1] = cell(<<"final", final.address>>)
  /\ padded[2] = cell(<<"identifier", final.identifier>>)
  /\ \A p \in 1..Own(n) : padded[p].pads = {} /\ padded[p].text # <<"zero">>

IsLastLayer(h, e, keys, f, n, padded) ==
  /\ AreCells(e, 3 * MAX_PATH_LENGTH)
  /\ h = [integrity_mac           |-> HeaderIntegrityMac(keys["integrity_mac"], e),
          enc_routing_information |-> e]
  /\ \A p \in 1..(3 * MAX_PATH_LENGTH) :
       e[p] = IF p <= Own(n) THEN flip(padded[p], <<keys["stream_cipher"], p>>) ELSE f[p - Own(n)]

\* The layer for the last node: flag and address, identifier and padding under
\* its key, and the filler.
LEMMA LastLayer ==
  ASSUME NEW n \in 1..MAX_PATH_LENGTH, NEW f, AreCells(f, 3 * (n - 1)), NEW keys, NEW final
  PROVE  /\ IsPadded(add_padding(final, n), n, final)
         /\ IsLastLayer(for_final_hop(final, keys, f, n),
                        for_final_hop(final, keys, f, n).enc_routing_information,
                        keys, f, n, add_padding(final, n))
<1> DEFINE M == 3 * MAX_PATH_LENGTH
           k == Own(n)
           padded == add_padding(final, n)
           key == keys["stream_cipher"]
           enc == encrypt(padded, key)
           e == enc \o f
           first == <<cell(<<"final", final.address>>), cell(<<"identifier", final.identifier>>)>>
           r == random(k - 2)
<1>1. k \in Nat /\ k >= 3 /\ k - 2 \in Nat /\ M \in Nat /\ 3 * (n - 1) \in Nat /\ k + 3 * (n - 1) = M /\ 2 \in Nat
      /\ k \in 0..(M + 3) /\ 2 + (k - 2) = k
  BY Sizes DEF Own
<1>2. padding_length(n) = k - 2
  BY Sizes DEF padding_length, FINAL_NODE_META_INFO_LENGTH, Own
<1>3. padded = first \o r
  BY <1>2 DEF add_padding
<1> HIDE DEF k
<1>4. AreCells(first, 2) /\ \A p \in 1..2 : first[p].pads = {} /\ first[p].text # <<"zero">>
  <2>1. first = [p \in 1..2 |-> first[p]]
    OBVIOUS
  <2>2. \A p \in 1..2 : p = 1 \/ p = 2
    OBVIOUS
  <2>3. first[1] = cell(<<"final", final.address>>) /\ first[2] = cell(<<"identifier", final.identifier>>)
    OBVIOUS
  <2>4. <<"final", final.address>> # <<"zero">> /\ <<"identifier", final.identifier>> # <<"zero">>
    OBVIOUS
  <2>5. \A p \in 1..2 : IsCell(first[p]) /\ first[p].pads = {} /\ first[p].text # <<"zero">>
    <3> HIDE DEF first
    <3> QED BY <2>2, <2>3, <2>4, CellIsCell
  <2> HIDE DEF first
  <2> QED BY <2>1, <2>5 DEF AreCells, IsString
<1>5. AreCells(r, k - 2) /\ \A p \in 1..(k - 2) : r[p].pads = {} /\ r[p].text # <<"zero">>
  <2>1. r = [p \in 1..(k - 2) |-> cell(<<"random", p>>)]
    BY DEF random
  <2>2. \A p : <<"random", p>> # <<"zero">>
    OBVIOUS
  <2> HIDE DEF r
  <2>3. \A p \in 1..(k - 2) : IsCell(r[p]) /\ r[p].pads = {} /\ r[p].text # <<"zero">>
    BY <2>1, <2>2, CellIsCell
  <2> QED BY <2>1, <2>3 DEF AreCells, IsString
<1>6. first[1] = cell(<<"final", final.address>>) /\ first[2] = cell(<<"identifier", final.identifier>>)
  OBVIOUS
<1> HIDE DEF first, r
<1>7. Joins(padded, first, 2, r, k - 2)
  <2> DEFINE l == k - 2
  <2>1. l \in Nat /\ AreCells(r, l)
    BY <1>1, <1>5
  <2> HIDE DEF l, padded
  <2>2. Joins(first \o r, first, 2, r, l)
    BY <1>1, <1>4, <2>1, Joined
  <2> QED BY <1>3, <2>2 DEF l
<1>8. AreCells(padded, k) /\ \A p \in 1..k : padded[p] = IF p <= 2 THEN first[p] ELSE r[p - 2]
  <2> HIDE DEF padded
  <2> QED BY <1>1, <1>7 DEF Joins
<1> HIDE DEF padded
<1>9. padded[1] = cell(<<"final", final.address>>) /\ padded[2] = cell(<<"identifier", final.identifier>>)
  <2>1. 1 \in 1..k /\ 2 \in 1..k
    BY <1>1
  <2> QED BY <1>6, <1>8, <2>1
<1>10. ASSUME NEW p \in 1..k PROVE padded[p].pads = {} /\ padded[p].text # <<"zero">>
  <2>1. p <= 2 => p \in 1..2
    BY <1>1
  <2>2. ~(p <= 2) => p - 2 \in 1..(k - 2)
    BY <1>1
  <2> QED BY <1>4, <1>5, <1>8, <2>1, <2>2
<1>11. AreCells(enc, k) /\ \A p \in 1..k : enc[p] = flip(padded[p], <<key, p>>)
  <2> DEFINE pads == take(generate_pseudorandom_bytes(key), k)
  <2>1. Len(padded) = k
    BY <1>1, <1>8, LenIs DEF AreCells
  <2>2. enc = xor(padded, pads)
    BY <2>1 DEF encrypt
  <2>3. \A p \in 1..k : pads[p] = <<key, p>>
    <3> HIDE DEF key
    <3> QED BY <1>1, Stream DEF M
  <2> HIDE DEF pads
  <2>4. AreCells(xor(padded, pads), k) /\ \A p \in 1..k : xor(padded, pads)[p] = flip(padded[p], pads[p])
    BY <1>1, <1>8, Xored
  <2> HIDE DEF enc
  <2> QED BY <2>2, <2>3, <2>4
<1> HIDE DEF enc
<1> DEFINE l == 3 * (n - 1)
<1>12. AreCells(e, M) /\ \A p \in 1..M : e[p] = IF p <= k THEN enc[p] ELSE f[p - k]
  <2>1. l \in Nat /\ k + l = M /\ AreCells(f, l)
    BY <1>1
  <2> HIDE DEF l, M
  <2>2. Joins(e, enc, k, f, l)
    BY <1>1, <1>11, <2>1, Joined
  <2> HIDE DEF e
  <2> QED BY <2>1, <2>2 DEF Joins
<1>13. for_final_hop(final, keys, f, n)
         = [integrity_mac |-> HeaderIntegrityMac(keys["integrity_mac"], e), enc_routing_information |-> e]
  BY DEF for_final_hop, encapsulate_with_mac, enc, padded
<1> HIDE DEF e, l
<1>14. for_final_hop(final, keys, f, n).enc_routing_information = e
  BY <1>13
<1>15. ASSUME NEW p \in 1..M PROVE e[p] = IF p <= k THEN flip(padded[p], <<key, p>>) ELSE f[p - k]
  <2>1. p <= k => p \in 1..k
    BY <1>1
  <2> QED BY <1>11, <1>12, <2>1
<1> HIDE DEF M
<1>16. IsPadded(padded, n, final)
  BY <1>8, <1>9, <1>10 DEF IsPadded, k
<1>17. IsLastLayer(for_final_hop(final, keys, f, n), e, keys, f, n, padded)
  BY <1>12, <1>13, <1>15 DEF IsLastLayer, k, M
<1> QED BY <1>14, <1>16, <1>17 DEF padded

IsRouting(next) ==
  AreCells(next.enc_routing_information, 3 * MAX_PATH_LENGTH) /\ IsCell(next.integrity_mac)

IsInfo(info, node, delay, next) ==
  /\ AreCells(info, 3 * MAX_PATH_LENGTH)
  /\ info[1] = cell(<<"forward", node>>) /\ info[2] = cell(<<"delay", delay>>)
  /\ info[3] = next.integrity_mac
  /\ \A p \in 4..(3 * MAX_PATH_LENGTH) : info[p] = next.enc_routing_information[p - 3]

\* What a node that is not the last is told.
LEMMA InfoIs ==
  ASSUME NEW node, NEW delay, NEW next, MAX_PATH_LENGTH \in Nat \ {0}, IsRouting(next)
  PROVE  IsInfo(RoutingInformation(node, delay, next), node, delay, next)
<1> DEFINE M == 3 * MAX_PATH_LENGTH
           e == next.enc_routing_information
           first == <<cell(<<"forward", node>>), cell(<<"delay", delay>>), next.integrity_mac>>
           cut == truncate(e)
           l == M - 3
           info == first \o cut
<1>1. M \in Nat /\ l \in 0..M /\ l \in Nat /\ 3 + l = M /\ 3 \in Nat /\ M >= 3
  OBVIOUS
<1>2. RoutingInformation(node, delay, next) = info
  BY DEF RoutingInformation
<1>3. cut = take(e, l)
  BY Sizes DEF truncate
<1> HIDE DEF M, l, cut
<1>4. AreCells(cut, l) /\ \A p \in 1..l : cut[p] = e[p]
  <2>1. AreCells(e, M)
    BY DEF M, IsRouting
  <2> HIDE DEF e
  <2> QED BY <1>1, <1>3, <2>1, Taken
<1>5. first[1] = cell(<<"forward", node>>) /\ first[2] = cell(<<"delay", delay>>)
      /\ first[3] = next.integrity_mac
  OBVIOUS
<1>6. AreCells(first, 3)
  <2>3. IsCell(next.integrity_mac)
    BY DEF IsRouting
  <2>1. first = [p \in 1..3 |-> first[p]]
    OBVIOUS
  <2>2. \A p \in 1..3 : p = 1 \/ p = 2 \/ p = 3
    OBVIOUS
  <2> HIDE DEF first
  <2> QED BY <1>5, <2>1, <2>2, <2>3, CellIsCell DEF AreCells, IsString
<1> HIDE DEF first
<1>7. Joins(info, first, 3, cut, l)
  BY <1>1, <1>4, <1>6, Joined
<1> HIDE DEF info
<1>8. AreCells(info, M) /\ \A p \in 1..M : info[p] = IF p <= 3 THEN first[p] ELSE cut[p - 3]
  BY <1>1, <1>7 DEF Joins
<1>9. info[1] = first[1] /\ info[2] = first[2] /\ info[3] = first[3]
  <2>1. 1 \in 1..M /\ 2 \in 1..M /\ 3 \in 1..M
    BY <1>1
  <2> QED BY <1>8, <2>1
<1>10. ASSUME NEW p \in 4..M PROVE info[p] = e[p - 3]
  <2>1. p \in 1..M /\ ~(p <= 3) /\ p - 3 \in 1..l
    BY <1>1
  <2> QED BY <1>4, <1>8, <2>1
<1>11. IsInfo(info, node, delay, next)
  BY <1>5, <1>8, <1>9, <1>10 DEF M, e, IsInfo
<1> QED BY <1>2, <1>11

\* A layer: what it is for a node, as it is encrypted, and the MAC.
IsLayer(h, keys, info) ==
  /\ AreCells(h.enc_routing_information, 3 * MAX_PATH_LENGTH)
  /\ AreCells(info, 3 * MAX_PATH_LENGTH)
  /\ h = [integrity_mac           |-> HeaderIntegrityMac(keys["integrity_mac"], h.enc_routing_information),
          enc_routing_information |-> h.enc_routing_information]
  /\ \A p \in 1..(3 * MAX_PATH_LENGTH) :
       h.enc_routing_information[p] = flip(info[p], <<keys["stream_cipher"], p>>)

\* The layer for a node that is not the last.
LEMMA HopLayer ==
  ASSUME NEW i, NEW delays, NEW route, NEW keys, NEW next, MAX_PATH_LENGTH \in Nat \ {0}, IsRouting(next)
  PROVE  IsLayer(HopStep(next, i, delays, route, keys), keys[i],
                 RoutingInformation(route[i + 1], delays[i], next))
<1> DEFINE M == 3 * MAX_PATH_LENGTH
           info == RoutingInformation(route[i + 1], delays[i], next)
           key == keys[i]["stream_cipher"]
           pads == take(generate_pseudorandom_bytes(key), M)
           e == xor(info, pads)
           h == HopStep(next, i, delays, route, keys)
<1>1. M \in Nat /\ M \in 0..(M + 3)
  OBVIOUS
<1>2. AreCells(info, M)
  <2> DEFINE node == route[i + 1]
             delay == delays[i]
  <2> HIDE DEF node, delay
  <2>1. IsInfo(RoutingInformation(node, delay, next), node, delay, next)
    BY InfoIs
  <2> QED BY <2>1 DEF node, delay, IsInfo
<1> HIDE DEF info
<1>3. \A p \in 1..M : pads[p] = <<key, p>>
  <2> HIDE DEF key
  <2> QED BY <1>1, Stream
<1>4. encrypt(info, key) = e
  <2>1. Len(info) = M
    BY <1>1, <1>2, LenIs DEF AreCells
  <2> QED BY <2>1 DEF encrypt
<1> HIDE DEF pads, M
<1>5. AreCells(e, M) /\ \A p \in 1..M : e[p] = flip(info[p], pads[p])
  BY <1>1, <1>2, Xored
<1> HIDE DEF e
<1>6. h = [integrity_mac |-> HeaderIntegrityMac(keys[i]["integrity_mac"], e), enc_routing_information |-> e]
  BY <1>4 DEF HopStep, encapsulate_with_mac, info
<1> HIDE DEF h
<1>7. h.enc_routing_information = e
  BY <1>6
<1>8. \A p \in 1..M : e[p] = flip(info[p], <<key, p>>)
  BY <1>3, <1>5
<1>9. IsLayer(h, keys[i], info)
  BY <1>2, <1>5, <1>6, <1>7, <1>8 DEF IsLayer, M
<1> QED BY <1>9 DEF h, info

\* What the last node is told; the filler is as its key makes it.
FinalInfo(plan, n, f) ==
  [p \in 1..(3 * MAX_PATH_LENGTH) |->
     IF p <= Own(n) THEN add_padding(plan.final, n)[p]
     ELSE flip(f[n - 1][p - Own(n)], <<plan.keys[n]["stream_cipher"], p>>)]

Info(plan, n, f, h, i) ==
  IF i = n THEN FinalInfo(plan, n, f)
  ELSE RoutingInformation(plan.route[i + 1], plan.delays[i], h[i + 1])

\* Fillers and layers as the sender makes them: a plan has the route, delays,
\* keys and destination.
AreLayers(plan, n, f, h) ==
  /\ IsFiller(f, plan.keys, n - 1)
  /\ h[n] = for_final_hop(plan.final, plan.keys[n], f[n - 1], n)
  /\ \A i \in 1..(n - 1) : h[i] = HopStep(h[i + 1], i, plan.delays, plan.route, plan.keys)

\* The last layer is one.
LEMMA FinalLayer ==
  ASSUME NEW n \in 1..MAX_PATH_LENGTH, NEW plan, NEW f, NEW h, AreLayers(plan, n, f, h)
  PROVE  IsLayer(h[n], plan.keys[n], FinalInfo(plan, n, f))
<1> DEFINE M == 3 * MAX_PATH_LENGTH
           k == Own(n)
           padded == add_padding(plan.final, n)
           key == plan.keys[n]["stream_cipher"]
           g == f[n - 1]
           e == h[n].enc_routing_information
           info == FinalInfo(plan, n, f)
<1>1. n - 1 \in 0..(n - 1) /\ n - 1 \in 0..(MAX_PATH_LENGTH + 1) /\ k \in 1..M /\ k + 3 * (n - 1) = M /\ M \in Nat
  BY Sizes DEF Own
<1>2. AreCells(g, 3 * (n - 1))
  <2> DEFINE m == n - 1
             keys == plan.keys
  <2>1. m \in 0..(MAX_PATH_LENGTH + 1) /\ m \in 0..m /\ IsFiller(f, keys, m)
    BY <1>1 DEF AreLayers
  <2> HIDE DEF m, keys
  <2>2. AreCells(f[m], 3 * m)
    BY <2>1, FillerCells
  <2> QED BY <2>2 DEF m
<1> DEFINE keys == plan.keys[n]
           final == plan.final
<1>3. h[n] = for_final_hop(final, keys, g, n)
  BY DEF AreLayers
<1> HIDE DEF g, keys, final
<1>4. /\ AreCells(e, M)
      /\ h[n] = [integrity_mac |-> HeaderIntegrityMac(keys["integrity_mac"], e), enc_routing_information |-> e]
      /\ AreCells(padded, k)
      /\ \A p \in 1..M : e[p] = IF p <= k THEN flip(padded[p], <<keys["stream_cipher"], p>>) ELSE g[p - k]
  <2> HIDE DEF e, padded
  <2>1. IsPadded(add_padding(final, n), n, final) /\ IsLastLayer(h[n], e, keys, g, n, add_padding(final, n))
    BY <1>2, <1>3, LastLayer DEF e
  <2>2. padded = add_padding(final, n)
    BY DEF padded, final
  <2>3. IsPadded(padded, n, final) /\ IsLastLayer(h[n], e, keys, g, n, padded)
    BY <2>1, <2>2
  <2> QED BY <2>3 DEF IsPadded, IsLastLayer
<1> HIDE DEF e, padded, M, k
<1>5. ASSUME NEW p \in 1..M
      PROVE  IsCell(info[p]) /\ e[p] = flip(info[p], <<key, p>>)
  <2>1. info[p] = IF p <= k THEN padded[p] ELSE flip(g[p - k], <<key, p>>)
    BY DEF FinalInfo, M, k, g, padded
  <2> HIDE DEF info, key
  <2>2. e[p] = IF p <= k THEN flip(padded[p], <<key, p>>) ELSE g[p - k]
    BY <1>4 DEF key, keys
  <2>3. CASE p <= k
    <3>1. p \in 1..k
      BY <1>1, <2>3
    <3>2. IsCell(padded[p])
      BY <1>4, <3>1 DEF AreCells
    <3> QED BY <2>1, <2>2, <2>3, <3>2
  <2>4. CASE ~(p <= k)
    <3>1. p - k \in 1..(3 * (n - 1))
      BY <1>1, <2>4
    <3>2. IsCell(g[p - k])
      BY <1>2, <3>1 DEF AreCells
    <3> DEFINE c == g[p - k]
               pad == <<key, p>>
    <3>3. info[p] = flip(c, pad) /\ e[p] = c /\ IsCell(c)
      BY <2>1, <2>2, <2>4, <3>2
    <3> HIDE DEF c, pad
    <3>4. IsCell(flip(c, pad)) /\ flip(flip(c, pad), pad) = c
      BY <3>3, Flipped
    <3>5. IsCell(info[p]) /\ e[p] = flip(info[p], pad)
      BY <3>3, <3>4
    <3> QED BY <3>5 DEF pad
  <2> QED BY <2>3, <2>4
<1>6. AreCells(info, M)
  <2>1. info = [p \in 1..M |-> info[p]]
    BY DEF FinalInfo, M
  <2> HIDE DEF info
  <2> QED BY <1>5, <2>1 DEF AreCells, IsString
<1> HIDE DEF info
<1>7. IsLayer(h[n], keys, info)
  <2>1. \A p \in 1..M : e[p] = flip(info[p], <<keys["stream_cipher"], p>>)
    BY <1>5 DEF keys
  <2> QED BY <1>4, <1>6, <2>1 DEF IsLayer, M, e
<1> QED BY <1>7 DEF keys, info

\* All layers are.
LEMMA LayersAre ==
  ASSUME NEW n \in 1..MAX_PATH_LENGTH, NEW plan, NEW f, NEW h, AreLayers(plan, n, f, h)
  PROVE  \A i \in 1..n : IsLayer(h[i], plan.keys[i], Info(plan, n, f, h, i))
<1> DEFINE Ok(i) == IsLayer(h[i], plan.keys[i], Info(plan, n, f, h, i))
           T == {m \in 0..(n - 1) : ~Ok(n - m)}
<1>1. Ok(n)
  BY FinalLayer DEF Info
<1>2. ASSUME NEW i \in 1..(n - 1), Ok(i + 1) PROVE Ok(i)
  <2> DEFINE next == h[i + 1]
             delays == plan.delays
             route == plan.route
             keys == plan.keys
             e == next.enc_routing_information
  <2>1. h[i] = HopStep(next, i, delays, route, keys) /\ i # n
    BY DEF AreLayers
  <2>2. AreCells(next.enc_routing_information, 3 * MAX_PATH_LENGTH) /\ IsCell(next.integrity_mac)
    <3> DEFINE k == keys[i + 1]["integrity_mac"]
    <3>1. AreCells(e, 3 * MAX_PATH_LENGTH)
          /\ next = [integrity_mac |-> HeaderIntegrityMac(k, e), enc_routing_information |-> e]
      BY <1>2 DEF IsLayer
    <3> HIDE DEF k, e
    <3>2. IsCell(HeaderIntegrityMac(k, e))
      BY CellIsCell DEF HeaderIntegrityMac
    <3>3. next.integrity_mac = HeaderIntegrityMac(k, e)
      BY <3>1
    <3> QED BY <3>1, <3>2, <3>3 DEF e
  <2>3. MAX_PATH_LENGTH \in Nat \ {0}
    BY Sizes
  <2> HIDE DEF next, delays, route, keys, Ok
  <2>4. IsLayer(HopStep(next, i, delays, route, keys), keys[i], RoutingInformation(route[i + 1], delays[i], next))
    BY <2>2, <2>3, HopLayer DEF IsRouting
  <2> QED BY <2>1, <2>4 DEF Info, Ok, next, delays, route, keys
<1> HIDE DEF Ok
<1>3. ASSUME T # {} PROVE FALSE
  <2>1. T \subseteq Nat
    BY Sizes
  <2>2. PICK m \in T : \A j \in T : m <= j
    <3> HIDE DEF T
    <3> QED BY <1>3, <2>1, Least
  <2>3. m # 0
    BY <1>1
  <2>4. m - 1 \in 0..(n - 1) /\ ~(m <= m - 1) /\ n - m \in 1..(n - 1) /\ n - m + 1 = n - (m - 1)
    BY <2>3
  <2>5. Ok(n - (m - 1))
    BY <2>2, <2>4
  <2>6. Ok(n - m + 1)
    BY <2>4, <2>5
  <2> QED BY <1>2, <2>4, <2>6
<1>4. ASSUME NEW i \in 1..n PROVE Ok(i)
  <2>1. n - i \in 0..(n - 1) /\ n - (n - i) = i
    OBVIOUS
  <2>2. Ok(n - (n - i))
    BY <1>3, <2>1
  <2> QED BY <2>1, <2>2
<1> QED BY <1>4 DEF Ok

\* A cell, and what it was before a pad was applied.
LEMMA FlipBack == \A c, pad : IsCell(c) => flip(flip(c, pad), pad) = c
BY Flipped

\* What follows a node's own cells is the filler of those before it.
LEMMA FillerFits ==
  ASSUME NEW n \in 1..MAX_PATH_LENGTH, NEW plan, NEW f, NEW h, AreLayers(plan, n, f, h)
  PROVE  \A i \in 1..n : \A q \in 1..(3 * (i - 1)) :
           h[i].enc_routing_information[Own(i) + q] = f[i - 1][q]
<1> DEFINE M == 3 * MAX_PATH_LENGTH
           e(i) == h[i].enc_routing_information
           Ok(i) == \A q \in 1..(3 * (i - 1)) : e(i)[Own(i) + q] = f[i - 1][q]
           T == {m \in 0..(n - 1) : ~Ok(n - m)}
           sc(i) == plan.keys[i]["stream_cipher"]
<1>1. M \in Nat /\ n \in Nat /\ n <= MAX_PATH_LENGTH /\ MAX_PATH_LENGTH \in Nat
  BY Sizes
<1>2. ASSUME NEW i \in 0..(n - 1) PROVE AreCells(f[i], 3 * i)
  <2> DEFINE m == n - 1
             keys == plan.keys
  <2>1. m \in 0..(MAX_PATH_LENGTH + 1) /\ i \in 0..m /\ IsFiller(f, keys, m)
    BY <1>1 DEF AreLayers
  <2> HIDE DEF m, keys
  <2> QED BY <2>1, FillerCells
<1>3. ASSUME NEW i \in 1..n, NEW p \in 1..M
      PROVE  e(i)[p] = flip(Info(plan, n, f, h, i)[p], <<sc(i), p>>)
  <2>1. IsLayer(h[i], plan.keys[i], Info(plan, n, f, h, i))
    BY LayersAre
  <2> QED BY <2>1 DEF IsLayer
<1>4. Ok(n)
  <2> SUFFICES ASSUME NEW q \in 1..(3 * (n - 1)) PROVE e(n)[Own(n) + q] = f[n - 1][q]
    OBVIOUS
  <2> DEFINE p == Own(n) + q
             c == f[n - 1][q]
             pad == <<sc(n), p>>
  <2>1. p \in 1..M /\ ~(p <= Own(n)) /\ p - Own(n) = q /\ n \in 1..n /\ n - 1 \in 0..(n - 1)
    BY <1>1 DEF Own
  <2>2. IsCell(c)
    BY <1>2, <2>1 DEF AreCells
  <2> HIDE DEF p, e, sc
  <2>3. e(n)[p] = flip(Info(plan, n, f, h, n)[p], pad)
    BY <1>3, <2>1
  <2>4. FinalInfo(plan, n, f)[p] = flip(c, pad)
    BY <2>1 DEF FinalInfo, M, sc
  <2> HIDE DEF c, pad
  <2>5. flip(flip(c, pad), pad) = c
    BY <2>2, FlipBack
  <2> QED BY <2>3, <2>4, <2>5 DEF c, p, Info
<1>5. ASSUME NEW i \in 1..(n - 1), Ok(i + 1) PROVE Ok(i)
  <2> SUFFICES ASSUME NEW q \in 1..(3 * (i - 1)) PROVE e(i)[Own(i) + q] = f[i - 1][q]
    OBVIOUS
  <2> DEFINE p == Own(i) + q
             c == f[i - 1][q]
             pad == <<sc(i), p>>
             info == Info(plan, n, f, h, i)
  <2>1. /\ p \in 4..M /\ p \in 1..M /\ p - 3 = Own(i + 1) + q /\ q \in 1..(3 * i) /\ i \in 1..n /\ i # n
        /\ i - 1 \in 0..(n - 1) /\ q <= 3 * (i - 1) /\ i \in 1..(MAX_PATH_LENGTH + 1)
        /\ (3 * MAX_PATH_LENGTH + 3) - 3 * i + q = p /\ i + 1 \in 1..n /\ i \in Nat
    BY <1>1 DEF Own
  <2>2. IsCell(c) /\ AreCells(f[i - 1], 3 * (i - 1))
    BY <1>2, <2>1 DEF AreCells
  <2>3. f[i][q] = flip(c, pad)
    <3> DEFINE g == f[i - 1]
               keys == plan.keys
    <3>1. f[i] = FillStep(g, i, keys)
      BY DEF AreLayers, IsFiller
    <3>2. AreCells(g, 3 * (i - 1))
      BY <2>2
    <3> HIDE DEF g, keys
    <3>3. FillStep(g, i, keys)[q]
            = flip(IF q <= 3 * (i - 1) THEN g[q] ELSE cell(<<"zero">>),
                   <<keys[i]["stream_cipher"], (3 * MAX_PATH_LENGTH + 3) - 3 * i + q>>)
      BY <2>1, <3>2, FillStepIs
    <3> QED BY <2>1, <3>1, <3>3 DEF g, keys
  <2> HIDE DEF p
  <2>4. info[p] = e(i + 1)[p - 3]
    <3> DEFINE next == h[i + 1]
               node == plan.route[i + 1]
               delay == plan.delays[i]
               keys == plan.keys[i + 1]
               mac == HeaderIntegrityMac(keys["integrity_mac"], next.enc_routing_information)
    <3>1. IsLayer(next, keys, Info(plan, n, f, h, i + 1))
      BY <2>1, LayersAre
    <3>2. info = RoutingInformation(node, delay, next)
      BY <2>1 DEF Info
    <3> HIDE DEF next, node, delay, info, keys
    <3>3. AreCells(next.enc_routing_information, M) /\ next.integrity_mac = mac
      BY <3>1 DEF IsLayer
    <3>4. IsCell(mac)
      BY CellIsCell DEF HeaderIntegrityMac
    <3>5. MAX_PATH_LENGTH \in Nat \ {0}
      BY <1>1
    <3>6. IsRouting(next)
      BY <3>3, <3>4 DEF IsRouting
    <3>8. IsInfo(info, node, delay, next)
      BY <3>2, <3>5, <3>6, InfoIs
    <3>7. info[p] = next.enc_routing_information[p - 3]
      BY <2>1, <3>8 DEF IsInfo
    <3> QED BY <3>7 DEF next
  <2>5. e(i + 1)[p - 3] = f[i][q]
    <3>1. q \in 1..(3 * (i + 1 - 1)) /\ i + 1 - 1 = i
      BY <2>1
    <3> HIDE DEF e
    <3>2. e(i + 1)[Own(i + 1) + q] = f[i + 1 - 1][q]
      BY <1>5, <3>1
    <3> QED BY <2>1, <3>1, <3>2
  <2>6. e(i)[p] = flip(info[p], pad)
    BY <1>3, <2>1
  <2> HIDE DEF c, pad, info, e
  <2>7. flip(flip(c, pad), pad) = c
    BY <2>2, FlipBack
  <2>8. e(i)[p] = c
    BY <2>3, <2>4, <2>5, <2>6, <2>7
  <2> QED BY <2>8 DEF c, p
<1> HIDE DEF Ok
<1>6. ASSUME T # {} PROVE FALSE
  <2>1. T \subseteq Nat
    BY <1>1
  <2>2. PICK m \in T : \A j \in T : m <= j
    <3> HIDE DEF T
    <3> QED BY <1>6, <2>1, Least
  <2>3. m # 0
    BY <1>1, <1>4
  <2>4. m - 1 \in 0..(n - 1) /\ ~(m <= m - 1) /\ n - m \in 1..(n - 1) /\ n - m + 1 = n - (m - 1)
    BY <1>1, <2>3
  <2>5. Ok(n - (m - 1))
    BY <2>2, <2>4
  <2>6. Ok(n - m + 1)
    BY <2>4, <2>5
  <2> QED BY <1>5, <2>4, <2>6
<1>7. ASSUME NEW i \in 1..n PROVE Ok(i)
  <2>1. n - i \in 0..(n - 1) /\ n - (n - i) = i
    BY <1>1
  <2>2. Ok(n - (n - i))
    BY <1>6, <2>1
  <2> QED BY <2>1, <2>2
<1> QED BY <1>7 DEF Ok

-----------------------------------------------------------------------------
(* The nodes' part of a header.                                            *)

\* A layer is what the rest of a route is told in.
LEMMA LayerIsRouting ==
  ASSUME NEW h, NEW keys, NEW info, IsLayer(h, keys, info)
  PROVE  IsRouting(h) /\ h.integrity_mac = HeaderIntegrityMac(keys["integrity_mac"], h.enc_routing_information)
<1> DEFINE e == h.enc_routing_information
           mac == HeaderIntegrityMac(keys["integrity_mac"], e)
<1>1. IsCell(mac)
  BY CellIsCell DEF HeaderIntegrityMac
<1>2. AreCells(e, 3 * MAX_PATH_LENGTH) /\ h = [integrity_mac |-> mac, enc_routing_information |-> e]
  BY DEF IsLayer
<1> HIDE DEF e, mac
<1>3. h.integrity_mac = mac
  BY <1>2
<1> QED BY <1>1, <1>2, <1>3 DEF IsRouting, e, mac

IsRaw(raw, info, keys) ==
  /\ AreCells(raw, 3 * MAX_PATH_LENGTH + 3)
  /\ \A p \in 1..(3 * MAX_PATH_LENGTH) : raw[p] = info[p]
  /\ \A p \in (3 * MAX_PATH_LENGTH + 1)..(3 * MAX_PATH_LENGTH + 3) :
       raw[p] = flip(cell(<<"zero">>), <<keys["stream_cipher"], p>>)

Decrypted(h, keys) ==
  xor(h.enc_routing_information \o zeros(FILLER_STEP_SIZE_INCREASE),
      generate_pseudorandom_bytes(keys["stream_cipher"]))

\* What a node gets when it applies its stream to its layer and zeros.
LEMMA RawIs ==
  ASSUME NEW h, NEW keys, NEW info, IsLayer(h, keys, info)
  PROVE  IsRaw(Decrypted(h, keys), info, keys)
<1> DEFINE M == 3 * MAX_PATH_LENGTH
           e == h.enc_routing_information
           z == zeros(3)
           key == keys["stream_cipher"]
           pads == generate_pseudorandom_bytes(key)
           long == e \o z
           raw == xor(long, pads)
           zero == cell(<<"zero">>)
<1>1. M \in Nat /\ 3 \in Nat /\ M + 3 \in Nat
  BY Sizes
<1>2. Decrypted(h, keys) = raw
  BY Sizes DEF Decrypted
<1>3. \A p \in 1..(M + 3) : pads[p] = <<key, p>>
  <2> HIDE DEF key
  <2>1. 0 \in 0..(3 * MAX_PATH_LENGTH + 3)
    BY <1>1
  <2> QED BY <2>1, Stream
<1> HIDE DEF pads
<1>4. AreCells(e, M) /\ AreCells(info, M) /\ \A p \in 1..M : e[p] = flip(info[p], <<key, p>>)
  BY DEF IsLayer
<1>5. AreCells(z, 3) /\ \A p \in 1..3 : z[p] = zero
  BY Zeros
<1> HIDE DEF M, z, zero, e, key
<1>6. Joins(long, e, M, z, 3)
  BY <1>1, <1>4, <1>5, Joined
<1> HIDE DEF long
<1>7. AreCells(long, M + 3)
  BY <1>6 DEF Joins
<1>8. AreCells(raw, M + 3) /\ \A p \in 1..(M + 3) : raw[p] = flip(long[p], <<key, p>>)
  <2> DEFINE m == M + 3
  <2>1. m \in Nat /\ AreCells(long, m)
    BY <1>1, <1>7
  <2> HIDE DEF m
  <2>2. AreCells(raw, m) /\ \A p \in 1..m : raw[p] = flip(long[p], pads[p])
    BY <2>1, Xored
  <2> HIDE DEF raw
  <2> QED BY <1>3, <2>2 DEF m
<1> HIDE DEF raw
<1>9. ASSUME NEW p \in 1..M PROVE raw[p] = info[p]
  <2>1. p \in 1..(M + 3) /\ p <= M
    BY <1>1
  <2> DEFINE c == info[p]
             pad == <<key, p>>
  <2>2. long[p] = flip(c, pad) /\ IsCell(c)
    BY <1>4, <1>6, <2>1 DEF Joins, AreCells
  <2>3. raw[p] = flip(flip(c, pad), pad)
    BY <1>8, <2>1, <2>2
  <2> HIDE DEF c, pad
  <2>4. raw[p] = c
    BY <2>2, <2>3, FlipBack
  <2> QED BY <2>4 DEF c
<1>10. ASSUME NEW p \in (M + 1)..(M + 3) PROVE raw[p] = flip(zero, <<key, p>>)
  <2>1. p \in 1..(M + 3) /\ ~(p <= M) /\ p - M \in 1..3
    BY <1>1
  <2>2. long[p] = zero
    BY <1>5, <1>6, <2>1 DEF Joins
  <2> QED BY <1>8, <2>1, <2>2
<1> QED BY <1>2, <1>8, <1>9, <1>10 DEF IsRaw, M, key, zero

\* A node that is not the last gets what it is told, and the layer for the rest
\* of the route, as long as its own was and as the sender made it.
LEMMA OpensForward ==
  ASSUME NEW n \in 1..MAX_PATH_LENGTH, NEW plan, NEW f, NEW h, AreLayers(plan, n, f, h),
         NEW i \in 1..(n - 1)
  PROVE  open(h[i], plan.keys[i])
           = [kind |-> "forward", next_hop |-> plan.route[i + 1], delay |-> plan.delays[i],
              routing_info |-> h[i + 1]]
<1> DEFINE M == 3 * MAX_PATH_LENGTH
           keys == plan.keys[i]
           info == Info(plan, n, f, h, i)
           raw == Decrypted(h[i], keys)
           next == h[i + 1]
           node == plan.route[i + 1]
           delay == plan.delays[i]
           e == next.enc_routing_information
<1>1. i \in 1..n /\ i + 1 \in 1..n /\ i # n /\ M \in Nat /\ n \in 1..MAX_PATH_LENGTH /\ MAX_PATH_LENGTH \in Nat \ {0}
  BY Sizes
<1>2. IsLayer(h[i], keys, info)
  BY <1>1, LayersAre
<1>3. IsLayer(next, plan.keys[i + 1], Info(plan, n, f, h, i + 1))
  BY <1>1, LayersAre
<1>4. info = RoutingInformation(node, delay, next)
  BY <1>1 DEF Info
<1>5. open(h[i], keys) = parse(raw)
  <2> DEFINE x == h[i]
  <2>1. x.integrity_mac = HeaderIntegrityMac(keys["integrity_mac"], x.enc_routing_information)
    <3> HIDE DEF x, keys, info
    <3>1. IsLayer(x, keys, info)
      BY <1>2 DEF x
    <3> QED BY <3>1, LayerIsRouting
  <2> QED BY <2>1 DEF open, verify, unwrap, Decrypted
<1>6. IsRaw(raw, info, keys)
  <2> DEFINE x == h[i]
  <2> HIDE DEF x, keys, info
  <2>1. IsRaw(Decrypted(x, keys), info, keys)
    BY <1>2, RawIs DEF x
  <2> QED BY <2>1 DEF x
<1>7. IsRouting(next)
  BY <1>3, LayerIsRouting
<1>8. \A q \in 1..(3 * i) : e[Own(i + 1) + q] = f[i][q]
  <2>1. i + 1 - 1 = i
    BY <1>1
  <2>2. \A q \in 1..(3 * (i + 1 - 1)) : h[i + 1].enc_routing_information[Own(i + 1) + q] = f[i + 1 - 1][q]
    BY <1>1, FillerFits
  <2> QED BY <2>1, <2>2
<1>9. \A q \in 1..(3 * i) : f[i][q] = flip(IF q <= 3 * (i - 1) THEN f[i - 1][q] ELSE cell(<<"zero">>),
                                          <<keys["stream_cipher"], (3 * MAX_PATH_LENGTH + 3) - 3 * i + q>>)
  <2> DEFINE g == f[i - 1]
             m == n - 1
             j == i - 1
             all == plan.keys
  <2>1. m \in 0..(MAX_PATH_LENGTH + 1) /\ j \in 0..m /\ IsFiller(f, all, m) /\ i \in 1..(MAX_PATH_LENGTH + 1)
    BY <1>1 DEF AreLayers
  <2>2. f[i] = FillStep(g, i, all)
    BY DEF AreLayers, IsFiller
  <2> HIDE DEF m, j, all
  <2>3. AreCells(f[j], 3 * j)
    BY <2>1, FillerCells
  <2>4. AreCells(g, 3 * (i - 1))
    BY <2>3 DEF j
  <2> HIDE DEF g
  <2>5. \A q \in 1..(3 * i) :
          FillStep(g, i, all)[q]
            = flip(IF q <= 3 * (i - 1) THEN g[q] ELSE cell(<<"zero">>),
                   <<all[i]["stream_cipher"], (3 * MAX_PATH_LENGTH + 3) - 3 * i + q>>)
    BY <2>1, <2>4, FillStepIs
  <2> QED BY <2>2, <2>5 DEF all, g
<1> HIDE DEF raw, info, next, node, delay, keys
<1>10. IsInfo(info, node, delay, next)
  BY <1>1, <1>4, <1>7, InfoIs
<1> HIDE DEF e, M
<1>11. raw[1] = cell(<<"forward", node>>) /\ raw[2] = cell(<<"delay", delay>>) /\ raw[3] = next.integrity_mac
  <2>1. 1 \in 1..M /\ 2 \in 1..M /\ 3 \in 1..M
    BY <1>1 DEF M
  <2> QED BY <1>6, <1>10, <2>1 DEF IsInfo, IsRaw, M
<1>12. take(drop(raw, 3), M) = e
  <2> DEFINE m == M + 3
             d == drop(raw, 3)
             t == take(d, M)
  <2>1. m \in Nat /\ AreCells(raw, m) /\ 3 \in 0..m /\ m - 3 = M /\ M \in Nat /\ M \in 0..M
    BY <1>1, <1>6 DEF IsRaw, M
  <2> HIDE DEF m
  <2>2. AreCells(d, m - 3) /\ \A p \in 1..(m - 3) : d[p] = raw[p + 3]
    BY <2>1, Dropped
  <2>3. AreCells(d, M) /\ \A p \in 1..M : d[p] = raw[p + 3]
    BY <2>1, <2>2
  <2> HIDE DEF d
  <2>4. AreCells(t, M) /\ \A p \in 1..M : t[p] = d[p]
    BY <2>1, <2>3, Taken
  <2> HIDE DEF t
  <2>5. ASSUME NEW p \in 1..M PROVE raw[p + 3] = e[p]
    <3>1. CASE p <= M - 3
      <4>1. p + 3 \in 4..M /\ p + 3 \in 1..M /\ p + 3 - 3 = p
        BY <1>1, <3>1 DEF M
      <4>2. raw[p + 3] = info[p + 3]
        BY <1>6, <4>1 DEF IsRaw, M
      <4> QED BY <1>10, <4>1, <4>2 DEF IsInfo, M, e
    <3>2. CASE ~(p <= M - 3)
      <4> DEFINE q == p - Own(i + 1)
      <4>1. /\ p + 3 \in (M + 1)..(M + 3) /\ q \in 1..(3 * i) /\ ~(q <= 3 * (i - 1)) /\ Own(i + 1) + q = p
            /\ (3 * MAX_PATH_LENGTH + 3) - 3 * i + q = p + 3
        BY <1>1, <3>2 DEF M, Own
      <4> HIDE DEF q
      <4>2. raw[p + 3] = flip(cell(<<"zero">>), <<keys["stream_cipher"], p + 3>>)
        BY <1>6, <4>1 DEF IsRaw, M
      <4>3. f[i][q] = flip(cell(<<"zero">>), <<keys["stream_cipher"], p + 3>>)
        BY <1>9, <4>1
      <4>4. e[p] = f[i][q]
        BY <1>8, <4>1
      <4> QED BY <4>2, <4>3, <4>4
    <3> QED BY <3>1, <3>2
  <2>6. \A p \in 1..M : t[p] = e[p]
    BY <2>3, <2>4, <2>5
  <2>7. IsString(t, M) /\ IsString(e, M)
    BY <1>7, <2>4 DEF IsRouting, AreCells, M, e
  <2>8. t = e
    BY <2>6, <2>7 DEF IsString
  <2> QED BY <2>8 DEF t, d
<1>13. parse(raw) = parse_as_forward_hop(raw)
  BY <1>11, CellIsCell DEF parse, plain
<1>14. next = [integrity_mac |-> next.integrity_mac, enc_routing_information |-> e]
  <2> DEFINE mac == HeaderIntegrityMac(plan.keys[i + 1]["integrity_mac"], e)
  <2>1. next = [integrity_mac |-> mac, enc_routing_information |-> e]
    BY <1>3 DEF IsLayer, e
  <2> HIDE DEF mac, e
  <2> QED BY <2>1
<1>15. parse_as_forward_hop(raw)
         = [kind |-> "forward", next_hop |-> node, delay |-> delay, routing_info |-> next]
  <2>1. raw[1].text[2] = node /\ raw[2].text[2] = delay
    <3>1. raw[1].text = <<"forward", node>> /\ raw[2].text = <<"delay", delay>>
      BY <1>11, CellIsCell
    <3> QED BY <3>1
  <2>2. take(drop(raw, FILLER_STEP_SIZE_INCREASE), ENCRYPTED_ROUTING_INFO_SIZE) = e
    BY <1>12, Sizes DEF M
  <2>3. [integrity_mac |-> raw[3],
         enc_routing_information |-> take(drop(raw, FILLER_STEP_SIZE_INCREASE), ENCRYPTED_ROUTING_INFO_SIZE)] = next
    BY <1>11, <1>14, <2>2
  <2> QED BY <2>1, <2>3 DEF parse_as_forward_hop
<1> QED BY <1>5, <1>13, <1>15 DEF next, node, delay, keys

\* The last node gets the destination.
LEMMA OpensFinal ==
  ASSUME NEW n \in 1..MAX_PATH_LENGTH, NEW plan, NEW f, NEW h, AreLayers(plan, n, f, h)
  PROVE  open(h[n], plan.keys[n])
           = [kind |-> "final", address |-> plan.final.address, identifier |-> plan.final.identifier]
<1> DEFINE M == 3 * MAX_PATH_LENGTH
           keys == plan.keys[n]
           final == plan.final
           info == FinalInfo(plan, n, f)
           raw == Decrypted(h[n], keys)
           padded == add_padding(final, n)
           x == h[n]
<1>1. IsLayer(x, keys, info)
  BY FinalLayer
<1>2. open(x, keys) = parse(raw)
  <2>1. x.integrity_mac = HeaderIntegrityMac(keys["integrity_mac"], x.enc_routing_information)
    <3> HIDE DEF x, keys, info
    <3> QED BY <1>1, LayerIsRouting
  <2> QED BY <2>1 DEF open, verify, unwrap, Decrypted
<1>3. IsRaw(raw, info, keys)
  <2> HIDE DEF x, keys, info
  <2>1. IsRaw(Decrypted(x, keys), info, keys)
    BY <1>1, RawIs
  <2> QED BY <2>1 DEF x
<1>4. IsPadded(padded, n, final)
  <2> DEFINE g == f[n - 1]
             m == n - 1
             all == plan.keys
  <2>1. m \in 0..(MAX_PATH_LENGTH + 1) /\ m \in 0..m /\ IsFiller(f, all, m)
    BY Sizes DEF AreLayers
  <2> HIDE DEF m, all
  <2>2. AreCells(f[m], 3 * m)
    BY <2>1, FillerCells
  <2>3. AreCells(g, 3 * (n - 1))
    BY <2>2 DEF m
  <2> HIDE DEF g, final
  <2> QED BY <2>3, LastLayer
<1>5. info[1] = padded[1] /\ info[2] = padded[2] /\ 1 \in 1..M /\ 2 \in 1..M
  BY Sizes DEF FinalInfo, Own
<1> HIDE DEF raw, info, keys, final, padded, M
<1>6. raw[1] = cell(<<"final", final.address>>) /\ raw[2] = cell(<<"identifier", final.identifier>>)
  BY <1>3, <1>4, <1>5 DEF IsRaw, IsPadded, M
<1>7. /\ raw[1].text = <<"final", final.address>> /\ raw[1].pads = {}
      /\ raw[2].text = <<"identifier", final.identifier>>
  BY <1>6, CellIsCell
<1>8. parse(raw) = parse_as_final_hop(raw)
  BY <1>7 DEF parse, plain
<1>9. parse_as_final_hop(raw) = [kind |-> "final", address |-> final.address, identifier |-> final.identifier]
  BY <1>7 DEF parse_as_final_hop
<1> QED BY <1>2, <1>8, <1>9 DEF keys, final

\* Who has other keys can do nothing with a layer.
LEMMA OpensNot ==
  ASSUME NEW h, NEW keys, NEW info, IsLayer(h, keys, info), NEW other,
         other["integrity_mac"] # keys["integrity_mac"]
  PROVE  open(h, other) = Failed
<1> DEFINE e == h.enc_routing_information
           k == keys["integrity_mac"]
           o == other["integrity_mac"]
<1>1. h.integrity_mac = HeaderIntegrityMac(k, e)
  BY LayerIsRouting
<1>2. HeaderIntegrityMac(k, e).text = <<"mac", k, e>> /\ HeaderIntegrityMac(o, e).text = <<"mac", o, e>>
  BY CellIsCell DEF HeaderIntegrityMac
<1>3. <<"mac", k, e>> # <<"mac", o, e>>
  OBVIOUS
<1> HIDE DEF e, k, o
<1>4. ~verify(h.integrity_mac, o, e)
  BY <1>1, <1>2, <1>3 DEF verify
<1> QED BY <1>4 DEF open, o, e

-----------------------------------------------------------------------------
(* What hides a header.                                                    *)

\* The pads that hide a cell are of these nodes' streams, node i's is one of
\* them, and it is a filler cell or not.
HiddenBy(c, keys, nodes, i, filler) ==
  /\ \A pad \in c.pads : \E k \in nodes : pad[1] = keys[k]["stream_cipher"]
  /\ \E place : <<keys[i]["stream_cipher"], place>> \in c.pads
  /\ filler <=> c.text = <<"zero">>

AreDistinct(keys, n) ==
  \A i, j \in 1..n : keys[i]["stream_cipher"] = keys[j]["stream_cipher"] => i = j

\* The cell that a node's pad is applied to is hidden by it and, if by anything
\* else, still by that.
LEMMA Hides ==
  ASSUME NEW n \in Nat, NEW keys, AreDistinct(keys, n), NEW nodes \in SUBSET (1..n), NEW i \in 1..n,
         i \notin nodes, NEW place, NEW filler, NEW c, IsCell(c), filler <=> c.text = <<"zero">>,
         \A pad \in c.pads : \E k \in nodes : pad[1] = keys[k]["stream_cipher"]
  PROVE  HiddenBy(flip(c, <<keys[i]["stream_cipher"], place>>), keys, nodes \cup {i}, i, filler)
<1> DEFINE pad == <<keys[i]["stream_cipher"], place>>
           d == flip(c, pad)
<1>1. pad \notin c.pads
  <2>1. pad[1] = keys[i]["stream_cipher"]
    OBVIOUS
  <2> HIDE DEF pad
  <2> QED BY <2>1 DEF AreDistinct
<1>2. d.text = c.text /\ d.pads = c.pads \cup {pad}
  <2> HIDE DEF pad
  <2> QED BY <1>1, Flipped
<1>3. pad[1] = keys[i]["stream_cipher"] /\ pad \in d.pads
  BY <1>2
<1>4. \A x \in d.pads : \E k \in nodes \cup {i} : x[1] = keys[k]["stream_cipher"]
  <2> HIDE DEF pad, d
  <2> QED BY <1>2, <1>3
<1> HIDE DEF d
<1>5. HiddenBy(d, keys, nodes \cup {i}, i, filler)
  BY <1>2, <1>3, <1>4 DEF HiddenBy
<1> QED BY <1>5 DEF d

\* A filler cell is hidden by the streams of the nodes passed, all the time.
LEMMA FillerHidden ==
  ASSUME NEW n \in 1..MAX_PATH_LENGTH, NEW keys, AreDistinct(keys, n),
         NEW f, IsFiller(f, keys, n - 1)
  PROVE  \A i \in 1..(n - 1) : \A q \in 1..(3 * i) : HiddenBy(f[i][q], keys, 1..i, i, TRUE)
<1> DEFINE Ok(i) == \A q \in 1..(3 * i) : HiddenBy(f[i][q], keys, 1..i, i, TRUE)
           T == {i \in 1..(n - 1) : ~Ok(i)}
           zero == cell(<<"zero">>)
<1>1. n \in Nat /\ n <= MAX_PATH_LENGTH /\ MAX_PATH_LENGTH \in Nat
  BY Sizes
<1>2. IsCell(zero) /\ zero.text = <<"zero">> /\ zero.pads = {}
  BY CellIsCell
<1>3. ASSUME NEW i \in 0..(n - 1) PROVE AreCells(f[i], 3 * i)
  <2> DEFINE m == n - 1
  <2>1. m \in 0..(MAX_PATH_LENGTH + 1) /\ i \in 0..m /\ IsFiller(f, keys, m)
    BY <1>1
  <2> HIDE DEF m
  <2> QED BY <2>1, FillerCells
<1> HIDE DEF zero
<1>4. ASSUME NEW i \in 1..(n - 1), i # 1 => Ok(i - 1) PROVE Ok(i)
  <2> SUFFICES ASSUME NEW q \in 1..(3 * i) PROVE HiddenBy(f[i][q], keys, 1..i, i, TRUE)
    OBVIOUS
  <2> DEFINE g == f[i - 1]
             c == IF q <= 3 * (i - 1) THEN g[q] ELSE zero
             place == (3 * MAX_PATH_LENGTH + 3) - 3 * i + q
             nodes == 1..(i - 1)
             filler == TRUE
  <2>1. i \in 1..(MAX_PATH_LENGTH + 1) /\ i - 1 \in 0..(n - 1) /\ i \in 1..n /\ i \notin nodes
        /\ nodes \in SUBSET (1..n) /\ nodes \cup {i} = 1..i
    BY <1>1
  <2>2. AreCells(g, 3 * (i - 1))
    BY <1>3, <2>1
  <2>3. f[i][q] = flip(c, <<keys[i]["stream_cipher"], place>>)
    <3>1. f[i] = FillStep(g, i, keys)
      BY DEF IsFiller
    <3> HIDE DEF g
    <3>2. \A x \in 1..(3 * i) :
            FillStep(g, i, keys)[x]
              = flip(IF x <= 3 * (i - 1) THEN g[x] ELSE cell(<<"zero">>),
                     <<keys[i]["stream_cipher"], (3 * MAX_PATH_LENGTH + 3) - 3 * i + x>>)
      BY <2>1, <2>2, FillStepIs
    <3> QED BY <3>1, <3>2 DEF zero
  <2>4. IsCell(c) /\ (filler <=> c.text = <<"zero">>)
        /\ \A pad \in c.pads : \E k \in nodes : pad[1] = keys[k]["stream_cipher"]
    <3>1. CASE q <= 3 * (i - 1)
      <4>1. q \in 1..(3 * (i - 1)) /\ i # 1
        BY <1>1, <3>1
      <4>2. IsCell(g[q])
        BY <2>2, <4>1 DEF AreCells
      <4>3. HiddenBy(g[q], keys, 1..(i - 1), i - 1, TRUE)
        BY <1>4, <4>1
      <4> HIDE DEF g, nodes
      <4>4. c = g[q]
        BY <3>1
      <4> HIDE DEF c
      <4> QED BY <4>2, <4>3, <4>4 DEF HiddenBy, nodes
    <3>2. CASE ~(q <= 3 * (i - 1))
      <4>1. c = zero
        BY <3>2
      <4> HIDE DEF c
      <4> QED BY <1>2, <4>1
    <3> QED BY <3>1, <3>2
  <2> HIDE DEF c, place, nodes, filler
  <2>5. HiddenBy(flip(c, <<keys[i]["stream_cipher"], place>>), keys, nodes \cup {i}, i, filler)
    BY <1>1, <2>1, <2>4, Hides
  <2> QED BY <2>1, <2>3, <2>5 DEF filler
<1> HIDE DEF Ok
<1>5. ASSUME T # {} PROVE FALSE
  <2>1. T \subseteq Nat
    BY <1>1
  <2>2. PICK i \in T : \A j \in T : i <= j
    <3> HIDE DEF T
    <3> QED BY <1>5, <2>1, Least
  <2>3. i # 1 => i - 1 \in 1..(n - 1) /\ ~(i <= i - 1)
    BY <1>1
  <2>4. i # 1 => Ok(i - 1)
    BY <2>2, <2>3
  <2> QED BY <1>4, <2>4
<1> QED BY <1>5 DEF Ok

\* A node's own cells are hidden by its stream and those of later nodes only.
LEMMA OwnHidden ==
  ASSUME NEW n \in 1..MAX_PATH_LENGTH, NEW plan, NEW f, NEW h, AreLayers(plan, n, f, h),
         AreDistinct(plan.keys, n)
  PROVE  \A i \in 1..n : \A p \in 1..Own(i) :
           HiddenBy(h[i].enc_routing_information[p], plan.keys, i..n, i, FALSE)
<1> DEFINE M == 3 * MAX_PATH_LENGTH
           keys == plan.keys
           e(i) == h[i].enc_routing_information
           info(i) == Info(plan, n, f, h, i)
           Ok(i) == \A p \in 1..Own(i) : HiddenBy(e(i)[p], keys, i..n, i, FALSE)
           T == {m \in 0..(n - 1) : ~Ok(n - m)}
           Fine(c, i) == /\ IsCell(c) /\ c.text # <<"zero">>
                         /\ \A pad \in c.pads : \E k \in (i + 1)..n : pad[1] = keys[k]["stream_cipher"]
<1>1. n \in Nat /\ n <= MAX_PATH_LENGTH /\ MAX_PATH_LENGTH \in Nat \ {0} /\ M \in Nat
  BY Sizes
<1>2. ASSUME NEW i \in 1..n, NEW p \in 1..Own(i), Fine(info(i)[p], i)
      PROVE  HiddenBy(e(i)[p], keys, i..n, i, FALSE)
  <2> DEFINE c == info(i)[p]
             nodes == (i + 1)..n
             filler == FALSE
  <2>1. p \in 1..M /\ nodes \in SUBSET (1..n) /\ i \notin nodes /\ nodes \cup {i} = i..n
    BY <1>1 DEF Own
  <2>2. e(i)[p] = flip(c, <<keys[i]["stream_cipher"], p>>)
    <3>1. IsLayer(h[i], plan.keys[i], info(i))
      BY LayersAre
    <3> QED BY <2>1, <3>1 DEF IsLayer
  <2> HIDE DEF e
  <2>3. IsCell(c) /\ (filler <=> c.text = <<"zero">>)
        /\ \A pad \in c.pads : \E k \in nodes : pad[1] = keys[k]["stream_cipher"]
    BY <1>2
  <2> HIDE DEF c, nodes, filler, keys
  <2>4. AreDistinct(keys, n)
    BY DEF keys
  <2>5. HiddenBy(flip(c, <<keys[i]["stream_cipher"], p>>), keys, nodes \cup {i}, i, filler)
    BY <1>1, <2>1, <2>3, <2>4, Hides
  <2> QED BY <2>1, <2>2, <2>5 DEF filler
<1>3. Ok(n)
  <2> SUFFICES ASSUME NEW p \in 1..Own(n) PROVE HiddenBy(e(n)[p], keys, n..n, n, FALSE)
    OBVIOUS
  <2> DEFINE padded == add_padding(plan.final, n)
             final == plan.final
  <2>1. IsPadded(padded, n, final)
    <3> DEFINE g == f[n - 1]
               m == n - 1
    <3>1. m \in 0..(MAX_PATH_LENGTH + 1) /\ m \in 0..m /\ IsFiller(f, keys, m)
      BY <1>1 DEF AreLayers
    <3> HIDE DEF m, keys
    <3>2. AreCells(f[m], 3 * m)
      BY <3>1, FillerCells
    <3>3. AreCells(g, 3 * (n - 1))
      BY <3>2 DEF m
    <3> HIDE DEF g, final
    <3>4. IsPadded(add_padding(final, n), n, final)
      BY <3>3, LastLayer
    <3> QED BY <3>4 DEF final
  <2>2. info(n)[p] = padded[p]
    <3>1. p \in 1..M /\ p <= Own(n)
      BY <1>1 DEF Own
    <3> QED BY <3>1 DEF Info, FinalInfo
  <2> HIDE DEF padded, info
  <2>3. IsCell(padded[p]) /\ padded[p].pads = {} /\ padded[p].text # <<"zero">>
    BY <2>1 DEF IsPadded, AreCells
  <2>4. Fine(info(n)[p], n)
    BY <2>2, <2>3
  <2>5. n \in 1..n
    BY <1>1
  <2> HIDE DEF Fine, e
  <2> QED BY <1>2, <2>4, <2>5
<1>4. ASSUME NEW i \in 1..(n - 1), Ok(i + 1) PROVE Ok(i)
  <2> SUFFICES ASSUME NEW p \in 1..Own(i) PROVE HiddenBy(e(i)[p], keys, i..n, i, FALSE)
    OBVIOUS
  <2> DEFINE next == h[i + 1]
             node == plan.route[i + 1]
             delay == plan.delays[i]
             x == info(i)
  <2>1. i \in 1..n /\ i # n /\ i + 1 \in 1..n /\ p \in 1..M
    BY <1>1 DEF Own
  <2>2. IsLayer(next, keys[i + 1], info(i + 1))
    BY <2>1, LayersAre
  <2>3. x = RoutingInformation(node, delay, next)
    BY <2>1 DEF Info
  <2>4. IsRouting(next) /\ \E k, d : next.integrity_mac = HeaderIntegrityMac(k, d)
    BY <2>2, LayerIsRouting
  <2>5. IsInfo(x, node, delay, next)
    <3> HIDE DEF next, node, delay, x
    <3> QED BY <1>1, <2>3, <2>4, InfoIs
  <2>6. Fine(x[p], i)
    <3>1. CASE p \in 4..M
      <4>1. p - 3 \in 1..Own(i + 1)
        BY <1>1, <3>1 DEF Own
      <4>2. x[p] = e(i + 1)[p - 3]
        BY <2>5, <3>1 DEF IsInfo
      <4>3. HiddenBy(e(i + 1)[p - 3], keys, (i + 1)..n, i + 1, FALSE)
        BY <1>4, <4>1
      <4>4. IsCell(x[p])
        BY <2>1, <2>5 DEF IsInfo, AreCells
      <4> HIDE DEF x, e, keys
      <4> QED BY <4>2, <4>3, <4>4 DEF HiddenBy
    <3>2. CASE p \notin 4..M
      <4>1. p = 1 \/ p = 2 \/ p = 3
        BY <1>1, <2>1, <3>2
      <4>2. PICK k, d : next.integrity_mac = HeaderIntegrityMac(k, d)
        BY <2>4
      <4>3. <<"forward", node>> # <<"zero">> /\ <<"delay", delay>> # <<"zero">> /\ <<"mac", k, d>> # <<"zero">>
        OBVIOUS
      <4> HIDE DEF x, node, delay, next
      <4>4. \E text : x[p] = cell(text) /\ text # <<"zero">>
        BY <2>5, <4>1, <4>2, <4>3 DEF IsInfo, HeaderIntegrityMac
      <4> QED BY <4>4, CellIsCell
    <3> QED BY <3>1, <3>2
  <2> HIDE DEF Fine, e, info
  <2> QED BY <1>2, <2>1, <2>6
<1> HIDE DEF Ok
<1>6. ASSUME T # {} PROVE FALSE
  <2>1. T \subseteq Nat
    BY <1>1
  <2>2. PICK m \in T : \A j \in T : m <= j
    <3> HIDE DEF T
    <3> QED BY <1>6, <2>1, Least
  <2>3. m # 0
    BY <1>1, <1>3
  <2>4. m - 1 \in 0..(n - 1) /\ ~(m <= m - 1) /\ n - m \in 1..(n - 1) /\ n - m + 1 = n - (m - 1)
    BY <1>1, <2>3
  <2>5. Ok(n - (m - 1))
    BY <2>2, <2>4
  <2>6. Ok(n - m + 1)
    BY <2>4, <2>5
  <2> QED BY <1>4, <2>4, <2>6
<1>7. ASSUME NEW i \in 1..n PROVE Ok(i)
  <2>1. n - i \in 0..(n - 1) /\ n - (n - i) = i
    BY <1>1
  <2>2. Ok(n - (n - i))
    BY <1>6, <2>1
  <2> QED BY <2>1, <2>2
<1> QED BY <1>7 DEF Ok

\* Nothing in any layer is in clear.
LEMMA LayersHidden ==
  ASSUME NEW n \in 1..MAX_PATH_LENGTH, NEW plan, NEW f, NEW h, AreLayers(plan, n, f, h),
         AreDistinct(plan.keys, n), NEW i \in 1..n, NEW p \in 1..(3 * MAX_PATH_LENGTH)
  PROVE  h[i].enc_routing_information[p].pads # {}
<1> DEFINE c == h[i].enc_routing_information[p]
           q == p - Own(i)
<1>1. CASE p \in 1..Own(i)
  <2>1. HiddenBy(c, plan.keys, i..n, i, FALSE)
    BY <1>1, OwnHidden
  <2> HIDE DEF c
  <2>2. c.pads # {}
    BY <2>1 DEF HiddenBy
  <2> QED BY <2>2 DEF c
<1>2. CASE p \notin 1..Own(i)
  <2>1. q \in 1..(3 * (i - 1)) /\ Own(i) + q = p /\ i - 1 \in 1..(n - 1)
    BY <1>2, Sizes DEF Own
  <2> HIDE DEF q
  <2>2. c = f[i - 1][q]
    <3>1. h[i].enc_routing_information[Own(i) + q] = f[i - 1][q]
      BY <2>1, FillerFits
    <3> QED BY <2>1, <3>1
  <2>3. HiddenBy(f[i - 1][q], plan.keys, 1..(i - 1), i - 1, TRUE)
    <3> DEFINE keys == plan.keys
    <3>1. IsFiller(f, keys, n - 1) /\ AreDistinct(keys, n)
      BY DEF AreLayers
    <3> HIDE DEF keys
    <3>2. \A l \in 1..(n - 1) : \A x \in 1..(3 * l) : HiddenBy(f[l][x], keys, 1..l, l, TRUE)
      BY <3>1, FillerHidden
    <3> QED BY <2>1, <3>2 DEF keys
  <2> HIDE DEF c
  <2>4. c.pads # {}
    BY <2>2, <2>3 DEF HiddenBy
  <2> QED BY <2>4 DEF c
<1> QED BY <1>1, <1>2

\* Two cells that are hidden by different nodes are not the same.
LEMMA HiddenApart ==
  ASSUME NEW n, NEW keys, AreDistinct(keys, n), NEW c, NEW d,
         NEW s \in SUBSET (1..n), NEW t \in SUBSET (1..n), NEW i \in 1..n, NEW j \in 1..n,
         NEW x \in BOOLEAN, NEW y \in BOOLEAN,
         HiddenBy(c, keys, s, i, x), HiddenBy(d, keys, t, j, y), x # y \/ i \notin t \/ j \notin s
  PROVE  c # d
<1> SUFFICES ASSUME c = d PROVE FALSE
  OBVIOUS
<1>1. x = y
  BY DEF HiddenBy
<1>2. PICK a : <<keys[i]["stream_cipher"], a>> \in c.pads
  BY DEF HiddenBy
<1>3. PICK b : <<keys[j]["stream_cipher"], b>> \in d.pads
  BY DEF HiddenBy
<1>4. \E k \in t : keys[i]["stream_cipher"] = keys[k]["stream_cipher"]
  <2> DEFINE pad == <<keys[i]["stream_cipher"], a>>
  <2>1. pad \in d.pads /\ pad[1] = keys[i]["stream_cipher"]
    BY <1>2
  <2> HIDE DEF pad
  <2> QED BY <2>1 DEF HiddenBy
<1>5. \E k \in s : keys[j]["stream_cipher"] = keys[k]["stream_cipher"]
  <2> DEFINE pad == <<keys[j]["stream_cipher"], b>>
  <2>1. pad \in c.pads /\ pad[1] = keys[j]["stream_cipher"]
    BY <1>3
  <2> HIDE DEF pad
  <2> QED BY <2>1 DEF HiddenBy
<1>6. i \in t /\ j \in s
  BY <1>4, <1>5 DEF AreDistinct
<1> QED BY <1>1, <1>6

\* No cell that a node passes on is one that came in.
LEMMA LayersApart ==
  ASSUME NEW n \in 1..MAX_PATH_LENGTH, NEW plan, NEW f, NEW h, AreLayers(plan, n, f, h),
         AreDistinct(plan.keys, n), NEW i \in 1..(n - 1),
         NEW p \in 1..(3 * MAX_PATH_LENGTH), NEW q \in 1..(3 * MAX_PATH_LENGTH)
  PROVE  h[i].enc_routing_information[p] # h[i + 1].enc_routing_information[q]
<1> DEFINE keys == plan.keys
           Cells(l, r, s, t, x) == HiddenBy(h[l].enc_routing_information[r], keys, s, t, x)
<1>1. ASSUME NEW l \in 1..n, NEW r \in 1..(3 * MAX_PATH_LENGTH)
      PROVE  \/ Cells(l, r, l..n, l, FALSE)
             \/ l # 1 /\ Cells(l, r, 1..(l - 1), l - 1, TRUE)
  <2> DEFINE c == h[l].enc_routing_information[r]
             m == r - Own(l)
  <2>1. CASE r \in 1..Own(l)
    BY <2>1, OwnHidden
  <2>2. CASE r \notin 1..Own(l)
    <3>1. m \in 1..(3 * (l - 1)) /\ Own(l) + m = r /\ l - 1 \in 1..(n - 1) /\ l # 1
      BY <2>2, Sizes DEF Own
    <3> HIDE DEF m
    <3>2. c = f[l - 1][m]
      <4>1. h[l].enc_routing_information[Own(l) + m] = f[l - 1][m]
        BY <3>1, FillerFits
      <4> QED BY <3>1, <4>1
    <3>3. HiddenBy(f[l - 1][m], keys, 1..(l - 1), l - 1, TRUE)
      <4>1. IsFiller(f, keys, n - 1) /\ AreDistinct(keys, n)
        BY DEF AreLayers
      <4> HIDE DEF keys
      <4>2. \A k \in 1..(n - 1) : \A x \in 1..(3 * k) : HiddenBy(f[k][x], keys, 1..k, k, TRUE)
        BY <4>1, FillerHidden
      <4> QED BY <3>1, <4>2
    <3> QED BY <3>1, <3>2, <3>3
  <2> QED BY <2>1, <2>2
<1> DEFINE c == h[i].enc_routing_information[p]
           d == h[i + 1].enc_routing_information[q]
           j == i + 1
<1>2. /\ n \in Nat /\ i \in 1..n /\ j \in 1..n /\ AreDistinct(keys, n)
      /\ i..n \in SUBSET (1..n) /\ j..n \in SUBSET (1..n) /\ 1..i \in SUBSET (1..n) /\ 1..(i - 1) \in SUBSET (1..n)
      /\ i \notin j..n /\ i \notin 1..(i - 1) /\ j - 1 = i /\ (i # 1 => i - 1 \in 1..n)
  BY Sizes
<1>3. \/ HiddenBy(c, keys, i..n, i, FALSE)
      \/ i # 1 /\ HiddenBy(c, keys, 1..(i - 1), i - 1, TRUE)
  BY <1>1, <1>2
<1>4. HiddenBy(d, keys, j..n, j, FALSE) \/ HiddenBy(d, keys, 1..i, i, TRUE)
  BY <1>1, <1>2
<1> HIDE DEF keys, c, d, j
<1>5. CASE HiddenBy(c, keys, i..n, i, FALSE) /\ HiddenBy(d, keys, j..n, j, FALSE)
  BY <1>2, <1>5, HiddenApart DEF c, d, j
<1>6. CASE HiddenBy(c, keys, i..n, i, FALSE) /\ HiddenBy(d, keys, 1..i, i, TRUE)
  <2> DEFINE x == FALSE
             y == TRUE
  <2>1. x \in BOOLEAN /\ y \in BOOLEAN /\ x # y /\ HiddenBy(c, keys, i..n, i, x) /\ HiddenBy(d, keys, 1..i, i, y)
    BY <1>6
  <2> HIDE DEF x, y
  <2> QED BY <1>2, <2>1, HiddenApart DEF c, d, j
<1>7. CASE i # 1 /\ HiddenBy(c, keys, 1..(i - 1), i - 1, TRUE) /\ HiddenBy(d, keys, j..n, j, FALSE)
  <2> DEFINE x == TRUE
             y == FALSE
             k == i - 1
  <2>1. x \in BOOLEAN /\ y \in BOOLEAN /\ x # y /\ HiddenBy(c, keys, 1..k, k, x) /\ HiddenBy(d, keys, j..n, j, y)
        /\ k \in 1..n /\ 1..k \in SUBSET (1..n)
    BY <1>2, <1>7
  <2> HIDE DEF x, y, k
  <2> QED BY <1>2, <2>1, HiddenApart DEF c, d, j
<1>8. CASE i # 1 /\ HiddenBy(c, keys, 1..(i - 1), i - 1, TRUE) /\ HiddenBy(d, keys, 1..i, i, TRUE)
  <2> DEFINE x == TRUE
             k == i - 1
             s == 1..k
             t == 1..i
  <2>1. x \in BOOLEAN /\ HiddenBy(c, keys, s, k, x) /\ HiddenBy(d, keys, t, i, x)
        /\ k \in 1..n /\ s \in SUBSET (1..n) /\ t \in SUBSET (1..n) /\ i \notin s /\ i \in 1..n
        /\ AreDistinct(keys, n)
    BY <1>2, <1>8
  <2> HIDE DEF x, k, s, t
  <2>2. c # d
    BY <2>1, HiddenApart
  <2> QED BY <2>2 DEF c, d, j
<1> QED BY <1>3, <1>4, <1>5, <1>6, <1>7, <1>8

-----------------------------------------------------------------------------
(* Headers of a route.                                                     *)

Plan(secret, route, delays, final) ==
  [route |-> route, delays |-> delays, keys |-> Keys(secret, route), final |-> final]

IsMade(plan, f, h) ==
  LET n == Len(plan.route) IN
  /\ AreLayers(plan, n, f, h)
  /\ for_forward_hops(for_final_hop(plan.final, Last(plan.keys), Filler(Front(plan.keys)), n),
                      plan.delays, plan.route, plan.keys) = h[1]

\* The layers, from that for the first node on.
Layers(plan) == CHOOSE h : \E f : IsMade(plan, f, h)

\* A sender's loops are what the layers are made by.
LEMMA LayersExist ==
  ASSUME NEW n \in 1..MAX_PATH_LENGTH, NEW plan, Len(plan.route) = n, IsString(plan.keys, n)
  PROVE  \E f : IsMade(plan, f, Layers(plan))
<1> DEFINE m == n - 1
           keys == plan.keys
           route == plan.route
           delays == plan.delays
           front == Front(keys)
           d == [delays |-> delays, route |-> route, keys |-> keys]
<1>1. m \in Nat /\ n \in Nat /\ m \in 0..n /\ m + 1 = n /\ 1 \in 1..(n + 1) /\ m \in (1 - 1)..n
  BY Sizes
<1>2. Len(keys) = n /\ DOMAIN keys = 1..n
  BY <1>1, LenIs
<1>3. front = [i \in 1..m |-> keys[i]]
  <2> HIDE DEF keys
  <2>1. IsString(keys, n)
    BY DEF keys
  <2>2. SubSeq(keys, 1, m) = [i \in 1..(m - 1 + 1) |-> keys[i + 1 - 1]]
    <3> HIDE DEF m
    <3> QED BY <1>1, <2>1, Part
  <2>3. m - 1 + 1 = m /\ \A i \in 1..m : i + 1 - 1 = i
    BY <1>1
  <2> QED BY <1>2, <2>2, <2>3 DEF Front
<1>4. DOMAIN front = 1..m
  BY <1>3
<1> HIDE DEF front
<1>5. PICK f : GoesUp(f, m, "filler", <<>>, front) /\ UpResult(m, "filler", <<>>, front) = f[m]
  <2> DEFINE kind == "filler"
             b == <<>>
  <2> HIDE DEF kind, b, m
  <2>1. \E g : GoesUp(g, m, kind, b, front) /\ UpResult(m, kind, b, front) = g[m]
    BY <1>1, Upwards
  <2> QED BY <2>1 DEF kind, b
<1>6. Filler(front) = f[m]
  <2> HIDE DEF m
  <2> QED BY <1>1, <1>4, <1>5, FillerInTurn
<1>7. IsFiller(f, keys, m)
  <2>1. f[0] = <<>>
    BY <1>5 DEF GoesUp
  <2>2. ASSUME NEW i \in 1..m PROVE f[i] = FillStep(f[i - 1], i, keys)
    <3>1. f[i] = FillStep(f[i - 1], i, front)
      BY <1>5 DEF GoesUp, StepOf
    <3>2. front[i] = keys[i]
      BY <1>3
    <3> HIDE DEF keys
    <3> QED BY <3>1, <3>2 DEF FillStep
  <2> HIDE DEF keys, m
  <2> QED BY <2>1, <2>2 DEF IsFiller
<1> DEFINE last == for_final_hop(plan.final, Last(keys), Filler(front), n)
<1>8. last = for_final_hop(plan.final, keys[n], f[m], n)
  BY <1>2, <1>6 DEF Last
<1> HIDE DEF last
<1>9. PICK h : GoesDown(h, m, "hop", last, d) /\ DownResult(m, "hop", last, d) = h[1]
  <2> DEFINE kind == "hop"
  <2> HIDE DEF kind, m, d
  <2>1. \E g : GoesDown(g, m, kind, last, d) /\ DownResult(m, kind, last, d) = g[1]
    BY <1>1, Downwards
  <2> QED BY <2>1 DEF kind
<1>10. for_forward_hops(last, delays, route, keys) = h[1]
  <2>1. Len(route) - 1 = m
    OBVIOUS
  <2> HIDE DEF m, keys, route, delays, d
  <2>2. for_forward_hops(last, delays, route, keys)
          = DownResult(Len(route) - 1, "hop", last, [delays |-> delays, route |-> route, keys |-> keys])
    BY <1>1, <2>1, HopsInTurn
  <2> QED BY <1>9, <2>1, <2>2 DEF d
<1>11. h[n] = last /\ \A i \in 1..m : h[i] = HopStep(h[i + 1], i, delays, route, keys)
  <2>1. h[m + 1] = last /\ \A i \in 1..m : h[i] = StepOf("hop", h[i + 1], i, d)
    BY <1>9 DEF GoesDown
  <2>2. d.delays = delays /\ d.route = route /\ d.keys = keys
    OBVIOUS
  <2> HIDE DEF d, delays, route, keys, m
  <2> QED BY <1>1, <2>1, <2>2 DEF StepOf
<1>12. AreLayers(plan, n, f, h)
  <2> HIDE DEF last
  <2> QED BY <1>7, <1>8, <1>11 DEF AreLayers
<1>13. IsMade(plan, f, h)
  BY <1>10, <1>12 DEF IsMade, last, front
<1>14. \E g : \E e : IsMade(plan, e, g)
  BY <1>13
<1> QED BY <1>14 DEF Layers

\* The header for the i-th node of a route.
HeaderAt(plan, secret, i) ==
  [shared_secret |-> Chain(secret, plan.route)[i - 1], routing_info |-> Layers(plan)[i]]

PayloadKeys(secret, route) == [i \in 1..Len(route) |-> <<"payload", Shared(secret, route, i)>>]

\* What a header is made for, and its parts.
IsPlan(plan, secret) ==
  /\ plan.route \in Seq(Node) /\ Len(plan.route) \in 1..MAX_PATH_LENGTH
  /\ plan.keys = Keys(secret, plan.route) /\ IsSecret(secret)

\* A plan has layers, and every node of the route has its own keys.
LEMMA PlanHas ==
  ASSUME NEW plan, NEW secret, IsPlan(plan, secret)
  PROVE  /\ \E f : IsMade(plan, f, Layers(plan))
         /\ AreDistinct(plan.keys, Len(plan.route))
<1> DEFINE route == plan.route
           n == Len(route)
           keys == plan.keys
           key(i) == <<"stream_cipher", Shared(secret, route, i)>>
<1>1. n \in 1..MAX_PATH_LENGTH /\ route \in Seq(Node) /\ keys = [i \in 1..n |-> RoutingKeys(Shared(secret, route, i))]
  BY DEF IsPlan, Keys
<1> HIDE DEF route, n, keys
<1>2. IsString(keys, n)
  BY <1>1 DEF IsString
<1>3. \E f : IsMade(plan, f, Layers(plan))
  BY <1>1, <1>2, LayersExist DEF n, route, keys
<1>4. ASSUME NEW i \in 1..n PROVE keys[i]["stream_cipher"] = key(i)
  BY <1>1 DEF RoutingKeys
<1>5. ASSUME NEW i \in 1..n, NEW j \in 1..n, keys[i]["stream_cipher"] = keys[j]["stream_cipher"]
      PROVE  i = j
  <2>1. key(i) = key(j)
    BY <1>4, <1>5
  <2>2. Shared(secret, route, i) = Shared(secret, route, j)
    BY <2>1
  <2>3. IsSecret(secret)
    BY DEF IsPlan
  <2>4. i \in 1..Len(route) /\ j \in 1..Len(route)
    BY DEF n
  <2> QED BY <1>1, <2>2, <2>3, <2>4, SharedDistinct
<1> QED BY <1>3, <1>5 DEF AreDistinct, n, route, keys

\* What SphinxHeader::new() returns.
LEMMA NewHeader ==
  ASSUME NEW route \in Seq(Node), Len(route) \in 1..MAX_PATH_LENGTH, NEW secret, IsSecret(secret),
         NEW delays, NEW final
  PROVE  SphinxHeader_new(secret, route, delays, final)
           = [header |-> HeaderAt(Plan(secret, route, delays, final), secret, 1),
              payload_keys |-> PayloadKeys(secret, route)]
<1> DEFINE plan == Plan(secret, route, delays, final)
           keys == Keys(secret, route)
           n == Len(route)
<1>1. IsPlan(plan, secret) /\ plan.route = route /\ plan.keys = keys /\ plan.delays = delays /\ plan.final = final
  BY DEF IsPlan, Plan
<1> HIDE DEF plan
<1>2. PICK f : IsMade(plan, f, Layers(plan))
  BY <1>1, PlanHas
<1>3. for_forward_hops(for_final_hop(final, Last(keys), Filler(Front(keys)), n), delays, route, keys) = Layers(plan)[1]
  BY <1>1, <1>2 DEF IsMade
<1>4. KeyMaterial(route, secret) = [initial_shared_secret |-> secret, routing_keys |-> keys]
  BY ChainIs
<1>5. KeyMaterial(route, secret).initial_shared_secret = secret /\ KeyMaterial(route, secret).routing_keys = keys
  BY <1>4
<1>6. [i \in DOMAIN keys |-> keys[i]["payload"]] = PayloadKeys(secret, route)
  BY DEF PayloadKeys, Keys, RoutingKeys
<1>7. Chain(secret, plan.route)[1 - 1] = secret
  BY <1>1, ChainIs DEF IsChain
<1> HIDE DEF keys, n
<1>8. SphinxHeader_new(secret, route, delays, final)
        = [header |-> [shared_secret |-> secret, routing_info |-> Layers(plan)[1]],
           payload_keys |-> PayloadKeys(secret, route)]
  BY <1>3, <1>5, <1>6 DEF SphinxHeader_new, n
<1> QED BY <1>7, <1>8 DEF HeaderAt, plan

\* The keys that a node derives for the i-th packet of a route.
KeysOf(plan, secret, i, node) ==
  compute_routing_keys(HeaderAt(plan, secret, i).shared_secret, private_key(node))

\* A node's keys are the sender's if it is the right node; if not, the MAC is
\* under another key.
LEMMA NodeKeys ==
  ASSUME NEW plan, NEW secret, IsPlan(plan, secret), NEW i \in 1..Len(plan.route), NEW node
  PROVE  /\ node = plan.route[i] => KeysOf(plan, secret, i, node) = plan.keys[i]
         /\ node # plan.route[i] =>
              KeysOf(plan, secret, i, node)["integrity_mac"] # plan.keys[i]["integrity_mac"]
         /\ plan.keys[i]["payload"] = <<"payload", Shared(secret, plan.route, i)>>
         /\ plan.keys[i]["blinding"] = <<"blinding", Shared(secret, plan.route, i)>>
<1> DEFINE route == plan.route
           derived == Derived(secret, route, i, node)
           shared == Shared(secret, route, i)
<1>1. route \in Seq(Node) /\ IsSecret(secret) /\ i \in 1..Len(route)
  BY DEF IsPlan
<1>2. KeysOf(plan, secret, i, node) = RoutingKeys(derived)
  <2>1. diffie_hellman(private_key(node), Chain(secret, route)[i - 1]) = derived
    BY DEF diffie_hellman, private_key, Derived
  <2>2. HeaderAt(plan, secret, i).shared_secret = Chain(secret, route)[i - 1]
    BY DEF HeaderAt
  <2> HIDE DEF derived
  <2> QED BY <2>1, <2>2 DEF KeysOf, compute_routing_keys
<1>3. plan.keys[i] = RoutingKeys(shared)
  BY <1>1 DEF IsPlan, Keys
<1>4. derived = shared <=> node = route[i]
  <2> HIDE DEF route
  <2> QED BY <1>1, NodeIsShared
<1> HIDE DEF derived, shared
<1>5. \A x : /\ RoutingKeys(x)["integrity_mac"] = <<"integrity_mac", x>>
             /\ RoutingKeys(x)["payload"] = <<"payload", x>>
             /\ RoutingKeys(x)["blinding"] = <<"blinding", x>>
  BY DEF RoutingKeys
<1>6. derived # shared => <<"integrity_mac", derived>> # <<"integrity_mac", shared>>
  OBVIOUS
<1> QED BY <1>2, <1>3, <1>4, <1>5, <1>6 DEF shared

\* The layer of a header is one, whoever opens it.
LEMMA NodeOpens ==
  ASSUME NEW plan, NEW secret, IsPlan(plan, secret), NEW i \in 1..Len(plan.route)
  PROVE  /\ i # Len(plan.route) =>
              open(Layers(plan)[i], plan.keys[i])
                = [kind |-> "forward", next_hop |-> plan.route[i + 1], delay |-> plan.delays[i],
                   routing_info |-> Layers(plan)[i + 1]]
         /\ i = Len(plan.route) =>
              open(Layers(plan)[i], plan.keys[i])
                = [kind |-> "final", address |-> plan.final.address, identifier |-> plan.final.identifier]
         /\ \A other : other["integrity_mac"] # plan.keys[i]["integrity_mac"] =>
              open(Layers(plan)[i], other) = Failed
<1> DEFINE n == Len(plan.route)
           h == Layers(plan)
<1>1. n \in 1..MAX_PATH_LENGTH /\ i \in 1..n
  BY DEF IsPlan
<1>2. PICK f : AreLayers(plan, n, f, h)
  BY PlanHas DEF IsMade
<1> HIDE DEF n, h
<1>3. ASSUME i # n
      PROVE  open(h[i], plan.keys[i])
                = [kind |-> "forward", next_hop |-> plan.route[i + 1], delay |-> plan.delays[i],
                   routing_info |-> h[i + 1]]
  <2>1. i \in 1..(n - 1)
    BY <1>1, <1>3, Sizes
  <2> QED BY <1>1, <1>2, <2>1, OpensForward
<1>4. open(h[n], plan.keys[n])
        = [kind |-> "final", address |-> plan.final.address, identifier |-> plan.final.identifier]
  BY <1>1, <1>2, OpensFinal
<1>5. ASSUME NEW other, other["integrity_mac"] # plan.keys[i]["integrity_mac"]
      PROVE  open(h[i], other) = Failed
  <2> DEFINE x == h[i]
             keys == plan.keys[i]
             info == Info(plan, n, f, h, i)
  <2>1. IsLayer(x, keys, info)
    BY <1>1, <1>2, LayersAre
  <2>2. other["integrity_mac"] # keys["integrity_mac"]
    BY <1>5
  <2> HIDE DEF x, keys, info
  <2>3. open(x, other) = Failed
    BY <2>1, <2>2, OpensNot
  <2> QED BY <2>3 DEF x
<1> QED BY <1>3, <1>4, <1>5 DEF n, h

\* What the i-th node of a route makes of its header.
Told(plan, secret, i) ==
  IF i = Len(plan.route)
    THEN [kind |-> "final",
          destination |-> [address |-> plan.final.address, identifier |-> plan.final.identifier],
          payload_key |-> <<"payload", Shared(secret, plan.route, i)>>]
    ELSE [kind |-> "forward", header |-> HeaderAt(plan, secret, i + 1),
          next_hop |-> plan.route[i + 1], delay |-> plan.delays[i],
          payload_key |-> <<"payload", Shared(secret, plan.route, i)>>]

\* The right node makes that of it, and any other nothing, with its keys or with
\* those it has from before; but with these it needs the secret to pass on.
LEMMA NodeProcesses ==
  ASSUME NEW plan, NEW secret, IsPlan(plan, secret), NEW i \in 1..Len(plan.route), NEW node
  PROVE  /\ process_header(HeaderAt(plan, secret, i), private_key(node))
              = IF node = plan.route[i] THEN Told(plan, secret, i) ELSE Failed
         /\ \A b : process_header_with_derived_keys(HeaderAt(plan, secret, i), b, KeysOf(plan, secret, i, node))
              = IF \/ node # plan.route[i]
                   \/ i # Len(plan.route) /\ b = <<>> THEN Failed
                ELSE IF i # Len(plan.route)
                  THEN [Told(plan, secret, i) EXCEPT !.header.shared_secret = b[1]]
                ELSE Told(plan, secret, i)
         /\ i # Len(plan.route) => HeaderAt(plan, secret, i + 1).shared_secret = Chain(secret, plan.route)[i]
<1> DEFINE route == plan.route
           n == Len(route)
           header == HeaderAt(plan, secret, i)
           keys == KeysOf(plan, secret, i, node)
           layer == Layers(plan)[i]
           parsed == open(layer, keys)
           chain == Chain(secret, route)
           shared == Shared(secret, route, i)
           next == [shared_secret |-> chain[i], routing_info |-> Layers(plan)[i + 1]]
<1>1. n \in 1..MAX_PATH_LENGTH /\ i \in 1..n /\ route \in Seq(Node) /\ n \in Nat
  BY Sizes DEF IsPlan
<1>2. header.shared_secret = chain[i - 1] /\ header.routing_info = layer
  BY DEF HeaderAt
<1>3. /\ node = route[i] => keys = plan.keys[i]
      /\ node # route[i] => keys["integrity_mac"] # plan.keys[i]["integrity_mac"]
      /\ plan.keys[i]["payload"] = <<"payload", shared>>
      /\ plan.keys[i]["blinding"] = <<"blinding", shared>>
  BY NodeKeys
<1>4. keys = compute_routing_keys(header.shared_secret, private_key(node))
  BY DEF KeysOf
<1>5. /\ node = route[i] /\ i # n =>
           parsed = [kind |-> "forward", next_hop |-> route[i + 1], delay |-> plan.delays[i],
                     routing_info |-> Layers(plan)[i + 1]]
      /\ node = route[i] /\ i = n =>
           parsed = [kind |-> "final", address |-> plan.final.address, identifier |-> plan.final.identifier]
      /\ node # route[i] => parsed = Failed
  <2> HIDE DEF keys
  <2> QED BY <1>3, NodeOpens
<1>6. i # n => HeaderAt(plan, secret, i + 1) = next /\ next.shared_secret = chain[i]
  <2>1. i + 1 - 1 = i
    BY <1>1
  <2> QED BY <2>1 DEF HeaderAt
<1>7. chain[i] = diffie_hellman(scalar(<<"blinding", shared>>), chain[i - 1])
  <2>1. chain[i] = chain[i - 1] \cup {<<"blinding", chain[i - 1] \cup {<<"node", route[i]>>}>>}
    BY <1>1, ChainIs DEF IsChain
  <2>2. shared = chain[i - 1] \cup {<<"node", route[i]>>}
    BY DEF Shared
  <2> HIDE DEF chain, shared, route
  <2> QED BY <2>1, <2>2 DEF diffie_hellman, scalar
<1>8. Failed.kind = "error"
  BY DEF Failed
<1>9. Told(plan, secret, i)
        = IF i = n
            THEN [kind |-> "final",
                  destination |-> [address |-> plan.final.address, identifier |-> plan.final.identifier],
                  payload_key |-> <<"payload", shared>>]
            ELSE [kind |-> "forward", header |-> next, next_hop |-> route[i + 1],
                  delay |-> plan.delays[i], payload_key |-> <<"payload", shared>>]
  BY <1>6 DEF Told
<1>12. next.shared_secret = chain[i] /\ next.routing_info = Layers(plan)[i + 1]
       /\ \A s : [next EXCEPT !.shared_secret = s] = [shared_secret |-> s, routing_info |-> Layers(plan)[i + 1]]
       /\ next = [shared_secret |-> chain[i], routing_info |-> Layers(plan)[i + 1]]
  OBVIOUS
<1> HIDE DEF header, keys, layer, parsed, chain, shared, next, route, n
<1>10. process_header(header, private_key(node)) = IF node = route[i] THEN Told(plan, secret, i) ELSE Failed
  <2> DEFINE p == open(header.routing_info, keys)
  <2>0. p = parsed
    BY <1>2 DEF parsed
  <2>1. CASE node = route[i] /\ i # n
    <3>1. parsed.kind = "forward" /\ parsed.next_hop = route[i + 1] /\ parsed.delay = plan.delays[i]
          /\ parsed.routing_info = Layers(plan)[i + 1]
      BY <1>5, <2>1
    <3>2. process_header(header, private_key(node))
            = ForwardHop(blind_the_shared_secret(header.shared_secret, keys["blinding"]), parsed, keys)
      BY <1>4, <2>0, <3>1 DEF process_header
    <3>3. blind_the_shared_secret(header.shared_secret, keys["blinding"]) = chain[i]
      BY <1>2, <1>3, <1>7, <2>1 DEF blind_the_shared_secret
    <3>4. ForwardHop(chain[i], parsed, keys)
            = [kind |-> "forward", header |-> next, next_hop |-> route[i + 1],
               delay |-> plan.delays[i], payload_key |-> <<"payload", shared>>]
      BY <1>3, <1>12, <2>1, <3>1 DEF ForwardHop
    <3> QED BY <1>9, <2>1, <3>2, <3>3, <3>4
  <2>2. CASE node = route[i] /\ i = n
    <3>1. parsed.kind = "final" /\ parsed.address = plan.final.address
          /\ parsed.identifier = plan.final.identifier
      BY <1>5, <2>2
    <3>2. process_header(header, private_key(node)) = FinalHop(parsed, keys)
      BY <1>4, <2>0, <3>1 DEF process_header
    <3>3. FinalHop(parsed, keys)
            = [kind |-> "final",
               destination |-> [address |-> plan.final.address, identifier |-> plan.final.identifier],
               payload_key |-> <<"payload", shared>>]
      BY <1>3, <2>2, <3>1 DEF FinalHop
    <3> QED BY <1>9, <2>2, <3>2, <3>3
  <2>3. CASE node # route[i]
    BY <1>4, <1>5, <1>8, <2>0, <2>3 DEF process_header
  <2> QED BY <2>1, <2>2, <2>3
<1>11. ASSUME NEW b
       PROVE  process_header_with_derived_keys(header, b, keys)
                = IF node # route[i] \/ (i # n /\ b = <<>>) THEN Failed
                  ELSE IF i # n THEN [Told(plan, secret, i) EXCEPT !.header.shared_secret = b[1]]
                  ELSE Told(plan, secret, i)
  <2> DEFINE p == open(header.routing_info, keys)
  <2>0. p = parsed
    BY <1>2 DEF parsed
  <2>1. CASE node = route[i] /\ i # n
    <3>1. parsed.kind = "forward" /\ parsed.next_hop = route[i + 1] /\ parsed.delay = plan.delays[i]
          /\ parsed.routing_info = Layers(plan)[i + 1]
      BY <1>5, <2>1
    <3>2. process_header_with_derived_keys(header, b, keys)
            = IF b = <<>> THEN Failed ELSE ForwardHop(b[1], parsed, keys)
      BY <2>0, <3>1 DEF process_header_with_derived_keys
    <3> DEFINE s == b[1]
    <3>3. ForwardHop(s, parsed, keys)
            = [kind |-> "forward",
               header |-> [shared_secret |-> s, routing_info |-> Layers(plan)[i + 1]],
               next_hop |-> route[i + 1], delay |-> plan.delays[i], payload_key |-> <<"payload", shared>>]
      BY <1>3, <2>1, <3>1 DEF ForwardHop
    <3>4. [Told(plan, secret, i) EXCEPT !.header.shared_secret = s]
            = [kind |-> "forward",
               header |-> [shared_secret |-> s, routing_info |-> Layers(plan)[i + 1]],
               next_hop |-> route[i + 1], delay |-> plan.delays[i], payload_key |-> <<"payload", shared>>]
      <4> HIDE DEF s
      <4>1. Told(plan, secret, i)
              = [kind |-> "forward", header |-> next, next_hop |-> route[i + 1],
                 delay |-> plan.delays[i], payload_key |-> <<"payload", shared>>]
        BY <1>9, <2>1
      <4> QED BY <1>12, <4>1
    <3> QED BY <2>1, <3>2, <3>3, <3>4
  <2>2. CASE node = route[i] /\ i = n
    <3>1. parsed.kind = "final" /\ parsed.address = plan.final.address
          /\ parsed.identifier = plan.final.identifier
      BY <1>5, <2>2
    <3>2. process_header_with_derived_keys(header, b, keys) = FinalHop(parsed, keys)
      BY <2>0, <3>1 DEF process_header_with_derived_keys
    <3>3. FinalHop(parsed, keys)
            = [kind |-> "final",
               destination |-> [address |-> plan.final.address, identifier |-> plan.final.identifier],
               payload_key |-> <<"payload", shared>>]
      BY <1>3, <2>2, <3>1 DEF FinalHop
    <3> QED BY <1>9, <2>2, <3>2, <3>3
  <2>3. CASE node # route[i]
    BY <1>5, <1>8, <2>0, <2>3 DEF process_header_with_derived_keys
  <2> QED BY <2>1, <2>2, <2>3
<1> QED BY <1>6, <1>10, <1>11 DEF header, keys, route, n, chain

-----------------------------------------------------------------------------
(* Payloads.                                                               *)

\* The layers of the i-th node and those after it, the i-th's outermost.
LayersFrom(keys, n, i) == [l \in 1..(n + 1 - i) |-> <<"encrypted", keys[n + 1 - l]>>]

\* Zeros, the message, the mark and zeros.
ByteOf(message, k) ==
  IF k <= SECURITY_PARAMETER THEN 0
  ELSE IF k <= SECURITY_PARAMETER + Len(message) THEN message[k - SECURITY_PARAMETER]
  ELSE IF k = SECURITY_PARAMETER + Len(message) + 1 THEN 1 ELSE 0

\* The payload that the i-th node gets.
PayloadAt(message, payload_size, keys, n, i) ==
  [k \in 1..payload_size |-> [byte |-> ByteOf(message, k), layers |-> LayersFrom(keys, n, i)]]

\* A layer more and a layer less.
LEMMA LayersStep ==
  ASSUME NEW n \in Nat, NEW keys, NEW i \in 1..n
  PROVE  LET outer == LayersFrom(keys, n, i)
             inner == LayersFrom(keys, n, i + 1)
             last == <<"encrypted", keys[i]>>
         IN  /\ Append(inner, last) = outer
             /\ outer # <<>> /\ Last(outer) = last /\ Front(outer) = inner
             /\ inner # <<>> => \E x : Last(inner) = <<"encrypted", x>>
<1> DEFINE outer == LayersFrom(keys, n, i)
           inner == LayersFrom(keys, n, i + 1)
           last == <<"encrypted", keys[i]>>
           m == n - i
           k == n + 1 - i
<1>1. m \in Nat /\ k \in Nat /\ m + 1 = k /\ n + 1 - (i + 1) = m /\ k # 0 /\ k - 1 = m /\ n + 1 - k = i
      /\ k \in 1..k /\ m \in (1 - 1)..k /\ 1 \in 1..(k + 1)
  OBVIOUS
<1>2. outer = [l \in 1..k |-> <<"encrypted", keys[n + 1 - l]>>]
  BY DEF LayersFrom
<1>3. inner = [l \in 1..m |-> <<"encrypted", keys[n + 1 - l]>>]
  BY <1>1 DEF LayersFrom
<1> HIDE DEF outer, inner, m, k
<1>4. IsString(outer, k) /\ IsString(inner, m)
  BY <1>2, <1>3 DEF IsString
<1>5. Len(outer) = k /\ Len(inner) = m
  BY <1>1, <1>4, LenIs
<1>6. outer[k] = last
  BY <1>1, <1>2
<1>7. Append(inner, last) = outer
  <2> HIDE DEF last
  <2>1. Append(inner, last) = [l \in 1..(m + 1) |-> IF l <= m THEN inner[l] ELSE last]
    BY <1>1, <1>4, Added
  <2>2. ASSUME NEW l \in 1..k PROVE (IF l <= m THEN inner[l] ELSE last) = outer[l]
    <3>1. CASE l <= m
      <4>1. l \in 1..m
        BY <1>1, <3>1
      <4> QED BY <1>2, <1>3, <3>1, <4>1
    <3>2. CASE ~(l <= m)
      <4>1. l = k
        BY <1>1, <3>2
      <4> QED BY <1>6, <3>2, <4>1
    <3> QED BY <3>1, <3>2
  <2> QED BY <1>1, <1>4, <2>1, <2>2 DEF IsString
<1>8. Last(outer) = last /\ outer # <<>>
  <2>1. Len(<<>>) = 0
    OBVIOUS
  <2> QED BY <1>1, <1>5, <1>6, <2>1 DEF Last
<1>9. Front(outer) = inner
  <2>1. SubSeq(outer, 1, m) = [l \in 1..(m - 1 + 1) |-> outer[l + 1 - 1]]
    BY <1>1, <1>4, Part
  <2>2. m - 1 + 1 = m /\ \A l \in 1..m : l + 1 - 1 = l /\ l \in 1..k
    BY <1>1
  <2>3. \A l \in 1..m : outer[l] = inner[l]
    BY <1>2, <1>3, <2>2
  <2>4. SubSeq(outer, 1, m) = [l \in 1..m |-> inner[l]]
    BY <2>1, <2>2, <2>3
  <2> QED BY <1>1, <1>4, <1>5, <2>4 DEF Front, IsString
<1>10. inner # <<>> => \E x : Last(inner) = <<"encrypted", x>>
  <2>1. inner # <<>> => m # 0
    BY <1>3
  <2>2. m # 0 => m \in 1..m
    BY <1>1
  <2>3. m # 0 => inner[m] = <<"encrypted", keys[n + 1 - m]>>
    BY <1>3, <2>2
  <2> QED BY <1>5, <2>1, <2>3 DEF Last
<1> QED BY <1>7, <1>8, <1>9, <1>10 DEF outer, inner

\* A layer is put on the payload, and taken off.
LEMMA PayloadStep ==
  ASSUME NEW n \in Nat, NEW keys, NEW i \in 1..n, NEW message, NEW payload_size
  PROVE  /\ add_encryption_layer(PayloadAt(message, payload_size, keys, n, i + 1), keys[i])
              = PayloadAt(message, payload_size, keys, n, i)
         /\ unwrap_payload(PayloadAt(message, payload_size, keys, n, i), keys[i])
              = PayloadAt(message, payload_size, keys, n, i + 1)
<1> DEFINE outer == LayersFrom(keys, n, i)
           inner == LayersFrom(keys, n, i + 1)
           last == <<"encrypted", keys[i]>>
           inverse == <<"decrypted", keys[i]>>
           b(k) == ByteOf(message, k)
           before == PayloadAt(message, payload_size, keys, n, i + 1)
           after == PayloadAt(message, payload_size, keys, n, i)
<1>1. /\ Append(inner, last) = outer
      /\ outer # <<>> /\ Last(outer) = last /\ Front(outer) = inner
      /\ inner # <<>> => \E x : Last(inner) = <<"encrypted", x>>
  BY LayersStep
<1>2. ~(inner # <<>> /\ Last(inner) = inverse)
  <2>1. \A x : <<"encrypted", x>> # inverse
    OBVIOUS
  <2> HIDE DEF inverse
  <2> QED BY <1>1, <2>1
<1>3. before = [k \in 1..payload_size |-> [byte |-> b(k), layers |-> inner]]
  BY DEF PayloadAt
<1>4. after = [k \in 1..payload_size |-> [byte |-> b(k), layers |-> outer]]
  BY DEF PayloadAt
<1>5. \A x, l, y : [[byte |-> x, layers |-> l] EXCEPT !.layers = y] = [byte |-> x, layers |-> y]
  OBVIOUS
<1> HIDE DEF before, after, inner, outer, b
<1>6. add_encryption_layer(before, keys[i])
        = [k \in 1..payload_size |->
             [before[k] EXCEPT !.layers = IF @ # <<>> /\ Last(@) = inverse THEN Front(@) ELSE Append(@, last)]]
  BY <1>3 DEF add_encryption_layer, Layered
<1>7. unwrap_payload(after, keys[i])
        = [k \in 1..payload_size |->
             [after[k] EXCEPT !.layers = IF @ # <<>> /\ Last(@) = last THEN Front(@) ELSE Append(@, inverse)]]
  BY <1>4 DEF unwrap_payload, Layered
<1> HIDE DEF last, inverse
<1>8. ASSUME NEW k \in 1..payload_size
      PROVE  /\ [before[k] EXCEPT !.layers = IF @ # <<>> /\ Last(@) = inverse THEN Front(@) ELSE Append(@, last)] = after[k]
             /\ [after[k] EXCEPT !.layers = IF @ # <<>> /\ Last(@) = last THEN Front(@) ELSE Append(@, inverse)] = before[k]
  <2>1. before[k] = [byte |-> b(k), layers |-> inner] /\ before[k].layers = inner
    BY <1>3
  <2>2. after[k] = [byte |-> b(k), layers |-> outer] /\ after[k].layers = outer
    BY <1>4
  <2>3. [before[k] EXCEPT !.layers = IF @ # <<>> /\ Last(@) = inverse THEN Front(@) ELSE Append(@, last)] = after[k]
    BY <1>1, <1>2, <1>5, <2>1, <2>2, SMTT(60)
  <2>4. [after[k] EXCEPT !.layers = IF @ # <<>> /\ Last(@) = last THEN Front(@) ELSE Append(@, inverse)] = before[k]
    BY <1>1, <1>5, <2>1, <2>2
  <2> QED BY <2>3, <2>4
<1>9. add_encryption_layer(before, keys[i]) = after
  <2>1. after = [k \in 1..payload_size |-> after[k]]
    BY <1>4
  <2> QED BY <1>6, <1>8, <2>1
<1>10. unwrap_payload(after, keys[i]) = before
  <2>1. before = [k \in 1..payload_size |-> before[k]]
    BY <1>3
  <2> QED BY <1>7, <1>8, <2>1
<1> QED BY <1>9, <1>10 DEF before, after

\* The sizes that the library accepts.
IsSized(message, payload_size) ==
  /\ message \in Seq(Nat) /\ payload_size \in Nat
  /\ SECURITY_PARAMETER + Len(message) + 1 <= payload_size

\* What the payload is before any layer.
LEMMA FinalPayload ==
  ASSUME NEW message, NEW payload_size, IsSized(message, payload_size)
  PROVE  set_final_payload(message, payload_size)
           = [k \in 1..payload_size |-> [byte |-> ByteOf(message, k), layers |-> <<>>]]
<1> DEFINE s == SECURITY_PARAMETER
           m == Len(message)
           a == repeat(0, s)
           one == <<1>>
           start == (a \o message) \o one
           rest == repeat(0, payload_size - Len(start))
           all == start \o rest
           b == a \o message
<1>1. s \in Nat /\ m \in Nat /\ payload_size \in Nat /\ IsString(message, m) /\ s + m + 1 <= payload_size
      /\ s + m \in Nat /\ 1 \in Nat /\ (s + m) + 1 \in Nat
  BY SizesAssumption, SequenceIs DEF IsSized
<1>2. IsString(a, s) /\ \A k \in 1..s : a[k] = 0
  BY DEF repeat, IsString
<1>3. IsString(one, 1) /\ one[1] = 1
  <2>1. one = [k \in 1..1 |-> one[k]]
    OBVIOUS
  <2> QED BY <2>1 DEF IsString
<1> HIDE DEF s, m, a, one
<1>4. /\ IsString(b, s + m)
      /\ \A k \in 1..(s + m) : b[k] = IF k <= s THEN a[k] ELSE message[k - s]
  <2>1. Len(a) = s /\ Len(message) = m
    BY <1>1, <1>2, LenIs
  <2> QED BY <1>1, <1>2, <2>1, Concat
<1> HIDE DEF b
<1>5. /\ IsString(start, (s + m) + 1)
      /\ \A k \in 1..((s + m) + 1) : start[k] = IF k <= s + m THEN b[k] ELSE one[k - (s + m)]
  <2> DEFINE n == s + m
             c == b \o one
  <2>1. n \in Nat /\ IsString(b, n)
    BY <1>1, <1>4
  <2> HIDE DEF n
  <2>2. Len(b) = n /\ Len(one) = 1
    BY <1>1, <1>3, <2>1, LenIs
  <2>3. IsString(c, n + 1) /\ \A k \in 1..(n + 1) : c[k] = IF k <= n THEN b[k] ELSE one[k - n]
    BY <1>1, <1>3, <2>1, <2>2, Concat
  <2>4. start = c
    BY DEF b
  <2> HIDE DEF start, c
  <2> QED BY <2>3, <2>4 DEF n
<1> HIDE DEF start
<1> DEFINE n == (s + m) + 1
           l == payload_size - n
<1>6. n \in Nat /\ l \in Nat /\ n + l = payload_size /\ Len(start) = n
  <2>1. Len(start) = n
    <3>1. IsString(start, n) /\ n \in Nat
      BY <1>1, <1>5
    <3> HIDE DEF n
    <3> QED BY <3>1, LenIs
  <2> QED BY <1>1, <2>1
<1>7. IsString(rest, l) /\ \A k \in 1..l : rest[k] = 0
  BY <1>6 DEF repeat, IsString
<1> HIDE DEF rest
<1>8. /\ IsString(all, payload_size)
      /\ \A k \in 1..payload_size : all[k] = IF k <= n THEN start[k] ELSE rest[k - n]
  <2>1. IsString(start, n)
    BY <1>5
  <2> HIDE DEF n, l
  <2>2. Len(start) = n /\ Len(rest) = l
    BY <1>6, <1>7, LenIs
  <2>3. IsString(all, n + l) /\ \A k \in 1..(n + l) : all[k] = IF k <= n THEN start[k] ELSE rest[k - n]
    BY <1>6, <1>7, <2>1, <2>2, Concat
  <2> HIDE DEF all
  <2> QED BY <1>6, <2>3
<1>9. set_final_payload(message, payload_size) = [k \in DOMAIN all |-> [byte |-> all[k], layers |-> <<>>]]
  BY DEF set_final_payload, all, rest, start, a, s, one
<1> HIDE DEF all
<1>10. ASSUME NEW k \in 1..payload_size PROVE all[k] = ByteOf(message, k)
  <2>1. CASE k <= s
    <3>1. k \in 1..s /\ k \in 1..(s + m) /\ k \in 1..n /\ k <= n /\ k <= s + m
      BY <1>1, <2>1
    <3>2. all[k] = 0
      BY <1>2, <1>4, <1>5, <1>8, <2>1, <3>1
    <3> QED BY <2>1, <3>2 DEF ByteOf, s
  <2>2. CASE ~(k <= s) /\ k <= s + m
    <3>1. k \in 1..(s + m) /\ k \in 1..n /\ k <= n
      BY <1>1, <2>2
    <3>2. all[k] = message[k - s]
      BY <1>4, <1>5, <1>8, <2>2, <3>1
    <3> QED BY <2>2, <3>2 DEF ByteOf, s, m
  <2>3. CASE k = s + m + 1
    <3>1. k \in 1..n /\ k <= n /\ ~(k <= s + m) /\ k - (s + m) = 1 /\ ~(k <= s)
      BY <1>1, <2>3
    <3>2. all[k] = 1
      BY <1>3, <1>5, <1>8, <3>1
    <3> QED BY <2>3, <3>1, <3>2 DEF ByteOf, s, m
  <2>4. CASE k > s + m + 1
    <3>1. ~(k <= n) /\ k - n \in 1..l /\ ~(k <= s + m) /\ ~(k <= s) /\ k # s + m + 1
      BY <1>1, <1>6, <2>4
    <3>2. all[k] = 0
      BY <1>7, <1>8, <3>1
    <3> QED BY <3>1, <3>2 DEF ByteOf, s, m
  <2> QED BY <1>1, <2>1, <2>2, <2>3, <2>4
<1>11. DOMAIN all = 1..payload_size
  BY <1>8 DEF IsString
<1> QED BY <1>9, <1>10, <1>11

\* The sender puts a layer on for each node.
LEMMA Encapsulated ==
  ASSUME NEW n \in Nat, NEW keys, DOMAIN keys = 1..n,
         NEW message, NEW payload_size, IsSized(message, payload_size)
  PROVE  encapsulate_message(message, keys, payload_size) = PayloadAt(message, payload_size, keys, n, 1)
<1> DEFINE text == set_final_payload(message, payload_size)
           At(i) == PayloadAt(message, payload_size, keys, n, i)
<1>1. encapsulate_message(message, keys, payload_size) = Encrypted(text, keys)
  BY DEF encapsulate_message, Encrypted
<1>2. text = At(n + 1)
  <2>1. LayersFrom(keys, n, n + 1) = <<>>
    <3>1. n + 1 - (n + 1) = 0
      OBVIOUS
    <3> QED BY <3>1 DEF LayersFrom
  <2> QED BY <2>1, FinalPayload DEF PayloadAt
<1> HIDE DEF text
<1>3. PICK h : GoesDown(h, n, "payload", text, keys) /\ DownResult(n, "payload", text, keys) = h[1]
  <2> DEFINE kind == "payload"
  <2> HIDE DEF kind
  <2>1. \E g : GoesDown(g, n, kind, text, keys) /\ DownResult(n, kind, text, keys) = g[1]
    BY Downwards
  <2> QED BY <2>1 DEF kind
<1>4. h[n + 1] = text /\ \A i \in 1..n : h[i] = add_encryption_layer(h[i + 1], keys[i])
  BY <1>3 DEF GoesDown, StepOf
<1> DEFINE T == {j \in 0..n : h[n + 1 - j] # At(n + 1 - j)}
<1> HIDE DEF At
<1>5. ASSUME T # {} PROVE FALSE
  <2>1. T \subseteq Nat
    OBVIOUS
  <2>2. PICK j \in T : \A k \in T : j <= k
    <3> HIDE DEF T
    <3> QED BY <1>5, <2>1, Least
  <2>3. j # 0
    BY <1>2, <1>4
  <2> DEFINE i == n + 1 - j
  <2>4. j - 1 \in 0..n /\ ~(j <= j - 1) /\ i \in 1..n /\ i + 1 = n + 1 - (j - 1)
    BY <2>3
  <2>5. h[i + 1] = At(i + 1)
    <3>1. h[n + 1 - (j - 1)] = At(n + 1 - (j - 1))
      BY <2>2, <2>4
    <3> HIDE DEF i
    <3> QED BY <2>4, <3>1
  <2> HIDE DEF i
  <2>6. h[i] = At(i)
    BY <1>4, <2>4, <2>5, PayloadStep DEF At
  <2> QED BY <2>6 DEF i
<1>6. h[1] = At(1)
  <2>1. n \in 0..n /\ n + 1 - n = 1
    OBVIOUS
  <2>2. h[n + 1 - n] = At(n + 1 - n)
    BY <1>5, <2>1
  <2> QED BY <2>1, <2>2
<1> QED BY <1>1, <1>3, <1>6, LayersInTurn DEF At

\* Once all layers are off, what was sent is found.
LEMMA Recovered ==
  ASSUME NEW n \in Nat, NEW keys, NEW message, NEW payload_size, IsSized(message, payload_size)
  PROVE  recover_plaintext(PayloadAt(message, payload_size, keys, n, n + 1)) = <<message>>
<1> DEFINE s == SECURITY_PARAMETER
           m == Len(message)
           p == PayloadAt(message, payload_size, keys, n, n + 1)
           last == s + m + 1
<1>1. s \in Nat /\ m \in Nat /\ payload_size \in Nat /\ IsString(message, m) /\ last <= payload_size
      /\ last \in 1..payload_size /\ last > s
  BY SizesAssumption, SequenceIs DEF IsSized
<1>2. LayersFrom(keys, n, n + 1) = <<>>
  <2>1. n + 1 - (n + 1) = 0
    OBVIOUS
  <2> QED BY <2>1 DEF LayersFrom
<1>3. p = [k \in 1..payload_size |-> [byte |-> ByteOf(message, k), layers |-> <<>>]]
  BY <1>2 DEF PayloadAt
<1> HIDE DEF p, s, m
<1>4. DOMAIN p = 1..payload_size /\ \A k \in 1..payload_size : p[k].byte = ByteOf(message, k) /\ p[k].layers = <<>>
  BY <1>3
<1>5. /\ \A k \in 1..s : ByteOf(message, k) = 0
      /\ \A k \in 1..m : ByteOf(message, k + s) = message[k]
      /\ ByteOf(message, last) = 1
      /\ \A k \in 1..payload_size : k > last => ByteOf(message, k) = 0
  <2>1. ASSUME NEW k \in 1..s PROVE ByteOf(message, k) = 0
    <3>1. k <= s
      BY <1>1
    <3> QED BY <3>1 DEF ByteOf, s
  <2>2. ASSUME NEW k \in 1..m PROVE ByteOf(message, k + s) = message[k]
    <3> DEFINE x == k + s
    <3>1. ~(x <= s) /\ x <= s + m /\ x - s = k
      BY <1>1
    <3> HIDE DEF x
    <3>2. ByteOf(message, x) = message[k]
      BY <3>1 DEF ByteOf, s, m
    <3> QED BY <3>2 DEF x
  <2>3. ByteOf(message, last) = 1
    <3>1. ~(last <= s) /\ ~(last <= s + m)
      BY <1>1
    <3> QED BY <3>1 DEF ByteOf, s, m
  <2>4. ASSUME NEW k \in 1..payload_size, k > last PROVE ByteOf(message, k) = 0
    <3>1. ~(k <= s) /\ ~(k <= s + m) /\ k # last
      BY <1>1, <2>4
    <3> QED BY <3>1 DEF ByteOf, s, m
  <2> QED BY <2>1, <2>2, <2>3, <2>4
<1> HIDE DEF last
<1>6. last \in marks(p) /\ \A k \in marks(p) : k <= last
  <2>1. marks(p) = {k \in 1..payload_size : k > s /\ ByteOf(message, k) = 1}
    BY <1>4 DEF marks, s
  <2>2. last \in marks(p)
    BY <1>1, <1>5, <2>1
  <2>3. ASSUME NEW k \in marks(p) PROVE k <= last
    <3>1. k \in 1..payload_size /\ ByteOf(message, k) = 1
      BY <2>1
    <3>2. ~(k > last)
      BY <1>5, <3>1
    <3> QED BY <1>1, <3>1, <3>2
  <2> QED BY <2>2, <2>3
<1> DEFINE mark == CHOOSE k \in marks(p) : \A j \in marks(p) : j <= k
<1>7. mark = last
  <2>1. mark \in marks(p) /\ \A j \in marks(p) : j <= mark
    BY <1>6
  <2>2. marks(p) \subseteq Nat
    BY <1>4 DEF marks
  <2> HIDE DEF mark
  <2>3. mark <= last /\ last <= mark /\ mark \in Nat /\ last \in Nat
    BY <1>6, <2>1, <2>2
  <2> QED BY <2>3
<1>8. /\ ~ \E k \in DOMAIN p : p[k].layers # <<>>
      /\ ~ \E k \in 1..s : p[k].byte # 0
      /\ marks(p) # {}
  <2>1. \A k \in 1..s : k \in 1..payload_size
    BY <1>1
  <2> QED BY <1>4, <1>5, <1>6, <2>1
<1>9. recover_plaintext(p) = <<[k \in 1..(mark - 1 - s) |-> p[k + s].byte]>>
  <2> HIDE DEF mark
  <2>1. recover_plaintext(p)
          = LET x == CHOOSE k \in marks(p) : \A j \in marks(p) : j <= k
            IN  <<[k \in 1..(x - 1 - s) |-> p[k + s].byte]>>
    BY <1>8 DEF recover_plaintext, s
  <2> QED BY <2>1 DEF mark
<1> HIDE DEF mark
<1>10. last - 1 - s = m
  BY <1>1 DEF last
<1>11. \A k \in 1..m : p[k + s].byte = message[k]
  <2>1. \A k \in 1..m : k + s \in 1..payload_size
    BY <1>1 DEF last
  <2> QED BY <1>4, <1>5, <2>1
<1>12. [k \in 1..(mark - 1 - s) |-> p[k + s].byte] = message
  <2>1. [k \in 1..m |-> p[k + s].byte] = [k \in 1..m |-> message[k]]
    BY <1>11
  <2> QED BY <1>1, <1>7, <1>10, <2>1 DEF IsString
<1> QED BY <1>9, <1>12 DEF p

-----------------------------------------------------------------------------
(* What is sent.                                                           *)

IsHeader(header) ==
  LET info == header.routing_info
      enc == info.enc_routing_information
  IN  /\ IsString(enc, 3 * MAX_PATH_LENGTH)
      /\ info = [integrity_mac |-> info.integrity_mac, enc_routing_information |-> enc]
      /\ header = [shared_secret |-> header.shared_secret, routing_info |-> info]

OnWire(b, header, rest, k) ==
  /\ IsString(b, HEADER_SIZE + k)
  /\ b[1] = cell(<<"shared_secret", header.shared_secret>>)
  /\ b[2] = header.routing_info.integrity_mac
  /\ \A p \in 1..(3 * MAX_PATH_LENGTH) : b[p + 2] = header.routing_info.enc_routing_information[p]
  /\ \A p \in 1..k : b[HEADER_SIZE + p] = rest[p]

\* A header is HEADER_SIZE cells, and is found in them again.
LEMMA WireIs ==
  ASSUME NEW header, IsHeader(header), NEW k \in Nat, NEW rest, IsString(rest, k)
  PROVE  /\ OnWire(header_to_bytes(header) \o rest, header, rest, k)
         /\ header_from_bytes(take(header_to_bytes(header) \o rest, HEADER_SIZE)) = header
<1> DEFINE M == 3 * MAX_PATH_LENGTH
           H == M + 2
           secret == <<"shared_secret", header.shared_secret>>
           mac == header.routing_info.integrity_mac
           enc == header.routing_info.enc_routing_information
           start == <<cell(secret), mac>>
           front == start \o enc
           b == front \o rest
           part == take(b, H)
<1>1. /\ M \in Nat /\ H \in Nat /\ 2 + M = H /\ HEADER_SIZE = H /\ 2 \in Nat /\ H + k \in Nat
      /\ H \in (1 - 1)..(H + k) /\ 1 \in 1..(H + k + 1) /\ M \in (1 - 1)..M /\ 3 \in 1..(H + 1) /\ H \in (3 - 1)..H
      /\ Len(start) = 2
  BY Sizes
<1>2. header_to_bytes(header) = front
  BY DEF header_to_bytes
<1>3. IsString(enc, M) /\ header.routing_info = [integrity_mac |-> mac, enc_routing_information |-> enc]
      /\ header = [shared_secret |-> header.shared_secret, routing_info |-> header.routing_info]
  BY DEF IsHeader
<1>4. IsString(start, 2) /\ start[1] = cell(secret) /\ start[2] = mac
  <2>1. ASSUME NEW x, NEW y PROVE IsString(<<x, y>>, 2)
    BY DEF IsString
  <2> QED BY <2>1
<1> HIDE DEF start, M, H, enc
<1>5. Len(enc) = M
  BY <1>1, <1>3, LenIs
<1>6. IsString(front, H) /\ \A p \in 1..H : front[p] = IF p <= 2 THEN start[p] ELSE enc[p - 2]
  <2> DEFINE two == 2
  <2>0. two \in Nat /\ M \in Nat /\ IsString(start, two) /\ IsString(enc, M) /\ Len(start) = two /\ Len(enc) = M
    BY <1>1, <1>3, <1>4, <1>5
  <2>1. IsString(front, two + M) /\ \A i \in 1..(two + M) : front[i] = IF i <= two THEN start[i] ELSE enc[i - two]
    <3> HIDE DEF two
    <3> QED BY <2>0, Concat
  <2> QED BY <1>1, <2>1
<1> HIDE DEF front
<1>7. Len(front) = H /\ Len(rest) = k
  BY <1>1, <1>6, LenIs
<1>8. IsString(b, H + k) /\ \A p \in 1..(H + k) : b[p] = IF p <= H THEN front[p] ELSE rest[p - H]
  <2>1. H \in Nat
    BY <1>1
  <2>2. IsString(b, H + k) /\ \A i \in 1..(H + k) : b[i] = IF i <= H THEN front[i] ELSE rest[i - H]
    BY <1>6, <1>7, <2>1, Concat
  <2> QED BY <2>2
<1> HIDE DEF b
<1>9. \A p \in 1..H : b[p] = front[p]
  BY <1>1, <1>8
<1>10. b[1] = cell(secret) /\ b[2] = mac /\ \A p \in 1..M : b[p + 2] = enc[p]
  <2>1. 1 \in 1..H /\ 2 \in 1..H /\ \A p \in 1..M : p + 2 \in 1..H /\ ~(p + 2 <= 2) /\ p + 2 - 2 = p
    BY <1>1 
  <2> QED BY <1>4, <1>6, <1>9, <2>1
<1>11. \A p \in 1..k : b[H + p] = rest[p]
  <2>1. \A p \in 1..k : H + p \in 1..(H + k) /\ ~(H + p <= H) /\ (H + p) - H = p
    BY <1>1
  <2> QED BY <1>8, <2>1
<1>12. part = [p \in 1..(H - 1 + 1) |-> b[p + 1 - 1]]
  BY <1>1, <1>8, Part DEF take
<1>13. part = [p \in 1..H |-> b[p]]
  BY <1>1, <1>12
<1> HIDE DEF part
<1>14. drop(part, 2) = enc
  <2>1. IsString(part, H) /\ Len(part) = H
    <3>1. IsString(part, H)
      BY <1>13 DEF IsString
    <3> QED BY <1>1, <3>1, LenIs
  <2>2. drop(part, 2) = [p \in 1..(H - 3 + 1) |-> part[p + 3 - 1]]
    BY <1>1, <2>1, Part DEF drop
  <2>3. H - 3 + 1 = M
    BY <1>1
  <2>4. ASSUME NEW p \in 1..M PROVE part[p + 3 - 1] = enc[p]
    <3>1. p + 2 \in 1..H /\ p + 3 - 1 = p + 2
      BY <1>1
    <3> QED BY <1>10, <1>13, <3>1
  <2>5. drop(part, 2) = [p \in 1..M |-> enc[p]]
    BY <2>2, <2>3, <2>4
  <2> QED BY <1>3, <2>5 DEF IsString
<1>15. part[1] = cell(secret) /\ part[2] = mac /\ cell(secret).text = secret /\ secret[2] = header.shared_secret
  <2>1. 1 \in 1..H /\ 2 \in 1..H
    BY <1>1
  <2> QED BY <1>10, <1>13, <2>1, CellIsCell
<1>16. header_from_bytes(part) = header
  <2>1. part[1].text[2] = header.shared_secret
    BY <1>15
  <2> QED BY <1>3, <1>14, <1>15, <2>1 DEF header_from_bytes
<1>17. OnWire(b, header, rest, k)
  BY <1>1, <1>8, <1>10, <1>11 DEF OnWire, M, H, enc
<1> QED BY <1>1, <1>2, <1>16, <1>17 DEF b, part

\* What comes after a header is found again.
LEMMA WireRest ==
  ASSUME NEW header, NEW k \in Nat, NEW rest, IsString(rest, k), NEW b, OnWire(b, header, rest, k)
  PROVE  Len(b) = HEADER_SIZE + k /\ drop(b, HEADER_SIZE) = rest
<1> DEFINE H == HEADER_SIZE
<1>1. H \in Nat /\ H + k \in Nat /\ H + 1 \in 1..(H + k + 1) /\ H + k \in (H + 1 - 1)..(H + k)
      /\ H + k - (H + 1) + 1 = k
  BY Sizes
<1>2. IsString(b, H + k) /\ \A p \in 1..k : b[H + p] = rest[p]
  BY DEF OnWire
<1> HIDE DEF H
<1>3. Len(b) = H + k
  BY <1>1, <1>2, LenIs
<1>4. SubSeq(b, H + 1, H + k) = [p \in 1..(H + k - (H + 1) + 1) |-> b[p + (H + 1) - 1]]
  BY <1>1, <1>2, Part
<1>5. \A p \in 1..k : p + (H + 1) - 1 = H + p
  BY <1>1
<1>6. SubSeq(b, H + 1, H + k) = [p \in 1..k |-> rest[p]]
  BY <1>1, <1>2, <1>4, <1>5
<1>7. drop(b, H) = rest
  BY <1>3, <1>6 DEF drop, IsString
<1> QED BY <1>3, <1>7 DEF H

\* The headers of a route are ones, with nothing in clear.
LEMMA HeadersAre ==
  ASSUME NEW plan, NEW secret, IsPlan(plan, secret), NEW i \in 1..Len(plan.route)
  PROVE  /\ IsHeader(HeaderAt(plan, secret, i))
         /\ \A p \in 1..(3 * MAX_PATH_LENGTH) : Layers(plan)[i].enc_routing_information[p].pads # {}
<1> DEFINE n == Len(plan.route)
           layer == Layers(plan)[i]
           enc == layer.enc_routing_information
           keys == plan.keys[i]
<1>1. n \in 1..MAX_PATH_LENGTH
  BY DEF IsPlan
<1>2. PICK f : AreLayers(plan, n, f, Layers(plan))
  BY PlanHas DEF IsMade
<1>3. AreDistinct(plan.keys, n)
  BY PlanHas
<1>4. IsLayer(layer, keys, Info(plan, n, f, Layers(plan), i))
  BY <1>1, <1>2, LayersAre
<1>5. \A p \in 1..(3 * MAX_PATH_LENGTH) : enc[p].pads # {}
  BY <1>1, <1>2, <1>3, LayersHidden
<1> DEFINE mac == HeaderIntegrityMac(keys["integrity_mac"], enc)
<1>6. IsString(enc, 3 * MAX_PATH_LENGTH) /\ layer = [integrity_mac |-> mac, enc_routing_information |-> enc]
  BY <1>4 DEF IsLayer, AreCells
<1> HIDE DEF mac, enc
<1>7. layer.integrity_mac = mac
  BY <1>6
<1>8. HeaderAt(plan, secret, i) = [shared_secret |-> Chain(secret, plan.route)[i - 1], routing_info |-> layer]
  BY DEF HeaderAt
<1> HIDE DEF layer
<1>9. HeaderAt(plan, secret, i).routing_info = layer
      /\ HeaderAt(plan, secret, i).shared_secret = Chain(secret, plan.route)[i - 1]
  BY <1>8
<1>10. IsHeader(HeaderAt(plan, secret, i))
  BY <1>6, <1>7, <1>8, <1>9 DEF IsHeader, enc
<1> QED BY <1>5, <1>10 DEF enc, layer

-----------------------------------------------------------------------------
(* Packets.                                                                *)

PayloadOf(plan, secret, message, payload_size, i) ==
  PayloadAt(message, payload_size, PayloadKeys(secret, plan.route), Len(plan.route), i)

\* The packet for the i-th node of a route.
PacketAt(plan, secret, message, payload_size, i) ==
  [kind |-> "packet", header |-> HeaderAt(plan, secret, i),
   payload |-> PayloadOf(plan, secret, message, payload_size, i)]

\* A packet is one again, and its length is always the same.
LEMMA PacketOnWire ==
  ASSUME NEW plan, NEW secret, IsPlan(plan, secret), NEW i \in 1..Len(plan.route),
         NEW message, NEW payload_size, IsSized(message, payload_size)
  PROVE  LET packet == PacketAt(plan, secret, message, payload_size, i)
         IN  /\ packet_from_bytes(packet_to_bytes(packet)) = packet
             /\ Len(packet_to_bytes(packet)) = HEADER_SIZE + payload_size
             /\ OnWire(packet_to_bytes(packet), HeaderAt(plan, secret, i),
                       PayloadOf(plan, secret, message, payload_size, i), payload_size)
<1> DEFINE header == HeaderAt(plan, secret, i)
           rest == PayloadOf(plan, secret, message, payload_size, i)
           packet == PacketAt(plan, secret, message, payload_size, i)
           b == header_to_bytes(header) \o rest
<1>1. packet = [kind |-> "packet", header |-> header, payload |-> rest]
  BY DEF PacketAt
<1>2. packet_to_bytes(packet) = b
  BY <1>1 DEF packet_to_bytes
<1>3. IsHeader(header)
  BY HeadersAre
<1>4. payload_size \in Nat /\ IsString(rest, payload_size)
  BY DEF IsSized, IsString, PayloadOf, PayloadAt
<1> HIDE DEF header, rest
<1>5. OnWire(b, header, rest, payload_size) /\ header_from_bytes(take(b, HEADER_SIZE)) = header
  BY <1>3, <1>4, WireIs
<1> HIDE DEF b
<1>6. Len(b) = HEADER_SIZE + payload_size /\ drop(b, HEADER_SIZE) = rest
  BY <1>4, <1>5, WireRest
<1>7. ~(Len(b) < HEADER_SIZE + PAYLOAD_OVERHEAD_SIZE)
  <2>1. Len(message) \in Nat /\ SECURITY_PARAMETER \in Nat /\ SECURITY_PARAMETER + Len(message) + 1 <= payload_size
        /\ HEADER_SIZE \in Nat
    BY Sizes, SizesAssumption, SequenceIs DEF IsSized
  <2> QED BY <1>4, <1>6, <2>1 DEF PAYLOAD_OVERHEAD_SIZE
<1>8. packet_from_bytes(b) = packet
  BY <1>1, <1>5, <1>6, <1>7 DEF packet_from_bytes
<1> QED BY <1>2, <1>5, <1>6, <1>8 DEF header, rest

\* The sizes that are accepted.
LEMMA Validated ==
  ASSUME NEW message \in Seq(Nat), NEW payload_size \in Nat
  PROVE  /\ validate_parameters(payload_size, Len(message)) <=>
              payload_size >= DIGEST_RESULT_SIZE /\ payload_size >= SECURITY_PARAMETER + Len(message) + 1
         /\ validate_parameters(payload_size, Len(message)) => IsSized(message, payload_size)
<1> DEFINE m == Len(message)
<1>1. m \in Nat /\ SECURITY_PARAMETER \in Nat /\ DIGEST_RESULT_SIZE \in Nat
  BY SizesAssumption
<1> HIDE DEF m
<1>2. validate_parameters(payload_size, m) <=>
        payload_size >= DIGEST_RESULT_SIZE /\ payload_size >= SECURITY_PARAMETER + m + 1
  BY <1>1 DEF validate_parameters, PAYLOAD_OVERHEAD_SIZE
<1> QED BY <1>1, <1>2 DEF IsSized, m

\* A header and its keys make the first packet, if the sizes are accepted.
LEMMA PacketMade ==
  ASSUME NEW plan, NEW secret, IsPlan(plan, secret), NEW message \in Seq(Nat), NEW payload_size \in Nat
  PROVE  with_payload(HeaderAt(plan, secret, 1), PayloadKeys(secret, plan.route), message, payload_size)
           = IF validate_parameters(payload_size, Len(message))
               THEN PacketAt(plan, secret, message, payload_size, 1) ELSE Failed
<1> DEFINE keys == PayloadKeys(secret, plan.route)
           n == Len(plan.route)
<1>1. n \in Nat /\ DOMAIN keys = 1..n
  BY DEF IsPlan, PayloadKeys
<1>2. ASSUME validate_parameters(payload_size, Len(message))
      PROVE  encapsulate_message(message, keys, payload_size) = PayloadOf(plan, secret, message, payload_size, 1)
  <2>1. IsSized(message, payload_size)
    BY <1>2, Validated
  <2> HIDE DEF keys, n
  <2>2. encapsulate_message(message, keys, payload_size) = PayloadAt(message, payload_size, keys, n, 1)
    BY <1>1, <2>1, Encapsulated
  <2> QED BY <2>2 DEF PayloadOf, keys, n
<1> QED BY <1>2 DEF with_payload, PacketAt

\* What the i-th node hands on, given the secret to pass on.
Handed(plan, secret, message, payload_size, i) ==
  IF i = Len(plan.route)
    THEN [kind |-> "final",
          destination |-> [address |-> plan.final.address, identifier |-> plan.final.identifier],
          payload |-> PayloadOf(plan, secret, message, payload_size, i + 1)]
    ELSE [kind |-> "forward", next_hop |-> plan.route[i + 1], delay |-> plan.delays[i],
          packet |-> PacketAt(plan, secret, message, payload_size, i + 1)]

\* With the keys it derives, a node processes the packets that are for it and
\* no others; and so with those it has from before, if it needs no secret to
\* pass on or has it.
LEMMA PacketProcessed ==
  ASSUME NEW plan, NEW secret, IsPlan(plan, secret), NEW i \in 1..Len(plan.route),
         NEW message, NEW payload_size, NEW node
  PROVE  LET packet == PacketAt(plan, secret, message, payload_size, i)
             handed == Handed(plan, secret, message, payload_size, i)
         IN  /\ process(packet, private_key(node)) = IF node = plan.route[i] THEN handed ELSE Failed
             /\ process_with_derived_keys(packet, <<>>, KeysOf(plan, secret, i, node))
                  = IF node = plan.route[i] /\ i = Len(plan.route) THEN handed ELSE Failed
             /\ process_with_derived_keys(packet, <<Chain(secret, plan.route)[i]>>, KeysOf(plan, secret, i, node))
                  = IF node = plan.route[i] THEN handed ELSE Failed
             /\ node # plan.route[i] =>
                  \A b : process_with_derived_keys(packet, b, KeysOf(plan, secret, i, node)) = Failed
<1> DEFINE packet == PacketAt(plan, secret, message, payload_size, i)
           handed == Handed(plan, secret, message, payload_size, i)
           header == HeaderAt(plan, secret, i)
           told == Told(plan, secret, i)
           keys == KeysOf(plan, secret, i, node)
           inner == PayloadOf(plan, secret, message, payload_size, i)
           outer == PayloadOf(plan, secret, message, payload_size, i + 1)
           chain == Chain(secret, plan.route)
           n == Len(plan.route)
           right == node = plan.route[i]
           blinded == <<chain[i]>>
<1>1. /\ process_header(header, private_key(node)) = IF right THEN told ELSE Failed
      /\ \A s : process_header_with_derived_keys(header, s, keys)
           = IF ~right \/ (i # n /\ s = <<>>) THEN Failed
             ELSE IF i # n THEN [told EXCEPT !.header.shared_secret = s[1]] ELSE told
      /\ i # n => HeaderAt(plan, secret, i + 1).shared_secret = chain[i]
  BY NodeProcesses
<1>2. packet.header = header /\ packet.payload = inner
  BY DEF PacketAt
<1>3. unwrap_payload(inner, <<"payload", Shared(secret, plan.route, i)>>) = outer
  <2> DEFINE k == PayloadKeys(secret, plan.route)
  <2>1. k[i] = <<"payload", Shared(secret, plan.route, i)>> /\ n \in Nat /\ i \in 1..n
    BY DEF PayloadKeys, IsPlan
  <2> HIDE DEF k, n
  <2>2. unwrap_payload(PayloadAt(message, payload_size, k, n, i), k[i]) = PayloadAt(message, payload_size, k, n, i + 1)
    BY <2>1, PayloadStep
  <2> QED BY <2>1, <2>2 DEF PayloadOf, k, n
<1>4. with_header(told, inner) = handed
  <2>1. CASE i = n
    <3>1. told = [kind |-> "final",
                  destination |-> [address |-> plan.final.address, identifier |-> plan.final.identifier],
                  payload_key |-> <<"payload", Shared(secret, plan.route, i)>>]
      BY <2>1 DEF Told
    <3>2. told.kind = "final" /\ told.payload_key = <<"payload", Shared(secret, plan.route, i)>>
          /\ told.destination = [address |-> plan.final.address, identifier |-> plan.final.identifier]
      BY <3>1
    <3> HIDE DEF told, inner, outer
    <3>3. with_header(told, inner)
            = [kind |-> "final",
               destination |-> [address |-> plan.final.address, identifier |-> plan.final.identifier],
               payload |-> outer]
      BY <1>3, <3>2 DEF with_header
    <3> QED BY <2>1, <3>3 DEF Handed, outer
  <2>2. CASE i # n
    <3>1. told = [kind |-> "forward", header |-> HeaderAt(plan, secret, i + 1),
                  next_hop |-> plan.route[i + 1], delay |-> plan.delays[i],
                  payload_key |-> <<"payload", Shared(secret, plan.route, i)>>]
      BY <2>2 DEF Told
    <3>2. told.kind = "forward" /\ told.payload_key = <<"payload", Shared(secret, plan.route, i)>>
          /\ told.header = HeaderAt(plan, secret, i + 1)
          /\ told.next_hop = plan.route[i + 1] /\ told.delay = plan.delays[i]
      BY <3>1
    <3> HIDE DEF told, inner, outer
    <3>3. with_header(told, inner)
            = [kind |-> "forward", next_hop |-> plan.route[i + 1], delay |-> plan.delays[i],
               packet |-> [kind |-> "packet", header |-> HeaderAt(plan, secret, i + 1), payload |-> outer]]
      BY <1>3, <3>2 DEF with_header
    <3> QED BY <2>2, <3>3 DEF Handed, PacketAt, outer
  <2> QED BY <2>1, <2>2
<1>5. with_header(Failed, inner) = Failed
  BY DEF with_header, Failed
<1>6. i # n => [told EXCEPT !.header.shared_secret = chain[i]] = told
  <2> SUFFICES ASSUME i # n PROVE [told EXCEPT !.header.shared_secret = chain[i]] = told
    OBVIOUS
  <2> DEFINE next == HeaderAt(plan, secret, i + 1)
             layer == Layers(plan)[i + 1]
  <2>1. told = [kind |-> "forward", header |-> next, next_hop |-> plan.route[i + 1], delay |-> plan.delays[i],
                payload_key |-> <<"payload", Shared(secret, plan.route, i)>>]
    BY DEF Told
  <2>2. next = [shared_secret |-> chain[i], routing_info |-> layer]
    <3>1. next = [shared_secret |-> chain[i + 1 - 1], routing_info |-> layer] /\ next.shared_secret = chain[i]
      BY <1>1 DEF HeaderAt
    <3> HIDE DEF next
    <3>2. next.shared_secret = chain[i + 1 - 1]
      BY <3>1
    <3> QED BY <3>1, <3>2
  <2>3. \A s : [[shared_secret |-> s, routing_info |-> layer] EXCEPT !.shared_secret = s]
                 = [shared_secret |-> s, routing_info |-> layer]
    OBVIOUS
  <2>4. [next EXCEPT !.shared_secret = chain[i]] = next
    BY <2>2, <2>3
  <2>5. \A x, l, d, k, s : [[kind |-> "forward", header |-> x, next_hop |-> l, delay |-> d, payload_key |-> k]
                              EXCEPT !.header.shared_secret = s]
          = [kind |-> "forward", header |-> [x EXCEPT !.shared_secret = s], next_hop |-> l, delay |-> d, payload_key |-> k]
    OBVIOUS
  <2> HIDE DEF next, chain
  <2> QED BY <2>1, <2>4, <2>5
<1>7. blinded # <<>> /\ blinded[1] = chain[i]
  OBVIOUS
<1> HIDE DEF told, header, keys, inner, chain, handed, right, blinded, packet, n
<1>8. process(packet, private_key(node)) = IF right THEN handed ELSE Failed
  BY <1>1, <1>2, <1>4, <1>5 DEF process
<1>9. process_with_derived_keys(packet, <<>>, keys) = IF right /\ i = n THEN handed ELSE Failed
  <2>1. process_header_with_derived_keys(header, <<>>, keys) = IF right /\ i = n THEN told ELSE Failed
    BY <1>1
  <2> QED BY <1>2, <1>4, <1>5, <2>1 DEF process_with_derived_keys
<1>10. process_with_derived_keys(packet, blinded, keys) = IF right THEN handed ELSE Failed
  <2>1. process_header_with_derived_keys(header, blinded, keys) = IF right THEN told ELSE Failed
    BY <1>1, <1>6, <1>7
  <2> QED BY <1>2, <1>4, <1>5, <2>1 DEF process_with_derived_keys
<1>11. ~right => \A b : process_with_derived_keys(packet, b, keys) = Failed
  BY <1>1, <1>2, <1>5 DEF process_with_derived_keys
<1> QED BY <1>8, <1>9, <1>10, <1>11 DEF packet, handed, keys, chain, right, blinded, n

-----------------------------------------------------------------------------
(* Reply blocks.                                                           *)

\* Two cells for each key.
CellsOf(keys, i) ==
  [k \in 1..2 * i |-> IF k % 2 = 1 THEN cell(<<"key", keys[(k + 1) \div 2], 1>>)
                      ELSE cell(<<"key", keys[k \div 2], 2>>)]

\* Each key adds its two.
LEMMA CellsStep ==
  ASSUME NEW keys, NEW i \in Nat
  PROVE  /\ CellsOf(keys, i) \o halves(keys[i + 1]) = CellsOf(keys, i + 1)
         /\ CellsOf(keys, 1) = halves(keys[1])
<1> DEFINE two == 2
           m == 2 * i
           a == CellsOf(keys, i)
           b == halves(keys[i + 1])
           c == a \o b
           x == cell(<<"key", keys[i + 1], 1>>)
           y == cell(<<"key", keys[i + 1], 2>>)
<1>1. two \in Nat /\ m \in Nat /\ IsString(a, m)
  BY DEF CellsOf, IsString
<1>2. \A u, v : IsString(<<u, v>>, two) /\ Len(<<u, v>>) = two
  BY DEF IsString
<1>3. IsString(b, two) /\ Len(b) = two /\ b[1] = x /\ b[2] = y
  BY <1>2 DEF halves
<1> HIDE DEF a, b, m
<1>4. Len(a) = m
  BY <1>1, LenIs
<1>5. IsString(c, m + two) /\ \A k \in 1..(m + two) : c[k] = IF k <= m THEN a[k] ELSE b[k - m]
  <2> HIDE DEF two
  <2>1. IsString(c, m + two) /\ \A j \in 1..(m + two) : c[j] = IF j <= m THEN a[j] ELSE b[j - m]
    BY <1>1, <1>3, <1>4, Concat
  <2> QED BY <2>1
<1> HIDE DEF c, x, y
<1>6. m + two = 2 * (i + 1)
  BY DEF m
<1>7. ASSUME NEW k \in 1..2 * (i + 1) PROVE c[k] = CellsOf(keys, i + 1)[k]
  <2>1. CASE k <= m
    <3>1. k \in 1..2 * i
      BY <2>1 DEF m
    <3>2. a[k] = CellsOf(keys, i + 1)[k]
      BY <3>1 DEF a, CellsOf
    <3> QED BY <1>5, <1>6, <2>1, <3>2
  <2>2. CASE k = m + 1
    <3>1. ~(k <= m) /\ k - m = 1 /\ k % 2 = 1 /\ (k + 1) \div 2 = i + 1
      BY <2>2 DEF m
    <3>2. CellsOf(keys, i + 1)[k] = x
      BY <3>1 DEF CellsOf, x
    <3> QED BY <1>3, <1>5, <1>6, <3>1, <3>2
  <2>3. CASE k = m + 2
    <3>1. ~(k <= m) /\ k - m = 2 /\ k % 2 = 0 /\ k \div 2 = i + 1
      BY <2>3 DEF m
    <3>2. CellsOf(keys, i + 1)[k] = y
      BY <3>1 DEF CellsOf, y
    <3> QED BY <1>3, <1>5, <1>6, <3>1, <3>2
  <2>4. k <= m \/ k = m + 1 \/ k = m + 2
    BY DEF m
  <2> QED BY <2>1, <2>2, <2>3, <2>4
<1>8. c = CellsOf(keys, i + 1)
  <2>1. c = [k \in 1..2 * (i + 1) |-> c[k]]
    BY <1>5, <1>6 DEF IsString
  <2>2. CellsOf(keys, i + 1) = [k \in 1..2 * (i + 1) |-> CellsOf(keys, i + 1)[k]]
    BY DEF CellsOf
  <2> QED BY <1>7, <2>1, <2>2
<1>9. CellsOf(keys, 1) = halves(keys[1])
  <2> DEFINE u == cell(<<"key", keys[1], 1>>)
             v == cell(<<"key", keys[1], 2>>)
             d == CellsOf(keys, 1)
  <2>1. /\ 2 * 1 = 2 /\ 1 % 2 = 1 /\ (1 + 1) \div 2 = 1 /\ 2 % 2 = 0 /\ 2 \div 2 = 1
    OBVIOUS
  <2>2. d = [k \in 1..2 |-> d[k]]
    BY <2>1 DEF CellsOf
  <2>3. d[1] = u /\ d[2] = v
    BY <2>1 DEF CellsOf
  <2> HIDE DEF u, v, d
  <2>4. <<u, v>> = [k \in 1..2 |-> d[k]]
    BY <2>3
  <2> QED BY <2>2, <2>4 DEF halves, u, v, d
<1> QED BY <1>8, <1>9 DEF a, b, c

\* All keys in bytes.
LEMMA KeysInBytes ==
  ASSUME NEW n \in Nat \ {0}, NEW keys, DOMAIN keys = 1..n
  PROVE  FlattenSeq([i \in DOMAIN keys |-> halves(keys[i])]) = CellsOf(keys, n)
<1> DEFINE seqs == [i \in 1..n |-> halves(keys[i])]
           a == [i \in 1..n |-> CellsOf(keys, i)]
           e == CHOOSE f : f = [i \in 1..n |-> IF i = 1 THEN seqs[i] ELSE f[i - 1] \o seqs[i]]
<1>1. IsString(seqs, n) /\ n \in Nat
  BY DEF IsString
<1>2. Len(seqs) = n /\ n # 0
  <2> HIDE DEF seqs
  <2> QED BY <1>1, LenIs
<1>3. FlattenSeq(seqs) = e[n]
  <2>1. \A i \in 1..n : seqs[i] = halves(keys[i])
    OBVIOUS
  <2> HIDE DEF seqs
  <2> QED BY <1>2 DEF FlattenSeq
<1>4. a = [i \in 1..n |-> IF i = 1 THEN seqs[i] ELSE a[i - 1] \o seqs[i]]
  <2>1. ASSUME NEW i \in 1..n PROVE a[i] = IF i = 1 THEN seqs[i] ELSE a[i - 1] \o seqs[i]
    <3>1. CASE i = 1
      BY <3>1, CellsStep
    <3>2. CASE i # 1
      <4> DEFINE j == i - 1
      <4>1. j \in Nat /\ j \in 1..n /\ j + 1 = i
        BY <3>2
      <4> HIDE DEF j
      <4>2. CellsOf(keys, j) \o halves(keys[j + 1]) = CellsOf(keys, j + 1)
        BY <4>1, CellsStep
      <4>3. a[j] = CellsOf(keys, j) /\ a[i] = CellsOf(keys, i) /\ seqs[i] = halves(keys[i])
        BY <4>1
      <4> HIDE DEF a, seqs
      <4>4. a[j] \o seqs[i] = a[i]
        BY <4>1, <4>2, <4>3
      <4> QED BY <3>2, <4>4 DEF j
    <3> QED BY <3>1, <3>2
  <2>2. a = [i \in 1..n |-> a[i]]
    OBVIOUS
  <2> HIDE DEF a, seqs
  <2> QED BY <2>1, <2>2
<1> HIDE DEF a, seqs
<1>5. e = [i \in 1..n |-> IF i = 1 THEN seqs[i] ELSE e[i - 1] \o seqs[i]]
  BY <1>4
<1> HIDE DEF e
<1> DEFINE T == {i \in 1..n : e[i] # a[i]}
<1>6. ASSUME T # {} PROVE FALSE
  <2>1. T \subseteq Nat
    OBVIOUS
  <2>2. PICK i \in T : \A j \in T : i <= j
    <3> HIDE DEF T
    <3> QED BY <1>6, <2>1, Least
  <2>3. i # 1
    BY <1>4, <1>5
  <2>4. i - 1 \in 1..n /\ ~(i <= i - 1)
    BY <2>3
  <2>5. e[i - 1] = a[i - 1]
    BY <2>2, <2>4
  <2>6. i \in 1..n /\ e[i] # a[i]
    OBVIOUS
  <2>7. e[i] = e[i - 1] \o seqs[i] /\ a[i] = a[i - 1] \o seqs[i]
    BY <1>4, <1>5, <2>3, <2>6
  <2> QED BY <2>5, <2>6, <2>7
<1>7. e[n] = CellsOf(keys, n)
  <2>1. n \in 1..n
    OBVIOUS
  <2>2. e[n] = a[n]
    BY <1>6, <2>1
  <2> QED BY <2>1, <2>2 DEF a
<1> QED BY <1>3, <1>7 DEF seqs

\* The reply block of a route.
SURBOf(plan, secret) ==
  [kind |-> "surb", header |-> HeaderAt(plan, secret, 1), first_hop_address |-> plan.route[1],
   payload_keys |-> PayloadKeys(secret, plan.route)]

\* What is made is that, and its bytes tell all of it.
LEMMA SURBOnWire ==
  ASSUME NEW plan, NEW secret, IsPlan(plan, secret)
  PROVE  surb_from_bytes(surb_to_bytes(SURBOf(plan, secret))) = SURBOf(plan, secret)
<1> DEFINE n == Len(plan.route)
           m == 2 * n
           header == HeaderAt(plan, secret, 1)
           keys == PayloadKeys(secret, plan.route)
           surb == SURBOf(plan, secret)
           address == cell(<<"address", plan.route[1]>>)
           flat == CellsOf(keys, n)
           front == <<address>>
           rest == front \o flat
           head == header_to_bytes(header)
           b == head \o rest
           k == m + 1
           H == HEADER_SIZE
           left == drop(b, H + 1)
<1>1. /\ n \in Nat \ {0} /\ n \in Nat /\ m \in Nat /\ 1 \in 1..n /\ DOMAIN keys = 1..n
      /\ k \in Nat /\ 1 + m = k /\ H \in Nat
  BY Sizes DEF IsPlan, PayloadKeys
<1>2. IsString(flat, m)
  BY DEF IsString, CellsOf
<1>3. IsHeader(header)
  BY <1>1, HeadersAre
<1>4. \A i \in 1..n : 2 * i - 1 \in 1..m /\ flat[2 * i - 1] = cell(<<"key", keys[i], 1>>)
  <2>1. ASSUME NEW i \in 1..n
        PROVE  2 * i - 1 \in 1..2 * n /\ (2 * i - 1) % 2 = 1 /\ (2 * i - 1 + 1) \div 2 = i
    BY <1>1
  <2> HIDE DEF keys
  <2> QED BY <2>1 DEF CellsOf
<1>5. IsString(front, 1) /\ front[1] = address /\ Len(front) = 1
  <2>1. \A x : IsString(<<x>>, 1)
    BY DEF IsString
  <2> QED BY <2>1
<1>6. FlattenSeq([i \in DOMAIN keys |-> halves(keys[i])]) = flat
  <2> HIDE DEF keys, n
  <2> QED BY <1>1, KeysInBytes
<1> HIDE DEF flat, front, m, address
<1>7. Len(flat) = m
  BY <1>1, <1>2, LenIs
<1>8. IsString(rest, k) /\ rest[1] = address /\ \A i \in 1..m : rest[i + 1] = flat[i]
  <2> DEFINE one == 1
  <2>1. one \in Nat /\ IsString(front, one) /\ Len(front) = one /\ m \in Nat /\ IsString(flat, m) /\ Len(flat) = m
    BY <1>1, <1>2, <1>5, <1>7
  <2>2. IsString(rest, one + m) /\ \A i \in 1..(one + m) : rest[i] = IF i <= one THEN front[i] ELSE flat[i - one]
    <3> HIDE DEF one
    <3> QED BY <2>1, Concat
  <2> HIDE DEF rest
  <2>3. \A i \in 1..m : i + 1 \in 1..(1 + m) /\ ~(i + 1 <= 1) /\ i + 1 - 1 = i
    BY <1>1
  <2>4. 1 \in 1..(1 + m)
    BY <1>1
  <2> QED BY <1>1, <1>5, <2>2, <2>3, <2>4
<1> HIDE DEF header, keys, k, H
<1>9. surb_to_bytes(surb) = b
  <2>1. surb.header = header /\ surb.first_hop_address = plan.route[1] /\ surb.payload_keys = keys
    BY DEF SURBOf, header, keys
  <2>2. surb_to_bytes(surb) = (head \o front) \o flat
    <3> HIDE DEF head
    <3> QED BY <1>6, <2>1 DEF surb_to_bytes, front, address, head
  <2>3. \E l \in Nat : IsString(head, l)
    <3> DEFINE e == header.routing_info.enc_routing_information
               s == <<cell(<<"shared_secret", header.shared_secret>>), header.routing_info.integrity_mac>>
               M == 3 * MAX_PATH_LENGTH
               two == 2
    <3>1. IsString(e, M) /\ M \in Nat
      BY <1>3, Sizes DEF IsHeader
    <3>2. \A x, y : IsString(<<x, y>>, two) /\ Len(<<x, y>>) = two
      BY DEF IsString
    <3>3. IsString(s, two) /\ Len(s) = two /\ two \in Nat
      BY <3>2
    <3> HIDE DEF e, s, M, two
    <3>4. Len(e) = M
      BY <3>1, LenIs
    <3>5. IsString(s \o e, two + M)
      BY <3>1, <3>3, <3>4, Concat
    <3>6. two + M \in Nat
      BY <3>1, <3>3
    <3> QED BY <3>5, <3>6 DEF header_to_bytes, s, e
  <2>4. PICK l \in Nat : IsString(head, l)
    BY <2>3
  <2> HIDE DEF head
  <2> DEFINE S == {head[i] : i \in 1..l} \cup {front[i] : i \in 1..1} \cup {flat[i] : i \in 1..m}
  <2>5. head \in [1..l -> S] /\ front \in [1..1 -> S] /\ flat \in [1..m -> S]
    BY <1>2, <1>5, <2>4 DEF IsString
  <2> HIDE DEF S
  <2>6. head \in Seq(S) /\ front \in Seq(S) /\ flat \in Seq(S)
    <3>1. m \in Nat /\ l \in Nat /\ 1 \in Nat
      BY <1>1
    <3>2. \A x \in Nat : \A s \in [1..x -> S] : s \in Seq(S)
      OBVIOUS
    <3> HIDE DEF rest, surb, header, keys, left
    <3> QED BY <2>5, <3>1, <3>2
  <2>7. (head \o front) \o flat = head \o (front \o flat)
    BY <2>6
  <2> QED BY <2>2, <2>7
<1> HIDE DEF rest
<1>10. OnWire(b, header, rest, k) /\ header_from_bytes(take(b, H)) = header
  BY <1>1, <1>3, <1>8, WireIs DEF H
<1> HIDE DEF b
<1>11. IsString(b, H + k) /\ \A i \in 1..k : b[H + i] = rest[i]
  BY <1>10 DEF OnWire, H
<1>12. Len(b) = H + k
  BY <1>1, <1>8, <1>10, WireRest DEF H
<1>13. left = [i \in 1..m |-> flat[i]]
  <2> DEFINE first == (H + 1) + 1
  <2>1. /\ H + k \in Nat /\ first \in 1..((H + k) + 1) /\ H + k \in (first - 1)..(H + k)
        /\ (H + k) - first + 1 = m
    BY <1>1
  <2>2. left = [i \in 1..((H + k) - first + 1) |-> b[i + first - 1]]
    <3>1. left = SubSeq(b, first, H + k)
      BY <1>12 DEF drop
    <3> HIDE DEF first, left
    <3> QED BY <1>11, <2>1, <3>1, Part
  <2>3. ASSUME NEW i \in 1..m PROVE b[i + first - 1] = flat[i]
    <3>1. i + first - 1 = H + (i + 1) /\ i + 1 \in 1..k
      BY <1>1
    <3> HIDE DEF first
    <3> QED BY <1>8, <1>11, <3>1
  <2> HIDE DEF first, left
  <2> QED BY <2>1, <2>2, <2>3
<1> HIDE DEF left
<1>14. Len(left) = m
  <2>1. IsString(left, m)
    BY <1>13 DEF IsString
  <2> QED BY <1>1, <2>1, LenIs
<1>15. ~(Len(left) < PAYLOAD_KEY_SIZE \/ Len(left) % PAYLOAD_KEY_SIZE # 0) /\ Len(left) \div PAYLOAD_KEY_SIZE = n
  <2>1. ~(2 * n < 2) /\ (2 * n) % 2 = 0 /\ (2 * n) \div 2 = n
    <3> HIDE DEF n
    <3> QED BY <1>1
  <2> QED BY <1>14, <2>1 DEF PAYLOAD_KEY_SIZE, m
<1>16. [i \in 1..n |-> left[(i - 1) * PAYLOAD_KEY_SIZE + 1].text[2]] = keys
  <2>1. ASSUME NEW i \in 1..n PROVE left[(i - 1) * PAYLOAD_KEY_SIZE + 1].text[2] = keys[i]
    <3> DEFINE text == <<"key", keys[i], 1>>
    <3>1. (i - 1) * PAYLOAD_KEY_SIZE + 1 = 2 * i - 1
      <4> HIDE DEF n
      <4> QED BY <1>1 DEF PAYLOAD_KEY_SIZE
    <3>2. left[2 * i - 1] = cell(text)
      BY <1>4, <1>13
    <3>3. text[2] = keys[i]
      OBVIOUS
    <3> HIDE DEF text
    <3>4. cell(text).text = text
      BY CellIsCell
    <3> QED BY <3>1, <3>2, <3>3, <3>4
  <2>2. keys = [i \in 1..n |-> keys[i]]
    BY DEF keys, PayloadKeys
  <2> HIDE DEF n, left, keys
  <2> QED BY <2>1, <2>2
<1>17. b[H + 1].text[2] = plan.route[1]
  <2> DEFINE text == <<"address", plan.route[1]>>
  <2>1. 1 \in 1..k
    BY <1>1
  <2>2. b[H + 1] = address
    BY <1>8, <1>11, <2>1
  <2>3. text[2] = plan.route[1] /\ address = cell(text)
    BY DEF address
  <2> HIDE DEF text
  <2> QED BY <2>2, <2>3, CellIsCell
<1>18. surb_from_bytes(b) = [kind |-> "surb", header |-> header, first_hop_address |-> plan.route[1], payload_keys |-> keys]
  <2>1. drop(b, HEADER_SIZE + NODE_ADDRESS_LENGTH) = left
    BY DEF left, H, NODE_ADDRESS_LENGTH
  <2> HIDE DEF n
  <2> QED BY <1>10, <1>15, <1>16, <1>17, <2>1 DEF surb_from_bytes, H
<1> QED BY <1>9, <1>18 DEF SURBOf, header, keys

-----------------------------------------------------------------------------
(* A packet's way.                                                         *)

Routable(r) == Len(r.route) \in 1..MAX_PATH_LENGTH /\ Len(r.delays) = Len(r.route)

\* What packet p is made of when r is asked for.
SecretFor(p, r) == initial_secret(p, r.secret)
PlanFor(p, r) == Plan(SecretFor(p, r), r.route, r.delays, destination(p))
PacketFor(p, r, i) == PacketAt(PlanFor(p, r), SecretFor(p, r), r.message, r.payload_size, i)
PayloadFor(p, r, i) == PayloadOf(PlanFor(p, r), SecretFor(p, r), r.message, r.payload_size, i)
SURBFor(p, r) == SURBOf(PlanFor(p, r), SecretFor(p, r))
ChainFor(p, r) == Chain(SecretFor(p, r), r.route)

\* Its first k stops.
Stops(p, r, k) ==
  [l \in 1..k |-> <<r.route[l], IF l = Len(r.route) THEN destination(p) ELSE r.delays[l]>>]

\* A request's parts.
LEMMA RequestHas ==
  ASSUME NEW p \in Packet, NEW r \in Requests
  PROVE  /\ r.route \in Seq(Node) /\ r.message \in Seq(Nat) /\ r.delays \in Seq(Nat)
         /\ r.payload_size \in Nat /\ Len(r.route) \in Nat
         /\ r.route \in Routes /\ r.message \in Messages
         /\ IsSecret(SecretFor(p, r))
         /\ Fits(r) <=> Routable(r) /\ validate_parameters(r.payload_size, Len(r.message))
         /\ Fits(r) => IsSized(r.message, r.payload_size)
         /\ Buildable(r.route, r.delays) <=> Routable(r)
<1>1. /\ r.route \in Seq(Node) /\ r.message \in Seq(Nat) /\ r.delays \in Seq(Nat)
      /\ r.payload_size \in Nat /\ r.route \in Routes /\ r.message \in Messages
  BY RequestsAssumption
<1>2. Len(r.route) \in Nat /\ Len(r.delays) \in Nat
  BY <1>1
<1>3. IsSecret(SecretFor(p, r))
  BY RequestsAssumption DEF IsSecret, SecretFor, initial_secret
<1>4. /\ validate_parameters(r.payload_size, Len(r.message)) <=>
           r.payload_size >= DIGEST_RESULT_SIZE /\ r.payload_size >= SECURITY_PARAMETER + Len(r.message) + 1
      /\ validate_parameters(r.payload_size, Len(r.message)) => IsSized(r.message, r.payload_size)
  BY <1>1, Validated
<1>5. Fits(r) <=> Routable(r) /\ validate_parameters(r.payload_size, Len(r.message))
  BY <1>4 DEF Fits, Routable
<1>6. Buildable(r.route, r.delays) <=> Routable(r)
  <2> DEFINE n == Len(r.route)
             m == Len(r.delays)
  <2>1. n \in Nat /\ m \in Nat
    BY <1>2
  <2>2. Buildable(r.route, r.delays) <=>
          /\ n - 1 >= 0 /\ n - 1 <= MAX_PATH_LENGTH /\ m = n /\ MAX_PATH_LENGTH - n >= 0
          /\ padding_length(n) >= 0
    BY DEF Buildable
  <2>3. padding_length(n) = 3 * MAX_PATH_LENGTH - 3 * (n - 1) - 2
    BY Sizes DEF padding_length, FINAL_NODE_META_INFO_LENGTH
  <2>4. Routable(r) <=> n \in 1..MAX_PATH_LENGTH /\ m = n
    BY DEF Routable
  <2> HIDE DEF n, m
  <2> QED BY <2>1, <2>2, <2>3, <2>4, Sizes
<1> QED BY <1>1, <1>2, <1>3, <1>4, <1>5, <1>6

\* Its plan is one.
LEMMA PlanIs ==
  ASSUME NEW p \in Packet, NEW r \in Requests, Routable(r)
  PROVE  /\ IsPlan(PlanFor(p, r), SecretFor(p, r))
         /\ PlanFor(p, r).route = r.route /\ PlanFor(p, r).delays = r.delays
         /\ [address |-> PlanFor(p, r).final.address, identifier |-> PlanFor(p, r).final.identifier]
              = destination(p)
<1> DEFINE plan == PlanFor(p, r)
           secret == SecretFor(p, r)
<1>1. plan.route = r.route /\ plan.delays = r.delays /\ plan.keys = Keys(secret, r.route)
      /\ plan.final = destination(p)
  BY DEF PlanFor, Plan
<1>2. r.route \in Seq(Node) /\ IsSecret(secret) /\ Len(r.route) \in 1..MAX_PATH_LENGTH
  BY RequestHas DEF Routable
<1>3. [address |-> destination(p).address, identifier |-> destination(p).identifier] = destination(p)
  BY DEF destination
<1> HIDE DEF plan, secret
<1>4. IsPlan(plan, secret)
  BY <1>1, <1>2 DEF IsPlan
<1> QED BY <1>1, <1>3, <1>4 DEF plan, secret

\* Making a packet: it is the first one, or the sizes are refused.
LEMMA Built ==
  ASSUME NEW p \in Packet, NEW r \in Requests, Routable(r)
  PROVE  /\ build_packet(SecretFor(p, r), r.message, r.route, destination(p), r.delays, r.payload_size)
              = IF Fits(r) THEN PacketFor(p, r, 1) ELSE Failed
         /\ SURB_new(SecretFor(p, r), r.route, r.delays, destination(p)) = SURBFor(p, r)
         /\ surb_from_bytes(surb_to_bytes(SURBFor(p, r))) = SURBFor(p, r)
         /\ SURBFor(p, r).kind = "surb" /\ SURBFor(p, r).first_hop_address = r.route[1]
         /\ use_surb(SURBFor(p, r), r.message, r.payload_size)
              = IF Fits(r) THEN PacketFor(p, r, 1) ELSE Failed
<1> DEFINE plan == PlanFor(p, r)
           secret == SecretFor(p, r)
           header == HeaderAt(plan, secret, 1)
           keys == PayloadKeys(secret, r.route)
           built == SphinxHeader_new(secret, r.route, r.delays, destination(p))
<1>1. IsPlan(plan, secret) /\ plan.route = r.route
  BY PlanIs
<1>2. r.route \in Seq(Node) /\ IsSecret(secret) /\ Len(r.route) \in 1..MAX_PATH_LENGTH
      /\ r.message \in Seq(Nat) /\ r.payload_size \in Nat
      /\ (Fits(r) <=> validate_parameters(r.payload_size, Len(r.message)))
  BY RequestHas DEF Routable
<1> HIDE DEF secret
<1>3. built = [header |-> header, payload_keys |-> keys]
  BY <1>2, NewHeader DEF PlanFor, secret
<1> HIDE DEF plan, header, keys, built
<1>4. built.header = header /\ built.payload_keys = keys
  BY <1>3
<1>5. with_payload(header, keys, r.message, r.payload_size) = IF Fits(r) THEN PacketFor(p, r, 1) ELSE Failed
  BY <1>1, <1>2, PacketMade DEF header, keys, PacketFor, plan, secret
<1>6. build_packet(secret, r.message, r.route, destination(p), r.delays, r.payload_size)
        = IF Fits(r) THEN PacketFor(p, r, 1) ELSE Failed
  BY <1>4, <1>5 DEF build_packet, built
<1>7. SURBFor(p, r) = [kind |-> "surb", header |-> header, first_hop_address |-> r.route[1], payload_keys |-> keys]
  BY <1>1 DEF SURBFor, SURBOf, header, keys, plan, secret
<1>8. SURB_new(secret, r.route, r.delays, destination(p)) = SURBFor(p, r)
  BY <1>4, <1>7 DEF SURB_new, built
<1>9. surb_from_bytes(surb_to_bytes(SURBFor(p, r))) = SURBFor(p, r)
  BY <1>1, SURBOnWire DEF SURBFor, plan, secret
<1>10. SURBFor(p, r).kind = "surb" /\ SURBFor(p, r).first_hop_address = r.route[1]
       /\ SURBFor(p, r).header = header /\ SURBFor(p, r).payload_keys = keys
  BY <1>7
<1>11. use_surb(SURBFor(p, r), r.message, r.payload_size) = IF Fits(r) THEN PacketFor(p, r, 1) ELSE Failed
  BY <1>5, <1>10 DEF use_surb
<1> QED BY <1>6, <1>8, <1>9, <1>10, <1>11 DEF secret

\* What is where, of a packet.
Placed(p, place, r, sent, hop, left, got, stops) ==
  \/ /\ place = "unsent"
     /\ sent = <<>> /\ left = <<>> /\ got = <<>> /\ stops = <<>>
  \/ /\ place = "surb" /\ r \in Requests /\ Routable(r)
     /\ sent = surb_to_bytes(SURBFor(p, r)) /\ left = <<>> /\ got = <<>> /\ stops = <<>>
  \/ /\ place \in {"refused", "panicked"} /\ r \in Requests /\ ~Fits(r)
     /\ sent = <<>> /\ left = <<>> /\ got = <<>> /\ stops = <<>>
  \/ /\ place = "flying" /\ r \in Requests /\ Fits(r)
     /\ \E k \in 0..(Len(r.route) - 1) : /\ sent = packet_to_bytes(PacketFor(p, r, k + 1))
                                         /\ hop = <<r.route[k + 1]>> /\ stops = Stops(p, r, k)
     /\ left = <<>> /\ got = <<>>
  \/ /\ place = "final" /\ r \in Requests /\ Fits(r)
     /\ sent = <<>> /\ left = PayloadFor(p, r, Len(r.route) + 1) /\ got = <<>>
     /\ stops = Stops(p, r, Len(r.route))
  \/ /\ place = "delivered" /\ r \in Requests /\ Fits(r)
     /\ sent = <<>> /\ left = PayloadFor(p, r, Len(r.route) + 1) /\ got = <<r.message>>
     /\ stops = Stops(p, r, Len(r.route))
  \/ /\ place = "lost" /\ r \in Requests /\ Fits(r)
     /\ sent = <<>> /\ left = <<>> /\ got = <<>>
     /\ \E k \in 0..(Len(r.route) - 1) : stops = Stops(p, r, k)

IsPlaced(p) ==
  Placed(p, pc[p], request[p], bytes[p], next_hop[p], payload[p], received[p], visited[p])

\* What the k-th node keeps of a packet.
EntryFor(p, r, k) ==
  [shared_secret |-> ChainFor(p, r)[k - 1],
   new_blinded_secret |-> IF k = Len(r.route) THEN <<>> ELSE <<ChainFor(p, r)[k]>>,
   routing_keys |-> compute_routing_keys(ChainFor(p, r)[k - 1], private_key(r.route[k]))]

\* A node keeps what it learnt from packets, one entry for a secret.
Known(n, known) ==
  \E p \in Packet : \E k \in 1..Len(visited[p]) :
    request[p].route[k] = n /\ known = EntryFor(p, request[p], k)

Cached(n) ==
  /\ Len(cache[n]) \in Nat /\ IsString(cache[n], Len(cache[n]))
  /\ \A i \in 1..Len(cache[n]) : Known(n, cache[n][i])
  /\ \A i, j \in 1..Len(cache[n]) : cache[n][i].shared_secret = cache[n][j].shared_secret => i = j

\* Another packet's route ended where this one's goes on.
Overtaken(p) ==
  \E q \in Packet :
    /\ initial_secret(q, request[q].secret) = initial_secret(p, request[p].secret)
    /\ Len(request[q].route) = Len(visited[p]) + 1
    /\ Len(visited[q]) = Len(request[q].route)
    /\ IsPrefix(request[q].route, request[p].route)

Domains ==
  /\ pc = [p \in Packet |-> pc[p]] /\ request = [p \in Packet |-> request[p]]
  /\ bytes = [p \in Packet |-> bytes[p]] /\ next_hop = [p \in Packet |-> next_hop[p]]
  /\ payload = [p \in Packet |-> payload[p]] /\ received = [p \in Packet |-> received[p]]
  /\ visited = [p \in Packet |-> visited[p]] /\ misled = [p \in Packet |-> misled[p]]
  /\ cache = [n \in Node |-> cache[n]]

\* The inductive invariant.
SphinxInvariant ==
  /\ Domains
  /\ \A p \in Packet : IsPlaced(p)
  /\ \A p \in Packet : pc[p] = "lost" => misled[p] \/ Overtaken(p)
  /\ \A n \in Node : Cached(n)

\* The stops are as many as said.
LEMMA StopsAre ==
  ASSUME NEW p, NEW r, NEW k \in Nat
  PROVE  /\ Len(Stops(p, r, k)) = k /\ IsString(Stops(p, r, k), k)
         /\ Stops(p, r, 0) = <<>>
         /\ Append(Stops(p, r, k), <<r.route[k + 1], IF k + 1 = Len(r.route) THEN destination(p) ELSE r.delays[k + 1]>>)
              = Stops(p, r, k + 1)
<1> DEFINE s == Stops(p, r, k)
           stop(l) == <<r.route[l], IF l = Len(r.route) THEN destination(p) ELSE r.delays[l]>>
<1>1. s = [l \in 1..k |-> stop(l)] /\ Stops(p, r, k + 1) = [l \in 1..(k + 1) |-> stop(l)]
  BY DEF Stops
<1>2. Stops(p, r, 0) = <<>>
  BY DEF Stops
<1> HIDE DEF s, stop
<1>3. IsString(s, k)
  BY <1>1 DEF IsString
<1>4. Len(s) = k
  BY <1>3, LenIs
<1>5. Append(s, stop(k + 1)) = [l \in 1..(k + 1) |-> IF l <= k THEN s[l] ELSE stop(k + 1)]
  BY <1>3, Added
<1>6. \A l \in 1..(k + 1) : (IF l <= k THEN s[l] ELSE stop(k + 1)) = stop(l)
  <2> TAKE l \in 1..(k + 1)
  <2>1. l <= k => l \in 1..k
    OBVIOUS
  <2>2. ~(l <= k) => l = k + 1
    OBVIOUS
  <2> QED BY <1>1, <2>1, <2>2
<1>7. Append(s, stop(k + 1)) = Stops(p, r, k + 1)
  BY <1>1, <1>5, <1>6
<1> QED BY <1>2, <1>3, <1>4, <1>7 DEF s, stop

\* What can be told of a packet by its place.
LEMMA PlacedHas ==
  ASSUME NEW p, NEW place, NEW r, NEW sent, NEW hop, NEW left, NEW got, NEW stops,
         Placed(p, place, r, sent, hop, left, got, stops), \A x \in Requests : Len(x.route) \in Nat
  PROVE  /\ Len(stops) \in Nat
         /\ Len(stops) # 0 => /\ r \in Requests /\ Fits(r) /\ Len(stops) <= Len(r.route)
                              /\ stops = Stops(p, r, Len(stops))
         /\ place \in {"flying", "lost"} => Len(stops) < Len(r.route)
         /\ place = "lost" => sent = <<>>
         /\ place \in {"flying", "final", "delivered", "lost"} =>
              /\ r \in Requests /\ Fits(r) /\ stops = Stops(p, r, Len(stops))
         /\ place = "flying" =>
              /\ sent = packet_to_bytes(PacketFor(p, r, Len(stops) + 1))
              /\ hop = <<r.route[Len(stops) + 1]>>
              /\ Len(stops) + 1 \in 1..Len(r.route)
         /\ place \in {"final", "delivered"} => Len(stops) = Len(r.route)
<1> DEFINE n == Len(r.route)
<1>1. r \in Requests => n \in Nat
  OBVIOUS
<1>2. \A k \in Nat : Len(Stops(p, r, k)) = k
  BY StopsAre
<1>3. Len(<<>>) = 0
  OBVIOUS
<1>4. CASE place \in {"unsent", "surb", "refused", "panicked"}
  BY <1>3, <1>4 DEF Placed
<1>5. CASE place = "flying"
  <2>1. PICK k \in 0..(n - 1) : /\ sent = packet_to_bytes(PacketFor(p, r, k + 1))
                                /\ hop = <<r.route[k + 1]>> /\ stops = Stops(p, r, k)
    BY <1>5 DEF Placed
  <2>2. r \in Requests /\ Fits(r)
    BY <1>5 DEF Placed
  <2>3. Len(stops) = k /\ k \in Nat /\ k < n /\ k <= n /\ k + 1 \in 1..n
    BY <1>1, <1>2, <2>1, <2>2
  <2> HIDE DEF n
  <2> QED BY <1>5, <2>1, <2>2, <2>3 DEF n
<1>6. CASE place \in {"final", "delivered"}
  <2>1. r \in Requests /\ Fits(r) /\ stops = Stops(p, r, n)
    BY <1>6 DEF Placed
  <2>2. Len(stops) = n /\ n \in Nat
    BY <1>1, <1>2, <2>1
  <2> HIDE DEF n
  <2> QED BY <1>6, <2>1, <2>2 DEF n
<1>7. CASE place = "lost"
  <2>1. PICK k \in 0..(n - 1) : stops = Stops(p, r, k)
    BY <1>7 DEF Placed
  <2>2. r \in Requests /\ Fits(r) /\ sent = <<>>
    BY <1>7 DEF Placed
  <2>3. Len(stops) = k /\ k \in Nat /\ k < n /\ k <= n
    BY <1>1, <1>2, <2>1, <2>2
  <2> HIDE DEF n
  <2> QED BY <1>7, <2>1, <2>2, <2>3 DEF n
<1>8. \/ place \in {"unsent", "surb", "refused", "panicked"} \/ place = "flying"
      \/ place \in {"final", "delivered"} \/ place = "lost"
  BY DEF Placed
<1> QED BY <1>4, <1>5, <1>6, <1>7, <1>8

\* The routes of requests have a length.
LEMMA RoutesHave == \A r \in Requests : Len(r.route) \in Nat
BY RequestsAssumption

\* In the beginning, nothing is anywhere.
LEMMA SphinxStarts == Init => SphinxInvariant
<1> SUFFICES ASSUME Init PROVE SphinxInvariant
  OBVIOUS
<1>1. Domains
  BY DEF Init, Domains
<1>2. ASSUME NEW p \in Packet PROVE IsPlaced(p) /\ pc[p] # "lost"
  BY DEF Init, IsPlaced, Placed
<1>3. ASSUME NEW n \in Node PROVE Cached(n)
  <2>1. cache[n] = <<>>
    BY DEF Init
  <2>2. IsString(<<>>, 0) /\ Len(<<>>) = 0
    BY DEF IsString
  <2> QED BY <2>1, <2>2 DEF Cached
<1> QED BY <1>1, <1>2, <1>3 DEF SphinxInvariant

-----------------------------------------------------------------------------
(* Steps.                                                                  *)

\* A step of packet p changes no other one, and what it has of p it keeps.
Frame(p) ==
  /\ Domains'
  /\ \A q \in Packet \ {p} :
       /\ pc'[q] = pc[q] /\ request'[q] = request[q] /\ bytes'[q] = bytes[q] /\ next_hop'[q] = next_hop[q]
       /\ payload'[q] = payload[q] /\ received'[q] = received[q] /\ visited'[q] = visited[q]
       /\ misled'[q] = misled[q]
  /\ pc[p] # "lost"
  /\ visited[p] = <<>> \/ request'[p] = request[p]
  /\ visited'[p] = visited[p] \/ (pc[p] = "flying" /\ Len(visited'[p]) = Len(visited[p]) + 1)

\* What a node knows and why packets were lost stays true.
LEMMA Kept ==
  ASSUME SphinxInvariant, NEW p \in Packet, Frame(p)
  PROVE  /\ \A n, known : Known(n, known) => Known(n, known)'
         /\ \A x \in Packet : pc[x] = "lost" =>
              /\ pc'[x] = "lost" /\ x # p
              /\ misled[x] \/ Overtaken(x) => misled'[x] \/ Overtaken(x)'
         /\ \A q \in Packet \ {p} : IsPlaced(q)'
<1>1. ASSUME NEW q \in Packet
      PROVE  /\ Len(visited[q]) \in Nat /\ (pc[q] = "flying" => Len(visited[q]) < Len(request[q].route))
             /\ Len(visited'[q]) \in Nat /\ Len(visited'[q]) >= Len(visited[q])
             /\ Len(visited[q]) # 0 => request'[q] = request[q] /\ Len(request[q].route) \in Nat
             /\ pc[q] # "flying" => visited'[q] = visited[q]
  <2>1. IsPlaced(q)
    BY DEF SphinxInvariant
  <2>2. /\ Len(visited[q]) \in Nat /\ (pc[q] = "flying" => Len(visited[q]) < Len(request[q].route))
        /\ Len(visited[q]) # 0 => request[q] \in Requests
    BY <2>1, PlacedHas, RoutesHave DEF IsPlaced
  <2>3. visited'[q] = visited[q] \/ (pc[q] = "flying" /\ Len(visited'[q]) = Len(visited[q]) + 1)
    BY DEF Frame
  <2>4. visited[q] = <<>> \/ request'[q] = request[q]
    BY DEF Frame
  <2>5. Len(<<>>) = 0
    OBVIOUS
  <2> DEFINE v == Len(visited[q])
             w == Len(visited'[q])
  <2>6. v \in Nat /\ (w = v \/ w = v + 1)
    BY <2>2, <2>3
  <2> HIDE DEF v, w
  <2>7. w \in Nat /\ w >= v
    BY <2>6
  <2> QED BY <2>2, <2>3, <2>4, <2>5, <2>7, RoutesHave DEF v, w
<1>2. ASSUME NEW n, NEW known, Known(n, known) PROVE Known(n, known)'
  <2>1. PICK q \in Packet : \E k \in 1..Len(visited[q]) :
          request[q].route[k] = n /\ known = EntryFor(q, request[q], k)
    BY <1>2 DEF Known
  <2>2. PICK k \in 1..Len(visited[q]) : request[q].route[k] = n /\ known = EntryFor(q, request[q], k)
    BY <2>1
  <2>3. k \in 1..Len(visited'[q]) /\ request'[q] = request[q]
    <3> DEFINE v == Len(visited[q])
               w == Len(visited'[q])
    <3>1. v \in Nat /\ w \in Nat /\ w >= v /\ (v # 0 => request'[q] = request[q]) /\ k \in 1..v
      BY <1>1
    <3> HIDE DEF v, w
    <3>2. k \in 1..w /\ v # 0
      BY <3>1
    <3> QED BY <3>1, <3>2 DEF w
  <2>4. \E l \in 1..Len(visited'[q]) : request'[q].route[l] = n /\ known = EntryFor(q, request'[q], l)
    BY <2>2, <2>3
  <2> QED BY <2>4 DEF Known, EntryFor
<1>3. ASSUME NEW x \in Packet, pc[x] = "lost"
      PROVE  /\ pc'[x] = "lost" /\ x # p
             /\ misled[x] \/ Overtaken(x) => misled'[x] \/ Overtaken(x)'
  <2>1. x # p
    BY <1>3 DEF Frame
  <2>2. pc'[x] = pc[x] /\ misled'[x] = misled[x] /\ visited'[x] = visited[x] /\ request'[x] = request[x]
    BY <2>1 DEF Frame
  <2>3. ASSUME Overtaken(x) PROVE Overtaken(x)'
    <3>1. PICK q \in Packet :
            /\ initial_secret(q, request[q].secret) = initial_secret(x, request[x].secret)
            /\ Len(request[q].route) = Len(visited[x]) + 1
            /\ Len(visited[q]) = Len(request[q].route)
            /\ IsPrefix(request[q].route, request[x].route)
      BY <2>3 DEF Overtaken
    <3>2. Len(visited[q]) # 0
      <4> DEFINE v == Len(visited[x])
      <4>1. v \in Nat /\ Len(visited[q]) = v + 1
        BY <1>1, <3>1
      <4> HIDE DEF v
      <4> QED BY <4>1
    <3>3. pc[q] # "flying"
      <4>1. Len(visited[q]) \in Nat /\ (pc[q] = "flying" => Len(visited[q]) < Len(request[q].route))
        BY <1>1
      <4> DEFINE v == Len(visited[q])
      <4> HIDE DEF v
      <4>2. v \in Nat /\ (pc[q] = "flying" => v < v)
        BY <3>1, <4>1 DEF v
      <4> QED BY <4>2
    <3>4. request'[q] = request[q] /\ visited'[q] = visited[q]
      BY <1>1, <3>2, <3>3
    <3> QED BY <2>2, <3>1, <3>4 DEF Overtaken, initial_secret
  <2> QED BY <1>3, <2>1, <2>2, <2>3
<1>4. ASSUME NEW q \in Packet \ {p} PROVE IsPlaced(q)'
  <2>1. IsPlaced(q)
    BY DEF SphinxInvariant
  <2>2. Placed(q, pc'[q], request'[q], bytes'[q], next_hop'[q], payload'[q], received'[q], visited'[q])
    BY <2>1 DEF IsPlaced, Frame
  <2> QED BY <2>2 DEF IsPlaced
<1> QED BY <1>2, <1>3, <1>4

\* A step that leaves what nodes have, keeps the invariant if it does for p.
LEMMA StepKeeps ==
  ASSUME SphinxInvariant, NEW p \in Packet, Frame(p), cache' = cache,
         IsPlaced(p)', pc'[p] = "lost" => (misled[p] \/ Overtaken(p))'
  PROVE  SphinxInvariant'
<1>1. ASSUME NEW n \in Node PROVE Cached(n)'
  <2>1. Cached(n)
    BY DEF SphinxInvariant
  <2>2. \A i \in 1..Len(cache[n]) : Known(n, cache[n][i]) => Known(n, cache[n][i])'
    <3> TAKE i \in 1..Len(cache[n])
    <3> DEFINE known == cache[n][i]
    <3>1. cache'[n][i] = known
      OBVIOUS
    <3>2. \A e : Known(n, e) => Known(n, e)'
      BY Kept
    <3> QED BY <3>1, <3>2
  <2> QED BY <2>1, <2>2 DEF Cached
<1>2. \A q \in Packet : IsPlaced(q)'
  BY Kept
<1>3. ASSUME NEW x \in Packet, pc'[x] = "lost" PROVE (misled[x] \/ Overtaken(x))'
  <2>1. CASE x = p
    BY <1>3, <2>1
  <2>2. CASE x # p
    <3>1. pc[x] = "lost"
      BY <1>3, <2>2 DEF Frame
    <3>2. misled[x] \/ Overtaken(x)
      BY <3>1 DEF SphinxInvariant
    <3> QED BY <3>1, <3>2, Kept
  <2> QED BY <2>1, <2>2
<1>4. Domains'
  BY DEF Frame
<1> QED BY <1>1, <1>2, <1>3, <1>4 DEF SphinxInvariant

\* What a step makes of one packet.
LEMMA Updated ==
  ASSUME NEW f, f = [x \in Packet |-> f[x]], NEW p \in Packet, NEW v
  PROVE  LET g == [f EXCEPT ![p] = v]
         IN  /\ g = [x \in Packet |-> g[x]] /\ g[p] = v
             /\ \A q \in Packet \ {p} : g[q] = f[q]
OBVIOUS

\* Where a packet is after being sent, or not.
LEMMA Sending ==
  ASSUME SphinxInvariant, NEW p \in Packet, NEW r \in Requests, Routable(r),
         pc[p] \in {"unsent", "surb"}, NEW result, result = IF Fits(r) THEN PacketFor(p, r, 1) ELSE Failed,
         Sends(p, result, r.route[1]),
         request' = [request EXCEPT ![p] = r] \/ (request' = request /\ request[p] = r),
         UNCHANGED <<cache, payload, received, visited, misled>>
  PROVE  SphinxInvariant'
<1> USE DEF Placed
<1>1. /\ payload[p] = <<>> /\ received[p] = <<>> /\ visited[p] = <<>>
  BY DEF SphinxInvariant, IsPlaced
<1>2. Domains
  BY DEF SphinxInvariant
<1>3. /\ request' = [x \in Packet |-> request'[x]] /\ request'[p] = r
      /\ \A q \in Packet \ {p} : request'[q] = request[q]
  BY <1>2, Updated DEF Domains
<1>4. Failed.kind = "error" /\ PacketFor(p, r, 1).kind = "packet"
  BY DEF Failed, PacketFor, PacketAt
<1>5. \/ /\ ~Fits(r) /\ pc' = [pc EXCEPT ![p] = "refused"] /\ bytes' = [bytes EXCEPT ![p] = <<>>]
         /\ next_hop' = next_hop
      \/ /\ Fits(r) /\ pc' = [pc EXCEPT ![p] = "flying"]
         /\ bytes' = [bytes EXCEPT ![p] = packet_to_bytes(PacketFor(p, r, 1))]
         /\ next_hop' = [next_hop EXCEPT ![p] = <<r.route[1]>>]
  BY <1>4 DEF Sends, Ends, Becomes
<1>6. /\ pc' = [x \in Packet |-> pc'[x]] /\ bytes' = [x \in Packet |-> bytes'[x]]
      /\ next_hop' = [x \in Packet |-> next_hop'[x]]
      /\ \A q \in Packet \ {p} : pc'[q] = pc[q] /\ bytes'[q] = bytes[q] /\ next_hop'[q] = next_hop[q]
      /\ \/ ~Fits(r) /\ pc'[p] = "refused" /\ bytes'[p] = <<>>
         \/ /\ Fits(r) /\ pc'[p] = "flying" /\ bytes'[p] = packet_to_bytes(PacketFor(p, r, 1))
            /\ next_hop'[p] = <<r.route[1]>>
  <2>1. CASE /\ ~Fits(r) /\ pc' = [pc EXCEPT ![p] = "refused"] /\ bytes' = [bytes EXCEPT ![p] = <<>>]
             /\ next_hop' = next_hop
    BY <1>2, <2>1, Updated DEF Domains
  <2>2. CASE /\ Fits(r) /\ pc' = [pc EXCEPT ![p] = "flying"]
             /\ bytes' = [bytes EXCEPT ![p] = packet_to_bytes(PacketFor(p, r, 1))]
             /\ next_hop' = [next_hop EXCEPT ![p] = <<r.route[1]>>]
    <3> DEFINE b == packet_to_bytes(PacketFor(p, r, 1))
    <3> HIDE DEF b
    <3>1. bytes' = [bytes EXCEPT ![p] = b]
      BY <2>2 DEF b
    <3>2. bytes' = [x \in Packet |-> bytes'[x]] /\ bytes'[p] = b /\ \A q \in Packet \ {p} : bytes'[q] = bytes[q]
      BY <1>2, <3>1, Updated DEF Domains
    <3> QED BY <1>2, <2>2, <3>2, Updated DEF Domains, b
  <2> QED BY <1>5, <2>1, <2>2
<1>7. Domains'
  BY <1>2, <1>3, <1>6 DEF Domains
<1>8. Frame(p)
  BY <1>1, <1>3, <1>6, <1>7 DEF Frame
<1>9. IsPlaced(p)' /\ pc'[p] # "lost"
  <2>1. CASE ~Fits(r) /\ pc'[p] = "refused" /\ bytes'[p] = <<>>
    BY <1>1, <1>3, <2>1 DEF IsPlaced
  <2>2. CASE /\ Fits(r) /\ pc'[p] = "flying" /\ bytes'[p] = packet_to_bytes(PacketFor(p, r, 1))
             /\ next_hop'[p] = <<r.route[1]>>
    <3> DEFINE zero == 0
    <3>1. zero \in 0..(Len(r.route) - 1) /\ zero + 1 = 1
      BY RoutesHave DEF Routable
    <3>2. visited'[p] = Stops(p, r, zero)
      BY <1>1, StopsAre
    <3> HIDE DEF zero
    <3>3. /\ bytes'[p] = packet_to_bytes(PacketFor(p, r, zero + 1))
          /\ next_hop'[p] = <<r.route[zero + 1]>>
      BY <2>2, <3>1
    <3>4. Placed(p, "flying", r, bytes'[p], next_hop'[p], payload'[p], received'[p], visited'[p])
      BY <1>1, <2>2, <3>1, <3>2, <3>3
    <3> QED BY <1>3, <2>2, <3>4 DEF IsPlaced
  <2> QED BY <1>6, <2>1, <2>2
<1> QED BY <1>8, <1>9, StepKeeps

\* A packet that ends before it is sent.
LEMMA Ending ==
  ASSUME SphinxInvariant, NEW p \in Packet, NEW r \in Requests, ~Fits(r),
         pc[p] = "unsent", NEW place \in {"refused", "panicked"}, Ends(p, place),
         request' = [request EXCEPT ![p] = r],
         UNCHANGED <<next_hop, cache, payload, received, visited, misled>>
  PROVE  SphinxInvariant'
<1>1. /\ payload[p] = <<>> /\ received[p] = <<>> /\ visited[p] = <<>>
  BY DEF SphinxInvariant, IsPlaced, Placed
<1>2. Domains
  BY DEF SphinxInvariant
<1>3. /\ Domains' /\ request'[p] = r /\ bytes'[p] = <<>> /\ pc'[p] = place
      /\ \A q \in Packet \ {p} : pc'[q] = pc[q] /\ bytes'[q] = bytes[q] /\ request'[q] = request[q]
  BY <1>2 DEF Domains, Ends, Becomes
<1>4. Frame(p)
  BY <1>1, <1>3 DEF Frame
<1>5. IsPlaced(p)' /\ pc'[p] # "lost"
  BY <1>1, <1>3 DEF IsPlaced, Placed
<1> QED BY <1>4, <1>5, StepKeeps

\* Building a packet.
LEMMA BuildPacketKeeps ==
  ASSUME SphinxInvariant, NEW p \in Packet, NEW r \in Requests, BuildPacket(p, r)
  PROVE  SphinxInvariant'
<1>1. (Fits(r) => Routable(r)) /\ (Buildable(r.route, r.delays) <=> Routable(r))
  BY RequestHas
<1>2. CASE ~Routable(r)
  <2>1. Ends(p, "panicked") /\ UNCHANGED next_hop
    BY <1>1, <1>2 DEF BuildPacket
  <2>2. ~Fits(r)
    BY <1>1, <1>2
  <2> QED BY <2>1, <2>2, Ending DEF BuildPacket
<1>3. CASE Routable(r)
  <2> DEFINE result == build_packet(SecretFor(p, r), r.message, r.route, destination(p), r.delays, r.payload_size)
  <2>1. Sends(p, result, r.route[1])
    BY <1>1, <1>3 DEF BuildPacket, SecretFor
  <2>2. result = IF Fits(r) THEN PacketFor(p, r, 1) ELSE Failed
    BY <1>3, Built
  <2> HIDE DEF result
  <2> QED BY <1>3, <2>1, <2>2, Sending DEF BuildPacket
<1> QED BY <1>2, <1>3

\* Making a reply block.
LEMMA SURBKeeps ==
  ASSUME SphinxInvariant, NEW p \in Packet, NEW r \in Requests, construct_SURB(p, r)
  PROVE  SphinxInvariant'
<1>1. (Fits(r) => Routable(r)) /\ (Buildable(r.route, r.delays) <=> Routable(r))
      /\ r.route \in Seq(Node)
  BY RequestHas
<1>2. CASE ~Routable(r)
  <2>1. Ends(p, "refused") \/ Ends(p, "panicked")
    BY <1>1, <1>2 DEF construct_SURB
  <2>2. ~Fits(r)
    BY <1>1, <1>2
  <2> QED BY <2>1, <2>2, Ending DEF construct_SURB
<1>3. CASE Routable(r)
  <2> DEFINE b == surb_to_bytes(SURBFor(p, r))
  <2>1. r.route # <<>> /\ Len(r.delays) = Len(r.route)
    BY <1>1, <1>3 DEF Routable
  <2>2. /\ pc' = [pc EXCEPT ![p] = "surb"]
        /\ bytes' = [bytes EXCEPT ![p] =
             surb_to_bytes(SURB_new(SecretFor(p, r), r.route, r.delays, destination(p)))]
    BY <1>1, <1>3, <2>1 DEF construct_SURB, Becomes, SecretFor
  <2>3. bytes' = [bytes EXCEPT ![p] = b]
    BY <1>3, <2>2, Built
  <2> HIDE DEF b
  <2>4. /\ payload[p] = <<>> /\ received[p] = <<>> /\ visited[p] = <<>> /\ pc[p] = "unsent" /\ Domains
    BY DEF SphinxInvariant, IsPlaced, Placed, construct_SURB
  <2>5. /\ Domains' /\ request'[p] = r /\ bytes'[p] = b /\ pc'[p] = "surb"
        /\ \A q \in Packet \ {p} : pc'[q] = pc[q] /\ bytes'[q] = bytes[q] /\ request'[q] = request[q]
    BY <2>2, <2>3, <2>4 DEF Domains, construct_SURB
  <2>6. UNCHANGED <<next_hop, cache, payload, received, visited, misled>>
    BY DEF construct_SURB
  <2>7. Frame(p)
    BY <2>4, <2>5, <2>6 DEF Frame
  <2>8. IsPlaced(p)' /\ pc'[p] # "lost"
    BY <1>3, <2>4, <2>5, <2>6 DEF IsPlaced, Placed, b
  <2> QED BY <2>6, <2>7, <2>8, StepKeeps
<1> QED BY <1>2, <1>3

\* Using one.
LEMMA UseKeeps ==
  ASSUME SphinxInvariant, NEW p \in Packet, UseSURB(p)
  PROVE  SphinxInvariant'
<1> DEFINE r == request[p]
           surb == SURBFor(p, r)
<1>1. pc[p] = "surb" /\ r \in Requests /\ Routable(r) /\ bytes[p] = surb_to_bytes(surb)
  BY DEF SphinxInvariant, IsPlaced, Placed, UseSURB
<1>2. /\ surb_from_bytes(bytes[p]) = surb /\ surb.kind = "surb" /\ surb.first_hop_address = r.route[1]
      /\ use_surb(surb, r.message, r.payload_size) = IF Fits(r) THEN PacketFor(p, r, 1) ELSE Failed
  BY <1>1, Built
<1> DEFINE result == use_surb(surb, r.message, r.payload_size)
<1> HIDE DEF surb
<1>3. Sends(p, result, r.route[1])
  BY <1>2 DEF UseSURB
<1> HIDE DEF result, r
<1>4. UNCHANGED <<request, cache, payload, received, visited, misled>> /\ r = request[p]
  BY DEF UseSURB, r
<1>5. result = IF Fits(r) THEN PacketFor(p, r, 1) ELSE Failed
  BY <1>2 DEF result
<1> QED BY <1>1, <1>3, <1>4, <1>5, Sending

\* Recovering the message.
LEMMA RecoverKeeps ==
  ASSUME SphinxInvariant, NEW p \in Packet, Recover(p)
  PROVE  SphinxInvariant' /\ pc'[p] = "delivered" /\ received'[p] = <<request[p].message>>
<1> DEFINE r == request[p]
           n == Len(r.route)
           left == payload[p]
<1>1. /\ pc[p] = "final" /\ r \in Requests /\ Fits(r) /\ bytes[p] = <<>>
      /\ left = PayloadFor(p, r, n + 1) /\ visited[p] = Stops(p, r, n)
  BY DEF SphinxInvariant, IsPlaced, Placed, Recover
<1>2. Domains
  BY DEF SphinxInvariant
<1>3. recover_plaintext(left) = <<r.message>>
  <2> HIDE DEF r
  <2> DEFINE keys == PayloadKeys(SecretFor(p, r), r.route)
  <2>1. Routable(r) /\ IsSized(r.message, r.payload_size) /\ n \in Nat
    BY <1>1, RequestHas
  <2>2. left = PayloadAt(r.message, r.payload_size, keys, n, n + 1)
    BY <1>1, <2>1, PlanIs DEF PayloadFor, PayloadOf
  <2> HIDE DEF keys, left, n
  <2> QED BY <2>1, <2>2, Recovered
<1> DEFINE got == <<r.message>>
<1>4. got # <<>>
  OBVIOUS
<1> HIDE DEF got
<1>5. received' = [received EXCEPT ![p] = got]
  BY <1>3 DEF Recover, got
<1>6. received'[p] = got
  BY <1>2, <1>5 DEF Domains
<1>7. pc' = [pc EXCEPT ![p] = "delivered"]
  BY <1>4, <1>6 DEF Recover, Becomes
<1>8. UNCHANGED <<request, bytes, next_hop, cache, payload, visited, misled>>
  BY DEF Recover
<1>9. /\ Domains' /\ pc'[p] = "delivered"
      /\ \A q \in Packet \ {p} : pc'[q] = pc[q] /\ received'[q] = received[q]
  BY <1>2, <1>5, <1>7, <1>8 DEF Domains
<1>10. Frame(p)
  BY <1>1, <1>8, <1>9 DEF Frame
<1>11. IsPlaced(p)' /\ pc'[p] # "lost"
  <2>1. Placed(p, "delivered", r, bytes[p], next_hop[p], left, got, visited[p])
    BY <1>1 DEF Placed, got
  <2> QED BY <1>6, <1>8, <1>9, <2>1 DEF IsPlaced
<1> QED BY <1>6, <1>8, <1>9, <1>10, <1>11, StepKeeps DEF got

\* What a node has of a secret is what it learnt from a packet that had come
\* the same way; so that only a way that ended there stops another one.
LEMMA EntryIs ==
  ASSUME SphinxInvariant, NEW p \in Packet, NEW r \in Requests, r = request[p], Routable(r),
         NEW i \in 1..Len(r.route), Len(visited[p]) + 1 = i, NEW n \in Node,
         NEW known, Known(n, known), known.shared_secret = ChainFor(p, r)[i - 1]
  PROVE  /\ known.routing_keys = KeysOf(PlanFor(p, r), SecretFor(p, r), i, n)
         /\ n = r.route[i] =>
              \/ known.new_blinded_secret = <<ChainFor(p, r)[i]>>
              \/ known.new_blinded_secret = <<>> /\ (i = Len(r.route) \/ Overtaken(p))
<1>1. PICK q \in Packet : \E k \in 1..Len(visited[q]) :
        request[q].route[k] = n /\ known = EntryFor(q, request[q], k)
  BY DEF Known
<1> DEFINE s == request[q]
           other == s.route
           route == r.route
<1>2. PICK k \in 1..Len(visited[q]) : other[k] = n /\ known = EntryFor(q, s, k)
  BY <1>1
<1>3. /\ s \in Requests /\ Fits(s) /\ k \in 1..Len(other) /\ Len(visited[q]) <= Len(other)
      /\ Len(visited[q]) \in Nat /\ Len(other) \in Nat
  <2>1. IsPlaced(q)
    BY DEF SphinxInvariant
  <2>2. /\ Len(visited[q]) \in Nat
        /\ Len(visited[q]) # 0 => s \in Requests /\ Fits(s) /\ Len(visited[q]) <= Len(other)
    BY <2>1, PlacedHas, RoutesHave DEF IsPlaced
  <2> DEFINE v == Len(visited[q])
  <2>3. v \in Nat /\ k \in 1..v
    BY <2>2
  <2> HIDE DEF v
  <2>4. v # 0
    BY <2>3
  <2>5. s \in Requests /\ Fits(s) /\ v <= Len(other)
    BY <2>2, <2>4 DEF v
  <2>6. Len(other) \in Nat
    BY <2>5, RoutesHave
  <2> DEFINE m == Len(other)
  <2> HIDE DEF m
  <2>7. k \in 1..m
    BY <2>3, <2>5, <2>6 DEF m
  <2> QED BY <2>3, <2>5, <2>6, <2>7 DEF v, m
<1> DEFINE a == ChainFor(q, s)
           b == ChainFor(p, r)
           A == SecretFor(q, s)
           B == SecretFor(p, r)
<1>4. /\ known.shared_secret = a[k - 1]
      /\ known.new_blinded_secret = IF k = Len(other) THEN <<>> ELSE <<a[k]>>
      /\ known.routing_keys = compute_routing_keys(a[k - 1], private_key(n))
  BY <1>2 DEF EntryFor
<1>5. /\ other \in Seq(Node) /\ route \in Seq(Node) /\ IsSecret(A) /\ IsSecret(B)
      /\ Len(route) \in Nat
  BY <1>3, RequestHas
<1>6. a = Chain(A, other) /\ b = Chain(B, route)
  BY DEF ChainFor
<1> HIDE DEF a, b, A, B, s
<1>7. A = B /\ k = i /\ \A l \in 1..(i - 1) : route[l] = other[l]
  <2> DEFINE j == i - 1
             h == k - 1
  <2>1. j \in 0..Len(route) /\ h \in 0..Len(other)
    BY <1>3, <1>5
  <2>2. b[j] = a[h]
    BY <1>4 DEF b
  <2> HIDE DEF j, h, other, route
  <2>3. Chain(B, route)[j] = Chain(A, other)[h]
    BY <1>6, <2>2
  <2>4. B = A /\ j = h /\ \A l \in 1..j : route[l] = other[l]
    BY <1>5, <2>1, <2>3, ChainTells
  <2> QED BY <1>3, <1>5, <2>4 DEF j, h, other, route
<1>8. known.routing_keys = KeysOf(PlanFor(p, r), B, i, n)
  <2>1. HeaderAt(PlanFor(p, r), B, i).shared_secret = b[i - 1]
    BY <1>6, PlanIs DEF HeaderAt
  <2>2. a[k - 1] = b[i - 1]
    BY <1>4 DEF b
  <2> QED BY <1>4, <2>1, <2>2 DEF KeysOf
<1>9. ASSUME n = route[i]
      PROVE  \/ known.new_blinded_secret = <<b[i]>>
             \/ known.new_blinded_secret = <<>> /\ (i = Len(route) \/ Overtaken(p))
  <2>1. \A l \in 1..i : route[l] = other[l]
    <3> TAKE l \in 1..i
    <3>1. l = i \/ l \in 1..(i - 1)
      BY <1>5
    <3>2. route[i] = other[i]
      BY <1>2, <1>7, <1>9 DEF s
    <3> QED BY <1>7, <3>1, <3>2
  <2>2. a[i] = b[i]
    <3>1. IsChain(a, A, other) /\ IsChain(b, B, route)
      BY <1>5, <1>6, ChainIs
    <3>2. i \in 1..Len(other) /\ i \in 1..Len(route)
      BY <1>3, <1>7
    <3>3. a[i - 1] = b[i - 1] /\ other[i] = route[i]
      BY <1>4, <1>5, <1>7, <2>1 DEF b
    <3> HIDE DEF other, route
    <3>4. a[i] = a[i - 1] \cup {<<"blinding", a[i - 1] \cup {<<"node", other[i]>>}>>}
      BY <3>1, <3>2 DEF IsChain
    <3>5. b[i] = b[i - 1] \cup {<<"blinding", b[i - 1] \cup {<<"node", route[i]>>}>>}
      BY <3>1, <3>2 DEF IsChain
    <3> QED BY <3>3, <3>4, <3>5, Zenon
  <2>3. CASE k # Len(other)
    BY <1>4, <1>7, <2>2, <2>3
  <2>4. CASE k = Len(other)
    <3>1. known.new_blinded_secret = <<>>
      BY <1>4, <2>4
    <3>2. initial_secret(q, request[q].secret) = initial_secret(p, request[p].secret)
      BY <1>7 DEF A, B, SecretFor, s
    <3>3. Len(request[q].route) = Len(visited[p]) + 1 /\ Len(visited[q]) = Len(request[q].route)
      <4> DEFINE v == Len(visited[q])
                 m == Len(other)
      <4>1. v \in Nat /\ m \in Nat /\ v <= m /\ k \in 1..v /\ k = m
        BY <1>3, <2>4
      <4> HIDE DEF v, m
      <4>2. v = m
        BY <4>1
      <4> QED BY <1>7, <2>4, <4>2 DEF v, m, s
    <3>4. IsPrefix(other, route)
      <4> DEFINE m == Len(other)
      <4>1. m \in 0..Len(route) /\ m \in 1..Len(route) /\ m = i /\ m \in Nat
        BY <1>5, <1>7, <2>4
      <4>2. \A l \in 1..m : other[l] = route[l]
        BY <2>1, <4>1
      <4> HIDE DEF route, other
      <4>3. SubSeq(other, 1, m) = SubSeq(route, 1, m)
        <5>1. IsString(other, m) /\ IsString(route, Len(route)) /\ Len(route) \in Nat
          BY <1>5, SequenceIs
        <5> HIDE DEF m
        <5>2. 1 \in 1..(m + 1) /\ m \in (1 - 1)..m /\ 1 \in 1..(Len(route) + 1) /\ m \in (1 - 1)..Len(route)
          <6> DEFINE x == Len(route)
          <6>1. x \in Nat /\ m \in 0..x /\ m \in Nat
            BY <4>1, <5>1
          <6> HIDE DEF x
          <6>2. 1 \in 1..(m + 1) /\ m \in (1 - 1)..m /\ 1 \in 1..(x + 1) /\ m \in (1 - 1)..x
            BY <6>1
          <6> QED BY <6>2 DEF x
        <5>3. SubSeq(other, 1, m) = [l \in 1..(m - 1 + 1) |-> other[l + 1 - 1]]
          BY <4>1, <5>1, <5>2, Part
        <5>4. SubSeq(route, 1, m) = [l \in 1..(m - 1 + 1) |-> route[l + 1 - 1]]
          BY <4>1, <5>1, <5>2, Part
        <5>5. \A l \in 1..(m - 1 + 1) : other[l + 1 - 1] = route[l + 1 - 1]
          <6> TAKE l \in 1..(m - 1 + 1)
          <6>1. l \in 1..m /\ l + 1 - 1 = l
            BY <4>1
          <6> QED BY <4>2, <6>1
        <5> QED BY <5>3, <5>4, <5>5
      <4>4. m <= Len(route)
        BY <1>5, <4>1
      <4> QED BY <4>3, <4>4 DEF IsPrefix
    <3>5. Overtaken(p)
      BY <3>2, <3>3, <3>4 DEF Overtaken, s
    <3> QED BY <3>1, <3>5
  <2> QED BY <2>3, <2>4
<1> QED BY <1>8, <1>9 DEF b, B

\* What a node makes of a packet: the next one, if it is for this node and no
\* other packet's way ended here; or nothing.
LEMMA ProcessedIs ==
  ASSUME SphinxInvariant, NEW p \in Packet, pc[p] = "flying", NEW n \in Node,
         NEW r, r = request[p], NEW i, i = Len(visited[p]) + 1
  PROVE  /\ r \in Requests /\ Fits(r) /\ i \in 1..Len(r.route) /\ Len(visited[p]) \in Nat
         /\ visited[p] = Stops(p, r, Len(visited[p])) /\ next_hop[p] = <<r.route[i]>>
         /\ packet_from_bytes(bytes[p]) = PacketFor(p, r, i)
         /\ PacketFor(p, r, i).header.shared_secret = ChainFor(p, r)[i - 1]
         /\ \/ /\ n = r.route[i]
               /\ processed(PacketFor(p, r, i), n)
                    = Handed(PlanFor(p, r), SecretFor(p, r), r.message, r.payload_size, i)
            \/ /\ processed(PacketFor(p, r, i), n) = Failed
               /\ n # r.route[i] \/ Overtaken(p)
<1> DEFINE plan == PlanFor(p, r)
           secret == SecretFor(p, r)
           packet == PacketFor(p, r, i)
           shared == ChainFor(p, r)[i - 1]
           handed == Handed(plan, secret, r.message, r.payload_size, i)
           keys == KeysOf(plan, secret, i, n)
           entries == cache[n]
<1>1. /\ r \in Requests /\ Fits(r) /\ i \in 1..Len(r.route) /\ Len(visited[p]) \in Nat
      /\ visited[p] = Stops(p, r, Len(visited[p])) /\ next_hop[p] = <<r.route[i]>>
      /\ bytes[p] = packet_to_bytes(packet)
  <2>1. IsPlaced(p)
    BY DEF SphinxInvariant
  <2> QED BY <2>1, PlacedHas, RoutesHave DEF IsPlaced
<1>2. Routable(r) /\ IsSized(r.message, r.payload_size)
  BY <1>1, RequestHas
<1>3. IsPlan(plan, secret) /\ plan.route = r.route
  BY <1>1, <1>2, PlanIs
<1>4. packet_from_bytes(packet_to_bytes(packet)) = packet
  BY <1>1, <1>2, <1>3, PacketOnWire DEF PacketFor
<1>5. packet.header.shared_secret = shared
  BY <1>3 DEF PacketFor, PacketAt, HeaderAt, ChainFor
<1> DEFINE route == r.route
           next == ChainFor(p, r)[i]
<1>6. /\ process(packet, private_key(n)) = IF n = route[i] THEN handed ELSE Failed
      /\ process_with_derived_keys(packet, <<>>, keys) = IF n = route[i] /\ i = Len(route) THEN handed ELSE Failed
      /\ process_with_derived_keys(packet, <<next>>, keys) = IF n = route[i] THEN handed ELSE Failed
      /\ n # route[i] => \A b : process_with_derived_keys(packet, b, keys) = Failed
  BY <1>1, <1>3, PacketProcessed, SMTT(60) DEF PacketFor, ChainFor
<1> HIDE DEF plan, secret, packet, shared, handed, keys, entries, route, next
<1>7. CASE shared \notin secrets(entries)
  <2>1. processed(packet, n) = process(packet, private_key(n))
    BY <1>5, <1>7 DEF processed, entries
  <2> QED BY <1>1, <1>4, <1>5, <1>6, <1>7, <2>1 DEF plan, secret, packet, shared, handed, route
<1>8. CASE shared \in secrets(entries)
  <2> DEFINE known == entry(n, shared)
  <2>1. Len(entries) \in Nat /\ IsString(entries, Len(entries)) /\ \A j \in 1..Len(entries) : Known(n, entries[j])
    BY DEF SphinxInvariant, Cached, entries
  <2>2. DOMAIN entries = 1..Len(entries)
    BY <2>1, LenIs
  <2>3. PICK j \in DOMAIN entries : known = entries[j] /\ entries[j].shared_secret = shared
    BY <1>8 DEF secrets, entry, entries
  <2> HIDE DEF known
  <2>4. Known(n, known) /\ known.shared_secret = shared
    BY <2>1, <2>2, <2>3
  <2>5. /\ known.routing_keys = keys
        /\ n = route[i] => \/ known.new_blinded_secret = <<next>>
                           \/ known.new_blinded_secret = <<>> /\ (i = Len(route) \/ Overtaken(p))
    BY <1>1, <1>2, <2>4, EntryIs DEF keys, shared, route, next, plan, secret
  <2>6. processed(packet, n) = process_with_derived_keys(packet, known.new_blinded_secret, keys)
    BY <1>5, <1>8, <2>5 DEF processed, entries, known
  <2>7. CASE n # route[i]
    BY <1>1, <1>4, <1>5, <1>6, <2>6, <2>7 DEF plan, secret, packet, shared, handed, route
  <2>8. CASE n = route[i] /\ known.new_blinded_secret = <<next>>
    BY <1>1, <1>4, <1>5, <1>6, <2>6, <2>8 DEF plan, secret, packet, shared, handed, route
  <2>9. CASE n = route[i] /\ known.new_blinded_secret = <<>> /\ (i = Len(route) \/ Overtaken(p))
    BY <1>1, <1>4, <1>5, <1>6, <2>6, <2>9 DEF plan, secret, packet, shared, handed, route
  <2> QED BY <2>5, <2>7, <2>8, <2>9
<1> QED BY <1>7, <1>8

\* A node keeps what it learns from a packet it processes.
LEMMA Remembering ==
  ASSUME SphinxInvariant, NEW p \in Packet, Frame(p), NEW n \in Node, NEW packet, NEW result,
         Remembers(n, packet, result),
         result.kind # "error" => /\ Len(visited[p]) + 1 \in 1..Len(visited'[p])
                                  /\ request'[p].route[Len(visited[p]) + 1] = n
                                  /\ [shared_secret |-> packet.header.shared_secret,
                                      new_blinded_secret |-> next_secret(result),
                                      routing_keys |-> compute_routing_keys(packet.header.shared_secret, private_key(n))]
                                       = EntryFor(p, request'[p], Len(visited[p]) + 1)
  PROVE  \A x \in Node : Cached(x)'
<1> DEFINE shared == packet.header.shared_secret
           known == [shared_secret |-> shared, new_blinded_secret |-> next_secret(result),
                     routing_keys |-> compute_routing_keys(shared, private_key(n))]
           m == Len(cache[n])
<1>1. \A x \in Node : Cached(x)
  BY DEF SphinxInvariant
<1>2. \A x, e : Known(x, e) => Known(x, e)'
  BY Kept
<1>3. ASSUME NEW x \in Node, cache'[x] = cache[x] PROVE Cached(x)'
  <2>1. \A i \in 1..Len(cache[x]) : Known(x, cache[x][i])'
    <3> TAKE i \in 1..Len(cache[x])
    <3> DEFINE e == cache[x][i]
    <3>1. Known(x, e)
      BY <1>1 DEF Cached
    <3>2. e = cache'[x][i]
      BY <1>3
    <3> QED BY <1>2, <3>1, <3>2
  <2> QED BY <1>1, <1>3, <2>1 DEF Cached
<1>4. CASE cache' = cache
  BY <1>3, <1>4
<1>5. CASE result.kind # "error" /\ shared \notin secrets(cache[n]) /\ cache' = [cache EXCEPT ![n] = Append(@, known)]
  <2>1. cache'[n] = Append(cache[n], known) /\ \A x \in Node \ {n} : cache'[x] = cache[x]
    BY <1>5 DEF SphinxInvariant, Domains
  <2>2. m \in Nat /\ IsString(cache[n], m)
    BY <1>1 DEF Cached
  <2>3. DOMAIN cache[n] = 1..m
    BY <2>2, LenIs
  <2>4. known = EntryFor(p, request'[p], Len(visited[p]) + 1)
    BY <1>5
  <2>5. known.shared_secret = shared
    OBVIOUS
  <2> HIDE DEF known
  <2>6. cache'[n] = [i \in 1..(m + 1) |-> IF i <= m THEN cache[n][i] ELSE known]
    <3> DEFINE kept == cache[n]
    <3>1. m \in Nat /\ IsString(kept, m)
      BY <2>2
    <3> HIDE DEF m, kept
    <3>2. Append(kept, known) = [i \in 1..(m + 1) |-> IF i <= m THEN kept[i] ELSE known]
      BY <3>1, Added
    <3> QED BY <2>1, <3>2 DEF kept
  <2> DEFINE c == cache'[n]
  <2> HIDE DEF m
  <2>7. IsString(c, m + 1) /\ m + 1 \in Nat
    BY <2>2, <2>6 DEF IsString
  <2>8. Len(c) = m + 1
    <3> HIDE DEF c
    <3> QED BY <2>7, LenIs
  <2>9. /\ \A i \in 1..m : i \in 1..(m + 1) /\ c[i] = cache[n][i]
        /\ c[m + 1] = known
        /\ \A i \in 1..(m + 1) : i \in 1..m \/ i = m + 1
    BY <2>2, <2>6
  <2>10. Known(n, known)'
    <3>1. \E k \in 1..Len(visited'[p]) : request'[p].route[k] = n /\ known = EntryFor(p, request'[p], k)
      BY <1>5, <2>4
    <3>2. \E q \in Packet : \E k \in 1..Len(visited'[q]) :
            request'[q].route[k] = n /\ known = EntryFor(q, request'[q], k)
      BY <3>1
    <3> QED BY <3>2 DEF Known, EntryFor, known
  <2>11. ASSUME NEW i \in 1..(m + 1) PROVE Known(n, cache[n][i])'
    <3>1. CASE i = m + 1
      BY <2>9, <2>10, <3>1
    <3>2. CASE i \in 1..m
      <4> DEFINE e == cache[n][i]
      <4>1. Known(n, e)
        BY <1>1, <3>2 DEF Cached, m
      <4>2. e = cache'[n][i]
        BY <2>9, <3>2
      <4> QED BY <1>2, <4>1, <4>2
    <3> QED BY <2>9, <3>1, <3>2
  <2>12. ASSUME NEW i \in 1..(m + 1), NEW j \in 1..(m + 1), c[i].shared_secret = c[j].shared_secret
         PROVE  i = j
    <3>1. \A l \in 1..m : cache[n][l].shared_secret # shared
      BY <1>5, <2>3 DEF secrets
    <3>2. \A k, l \in 1..m : cache[n][k].shared_secret = cache[n][l].shared_secret => k = l
      BY <1>1 DEF Cached, m
    <3> HIDE DEF c
    <3> QED BY <2>5, <2>9, <2>12, <3>1, <3>2
  <2>13. Cached(n)'
    BY <2>7, <2>8, <2>11, <2>12 DEF Cached
  <2> QED BY <1>3, <2>1, <2>13
<1> QED BY <1>4, <1>5 DEF Remembers

\* What becomes of a packet that a node processes.
Goes(p, n, r, i) ==
  /\ i # Len(r.route) /\ n = r.route[i] /\ pc' = pc /\ payload' = payload
  /\ bytes' = [bytes EXCEPT ![p] = packet_to_bytes(PacketFor(p, r, i + 1))]
  /\ next_hop' = [next_hop EXCEPT ![p] = <<r.route[i + 1]>>]
  /\ visited' = [visited EXCEPT ![p] = Stops(p, r, i)]

Arrives(p, n, r, i) ==
  /\ i = Len(r.route) /\ n = r.route[i] /\ next_hop' = next_hop
  /\ pc' = [pc EXCEPT ![p] = "final"] /\ bytes' = [bytes EXCEPT ![p] = <<>>]
  /\ payload' = [payload EXCEPT ![p] = PayloadFor(p, r, i + 1)]
  /\ visited' = [visited EXCEPT ![p] = Stops(p, r, i)]

Fails(p, n, r, i) ==
  /\ n # r.route[i] \/ Overtaken(p)
  /\ pc' = [pc EXCEPT ![p] = "lost"] /\ bytes' = [bytes EXCEPT ![p] = <<>>]
  /\ UNCHANGED <<next_hop, visited, payload>>

\* Processing is one of these three, and the node keeps what it learnt unless it
\* is the last one.
LEMMA ProcessDoes ==
  ASSUME SphinxInvariant, NEW p \in Packet, NEW n \in Node, Process(p, n),
         NEW r, r = request[p], NEW i, i = Len(visited[p]) + 1
  PROVE  /\ pc[p] = "flying" /\ r \in Requests /\ Fits(r) /\ i \in 1..Len(r.route) /\ Len(visited[p]) \in Nat
         /\ visited[p] = Stops(p, r, Len(visited[p])) /\ next_hop[p] = <<r.route[i]>>
         /\ Goes(p, n, r, i) \/ Arrives(p, n, r, i) \/ Fails(p, n, r, i)
         /\ \E result :
              /\ Remembers(n, PacketFor(p, r, i), result)
              /\ result.kind # "error" =>
                   /\ n = r.route[i] /\ (Goes(p, n, r, i) \/ Arrives(p, n, r, i))
                   /\ [shared_secret |-> PacketFor(p, r, i).header.shared_secret,
                       new_blinded_secret |-> next_secret(result),
                       routing_keys |-> compute_routing_keys(PacketFor(p, r, i).header.shared_secret, private_key(n))]
                        = EntryFor(p, r, i)
<1> DEFINE packet == PacketFor(p, r, i)
           result == processed(packet, n)
           plan == PlanFor(p, r)
           secret == SecretFor(p, r)
           handed == Handed(plan, secret, r.message, r.payload_size, i)
           stops == Stops(p, r, i)
           m == Len(r.route)
           known == [shared_secret |-> packet.header.shared_secret, new_blinded_secret |-> next_secret(result),
                     routing_keys |-> compute_routing_keys(packet.header.shared_secret, private_key(n))]
<1>1. pc[p] = "flying"
  BY DEF Process
<1>2. /\ r \in Requests /\ Fits(r) /\ i \in 1..m /\ Len(visited[p]) \in Nat
      /\ visited[p] = Stops(p, r, Len(visited[p])) /\ next_hop[p] = <<r.route[i]>>
      /\ packet_from_bytes(bytes[p]) = packet
      /\ packet.header.shared_secret = ChainFor(p, r)[i - 1]
      /\ \/ n = r.route[i] /\ result = handed
         \/ result = Failed /\ (n # r.route[i] \/ Overtaken(p))
  BY <1>1, ProcessedIs
<1>3. /\ plan.route = r.route /\ plan.delays = r.delays /\ IsPlan(plan, secret)
      /\ [address |-> plan.final.address, identifier |-> plan.final.identifier] = destination(p)
  BY <1>2, RequestHas, PlanIs
<1> HIDE DEF packet, result
<1>4. /\ Remembers(n, packet, result)
      /\ \/ result.kind = "error" /\ Ends(p, "lost") /\ UNCHANGED <<next_hop, visited, payload>>
         \/ /\ result.kind = "forward"
            /\ bytes' = [bytes EXCEPT ![p] = packet_to_bytes(result.packet)]
            /\ next_hop' = [next_hop EXCEPT ![p] = <<result.next_hop>>]
            /\ visited' = [visited EXCEPT ![p] = Append(visited[p], <<n, result.delay>>)]
            /\ UNCHANGED <<pc, payload>>
         \/ /\ result.kind = "final"
            /\ Ends(p, "final")
            /\ visited' = [visited EXCEPT ![p] = Append(visited[p], <<n, result.destination>>)]
            /\ payload' = [payload EXCEPT ![p] = result.payload]
            /\ UNCHANGED next_hop
  <2>1. packet_from_bytes(bytes[p]) = packet
    BY <1>2
  <2> QED BY <2>1 DEF Process, result
<1>5. Append(visited[p], <<r.route[i], IF i = m THEN destination(p) ELSE r.delays[i]>>) = stops
  <2> DEFINE k == Len(visited[p])
  <2>1. k \in Nat /\ i = k + 1 /\ visited[p] = Stops(p, r, k)
    BY <1>2
  <2> HIDE DEF k
  <2>2. Append(Stops(p, r, k), <<r.route[k + 1], IF k + 1 = Len(r.route) THEN destination(p) ELSE r.delays[k + 1]>>)
              = Stops(p, r, k + 1)
    BY <2>1, StopsAre
  <2> QED BY <2>1, <2>2
<1> HIDE DEF handed, stops
<1>6. CASE result = Failed /\ (n # r.route[i] \/ Overtaken(p))
  <2>1. result.kind = "error"
    BY <1>6 DEF Failed
  <2>2. Fails(p, n, r, i)
    BY <1>4, <1>6, <2>1 DEF Fails, Ends, Becomes
  <2> QED BY <1>1, <1>2, <1>4, <2>1, <2>2 DEF packet
<1>7. CASE n = r.route[i] /\ result = handed /\ i # m
  <2> DEFINE hop == r.route[i + 1]
             delay == r.delays[i]
             sent == PacketFor(p, r, i + 1)
  <2>1. result = [kind |-> "forward", next_hop |-> hop, delay |-> delay, packet |-> sent]
    BY <1>3, <1>7 DEF handed, Handed, PacketFor
  <2>2. sent.header.shared_secret = ChainFor(p, r)[i]
    <3>1. sent.header.shared_secret = ChainFor(p, r)[i + 1 - 1]
      BY <1>3 DEF PacketFor, PacketAt, HeaderAt, ChainFor
    <3>2. i + 1 - 1 = i
      BY <1>2
    <3> QED BY <3>1, <3>2
  <2> HIDE DEF hop, delay, sent
  <2>3. result.kind = "forward" /\ result.next_hop = hop /\ result.delay = delay /\ result.packet = sent
    BY <2>1
  <2>4. next_secret(result) = <<ChainFor(p, r)[i]>>
    BY <2>2, <2>3 DEF next_secret
  <2>5. known = EntryFor(p, r, i)
    BY <1>2, <1>7, <2>4 DEF EntryFor
  <2>6. Append(visited[p], <<n, delay>>) = stops
    BY <1>5, <1>7 DEF delay
  <2>7. Goes(p, n, r, i)
    BY <1>4, <1>7, <2>3, <2>6 DEF Goes, hop, sent, stops
  <2> QED BY <1>1, <1>2, <1>4, <1>7, <2>5, <2>7 DEF packet
<1>8. CASE n = r.route[i] /\ result = handed /\ i = m
  <2> DEFINE to == destination(p)
             left == PayloadFor(p, r, i + 1)
  <2>1. result = [kind |-> "final", destination |-> to, payload |-> left]
    BY <1>3, <1>8 DEF handed, Handed, PayloadFor
  <2> HIDE DEF to, left
  <2>2. result.kind = "final" /\ result.destination = to /\ result.payload = left
    BY <2>1
  <2>3. next_secret(result) = <<>>
    BY <2>2 DEF next_secret
  <2>4. known = EntryFor(p, r, i)
    BY <1>2, <1>8, <2>3 DEF EntryFor
  <2>5. Append(visited[p], <<n, to>>) = stops
    BY <1>5, <1>8 DEF to
  <2>6. Arrives(p, n, r, i)
    BY <1>4, <1>8, <2>2, <2>5 DEF Arrives, Ends, Becomes, left, stops
  <2> QED BY <1>1, <1>2, <1>4, <1>8, <2>4, <2>6 DEF packet
<1> QED BY <1>2, <1>6, <1>7, <1>8

\* Processing a packet.
LEMMA ProcessKeeps ==
  ASSUME SphinxInvariant, NEW p \in Packet, NEW n \in Node, Process(p, n)
  PROVE  SphinxInvariant'
<1> DEFINE r == request[p]
           i == Len(visited[p]) + 1
           m == Len(r.route)
           k == Len(visited[p])
<1>1. /\ pc[p] = "flying" /\ r \in Requests /\ Fits(r) /\ i \in 1..m /\ k \in Nat
      /\ visited[p] = Stops(p, r, k) /\ next_hop[p] = <<r.route[i]>>
      /\ Goes(p, n, r, i) \/ Arrives(p, n, r, i) \/ Fails(p, n, r, i)
  BY ProcessDoes
<1>2. PICK result :
        /\ Remembers(n, PacketFor(p, r, i), result)
        /\ result.kind # "error" =>
             /\ n = r.route[i] /\ (Goes(p, n, r, i) \/ Arrives(p, n, r, i))
             /\ [shared_secret |-> PacketFor(p, r, i).header.shared_secret,
                 new_blinded_secret |-> next_secret(result),
                 routing_keys |-> compute_routing_keys(PacketFor(p, r, i).header.shared_secret, private_key(n))]
                  = EntryFor(p, r, i)
  BY ProcessDoes
<1>3. Domains /\ payload[p] = <<>> /\ received[p] = <<>>
  BY <1>1 DEF SphinxInvariant, IsPlaced, Placed
<1>4. misled' = [misled EXCEPT ![p] = misled[p] \/ next_hop[p] # <<n>>] /\ UNCHANGED <<request, received>>
  BY DEF Process
<1>5. m \in Nat /\ i = k + 1
  BY <1>1, RoutesHave
<1> HIDE DEF r, i, m, k
<1>6. cache' = [x \in Node |-> cache'[x]]
  <2>1. cache = [x \in Node |-> cache[x]]
    BY <1>3 DEF Domains
  <2> DEFINE e == [shared_secret |-> PacketFor(p, r, i).header.shared_secret,
                   new_blinded_secret |-> next_secret(result),
                   routing_keys |-> compute_routing_keys(PacketFor(p, r, i).header.shared_secret, private_key(n))]
  <2>2. cache' = cache \/ cache' = [cache EXCEPT ![n] = Append(cache[n], e)]
    BY <1>2 DEF Remembers
  <2> HIDE DEF e
  <2> QED BY <2>1, <2>2
<1> DEFINE stops == Stops(p, r, i)
           sent == packet_to_bytes(PacketFor(p, r, i + 1))
           left == PayloadFor(p, r, i + 1)
<1> HIDE DEF stops, sent, left
<1>7. /\ Domains'
      /\ \A q \in Packet \ {p} :
           /\ pc'[q] = pc[q] /\ request'[q] = request[q] /\ bytes'[q] = bytes[q] /\ next_hop'[q] = next_hop[q]
           /\ payload'[q] = payload[q] /\ received'[q] = received[q] /\ visited'[q] = visited[q]
           /\ misled'[q] = misled[q]
      /\ misled'[p] = (misled[p] \/ next_hop[p] # <<n>>)
      /\ \/ /\ Goes(p, n, r, i) /\ pc'[p] = "flying" /\ bytes'[p] = sent /\ payload'[p] = <<>>
            /\ next_hop'[p] = <<r.route[i + 1]>> /\ visited'[p] = stops
         \/ /\ Arrives(p, n, r, i) /\ pc'[p] = "final" /\ bytes'[p] = <<>> /\ payload'[p] = left
            /\ visited'[p] = stops
         \/ /\ Fails(p, n, r, i) /\ pc'[p] = "lost" /\ bytes'[p] = <<>> /\ payload'[p] = <<>>
            /\ visited'[p] = visited[p] /\ next_hop'[p] = next_hop[p]
  <2>0. /\ misled' = [x \in Packet |-> misled'[x]] /\ misled'[p] = (misled[p] \/ next_hop[p] # <<n>>)
        /\ \A q \in Packet \ {p} : misled'[q] = misled[q]
    <3> DEFINE b == misled[p] \/ next_hop[p] # <<n>>
    <3>1. misled = [x \in Packet |-> misled[x]] /\ misled' = [misled EXCEPT ![p] = b]
      BY <1>3, <1>4 DEF Domains
    <3> HIDE DEF b
    <3>2. misled' = [x \in Packet |-> misled'[x]] /\ misled'[p] = b
          /\ \A q \in Packet \ {p} : misled'[q] = misled[q]
      BY <3>1, Updated
    <3> QED BY <3>2 DEF b
  <2>1. CASE Goes(p, n, r, i)
    <3>1. /\ pc' = pc /\ payload' = payload /\ bytes' = [bytes EXCEPT ![p] = sent]
          /\ next_hop' = [next_hop EXCEPT ![p] = <<r.route[i + 1]>>] /\ visited' = [visited EXCEPT ![p] = stops]
      BY <2>1 DEF Goes, sent, stops
    <3> QED BY <1>1, <1>3, <1>4, <1>6, <2>0, <2>1, <3>1 DEF Domains
  <2>2. CASE Arrives(p, n, r, i)
    <3>1. /\ pc' = [pc EXCEPT ![p] = "final"] /\ payload' = [payload EXCEPT ![p] = left]
          /\ bytes' = [bytes EXCEPT ![p] = <<>>]
          /\ next_hop' = next_hop /\ visited' = [visited EXCEPT ![p] = stops]
      BY <2>2 DEF Arrives, left, stops
    <3> QED BY <1>1, <1>3, <1>4, <1>6, <2>0, <2>2, <3>1 DEF Domains
  <2>3. CASE Fails(p, n, r, i)
    <3>1. /\ pc' = [pc EXCEPT ![p] = "lost"] /\ payload' = payload /\ bytes' = [bytes EXCEPT ![p] = <<>>]
          /\ next_hop' = next_hop /\ visited' = visited
      BY <2>3 DEF Fails
    <3> QED BY <1>1, <1>3, <1>4, <1>6, <2>0, <2>3, <3>1 DEF Domains
  <2> QED BY <1>1, <2>1, <2>2, <2>3
<1>8. Len(stops) = i /\ i \in Nat /\ k + 1 \in 1..i
  <2>1. i \in Nat
    BY <1>1, <1>5
  <2> QED BY <1>1, <1>5, <2>1, StopsAre DEF stops
<1>9. Frame(p)
  BY <1>1, <1>4, <1>5, <1>7, <1>8 DEF Frame, k
<1>10. IsPlaced(p)'
  <2>1. CASE /\ Goes(p, n, r, i) /\ pc'[p] = "flying" /\ bytes'[p] = sent /\ payload'[p] = <<>>
             /\ next_hop'[p] = <<r.route[i + 1]>> /\ visited'[p] = stops
    <3>1. i \in 0..(m - 1)
      <4>1. i # m
        BY <2>1 DEF Goes, m
      <4> QED BY <1>1, <1>5, <4>1
    <3>2. Placed(p, "flying", r, bytes'[p], next_hop'[p], payload'[p], received'[p], visited'[p])
      BY <1>1, <1>3, <1>4, <2>1, <3>1 DEF Placed, sent, stops, m
    <3> QED BY <1>4, <2>1, <3>2 DEF IsPlaced, r
  <2>2. CASE /\ Arrives(p, n, r, i) /\ pc'[p] = "final" /\ bytes'[p] = <<>> /\ payload'[p] = left
             /\ visited'[p] = stops
    <3>1. i = m
      BY <2>2 DEF Arrives, m
    <3>2. Placed(p, "final", r, bytes'[p], next_hop'[p], payload'[p], received'[p], visited'[p])
      BY <1>1, <1>3, <1>4, <2>2, <3>1 DEF Placed, left, stops, m
    <3> QED BY <1>4, <2>2, <3>2 DEF IsPlaced, r
  <2>3. CASE /\ Fails(p, n, r, i) /\ pc'[p] = "lost" /\ bytes'[p] = <<>> /\ payload'[p] = <<>>
             /\ visited'[p] = visited[p] /\ next_hop'[p] = next_hop[p]
    <3>1. k \in 0..(m - 1)
      BY <1>1, <1>5
    <3>2. Placed(p, "lost", r, bytes'[p], next_hop'[p], payload'[p], received'[p], visited'[p])
      BY <1>1, <1>3, <1>4, <2>3, <3>1 DEF Placed, m
    <3> QED BY <1>4, <2>3, <3>2 DEF IsPlaced, r
  <2> QED BY <1>7, <2>1, <2>2, <2>3
<1>11. \A x \in Node : Cached(x)'
  <2>1. result.kind # "error" => /\ k + 1 \in 1..Len(visited'[p]) /\ request'[p].route[k + 1] = n
                                 /\ [shared_secret |-> PacketFor(p, r, i).header.shared_secret,
                                     new_blinded_secret |-> next_secret(result),
                                     routing_keys |-> compute_routing_keys(PacketFor(p, r, i).header.shared_secret, private_key(n))]
                                      = EntryFor(p, request'[p], k + 1)
    <3> SUFFICES ASSUME result.kind # "error"
                 PROVE  /\ k + 1 \in 1..Len(visited'[p]) /\ request'[p].route[k + 1] = n
                        /\ [shared_secret |-> PacketFor(p, r, i).header.shared_secret,
                            new_blinded_secret |-> next_secret(result),
                            routing_keys |-> compute_routing_keys(PacketFor(p, r, i).header.shared_secret, private_key(n))]
                             = EntryFor(p, request'[p], k + 1)
      OBVIOUS
    <3>1. visited'[p] = stops
      <4>1. Goes(p, n, r, i) \/ Arrives(p, n, r, i)
        BY <1>2
      <4> QED BY <1>3, <4>1 DEF Goes, Arrives, Domains, stops
    <3>2. request'[p] = r
      BY <1>4 DEF r
    <3> QED BY <1>2, <1>5, <1>8, <3>1, <3>2
  <2> QED BY <1>2, <1>9, <2>1, Remembering DEF k
<1>12. ASSUME NEW x \in Packet, pc'[x] = "lost" PROVE (misled[x] \/ Overtaken(x))'
  <2>1. CASE x # p
    <3>1. pc[x] = "lost"
      BY <1>7, <1>12, <2>1
    <3>2. misled[x] \/ Overtaken(x)
      BY <3>1 DEF SphinxInvariant
    <3> QED BY <1>9, <3>1, <3>2, Kept
  <2>2. CASE x = p
    <3>1. Fails(p, n, r, i) /\ pc' = [pc EXCEPT ![p] = "lost"]
      BY <1>7, <1>12, <2>2 DEF Fails
    <3>2. CASE n # r.route[i]
      <4>1. <<r.route[i]>> # <<n>>
        BY <3>2
      <4>2. misled'[p]
        BY <1>1, <1>7, <4>1
      <4> QED BY <2>2, <4>2
    <3>3. CASE Overtaken(p)
      <4>1. UNCHANGED <<request, visited>>
        BY <1>4, <3>1 DEF Fails
      <4> QED BY <2>2, <3>3, <4>1 DEF Overtaken, initial_secret
    <3> QED BY <3>1, <3>2, <3>3 DEF Fails
  <2> QED BY <2>1, <2>2
<1>13. \A q \in Packet : IsPlaced(q)'
  BY <1>9, <1>10, Kept
<1> QED BY <1>7, <1>11, <1>12, <1>13 DEF SphinxInvariant

\* Every step keeps the invariant.
LEMMA SphinxSteps == SphinxInvariant /\ [Next]_vars => SphinxInvariant'
<1> SUFFICES ASSUME SphinxInvariant, [Next]_vars PROVE SphinxInvariant'
  OBVIOUS
<1>1. ASSUME NEW p \in Packet, NEW r \in Requests, BuildPacket(p, r) PROVE SphinxInvariant'
  BY <1>1, BuildPacketKeeps
<1>2. ASSUME NEW p \in Packet, NEW r \in Requests, construct_SURB(p, r) PROVE SphinxInvariant'
  BY <1>2, SURBKeeps
<1>3. ASSUME NEW p \in Packet, UseSURB(p) PROVE SphinxInvariant'
  BY <1>3, UseKeeps
<1>4. ASSUME NEW p \in Packet, Recover(p) PROVE SphinxInvariant'
  BY <1>4, RecoverKeeps
<1>5. ASSUME NEW p \in Packet, NEW n \in Node, Process(p, n) PROVE SphinxInvariant'
  BY <1>5, ProcessKeeps
<1>6. CASE UNCHANGED vars
  <2>1. Domains'
    BY <1>6 DEF vars, SphinxInvariant, Domains
  <2>2. \A p \in Packet : IsPlaced(p)'
    BY <1>6 DEF vars, SphinxInvariant, IsPlaced
  <2>3. ASSUME NEW p \in Packet, pc'[p] = "lost" PROVE (misled[p] \/ Overtaken(p))'
    BY <1>6, <2>3 DEF vars, SphinxInvariant, Overtaken, initial_secret
  <2>4. \A n \in Node : Cached(n)'
    BY <1>6 DEF vars, SphinxInvariant, Cached, Known
  <2> QED BY <2>1, <2>2, <2>3, <2>4 DEF SphinxInvariant
<1> QED BY <1>1, <1>2, <1>3, <1>4, <1>5, <1>6 DEF Next

\* Each packet is where the requests, the routes and what it met before say, and
\* what nodes keep is what they learnt, in every state.
THEOREM SphinxHolds == Spec => []SphinxInvariant
<1> QED BY SphinxStarts, SphinxSteps, PTL DEF Spec

-----------------------------------------------------------------------------
(* What follows in every state.                                            *)

\* A packet on its way, on the wire.
LEMMA FlyingIs ==
  ASSUME SphinxInvariant, NEW p \in Packet, pc[p] = "flying"
  PROVE  LET r == request[p]
             i == Len(visited[p]) + 1
             plan == PlanFor(p, r)
             secret == SecretFor(p, r)
         IN  /\ r \in Requests /\ Fits(r) /\ Routable(r) /\ i \in 1..Len(r.route) /\ Len(visited[p]) \in Nat
             /\ IsPlan(plan, secret) /\ plan.route = r.route
             /\ bytes[p] = packet_to_bytes(PacketFor(p, r, i))
             /\ Len(bytes[p]) = HEADER_SIZE + r.payload_size /\ IsString(bytes[p], HEADER_SIZE + r.payload_size)
             /\ OnWire(bytes[p], HeaderAt(plan, secret, i), PayloadFor(p, r, i), r.payload_size)
<1> DEFINE r == request[p]
           i == Len(visited[p]) + 1
           plan == PlanFor(p, r)
           secret == SecretFor(p, r)
           packet == PacketFor(p, r, i)
<1>1. IsPlaced(p)
  BY DEF SphinxInvariant
<1>2. /\ r \in Requests /\ Fits(r) /\ i \in 1..Len(r.route) /\ Len(visited[p]) \in Nat
      /\ bytes[p] = packet_to_bytes(packet)
  BY <1>1, PlacedHas, RoutesHave DEF IsPlaced
<1> HIDE DEF r, i
<1>3. Routable(r) /\ IsSized(r.message, r.payload_size)
  BY <1>2, RequestHas
<1>4. IsPlan(plan, secret) /\ plan.route = r.route
  BY <1>2, <1>3, PlanIs
<1>5. /\ Len(packet_to_bytes(packet)) = HEADER_SIZE + r.payload_size
      /\ OnWire(packet_to_bytes(packet), HeaderAt(plan, secret, i), PayloadFor(p, r, i), r.payload_size)
  BY <1>2, <1>3, <1>4, PacketOnWire DEF PacketFor, PayloadFor
<1>6. IsString(packet_to_bytes(packet), HEADER_SIZE + r.payload_size)
  BY <1>5 DEF OnWire
<1> QED BY <1>2, <1>3, <1>4, <1>5, <1>6 DEF r, i

\* A byte of a payload is under a layer for each node to come.
LEMMA PayloadHas ==
  ASSUME NEW p \in Packet, NEW r \in Requests, Routable(r), NEW i \in 1..(Len(r.route) + 1)
  PROVE  /\ IsString(PayloadFor(p, r, i), r.payload_size)
         /\ \A j \in 1..r.payload_size : Len(PayloadFor(p, r, i)[j].layers) = Len(r.route) + 1 - i
<1> DEFINE n == Len(r.route)
           keys == PayloadKeys(SecretFor(p, r), r.route)
           layers == LayersFrom(keys, n, i)
           m == n + 1 - i
<1>1. n \in Nat /\ m \in Nat
  BY RoutesHave
<1>2. PayloadFor(p, r, i) = [k \in 1..r.payload_size |-> [byte |-> ByteOf(r.message, k), layers |-> layers]]
  BY PlanIs DEF PayloadFor, PayloadOf, PayloadAt
<1>3. IsString(layers, m)
  BY DEF IsString, LayersFrom
<1>4. Len(layers) = m
  <2> HIDE DEF layers, m
  <2> QED BY <1>1, <1>3, LenIs
<1> HIDE DEF layers
<1> QED BY <1>2, <1>4 DEF IsString

\* Proves TypeOK: a packet's length never changes, a payload that comes out is as
\* long as was asked for, and a node keeps one entry for a secret.
THEOREM SphinxTypeOK == Spec => []TypeOK
<1>1. ASSUME SphinxInvariant PROVE TypeOK
  <2>1. ASSUME NEW p \in Packet
        PROVE  /\ pc[p] \in {"unsent", "surb", "refused", "panicked"} \/ Sent(p)
               /\ pc[p] = "flying" => Len(bytes[p]) = HEADER_SIZE + request[p].payload_size
               /\ Len(payload[p]) \in {0, request[p].payload_size}
               /\ Len(received[p]) <= 1
    <3> DEFINE r == request[p]
               i == Len(r.route) + 1
    <3>1. IsPlaced(p)
      BY <1>1 DEF SphinxInvariant
    <3>2. pc[p] \in {"unsent", "surb", "refused", "panicked"} \/ Sent(p)
      BY <3>1 DEF IsPlaced, Placed, Sent
    <3>3. pc[p] = "flying" => Len(bytes[p]) = HEADER_SIZE + r.payload_size
      BY <1>1, FlyingIs
    <3>4. /\ payload[p] = <<>> \/ (r \in Requests /\ Fits(r) /\ payload[p] = PayloadFor(p, r, i))
          /\ received[p] = <<>> \/ received[p] = <<r.message>>
      BY <3>1 DEF IsPlaced, Placed
    <3>5. ASSUME r \in Requests, Fits(r) PROVE Len(PayloadFor(p, r, i)) = r.payload_size
      <4> HIDE DEF r
      <4> DEFINE a == PayloadFor(p, r, i)
                 size == r.payload_size
      <4>1. Routable(r) /\ i \in 1..(Len(r.route) + 1) /\ size \in Nat
        BY <3>5, RequestHas
      <4>2. IsString(a, size)
        BY <3>5, <4>1, PayloadHas
      <4> HIDE DEF a, size
      <4>3. Len(a) = size
        BY <4>1, <4>2, LenIs
      <4> QED BY <4>3 DEF a, size
    <3>6. Len(<<>>) = 0 /\ \A x : Len(<<x>>) = 1
      OBVIOUS
    <3> HIDE DEF r, i
    <3>7. Len(payload[p]) \in {0, r.payload_size}
      <4>1. CASE payload[p] = <<>>
        BY <3>6, <4>1
      <4>2. CASE payload[p] # <<>>
        BY <3>4, <3>5, <4>2
      <4> QED BY <4>1, <4>2
    <3>8. Len(received[p]) <= 1
      <4> DEFINE got == <<r.message>>
      <4>1. Len(got) = 1
        OBVIOUS
      <4>2. received[p] = <<>> \/ received[p] = got
        BY <3>4
      <4> HIDE DEF got
      <4>3. Len(received[p]) = 0 \/ Len(received[p]) = 1
        BY <3>6, <4>1, <4>2
      <4>4. \A x : x = 0 \/ x = 1 => x <= 1
        OBVIOUS
      <4> QED BY <4>3, <4>4
    <3> QED BY <3>2, <3>3, <3>7, <3>8 DEF r
  <2>2. ASSUME NEW n \in Node PROVE Cardinality(secrets(cache[n])) = Len(cache[n])
    <3> DEFINE c == cache[n]
               m == Len(c)
               g == [i \in 1..m |-> c[i].shared_secret]
               S == secrets(c)
    <3>1. /\ m \in Nat /\ IsString(c, m)
          /\ \A i, j \in 1..m : c[i].shared_secret = c[j].shared_secret => i = j
      BY <1>1 DEF SphinxInvariant, Cached
    <3> HIDE DEF c, m
    <3>2. DOMAIN c = 1..m
      BY <3>1, LenIs
    <3>3. S = {c[i].shared_secret : i \in 1..m}
      BY <3>2 DEF secrets
    <3>4. g \in Bijection(1..m, S)
      <4>1. g \in [1..m -> S]
        BY <3>3
      <4>2. \A i, j \in 1..m : g[i] = g[j] => i = j
        BY <3>1
      <4>3. \A x \in S : \E i \in 1..m : g[i] = x
        BY <3>3
      <4> HIDE DEF g, S
      <4> QED BY <4>1, <4>2, <4>3 DEF Bijection, Injection, Surjection, IsInjective
    <3> HIDE DEF g, S
    <3>5. ExistsBijection(1..m, S)
      BY <3>4 DEF ExistsBijection
    <3>6. Cardinality(S) = m
      BY <3>1, <3>5, FS_CountingElements
    <3> QED BY <3>6 DEF S, c, m
  <2> QED BY <2>1, <2>2 DEF TypeOK
<1> QED BY <1>1, SphinxHolds, PTL

\* Proves MadeIffItFits: packets and reply blocks are made for the requests that
\* fit, and for these always.
THEOREM SphinxMadeIffItFits == Spec => []MadeIffItFits
<1>1. ASSUME SphinxInvariant PROVE MadeIffItFits
  <2>1. ASSUME NEW p \in Packet
        PROVE  /\ Sent(p) => Fits(request[p])
               /\ pc[p] \in {"refused", "panicked"} => ~Fits(request[p])
    <3>1. IsPlaced(p)
      BY <1>1 DEF SphinxInvariant
    <3> QED BY <3>1 DEF IsPlaced, Placed, Sent
  <2> QED BY <2>1 DEF MadeIffItFits
<1> QED BY <1>1, SphinxHolds, PTL

\* Proves NothingInClear: whatever nodes have removed from a packet and appended
\* to it, every cell but the secret and the MAC is hidden, and every byte of the
\* payload is under the layers of the nodes to come.
THEOREM SphinxNothingInClear == Spec => []NothingInClear
<1>1. ASSUME SphinxInvariant PROVE NothingInClear
  <2>1. ASSUME NEW p \in Packet, pc[p] = "flying"
        PROVE  /\ \A l \in 3..HEADER_SIZE : bytes[p][l].pads # {}
               /\ \A l \in HEADER_SIZE + 1..Len(bytes[p]) :
                    Len(bytes[p][l].layers) = Len(request[p].route) - Len(visited[p])
    <3> DEFINE r == request[p]
               v == Len(visited[p])
               n == Len(r.route)
               i == v + 1
               plan == PlanFor(p, r)
               secret == SecretFor(p, r)
               b == bytes[p]
               H == HEADER_SIZE
               M == 3 * MAX_PATH_LENGTH
               size == r.payload_size
               header == HeaderAt(plan, secret, i)
    <3>1. /\ r \in Requests /\ Routable(r) /\ i \in 1..n /\ v \in Nat /\ IsPlan(plan, secret) /\ plan.route = r.route
          /\ Len(b) = H + size
          /\ OnWire(b, header, PayloadFor(p, r, i), size)
      BY <1>1, <2>1, FlyingIs
    <3>2. header.routing_info = Layers(plan)[i]
      BY DEF HeaderAt
    <3>3. \A q \in 1..M : Layers(plan)[i].enc_routing_information[q].pads # {}
      BY <3>1, HeadersAre
    <3>4. size \in Nat /\ H \in Nat /\ H = M + 2 /\ M \in Nat /\ n \in Nat
      BY <3>1, Sizes, RequestHas
    <3> HIDE DEF r, v, plan, secret, b, H, M, header, n, size
    <3>5. /\ \A q \in 1..M : b[q + 2] = header.routing_info.enc_routing_information[q]
          /\ \A q \in 1..size : b[H + q] = PayloadFor(p, r, i)[q]
      BY <3>1 DEF OnWire, H, M
    <3>6. ASSUME NEW l \in 3..H PROVE b[l].pads # {}
      <4>1. l - 2 \in 1..M /\ l - 2 + 2 = l
        BY <3>4
      <4> QED BY <3>2, <3>3, <3>5, <4>1
    <3>7. ASSUME NEW l \in (H + 1)..(H + size) PROVE Len(b[l].layers) = n - v
      <4> DEFINE q == l - H
      <4>1. q \in 1..size /\ H + q = l /\ n + 1 - i = n - v
        BY <3>1, <3>4
      <4>2. i \in 1..(n + 1)
        BY <3>1, <3>4
      <4> HIDE DEF q
      <4>3. b[l] = PayloadFor(p, r, i)[q]
        BY <3>5, <4>1
      <4>4. Len(PayloadFor(p, r, i)[q].layers) = n + 1 - i
        BY <3>1, <4>1, <4>2, PayloadHas DEF n, size
      <4> QED BY <4>1, <4>3, <4>4
    <3> QED BY <3>1, <3>6, <3>7 DEF r, v, b, H, n
  <2> QED BY <2>1 DEF NothingInClear
<1> QED BY <1>1, SphinxHolds, PTL

\* Proves LostOnlyForAReason: a packet gets lost at a wrong node, or where another
\* one under the same secret ended that had come the same way.
THEOREM SphinxLostOnlyForAReason == Spec => []LostOnlyForAReason
<1>1. SphinxInvariant => LostOnlyForAReason
  BY DEF SphinxInvariant, LostOnlyForAReason, Overtaken
<1> QED BY <1>1, SphinxHolds, PTL

-----------------------------------------------------------------------------
(* What leaves a node.                                                     *)

\* What the cells of a packet on its way are, and the layers on its bytes.
HasCells(b, p, r, i) ==
  LET enc == Layers(PlanFor(p, r))[i].enc_routing_information
      shared == Shared(SecretFor(p, r), r.route, i)
  IN  /\ b[1] = cell(<<"shared_secret", ChainFor(p, r)[i - 1]>>)
      /\ b[2] = cell(<<"mac", <<"integrity_mac", shared>>, enc>>)
      /\ \A l \in 1..(3 * MAX_PATH_LENGTH) : b[l + 2] = enc[l] /\ enc[l].pads # {}
      /\ \A l \in 1..r.payload_size : Len(b[HEADER_SIZE + l].layers) = Len(r.route) + 1 - i

\* A packet on its way has these.
LEMMA CellsAre ==
  ASSUME NEW p \in Packet, NEW r \in Requests, Routable(r), NEW i \in 1..Len(r.route),
         NEW b, OnWire(b, HeaderAt(PlanFor(p, r), SecretFor(p, r), i), PayloadFor(p, r, i), r.payload_size)
  PROVE  HasCells(b, p, r, i)
<1> DEFINE plan == PlanFor(p, r)
           secret == SecretFor(p, r)
           header == HeaderAt(plan, secret, i)
           layer == Layers(plan)[i]
           enc == layer.enc_routing_information
           n == Len(r.route)
           keys == plan.keys[i]
           shared == Shared(secret, r.route, i)
           M == 3 * MAX_PATH_LENGTH
<1>1. IsPlan(plan, secret) /\ plan.route = r.route /\ n \in 1..MAX_PATH_LENGTH /\ i \in 1..n
  BY PlanIs DEF Routable
<1>2. header.shared_secret = ChainFor(p, r)[i - 1] /\ header.routing_info = layer
  BY <1>1 DEF HeaderAt, ChainFor
<1>3. PICK f : AreLayers(plan, n, f, Layers(plan))
  BY <1>1, PlanHas DEF IsMade
<1>4. layer.integrity_mac = HeaderIntegrityMac(keys["integrity_mac"], enc)
  <2> DEFINE h == Layers(plan)
             info == Info(plan, n, f, h, i)
  <2>1. IsLayer(h[i], keys, info)
    BY <1>1, <1>3, LayersAre
  <2> HIDE DEF info, plan, h, keys, n
  <2>2. h[i].integrity_mac = HeaderIntegrityMac(keys["integrity_mac"], h[i].enc_routing_information)
    BY <2>1, LayerIsRouting
  <2> QED BY <2>2 DEF h
<1>5. keys["integrity_mac"] = <<"integrity_mac", shared>>
  BY <1>1 DEF IsPlan, Keys, RoutingKeys
<1>6. \A l \in 1..M : enc[l].pads # {}
  BY <1>1, HeadersAre
<1> HIDE DEF plan, secret, header, layer, keys, shared
<1>7. /\ b[1] = cell(<<"shared_secret", header.shared_secret>>) /\ b[2] = header.routing_info.integrity_mac
      /\ \A l \in 1..M : b[l + 2] = header.routing_info.enc_routing_information[l]
      /\ \A l \in 1..r.payload_size : b[HEADER_SIZE + l] = PayloadFor(p, r, i)[l]
  BY DEF OnWire, header, plan, secret
<1>8. b[2] = cell(<<"mac", <<"integrity_mac", shared>>, enc>>)
  BY <1>2, <1>4, <1>5, <1>7 DEF HeaderIntegrityMac
<1>9. i \in 1..(n + 1)
  <2>1. n \in Nat
    BY RoutesHave
  <2> QED BY <1>1, <2>1
<1>10. \A l \in 1..r.payload_size : Len(b[HEADER_SIZE + l].layers) = n + 1 - i
  <2>1. \A l \in 1..r.payload_size : Len(PayloadFor(p, r, i)[l].layers) = n + 1 - i
    BY <1>9, PayloadHas
  <2>2. \A l \in 1..r.payload_size : b[HEADER_SIZE + l] = PayloadFor(p, r, i)[l]
    BY <1>7
  <2> HIDE DEF n
  <2> QED BY <2>1, <2>2, Zenon
<1> QED BY <1>2, <1>6, <1>7, <1>8, <1>10 DEF HasCells, plan, secret, layer, shared

\* Nothing of a packet is in the next one.
LEMMA PacketsApart ==
  ASSUME NEW p \in Packet, NEW r \in Requests, Routable(r), NEW i \in 1..(Len(r.route) - 1),
         NEW b, OnWire(b, HeaderAt(PlanFor(p, r), SecretFor(p, r), i), PayloadFor(p, r, i), r.payload_size),
         NEW c, OnWire(c, HeaderAt(PlanFor(p, r), SecretFor(p, r), i + 1), PayloadFor(p, r, i + 1), r.payload_size),
         NEW x \in 1..(HEADER_SIZE + r.payload_size), NEW y \in 1..(HEADER_SIZE + r.payload_size),
         x > HEADER_SIZE <=> y > HEADER_SIZE
  PROVE  b[x] # c[y]
<1> DEFINE plan == PlanFor(p, r)
           secret == SecretFor(p, r)
           n == Len(r.route)
           H == HEADER_SIZE
           M == 3 * MAX_PATH_LENGTH
           size == r.payload_size
           j == i + 1
           chain == ChainFor(p, r)
           e == Layers(plan)[i].enc_routing_information
           g == Layers(plan)[j].enc_routing_information
           s == Shared(secret, r.route, i)
           t == Shared(secret, r.route, j)
<1>1. IsPlan(plan, secret) /\ plan.route = r.route /\ n \in 1..MAX_PATH_LENGTH
  BY PlanIs DEF Routable
<1>2. /\ n \in Nat /\ M \in Nat /\ H \in Nat /\ H = M + 2 /\ size \in Nat
      /\ i \in 1..n /\ j \in 1..n /\ i # j /\ j - 1 = i /\ i - 1 \in 0..n /\ i \in 0..n /\ i - 1 # i /\ i \in Nat
  <2>1. n \in Nat
    BY RoutesHave
  <2>2. M \in Nat /\ H = M + 2 /\ size \in Nat
    BY Sizes, RequestHas
  <2> HIDE DEF n, M, H, size
  <2>3. i \in 1..(n - 1)
    BY DEF n
  <2> QED BY <2>1, <2>2, <2>3
<1>3. /\ b[1] = cell(<<"shared_secret", chain[i - 1]>>) /\ b[2] = cell(<<"mac", <<"integrity_mac", s>>, e>>)
      /\ \A l \in 1..M : b[l + 2] = e[l] /\ e[l].pads # {}
      /\ \A l \in 1..size : Len(b[H + l].layers) = n + 1 - i
  <2> HIDE DEF n
  <2>1. i \in 1..Len(r.route)
    BY <1>2 DEF n
  <2>2. HasCells(b, p, r, i)
    BY <2>1, CellsAre
  <2> QED BY <2>2 DEF HasCells, n
<1>4. /\ c[1] = cell(<<"shared_secret", chain[i]>>) /\ c[2] = cell(<<"mac", <<"integrity_mac", t>>, g>>)
      /\ \A l \in 1..M : c[l + 2] = g[l] /\ g[l].pads # {}
      /\ \A l \in 1..size : Len(c[H + l].layers) = n + 1 - j
  <2>1. j \in 1..Len(r.route)
    BY <1>2
  <2>2. OnWire(c, HeaderAt(plan, secret, j), PayloadFor(p, r, j), size)
    OBVIOUS
  <2> HIDE DEF j, plan, secret, size, n
  <2>3. c[1] = cell(<<"shared_secret", ChainFor(p, r)[j - 1]>>) /\ c[2] = cell(<<"mac", <<"integrity_mac", t>>, g>>)
        /\ (\A l \in 1..M : c[l + 2] = g[l] /\ g[l].pads # {})
        /\ (\A l \in 1..size : Len(c[H + l].layers) = n + 1 - j)
    <3>1. HasCells(c, p, r, j)
      BY <2>1, <2>2, CellsAre DEF plan, secret, size
    <3> QED BY <3>1 DEF HasCells, plan, secret, size, n
  <2> QED BY <1>2, <2>3
<1>5. s # t
  <2>1. r.route \in Seq(Node) /\ IsSecret(secret)
    BY RequestHas
  <2> HIDE DEF secret, n, j
  <2>2. i \in 1..Len(r.route) /\ j \in 1..Len(r.route) /\ i # j
    BY <1>2 DEF n
  <2> QED BY <2>1, <2>2, SharedDistinct
<1>6. chain[i - 1] # chain[i]
  <2> DEFINE h == i - 1
             route == r.route
  <2>1. route \in Seq(Node) /\ IsSecret(secret) /\ h \in 0..Len(route) /\ i \in 0..Len(route) /\ h # i
    BY <1>2, RequestHas
  <2>2. chain = Chain(secret, route)
    BY DEF ChainFor
  <2> HIDE DEF secret, route, h, chain
  <2>3. Chain(secret, route)[h] = Chain(secret, route)[i] => h = i
    BY <2>1, ChainTells
  <2> QED BY <2>1, <2>2, <2>3 DEF h
<1>7. \A l, m \in 1..M : e[l] # g[m]
  <2>1. PICK f : AreLayers(plan, n, f, Layers(plan))
    BY <1>1, PlanHas DEF IsMade
  <2>2. AreDistinct(plan.keys, n)
    BY <1>1, PlanHas
  <2> HIDE DEF plan, n
  <2>3. i \in 1..(n - 1)
    BY DEF n
  <2> QED BY <1>1, <2>1, <2>2, <2>3, LayersApart
<1>8. \A k : cell(k).text = k /\ cell(k).pads = {}
  BY CellIsCell
<1>9. /\ <<"shared_secret", chain[i - 1]>> # <<"shared_secret", chain[i]>>
      /\ <<"mac", <<"integrity_mac", s>>, e>> # <<"mac", <<"integrity_mac", t>>, g>>
      /\ <<"shared_secret", chain[i - 1]>> # <<"mac", <<"integrity_mac", t>>, g>>
      /\ <<"mac", <<"integrity_mac", s>>, e>> # <<"shared_secret", chain[i]>>
  <2> DEFINE c1 == chain[i - 1]
             c2 == chain[i]
             k1 == <<"integrity_mac", s>>
             k2 == <<"integrity_mac", t>>
  <2>1. c1 # c2 /\ k1 # k2
    BY <1>5, <1>6
  <2> HIDE DEF c1, c2, k1, k2, e, g
  <2>2. /\ <<"shared_secret", c1>> # <<"shared_secret", c2>> /\ <<"mac", k1, e>> # <<"mac", k2, g>>
        /\ <<"shared_secret", c1>> # <<"mac", k2, g>> /\ <<"mac", k1, e>> # <<"shared_secret", c2>>
    BY <2>1
  <2> QED BY <2>2 DEF c1, c2, k1, k2
<1> DEFINE b1 == <<"shared_secret", chain[i - 1]>>
           b2 == <<"mac", <<"integrity_mac", s>>, e>>
           d1 == <<"shared_secret", chain[i]>>
           d2 == <<"mac", <<"integrity_mac", t>>, g>>
<1> HIDE DEF b1, b2, d1, d2, e, g, n, M, H, size, plan, secret, s, t, chain, j
<1>10. /\ b[1].text = b1 /\ b[1].pads = {} /\ b[2].text = b2 /\ b[2].pads = {}
       /\ c[1].text = d1 /\ c[1].pads = {} /\ c[2].text = d2 /\ c[2].pads = {}
       /\ b1 # d1 /\ b2 # d2 /\ b1 # d2 /\ b2 # d1
  BY <1>3, <1>4, <1>8, <1>9 DEF b1, b2, d1, d2
<1>11. CASE x \in 1..H /\ y \in 1..H
  <2>1. ASSUME NEW l \in 1..H PROVE l = 1 \/ l = 2 \/ (l - 2 \in 1..M /\ l - 2 + 2 = l)
    BY <1>2
  <2>2. \/ x \in {1, 2} /\ y \in {1, 2}
        \/ x \in {1, 2} /\ \E m \in 1..M : y = m + 2
        \/ y \in {1, 2} /\ \E l \in 1..M : x = l + 2
        \/ \E l, m \in 1..M : x = l + 2 /\ y = m + 2
    BY <1>11, <2>1
  <2>3. CASE x \in {1, 2} /\ y \in {1, 2}
    BY <1>10, <2>3
  <2>4. ASSUME x \in {1, 2}, NEW m \in 1..M, y = m + 2 PROVE b[x] # c[y]
    <3>1. b[x].pads = {} /\ c[y].pads # {}
      BY <1>4, <1>10, <2>4
    <3> QED BY <3>1
  <2>5. ASSUME y \in {1, 2}, NEW l \in 1..M, x = l + 2 PROVE b[x] # c[y]
    <3>1. c[y].pads = {} /\ b[x].pads # {}
      BY <1>3, <1>10, <2>5
    <3> QED BY <3>1
  <2>6. ASSUME NEW l \in 1..M, NEW m \in 1..M, x = l + 2, y = m + 2 PROVE b[x] # c[y]
    BY <1>3, <1>4, <1>7, <2>6
  <2> QED BY <2>2, <2>3, <2>4, <2>5, <2>6
<1>12. CASE x > H /\ y > H
  <2> DEFINE k == x - H
             l == y - H
  <2>1. x \in 1..(H + size) /\ y \in 1..(H + size)
    BY DEF H, size
  <2>2. k \in 1..size /\ l \in 1..size /\ H + k = x /\ H + l = y /\ n + 1 - i # n + 1 - j
    BY <1>2, <1>12, <2>1 DEF j
  <2> HIDE DEF k, l
  <2>3. Len(b[x].layers) = n + 1 - i /\ Len(c[y].layers) = n + 1 - j
    BY <1>3, <1>4, <2>2
  <2> QED BY <2>2, <2>3
<1> QED
  <2>1. x \in 1..(H + size) /\ y \in 1..(H + size) /\ (x > H <=> y > H)
    BY DEF H, size
  <2>2. (x \in 1..H /\ y \in 1..H) \/ (x > H /\ y > H)
    BY <1>2, <2>1
  <2> QED BY <1>11, <1>12, <2>2

\* Only a node that processes a packet adds to its stops.
LEMMA VisitsAreProcessing ==
  ASSUME SphinxInvariant, [Next]_vars, NEW p \in Packet, Len(visited'[p]) > Len(visited[p])
  PROVE  \E n \in Node : Process(p, n)
<1>1. visited'[p] # visited[p]
  <2>1. IsPlaced(p)
    BY DEF SphinxInvariant
  <2>2. Len(visited[p]) \in Nat
    BY <2>1, PlacedHas, RoutesHave DEF IsPlaced
  <2> QED BY <2>2
<1>2. visited' # visited
  BY <1>1
<1>3. PICK q \in Packet : \E n \in Node : Process(q, n)
  BY <1>2 DEF Next, vars, BuildPacket, construct_SURB, UseSURB, Recover
<1>4. PICK n \in Node : Process(q, n)
  BY <1>3
<1>5. q = p
  <2> DEFINE r == request[q]
             i == Len(visited[q]) + 1
  <2>1. Goes(q, n, r, i) \/ Arrives(q, n, r, i) \/ Fails(q, n, r, i)
    BY <1>4, ProcessDoes
  <2>2. visited' = visited \/ visited' = [visited EXCEPT ![q] = Stops(q, r, i)]
    BY <2>1 DEF Goes, Arrives, Fails
  <2>3. visited = [x \in Packet |-> visited[x]]
    BY DEF SphinxInvariant, Domains
  <2> HIDE DEF r, i
  <2> QED BY <1>1, <2>2, <2>3
<1> QED BY <1>4, <1>5

\* Proves LooksDifferent: no cell of the header and no byte of the payload that
\* leaves a node is one that came in.
THEOREM SphinxLooksDifferent == Spec => LooksDifferent
<1> DEFINE Differs(p) ==
             Len(bytes[p]) > 0 /\ Len(visited'[p]) > Len(visited[p]) =>
               \A i \in DOMAIN bytes[p], j \in DOMAIN bytes'[p] :
                 (i > HEADER_SIZE <=> j > HEADER_SIZE) => bytes[p][i] # bytes'[p][j]
<1>1. ASSUME SphinxInvariant, SphinxInvariant', [Next]_vars, NEW p \in Packet PROVE Differs(p)
  <2> SUFFICES ASSUME Len(visited'[p]) > Len(visited[p]),
                      NEW x \in DOMAIN bytes[p], NEW y \in DOMAIN bytes'[p],
                      x > HEADER_SIZE <=> y > HEADER_SIZE
               PROVE  bytes[p][x] # bytes'[p][y]
    OBVIOUS
  <2>1. PICK n \in Node : Process(p, n)
    BY <1>1, VisitsAreProcessing
  <2> DEFINE r == request[p]
             i == Len(visited[p]) + 1
             plan == PlanFor(p, r)
             secret == SecretFor(p, r)
             size == r.payload_size
  <2>2. pc[p] = "flying" /\ (Goes(p, n, r, i) \/ Arrives(p, n, r, i) \/ Fails(p, n, r, i))
    BY <1>1, <2>1, ProcessDoes
  <2>3. bytes = [q \in Packet |-> bytes[q]] /\ visited = [q \in Packet |-> visited[q]]
    BY <1>1 DEF SphinxInvariant, Domains
  <2>4. bytes'[p] # <<>>
    OBVIOUS
  <2>5. Goes(p, n, r, i)
    <3>1. ~Arrives(p, n, r, i)
      BY <2>3, <2>4 DEF Arrives
    <3>2. ~Fails(p, n, r, i)
      BY <2>3, <2>4 DEF Fails
    <3> QED BY <2>2, <3>1, <3>2
  <2>6. /\ r \in Requests /\ Routable(r) /\ i \in 1..Len(r.route)
        /\ OnWire(bytes[p], HeaderAt(plan, secret, i), PayloadFor(p, r, i), size)
        /\ IsString(bytes[p], HEADER_SIZE + size)
    BY <1>1, <2>2, FlyingIs
  <2>7. /\ pc'[p] = "flying" /\ visited'[p] = Stops(p, r, i) /\ request'[p] = r /\ i # Len(r.route)
    BY <2>1, <2>2, <2>3, <2>5 DEF Goes, Process
  <2>8. Len(visited'[p]) = i /\ i \in Nat
    <3>1. i \in Nat
      BY <2>6, RoutesHave
    <3> QED BY <2>7, <3>1, StopsAre
  <2>9. /\ OnWire(bytes'[p], HeaderAt(plan, secret, i + 1), PayloadFor(p, r, i + 1), size)
        /\ IsString(bytes'[p], HEADER_SIZE + size)
    <3>1. i + 1 \in 1..Len(r.route)
      BY <2>6, <2>7, <2>8, RoutesHave
    <3>2. IsPlan(plan, secret) /\ plan.route = r.route /\ IsSized(r.message, size)
      <4>1. Fits(r)
        BY <1>1, <2>2, FlyingIs
      <4> QED BY <2>6, <4>1, PlanIs, RequestHas
    <3>3. bytes'[p] = packet_to_bytes(PacketFor(p, r, i + 1))
      BY <2>3, <2>5 DEF Goes
    <3> DEFINE j == i + 1
    <3> HIDE DEF r, i, plan, secret, j, size
    <3>4. OnWire(packet_to_bytes(PacketAt(plan, secret, r.message, size, j)), HeaderAt(plan, secret, j),
                 PayloadOf(plan, secret, r.message, size, j), size)
      <4>1. j \in 1..Len(plan.route)
        BY <3>1, <3>2 DEF j
      <4> QED BY <3>2, <4>1, PacketOnWire
    <3>5. OnWire(bytes'[p], HeaderAt(plan, secret, i + 1), PayloadFor(p, r, i + 1), size)
      BY <3>3, <3>4 DEF PacketFor, PayloadFor, plan, secret, size, j
    <3> QED BY <3>5 DEF OnWire
  <2>10. i \in 1..(Len(r.route) - 1)
    BY <2>6, <2>7, <2>8, RoutesHave
  <2>11. DOMAIN bytes[p] = 1..(HEADER_SIZE + size) /\ DOMAIN bytes'[p] = 1..(HEADER_SIZE + size)
    <3>1. HEADER_SIZE + size \in Nat
      BY <2>6, RequestHas, Sizes
    <3> DEFINE m == HEADER_SIZE + size
               b == bytes[p]
               c == bytes'[p]
    <3>2. IsString(b, m) /\ IsString(c, m)
      BY <2>6, <2>9
    <3> HIDE DEF m, b, c
    <3>3. DOMAIN b = 1..m /\ DOMAIN c = 1..m
      BY <3>1, <3>2, LenIs DEF m
    <3> QED BY <3>3 DEF m, b, c
  <2> HIDE DEF r, i, plan, secret, size
  <2> QED BY <2>6, <2>9, <2>10, <2>11, PacketsApart DEF plan, secret, size
<1>2. SphinxInvariant /\ SphinxInvariant' /\ [Next]_vars => [\A p \in Packet : Differs(p)]_vars
  <2> HIDE DEF Differs
  <2> QED BY <1>1
<1> QED BY <1>2, SphinxHolds, PTL DEF Spec, LooksDifferent

-----------------------------------------------------------------------------
(* The promise.                                                            *)

\* What a step makes of a packet's journey: it begins, or has not begun, or
\* makes the next stop, or is lost, or ends.
Leaves(p) == /\ pc[p] \in {"unsent", "surb"} /\ pc'[p] = "flying"
             /\ request'[p] \in Requests /\ Fits(request'[p])
             /\ visited' = visited /\ received' = received

Waits(p) == /\ pc[p] \in {"unsent", "surb"} /\ pc'[p] \in {"surb", "refused", "panicked"}
            /\ visited' = visited /\ received' = received

Passes(p) == /\ pc[p] = "flying" /\ pc'[p] \in {"flying", "final"}
             /\ request' = request /\ received' = received
             /\ request[p] \in Requests /\ Len(visited[p]) \in Nat
             /\ Len(visited[p]) + 1 \in 1..Len(request[p].route)
             /\ visited[p] = Stops(p, request[p], Len(visited[p]))
             /\ visited' = [visited EXCEPT ![p] = Stops(p, request[p], Len(visited[p]) + 1)]

Drops(p) == /\ pc[p] = "flying" /\ pc'[p] = "lost"
            /\ request' = request /\ received' = received /\ visited' = visited

Reaches(p) == /\ pc[p] = "final" /\ pc'[p] = "delivered"
              /\ request' = request /\ visited' = visited
              /\ request[p] \in Requests
              /\ visited[p] = Stops(p, request[p], Len(request[p].route))
              /\ received' = [received EXCEPT ![p] = <<request[p].message>>]

Only(p) == \A q \in Packet \ {p} : pc'[q] = pc[q] /\ request'[q] = request[q]

Moves(p) == Only(p) /\ (Leaves(p) \/ Waits(p) \/ Passes(p) \/ Drops(p) \/ Reaches(p))

\* Being sent, or not, begins the journey or leaves it to begin.
LEMMA SendingMoves ==
  ASSUME SphinxInvariant, SphinxInvariant', NEW p \in Packet, pc[p] \in {"unsent", "surb"},
         NEW result, NEW first, Sends(p, result, first),
         \A q \in Packet \ {p} : request'[q] = request[q],
         visited' = visited, received' = received
  PROVE  Moves(p)
<1>1. pc = [q \in Packet |-> pc[q]]
  BY DEF SphinxInvariant, Domains
<1>2. PICK place \in {"flying", "refused"} : pc' = [pc EXCEPT ![p] = place]
  BY DEF Sends, Ends, Becomes
<1>3. pc'[p] = place /\ \A q \in Packet \ {p} : pc'[q] = pc[q]
  BY <1>1, <1>2
<1>4. Only(p)
  BY <1>3 DEF Only
<1>5. CASE place = "flying"
  <2>1. IsPlaced(p)' /\ pc'[p] = "flying"
    BY <1>3, <1>5 DEF SphinxInvariant
  <2>2. request'[p] \in Requests /\ Fits(request'[p])
    BY <2>1 DEF IsPlaced, Placed
  <2> QED BY <1>4, <2>1, <2>2 DEF Moves, Leaves
<1>6. CASE place = "refused"
  BY <1>3, <1>4, <1>6 DEF Moves, Waits
<1> QED BY <1>2, <1>5, <1>6

\* What is not made, and a reply block, leave the journey to begin.
LEMMA WaitingMoves ==
  ASSUME SphinxInvariant, NEW p \in Packet, pc[p] = "unsent",
         NEW place \in {"surb", "refused", "panicked"}, Becomes(p, place),
         \A q \in Packet \ {p} : request'[q] = request[q],
         visited' = visited, received' = received
  PROVE  Moves(p)
<1>1. pc = [q \in Packet |-> pc[q]]
  BY DEF SphinxInvariant, Domains
<1>2. pc'[p] = place /\ \A q \in Packet \ {p} : pc'[q] = pc[q]
  BY <1>1 DEF Becomes
<1> QED BY <1>2 DEF Moves, Only, Waits

\* Every step is one of those, of one packet.
LEMMA StepMoves ==
  ASSUME SphinxInvariant, SphinxInvariant', Next
  PROVE  \E p \in Packet : Moves(p)
<1>1. Domains
  BY DEF SphinxInvariant
<1>2. ASSUME NEW p \in Packet, NEW r \in Requests, request' = [request EXCEPT ![p] = r]
      PROVE  \A q \in Packet \ {p} : request'[q] = request[q]
  BY <1>1, <1>2 DEF Domains
<1>3. ASSUME NEW p \in Packet, NEW r \in Requests, BuildPacket(p, r) PROVE Moves(p)
  <2>1. /\ pc[p] = "unsent" /\ visited' = visited /\ received' = received
        /\ \A q \in Packet \ {p} : request'[q] = request[q]
    BY <1>2, <1>3 DEF BuildPacket
  <2>2. CASE Ends(p, "panicked")
    BY <2>1, <2>2, WaitingMoves DEF Ends
  <2>3. CASE \E result : Sends(p, result, r.route[1])
    BY <2>1, <2>3, SendingMoves
  <2> QED BY <1>3, <2>2, <2>3 DEF BuildPacket
<1>4. ASSUME NEW p \in Packet, NEW r \in Requests, construct_SURB(p, r) PROVE Moves(p)
  <2>1. /\ pc[p] = "unsent" /\ visited' = visited /\ received' = received
        /\ \A q \in Packet \ {p} : request'[q] = request[q]
    BY <1>2, <1>4 DEF construct_SURB
  <2>2. \E place \in {"surb", "refused", "panicked"} : Becomes(p, place)
    BY <1>4 DEF construct_SURB, Ends
  <2> QED BY <2>1, <2>2, WaitingMoves
<1>5. ASSUME NEW p \in Packet, UseSURB(p) PROVE Moves(p)
  <2>1. /\ pc[p] = "surb" /\ visited' = visited /\ received' = received
        /\ \A q \in Packet \ {p} : request'[q] = request[q]
    BY <1>5 DEF UseSURB
  <2>2. CASE \E result, first : Sends(p, result, first)
    BY <2>1, <2>2, SendingMoves
  <2>3. CASE Ends(p, "refused")
    <3>1. pc'[p] = "refused" /\ \A q \in Packet \ {p} : pc'[q] = pc[q]
      BY <1>1, <2>3 DEF Domains, Ends, Becomes
    <3> QED BY <2>1, <3>1 DEF Moves, Only, Waits
  <2> QED BY <1>5, <2>2, <2>3 DEF UseSURB
<1>6. ASSUME NEW p \in Packet, Recover(p) PROVE Moves(p)
  <2>1. pc'[p] = "delivered" /\ received'[p] = <<request[p].message>>
    BY <1>6, RecoverKeeps
  <2>2. /\ pc[p] = "final" /\ request' = request /\ visited' = visited
        /\ \A q \in Packet \ {p} : pc'[q] = pc[q]
    BY <1>1, <1>6 DEF Recover, Becomes, Domains
  <2>3. received' = [received EXCEPT ![p] = <<request[p].message>>]
    BY <1>1, <1>6, <2>1 DEF Recover, Domains
  <2>4. request[p] \in Requests /\ visited[p] = Stops(p, request[p], Len(request[p].route))
    BY <2>2 DEF SphinxInvariant, IsPlaced, Placed
  <2> QED BY <2>1, <2>2, <2>3, <2>4 DEF Moves, Only, Reaches
<1>7. ASSUME NEW p \in Packet, NEW n \in Node, Process(p, n) PROVE Moves(p)
  <2> DEFINE r == request[p]
             i == Len(visited[p]) + 1
  <2>1. /\ pc[p] = "flying" /\ r \in Requests /\ i \in 1..Len(r.route) /\ Len(visited[p]) \in Nat
        /\ visited[p] = Stops(p, r, Len(visited[p]))
        /\ Goes(p, n, r, i) \/ Arrives(p, n, r, i) \/ Fails(p, n, r, i)
    BY <1>7, ProcessDoes
  <2>2. request' = request /\ received' = received
    BY <1>7 DEF Process
  <2> HIDE DEF r, i
  <2>3. CASE Goes(p, n, r, i)
    <3>1. pc' = pc /\ visited' = [visited EXCEPT ![p] = Stops(p, r, i)]
      BY <2>3 DEF Goes
    <3> QED BY <2>1, <2>2, <3>1 DEF Moves, Only, Passes, r, i
  <2>4. CASE Arrives(p, n, r, i)
    <3>1. /\ pc'[p] = "final" /\ visited' = [visited EXCEPT ![p] = Stops(p, r, i)]
          /\ \A q \in Packet \ {p} : pc'[q] = pc[q]
      BY <1>1, <2>4 DEF Arrives, Domains
    <3> QED BY <2>1, <2>2, <3>1 DEF Moves, Only, Passes, r, i
  <2>5. CASE Fails(p, n, r, i)
    <3>1. pc'[p] = "lost" /\ visited' = visited /\ \A q \in Packet \ {p} : pc'[q] = pc[q]
      BY <1>1, <2>5 DEF Fails, Domains
    <3> QED BY <2>1, <2>2, <3>1 DEF Moves, Only, Drops
  <2> QED BY <2>1, <2>3, <2>4, <2>5
<1> QED BY <1>3, <1>4, <1>5, <1>6, <1>7 DEF Next

\* The itinerary that is chosen is all the stops along the route.
LEMMA ItineraryStops ==
  ASSUME NEW p, NEW r \in Requests
  PROVE  Itinerary(r.route, r.delays, destination(p)) = Stops(p, r, Len(r.route))
<1>1. DOMAIN r.route = 1..Len(r.route)
  BY RequestsAssumption
<1> QED BY <1>1 DEF Itinerary, Stops

\* What is promised a packet, and how far it got.
LEMMA JourneyIs ==
  ASSUME NEW p \in Packet
  PROVE  /\ pc[p] \in {"flying", "final", "delivered", "lost"} =>
              Journeys[p] = [itinerary |-> Itinerary(request[p].route, request[p].delays, destination(p)),
                             content   |-> <<request[p].message>>]
         /\ pc[p] \in {"unsent", "surb", "refused", "panicked"} =>
              Journeys[p] = [itinerary |-> <<>>, content |-> <<>>] /\ Stages[p] = "unsent"
         /\ pc[p] \in {"flying", "final"} => Stages[p] = "underway"
         /\ pc[p] = "lost" => Stages[p] = "lost"
         /\ pc[p] = "delivered" => Stages[p] = "arrived"
BY DEF Journeys, Stages, Sent

\* It is the same for a packet to which the same happened.
LEMMA OnlyThis ==
  ASSUME NEW p \in Packet, Only(p)
  PROVE  /\ Journeys' = [Journeys EXCEPT ![p] = Journeys'[p]] /\ (Journeys'[p] = Journeys[p] => Journeys' = Journeys)
         /\ Stages' = [Stages EXCEPT ![p] = Stages'[p]] /\ (Stages'[p] = Stages[p] => Stages' = Stages)
<1>1. \A q \in Packet \ {p} : Journeys'[q] = Journeys[q] /\ Stages'[q] = Stages[q]
  BY DEF Only, Journeys, Stages, Sent
<1>2. /\ Journeys = [q \in Packet |-> Journeys[q]] /\ Journeys' = [q \in Packet |-> Journeys'[q]]
      /\ Stages = [q \in Packet |-> Stages[q]] /\ Stages' = [q \in Packet |-> Stages'[q]]
  BY DEF Journeys, Stages
<1>3. ASSUME NEW f, NEW g, f = [q \in Packet |-> f[q]], g = [q \in Packet |-> g[q]],
             \A q \in Packet \ {p} : g[q] = f[q]
      PROVE  g = [f EXCEPT ![p] = g[p]] /\ (g[p] = f[p] => g = f)
  BY <1>3
<1> QED BY <1>1, <1>2, <1>3

\* A step of a packet is a step of its journey.
LEMMA MoveIsStep ==
  ASSUME NEW p \in Packet, Moves(p), SphinxInvariant
  PROVE  [Promise!Next]_Promise!vars
<1>1. /\ Journeys' = [Journeys EXCEPT ![p] = Journeys'[p]] /\ (Journeys'[p] = Journeys[p] => Journeys' = Journeys)
      /\ Stages' = [Stages EXCEPT ![p] = Stages'[p]] /\ (Stages'[p] = Stages[p] => Stages' = Stages)
  BY OnlyThis DEF Moves
<1>2. pc'[p] \in {"flying", "final", "delivered", "lost"} =>
        Journeys'[p] = [itinerary |-> Itinerary(request'[p].route, request'[p].delays, destination(p)),
                        content   |-> <<request'[p].message>>]
  BY DEF Journeys, Sent
<1>3. /\ pc'[p] \in {"unsent", "surb", "refused", "panicked"} =>
           Journeys'[p] = [itinerary |-> <<>>, content |-> <<>>] /\ Stages'[p] = "unsent"
      /\ pc'[p] \in {"flying", "final"} => Stages'[p] = "underway"
      /\ pc'[p] = "lost" => Stages'[p] = "lost"
      /\ pc'[p] = "delivered" => Stages'[p] = "arrived"
  BY DEF Journeys, Stages, Sent
<1>4. /\ pc[p] \in {"flying", "final", "delivered", "lost"} =>
           Journeys[p] = [itinerary |-> Itinerary(request[p].route, request[p].delays, destination(p)),
                          content   |-> <<request[p].message>>]
      /\ pc[p] \in {"unsent", "surb", "refused", "panicked"} =>
           Journeys[p] = [itinerary |-> <<>>, content |-> <<>>] /\ Stages[p] = "unsent"
      /\ pc[p] \in {"flying", "final"} => Stages[p] = "underway"
  BY JourneyIs
<1>5. CASE Leaves(p)
  <2> DEFINE r == request'[p]
             itinerary == Itinerary(r.route, r.delays, destination(p))
  <2>1. Journeys'[p] = [itinerary |-> itinerary, content |-> <<r.message>>]
    BY <1>2, <1>5 DEF Leaves
  <2>2. r \in Requests /\ Fits(r) /\ r.message \in Messages
    BY <1>5, RequestHas DEF Leaves
  <2>3. Stages[p] = "unsent" /\ Stages' = [Stages EXCEPT ![p] = "underway"]
    BY <1>1, <1>3, <1>4, <1>5 DEF Leaves
  <2>4. itinerary \in Itineraries
    BY <2>2 DEF Itineraries
  <2> HIDE DEF r, itinerary
  <2>5. Journeys' = [Journeys EXCEPT ![p] = [itinerary |-> itinerary, content |-> <<r.message>>]]
    BY <1>1, <2>1
  <2>6. \E i \in Itineraries, content \in Messages :
          Journeys' = [Journeys EXCEPT ![p] = [itinerary |-> i, content |-> <<content>>]]
    BY <2>2, <2>4, <2>5
  <2>7. visited' = visited /\ received' = received
    BY <1>5 DEF Leaves
  <2>8. Promise!Depart(p)
    BY <2>3, <2>6, <2>7 DEF Promise!Depart
  <2> QED BY <2>8 DEF Promise!Next
<1>6. CASE Waits(p)
  <2>1. Journeys' = Journeys /\ Stages' = Stages /\ visited' = visited /\ received' = received
    BY <1>1, <1>3, <1>4, <1>6 DEF Waits
  <2> QED BY <2>1 DEF Promise!vars
<1>7. CASE Passes(p)
  <2> DEFINE r == request[p]
             k == Len(visited[p])
             stop == <<r.route[k + 1], IF k + 1 = Len(r.route) THEN destination(p) ELSE r.delays[k + 1]>>
  <2>1. /\ r \in Requests /\ k \in Nat /\ k + 1 \in 1..Len(r.route) /\ Len(r.route) \in Nat
        /\ visited[p] = Stops(p, r, k) /\ visited' = [visited EXCEPT ![p] = Stops(p, r, k + 1)]
    BY <1>7, RoutesHave DEF Passes
  <2>2. Journeys' = Journeys /\ Stages' = Stages /\ received' = received
    BY <1>1, <1>2, <1>3, <1>4, <1>7 DEF Passes
  <2>3. Stages[p] = "underway" /\ Journeys[p].itinerary = Itinerary(r.route, r.delays, destination(p))
    BY <1>4, <1>7 DEF Passes
  <2> HIDE DEF r, k
  <2>4. Journeys[p].itinerary = Stops(p, r, Len(r.route))
    BY <2>1, <2>3, ItineraryStops
  <2>5. Len(Journeys[p].itinerary) = Len(r.route) /\ k + 1 <= Len(r.route)
    <3> DEFINE m == Len(r.route)
    <3>1. m \in Nat /\ k + 1 <= m
      BY <2>1
    <3>2. Journeys[p].itinerary = Stops(p, r, m)
      BY <2>4
    <3> HIDE DEF m
    <3>3. Len(Journeys[p].itinerary) = m
      BY <3>1, <3>2, StopsAre
    <3> QED BY <3>1, <3>3 DEF m
  <2>6. Journeys[p].itinerary[k + 1] = stop
    BY <2>1, <2>4 DEF Stops
  <2>7. Append(visited[p], stop) = Stops(p, r, k + 1)
    <3>1. k \in Nat /\ visited[p] = Stops(p, r, k)
      BY <2>1
    <3>2. Append(Stops(p, r, k), stop) = Stops(p, r, k + 1)
      BY <3>1, StopsAre
    <3> QED BY <3>1, <3>2
  <2> HIDE DEF stop
  <2>8. visited' = [visited EXCEPT ![p] = Append(visited[p], Journeys[p].itinerary[k + 1])]
    BY <2>1, <2>6, <2>7
  <2>9. /\ Len(visited[p]) + 1 <= Len(Journeys[p].itinerary)
        /\ visited' = [visited EXCEPT ![p] = Append(visited[p], Journeys[p].itinerary[Len(visited[p]) + 1])]
    BY <2>5, <2>8 DEF k
  <2>10. visited' = [visited EXCEPT ![p] = Append(@, Journeys[p].itinerary[Len(visited[p]) + 1])]
    BY <2>9
  <2>11. Promise!Visit(p)
    BY <2>2, <2>3, <2>9, <2>10 DEF Promise!Visit
  <2> QED BY <2>11 DEF Promise!Next
<1>8. CASE Drops(p)
  <2>1. Journeys' = Journeys /\ visited' = visited /\ received' = received
    BY <1>1, <1>2, <1>4, <1>8 DEF Drops
  <2>2. Stages[p] = "underway" /\ Stages' = [Stages EXCEPT ![p] = "lost"]
    BY <1>1, <1>3, <1>4, <1>8 DEF Drops
  <2>3. Stages = [q \in Packet |-> Stages[q]]
    BY DEF Stages
  <2>4. /\ \A q \in {p} : Stages[q] = "underway"
        /\ Stages' = [q \in Packet |-> IF q \in {p} THEN "lost" ELSE Stages[q]]
    <3> DEFINE was == Stages
               is == Stages'
    <3>1. was = [q \in Packet |-> was[q]] /\ is = [was EXCEPT ![p] = "lost"]
      BY <2>2, <2>3
    <3> HIDE DEF was, is
    <3>2. is = [q \in Packet |-> IF q \in {p} THEN "lost" ELSE was[q]]
      BY <3>1
    <3> QED BY <2>2, <3>2 DEF was, is
  <2>5. Promise!Lose({p})
    BY <2>1, <2>4 DEF Promise!Lose
  <2>6. {p} \in SUBSET Packet
    OBVIOUS
  <2> QED BY <2>5, <2>6 DEF Promise!Next
<1>9. CASE Reaches(p)
  <2> DEFINE r == request[p]
  <2>1. /\ r \in Requests /\ visited[p] = Stops(p, r, Len(r.route))
        /\ received' = [received EXCEPT ![p] = <<r.message>>]
    BY <1>9 DEF Reaches
  <2>2. Journeys' = Journeys /\ visited' = visited
    BY <1>1, <1>2, <1>4, <1>9 DEF Reaches
  <2>3. Stages[p] = "underway" /\ Stages' = [Stages EXCEPT ![p] = "arrived"]
    BY <1>1, <1>3, <1>4, <1>9 DEF Reaches
  <2>4. /\ Journeys[p].itinerary = Itinerary(r.route, r.delays, destination(p))
        /\ Journeys[p].content = <<r.message>>
    BY <1>4, <1>9 DEF Reaches
  <2> HIDE DEF r
  <2>5. visited[p] = Journeys[p].itinerary
    BY <2>1, <2>4, ItineraryStops
  <2>6. received' = [received EXCEPT ![p] = Journeys[p].content]
    BY <2>1, <2>4
  <2>7. Promise!Arrive(p)
    BY <2>2, <2>3, <2>5, <2>6 DEF Promise!Arrive
  <2> QED BY <2>7 DEF Promise!Next
<1> QED BY <1>5, <1>6, <1>7, <1>8, <1>9 DEF Moves

\* No journey has begun at first.
LEMMA RefineInit == Init => Promise!Init
<1> SUFFICES ASSUME Init PROVE Promise!Init
  OBVIOUS
<1>1. \A p \in Packet : pc[p] = "unsent"
  BY DEF Init
<1>2. /\ Journeys = [p \in Packet |-> [itinerary |-> <<>>, content |-> <<>>]]
      /\ Stages = [p \in Packet |-> "unsent"]
  BY <1>1 DEF Journeys, Stages, Sent
<1>3. visited = [p \in Packet |-> <<>>] /\ received = [p \in Packet |-> <<>>]
  BY DEF Init
<1> QED BY <1>2, <1>3 DEF Promise!Init, Promise!NotSent

\* Proves ImplementsJourney: a packet of the Sphinx library makes the journey that
\* its sender, or the maker of its reply block, chose: each node of the route
\* learns in its turn where the packet goes next and when, the last one who the
\* recipient is, and the recipient gets the message that was sent.
THEOREM SphinxImplementsJourney == Spec => ImplementsJourney
<1>1. SphinxInvariant /\ SphinxInvariant' /\ [Next]_vars => [Promise!Next]_Promise!vars
  <2> SUFFICES ASSUME SphinxInvariant, SphinxInvariant', [Next]_vars PROVE [Promise!Next]_Promise!vars
    OBVIOUS
  <2>1. CASE Next
    BY <2>1, StepMoves, MoveIsStep
  <2>2. CASE UNCHANGED vars
    <3>1. Journeys' = Journeys /\ Stages' = Stages /\ visited' = visited /\ received' = received
      BY <2>2 DEF vars, Journeys, Stages, Sent
    <3> QED BY <3>1 DEF Promise!vars
  <2> QED BY <2>1, <2>2
<1>2. Init => Promise!Init
  BY RefineInit
<1> QED BY <1>1, <1>2, SphinxHolds, PTL DEF Spec, ImplementsJourney, Promise!Spec

-----------------------------------------------------------------------------
(* What follows for the sender of a packet.                                *)

Proved == INSTANCE JourneyProofs WITH
  Message <- Packet, Contents <- Messages, sent <- Journeys, stage <- Stages

\* The stops of all itineraries.
Stop == UNION {{itinerary[i] : i \in DOMAIN itinerary} : itinerary \in Itineraries}

\* The itineraries are sequences of stops.
LEMMA ItinerariesAre == Itineraries \subseteq Seq(Stop)
<1> SUFFICES ASSUME NEW itinerary \in Itineraries PROVE itinerary \in Seq(Stop)
  OBVIOUS
<1>1. PICK r \in Requests, p \in Packet :
        itinerary = Itinerary(r.route, r.delays, destination(p))
  BY DEF Itineraries
<1>2. DOMAIN r.route = 1..Len(r.route) /\ Len(r.route) \in Nat
  BY RequestsAssumption
<1>3. \A i \in DOMAIN itinerary : itinerary[i] \in Stop
  BY DEF Stop
<1>4. itinerary \in [1..Len(r.route) -> Stop]
  BY <1>1, <1>2, <1>3 DEF Itinerary
<1> QED BY <1>2, <1>4

\* Packets make the journeys about which JourneyProofs is.
LEMMA PacketsMakeJourneys == Spec => Proved!Spec
<1>1. Promise!Init => Proved!Init
  BY DEF Promise!Init, Proved!Init, Promise!NotSent, Proved!NotSent
<1>2. [Promise!Next]_Promise!vars => [Proved!Next]_Proved!vars
  BY DEF Promise!Next, Promise!Depart, Promise!Visit, Promise!Arrive, Promise!Lose, Promise!vars,
         Proved!Next, Proved!Depart, Proved!Visit, Proved!Arrive, Proved!Lose, Proved!vars
<1> QED BY <1>1, <1>2, SphinxImplementsJourney, PTL
        DEF ImplementsJourney, Promise!Spec, Proved!Spec

\* The nodes that open a packet are those of the route in their order, and each
\* finds the delay, the last one the recipient, that were chosen for it: no node
\* opens a packet at the place of another one, whoever gets it.
THEOREM SphinxInOrder == Spec => []Promise!InOrder
<1>1. Proved!Spec => []Proved!InOrder
  BY ItinerariesAre, Proved!JourneyInOrder
<1>2. Proved!InOrder => Promise!InOrder
  BY DEF Proved!InOrder, Promise!InOrder
<1> QED BY <1>1, <1>2, PacketsMakeJourneys, PTL

\* A message that is recovered from a packet, be it made at once or with a reply
\* block, is the one that was sent, and has passed all nodes of its route.
THEOREM SphinxReceivedAtTheEnd == Spec => []Promise!ReceivedAtTheEnd
<1>1. Proved!Spec => []Proved!ReceivedAtTheEnd
  BY ItinerariesAre, Proved!JourneyReceivedAtTheEnd
<1>2. Proved!ReceivedAtTheEnd => Promise!ReceivedAtTheEnd
  BY DEF Proved!ReceivedAtTheEnd, Promise!ReceivedAtTheEnd
<1> QED BY <1>1, <1>2, PacketsMakeJourneys, PTL

\* Nothing a node does changes where a packet is to go or what it brings, and a
\* packet that a node could not open, or that has ended, goes no further.
THEOREM SphinxSettledForGood == Spec => Promise!SettledForGood
<1> DEFINE Settles(m) ==
      /\ Stages[m] # "unsent" => Journeys'[m] = Journeys[m]
      /\ Stages[m] \in {"lost", "arrived"} =>
           /\ Stages'[m] = Stages[m]
           /\ visited'[m] = visited[m] /\ received'[m] = received[m]
<1>1. Proved!Spec => Proved!SettledForGood
  BY ItinerariesAre, Proved!JourneySettled
<1>2. [\A m \in Packet : Settles(m)]_Proved!vars => [\A m \in Packet : Settles(m)]_Promise!vars
  BY DEF Proved!vars, Promise!vars
<1> QED BY <1>1, <1>2, PacketsMakeJourneys, PTL
        DEF Proved!SettledForGood, Promise!SettledForGood
=============================================================================
