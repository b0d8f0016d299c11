--------------------------- MODULE DeliveryProofs ---------------------------
(***************************************************************************)
(* Proofs about onions and their handling (Delivery).                      *)
(*                                                                         *)
(* The format, for routes of any length: each layer that wrap() puts on is *)
(* the one that unwrap() takes off, the filler is what an onion is         *)
(* extended with, and nothing but a layer's nonce opens it.                *)
(*                                                                         *)
(* The handling, for any relays, authorities, epochs, routes and messages, *)
(* and any size of the board: who holds which lock, what the board shows,  *)
(* and that every message makes the journey it is promised.                *)
(***************************************************************************)
EXTENDS Delivery, FiniteSetTheorems, WellFoundedInduction, TLAPS

-----------------------------------------------------------------------------
(* What is done for every hop in turn.                                     *)

\* Every set of numbers has a least one: the form of induction used below.
LEMMA Least ==
  ASSUME NEW T, T \subseteq Nat, T # {}
  PROVE  \E x \in T : \A y \in T : x <= y
<1> DEFINE R == OpToRel(<, Nat)
<1>1. IsWellFoundedOn(R, Nat)
  BY NatLessThanWellFounded
<1>2. PICK x \in T : \A y \in T : ~(<<y, x>> \in R)
  <2> HIDE DEF R
  <2> QED BY <1>1, WFMin
<1>3. \A y \in T : ~(y < x)
  BY <1>2 DEF OpToRel
<1> QED BY <1>3

\* The place taken next by a fold from the right is the first one left.
LEMMA MinIn ==
  ASSUME NEW n \in Nat, NEW s \in SUBSET (1..n), s # {}
  PROVE  Min(s) \in s /\ \A x \in s : Min(s) <= x
<1>1. s \subseteq Nat
  OBVIOUS
<1>2. \E x \in s : \A y \in s : x <= y
  BY <1>1, Least
<1> QED BY <1>2 DEF Min

\* That of a fold from the left is the last one left.
LEMMA MaxIn ==
  ASSUME NEW n \in Nat, NEW s \in SUBSET (1..n), s # {}
  PROVE  Max(s) \in s /\ \A x \in s : x <= Max(s)
<1> DEFINE T == {n - x : x \in s}
<1>1. T \subseteq Nat /\ T # {}
  OBVIOUS
<1>2. PICK t \in T : \A y \in T : t <= y
  BY <1>1, Least
<1>3. PICK x \in s : t = n - x
  OBVIOUS
<1>4. \A y \in s : n - x <= n - y
  BY <1>2, <1>3
<1>5. \E z \in s : \A y \in s : z >= y
  BY <1>4
<1> QED BY <1>5 DEF Max

Filled(b, nonces) == FoldLeft(compute_filler, b, nonces)

FillerIter(g, s, b, nonces) ==
  IF s = {} THEN b ELSE compute_filler(g[s \ {Max(s)}], nonces[Max(s)])

\* The fillers are computed one after the other, in the order of the route.
LEMMA FillersInTurn ==
  ASSUME NEW n \in Nat, NEW nonces, DOMAIN nonces = 1..n, NEW b
  PROVE  \E h : /\ h[0] = b /\ Filled(b, nonces) = h[n]
                /\ \A i \in 1..n : h[i] = compute_filler(h[i - 1], nonces[i])
<1> DEFINE Ok(k, g) == \A s \in SUBSET (1..k) : g[s] = FillerIter(g, s, b, nonces)
           T == {k \in 0..n : ~ \E g : Ok(k, g)}
<1>1. T = {}
  <2> SUFFICES ASSUME T # {} PROVE FALSE
    OBVIOUS
  <2>0. T \subseteq Nat
    OBVIOUS
  <2>1. PICK k \in T : \A j \in T : k <= j
    <3> HIDE DEF T
    <3> QED BY <2>0, Least
  <2>2. k # 0
    <3>1. Ok(0, [s \in SUBSET (1..0) |-> b])
      BY DEF FillerIter
    <3> QED BY <3>1
  <2>3. k - 1 \notin T /\ k - 1 \in 0..n
    <3>1. k \in 0..n /\ k - 1 < k
      OBVIOUS
    <3>2. k - 1 \in 0..n /\ ~(k <= k - 1)
      BY <2>2, <3>1
    <3> HIDE DEF T
    <3> QED BY <2>1, <3>2
  <2>4. PICK g : Ok(k - 1, g)
    BY <2>3
  <2> DEFINE f == [s \in SUBSET (1..n) |-> FillerIter(g, s, b, nonces)]
  <2>5. ASSUME NEW s \in SUBSET (1..k), s # {}
        PROVE  f[s] = FillerIter(f, s, b, nonces)
    <3>0. s \in SUBSET (1..n)
      OBVIOUS
    <3>1. Max(s) \in s /\ \A x \in s : x <= Max(s)
      BY <2>5, <3>0, MaxIn
    <3>2. ASSUME NEW x \in s, x # Max(s)
          PROVE  x \in 1..k - 1 /\ x \in 1..n
      <4>1. x \in 1..k /\ Max(s) \in 1..k /\ x <= Max(s) /\ k \in 0..n
        BY <3>1
      <4> QED BY <3>2, <4>1
    <3>3. f[s \ {Max(s)}] = g[s \ {Max(s)}]
      BY <2>4, <3>2
    <3> QED BY <2>5, <3>0, <3>3 DEF FillerIter
  <2>6. f[{}] = FillerIter(f, {}, b, nonces)
    BY DEF FillerIter
  <2>7. Ok(k, f)
    BY <2>5, <2>6
  <2> QED BY <2>1, <2>7
<1>2. PICK g : Ok(n, g)
  <2>1. n \in 0..n
    OBVIOUS
  <2> QED BY <1>1, <2>1
<1> DEFINE f == [s \in SUBSET (1..n) |-> g[s]]
           e == CHOOSE e : e = [s \in SUBSET (1..n) |-> FillerIter(e, s, b, nonces)]
           h == [i \in 0..n |-> e[1..i]]
<1>3. f = [s \in SUBSET (1..n) |-> FillerIter(f, s, b, nonces)]
  <2>1. ASSUME NEW s \in SUBSET (1..n)
        PROVE  f[s] = FillerIter(f, s, b, nonces)
    <3>1. s \ {Max(s)} \in SUBSET (1..n)
      OBVIOUS
    <3> QED BY <1>2, <3>1 DEF FillerIter
  <2> QED BY <2>1
<1>4. e = [s \in SUBSET (1..n) |-> FillerIter(e, s, b, nonces)]
  <2> HIDE DEF f
  <2> QED BY <1>3
<1> HIDE DEF e
<1>5. h[0] = b
  <2>1. 1..0 = {} /\ {} \in SUBSET (1..n)
    OBVIOUS
  <2> QED BY <1>4, <2>1 DEF FillerIter
<1>6. ASSUME NEW i \in 1..n
      PROVE  h[i] = compute_filler(h[i - 1], nonces[i])
  <2>1. 1..i \in SUBSET (1..n) /\ i \in 1..i /\ i - 1 \in 0..n
    OBVIOUS
  <2>2. Max(1..i) = i
    <3>1. Max(1..i) \in 1..i /\ i <= Max(1..i)
      BY <2>1, MaxIn
    <3> QED BY <3>1
  <2>3. (1..i) \ {i} = 1..(i - 1)
    OBVIOUS
  <2>4. e[1..i] = compute_filler(e[1..(i - 1)], nonces[i])
    BY <1>4, <2>1, <2>2, <2>3 DEF FillerIter
  <2> QED BY <2>1, <2>4
<1>7. Filled(b, nonces) = e[1..n]
  BY DEF Filled, FoldLeft, MapThenFoldSet, FillerIter, e
<1>8. h[n] = e[1..n]
  OBVIOUS
<1> HIDE DEF h
<1> QED BY <1>5, <1>6, <1>7, <1>8

Wrapped(h, n, nonces, identities, delays, public_keys) ==
  \A i \in 1..n :
    h[i] = wrap_with_nonce(h[i + 1], nonces[i], identities[i], public_keys, delays[i])

AreLayers(h, n, nonces, identities, delays, public_keys, data) ==
  /\ h[n + 1] = Filled(fresh(Len(public_keys), Len(identities), data), nonces)
  /\ Wrapped(h, n, nonces, identities, delays, public_keys)
  /\ wrap(nonces, identities, delays, public_keys, data) = h[1]

LayerIter(g, s, b, nonces, identities, delays, public_keys) ==
  IF s = {} THEN b
  ELSE wrap_with_nonce(g[s \ {Min(s)}], nonces[Min(s)], identities[Min(s)],
                       public_keys, delays[Min(s)])

\* The layers are put on one after the other, from the last hop to the first.
LEMMA LayersInTurn ==
  ASSUME NEW n \in Nat, NEW nonces, NEW identities, NEW delays, NEW public_keys, NEW data,
         DOMAIN nonces = 1..n, DOMAIN identities = 1..n
  PROVE  \E h : AreLayers(h, n, nonces, identities, delays, public_keys, data)
<1> DEFINE b == Filled(fresh(Len(public_keys), Len(identities), data), nonces)
           It(g, s) == LayerIter(g, s, b, nonces, identities, delays, public_keys)
           Ok(k, g) == \A s \in SUBSET (k..n) : g[s] = It(g, s)
           T == {k \in 0..n : ~ \E g : Ok(n + 1 - k, g)}
<1>0. wrap(nonces, identities, delays, public_keys, data)
        = LET I == [i \in 1..n |-> i]
              e == CHOOSE e : e = [s \in SUBSET (1..n) |->
                     IF s = {} THEN b
                     ELSE wrap_with_nonce(e[s \ {Min(s)}], nonces[I[Min(s)]],
                            identities[I[Min(s)]], public_keys, delays[I[Min(s)]])]
          IN  e[1..n]
  BY DEF wrap, Filled, FoldRight, MapThenFoldSet
<1> HIDE DEF b
<1>1. T = {}
  <2> SUFFICES ASSUME T # {} PROVE FALSE
    OBVIOUS
  <2>0. T \subseteq Nat
    OBVIOUS
  <2>1. PICK k \in T : \A j \in T : k <= j
    <3> HIDE DEF T
    <3> QED BY <2>0, Least
  <2>2. k # 0
    <3>1. (n + 1)..n = {} /\ n + 1 - 0 = n + 1
      OBVIOUS
    <3>2. Ok(n + 1, [s \in {{}} |-> b])
      BY <3>1 DEF LayerIter
    <3> QED BY <3>1, <3>2
  <2>3. k - 1 \notin T /\ k - 1 \in 0..n
    <3>1. k \in 0..n /\ k - 1 < k
      OBVIOUS
    <3>2. k - 1 \in 0..n /\ ~(k <= k - 1)
      BY <2>2, <3>1
    <3> HIDE DEF T
    <3> QED BY <2>1, <3>2
  <2>4. PICK g : Ok(n + 1 - (k - 1), g)
    BY <2>3
  <2> DEFINE m == n + 1 - k
             f == [s \in SUBSET (1..n) |-> It(g, s)]
  <2>5. ASSUME NEW s \in SUBSET (m..n), s # {}
        PROVE  f[s] = It(f, s)
    <3>0. s \in SUBSET (1..n)
      OBVIOUS
    <3>1. Min(s) \in s /\ \A x \in s : Min(s) <= x
      BY <2>5, <3>0, MinIn
    <3>2. ASSUME NEW x \in s, x # Min(s)
          PROVE  x \in (n + 1 - (k - 1))..n /\ x \in 1..n
      <4>1. x \in m..n /\ Min(s) \in m..n /\ Min(s) <= x /\ k \in 0..n
        BY <3>1
      <4> QED BY <3>2, <4>1
    <3>3. f[s \ {Min(s)}] = g[s \ {Min(s)}]
      BY <2>4, <3>2
    <3> QED BY <2>5, <3>0, <3>3 DEF LayerIter
  <2>6. f[{}] = It(f, {})
    BY DEF LayerIter
  <2>7. Ok(m, f)
    BY <2>5, <2>6
  <2> QED BY <2>1, <2>7
<1>2. PICK g : Ok(1, g)
  <2>1. n \in 0..n /\ n + 1 - n = 1
    OBVIOUS
  <2>2. \E g : Ok(n + 1 - n, g)
    BY <1>1, <2>1
  <2> QED BY <2>1, <2>2
<1> DEFINE f == [s \in SUBSET (1..n) |-> g[s]]
           e == CHOOSE e : e = [s \in SUBSET (1..n) |-> It(e, s)]
           h == [i \in 1..(n + 1) |-> e[i..n]]
<1>3. f = [s \in SUBSET (1..n) |-> It(f, s)]
  <2>1. ASSUME NEW s \in SUBSET (1..n)
        PROVE  f[s] = It(f, s)
    <3>1. s \ {Min(s)} \in SUBSET (1..n)
      OBVIOUS
    <3> QED BY <1>2, <3>1 DEF LayerIter
  <2> QED BY <2>1
<1>4. e = [s \in SUBSET (1..n) |-> It(e, s)]
  <2> HIDE DEF f, It
  <2> QED BY <1>3
<1> HIDE DEF e
<1>5. h[n + 1] = b
  <2>1. (n + 1)..n = {} /\ {} \in SUBSET (1..n)
    OBVIOUS
  <2> QED BY <1>4, <2>1 DEF LayerIter
<1>6. ASSUME NEW i \in 1..n
      PROVE  h[i] = wrap_with_nonce(h[i + 1], nonces[i], identities[i], public_keys, delays[i])
  <2>1. i..n \in SUBSET (1..n) /\ i \in i..n /\ i + 1 \in 1..(n + 1)
    OBVIOUS
  <2>2. Min(i..n) = i
    <3>1. Min(i..n) \in i..n /\ Min(i..n) <= i
      BY <2>1, MinIn
    <3> QED BY <3>1
  <2>3. (i..n) \ {i} = (i + 1)..n
    OBVIOUS
  <2>4. e[i..n] = It(e, i..n)
    BY <1>4, <2>1
  <2>5. e[i..n] = wrap_with_nonce(e[(i + 1)..n], nonces[i], identities[i], public_keys, delays[i])
    BY <2>1, <2>2, <2>3, <2>4 DEF LayerIter
  <2> QED BY <2>1, <2>5
<1>7. wrap(nonces, identities, delays, public_keys, data) = e[1..n]
  <2> DEFINE I == [i \in 1..n |-> i]
             Ot(d, s) == IF s = {} THEN b
                      ELSE wrap_with_nonce(d[s \ {Min(s)}], nonces[I[Min(s)]],
                            identities[I[Min(s)]], public_keys, delays[I[Min(s)]])
  <2>1. ASSUME NEW d, NEW s \in SUBSET (1..n) PROVE Ot(d, s) = It(d, s)
    <3>1. CASE s = {}
      BY <3>1 DEF LayerIter
    <3>2. CASE s # {}
      <4>1. Min(s) \in 1..n
        BY <3>2, MinIn
      <4>2. I[Min(s)] = Min(s)
        BY <4>1
      <4> QED BY <3>2, <4>2 DEF LayerIter
    <3> QED BY <3>1, <3>2
  <2>2. \A d : [s \in SUBSET (1..n) |-> Ot(d, s)] = [s \in SUBSET (1..n) |-> It(d, s)]
    <3> HIDE DEF Ot, It
    <3> QED BY <2>1
  <2>3. e = CHOOSE d : d = [s \in SUBSET (1..n) |-> Ot(d, s)]
    <3>1. e = CHOOSE d : d = [s \in SUBSET (1..n) |-> It(d, s)]
      BY DEF e
    <3> HIDE DEF Ot, It
    <3> QED BY <2>2, <3>1
  <2> QED BY <1>0, <2>3
<1>8. h[1] = e[1..n]
  OBVIOUS
<1> HIDE DEF h
<1> QED BY <1>5, <1>6, <1>7, <1>8 DEF b, AreLayers, Wrapped

-----------------------------------------------------------------------------
(* Cells.                                                                  *)

IsCell(c) == c = [text |-> c.text, pads |-> c.pads]

\* A string of so many cells.
AreCells(cells, n) ==
  cells = [i \in 1..n |-> cells[i]] /\ \A i \in 1..n : IsCell(cells[i])

flip(c, pad) == [c EXCEPT !.pads = SymDiff(@, {pad})]

\* A pad applied twice removes itself.
LEMMA FlipTwice ==
  ASSUME NEW c, NEW pad, IsCell(c)
  PROVE  IsCell(flip(c, pad)) /\ flip(flip(c, pad), pad) = c
<1>1. flip(c, pad) = [text |-> c.text, pads |-> SymDiff(c.pads, {pad})]
  BY DEF IsCell, flip
<1>2. SymDiff(SymDiff(c.pads, {pad}), {pad}) = c.pads
  BY DEF SymDiff
<1> DEFINE P == SymDiff(c.pads, {pad})
<1>3. flip(flip(c, pad), pad) = [text |-> c.text, pads |-> c.pads]
  <2> HIDE DEF P
  <2>1. flip([text |-> c.text, pads |-> P], pad) = [text |-> c.text, pads |-> SymDiff(P, {pad})]
    BY DEF flip
  <2> QED BY <1>1, <1>2, <2>1 DEF P
<1> QED BY <1>1, <1>3 DEF IsCell

\* A new cell has a text and pads.
LEMMA CellIsCell == \A text : IsCell(cell(text))
BY DEF cell, IsCell

\* A string followed by another one.
LEMMA Concat ==
  ASSUME NEW m \in Nat, NEW n \in Nat, NEW a, NEW b,
         a = [i \in 1..m |-> a[i]], b = [i \in 1..n |-> b[i]]
  PROVE  a \o b = [i \in 1..(m + n) |-> IF i <= m THEN a[i] ELSE b[i - m]]
<1> DEFINE S == {a[i] : i \in 1..m} \cup {b[i] : i \in 1..n}
<1>1. a \in [1..m -> S] /\ b \in [1..n -> S]
  OBVIOUS
<1> HIDE DEF S
<1>2. a \in Seq(S) /\ b \in Seq(S)
  BY <1>1
<1>3. Len(a) = m /\ Len(b) = n
  BY <1>1, <1>2
<1> QED BY <1>2, <1>3

\* A part of a string.
LEMMA Part ==
  ASSUME NEW m \in Nat, NEW a, a = [i \in 1..m |-> a[i]],
         NEW j \in 1..(m + 1), NEW k \in (j - 1)..m
  PROVE  SubSeq(a, j, k) = [i \in 1..(k - j + 1) |-> a[i + j - 1]]
<1> DEFINE S == {a[i] : i \in 1..m}
<1>1. a \in [1..m -> S]
  OBVIOUS
<1> HIDE DEF S
<1>2. a \in Seq(S)
  BY <1>1
<1>3. Len(a) = m
  BY <1>1, <1>2
<1> QED BY <1>2, <1>3

\* The length and the domain of a string.
LEMMA LenIs ==
  ASSUME NEW m \in Nat, NEW a, a = [i \in 1..m |-> a[i]]
  PROVE  Len(a) = m /\ DOMAIN a = 1..m
<1> DEFINE S == {a[i] : i \in 1..m}
<1>1. a \in [1..m -> S]
  OBVIOUS
<1> HIDE DEF S
<1> QED BY <1>1

\* What a keystream does to a string.
LEMMA Streamed ==
  ASSUME NEW n \in Nat, NEW cells, AreCells(cells, n), NEW nonce, NEW place \in Nat
  PROVE  /\ apply_keystream(cells, nonce, place) =
              [i \in 1..n |-> flip(cells[i], <<nonce, place + i>>)]
         /\ AreCells(apply_keystream(cells, nonce, place), n)
<1>1. Len(cells) = n /\ DOMAIN cells = 1..n
  BY LenIs DEF AreCells
<1>2. apply_keystream(cells, nonce, place) =
        [i \in 1..n |-> flip(cells[i], <<nonce, place + i>>)]
  BY <1>1 DEF apply_keystream, xor, keystream, flip
<1>3. \A i \in 1..n : IsCell(flip(cells[i], <<nonce, place + i>>))
  BY FlipTwice DEF AreCells
<1> QED BY <1>2, <1>3 DEF AreCells

-----------------------------------------------------------------------------
(* One hop.                                                                *)

\* The header that is left when the first block is cut off and another one
\* comes from the keystream.
Shifted(header, nonce, n) ==
  [p \in 1..n |-> IF p <= n - BLOCK THEN flip(header[p + BLOCK], <<nonce, p + BLOCK>>)
                                    ELSE flip(cell(<<"zero">>), <<nonce, p + BLOCK>>)]

\* The header extended by a block of zeros, and without its first block, once the
\* keystream is applied.
LEMMA ExtendAndDrop ==
  ASSUME NEW n \in Nat, n >= BLOCK, NEW header, AreCells(header, n), NEW nonce
  PROVE  /\ drop(apply_keystream(header \o zeros(BLOCK), nonce, 0), BLOCK) = Shifted(header, nonce, n)
         /\ AreCells(Shifted(header, nonce, n), n)
         /\ \A p \in 1..BLOCK : apply_keystream(header \o zeros(BLOCK), nonce, 0)[p]
                                  = flip(header[p], <<nonce, p>>)
<1> USE DEF BLOCK
<1> DEFINE zero == cell(<<"zero">>)
           long == [p \in 1..(n + 3) |-> IF p <= n THEN header[p] ELSE zero]
           streamed == apply_keystream(long, nonce, 0)
<1> HIDE DEF zero
<1>0. IsCell(zero)
  BY CellIsCell DEF zero
<1>1. header \o zeros(3) = long
  <2> DEFINE z == zeros(3)
  <2>1. z = [i \in 1..3 |-> zero]
    BY DEF zeros, zero
  <2> HIDE DEF z
  <2>2. z = [i \in 1..3 |-> z[i]]
    BY <2>1
  <2>3. header = [p \in 1..n |-> header[p]] /\ 3 \in Nat
    BY DEF AreCells
  <2>4. header \o z = [p \in 1..(n + 3) |-> IF p <= n THEN header[p] ELSE z[p - n]]
    BY <2>2, <2>3, Concat
  <2>5. header \o z = long
    BY <2>1, <2>4 DEF long
  <2> QED BY <2>5 DEF z
<1>2. AreCells(long, n + 3)
  BY <1>0 DEF AreCells
<1> HIDE DEF long
<1>3. /\ streamed = [p \in 1..(n + 3) |-> flip(long[p], <<nonce, 0 + p>>)]
      /\ AreCells(streamed, n + 3)
  BY <1>2, Streamed
<1> HIDE DEF streamed
<1>4. drop(streamed, 3) = [p \in 1..n |-> streamed[p + 3]]
  <2>1. Len(streamed) = n + 3
    BY <1>3, LenIs DEF AreCells
  <2>2. SubSeq(streamed, 4, n + 3) = [p \in 1..((n + 3) - 4 + 1) |-> streamed[p + 4 - 1]]
    BY <1>3, Part DEF AreCells
  <2> QED BY <2>1, <2>2 DEF drop
<1>5. drop(streamed, 3) = Shifted(header, nonce, n)
  <2>1. ASSUME NEW p \in 1..n
        PROVE  streamed[p + 3] = Shifted(header, nonce, n)[p]
    BY <1>3 DEF Shifted, zero, long
  <2> QED BY <1>4, <2>1 DEF Shifted
<1>6. AreCells(Shifted(header, nonce, n), n)
  <2>1. \A p \in 1..n : Shifted(header, nonce, n)[p] = streamed[p + 3]
    BY <1>4, <1>5
  <2>2. ASSUME NEW p \in 1..n PROVE IsCell(streamed[p + 3])
    <3>1. p + 3 \in 1..(n + 3)
      OBVIOUS
    <3> QED BY <1>3, <3>1 DEF AreCells
  <2>3. Shifted(header, nonce, n) = [p \in 1..n |-> Shifted(header, nonce, n)[p]]
    BY DEF Shifted
  <2> QED BY <2>1, <2>2, <2>3 DEF AreCells
<1>7. \A p \in 1..3 : streamed[p] = flip(header[p], <<nonce, p>>)
  BY <1>3 DEF long
<1> QED BY <1>1, <1>5, <1>6, <1>7 DEF streamed

\* An onion with a header of n cells.
IsOnion(onion, n) ==
  /\ onion = [identity |-> onion.identity, shares |-> onion.shares,
              header |-> onion.header, payload |-> onion.payload]
  /\ AreCells(onion.header, n) /\ AreCells(onion.payload, 1)

\* What a filler does to an onion: its header is shifted by a block.
LEMMA FillerIs ==
  ASSUME NEW n \in Nat, n >= BLOCK, NEW onion, IsOnion(onion, n), NEW nonce
  PROVE  LET filler == compute_filler(onion, nonce) IN
         /\ IsOnion(filler, n)
         /\ filler.identity = onion.identity /\ filler.shares = onion.shares
         /\ filler.payload = onion.payload
         /\ filler.header = Shifted(onion.header, nonce, n)
<1>1. compute_filler(onion, nonce) = [onion EXCEPT !.header = Shifted(onion.header, nonce, n)]
  BY ExtendAndDrop DEF compute_filler, IsOnion
<1>2. AreCells(Shifted(onion.header, nonce, n), n)
  BY ExtendAndDrop DEF IsOnion
<1> DEFINE header == Shifted(onion.header, nonce, n)
<1>3. compute_filler(onion, nonce)
        = [identity |-> onion.identity, shares |-> onion.shares,
           header |-> header, payload |-> onion.payload]
  <2> HIDE DEF header
  <2> QED BY <1>1 DEF IsOnion, header
<1> HIDE DEF header
<1> QED BY <1>2, <1>3 DEF IsOnion, header

\* What a layer's header is before the tag is put into it, and the tag.
HopHeader(onion, nonce, delay, n) ==
  [p \in 1..n |-> IF p = 1 THEN flip(cell(<<"delay", delay>>), <<nonce, 1>>)
             ELSE IF p = 2 THEN flip(cell(<<"zero">>), <<nonce, 2>>)
             ELSE IF p = 3 THEN flip(cell(<<"next", onion.identity, onion.shares>>), <<nonce, 3>>)
             ELSE flip(onion.header[p - BLOCK], <<nonce, p>>)]

HopPayload(onion, nonce, n) == [p \in 1..1 |-> flip(onion.payload[p], <<nonce, n + BLOCK + p>>)]

\* What a layer does to an onion: its header begins with the hop's block and the
\* tag, and stays as long as it was.
LEMMA LayerIs ==
  ASSUME NEW n \in Nat, n >= BLOCK, NEW onion, IsOnion(onion, n), NEW nonce, NEW identity,
         NEW public_keys, NEW delay
  PROVE  LET layer == wrap_with_nonce(onion, nonce, identity, public_keys, delay)
             shares == shares_of(nonce, identity, public_keys)
             header == HopHeader(onion, nonce, delay, n)
             payload == HopPayload(onion, nonce, n)
             tag == cell(tag_onion(nonce, identity, shares, header, payload))
         IN
         /\ IsOnion(layer, n)
         /\ layer.identity = identity /\ layer.shares = shares
         /\ layer.header = [header EXCEPT ![2] = tag]
         /\ layer.payload = payload
<1> USE DEF BLOCK
<1> DEFINE c1 == cell(<<"delay", delay>>)
           c2 == cell(<<"zero">>)
           c3 == cell(<<"next", onion.identity, onion.shares>>)
           hop == <<c1, c2, c3>>
           shares == shares_of(nonce, identity, public_keys)
           header == HopHeader(onion, nonce, delay, n)
           payload == HopPayload(onion, nonce, n)
           tag == cell(tag_onion(nonce, identity, shares, header, payload))
           all == [p \in 1..(3 + n) |-> IF p <= 3 THEN hop[p] ELSE onion.header[p - 3]]
<1>1. IsCell(c1) /\ IsCell(c2) /\ IsCell(c3) /\ IsCell(tag)
  BY CellIsCell
<1> HIDE DEF c1, c2, c3, tag, shares
<1>2. hop \o onion.header = all
  <2>1. hop = [p \in 1..3 |-> hop[p]] /\ 3 \in Nat
    OBVIOUS
  <2>2. onion.header = [p \in 1..n |-> onion.header[p]]
    BY DEF IsOnion, AreCells
  <2> HIDE DEF hop
  <2> QED BY <2>1, <2>2, Concat
<1>3. AreCells(all, 3 + n)
  <2>1. ASSUME NEW p \in 1..(3 + n) PROVE IsCell(all[p])
    <3>1. CASE p <= 3
      <4>1. p = 1 \/ p = 2 \/ p = 3
        BY <3>1
      <4> QED BY <1>1, <4>1
    <3>2. CASE p > 3
      <4>1. p - 3 \in 1..n
        BY <3>2
      <4> QED BY <3>2, <4>1 DEF IsOnion, AreCells
    <3> QED BY <3>1, <3>2
  <2> HIDE DEF hop
  <2> QED BY <2>1 DEF AreCells
<1> DEFINE streamed == apply_keystream(all, nonce, 0)
<1>4. /\ streamed = [p \in 1..(3 + n) |-> flip(all[p], <<nonce, 0 + p>>)]
      /\ AreCells(streamed, 3 + n)
  <2> HIDE DEF all
  <2> QED BY <1>3, Streamed
<1>5. Len(onion.header) = n
  BY LenIs DEF IsOnion, AreCells
<1>6. SubSeq(streamed, 1, n) = header
  <2> HIDE DEF streamed
  <2>1. SubSeq(streamed, 1, n) = [p \in 1..(n - 1 + 1) |-> streamed[p + 1 - 1]]
    BY <1>4, Part DEF AreCells
  <2>2. SubSeq(streamed, 1, n) = [p \in 1..n |-> streamed[p]]
    BY <2>1
  <2>3. ASSUME NEW p \in 1..n
        PROVE  streamed[p] = header[p]
    <3>1. streamed[p] = flip(all[p], <<nonce, p>>)
      BY <1>4
    <3>2. CASE p = 1
      BY <3>1, <3>2 DEF HopHeader, c1
    <3>3. CASE p = 2
      BY <3>1, <3>3 DEF HopHeader, c2
    <3>4. CASE p = 3
      BY <3>1, <3>4 DEF HopHeader, c3
    <3>5. CASE p > 3
      <4>1. all[p] = onion.header[p - 3]
        BY <3>5
      <4> HIDE DEF all
      <4> QED BY <3>1, <3>5, <4>1 DEF HopHeader
    <3> QED BY <3>2, <3>3, <3>4, <3>5
  <2> QED BY <2>2, <2>3 DEF HopHeader
<1>7. AreCells(header, n)
  <2>1. ASSUME NEW p \in 1..n
        PROVE  IsCell(header[p])
    <3>1. header[p] = streamed[p]
      <4>1. SubSeq(streamed, 1, n) = [q \in 1..(n - 1 + 1) |-> streamed[q + 1 - 1]]
        BY <1>4, Part DEF AreCells
      <4> HIDE DEF streamed
      <4> QED BY <1>6, <4>1
    <3>2. p \in 1..(3 + n)
      OBVIOUS
    <3> HIDE DEF streamed, header
    <3> QED BY <1>4, <3>1, <3>2 DEF AreCells
  <2> QED BY <2>1 DEF AreCells, HopHeader
<1>8. /\ apply_keystream(onion.payload, nonce, n + 3) = payload
      /\ AreCells(payload, 1)
  <2>1. AreCells(onion.payload, 1) /\ 1 \in Nat /\ n + 3 \in Nat
    BY DEF IsOnion
  <2>2. apply_keystream(onion.payload, nonce, n + 3)
          = [i \in 1..1 |-> flip(onion.payload[i], <<nonce, n + 3 + i>>)]
    BY <2>1, Streamed
  <2>3. AreCells(apply_keystream(onion.payload, nonce, n + 3), 1)
    BY <2>1, Streamed
  <2> QED BY <2>2, <2>3 DEF HopPayload
<1> DEFINE tagged == [header EXCEPT ![2] = tag]
<1>9. AreCells(tagged, n)
  <2> HIDE DEF header
  <2> QED BY <1>1, <1>7 DEF AreCells
<1>10. wrap_with_nonce(onion, nonce, identity, public_keys, delay)
         = [identity |-> identity, shares |-> shares, header |-> tagged, payload |-> payload]
  <2>1. SubSeq(apply_keystream(hop \o onion.header, nonce, 0), 1, Len(onion.header)) = header
    BY <1>2, <1>5, <1>6
  <2>2. apply_keystream(onion.payload, nonce, Len(onion.header) + BLOCK) = payload
    BY <1>5, <1>8
  <2> HIDE DEF header, payload
  <2> QED BY <2>1, <2>2 DEF wrap_with_nonce, shares, tag, c1, c2, c3
<1> HIDE DEF tagged, payload, header
<1> QED BY <1>8, <1>9, <1>10 DEF IsOnion, tagged, payload, header, shares, tag

\* The tag does not depend on the cell that it is put into.
LEMMA TagIsApart ==
  ASSUME NEW n \in Nat, n >= BLOCK, NEW header, AreCells(header, n), NEW tag,
         NEW nonce, NEW identity, NEW shares, NEW payload
  PROVE  tag_onion(nonce, identity, shares, [header EXCEPT ![2] = tag], payload)
           = tag_onion(nonce, identity, shares, header, payload)
<1> USE DEF BLOCK
<1> DEFINE tagged == [header EXCEPT ![2] = tag]
<1>1. header = [p \in 1..n |-> header[p]]
  BY DEF AreCells
<1>2. /\ tagged = [p \in 1..n |-> tagged[p]]
      /\ \A p \in 1..n : p # 2 => tagged[p] = header[p]
  BY <1>1
<1> HIDE DEF tagged
<1>3. Len(header) = n /\ Len(tagged) = n
  BY <1>1, <1>2, LenIs
<1>4. /\ SubSeq(header, 3, n) = [p \in 1..(n - 3 + 1) |-> header[p + 3 - 1]]
      /\ SubSeq(tagged, 3, n) = [p \in 1..(n - 3 + 1) |-> tagged[p + 3 - 1]]
  <2>1. 3 \in 1..(n + 1) /\ n \in (3 - 1)..n
    OBVIOUS
  <2> QED BY <1>1, <1>2, <2>1, Part
<1>5. SubSeq(header, 3, n) = SubSeq(tagged, 3, n)
  <2>1. ASSUME NEW p \in 1..(n - 3 + 1)
        PROVE  header[p + 3 - 1] = tagged[p + 3 - 1]
    <3>1. p + 3 - 1 \in 1..n /\ p + 3 - 1 # 2
      OBVIOUS
    <3> QED BY <1>2, <3>1
  <2> QED BY <1>4, <2>1
<1>6. header[1] = tagged[1]
  BY <1>2
<1> QED BY <1>3, <1>5, <1>6 DEF tag_onion, drop, tagged

\* A hop takes off with the nonce what was put on, if the block that is cut off
\* at the end of the header is the one that the keystream makes.
LEMMA HopTakenOff ==
  ASSUME NEW n \in Nat, n >= BLOCK, NEW onion, IsOnion(onion, n), NEW nonce, NEW identity,
         NEW public_keys, NEW delay,
         \A p \in 1..n : p > n - BLOCK =>
           onion.header[p] = flip(cell(<<"zero">>), <<nonce, p + BLOCK>>)
  PROVE  unwrap(wrap_with_nonce(onion, nonce, identity, public_keys, delay), nonce)
           = [ok |-> TRUE, delay |-> delay, onion |-> onion]
<1> USE DEF BLOCK
<1> DEFINE layer == wrap_with_nonce(onion, nonce, identity, public_keys, delay)
           shares == shares_of(nonce, identity, public_keys)
           header == HopHeader(onion, nonce, delay, n)
           payload == HopPayload(onion, nonce, n)
           tag == cell(tag_onion(nonce, identity, shares, header, payload))
           opened == apply_keystream(layer.header \o zeros(BLOCK), nonce, 0)
<1>1. /\ IsOnion(layer, n) /\ layer.identity = identity /\ layer.shares = shares
      /\ layer.header = [header EXCEPT ![2] = tag] /\ layer.payload = payload
  BY LayerIs
<1> HIDE DEF layer
<1>2. header = [p \in 1..n |-> header[p]]
  BY DEF HopHeader
<1>3. /\ layer.header[2] = tag
      /\ \A p \in 1..n : p # 2 => layer.header[p] = header[p]
  <2> HIDE DEF header, tag
  <2> QED BY <1>1, <1>2
<1>4. AreCells(layer.header, n) /\ Len(layer.header) = n
  BY <1>1, LenIs DEF IsOnion, AreCells
<1>5. layer.header[2] = cell(tag_onion(nonce, layer.identity, layer.shares, layer.header, layer.payload))
  <2>1. AreCells(header, n)
    <3>1. ASSUME NEW p \in 1..n PROVE IsCell(header[p])
      <4>1. CASE p = 2
        BY <4>1, CellIsCell, FlipTwice DEF HopHeader
      <4>2. CASE p # 2
        <5> HIDE DEF header
        <5> QED BY <1>3, <1>4, <4>2 DEF AreCells
      <4> QED BY <4>1, <4>2
    <3> HIDE DEF header
    <3> QED BY <1>2, <3>1 DEF AreCells
  <2> HIDE DEF header, payload, shares
  <2>2. tag_onion(nonce, identity, shares, [header EXCEPT ![2] = tag], payload)
          = tag_onion(nonce, identity, shares, header, payload)
    <3> HIDE DEF tag
    <3> QED BY <2>1, TagIsApart
  <2> QED BY <1>1, <1>3, <2>2
<1> HIDE DEF tag, shares, payload
<1>6. /\ drop(opened, BLOCK) = Shifted(layer.header, nonce, n)
      /\ \A p \in 1..BLOCK : opened[p] = flip(layer.header[p], <<nonce, p>>)
  BY <1>4, ExtendAndDrop
<1> HIDE DEF opened
<1>7. opened[1] = cell(<<"delay", delay>>)
  <2>1. header[1] = flip(cell(<<"delay", delay>>), <<nonce, 1>>)
    BY DEF HopHeader
  <2> HIDE DEF header
  <2> QED BY <1>3, <1>6, <2>1, CellIsCell, FlipTwice
<1>8. opened[3] = cell(<<"next", onion.identity, onion.shares>>)
  <2>1. header[3] = flip(cell(<<"next", onion.identity, onion.shares>>), <<nonce, 3>>)
    BY DEF HopHeader
  <2> HIDE DEF header
  <2> QED BY <1>3, <1>6, <2>1, CellIsCell, FlipTwice
<1>9. Shifted(layer.header, nonce, n) = onion.header
  <2>1. ASSUME NEW p \in 1..n
        PROVE  Shifted(layer.header, nonce, n)[p] = onion.header[p]
    <3>1. CASE p <= n - 3
      <4>1. header[p + 3] = flip(onion.header[p], <<nonce, p + 3>>)
        <5>1. p + 3 \in 1..n /\ p + 3 > 3 /\ p + 3 - 3 = p
          BY <3>1
        <5> QED BY <5>1 DEF HopHeader
      <4>2. Shifted(layer.header, nonce, n)[p] = flip(layer.header[p + 3], <<nonce, p + 3>>)
        BY <3>1 DEF Shifted
      <4>3. layer.header[p + 3] = header[p + 3]
        <5> HIDE DEF header
        <5> QED BY <1>3, <3>1
      <4>4. IsCell(onion.header[p])
        BY DEF IsOnion, AreCells
      <4> HIDE DEF header
      <4> QED BY <4>1, <4>2, <4>3, <4>4, FlipTwice
    <3>2. CASE p > n - 3
      BY <3>2 DEF Shifted
    <3> QED BY <3>1, <3>2
  <2>2. onion.header = [p \in 1..n |-> onion.header[p]]
    BY DEF IsOnion, AreCells
  <2> QED BY <2>1, <2>2 DEF Shifted
<1>10. apply_keystream(layer.payload, nonce, n + 3) = onion.payload
  <2>1. AreCells(layer.payload, 1) /\ 1 \in Nat /\ n + 3 \in Nat
    BY <1>1 DEF IsOnion
  <2>2. apply_keystream(layer.payload, nonce, n + 3)
          = [i \in 1..1 |-> flip(layer.payload[i], <<nonce, n + 3 + i>>)]
    BY <2>1, Streamed
  <2>3. ASSUME NEW i \in 1..1
        PROVE  flip(layer.payload[i], <<nonce, n + 3 + i>>) = onion.payload[i]
    <3>1. layer.payload[i] = flip(onion.payload[i], <<nonce, n + 3 + i>>)
      BY <1>1 DEF payload, HopPayload
    <3>2. IsCell(onion.payload[i])
      BY DEF IsOnion, AreCells
    <3> QED BY <3>1, <3>2, FlipTwice
  <2>4. onion.payload = [i \in 1..1 |-> onion.payload[i]]
    BY DEF IsOnion, AreCells
  <2> QED BY <2>2, <2>3, <2>4
<1>11. /\ plain(opened[1], "delay") /\ opened[1].text[2] = delay
       /\ plain(opened[3], "next") /\ opened[3].text[2] = onion.identity
       /\ opened[3].text[3] = onion.shares
  BY <1>7, <1>8 DEF plain, cell
<1>12. unwrap(layer, nonce)
         = [ok |-> TRUE, delay |-> delay,
            onion |-> [identity |-> onion.identity, shares |-> onion.shares,
                       header |-> onion.header, payload |-> onion.payload]]
  BY <1>4, <1>5, <1>6, <1>9, <1>10, <1>11 DEF unwrap, opened
<1> QED BY <1>12 DEF IsOnion, layer

\* Another nonce takes nothing off.
LEMMA OtherNonceRefused ==
  ASSUME NEW n \in Nat, n >= BLOCK, NEW onion, IsOnion(onion, n), NEW nonce, NEW identity,
         NEW public_keys, NEW delay, NEW other, other # nonce
  PROVE  unwrap(wrap_with_nonce(onion, nonce, identity, public_keys, delay), other) = refused
<1> USE DEF BLOCK
<1> DEFINE layer == wrap_with_nonce(onion, nonce, identity, public_keys, delay)
           shares == shares_of(nonce, identity, public_keys)
           header == HopHeader(onion, nonce, delay, n)
           payload == HopPayload(onion, nonce, n)
           tag == cell(tag_onion(nonce, identity, shares, header, payload))
<1>1. layer.header = [header EXCEPT ![2] = tag]
  BY LayerIs
<1>2. header = [p \in 1..n |-> header[p]]
  BY DEF HopHeader
<1> HIDE DEF layer
<1>3. layer.header[2] = tag
  <2> HIDE DEF header, tag
  <2> QED BY <1>1, <1>2
<1>4. layer.header[2] # cell(tag_onion(other, layer.identity, layer.shares, layer.header, layer.payload))
  <2> HIDE DEF header, payload, shares
  <2> QED BY <1>3 DEF tag_onion, cell, tag
<1> QED BY <1>4 DEF unwrap, refused, layer

-----------------------------------------------------------------------------
(* The whole route.                                                        *)

\* The onion before any layer is put on.
LEMMA FreshIs ==
  ASSUME NEW n \in Nat, NEW authorities, NEW data
  PROVE  LET onion == fresh(authorities, n, data) IN
         /\ IsOnion(onion, n * BLOCK) /\ is_final_destination(onion)
         /\ onion.payload = <<cell(<<"data", data>>)>>
<1> DEFINE shares == [i \in 1..authorities |-> empty_share]
           payload == <<cell(<<"data", data>>)>>
           header == zeros(n * BLOCK)
           onion == fresh(authorities, n, data)
<1>1. onion = [identity |-> 0, shares |-> shares, header |-> header, payload |-> payload]
  BY DEF fresh
<1>2. AreCells(header, n * BLOCK)
  BY CellIsCell DEF AreCells, zeros
<1>3. AreCells(payload, 1)
  <2>1. payload = [i \in 1..1 |-> payload[i]] /\ payload[1] = cell(<<"data", data>>)
    OBVIOUS
  <2> HIDE DEF payload
  <2> QED BY <2>1, CellIsCell DEF AreCells
<1>4. \A i \in DOMAIN shares : shares[i] = empty_share
  OBVIOUS
<1> HIDE DEF shares, header, payload, onion
<1>5. onion.identity = 0 /\ onion.shares = shares /\ onion.payload = payload
  BY <1>1
<1>6. IsOnion(onion, n * BLOCK)
  BY <1>1, <1>2, <1>3 DEF IsOnion
<1>7. is_final_destination(onion)
  BY <1>4, <1>5 DEF is_final_destination
<1> QED BY <1>5, <1>6, <1>7 DEF onion, payload

\* Between the fillers, the header stays as long as it was, and nothing else
\* changes.
LEMMA FillersAre ==
  ASSUME NEW n \in Nat \ {0}, NEW nonces, NEW base, IsOnion(base, n * BLOCK), NEW F,
         F[0] = base, \A i \in 1..n : F[i] = compute_filler(F[i - 1], nonces[i])
  PROVE  \A i \in 0..n : /\ IsOnion(F[i], n * BLOCK)
                         /\ F[i].identity = base.identity /\ F[i].shares = base.shares
                         /\ F[i].payload = base.payload
<1> DEFINE P(i) == /\ IsOnion(F[i], n * BLOCK)
                   /\ F[i].identity = base.identity /\ F[i].shares = base.shares
                   /\ F[i].payload = base.payload
           T == {i \in 0..n : ~P(i)}
<1>1. T \subseteq Nat
  OBVIOUS
<1> SUFFICES ASSUME T # {} PROVE FALSE
  OBVIOUS
<1>2. PICK k \in T : \A j \in T : k <= j
  <2> HIDE DEF T
  <2> QED BY <1>1, Least
<1>3. k # 0 /\ k \in 0..n
  OBVIOUS
<1>4. k \in 1..n /\ k - 1 \in 0..n /\ ~(k <= k - 1)
  BY <1>3
<1>5. P(k - 1)
  <2>1. k - 1 \notin T
    <3> HIDE DEF T
    <3> QED BY <1>2, <1>4
  <2> QED BY <1>4, <2>1
<1>6. n * BLOCK \in Nat /\ n * BLOCK >= BLOCK
  BY DEF BLOCK
<1>7. F[k] = compute_filler(F[k - 1], nonces[k])
  BY <1>4
<1>8. P(k)
  BY <1>5, <1>6, <1>7, FillerIs
<1> QED BY <1>8

\* The layers are onions with a header of one length, and the end of each
\* layer's header is what the fillers of the hops before it have left there.
LEMMA FillerFits ==
  ASSUME NEW n \in Nat \ {0}, NEW nonces, NEW identities, NEW delays, NEW public_keys,
         NEW F, NEW h, h[n + 1] = F[n],
         \A i \in 0..n : IsOnion(F[i], n * BLOCK),
         \A i \in 1..n : F[i] = compute_filler(F[i - 1], nonces[i]),
         Wrapped(h, n, nonces, identities, delays, public_keys)
  PROVE  \A i \in 1..(n + 1) :
           /\ IsOnion(h[i], n * BLOCK)
           /\ \A p \in 1..(n * BLOCK) : p > (n - (i - 1)) * BLOCK =>
                h[i].header[p] = F[i - 1].header[p]
<1> USE DEF BLOCK
<1> DEFINE L == n * 3
           P(i) == /\ IsOnion(h[i], L)
                   /\ \A p \in 1..L : p > L - 3 * (i - 1) => h[i].header[p] = F[i - 1].header[p]
           T == {k \in 0..n : ~P(n + 1 - k)}
<1>1. T = {}
  <2> SUFFICES ASSUME T # {} PROVE FALSE
    OBVIOUS
  <2>0. T \subseteq Nat
    OBVIOUS
  <2>1. PICK k \in T : \A j \in T : k <= j
    <3> HIDE DEF T
    <3> QED BY <2>0, Least
  <2>2. k # 0
    <3>1. P(n + 1 - 0)
      <4>1. n + 1 - 0 = n + 1 /\ n + 1 - 1 = n /\ n \in 0..n
        OBVIOUS
      <4> QED BY <4>1
    <3> QED BY <3>1
  <2>3. k \in 1..n /\ k - 1 \in 0..n /\ ~(k <= k - 1)
    BY <2>2
  <2>4. P(n + 1 - (k - 1))
    <3>1. k - 1 \notin T
      <4> HIDE DEF T
      <4> QED BY <2>1, <2>3
    <3> QED BY <2>3, <3>1
  <2> DEFINE i == n + 1 - k
  <2>5. i \in 1..n /\ n + 1 - (k - 1) = i + 1 /\ i - 1 \in 0..n /\ i \in 0..n
    BY <2>3
  <2> HIDE DEF i, L
  <2>6. L \in Nat /\ L >= BLOCK /\ L = n * 3
    BY DEF L
  <2>7. P(i + 1)
    BY <2>4, <2>5
  <2>8. h[i] = wrap_with_nonce(h[i + 1], nonces[i], identities[i], public_keys, delays[i])
    BY <2>5 DEF Wrapped
  <2> DEFINE header == HopHeader(h[i + 1], nonces[i], delays[i], L)
             tag == cell(tag_onion(nonces[i], identities[i], shares_of(nonces[i], identities[i], public_keys),
                                   header, HopPayload(h[i + 1], nonces[i], L)))
  <2>9. IsOnion(h[i], L) /\ h[i].header = [header EXCEPT ![2] = tag]
    BY <2>6, <2>7, <2>8, LayerIs
  <2>10. ASSUME NEW p \in 1..L, p > L - 3 * (i - 1)
         PROVE  h[i].header[p] = F[i - 1].header[p]
    <3>1. p > 3 /\ p - 3 \in 1..L /\ p - 3 <= L - 3 /\ p - 3 > L - 3 * ((i + 1) - 1)
      BY <2>5, <2>6, <2>10
    <3>2. h[i].header[p] = header[p]
      <4>1. header = [q \in 1..L |-> header[q]]
        BY DEF HopHeader
      <4> HIDE DEF header, tag
      <4> QED BY <2>9, <3>1, <4>1
    <3>3. header[p] = flip(h[i + 1].header[p - 3], <<nonces[i], p>>)
      BY <3>1 DEF HopHeader
    <3>4. h[i + 1].header[p - 3] = F[i].header[p - 3]
      <4>1. (i + 1) - 1 = i
        BY <2>5
      <4> QED BY <2>7, <3>1, <4>1
    <3>5. F[i].header = Shifted(F[i - 1].header, nonces[i], L)
      <4>1. IsOnion(F[i - 1], L) /\ F[i] = compute_filler(F[i - 1], nonces[i])
        BY <2>5, <2>6
      <4>2. compute_filler(F[i - 1], nonces[i]).header = Shifted(F[i - 1].header, nonces[i], L)
        BY <2>6, <4>1, FillerIs
      <4> QED BY <4>1, <4>2
    <3>6. F[i].header[p - 3] = flip(F[i - 1].header[p], <<nonces[i], p>>)
      <4>1. (p - 3) + 3 = p
        OBVIOUS
      <4> QED BY <3>1, <3>5, <4>1 DEF Shifted
    <3>7. IsCell(F[i - 1].header[p])
      BY <2>5, <2>6 DEF IsOnion, AreCells
    <3> QED BY <3>2, <3>3, <3>4, <3>6, <3>7, FlipTwice
  <2>11. P(i)
    BY <2>9, <2>10
  <2> QED BY <2>11 DEF i, L
<1>2. ASSUME NEW i \in 1..(n + 1)
      PROVE  P(i)
  <2>1. n + 1 - i \in 0..n /\ n + 1 - (n + 1 - i) = i
    OBVIOUS
  <2>2. n + 1 - i \notin T
    BY <1>1
  <2>3. P(n + 1 - (n + 1 - i))
    BY <2>1, <2>2
  <2> HIDE DEF P
  <2> QED BY <2>1, <2>3
<1>3. \A i \in 1..(n + 1) : (n - (i - 1)) * 3 = L - 3 * (i - 1)
  OBVIOUS
<1> QED BY <1>2, <1>3

IsString(s, n) == s = [i \in 1..n |-> s[i]]

\* For every hop there is an onion: the first is the one that is wrapped, and
\* each shares its nonce for its hop's identity, is refused with any other
\* nonce, and with its nonce becomes the next one and gives the delay chosen
\* for the hop.  The last hop is left with the data.
AreHops(h, nonces, identities, delays, public_keys, data) ==
  /\ h[1] = wrap(nonces, identities, delays, public_keys, data)
  /\ \A i \in 1..Len(identities) :
       /\ h[i].identity = identities[i]
       /\ h[i].shares = shares_of(nonces[i], identities[i], public_keys)
       /\ unwrap(h[i], nonces[i]) = [ok |-> TRUE, delay |-> delays[i], onion |-> h[i + 1]]
       /\ \A other : other # nonces[i] => unwrap(h[i], other) = refused
  /\ is_final_destination(h[Len(identities) + 1])
  /\ h[Len(identities) + 1].payload = <<cell(<<"data", data>>)>>

\* Unwrapping undoes wrapping, hop by hop, for routes of any length, and any
\* number of authorities.
THEOREM OnionRoute ==
  ASSUME NEW n \in Nat \ {0}, NEW nonces, NEW identities, NEW delays, NEW public_keys, NEW data,
         IsString(nonces, n), IsString(identities, n)
  PROVE  \E h : AreHops(h, nonces, identities, delays, public_keys, data)
<1> DEFINE L == n * BLOCK
           base == fresh(Len(public_keys), n, data)
<1>0. L \in Nat /\ L >= BLOCK /\ n \in Nat
  BY DEF BLOCK
<1>1. Len(identities) = n /\ DOMAIN identities = 1..n /\ DOMAIN nonces = 1..n
  BY LenIs DEF IsString
<1>2. /\ IsOnion(base, L) /\ is_final_destination(base)
      /\ base.payload = <<cell(<<"data", data>>)>>
  <2> DEFINE authorities == Len(public_keys)
  <2> HIDE DEF authorities
  <2>1. LET onion == fresh(authorities, n, data) IN
        /\ IsOnion(onion, n * BLOCK) /\ is_final_destination(onion)
        /\ onion.payload = <<cell(<<"data", data>>)>>
    BY <1>0, FreshIs
  <2> QED BY <2>1 DEF authorities
<1> HIDE DEF base
<1>3. PICK F : /\ F[0] = base /\ Filled(base, nonces) = F[n]
               /\ \A i \in 1..n : F[i] = compute_filler(F[i - 1], nonces[i])
  <2>1. n \in Nat /\ DOMAIN nonces = 1..n
    BY <1>1
  <2> HIDE DEF L
  <2> QED BY <2>1, FillersInTurn, SMTT(60)
<1>4. PICK h : /\ h[n + 1] = Filled(base, nonces)
               /\ Wrapped(h, n, nonces, identities, delays, public_keys)
               /\ wrap(nonces, identities, delays, public_keys, data) = h[1]
  <2>1. \E h : AreLayers(h, n, nonces, identities, delays, public_keys, data)
    BY <1>0, <1>1, LayersInTurn
  <2>2. base = fresh(Len(public_keys), Len(identities), data)
    BY <1>1 DEF base
  <2> QED BY <2>1, <2>2 DEF AreLayers
<1>5. \A i \in 0..n : /\ IsOnion(F[i], L)
                      /\ F[i].identity = base.identity /\ F[i].shares = base.shares
                      /\ F[i].payload = base.payload
  BY <1>2, <1>3, FillersAre
<1>6. \A i \in 1..(n + 1) :
        /\ IsOnion(h[i], L)
        /\ \A p \in 1..L : p > (n - (i - 1)) * BLOCK => h[i].header[p] = F[i - 1].header[p]
  <2>1. h[n + 1] = F[n] /\ \A i \in 0..n : IsOnion(F[i], n * BLOCK)
    BY <1>3, <1>4, <1>5
  <2>2. \A i \in 1..(n + 1) :
          /\ IsOnion(h[i], n * BLOCK)
          /\ \A p \in 1..(n * BLOCK) : p > (n - (i - 1)) * BLOCK =>
               h[i].header[p] = F[i - 1].header[p]
    BY <1>3, <1>4, <2>1, FillerFits
  <2> QED BY <2>2
<1>L. L = n * BLOCK
  OBVIOUS
<1> HIDE DEF L
<1>7. ASSUME NEW i \in 1..n
      PROVE  /\ h[i].identity = identities[i]
             /\ h[i].shares = shares_of(nonces[i], identities[i], public_keys)
             /\ unwrap(h[i], nonces[i]) = [ok |-> TRUE, delay |-> delays[i], onion |-> h[i + 1]]
             /\ \A other : other # nonces[i] => unwrap(h[i], other) = refused
  <2>1. i + 1 \in 1..(n + 1) /\ i \in 0..n /\ i - 1 \in 0..n /\ (i + 1) - 1 = i
    OBVIOUS
  <2>2. IsOnion(h[i + 1], L)
    BY <1>6, <2>1
  <2>3. h[i] = wrap_with_nonce(h[i + 1], nonces[i], identities[i], public_keys, delays[i])
    BY <1>4 DEF Wrapped
  <2>4. h[i].identity = identities[i] /\ h[i].shares = shares_of(nonces[i], identities[i], public_keys)
    BY <2>3 DEF wrap_with_nonce
  <2>5. ASSUME NEW p \in 1..L, p > L - BLOCK
        PROVE  h[i + 1].header[p] = flip(cell(<<"zero">>), <<nonces[i], p + BLOCK>>)
    <3>1. p > (n - i) * BLOCK
      BY <1>L, <2>5 DEF BLOCK
    <3>2. h[i + 1].header[p] = F[i].header[p]
      BY <1>6, <2>1, <3>1
    <3>3. IsOnion(F[i - 1], L) /\ F[i] = compute_filler(F[i - 1], nonces[i])
      BY <1>3, <1>5, <2>1
    <3>4. F[i].header = Shifted(F[i - 1].header, nonces[i], L)
      BY <1>0, <3>3, FillerIs
    <3> QED BY <1>0, <2>5, <3>2, <3>4 DEF Shifted, BLOCK
  <2>6. unwrap(h[i], nonces[i]) = [ok |-> TRUE, delay |-> delays[i], onion |-> h[i + 1]]
    <3>1. unwrap(wrap_with_nonce(h[i + 1], nonces[i], identities[i], public_keys, delays[i]), nonces[i])
            = [ok |-> TRUE, delay |-> delays[i], onion |-> h[i + 1]]
      <4>1. ASSUME NEW onion, IsOnion(onion, L), NEW nonce, NEW identity, NEW delay,
                   \A p \in 1..L : p > L - BLOCK =>
                     onion.header[p] = flip(cell(<<"zero">>), <<nonce, p + BLOCK>>)
            PROVE  /\ IsOnion(onion, L)
                   /\ unwrap(wrap_with_nonce(onion, nonce, identity, public_keys, delay), nonce)
                        = [ok |-> TRUE, delay |-> delay, onion |-> onion]
        BY <1>0, <4>1, HopTakenOff
      <4> DEFINE onion == h[i + 1]
      <4>2. \A p \in 1..L : p > L - BLOCK =>
              onion.header[p] = flip(cell(<<"zero">>), <<nonces[i], p + BLOCK>>)
        BY <2>5
      <4>3. IsOnion(onion, L)
        BY <2>2
      <4> HIDE DEF onion
      <4>4. unwrap(wrap_with_nonce(onion, nonces[i], identities[i], public_keys, delays[i]), nonces[i])
              = [ok |-> TRUE, delay |-> delays[i], onion |-> onion]
        BY <4>1, <4>2, <4>3
      <4> QED BY <4>4 DEF onion
    <3> QED BY <2>3, <3>1
  <2>7. ASSUME NEW other, other # nonces[i]
        PROVE  unwrap(h[i], other) = refused
    BY <1>0, <2>2, <2>3, <2>7, OtherNonceRefused
  <2> QED BY <2>4, <2>6, <2>7
<1>8. h[n + 1] = F[n] /\ n \in 0..n
  BY <1>3, <1>4
<1>9. is_final_destination(h[n + 1]) /\ h[n + 1].payload = <<cell(<<"data", data>>)>>
  BY <1>2, <1>5, <1>8 DEF is_final_destination
<1> QED BY <1>1, <1>4, <1>7, <1>9 DEF AreHops

\* A layer for a hop is not taken for what the last hop is left with.
LEMMA NotFinal ==
  ASSUME NEW authorities \in Nat \ {0}, NEW public_keys, IsString(public_keys, authorities),
         public_keys[1] # <<>>, NEW nonce, NEW identity, NEW onion,
         onion.shares = shares_of(nonce, identity, public_keys)
  PROVE  ~is_final_destination(onion)
<1>1. DOMAIN public_keys = 1..authorities /\ 1 \in 1..authorities
  BY LenIs DEF IsString
<1>2. 1 \in DOMAIN onion.shares /\ onion.shares[1].params = public_keys[1]
  BY <1>1 DEF shares_of
<1>3. empty_share.params = <<>>
  BY DEF empty_share
<1> QED BY <1>2, <1>3 DEF is_final_destination

\* The nonce is recovered only with a private key of every authority, each the
\* one for the onion's identity that goes with the public key used to wrap.
LEMMA RecoveredOnly ==
  ASSUME NEW authorities \in Nat \ {0}, NEW keys, IsString(keys, authorities),
         NEW nonce, NEW identity, NEW onion, onion.shares = shares_of(nonce, identity, keys),
         NEW K, NEW private \in Seq(K), NEW public_keys, NEW strict
  PROVE  \/ recovered(onion, public_keys, private, strict) = GARBAGE
         \/ /\ recovered(onion, public_keys, private, strict) = nonce
            /\ Len(private) = authorities
            /\ \A i \in 1..authorities : private[i].params = keys[i]
<1> DEFINE n == Len(private)
           points == [i \in 1..n |-> decrypted(onion.shares[i], public_keys[i], private[i], strict)]
           secret == onion.shares[1].secret
<1>1. n \in Nat
  OBVIOUS
<1>2. DOMAIN keys = 1..authorities /\ 1 \in 1..authorities
  BY LenIs DEF IsString
<1>3. onion.shares = [i \in 1..authorities |->
                        [params |-> keys[i], identity |-> identity, secret |-> nonce, point |-> i]]
  BY <1>2 DEF shares_of
<1>4. secret = nonce
  BY <1>2, <1>3
<1>5. Len(onion.shares) = authorities
  <2> DEFINE shares == [i \in 1..authorities |->
                        [params |-> keys[i], identity |-> identity, secret |-> nonce, point |-> i]]
  <2>1. shares = [i \in 1..authorities |-> shares[i]]
    OBVIOUS
  <2> HIDE DEF shares
  <2>2. Len(shares) = authorities
    BY <2>1, LenIs
  <2> QED BY <1>3, <2>2 DEF shares
<1>6. Len(points) = n
  <2>1. points = [i \in 1..n |-> points[i]]
    OBVIOUS
  <2> HIDE DEF points, n
  <2> QED BY <1>1, <2>1, LenIs
<1> DEFINE opened == /\ Len(points) = Len(onion.shares)
                     /\ \A i \in DOMAIN points : points[i] = [secret |-> secret, point |-> i]
<1>7. recovered(onion, public_keys, private, strict) = IF opened THEN secret ELSE GARBAGE
  BY DEF recovered
<1>8. CASE ~opened
  <2> HIDE DEF opened
  <2> QED BY <1>7, <1>8
<1>9. CASE opened
  <2>1. recovered(onion, public_keys, private, strict) = nonce
    <3> HIDE DEF opened, secret
    <3> QED BY <1>4, <1>7, <1>9
  <2>2. n = authorities
    <3> HIDE DEF points, n
    <3> QED BY <1>5, <1>6, <1>9
  <2>3. ASSUME NEW i \in 1..authorities
        PROVE  private[i].params = keys[i]
    <3>1. points[i] = [secret |-> secret, point |-> i]
      <4>1. i \in 1..n
        BY <2>2
      <4>2. DOMAIN points = 1..n
        OBVIOUS
      <4> HIDE DEF points, n, secret
      <4> QED BY <1>9, <4>1, <4>2
    <3>2. points[i] = decrypted(onion.shares[i], public_keys[i], private[i], strict)
      BY <2>2
    <3>3. onion.shares[i].params = keys[i]
      BY <1>3
    <3>4. decrypted(onion.shares[i], public_keys[i], private[i], strict).point = i
      <4> HIDE DEF points
      <4> QED BY <3>1, <3>2
    <3>5. onion.shares[i].params = private[i].params
      BY <3>4 DEF decrypted
    <3> QED BY <3>3, <3>5
  <2> QED BY <2>1, <2>2, <2>3
<1> QED BY <1>8, <1>9

-----------------------------------------------------------------------------
(* The handling of onions.                                                 *)

Places == {"unsent", "client_ask", "client_post", "dropped", "done"} \cup AtRelay

IsTask(t) ==
  t \in [pc : Places, at : {t.at}, to : {t.to}, asked : {t.asked},
         onion : {t.onion}, public_keys : {t.public_keys}]

\* A relay that has crashed handles nothing, and a lock is held for those
\* onions that are being sent on, whose thread has taken it and not yet
\* released it.
LockInvariant ==
  /\ up \subseteq Relay /\ writer \subseteq up
  /\ task = [m \in Message |-> task[m]]
  /\ \A m \in Message : IsTask(task[m]) /\ (task[m].pc \in AtRelay => task[m].at \in up)
  /\ readers = [r \in Relay |->
                  {m \in Message : task[m].pc \in {"ask", "send"} /\ task[m].at = r}]

\* Who waits to switch has an epoch to switch to.
EpochsInvariant ==
  /\ authority_epoch \in [Authorities -> Epochs] /\ client_epoch \in Epochs
  /\ live_epoch \in [Relay -> Epochs]
  /\ \A r \in writer : live_epoch[r] < MAX_EPOCH
  /\ client_writer => client_epoch < MAX_EPOCH

Done == {m \in Message : task[m].pc = "done"}

\* One message is posted for each task that is done.
BoardInvariant ==
  /\ \E S : messages \in Seq(S)
  /\ \E S : posted \in Seq(S)
  /\ Len(posted) = Cardinality(Done)
  /\ BoardShowsLatest

DeliveryInvariant == EpochsInvariant /\ LockInvariant /\ BoardInvariant

-----------------------------------------------------------------------------
(* Tasks.                                                                  *)

\* A new task.
LEMMA NewTask ==
  ASSUME NEW place \in Places
  PROVE  IsTask(Task(place)) /\ Task(place).pc = place
BY DEF Task, IsTask

\* A task of which all may change but the fields.
LEMMA FieldsTask ==
  ASSUME NEW pc, NEW at, NEW to, NEW asked, NEW onion, NEW public_keys, pc \in Places
  PROVE  IsTask([pc |-> pc, at |-> at, to |-> to, asked |-> asked, onion |-> onion,
                 public_keys |-> public_keys])
BY DEF IsTask

\* Only one task changes, and the lock is held for it just if it is sending.
LEMMA OneTask ==
  ASSUME LockInvariant, NEW m \in Message, NEW t, IsTask(t), Becomes(m, t),
         UNCHANGED <<up, writer>>, t.pc \in AtRelay => t.at \in up,
         readers' = [r \in Relay |-> (readers[r] \ {m}) \cup
                       (IF t.pc \in {"ask", "send"} /\ t.at = r THEN {m} ELSE {})]
  PROVE  LockInvariant' /\ task'[m] = t /\ \A k \in Message \ {m} : task'[k] = task[k]
<1>1. /\ task' = [k \in Message |-> IF k = m THEN t ELSE task[k]]
  BY DEF LockInvariant, Becomes
<1>2. task'[m] = t /\ \A k \in Message \ {m} : task'[k] = task[k]
  BY <1>1
<1>3. task' = [k \in Message |-> task'[k]]
  BY <1>1
<1>4. up' \subseteq Relay /\ writer' \subseteq up'
  BY DEF LockInvariant
<1>5. \A k \in Message : IsTask(task'[k]) /\ (task'[k].pc \in AtRelay => task'[k].at \in up')
  BY <1>2 DEF LockInvariant
<1>6. readers' = [r \in Relay |->
                    {k \in Message : task'[k].pc \in {"ask", "send"} /\ task'[k].at = r}]
  <2>1. ASSUME NEW r \in Relay
        PROVE  (readers[r] \ {m}) \cup
                   (IF t.pc \in {"ask", "send"} /\ t.at = r THEN {m} ELSE {})
                 = {k \in Message : task'[k].pc \in {"ask", "send"} /\ task'[k].at = r}
    <3>1. readers[r] = {k \in Message : task[k].pc \in {"ask", "send"} /\ task[k].at = r}
      BY DEF LockInvariant
    <3> QED BY <1>2, <3>1
  <2> QED BY <2>1
<1>7. IsTask(task'[m])
  BY <1>5
<1> QED BY <1>2, <1>3, <1>4, <1>5, <1>6 DEF LockInvariant, IsTask

\* The task changes where no lock is concerned.
LEMMA QuietTask ==
  ASSUME LockInvariant, NEW m \in Message, NEW t, IsTask(t), Becomes(m, t),
         UNCHANGED <<up, writer, readers>>, t.pc \in AtRelay => t.at \in up,
         task[m].pc \notin {"ask", "send"}, t.pc \notin {"ask", "send"}
  PROVE  LockInvariant' /\ task'[m] = t /\ \A k \in Message \ {m} : task'[k] = task[k]
<1>1. ASSUME NEW r \in Relay
      PROVE  (readers[r] \ {m}) \cup
               (IF t.pc \in {"ask", "send"} /\ t.at = r THEN {m} ELSE {}) = readers[r]
  <2>1. m \notin readers[r]
    BY DEF LockInvariant
  <2> QED BY <2>1
<1>2. readers = [r \in Relay |-> readers[r]]
  BY DEF LockInvariant
<1>3. readers' = [r \in Relay |-> (readers[r] \ {m}) \cup
                       (IF t.pc \in {"ask", "send"} /\ t.at = r THEN {m} ELSE {})]
  BY <1>1, <1>2
<1> QED BY <1>3, OneTask

\* Nothing is posted.
LEMMA BoardKept ==
  ASSUME BoardInvariant, UNCHANGED <<messages, posted>>,
         \A m \in Message : task'[m].pc = "done" <=> task[m].pc = "done"
  PROVE  BoardInvariant'
<1>1. Done' = Done
  BY DEF Done
<1> QED BY <1>1 DEF BoardInvariant, BoardShowsLatest, shown

\* What a message's task becomes when it is sent to the next relay.
LEMMA ArriveTask ==
  ASSUME LockInvariant, NEW m \in Message, Arrive(m)
  PROVE  \E t : /\ IsTask(t) /\ Becomes(m, t) /\ t.pc \in {"relay_onion", "dropped"}
                /\ t.pc \in AtRelay => t.at \in up
<1>1. CASE task[m].to \in up
  <2> DEFINE t == [Task("relay_onion") EXCEPT !.at = task[m].to, !.onion = task[m].onion]
  <2>1. Becomes(m, t)
    BY <1>1 DEF Arrive
  <2>2. IsTask(t) /\ t.pc = "relay_onion" /\ t.at = task[m].to
    BY DEF Task, IsTask, Places, AtRelay
  <2> QED BY <1>1, <2>1, <2>2
<1>2. CASE task[m].to \notin up
  <2> DEFINE t == Task("dropped")
  <2>1. Becomes(m, t)
    BY <1>2 DEF Arrive, Ends
  <2>2. IsTask(t) /\ t.pc = "dropped"
    BY NewTask DEF Places
  <2> QED BY <2>1, <2>2 DEF AtRelay
<1> QED BY <1>1, <1>2

-----------------------------------------------------------------------------
(* One step per action.                                                    *)

\* The client's steps concern no relay's lock.
LEMMA ClientHandles ==
  ASSUME DeliveryInvariant, NEW m \in Message, ClientStep(m)
  PROVE  DeliveryInvariant'
<1>1. EpochsInvariant /\ LockInvariant /\ BoardInvariant /\ IsTask(task[m])
  BY DEF DeliveryInvariant, LockInvariant
<1>2. UNCHANGED <<epochs, up, writer, client_writer, readers, messages, posted>>
  BY DEF ClientStep, build_and_send, request_relay, ClientPosts, locks
<1>3. \E t : /\ IsTask(t) /\ Becomes(m, t)
             /\ t.pc \notin {"ask", "send", "done"}
             /\ t.pc \in AtRelay => t.at \in up
  <2>1. CASE build_and_send(m)
    <3>1. PICK identities \in Routes :
            Becomes(m, [Task("client_ask") EXCEPT !.onion = wrapped_onion[m][identities][client_epoch]])
      BY <2>1 DEF build_and_send
    <3> DEFINE t == [Task("client_ask") EXCEPT !.onion = wrapped_onion[m][identities][client_epoch]]
    <3>2. IsTask(t) /\ t.pc = "client_ask"
      BY DEF Task, IsTask, Places
    <3> QED BY <3>1, <3>2 DEF AtRelay
  <2>2. CASE request_relay(m)
    <3> DEFINE a == task[m].asked + 1
               relay == get_relay_address(a, task[m].onion.identity)
    <3>1. \/ Becomes(m, [task[m] EXCEPT !.pc = "client_post", !.to = relay])
          \/ Becomes(m, [task[m] EXCEPT !.asked = a]) /\ task[m].pc = "client_ask"
          \/ Ends(m, "dropped")
      BY <2>2 DEF request_relay, At
    <3>2. ASSUME NEW t, t = [task[m] EXCEPT !.pc = "client_post", !.to = relay]
          PROVE  IsTask(t) /\ t.pc = "client_post"
      BY <1>1, <3>2 DEF IsTask, Places
    <3>3. ASSUME NEW t, t = [task[m] EXCEPT !.asked = a], task[m].pc = "client_ask"
          PROVE  IsTask(t) /\ t.pc = "client_ask"
      BY <1>1, <3>3 DEF IsTask, Places
    <3>4. IsTask(Task("dropped")) /\ Task("dropped").pc = "dropped"
      BY NewTask DEF Places
    <3> QED BY <3>1, <3>2, <3>3, <3>4 DEF AtRelay, Ends
  <2>3. CASE ClientPosts(m)
    BY <1>1, <2>3, ArriveTask DEF ClientPosts, AtRelay
  <2> QED BY <2>1, <2>2, <2>3 DEF ClientStep
<1>4. task[m].pc \in {"unsent", "client_ask", "client_post"}
  BY DEF ClientStep, build_and_send, request_relay, ClientPosts, At
<1>5. PICK t : /\ IsTask(t) /\ Becomes(m, t)
               /\ t.pc \notin {"ask", "send", "done"}
               /\ t.pc \in AtRelay => t.at \in up
  BY <1>3
<1>6. LockInvariant' /\ task'[m] = t /\ \A k \in Message \ {m} : task'[k] = task[k]
  BY <1>1, <1>2, <1>4, <1>5, QuietTask
<1>7. BoardInvariant'
  BY <1>1, <1>2, <1>4, <1>5, <1>6, BoardKept
<1>8. EpochsInvariant'
  BY <1>1, <1>2 DEF EpochsInvariant, epochs
<1> QED BY <1>6, <1>7, <1>8 DEF DeliveryInvariant

\* What a relay does with an onion before it sends it on, but for the post.
LEMMA RelayUnwraps ==
  ASSUME DeliveryInvariant, NEW m \in Message, ReadPublicKeys(m) \/ Unwrap(m)
  PROVE  DeliveryInvariant'
<1>1. EpochsInvariant /\ LockInvariant /\ BoardInvariant /\ IsTask(task[m])
  BY DEF DeliveryInvariant, LockInvariant
<1>2. UNCHANGED <<epochs, up, writer, client_writer, readers, messages, posted>>
  BY DEF ReadPublicKeys, Unwrap, locks
<1>3. task[m].pc \in {"relay_onion", "unwrap"} /\ task[m].at \in up
  BY <1>1 DEF ReadPublicKeys, Unwrap, At, LockInvariant, AtRelay
<1>4. \E t : /\ IsTask(t) /\ Becomes(m, t)
             /\ t.pc \notin {"ask", "send", "done"}
             /\ t.pc \in AtRelay => t.at \in up
  <2>1. CASE ReadPublicKeys(m)
    <3> DEFINE t == [task[m] EXCEPT !.pc = "unwrap", !.public_keys = keys_of(live_epoch[task[m].at])]
    <3>1. Becomes(m, t)
      BY <2>1 DEF ReadPublicKeys
    <3>2. IsTask(t) /\ t.pc = "unwrap" /\ t.at = task[m].at
      BY <1>1 DEF IsTask, Places, AtRelay
    <3> QED BY <1>3, <3>1, <3>2
  <2>2. CASE Unwrap(m)
    <3>1. PICK result :
            \/ Ends(m, "dropped")
            \/ Becomes(m, [Task(IF is_final_destination(result.onion) THEN "post" ELSE "sleep")
                             EXCEPT !.at = task[m].at, !.onion = result.onion])
      BY <2>2 DEF Unwrap
    <3> DEFINE place == IF is_final_destination(result.onion) THEN "post" ELSE "sleep"
               t == [Task(place) EXCEPT !.at = task[m].at, !.onion = result.onion]
    <3>2. place \in {"post", "sleep"}
      OBVIOUS
    <3> HIDE DEF place
    <3>3. IsTask(t) /\ t.pc \in {"post", "sleep"} /\ t.at = task[m].at
      BY <3>2 DEF Task, IsTask, Places, AtRelay
    <3>4. IsTask(Task("dropped")) /\ Task("dropped").pc = "dropped"
      BY NewTask DEF Places
    <3>5. Becomes(m, Task("dropped")) \/ Becomes(m, t)
      BY <3>1 DEF Ends, place
    <3> HIDE DEF t
    <3> QED BY <1>3, <3>3, <3>4, <3>5 DEF AtRelay
  <2> QED BY <2>1, <2>2
<1>5. PICK t : /\ IsTask(t) /\ Becomes(m, t)
               /\ t.pc \notin {"ask", "send", "done"}
               /\ t.pc \in AtRelay => t.at \in up
  BY <1>4
<1>6. LockInvariant' /\ task'[m] = t /\ \A k \in Message \ {m} : task'[k] = task[k]
  BY <1>1, <1>2, <1>3, <1>5, QuietTask
<1>7. BoardInvariant'
  BY <1>1, <1>2, <1>3, <1>5, <1>6, BoardKept
<1>8. EpochsInvariant'
  BY <1>1, <1>2 DEF EpochsInvariant, epochs
<1> QED BY <1>6, <1>7, <1>8 DEF DeliveryInvariant

\* What is left of a sequence without its head.
LEMMA TailOf ==
  ASSUME NEW S, NEW s \in Seq(S), NEW n \in Nat, Len(s) = n + 1
  PROVE  /\ Tail(s) \in Seq(S) /\ Len(Tail(s)) = n
         /\ \A i \in 1..n : Tail(s)[i] = s[i + 1]
<1>1. s # <<>>
  OBVIOUS
<1> QED BY <1>1

\* A message that is posted is the next one on the board, and the oldest one
\* goes if it is too many.
LEMMA BoardGrows ==
  ASSUME BoardInvariant, NEW message, handle_post_message(message),
         posted' = Append(posted, message)
  PROVE  /\ \E S : messages' \in Seq(S)
         /\ \E S : posted' \in Seq(S)
         /\ Len(posted') = Len(posted) + 1
         /\ BoardShowsLatest'
<1>1. PICK A : messages \in Seq(A)
  BY DEF BoardInvariant
<1>2. PICK B : posted \in Seq(B)
  BY DEF BoardInvariant
<1> DEFINE x == shown(message)
           all == Append(messages, x)
           n == Len(messages)
           p == Len(posted)
<1>3. messages \in Seq(A \cup {x}) /\ posted \in Seq(B \cup {message}) /\ n \in Nat /\ p \in Nat
  BY <1>1, <1>2
<1>4. all \in Seq(A \cup {x}) /\ posted' \in Seq(B \cup {message})
      /\ Len(all) = n + 1 /\ Len(posted') = p + 1
  BY <1>3
<1>5. /\ \A i \in 1..n : all[i] = messages[i]
      /\ all[n + 1] = x
      /\ \A i \in 1..p : posted'[i] = posted[i]
      /\ posted'[p + 1] = message
  BY <1>3
<1>6. /\ n = IF p < BOARD_SIZE THEN p ELSE BOARD_SIZE
      /\ \A i \in 1..n : messages[i] = shown(posted[i + p - n])
  BY <1>3 DEF BoardInvariant, BoardShowsLatest
<1>7. messages' = IF Len(all) > BOARD_SIZE THEN Tail(all) ELSE all
  BY DEF handle_post_message, shown
<1>8. shown(posted'[p + 1]) = x
  BY <1>5
<1>9. \A i \in 1..n : shown(posted'[i + p - n]) = messages[i]
  <2>1. n <= p
    BY <1>3, <1>6, DeliveryAssumption
  <2>2. \A i \in 1..n : i + p - n \in 1..p
    BY <1>3, <2>1
  <2> QED BY <1>5, <1>6, <2>2
<1> HIDE DEF x, all, n, p
<1>10. \A i \in 1..n + 1 : all[i] = shown(posted'[i + p - n])
  <2> SUFFICES ASSUME NEW i \in 1..n + 1 PROVE all[i] = shown(posted'[i + p - n])
    OBVIOUS
  <2>1. CASE i = n + 1
    <3>1. i + p - n = p + 1
      BY <1>3, <2>1
    <3> QED BY <1>5, <1>8, <2>1, <3>1
  <2>2. CASE i \in 1..n
    BY <1>5, <1>9, <2>2
  <2>3. n \in Nat
    BY <1>3
  <2>4. i = n + 1 \/ i \in 1..n
    BY <2>3
  <2> QED BY <2>1, <2>2, <2>4
<1>11. CASE n + 1 > BOARD_SIZE
  <2>1. n = BOARD_SIZE /\ ~(p + 1 < BOARD_SIZE)
    BY <1>3, <1>6, <1>11, DeliveryAssumption
  <2>2. messages' = Tail(all)
    BY <1>4, <1>7, <1>11
  <2>3. /\ messages' \in Seq(A \cup {x}) /\ Len(messages') = n
        /\ \A i \in 1..n : messages'[i] = all[i + 1]
    <3>1. n \in Nat /\ all \in Seq(A \cup {x}) /\ Len(all) = n + 1
      BY <1>3, <1>4
    <3> QED BY <2>2, <3>1, TailOf
  <2>4. ASSUME NEW i \in 1..n
        PROVE  messages'[i] = shown(posted'[i + Len(posted') - Len(messages')])
    <3>1. i + 1 \in 1..n + 1 /\ (i + 1) + p - n = i + (p + 1) - n
      BY <1>3
    <3> QED BY <1>4, <1>10, <2>3, <3>1
  <2>5. DOMAIN messages' = 1..n
    BY <2>3
  <2>6. BoardShowsLatest'
    BY <1>4, <2>1, <2>3, <2>4, <2>5 DEF BoardShowsLatest, shown
  <2> QED BY <1>4, <2>3, <2>6 DEF p
<1>12. CASE ~(n + 1 > BOARD_SIZE)
  <2>1. messages' = all
    BY <1>4, <1>7, <1>12
  <2>2. n = p /\ (p + 1 < BOARD_SIZE \/ p + 1 = BOARD_SIZE)
    BY <1>3, <1>6, <1>12, DeliveryAssumption
  <2>3. ASSUME NEW i \in 1..n + 1
        PROVE  messages'[i] = shown(posted'[i + Len(posted') - Len(messages')])
    <3>1. i + (p + 1) - (n + 1) = i + p - n
      BY <1>3
    <3> QED BY <1>4, <1>10, <2>1, <3>1
  <2>4. DOMAIN messages' = 1..n + 1
    BY <1>3, <1>4, <2>1
  <2>5. BoardShowsLatest'
    BY <1>3, <1>4, <2>1, <2>2, <2>3, <2>4 DEF BoardShowsLatest, shown
  <2> QED BY <1>4, <2>1, <2>5 DEF p
<1> QED BY <1>3, <1>11, <1>12

\* The last relay posts the message, and is done with it.
LEMMA RelayPosts ==
  ASSUME DeliveryInvariant, NEW m \in Message, PostToBoard(m)
  PROVE  DeliveryInvariant'
<1>1. EpochsInvariant /\ LockInvariant /\ BoardInvariant
  BY DEF DeliveryInvariant
<1>2. UNCHANGED <<epochs, up, writer, client_writer, readers>> /\ task[m].pc = "post"
      /\ Becomes(m, Task("done"))
  BY DEF PostToBoard, At, Ends, locks
<1>3. IsTask(Task("done")) /\ Task("done").pc = "done"
  BY NewTask DEF Places
<1>4. LockInvariant' /\ task'[m].pc = "done" /\ \A k \in Message \ {m} : task'[k] = task[k]
  BY <1>1, <1>2, <1>3, QuietTask DEF AtRelay
<1>5. Done' = Done \cup {m} /\ m \notin Done
  BY <1>2, <1>4 DEF Done
<1>6. IsFiniteSet(Done)
  <2>1. IsFiniteSet(Message)
    BY DeliveryAssumption, FS_Interval DEF Message
  <2> QED BY <2>1, FS_Subset DEF Done
<1>7. Cardinality(Done') = Cardinality(Done) + 1
  BY <1>5, <1>6, FS_AddElement
<1>8. \E message : handle_post_message(message) /\ posted' = Append(posted, message)
  BY DEF PostToBoard
<1>9. BoardInvariant'
  BY <1>1, <1>7, <1>8, BoardGrows DEF BoardInvariant
<1>10. EpochsInvariant'
  BY <1>1, <1>2 DEF EpochsInvariant, epochs
<1> QED BY <1>4, <1>9, <1>10 DEF DeliveryInvariant

\* A relay takes its lock to send an onion on, and releases it when it has or
\* when it gives up.
LEMMA RelaySends ==
  ASSUME DeliveryInvariant, NEW m \in Message, LockKeys(m) \/ Ask(m) \/ Send(m)
  PROVE  DeliveryInvariant'
<1>1. EpochsInvariant /\ LockInvariant /\ BoardInvariant /\ IsTask(task[m])
  BY DEF DeliveryInvariant, LockInvariant
<1>2. UNCHANGED <<epochs, up, writer, client_writer, messages, posted>>
  BY DEF LockKeys, Ask, Send
<1>3. task[m].pc \in {"sleep", "ask", "send"} /\ task[m].at \in up /\ task[m].at \in Relay
  BY <1>1 DEF LockKeys, Ask, Send, At, LockInvariant, AtRelay
<1> DEFINE Held(t) == [r \in Relay |-> (readers[r] \ {m}) \cup
                         (IF t.pc \in {"ask", "send"} /\ t.at = r THEN {m} ELSE {})]
<1>4. /\ readers = [r \in Relay |-> readers[r]]
      /\ \A r \in Relay : m \in readers[r] <=> task[m].pc \in {"ask", "send"} /\ task[m].at = r
  BY DEF DeliveryInvariant, LockInvariant
<1>5. ASSUME Release(m)
      PROVE  readers' = [r \in Relay |-> readers[r] \ {m}]
  <2>1. readers' = [readers EXCEPT ![task[m].at] = @ \ {m}]
    BY <1>5 DEF Release
  <2>2. \A r \in Relay : r # task[m].at => readers[r] \ {m} = readers[r]
    BY <1>4
  <2> QED BY <1>3, <1>4, <2>1, <2>2
<1> DEFINE Successor(t) ==
             /\ IsTask(t) /\ Becomes(m, t) /\ readers' = Held(t)
             /\ t.pc # "done"
             /\ t.pc \in AtRelay => t.at \in up
<1>6. \E t : Successor(t)
  <2>1. CASE LockKeys(m)
    <3> DEFINE t == [task[m] EXCEPT !.pc = "ask"]
    <3>1. Becomes(m, t) /\ readers' = [readers EXCEPT ![task[m].at] = @ \cup {m}]
      BY <2>1 DEF LockKeys
    <3>2. IsTask(t) /\ t.pc = "ask" /\ t.at = task[m].at
      BY <1>1 DEF IsTask, Places, AtRelay
    <3> HIDE DEF t
    <3>3. \A r \in Relay : m \notin readers[r]
      BY <1>4, <2>1 DEF LockKeys, At
    <3>4. \A r \in Relay :
            (readers[r] \ {m}) \cup (IF t.pc \in {"ask", "send"} /\ t.at = r THEN {m} ELSE {})
              = IF r = task[m].at THEN readers[r] \cup {m} ELSE readers[r]
      BY <3>2, <3>3
    <3>5. readers' = [r \in Relay |-> IF r = task[m].at THEN readers[r] \cup {m} ELSE readers[r]]
      BY <1>3, <1>4, <3>1
    <3>6. readers' = Held(t)
      BY <3>4, <3>5
    <3> QED BY <1>3, <3>1, <3>2, <3>6
  <2>2. ASSUME Ends(m, "dropped"), Release(m)
        PROVE  \E t : Successor(t)
    <3> DEFINE t == Task("dropped")
    <3>1. IsTask(t) /\ t.pc = "dropped" /\ Becomes(m, t)
      BY <2>2, NewTask DEF Places, Ends
    <3> HIDE DEF t
    <3>2. readers' = Held(t)
      BY <1>5, <2>2, <3>1
    <3> QED BY <3>1, <3>2 DEF AtRelay
  <2>3. CASE Ask(m)
    <3> DEFINE relay == get_relay_address(1, task[m].onion.identity)
    <3>1. CASE relay = NoRelay
      BY <2>2, <2>3, <3>1 DEF Ask
    <3>2. CASE relay # NoRelay
      <4> DEFINE t == [task[m] EXCEPT !.pc = "send", !.to = relay]
      <4>1. Becomes(m, t) /\ readers' = readers
        BY <2>3, <3>2 DEF Ask
      <4>2. IsTask(t) /\ t.pc = "send" /\ t.at = task[m].at
        BY <1>1 DEF IsTask, Places, AtRelay
      <4> HIDE DEF t
      <4>3. task[m].pc = "ask"
        BY <2>3 DEF Ask, At
      <4>4. \A r \in Relay : (readers[r] \ {m}) \cup
              (IF t.pc \in {"ask", "send"} /\ t.at = r THEN {m} ELSE {}) = readers[r]
        BY <1>4, <4>2, <4>3
      <4>5. readers' = Held(t)
        BY <1>4, <4>1, <4>4
      <4> QED BY <1>3, <4>1, <4>2, <4>5
    <3> QED BY <3>1, <3>2
  <2>4. CASE Send(m)
    <3>1. PICK t : /\ IsTask(t) /\ Becomes(m, t) /\ t.pc \in {"relay_onion", "dropped"}
                   /\ t.pc \in AtRelay => t.at \in up
      BY <1>1, <2>4, ArriveTask DEF Send
    <3>2. readers' = Held(t)
      BY <1>5, <2>4, <3>1 DEF Send
    <3> QED BY <3>1, <3>2
  <2> QED BY <2>1, <2>3, <2>4
<1>7. PICK t : Successor(t)
  BY <1>6
<1>8. LockInvariant' /\ task'[m] = t /\ \A k \in Message \ {m} : task'[k] = task[k]
  <2>1. UNCHANGED <<up, writer>>
    BY <1>2
  <2> QED BY <1>1, <1>7, <2>1, OneTask
<1>9. BoardInvariant'
  BY <1>1, <1>2, <1>3, <1>7, <1>8, BoardKept
<1>10. EpochsInvariant'
  BY <1>1, <1>2 DEF EpochsInvariant, epochs
<1> QED BY <1>8, <1>9, <1>10 DEF DeliveryInvariant

\* Switchovers leave the tasks and the board alone.
LEMMA Switches ==
  ASSUME DeliveryInvariant,
         \/ \E a \in Authorities : AuthoritySwitches(a)
         \/ \E r \in Relay : RelayWaits(r) \/ RelaySwitches(r)
         \/ ClientWaits \/ ClientSwitches
  PROVE  DeliveryInvariant'
<1>1. EpochsInvariant /\ LockInvariant /\ BoardInvariant
  BY DEF DeliveryInvariant
<1>2. UNCHANGED <<up, readers, task, messages, posted>>
  BY DEF AuthoritySwitches, RelayWaits, RelaySwitches, ClientWaits, ClientSwitches,
         locks, handling
<1>3. writer' \subseteq up
  BY <1>1 DEF AuthoritySwitches, RelayWaits, RelaySwitches, ClientWaits, ClientSwitches,
              locks, LockInvariant
<1>4. LockInvariant'
  BY <1>1, <1>2, <1>3 DEF LockInvariant, IsTask
<1>5. BoardInvariant'
  BY <1>1, <1>2, BoardKept
<1>6. EpochsInvariant'
  <2>1. ASSUME NEW a \in Authorities, AuthoritySwitches(a)
        PROVE  EpochsInvariant'
    <3>1. authority_epoch[a] + 1 \in Epochs
      BY <1>1, <2>1, DeliveryAssumption DEF AuthoritySwitches, EpochsInvariant, Epochs
    <3>2. authority_epoch' = [authority_epoch EXCEPT ![a] = authority_epoch[a] + 1]
      BY <2>1 DEF AuthoritySwitches
    <3>3. authority_epoch' \in [Authorities -> Epochs]
      BY <1>1, <3>1, <3>2 DEF EpochsInvariant
    <3> QED BY <1>1, <2>1, <3>3 DEF AuthoritySwitches, EpochsInvariant, locks
  <2>2. ASSUME NEW r \in Relay, RelayWaits(r)
        PROVE  EpochsInvariant'
    BY <1>1, <2>2 DEF RelayWaits, EpochsInvariant, epochs
  <2>3. ASSUME NEW r \in Relay, RelaySwitches(r)
        PROVE  EpochsInvariant'
    <3>1. live_epoch[r] + 1 \in Epochs
      BY <1>1, <2>3, DeliveryAssumption DEF RelaySwitches, EpochsInvariant, Epochs
    <3>2. live_epoch' = [live_epoch EXCEPT ![r] = live_epoch[r] + 1] /\ writer' = writer \ {r}
      BY <2>3 DEF RelaySwitches
    <3>3. live_epoch' \in [Relay -> Epochs]
      BY <1>1, <3>1, <3>2 DEF EpochsInvariant
    <3>4. writer \subseteq Relay
      BY <1>1 DEF LockInvariant
    <3>5. \A k \in writer' : live_epoch'[k] < MAX_EPOCH
      BY <1>1, <3>2, <3>4 DEF EpochsInvariant
    <3> QED BY <1>1, <2>3, <3>3, <3>5 DEF RelaySwitches, EpochsInvariant
  <2>4. CASE ClientWaits
    BY <1>1, <2>4 DEF ClientWaits, EpochsInvariant, epochs
  <2>5. CASE ClientSwitches
    BY <1>1, <2>5, DeliveryAssumption DEF ClientSwitches, EpochsInvariant, Epochs
  <2> QED BY <2>1, <2>2, <2>3, <2>4, <2>5
<1> QED BY <1>4, <1>5, <1>6 DEF DeliveryInvariant

\* A crash loses the onions that the relay handles, the locks they hold and its
\* epoch task.
LEMMA Crashes ==
  ASSUME DeliveryInvariant, NEW r \in Relay, Crash(r)
  PROVE  DeliveryInvariant'
<1>1. EpochsInvariant /\ LockInvariant /\ BoardInvariant
  BY DEF DeliveryInvariant
<1>2. /\ UNCHANGED <<epochs, client_writer, messages, posted>>
      /\ up' = up \ {r} /\ writer' = writer \ {r}
      /\ readers' = [readers EXCEPT ![r] = {}]
      /\ task' = [m \in Message |-> IF task[m].pc \in AtRelay /\ task[m].at = r
                                      THEN Task("dropped") ELSE task[m]]
  BY DEF Crash
<1>3. IsTask(Task("dropped")) /\ Task("dropped").pc = "dropped"
  BY NewTask DEF Places
<1>4. \A m \in Message : \/ task'[m] = task[m] /\ ~(task[m].pc \in AtRelay /\ task[m].at = r)
                         \/ task'[m] = Task("dropped") /\ task[m].pc \in AtRelay /\ task[m].at = r
  BY <1>2
<1>5. \A m \in Message :
        IsTask(task'[m]) /\ (task'[m].pc \in AtRelay => task'[m].at \in up')
  BY <1>1, <1>2, <1>3, <1>4 DEF LockInvariant, AtRelay
<1>6. readers' = [k \in Relay |->
                    {m \in Message : task'[m].pc \in {"ask", "send"} /\ task'[m].at = k}]
  <2>1. readers' = [k \in Relay |-> IF k = r THEN {} ELSE readers[k]]
    BY <1>1, <1>2 DEF LockInvariant
  <2>2. ASSUME NEW k \in Relay
        PROVE  (IF k = r THEN {} ELSE readers[k])
                 = {m \in Message : task'[m].pc \in {"ask", "send"} /\ task'[m].at = k}
    <3>1. readers[k] = {m \in Message : task[m].pc \in {"ask", "send"} /\ task[m].at = k}
      BY <1>1 DEF LockInvariant
    <3> QED BY <1>3, <1>4, <3>1 DEF AtRelay
  <2> QED BY <2>1, <2>2
<1>7. task' = [m \in Message |-> task'[m]] /\ up' \subseteq Relay /\ writer' \subseteq up'
  BY <1>1, <1>2 DEF LockInvariant
<1>8. LockInvariant'
  BY <1>5, <1>6, <1>7 DEF LockInvariant, IsTask
<1>9. BoardInvariant'
  BY <1>1, <1>2, <1>3, <1>4, BoardKept DEF AtRelay
<1>10. EpochsInvariant'
  BY <1>1, <1>2 DEF EpochsInvariant, epochs
<1> QED BY <1>8, <1>9, <1>10 DEF DeliveryInvariant

-----------------------------------------------------------------------------
\* The client and the relays start with nothing to handle.
LEMMA DeliveryInit == Init => DeliveryInvariant
<1> SUFFICES ASSUME Init PROVE DeliveryInvariant
  OBVIOUS
<1>1. IsTask(Task("unsent")) /\ Task("unsent").pc = "unsent"
  BY NewTask DEF Places
<1>2. /\ task = [m \in Message |-> Task("unsent")] /\ up = Relay /\ writer = {}
      /\ readers = [r \in Relay |-> {}] /\ messages = <<>> /\ posted = <<>>
      /\ ~client_writer
  BY DEF Init
<1>3. LockInvariant
  <2>1. \A m \in Message : task[m] = Task("unsent")
    BY <1>2
  <2>2. \A r \in Relay :
          {m \in Message : task[m].pc \in {"ask", "send"} /\ task[m].at = r} = {}
    BY <1>1, <2>1
  <2> QED BY <1>1, <1>2, <2>1, <2>2 DEF LockInvariant, AtRelay
<1>4. BoardInvariant
  <2>1. Done = {}
    BY <1>1, <1>2 DEF Done
  <2>2. Cardinality(Done) = 0
    BY <2>1, FS_EmptySet
  <2>3. messages \in Seq({}) /\ posted \in Seq({}) /\ Len(messages) = 0 /\ Len(posted) = 0
    BY <1>2
  <2> QED BY <1>2, <2>2, <2>3, DeliveryAssumption DEF BoardInvariant, BoardShowsLatest
<1>5. EpochsInvariant
  BY <1>2, DeliveryAssumption DEF Init, EpochsInvariant, Epochs
<1> QED BY <1>3, <1>4, <1>5 DEF DeliveryInvariant

\* Every action of Delivery keeps the invariant, and so does a stutter.
LEMMA DeliveryStep == DeliveryInvariant /\ [Next]_vars => DeliveryInvariant'
<1> SUFFICES ASSUME DeliveryInvariant, [Next]_vars PROVE DeliveryInvariant'
  OBVIOUS
<1>1. CASE \E m \in Message : Handle(m)
  BY <1>1, ClientHandles, RelayUnwraps, RelayPosts, RelaySends DEF Handle, RelayStep
<1>2. CASE \E r \in Relay : Crash(r)
  BY <1>2, Crashes
<1>3. CASE \/ \E a \in Authorities : AuthoritySwitches(a)
           \/ \E r \in Relay : RelayWaits(r) \/ RelaySwitches(r)
           \/ ClientWaits \/ ClientSwitches
  BY <1>3, Switches
<1>4. CASE UNCHANGED vars
  BY <1>4, BoardKept
     DEF vars, epochs, locks, DeliveryInvariant, EpochsInvariant, LockInvariant, IsTask
<1> QED BY <1>1, <1>2, <1>3, <1>4 DEF Next

\* The invariant holds in every run of the parties, whatever is sent, switched
\* and lost.
THEOREM DeliveryInductive == Spec => []DeliveryInvariant
BY DeliveryInit, DeliveryStep, PTL DEF Spec

\* A relay's keys are locked for just those onions that it is sending on, none
\* of them is at a relay that has crashed, and only relays that run wait for a
\* switchover: a lock is neither forgotten nor released twice.  The board never
\* keeps more than it may.
THEOREM DeliveryTypeOK == Spec => []TypeOK
<1>1. DeliveryInvariant => TypeOK
  <2> SUFFICES ASSUME DeliveryInvariant PROVE TypeOK
    OBVIOUS
  <2>1. Len(posted) <= MAX_MESSAGES
    <3>1. IsFiniteSet(Message) /\ Cardinality(Message) = MAX_MESSAGES
      BY DeliveryAssumption, FS_Interval DEF Message
    <3>2. Cardinality(Done) <= MAX_MESSAGES
      BY <3>1, FS_Subset DEF Done
    <3> QED BY <3>2 DEF DeliveryInvariant, BoardInvariant
  <2>2. Len(messages) <= BOARD_SIZE
    <3>1. Len(posted) \in Nat
      BY DEF DeliveryInvariant, BoardInvariant
    <3> QED BY <3>1, DeliveryAssumption DEF DeliveryInvariant, BoardInvariant, BoardShowsLatest
  <2>3. \A r \in Relay : readers[r] = {m \in Message : task[m].pc \in {"ask", "send"} /\ task[m].at = r}
    BY DEF DeliveryInvariant, LockInvariant
  <2> QED BY <2>1, <2>2, <2>3
          DEF DeliveryInvariant, EpochsInvariant, LockInvariant, TypeOK
<1> QED BY <1>1, DeliveryInductive, PTL

\* The board shows what was posted last, in the order of posting, with what is
\* not allowed redacted: whatever the number of onions that arrive together.
THEOREM DeliveryBoardShowsLatest == Spec => []BoardShowsLatest
<1>1. DeliveryInvariant => BoardShowsLatest
  BY DEF DeliveryInvariant, BoardInvariant
<1> QED BY <1>1, DeliveryInductive, PTL

-----------------------------------------------------------------------------
(* The keys and the onions of a route.                                     *)

KeysIter(g, s, r, epoch, identity) ==
  IF s = {} THEN <<>>
  ELSE IF Owner(Max(s), epoch, identity) = r
         THEN Append(g[s \ {Max(s)}], [params |-> params(Max(s), epoch), identity |-> identity])
         ELSE g[s \ {Max(s)}]

\* The private keys of a relay for an identity and an epoch: of those
\* authorities that gave it to the relay.
Held(r, epoch, identity) ==
  {[params |-> params(a, epoch), identity |-> identity] :
     a \in {b \in Authorities : Owner(b, epoch, identity) = r}}

\* A relay collects no other private keys than those.
LEMMA KeysHeld ==
  ASSUME NEW r \in Relay, NEW identity
  PROVE  private_keys(r, identity) \in Seq(Held(r, live_epoch[r], identity))
<1> DEFINE n == NumAuthorities
           epoch == live_epoch[r]
           K == Held(r, epoch, identity)
           It(g, s) == KeysIter(g, s, r, epoch, identity)
           Ok(k, g) == \A s \in SUBSET (1..k) : g[s] = It(g, s)
           T == {k \in 0..n : ~ \E g : Ok(k, g)}
<1>0. n \in Nat
  BY DeliveryAssumption
<1>1. private_keys(r, identity)
        = LET I == [a \in 1..n |-> a]
              e == CHOOSE e : e = [s \in SUBSET (1..n) |->
                     IF s = {} THEN <<>>
                     ELSE IF Owner(I[Max(s)], epoch, identity) = r
                            THEN Append(e[s \ {Max(s)}],
                                        [params |-> params(I[Max(s)], epoch), identity |-> identity])
                            ELSE e[s \ {Max(s)}]]
          IN  e[1..n]
  BY DEF private_keys, FoldLeft, MapThenFoldSet, Authorities
<1> HIDE DEF n, epoch, K
<1>2. T = {}
  <2> SUFFICES ASSUME T # {} PROVE FALSE
    OBVIOUS
  <2>0. T \subseteq Nat
    OBVIOUS
  <2>1. PICK k \in T : \A j \in T : k <= j
    <3> HIDE DEF T
    <3> QED BY <2>0, Least
  <2>2. k # 0
    <3>1. 1..0 = {}
      OBVIOUS
    <3>2. Ok(0, [s \in {{}} |-> <<>>])
      BY <3>1 DEF KeysIter
    <3> QED BY <3>2
  <2>3. k \in 1..n /\ k - 1 \in 0..n /\ ~(k <= k - 1)
    BY <1>0, <2>2
  <2>4. PICK g : Ok(k - 1, g)
    <3>1. k - 1 \notin T
      <4> HIDE DEF T
      <4> QED BY <2>1, <2>3
    <3> QED BY <2>3, <3>1
  <2> DEFINE f == [s \in SUBSET (1..n) |-> It(g, s)]
  <2>5. ASSUME NEW s \in SUBSET (1..k), s # {}
        PROVE  f[s] = It(f, s)
    <3>1. s \in SUBSET (1..n)
      BY <1>0, <2>3
    <3>2. Max(s) \in s /\ \A x \in s : x <= Max(s)
      BY <1>0, <2>5, <3>1, MaxIn
    <3>3. ASSUME NEW x \in s, x # Max(s)
          PROVE  x \in 1..k - 1 /\ x \in 1..n
      <4>1. x \in 1..k /\ Max(s) \in 1..k /\ x <= Max(s) /\ k \in 1..n
        BY <2>3, <3>2
      <4> QED BY <1>0, <3>3, <4>1
    <3>4. f[s \ {Max(s)}] = g[s \ {Max(s)}]
      BY <2>4, <3>3
    <3> QED BY <2>5, <3>1, <3>4 DEF KeysIter
  <2>6. f[{}] = It(f, {})
    BY DEF KeysIter
  <2>7. Ok(k, f)
    <3> HIDE DEF f, It
    <3> QED BY <2>5, <2>6
  <2> QED BY <2>3, <2>7
<1>3. PICK g : Ok(n, g)
  <2>1. n \in 0..n
    BY <1>0
  <2> QED BY <1>2, <2>1
<1> DEFINE f == [s \in SUBSET (1..n) |-> g[s]]
           e == CHOOSE e : e = [s \in SUBSET (1..n) |-> It(e, s)]
<1>4. f = [s \in SUBSET (1..n) |-> It(f, s)]
  <2>1. ASSUME NEW s \in SUBSET (1..n)
        PROVE  f[s] = It(f, s)
    <3>1. s \ {Max(s)} \in SUBSET (1..n)
      OBVIOUS
    <3> QED BY <1>3, <3>1 DEF KeysIter
  <2> QED BY <2>1
<1>5. e = [s \in SUBSET (1..n) |-> It(e, s)]
  <2> HIDE DEF f, It
  <2> QED BY <1>4
<1> HIDE DEF e
<1>6. ASSUME NEW i \in 1..n
      PROVE  e[1..i] = IF Owner(i, epoch, identity) = r
                         THEN Append(e[1..(i - 1)], [params |-> params(i, epoch), identity |-> identity])
                         ELSE e[1..(i - 1)]
  <2>1. 1..i \in SUBSET (1..n) /\ i \in 1..i
    BY <1>0
  <2>2. Max(1..i) = i
    <3>1. Max(1..i) \in 1..i /\ i <= Max(1..i)
      BY <1>0, <2>1, MaxIn
    <3> QED BY <3>1
  <2>3. (1..i) \ {i} = 1..(i - 1)
    OBVIOUS
  <2>4. e[1..i] = It(e, 1..i)
    BY <1>5, <2>1
  <2> QED BY <2>1, <2>2, <2>3, <2>4 DEF KeysIter
<1> DEFINE P(i) == e[1..i] \in Seq(K)
           U == {i \in 0..n : ~P(i)}
<1>7. U = {}
  <2> SUFFICES ASSUME U # {} PROVE FALSE
    OBVIOUS
  <2>0. U \subseteq Nat
    OBVIOUS
  <2>1. PICK k \in U : \A j \in U : k <= j
    <3> HIDE DEF U
    <3> QED BY <2>0, Least
  <2>2. P(0)
    <3>1. 1..0 = {} /\ {} \in SUBSET (1..n) /\ <<>> \in Seq(K)
      OBVIOUS
    <3> QED BY <1>5, <3>1 DEF KeysIter
  <2>3. k \in 1..n /\ k - 1 \in 0..n /\ ~(k <= k - 1)
    BY <1>0, <2>2
  <2>4. P(k - 1)
    <3>1. k - 1 \notin U
      <4> HIDE DEF U
      <4> QED BY <2>1, <2>3
    <3> QED BY <2>3, <3>1
  <2>5. P(k)
    <3>1. CASE Owner(k, epoch, identity) = r
      <4>1. k \in Authorities
        BY <2>3 DEF Authorities, n
      <4>2. [params |-> params(k, epoch), identity |-> identity] \in K
        BY <3>1, <4>1 DEF Held, K
      <4> DEFINE key == [params |-> params(k, epoch), identity |-> identity]
                 previous == e[1..(k - 1)]
      <4>3. e[1..k] = Append(previous, key) /\ previous \in Seq(K) /\ key \in K
        BY <1>6, <2>3, <2>4, <3>1, <4>2
      <4> HIDE DEF previous, key
      <4> QED BY <4>3
    <3>2. CASE Owner(k, epoch, identity) # r
      BY <1>6, <2>3, <2>4, <3>2
    <3> QED BY <3>1, <3>2
  <2> QED BY <2>5
<1>8. e[1..n] \in Seq(K)
  BY <1>0, <1>7
<1>9. private_keys(r, identity) = e[1..n]
  <2> DEFINE I == [a \in 1..n |-> a]
             Ot(d, s) == IF s = {} THEN <<>>
                         ELSE IF Owner(I[Max(s)], epoch, identity) = r
                                THEN Append(d[s \ {Max(s)}],
                                            [params |-> params(I[Max(s)], epoch), identity |-> identity])
                                ELSE d[s \ {Max(s)}]
  <2>1. ASSUME NEW d, NEW s \in SUBSET (1..n) PROVE Ot(d, s) = It(d, s)
    <3>1. CASE s = {}
      BY <3>1 DEF KeysIter
    <3>2. CASE s # {}
      <4>1. Max(s) \in 1..n
        BY <1>0, <3>2, MaxIn
      <4>2. I[Max(s)] = Max(s)
        BY <4>1
      <4> QED BY <3>2, <4>2 DEF KeysIter
    <3> QED BY <3>1, <3>2
  <2>2. \A d : [s \in SUBSET (1..n) |-> Ot(d, s)] = [s \in SUBSET (1..n) |-> It(d, s)]
    <3> HIDE DEF Ot, It
    <3> QED BY <2>1
  <2>3. e = CHOOSE d : d = [s \in SUBSET (1..n) |-> Ot(d, s)]
    <3>1. e = CHOOSE d : d = [s \in SUBSET (1..n) |-> It(d, s)]
      BY DEF e
    <3> HIDE DEF Ot, It
    <3> QED BY <2>2, <3>1
  <2> QED BY <1>1, <2>3
<1> QED BY <1>8, <1>9 DEF K, epoch

\* A relay recovers the nonce of a hop only if every authority has given it the
\* hop's identity, in the epoch of the keys that the onion was wrapped with.
LEMMA OnlyOwnersOpen ==
  ASSUME NEW r \in Relay, NEW identity, NEW epoch, NEW nonce, NEW onion,
         onion.shares = shares_of(nonce, identity, keys_of(epoch)),
         NEW public_keys, NEW strict
  PROVE  \/ recovered(onion, public_keys, private_keys(r, identity), strict) = GARBAGE
         \/ /\ recovered(onion, public_keys, private_keys(r, identity), strict) = nonce
            /\ \A a \in Authorities : Owner(a, epoch, identity) = r
<1> DEFINE mine == private_keys(r, identity)
           K == Held(r, live_epoch[r], identity)
           keys == keys_of(epoch)
<1>1. NumAuthorities \in Nat \ {0}
  BY DeliveryAssumption
<1>2. IsString(keys, NumAuthorities) /\ \A i \in 1..NumAuthorities : keys[i] = params(i, epoch)
  BY DEF IsString, keys_of, Authorities
<1>3. mine \in Seq(K)
  BY KeysHeld
<1> HIDE DEF mine, keys, K
<1>4. \/ recovered(onion, public_keys, mine, strict) = GARBAGE
      \/ /\ recovered(onion, public_keys, mine, strict) = nonce
         /\ Len(mine) = NumAuthorities
         /\ \A i \in 1..NumAuthorities : mine[i].params = keys[i]
  <2>1. onion.shares = shares_of(nonce, identity, keys)
    BY DEF keys
  <2> QED BY <1>1, <1>2, <1>3, <2>1, RecoveredOnly
<1>5. ASSUME Len(mine) = NumAuthorities,
             \A i \in 1..NumAuthorities : mine[i].params = keys[i],
             NEW a \in Authorities
      PROVE  Owner(a, epoch, identity) = r
  <2>1. a \in 1..NumAuthorities
    BY DEF Authorities
  <2>2. mine[a] \in K /\ mine[a].params = params(a, epoch)
    BY <1>1, <1>2, <1>3, <1>5, <2>1
  <2>3. PICK b \in Authorities : /\ Owner(b, live_epoch[r], identity) = r
                                 /\ mine[a].params = params(b, live_epoch[r])
    BY <2>2 DEF K, Held
  <2>4. a = b /\ epoch = live_epoch[r]
    BY <2>2, <2>3 DEF params
  <2> QED BY <2>3, <2>4
<1> QED BY <1>4, <1>5 DEF mine

\* The onions on the way of a message: the one it is sent in, and what each hop
\* is left with.
layers(m, identities, epoch) ==
  CHOOSE h : AreHops(h, [i \in DOMAIN identities |-> <<m, i>>], identities,
                     [i \in DOMAIN identities |-> i], keys_of(epoch), m)

\* An onion for each place on a route: a hop finds its identity and number
\* there, opens it with its own nonce only, and leaves the next one.
AreOnions(h, m, identities, epoch) ==
  /\ Len(identities) \in Nat \ {0}
  /\ \A i \in 1..Len(identities) :
       /\ h[i].identity = identities[i]
       /\ h[i].shares = shares_of(<<m, i>>, identities[i], keys_of(epoch))
       /\ unwrap(h[i], <<m, i>>) = [ok |-> TRUE, delay |-> i, onion |-> h[i + 1]]
       /\ \A other : other # <<m, i>> => unwrap(h[i], other) = refused
  /\ \A i \in 1..(Len(identities) + 1) :
       is_final_destination(h[i]) <=> i = Len(identities) + 1
  /\ h[Len(identities) + 1].payload = <<cell(<<"data", m>>)>>

\* Every message, route and epoch has such onions, and the first one is sent.
LEMMA Layers ==
  ASSUME NEW m \in Message, NEW identities \in Routes, NEW epoch \in Epochs
  PROVE  /\ AreOnions(layers(m, identities, epoch), m, identities, epoch)
         /\ wrapped_onion[m][identities][epoch] = layers(m, identities, epoch)[1]
         /\ DOMAIN identities = 1..Len(identities)
<1> DEFINE n == Len(identities)
           nonces == [i \in DOMAIN identities |-> <<m, i>>]
           delays == [i \in DOMAIN identities |-> i]
           h == layers(m, identities, epoch)
<1>1. n \in Nat \ {0} /\ DOMAIN identities = 1..n /\ IsString(identities, n)
  <2>1. identities \in Seq(Range(identities)) \ {<<>>}
    BY DeliveryAssumption
  <2> QED BY <2>1 DEF IsString
<1>2. /\ nonces = [i \in 1..n |-> <<m, i>>] /\ delays = [i \in 1..n |-> i]
  BY <1>1
<1>3. IsString(nonces, n)
  BY <1>2 DEF IsString
<1> HIDE DEF n, nonces, delays
<1>4. \E g : AreHops(g, nonces, identities, delays, keys_of(epoch), m)
  BY <1>1, <1>3, OnionRoute
<1>5. AreHops(h, nonces, identities, delays, keys_of(epoch), m)
  BY <1>4 DEF layers, nonces, delays
<1>6. wrapped_onion[m][identities][epoch] = wrap(nonces, identities, delays, keys_of(epoch), m)
  BY DEF wrapped_onion, nonces, delays
<1> HIDE DEF h
<1>7. /\ h[1] = wrapped_onion[m][identities][epoch]
      /\ \A i \in 1..n :
           /\ h[i].identity = identities[i]
           /\ h[i].shares = shares_of(<<m, i>>, identities[i], keys_of(epoch))
           /\ unwrap(h[i], <<m, i>>) = [ok |-> TRUE, delay |-> i, onion |-> h[i + 1]]
           /\ \A other : other # <<m, i>> => unwrap(h[i], other) = refused
      /\ is_final_destination(h[n + 1])
      /\ h[n + 1].payload = <<cell(<<"data", m>>)>>
  BY <1>2, <1>5, <1>6 DEF AreHops, n
<1>8. ASSUME NEW i \in 1..n
      PROVE  ~is_final_destination(h[i])
  <2>1. IsString(keys_of(epoch), NumAuthorities) /\ keys_of(epoch)[1] = <<1, epoch>>
    BY DeliveryAssumption DEF IsString, keys_of, Authorities, params
  <2>2. <<1, epoch>> # <<>>
    OBVIOUS
  <2>3. NumAuthorities \in Nat \ {0} /\ keys_of(epoch)[1] # <<>>
    BY <2>1, <2>2, DeliveryAssumption
  <2>4. h[i].shares = shares_of(<<m, i>>, identities[i], keys_of(epoch))
    BY <1>7
  <2> QED BY <2>1, <2>3, <2>4, NotFinal
<1>9. \A i \in 1..(n + 1) : is_final_destination(h[i]) <=> i = n + 1
  <2>1. \A i \in 1..(n + 1) : i \in 1..n \/ i = n + 1
    BY <1>1
  <2>2. n + 1 \notin 1..n
    BY <1>1
  <2> QED BY <1>7, <1>8, <2>1, <2>2
<1> QED BY <1>1, <1>7, <1>9 DEF n, h, AreOnions

-----------------------------------------------------------------------------
(* Where a message is on its way.                                          *)

Underway == {"client_ask", "client_post", "relay_onion", "unwrap", "sleep", "ask", "send"}

\* The hops made so far are the first ones of the route, with the delays
\* chosen for them, and each was made by the relay to which all authorities
\* gave it in the epoch of the keys.
MadeHops(made, identities, epoch) ==
  /\ \E S : made \in Seq(S)
  /\ Len(made) <= Len(identities)
  /\ \A i \in 1..Len(made) :
       /\ made[i][2] = identities[i] /\ made[i][3] = i
       /\ \A a \in Authorities : Owner(a, epoch, made[i][2]) = made[i][1]

\* Whoever has the message has it in the onion that follows these hops.
Travels(m, place, onion, identities, epoch, made) ==
  IF place = "unsent" THEN made = <<>>
  ELSE /\ identities \in Routes /\ epoch \in Epochs
       /\ MadeHops(made, identities, epoch)
       /\ place \in Underway => Len(made) < Len(identities)
       /\ place \in {"post", "done"} => Len(made) = Len(identities)
       /\ place \in Underway \cup {"post"} =>
            onion = layers(m, identities, epoch)[Len(made) + 1]

IsMap(f) == f = [m \in Message |-> f[m]]

\* What was posted is one message for each task that is done.
PostedInvariant ==
  /\ \A i \in DOMAIN posted : \E m \in Done : posted[i] = cell(<<"data", m>>)
  /\ \A m \in Done : \E i \in DOMAIN posted : posted[i] = cell(<<"data", m>>)
  /\ \A i, j \in DOMAIN posted : posted[i] = posted[j] => i = j

JourneyInvariant ==
  /\ IsMap(route) /\ IsMap(wrapped) /\ IsMap(hops)
  /\ \A m \in Message :
       Travels(m, task[m].pc, task[m].onion, route[m], wrapped[m], hops[m])
  /\ PostedInvariant

\* The moves of a message: it is sent, passed on, unwrapped, or posted, or
\* those that one relay has are lost.
Leaves(m) ==
  /\ task[m].pc = "unsent" /\ task'[m].pc = "client_ask"
  /\ route'[m] \in Routes /\ wrapped'[m] \in Epochs
  /\ task'[m].onion = layers(m, route'[m], wrapped'[m])[1]
  /\ hops'[m] = hops[m] /\ posted' = posted

Passes(m) ==
  /\ task[m].pc \in Underway /\ task'[m].pc \in Underway \cup {"dropped"}
  /\ task'[m].pc \in Underway => task'[m].onion = task[m].onion
  /\ route'[m] = route[m] /\ wrapped'[m] = wrapped[m]
  /\ hops'[m] = hops[m] /\ posted' = posted

MakesHop(m) ==
  LET k == Len(hops[m]) + 1 IN
  /\ task[m].pc \in Underway
  /\ task'[m].pc = IF k = Len(route[m]) THEN "post" ELSE "sleep"
  /\ task'[m].onion = layers(m, route[m], wrapped[m])[k + 1]
  /\ route'[m] = route[m] /\ wrapped'[m] = wrapped[m]
  /\ \E r \in Relay : /\ \A a \in Authorities : Owner(a, wrapped[m], route[m][k]) = r
                      /\ hops'[m] = Append(hops[m], <<r, route[m][k], k>>)
  /\ posted' = posted

Posts(m) ==
  /\ task[m].pc = "post" /\ task'[m].pc = "done"
  /\ route'[m] = route[m] /\ wrapped'[m] = wrapped[m] /\ hops'[m] = hops[m]
  /\ posted' = Append(posted, cell(<<"data", m>>))

\* One message moves.
Moves(m) ==
  /\ IsMap(task)' /\ IsMap(route)' /\ IsMap(wrapped)' /\ IsMap(hops)'
  /\ Leaves(m) \/ Passes(m) \/ MakesHop(m) \/ Posts(m)
  /\ \A k \in Message \ {m} : /\ task'[k] = task[k] /\ route'[k] = route[k]
                              /\ wrapped'[k] = wrapped[k] /\ hops'[k] = hops[k]

AreLost(gone) ==
  /\ \A m \in Message :
       IF m \in gone THEN task[m].pc \in AtRelay /\ task'[m].pc = "dropped" ELSE task'[m] = task[m]
  /\ UNCHANGED <<history, posted>>

-----------------------------------------------------------------------------
(* Each action is a move.                                                  *)

IsUpdate(g, f, m, v) == g = [f EXCEPT ![m] = v]

\* One value of a function changes.
LEMMA Changed ==
  ASSUME NEW f, IsMap(f), NEW m \in Message, NEW v, NEW g, IsUpdate(g, f, m, v)
  PROVE  IsMap(g) /\ g[m] = v /\ \A k \in Message \ {m} : g[k] = f[k]
<1>1. g = [k \in Message |-> IF k = m THEN v ELSE f[k]]
  BY DEF IsMap, IsUpdate
<1> QED BY <1>1 DEF IsMap

\* Only one task changes.
LEMMA TaskChanged ==
  ASSUME LockInvariant, NEW m \in Message, NEW t, Becomes(m, t)
  PROVE  IsMap(task)' /\ task'[m] = t /\ \A k \in Message \ {m} : task'[k] = task[k]
<1>1. IsMap(task)
  BY DEF LockInvariant, IsMap
<1>2. IsUpdate(task', task, m, t)
  BY DEF Becomes, IsUpdate
<1>3. IsMap(task') /\ task'[m] = t /\ \A k \in Message \ {m} : task'[k] = task[k]
  BY <1>1, <1>2, Changed
<1> QED BY <1>3

\* The client sends a message off.
LEMMA MessageLeaves ==
  ASSUME DeliveryInvariant, JourneyInvariant, NEW m \in Message, build_and_send(m)
  PROVE  Moves(m)
<1>1. PICK identities \in Routes :
        /\ Becomes(m, [Task("client_ask") EXCEPT !.onion = wrapped_onion[m][identities][client_epoch]])
        /\ route' = [route EXCEPT ![m] = identities]
  BY DEF build_and_send
<1>2. /\ task[m].pc = "unsent" /\ wrapped' = [wrapped EXCEPT ![m] = client_epoch]
      /\ posted' = posted /\ hops' = hops /\ client_epoch \in Epochs
  BY DEF build_and_send, At, DeliveryInvariant, EpochsInvariant
<1> DEFINE onion == wrapped_onion[m][identities][client_epoch]
           t == [Task("client_ask") EXCEPT !.onion = onion]
<1>3. onion = layers(m, identities, client_epoch)[1]
  BY <1>2, Layers
<1>4. t.pc = "client_ask" /\ t.onion = onion
  BY DEF Task
<1> HIDE DEF onion, t
<1>5. IsMap(task)' /\ task'[m] = t /\ \A k \in Message \ {m} : task'[k] = task[k]
  BY <1>1, TaskChanged DEF DeliveryInvariant, t, onion
<1>6. IsMap(route) /\ IsMap(wrapped) /\ IsMap(hops)
  BY DEF JourneyInvariant
<1>7. IsMap(route') /\ route'[m] = identities /\ \A k \in Message \ {m} : route'[k] = route[k]
  <2>1. IsUpdate(route', route, m, identities)
    BY <1>1 DEF IsUpdate
  <2> QED BY <1>6, <2>1, Changed
<1>8. IsMap(wrapped') /\ wrapped'[m] = client_epoch /\ \A k \in Message \ {m} : wrapped'[k] = wrapped[k]
  <2>1. IsUpdate(wrapped', wrapped, m, client_epoch)
    BY <1>2 DEF IsUpdate
  <2> QED BY <1>6, <2>1, Changed
<1>9. IsMap(hops')
  BY <1>2, <1>6
<1>10. Leaves(m)
  BY <1>1, <1>2, <1>3, <1>4, <1>5, <1>7, <1>8 DEF Leaves
<1> QED BY <1>2, <1>5, <1>7, <1>8, <1>9, <1>10 DEF Moves, IsMap

\* The history is that of the messages' journeys, and only one task changes.
LEMMA TaskMoves ==
  ASSUME DeliveryInvariant, JourneyInvariant, NEW m \in Message, NEW t, Becomes(m, t),
         UNCHANGED <<route, wrapped, hops>>, Passes(m) \/ Posts(m)
  PROVE  Moves(m)
<1>1. IsMap(task)' /\ \A k \in Message \ {m} : task'[k] = task[k]
  BY TaskChanged DEF DeliveryInvariant
<1> QED BY <1>1 DEF Moves, IsMap, JourneyInvariant

\* All actions that leave the onion as it is, or drop it.
LEMMA MessagePasses ==
  ASSUME DeliveryInvariant, JourneyInvariant, NEW m \in Message,
         \/ request_relay(m) \/ ClientPosts(m) \/ ReadPublicKeys(m)
         \/ LockKeys(m) \/ Ask(m) \/ Send(m)
  PROVE  Moves(m)
<1>1. UNCHANGED <<route, wrapped, hops, posted>>
  BY DEF request_relay, ClientPosts, ReadPublicKeys, LockKeys, Ask, Send, history
<1>2. task[m].pc \in Underway
  BY DEF request_relay, ClientPosts, ReadPublicKeys, LockKeys, Ask, Send, At, Underway
<1>3. IsTask(task[m])
  BY DEF DeliveryInvariant, LockInvariant
<1> DEFINE Next_(t) == /\ t.pc \in Underway \cup {"dropped"}
                       /\ t.pc \in Underway => t.onion = task[m].onion
<1>4. Next_(Task("dropped"))
  BY DEF Task, Underway
<1>5. ASSUME Arrive(m)
      PROVE  \E t : Becomes(m, t) /\ Next_(t)
  <2>1. CASE task[m].to \in up
    <3> DEFINE t == [Task("relay_onion") EXCEPT !.at = task[m].to, !.onion = task[m].onion]
    <3>1. Next_(t)
      BY DEF Task, Underway
    <3>2. Becomes(m, t)
      BY <1>5, <2>1 DEF Arrive
    <3> HIDE DEF t, Next_
    <3> QED BY <3>1, <3>2
  <2>2. CASE task[m].to \notin up
    BY <1>4, <1>5, <2>2 DEF Arrive, Ends
  <2> QED BY <2>1, <2>2
<1>6. ASSUME NEW pc, NEW to, NEW asked, NEW keys, pc \in Underway
      PROVE  /\ Next_([task[m] EXCEPT !.pc = pc]) /\ Next_([task[m] EXCEPT !.pc = pc, !.to = to])
             /\ Next_([task[m] EXCEPT !.pc = pc, !.public_keys = keys])
             /\ Next_([task[m] EXCEPT !.asked = asked])
  BY <1>2, <1>3, <1>6 DEF IsTask
<1>7. \E t : Becomes(m, t) /\ Next_(t)
  <2>1. CASE request_relay(m)
    <3> DEFINE a == task[m].asked + 1
               relay == get_relay_address(a, task[m].onion.identity)
    <3>1. \/ Becomes(m, [task[m] EXCEPT !.pc = "client_post", !.to = relay])
          \/ Becomes(m, [task[m] EXCEPT !.asked = a])
          \/ Becomes(m, Task("dropped"))
      BY <2>1 DEF request_relay, Ends
    <3>2. "client_post" \in Underway
      BY DEF Underway
    <3>3. /\ Next_([task[m] EXCEPT !.pc = "client_post", !.to = relay])
          /\ Next_([task[m] EXCEPT !.asked = a])
      <4> HIDE DEF relay, a, Next_
      <4> QED BY <1>6, <3>2
    <3> HIDE DEF relay, a, Next_
    <3> QED BY <1>4, <3>1, <3>3
  <2>2. CASE ReadPublicKeys(m)
    <3> DEFINE t == [task[m] EXCEPT !.pc = "unwrap", !.public_keys = keys_of(live_epoch[task[m].at])]
    <3>1. Next_(t)
      <4>1. "unwrap" \in Underway
        BY DEF Underway
      <4> HIDE DEF Next_
      <4> QED BY <1>6, <4>1
    <3>2. Becomes(m, t)
      BY <2>2 DEF ReadPublicKeys
    <3> HIDE DEF t, Next_
    <3> QED BY <3>1, <3>2
  <2>3. CASE LockKeys(m)
    BY <1>6, <2>3 DEF LockKeys, Underway
  <2>4. CASE Ask(m)
    BY <1>4, <1>6, <2>4 DEF Ask, Ends, Underway
  <2>5. CASE ClientPosts(m) \/ Send(m)
    BY <1>5, <2>5 DEF ClientPosts, Send
  <2> QED BY <2>1, <2>2, <2>3, <2>4, <2>5
<1>8. PICK t : Becomes(m, t) /\ Next_(t)
  BY <1>7
<1>9. task'[m] = t
  BY <1>8, TaskChanged DEF DeliveryInvariant
<1>10. Passes(m)
  BY <1>1, <1>2, <1>8, <1>9 DEF Passes
<1> QED BY <1>1, <1>8, <1>10, TaskMoves

\* What the relay has in hand for a message that is underway.
LEMMA InHand ==
  ASSUME JourneyInvariant, NEW m \in Message, task[m].pc \in Underway \cup {"post"}
  PROVE  /\ route[m] \in Routes /\ wrapped[m] \in Epochs
         /\ MadeHops(hops[m], route[m], wrapped[m])
         /\ Len(hops[m]) \in Nat
         /\ task[m].pc \in Underway => Len(hops[m]) < Len(route[m])
         /\ task[m].pc = "post" => Len(hops[m]) = Len(route[m])
         /\ task[m].onion = layers(m, route[m], wrapped[m])[Len(hops[m]) + 1]
<1>1. Travels(m, task[m].pc, task[m].onion, route[m], wrapped[m], hops[m])
  BY DEF JourneyInvariant
<1>2. MadeHops(hops[m], route[m], wrapped[m])
  BY <1>1 DEF Travels, Underway
<1>3. Len(hops[m]) \in Nat
  BY <1>2 DEF MadeHops
<1> QED BY <1>1, <1>2, <1>3 DEF Travels, Underway

\* A relay that unwraps an onion makes the next hop of its route, and is the
\* one to do so; if it cannot, the onion is dropped.
LEMMA MessageUnwrapped ==
  ASSUME DeliveryInvariant, JourneyInvariant, NEW m \in Message, Unwrap(m)
  PROVE  Moves(m)
<1> DEFINE r == task[m].at
           old == task[m].onion
           k == Len(hops[m]) + 1
           h == layers(m, route[m], wrapped[m])
           nonce(strict) == recovered(old, task[m].public_keys, private_keys(r, old.identity), strict)
<1>1. task[m].pc = "unwrap" /\ UNCHANGED <<route, wrapped, posted>>
  BY DEF Unwrap, At, history
<1>2. task[m].pc \in Underway
  BY <1>1 DEF Underway
<1>3. /\ route[m] \in Routes /\ wrapped[m] \in Epochs
      /\ Len(hops[m]) \in Nat /\ Len(hops[m]) < Len(route[m]) /\ old = h[k]
  BY <1>2, InHand
<1>4. r \in Relay
  BY <1>1 DEF DeliveryInvariant, LockInvariant, AtRelay
<1>5. AreOnions(h, m, route[m], wrapped[m])
  BY <1>3, Layers
<1>6. PICK strict \in BOOLEAN :
        LET result == unwrap(old, nonce(strict)) IN
        \/ ~result.ok /\ Ends(m, "dropped") /\ UNCHANGED hops
        \/ /\ result.ok
           /\ hops' = [hops EXCEPT ![m] = Append(hops[m], <<r, old.identity, result.delay>>)]
           /\ Becomes(m, [Task(IF is_final_destination(result.onion) THEN "post" ELSE "sleep")
                            EXCEPT !.at = r, !.onion = result.onion])
  BY DEF Unwrap
<1>0. old = h[k]
  BY <1>3
<1> HIDE DEF r, h, k
<1>7. k \in 1..Len(route[m]) /\ k = Len(hops[m]) + 1
  BY <1>3, <1>5 DEF k, AreOnions
<1>8. /\ old.identity = route[m][k]
      /\ old.shares = shares_of(<<m, k>>, route[m][k], keys_of(wrapped[m]))
      /\ unwrap(old, <<m, k>>) = [ok |-> TRUE, delay |-> k, onion |-> h[k + 1]]
      /\ \A other : other # <<m, k>> => unwrap(old, other) = refused
  BY <1>5, <1>7, <1>0 DEF AreOnions
<1> HIDE DEF old
<1>9. \/ nonce(strict) = GARBAGE
      \/ /\ nonce(strict) = <<m, k>>
         /\ \A a \in Authorities : Owner(a, wrapped[m], route[m][k]) = r
  BY <1>4, <1>8, OnlyOwnersOpen
<1> DEFINE result == unwrap(old, nonce(strict))
           t == [Task(IF is_final_destination(result.onion) THEN "post" ELSE "sleep")
                   EXCEPT !.at = r, !.onion = result.onion]
<1>10. /\ IsMap(route') /\ IsMap(wrapped') /\ IsMap(route) /\ IsMap(wrapped) /\ IsMap(hops)
       /\ route' = route /\ wrapped' = wrapped /\ posted' = posted
  BY <1>1 DEF JourneyInvariant
<1>11. \/ ~result.ok /\ Becomes(m, Task("dropped")) /\ UNCHANGED hops
       \/ /\ result.ok /\ IsUpdate(hops', hops, m, Append(hops[m], <<r, route[m][k], result.delay>>))
          /\ Becomes(m, t)
  BY <1>6, <1>8 DEF Ends, IsUpdate
<1> HIDE DEF nonce
<1>12. CASE ~result.ok /\ Becomes(m, Task("dropped")) /\ UNCHANGED hops
  <2>1. task'[m] = Task("dropped")
    BY <1>12, TaskChanged DEF DeliveryInvariant
  <2>2. Task("dropped").pc = "dropped" /\ "dropped" \notin Underway
    BY DEF Task, Underway
  <2>3. Passes(m)
    BY <1>2, <1>10, <1>12, <2>1, <2>2 DEF Passes
  <2> QED BY <1>10, <1>12, <2>3, TaskMoves
<1>13. CASE /\ result.ok /\ IsUpdate(hops', hops, m, Append(hops[m], <<r, route[m][k], result.delay>>))
            /\ Becomes(m, t)
  <2>1. nonce(strict) = <<m, k>>
    <3>1. ~refused.ok
      BY DEF refused
    <3> QED BY <1>8, <1>13, <3>1
  <2>2. \A a \in Authorities : Owner(a, wrapped[m], route[m][k]) = r
    <3>1. GARBAGE # <<m, k>>
      <4>1. Len(<<"garbage">>) = 1 /\ Len(<<m, k>>) = 2
        OBVIOUS
      <4> QED BY <4>1 DEF GARBAGE
    <3> QED BY <1>9, <2>1, <3>1
  <2>3. result.delay = k /\ result.onion = h[k + 1]
    BY <1>8, <2>1
  <2>4. is_final_destination(h[k + 1]) <=> k = Len(route[m])
    <3>1. k + 1 \in 1..(Len(route[m]) + 1) /\ Len(route[m]) \in Nat
      BY <1>3, <1>5, <1>7 DEF AreOnions
    <3>2. is_final_destination(h[k + 1]) <=> k + 1 = Len(route[m]) + 1
      BY <1>5, <3>1 DEF AreOnions
    <3> QED BY <1>3, <1>7, <3>1, <3>2
  <2> HIDE DEF result
  <2>5. t.onion = h[k + 1] /\ t.pc = IF k = Len(route[m]) THEN "post" ELSE "sleep"
    <3>1. t = [Task(IF k = Len(route[m]) THEN "post" ELSE "sleep") EXCEPT !.at = r, !.onion = h[k + 1]]
      BY <2>3, <2>4
    <3> QED BY <3>1 DEF Task
  <2> HIDE DEF t
  <2>6. IsMap(task)' /\ task'[m] = t /\ \A j \in Message \ {m} : task'[j] = task[j]
    BY <1>13, TaskChanged DEF DeliveryInvariant
  <2>7. /\ IsMap(hops') /\ hops'[m] = Append(hops[m], <<r, route[m][k], k>>)
        /\ \A j \in Message \ {m} : hops'[j] = hops[j]
    <3> DEFINE made == Append(hops[m], <<r, route[m][k], k>>)
    <3>1. IsUpdate(hops', hops, m, made) /\ IsMap(hops)
      BY <1>10, <1>13, <2>3
    <3> HIDE DEF made
    <3>2. IsMap(hops') /\ hops'[m] = made /\ \A j \in Message \ {m} : hops'[j] = hops[j]
      BY <3>1, Changed
    <3> QED BY <3>2 DEF made
  <2>8. MakesHop(m)
    BY <1>2, <1>4, <1>7, <1>10, <2>2, <2>5, <2>6, <2>7 DEF MakesHop, h
  <2> QED BY <1>10, <2>6, <2>7, <2>8 DEF Moves, IsMap
<1> QED BY <1>11, <1>12, <1>13

\* What is posted is the payload that is left after the last hop.
LEMMA MessagePosted ==
  ASSUME DeliveryInvariant, JourneyInvariant, NEW m \in Message, PostToBoard(m)
  PROVE  Moves(m)
<1>1. /\ task[m].pc = "post" /\ UNCHANGED <<route, wrapped, hops>>
      /\ posted' = Append(posted, task[m].onion.payload[1]) /\ Becomes(m, Task("done"))
  BY DEF PostToBoard, At, Ends, history
<1>2. task[m].onion.payload = <<cell(<<"data", m>>)>>
  <2>1. /\ route[m] \in Routes /\ wrapped[m] \in Epochs /\ Len(hops[m]) = Len(route[m])
        /\ task[m].onion = layers(m, route[m], wrapped[m])[Len(hops[m]) + 1]
    BY <1>1, InHand
  <2>2. AreOnions(layers(m, route[m], wrapped[m]), m, route[m], wrapped[m])
    BY <2>1, Layers
  <2> QED BY <2>1, <2>2 DEF AreOnions
<1>3. task'[m].pc = "done"
  <2>1. task'[m] = Task("done")
    BY <1>1, TaskChanged DEF DeliveryInvariant
  <2> QED BY <2>1 DEF Task
<1>4. Posts(m)
  BY <1>1, <1>2, <1>3 DEF Posts
<1> QED BY <1>1, <1>4, TaskMoves

\* What a relay has is lost with it.
LEMMA CrashLoses ==
  ASSUME NEW r \in Relay, Crash(r)
  PROVE  \E gone \in SUBSET Message : AreLost(gone)
<1> DEFINE gone == {m \in Message : task[m].pc \in AtRelay /\ task[m].at = r}
<1>1. task' = [m \in Message |-> IF m \in gone THEN Task("dropped") ELSE task[m]]
  BY DEF Crash
<1>2. Task("dropped").pc = "dropped"
  BY DEF Task
<1>3. UNCHANGED <<history, posted>>
  BY DEF Crash
<1>4. AreLost(gone)
  BY <1>1, <1>2, <1>3 DEF AreLost
<1> QED BY <1>4

\* Whatever the parties do, one message moves, or some are lost, or none.
LEMMA StepMoves ==
  ASSUME DeliveryInvariant, JourneyInvariant, [Next]_vars
  PROVE  \/ \E m \in Message : Moves(m)
         \/ \E gone \in SUBSET Message : AreLost(gone)
<1>1. CASE \E m \in Message : Handle(m)
  BY <1>1, MessageLeaves, MessagePasses, MessageUnwrapped, MessagePosted
     DEF Handle, ClientStep, RelayStep
<1>2. CASE \E r \in Relay : Crash(r)
  BY <1>2, CrashLoses
<1>3. CASE \/ \E a \in Authorities : AuthoritySwitches(a)
           \/ \E r \in Relay : RelayWaits(r) \/ RelaySwitches(r)
           \/ ClientWaits \/ ClientSwitches
  <2>1. UNCHANGED <<task, posted, history>>
    BY <1>3 DEF AuthoritySwitches, RelayWaits, RelaySwitches, ClientWaits, ClientSwitches,
                handling
  <2>2. AreLost({})
    BY <2>1 DEF AreLost
  <2> QED BY <2>2
<1>4. CASE UNCHANGED vars
  <2>1. AreLost({})
    BY <1>4 DEF vars, AreLost
  <2> QED BY <2>1
<1> QED BY <1>1, <1>2, <1>3, <1>4 DEF Next

-----------------------------------------------------------------------------
(* Messages stay on their way.                                             *)

\* The payloads of different messages differ.
LEMMA CellsDiffer ==
  ASSUME NEW m, NEW n, cell(<<"data", m>>) = cell(<<"data", n>>)
  PROVE  m = n
<1>1. cell(<<"data", m>>).text = cell(<<"data", n>>).text
  OBVIOUS
<1>2. cell(<<"data", m>>).text = <<"data", m>> /\ cell(<<"data", n>>).text = <<"data", n>>
  BY DEF cell
<1>3. <<"data", m>> = <<"data", n>>
  BY <1>1, <1>2
<1> QED BY <1>3

\* A message is posted once, as it was not posted before.
LEMMA PostedKept ==
  ASSUME DeliveryInvariant, JourneyInvariant, NEW m \in Message, Moves(m)
  PROVE  PostedInvariant'
<1>1. PostedInvariant
  BY DEF JourneyInvariant
<1>2. \A k \in Message \ {m} : task'[k] = task[k]
  BY DEF Moves
<1>3. CASE Leaves(m) \/ Passes(m) \/ MakesHop(m)
  <2>1. task[m].pc # "done" /\ task'[m].pc # "done" /\ posted' = posted
    BY <1>3 DEF Leaves, Passes, MakesHop, Underway
  <2>2. Done' = Done
    BY <1>2, <2>1 DEF Done
  <2> QED BY <1>1, <2>1, <2>2 DEF PostedInvariant
<1>4. CASE Posts(m)
  <2> DEFINE new == cell(<<"data", m>>)
             p == Len(posted)
  <2>1. PICK S : posted \in Seq(S)
    BY DEF DeliveryInvariant, BoardInvariant
  <2>2. m \notin Done /\ Done' = Done \cup {m} /\ posted' = Append(posted, new)
    BY <1>2, <1>4 DEF Posts, Done
  <2> HIDE DEF new
  <2>3. posted \in Seq(S \cup {new}) /\ p \in Nat
    BY <2>1
  <2>4. /\ DOMAIN posted = 1..p /\ DOMAIN posted' = 1..(p + 1)
        /\ \A i \in 1..p : posted'[i] = posted[i]
        /\ posted'[p + 1] = new
    BY <2>2, <2>3
  <2>5. ASSUME NEW i \in 1..p
        PROVE  posted[i] # new
    <3>1. PICK k \in Done : posted[i] = cell(<<"data", k>>)
      BY <1>1, <2>4 DEF PostedInvariant
    <3>2. k # m
      BY <2>2
    <3> QED BY <3>1, <3>2, CellsDiffer DEF new
  <2>6. \A i \in 1..(p + 1) : i \in 1..p \/ i = p + 1
    BY <2>3
  <2>7. \A i \in DOMAIN posted' : \E k \in Done' : posted'[i] = cell(<<"data", k>>)
    <3>1. posted'[p + 1] = cell(<<"data", m>>) /\ m \in Done'
      BY <2>2, <2>4 DEF new
    <3>2. \A i \in 1..p : \E k \in Done : posted[i] = cell(<<"data", k>>)
      BY <1>1, <2>4 DEF PostedInvariant
    <3>3. \A i \in 1..p : \E k \in Done' : posted'[i] = cell(<<"data", k>>)
      BY <2>2, <2>4, <3>2
    <3> QED BY <2>4, <2>6, <3>1, <3>3
  <2>8. \A k \in Done' : \E i \in DOMAIN posted' : posted'[i] = cell(<<"data", k>>)
    <3>1. ASSUME NEW k \in Done
          PROVE  \E i \in DOMAIN posted' : posted'[i] = cell(<<"data", k>>)
      <4>1. PICK i \in 1..p : posted[i] = cell(<<"data", k>>)
        BY <1>1, <2>4 DEF PostedInvariant
      <4>2. i \in 1..(p + 1)
        BY <2>3
      <4> QED BY <2>4, <4>1, <4>2
    <3>2. p + 1 \in DOMAIN posted' /\ posted'[p + 1] = cell(<<"data", m>>)
      BY <2>3, <2>4 DEF new
    <3> QED BY <2>2, <3>1, <3>2
  <2>9. \A i, j \in DOMAIN posted' : posted'[i] = posted'[j] => i = j
    <3>1. \A i, j \in 1..p : posted[i] = posted[j] => i = j
      BY <1>1, <2>4 DEF PostedInvariant
    <3> QED BY <2>4, <2>5, <2>6, <3>1
  <2> QED BY <2>7, <2>8, <2>9 DEF PostedInvariant
<1> QED BY <1>3, <1>4 DEF Moves

\* The message that moves is on its way, or done, or lost.
LEMMA TravelsOn ==
  ASSUME DeliveryInvariant, JourneyInvariant, NEW m \in Message, Moves(m)
  PROVE  Travels(m, task'[m].pc, task'[m].onion, route'[m], wrapped'[m], hops'[m])
<1>1. Travels(m, task[m].pc, task[m].onion, route[m], wrapped[m], hops[m])
  BY DEF JourneyInvariant
<1>2. CASE Leaves(m)
  <2>1. hops'[m] = <<>>
    BY <1>1, <1>2 DEF Leaves, Travels
  <2>2. Len(route'[m]) \in Nat \ {0}
    BY <1>2, Layers, DeliveryAssumption DEF Leaves, AreOnions
  <2>3. MadeHops(hops'[m], route'[m], wrapped'[m]) /\ Len(hops'[m]) = 0
    <3>1. <<>> \in Seq({}) /\ Len(<<>>) = 0 /\ 1..0 = {}
      OBVIOUS
    <3> QED BY <2>1, <2>2, <3>1 DEF MadeHops
  <2> QED BY <1>2, <2>2, <2>3 DEF Leaves, Travels, Underway
<1>3. CASE Passes(m)
  <2>1. /\ route[m] \in Routes /\ wrapped[m] \in Epochs
        /\ MadeHops(hops[m], route[m], wrapped[m])
        /\ Len(hops[m]) < Len(route[m])
        /\ task[m].onion = layers(m, route[m], wrapped[m])[Len(hops[m]) + 1]
    BY <1>3, InHand DEF Passes
  <2> QED BY <1>3, <2>1 DEF Passes, Travels, Underway
<1>4. CASE MakesHop(m)
  <2> DEFINE k == Len(hops[m]) + 1
  <2>1. /\ route[m] \in Routes /\ wrapped[m] \in Epochs
        /\ MadeHops(hops[m], route[m], wrapped[m])
        /\ Len(hops[m]) \in Nat /\ Len(hops[m]) < Len(route[m])
    BY <1>4, InHand DEF MakesHop
  <2>2. Len(route[m]) \in Nat
    BY <2>1, Layers DEF AreOnions
  <2>3. PICK r \in Relay : /\ \A a \in Authorities : Owner(a, wrapped[m], route[m][k]) = r
                           /\ hops'[m] = Append(hops[m], <<r, route[m][k], k>>)
    BY <1>4 DEF MakesHop
  <2>4. PICK S : hops[m] \in Seq(S)
    BY <2>1 DEF MadeHops
  <2> DEFINE hop == <<r, route[m][k], k>>
             made == hops[m]
  <2>5. hop[1] = r /\ hop[2] = route[m][k] /\ hop[3] = k
    OBVIOUS
  <2> HIDE DEF hop
  <2>6. /\ hops'[m] \in Seq(S \cup {hop}) /\ Len(hops'[m]) = k
        /\ hops'[m][k] = hop /\ \A i \in 1..Len(made) : hops'[m][i] = made[i]
    <3>1. made \in Seq(S \cup {hop}) /\ hops'[m] = Append(made, hop)
      BY <2>3, <2>4 DEF hop
    <3> HIDE DEF made
    <3>2. /\ Append(made, hop) \in Seq(S \cup {hop}) /\ Len(Append(made, hop)) = Len(made) + 1
          /\ Append(made, hop)[Len(made) + 1] = hop
          /\ \A i \in 1..Len(made) : Append(made, hop)[i] = made[i]
      BY <3>1
    <3> QED BY <3>1, <3>2 DEF made
  <2>7. MadeHops(hops'[m], route[m], wrapped[m])
    <3>1. \A i \in 1..k : i \in 1..Len(made) \/ i = k
      BY <2>1
    <3>2. \A i \in 1..Len(made) :
            /\ made[i][2] = route[m][i] /\ made[i][3] = i
            /\ \A a \in Authorities : Owner(a, wrapped[m], made[i][2]) = made[i][1]
      BY <2>1 DEF MadeHops
    <3>3. k <= Len(route[m])
      BY <2>1, <2>2
    <3> HIDE DEF k, made
    <3>4. \A i \in 1..k :
            /\ hops'[m][i][2] = route[m][i] /\ hops'[m][i][3] = i
            /\ \A a \in Authorities : Owner(a, wrapped[m], hops'[m][i][2]) = hops'[m][i][1]
      BY <2>3, <2>5, <2>6, <3>1, <3>2, SMTT(60)
    <3> QED BY <2>6, <3>3, <3>4 DEF MadeHops
  <2>8. /\ route'[m] = route[m] /\ wrapped'[m] = wrapped[m]
        /\ task'[m].onion = layers(m, route[m], wrapped[m])[k + 1]
        /\ task'[m].pc = IF k = Len(route[m]) THEN "post" ELSE "sleep"
    BY <1>4 DEF MakesHop
  <2>9. k < Len(route[m]) \/ k = Len(route[m])
    BY <2>1, <2>2
  <2> HIDE DEF k
  <2> QED BY <2>1, <2>6, <2>7, <2>8, <2>9 DEF Travels, Underway
<1>5. CASE Posts(m)
  <2>1. /\ route[m] \in Routes /\ wrapped[m] \in Epochs
        /\ MadeHops(hops[m], route[m], wrapped[m])
        /\ Len(hops[m]) = Len(route[m])
    BY <1>5, InHand DEF Posts
  <2> QED BY <1>5, <2>1 DEF Posts, Travels, Underway
<1> QED BY <1>2, <1>3, <1>4, <1>5 DEF Moves

\* Nothing is on its way at first.
LEMMA JourneyInit == Init => JourneyInvariant
<1> SUFFICES ASSUME Init PROVE JourneyInvariant
  OBVIOUS
<1>1. /\ task = [m \in Message |-> Task("unsent")] /\ posted = <<>>
      /\ route = [m \in Message |-> <<>>] /\ wrapped = [m \in Message |-> 0]
      /\ hops = [m \in Message |-> <<>>]
  BY DEF Init
<1>2. Task("unsent").pc = "unsent"
  BY DEF Task
<1>3. Done = {} /\ DOMAIN posted = {}
  BY <1>1, <1>2 DEF Done
<1> QED BY <1>1, <1>2, <1>3 DEF JourneyInvariant, IsMap, Travels, PostedInvariant

\* A message that does not move, and has not been lost, is where it was.
LEMMA JourneyStep == DeliveryInvariant /\ JourneyInvariant /\ [Next]_vars => JourneyInvariant'
<1> SUFFICES ASSUME DeliveryInvariant, JourneyInvariant, [Next]_vars PROVE JourneyInvariant'
  OBVIOUS
<1>1. ASSUME NEW m \in Message, Moves(m)
      PROVE  JourneyInvariant'
  <2>1. PostedInvariant'
    BY <1>1, PostedKept
  <2>2. Travels(m, task'[m].pc, task'[m].onion, route'[m], wrapped'[m], hops'[m])
    BY <1>1, TravelsOn
  <2>3. \A k \in Message : Travels(k, task'[k].pc, task'[k].onion, route'[k], wrapped'[k], hops'[k])
    BY <1>1, <2>2 DEF Moves, JourneyInvariant
  <2> QED BY <1>1, <2>1, <2>3 DEF Moves, JourneyInvariant, IsMap, Travels, MadeHops
<1>2. ASSUME NEW gone \in SUBSET Message, AreLost(gone)
      PROVE  JourneyInvariant'
  <2>1. UNCHANGED <<route, wrapped, hops, posted>>
    BY <1>2 DEF AreLost, history
  <2>2. Done' = Done
    BY <1>2 DEF Done, AreLost, AtRelay
  <2>3. ASSUME NEW m \in Message
        PROVE  Travels(m, task'[m].pc, task'[m].onion, route'[m], wrapped'[m], hops'[m])
    <3>1. Travels(m, task[m].pc, task[m].onion, route[m], wrapped[m], hops[m])
      BY DEF JourneyInvariant
    <3>2. CASE m \in gone
      BY <1>2, <2>1, <3>1, <3>2 DEF AreLost, Travels, Underway, AtRelay
    <3>3. CASE m \notin gone
      BY <1>2, <2>1, <3>1, <3>3 DEF AreLost
    <3> QED BY <3>2, <3>3
  <2>4. IsMap(route)' /\ IsMap(wrapped)' /\ IsMap(hops)'
    BY <2>1 DEF JourneyInvariant, IsMap
  <2>5. PostedInvariant'
    BY <2>1, <2>2 DEF JourneyInvariant, PostedInvariant
  <2>6. \A m \in Message : Travels(m, task'[m].pc, task'[m].onion, route'[m], wrapped'[m], hops'[m])
    BY <2>3
  <2> QED BY <2>4, <2>5, <2>6 DEF JourneyInvariant
<1> QED BY <1>1, <1>2, StepMoves

\* Every message is on its way in the onion that belongs there, whatever is
\* switched, crashes and gets lost.
THEOREM JourneyInductive == Spec => [](DeliveryInvariant /\ JourneyInvariant)
BY DeliveryInit, DeliveryStep, JourneyInit, JourneyStep, PTL DEF Spec

\* An onion is only unwrapped where every authority has given the identity to,
\* in the epoch it was wrapped for: whatever the relay's keys were when it came.
THEOREM DeliveryUnwrappedByOwners == Spec => []UnwrappedByOwners
<1>1. JourneyInvariant => UnwrappedByOwners
  <2> SUFFICES ASSUME JourneyInvariant, NEW m \in Message, NEW i \in DOMAIN hops[m]
               PROVE  \A a \in Authorities : Owner(a, wrapped[m], hops[m][i][2]) = hops[m][i][1]
    BY DEF UnwrappedByOwners
  <2>1. Travels(m, task[m].pc, task[m].onion, route[m], wrapped[m], hops[m])
    BY DEF JourneyInvariant
  <2>2. CASE hops[m] = <<>>
    BY <2>2
  <2>3. CASE MadeHops(hops[m], route[m], wrapped[m])
    <3>1. i \in 1..Len(hops[m])
      BY <2>3 DEF MadeHops
    <3> QED BY <2>3, <3>1 DEF MadeHops
  <2> QED BY <2>1, <2>2, <2>3 DEF Travels
<1> QED BY <1>1, JourneyInductive, PTL

\* What is posted is a message as it was sent, at the end of its route, and each
\* is posted once.
THEOREM DeliveryPostedAsSent == Spec => []PostedAsSent
<1>1. DeliveryInvariant /\ JourneyInvariant => PostedAsSent
  <2> SUFFICES ASSUME DeliveryInvariant, JourneyInvariant PROVE PostedAsSent
    OBVIOUS
  <2>1. PostedInvariant /\ BoardShowsLatest
    BY DEF DeliveryInvariant, JourneyInvariant, BoardInvariant
  <2>2. ASSUME NEW i \in DOMAIN posted
        PROVE  /\ posted[i].pads = {}
               /\ \E m \in Message : posted[i].text = <<"data", m>> /\ Len(hops[m]) = Len(route[m])
    <3>1. PICK m \in Done : posted[i] = cell(<<"data", m>>)
      BY <2>1 DEF PostedInvariant
    <3>2. posted[i].pads = {} /\ posted[i].text = <<"data", m>>
      BY <3>1 DEF cell
    <3>3. m \in Message /\ task[m].pc = "done"
      BY DEF Done
    <3>4. Travels(m, task[m].pc, task[m].onion, route[m], wrapped[m], hops[m])
      BY <3>3 DEF JourneyInvariant
    <3>5. Len(hops[m]) = Len(route[m])
      BY <3>3, <3>4 DEF Travels
    <3> QED BY <3>2, <3>3, <3>5
  <2> QED BY <2>1, <2>2 DEF PostedAsSent, PostedInvariant
<1> QED BY <1>1, JourneyInductive, PTL

-----------------------------------------------------------------------------
(* The moves are those of a journey.                                       *)

\* Just those messages are delivered whose handling is done.
LEMMA DeliveredIsDone ==
  ASSUME PostedInvariant, NEW m \in Message
  PROVE  Delivered(m) <=> task[m].pc = "done"
<1>1. ASSUME Delivered(m)
      PROVE  task[m].pc = "done"
  <2>1. PICK i \in DOMAIN posted : posted[i] = cell(<<"data", m>>)
    BY <1>1 DEF Delivered, Range
  <2>2. PICK k \in Done : posted[i] = cell(<<"data", k>>)
    BY DEF PostedInvariant
  <2>3. k = m
    BY <2>1, <2>2, CellsDiffer
  <2> QED BY <2>3 DEF Done
<1>2. ASSUME task[m].pc = "done"
      PROVE  Delivered(m)
  <2>1. m \in Done
    BY <1>2 DEF Done
  <2>2. PICK i \in DOMAIN posted : posted[i] = cell(<<"data", m>>)
    BY <2>1 DEF PostedInvariant
  <2> QED BY <2>2 DEF Delivered, Range
<1> QED BY <1>1, <1>2

SentIs(place, identities, m) ==
  IF place = "unsent" THEN [itinerary |-> <<>>, content |-> <<>>]
  ELSE [itinerary |-> Itinerary(identities), content |-> <<m>>]

StopsIn(made) == [i \in DOMAIN made |-> <<made[i][2], made[i][3]>>]

StageIs(place) == IF place = "unsent" THEN "unsent"
                  ELSE IF place = "dropped" THEN "lost"
                  ELSE IF place = "done" THEN "arrived" ELSE "underway"

ReceivedIs(place, m) == IF place = "done" THEN <<m>> ELSE <<>>

\* What the journey of each message shows of its handling.
AsShown ==
  /\ IsMap(Sent) /\ IsMap(Visited) /\ IsMap(Stage) /\ IsMap(Received)
  /\ \A m \in Message : /\ Sent[m] = SentIs(task[m].pc, route[m], m)
                        /\ Visited[m] = StopsIn(hops[m])
                        /\ Stage[m] = StageIs(task[m].pc)
                        /\ Received[m] = ReceivedIs(task[m].pc, m)

\* Whatever is done with the message shows in its journey.
LEMMA Shows == PostedInvariant => AsShown
<1> SUFFICES ASSUME PostedInvariant PROVE AsShown
  OBVIOUS
<1>1. IsMap(Sent) /\ \A m \in Message : Sent[m] = SentIs(task[m].pc, route[m], m)
  BY DEF IsMap, Sent, SentIs, At
<1>2. IsMap(Visited) /\ \A m \in Message : Visited[m] = StopsIn(hops[m])
  BY DEF IsMap, Visited, StopsIn
<1>3. IsMap(Stage) /\ \A m \in Message : Stage[m] = StageIs(task[m].pc)
  BY DEF IsMap, Stage, StageIs, At
<1>4. IsMap(Received) /\ \A m \in Message : Received[m] = ReceivedIs(task[m].pc, m)
  BY DeliveredIsDone DEF IsMap, Received, ReceivedIs
<1> QED BY <1>1, <1>2, <1>3, <1>4 DEF AsShown

\* Functions that differ in one value.
LEMMA UpdateIs ==
  ASSUME NEW f, NEW g, IsMap(f), IsMap(g), NEW m \in Message,
         \A k \in Message \ {m} : g[k] = f[k]
  PROVE  /\ g = [f EXCEPT ![m] = g[m]]
         /\ g[m] = f[m] => g = f
<1>1. [f EXCEPT ![m] = g[m]] = [k \in Message |-> IF k = m THEN g[m] ELSE f[k]]
  BY DEF IsMap
<1>2. g = [k \in Message |-> g[k]] /\ f = [k \in Message |-> f[k]]
  BY DEF IsMap
<1>3. \A k \in Message : g[k] = IF k = m THEN g[m] ELSE f[k]
  OBVIOUS
<1>4. g = [f EXCEPT ![m] = g[m]]
  <2>1. g = [k \in Message |-> IF k = m THEN g[m] ELSE f[k]]
    BY <1>2, <1>3
  <2> QED BY <1>1, <2>1
<1>5. ASSUME g[m] = f[m]
      PROVE  g = f
  <2>1. \A k \in Message : g[k] = f[k]
    BY <1>5
  <2> QED BY <1>2, <2>1
<1> QED BY <1>4, <1>5

\* The stops made are the first ones of the itinerary.
LEMMA StopsAre ==
  ASSUME NEW identities \in Routes, NEW epoch, NEW made, MadeHops(made, identities, epoch)
  PROVE  /\ Len(made) \in Nat /\ Len(StopsIn(made)) = Len(made)
         /\ Len(Itinerary(identities)) = Len(identities)
         /\ \A i \in 1..Len(identities) : Itinerary(identities)[i] = <<identities[i], i>>
         /\ StopsIn(made) = [i \in 1..Len(made) |-> <<identities[i], i>>]
         /\ Len(made) = Len(identities) => StopsIn(made) = Itinerary(identities)
<1> DEFINE k == Len(made)
           n == Len(identities)
<1>1. DOMAIN made = 1..k /\ k \in Nat
  BY DEF MadeHops
<1>2. DOMAIN identities = 1..n /\ n \in Nat
  BY DeliveryAssumption
<1>3. \A i \in 1..k : made[i][2] = identities[i] /\ made[i][3] = i
  BY DEF MadeHops
<1> HIDE DEF k, n
<1>4. StopsIn(made) = [i \in 1..k |-> <<identities[i], i>>]
  BY <1>1, <1>3 DEF StopsIn
<1>5. Itinerary(identities) = [i \in 1..n |-> <<identities[i], i>>]
  BY <1>2 DEF Itinerary
<1>6. Len(StopsIn(made)) = k /\ Len(Itinerary(identities)) = n
  <2>1. ASSUME NEW f, NEW l \in Nat, f = [i \in 1..l |-> <<identities[i], i>>]
        PROVE  Len(f) = l
    <3>1. f = [i \in 1..l |-> f[i]]
      BY <2>1
    <3> QED BY <3>1, LenIs
  <2> QED BY <1>1, <1>2, <1>4, <1>5, <2>1
<1> QED BY <1>1, <1>4, <1>5, <1>6 DEF k, n

\* With another hop, there is another stop.
LEMMA OneMoreStop ==
  ASSUME NEW identities \in Routes, NEW epoch, NEW made, MadeHops(made, identities, epoch),
         NEW r
  PROVE  LET k == Len(made) + 1 IN
         StopsIn(Append(made, <<r, identities[k], k>>))
           = Append(StopsIn(made), <<identities[k], k>>)
<1> DEFINE n == Len(made)
           k == n + 1
           hop == <<r, identities[k], k>>
           stop == <<identities[k], k>>
           more == Append(made, hop)
           stops == StopsIn(made)
<1>1. PICK S : made \in Seq(S)
  BY DEF MadeHops
<1>2. /\ n \in Nat /\ Len(more) = k /\ DOMAIN more = 1..k /\ more[k] = hop
      /\ \A i \in 1..n : more[i] = made[i]
  BY <1>1
<1>3. hop[2] = identities[k] /\ hop[3] = k
  OBVIOUS
<1>4. stops = [i \in 1..n |-> <<identities[i], i>>]
  BY StopsAre
<1> DEFINE T == {<<identities[i], i>> : i \in 1..n} \cup {stop}
<1>5. stops \in Seq(T) /\ Len(stops) = n /\ stop \in T
  <2>1. stops \in [1..n -> T]
    BY <1>4
  <2> HIDE DEF T, stops
  <2>2. stops \in Seq(T)
    BY <1>2, <2>1
  <2>3. Len(stops) = n
    BY <1>2, <2>1, <2>2
  <2> QED BY <2>2, <2>3 DEF T
<1>6. \A i \in 1..n : made[i][2] = identities[i] /\ made[i][3] = i
  BY DEF MadeHops
<1> HIDE DEF n, stops, T, more, hop
<1>7. \A i \in 1..k : i \in 1..n \/ i = k
  BY <1>2
<1>8. StopsIn(more) = [i \in 1..k |-> <<identities[i], i>>]
  <2>1. \A i \in 1..k : more[i][2] = identities[i] /\ more[i][3] = i
    BY <1>2, <1>3, <1>6, <1>7
  <2> QED BY <1>2, <2>1 DEF StopsIn
<1> HIDE DEF stop
<1> DEFINE longer == Append(stops, stop)
<1>9. /\ longer \in [1..k -> T]
      /\ longer[k] = stop /\ \A i \in 1..n : longer[i] = stops[i]
  <2>1. /\ longer \in Seq(T) /\ Len(longer) = Len(stops) + 1
        /\ longer[Len(stops) + 1] = stop /\ \A i \in 1..Len(stops) : longer[i] = stops[i]
    BY <1>5
  <2> HIDE DEF longer
  <2>2. longer \in [1..Len(longer) -> T]
    BY <2>1
  <2> QED BY <1>5, <2>1, <2>2
<1> HIDE DEF longer
<1>10. \A i \in 1..k : longer[i] = <<identities[i], i>>
  BY <1>4, <1>7, <1>9 DEF stop
<1>11. longer = [i \in 1..k |-> <<identities[i], i>>]
  BY <1>9, <1>10
<1> QED BY <1>8, <1>11 DEF n, stop, hop, more, stops, longer

\* A move of a message is a step of its journey.
LEMMA MoveIsStep ==
  ASSUME JourneyInvariant, PostedInvariant', AsShown, AsShown', NEW m \in Message, Moves(m)
  PROVE  [Promise!Next]_Promise!vars
<1>1. /\ IsMap(Sent) /\ IsMap(Visited) /\ IsMap(Stage) /\ IsMap(Received)
      /\ IsMap(Sent') /\ IsMap(Visited') /\ IsMap(Stage') /\ IsMap(Received')
  BY DEF AsShown, IsMap
<1>2. /\ Sent[m] = SentIs(task[m].pc, route[m], m) /\ Visited[m] = StopsIn(hops[m])
      /\ Stage[m] = StageIs(task[m].pc) /\ Received[m] = ReceivedIs(task[m].pc, m)
      /\ Sent'[m] = SentIs(task'[m].pc, route'[m], m) /\ Visited'[m] = StopsIn(hops'[m])
      /\ Stage'[m] = StageIs(task'[m].pc) /\ Received'[m] = ReceivedIs(task'[m].pc, m)
  BY DEF AsShown
<1>3. \A k \in Message \ {m} : /\ Sent'[k] = Sent[k] /\ Visited'[k] = Visited[k]
                               /\ Stage'[k] = Stage[k] /\ Received'[k] = Received[k]
  BY DEF AsShown, Moves
<1>4. /\ Sent' = [Sent EXCEPT ![m] = Sent'[m]] /\ (Sent'[m] = Sent[m] => Sent' = Sent)
      /\ Visited' = [Visited EXCEPT ![m] = Visited'[m]] /\ (Visited'[m] = Visited[m] => Visited' = Visited)
      /\ Stage' = [Stage EXCEPT ![m] = Stage'[m]] /\ (Stage'[m] = Stage[m] => Stage' = Stage)
      /\ Received' = [Received EXCEPT ![m] = Received'[m]]
      /\ (Received'[m] = Received[m] => Received' = Received)
  BY <1>1, <1>3, UpdateIs
<1>5. CASE Leaves(m)
  <2>1. Sent'[m] = [itinerary |-> Itinerary(route'[m]), content |-> <<m>>]
    BY <1>2, <1>5 DEF Leaves, SentIs
  <2>2. Stage[m] = "unsent" /\ Stage'[m] = "underway"
    BY <1>2, <1>5 DEF Leaves, StageIs
  <2>3. Visited' = Visited /\ Received' = Received
    BY <1>2, <1>4, <1>5 DEF Leaves, ReceivedIs
  <2>4. Itinerary(route'[m]) \in {Itinerary(identities) : identities \in Routes}
    BY <1>5 DEF Leaves
  <2>5. Promise!Depart(m)
    BY <1>4, <2>1, <2>2, <2>3, <2>4 DEF Promise!Depart
  <2> QED BY <2>5 DEF Promise!Next
<1>6. CASE Passes(m)
  <2>1. Sent' = Sent /\ Visited' = Visited /\ Received' = Received /\ Stage[m] = "underway"
    BY <1>2, <1>4, <1>6 DEF Passes, SentIs, ReceivedIs, StageIs, Underway
  <2>2. CASE task'[m].pc \in Underway
    <3>1. Stage' = Stage
      BY <1>2, <1>4, <1>6, <2>2 DEF Passes, StageIs, Underway
    <3> QED BY <2>1, <3>1 DEF Promise!vars
  <2>3. CASE task'[m].pc = "dropped"
    <3>1. Stage'[m] = "lost"
      BY <1>2, <2>3 DEF StageIs
    <3>2. Stage' = [k \in Message |-> IF k \in {m} THEN "lost" ELSE Stage[k]]
      <4>1. \A k \in Message : Stage'[k] = IF k \in {m} THEN "lost" ELSE Stage[k]
        BY <1>3, <3>1
      <4> QED BY <1>1, <4>1 DEF IsMap
    <3>3. Promise!Lose({m})
      BY <2>1, <3>2 DEF Promise!Lose
    <3> QED BY <3>3 DEF Promise!Next
  <2> QED BY <1>6, <2>2, <2>3 DEF Passes
<1>7. CASE MakesHop(m)
  <2> DEFINE k == Len(hops[m]) + 1
  <2>1. /\ route[m] \in Routes /\ wrapped[m] \in Epochs
        /\ MadeHops(hops[m], route[m], wrapped[m])
        /\ Len(hops[m]) \in Nat /\ Len(hops[m]) < Len(route[m])
    BY <1>7, InHand DEF MakesHop
  <2>2. Len(route[m]) \in Nat
    BY <2>1, Layers DEF AreOnions
  <2>3. PICK r \in Relay : hops'[m] = Append(hops[m], <<r, route[m][k], k>>)
    BY <1>7 DEF MakesHop
  <2>4. Sent' = Sent /\ Received' = Received /\ Stage' = Stage /\ Stage[m] = "underway"
    BY <1>2, <1>4, <1>7 DEF MakesHop, SentIs, ReceivedIs, StageIs, Underway
  <2>5. Sent[m].itinerary = Itinerary(route[m])
    BY <1>2, <1>7 DEF MakesHop, SentIs, Underway
  <2>6. /\ Len(StopsIn(hops[m])) = Len(hops[m])
        /\ Len(Itinerary(route[m])) = Len(route[m])
        /\ \A i \in 1..Len(route[m]) : Itinerary(route[m])[i] = <<route[m][i], i>>
    BY <2>1, StopsAre
  <2>7. Visited'[m] = Append(Visited[m], <<route[m][k], k>>)
    <3>1. StopsIn(Append(hops[m], <<r, route[m][k], k>>)) = Append(StopsIn(hops[m]), <<route[m][k], k>>)
      BY <2>1, OneMoreStop
    <3> QED BY <1>2, <2>3, <3>1
  <2>8. k \in 1..Len(route[m])
    BY <2>1, <2>2
  <2>9. Sent[m].itinerary[k] = <<route[m][k], k>> /\ Len(Visited[m]) + 1 = k
        /\ k <= Len(Sent[m].itinerary)
    BY <1>2, <2>5, <2>6, <2>8
  <2> HIDE DEF k
  <2>10. Visited' = [Visited EXCEPT ![m] = Append(Visited[m], Sent[m].itinerary[k])]
    BY <1>4, <2>7, <2>9
  <2>11. Promise!Visit(m)
    BY <2>4, <2>9, <2>10 DEF Promise!Visit
  <2> QED BY <2>11 DEF Promise!Next
<1>8. CASE Posts(m)
  <2>1. /\ route[m] \in Routes /\ MadeHops(hops[m], route[m], wrapped[m])
        /\ Len(hops[m]) = Len(route[m])
    BY <1>8, InHand DEF Posts
  <2>2. Visited[m] = Sent[m].itinerary /\ Sent[m].content = <<m>>
    BY <1>2, <1>8, <2>1, StopsAre DEF Posts, SentIs
  <2>3. Sent' = Sent /\ Visited' = Visited
    BY <1>2, <1>4, <1>8 DEF Posts, SentIs
  <2>4. Stage[m] = "underway" /\ Stage'[m] = "arrived" /\ Received'[m] = <<m>>
    BY <1>2, <1>8 DEF Posts, StageIs, ReceivedIs
  <2>5. Promise!Arrive(m)
    BY <1>4, <2>2, <2>3, <2>4 DEF Promise!Arrive
  <2> QED BY <2>5 DEF Promise!Next
<1> QED BY <1>5, <1>6, <1>7, <1>8 DEF Moves

\* What is lost with a relay is lost to its journey.
LEMMA LossIsStep ==
  ASSUME AsShown, AsShown', NEW gone \in SUBSET Message, AreLost(gone)
  PROVE  [Promise!Next]_Promise!vars
<1>1. \A m \in Message : /\ Sent'[m] = Sent[m] /\ Visited'[m] = Visited[m]
                         /\ Received'[m] = Received[m]
                         /\ Stage'[m] = IF m \in gone THEN "lost" ELSE Stage[m]
                         /\ m \in gone => Stage[m] = "underway"
  BY ZenonT(60) DEF AsShown, AreLost, history, SentIs, ReceivedIs, StageIs, AtRelay
<1>2. /\ IsMap(Sent) /\ IsMap(Visited) /\ IsMap(Received)
      /\ IsMap(Sent') /\ IsMap(Visited') /\ IsMap(Stage') /\ IsMap(Received')
  BY DEF AsShown, IsMap
<1>3. Sent' = Sent /\ Visited' = Visited /\ Received' = Received
  BY <1>1, <1>2 DEF IsMap
<1>4. Stage' = [m \in Message |-> IF m \in gone THEN "lost" ELSE Stage[m]]
  BY <1>1, <1>2 DEF IsMap
<1>5. Promise!Lose(gone)
  BY <1>1, <1>3, <1>4 DEF Promise!Lose
<1> QED BY <1>5 DEF Promise!Next

\* No journey has begun at first.
LEMMA RefineInit == Init => Promise!Init
<1> SUFFICES ASSUME Init PROVE Promise!Init
  OBVIOUS
<1>1. JourneyInvariant
  BY JourneyInit
<1>2. AsShown
  BY <1>1, Shows DEF JourneyInvariant
<1>3. \A m \in Message : task[m].pc = "unsent" /\ hops[m] = <<>>
  BY DEF Init, Task
<1>4. StopsIn(<<>>) = <<>>
  BY DEF StopsIn
<1>5. \A m \in Message : /\ Sent[m] = [itinerary |-> <<>>, content |-> <<>>]
                         /\ Visited[m] = <<>> /\ Stage[m] = "unsent" /\ Received[m] = <<>>
  BY <1>2, <1>3, <1>4 DEF AsShown, SentIs, StageIs, ReceivedIs
<1> QED BY <1>2, <1>5 DEF AsShown, IsMap, Promise!Init, Promise!NotSent

\* The handling of onions implements the journey that the sender of a message is
\* promised: the stops are made in the order of the route, each once and with
\* the delay chosen for it, and only after the last one is the content
\* received, as it was sent.
THEOREM DeliveryImplementsJourney == Spec => ImplementsJourney
<1>1. JourneyInvariant => AsShown
  BY Shows DEF JourneyInvariant
<1>2. DeliveryInvariant /\ JourneyInvariant /\ JourneyInvariant' /\ AsShown /\ AsShown' /\ [Next]_vars
        => [Promise!Next]_Promise!vars
  BY StepMoves, MoveIsStep, LossIsStep DEF JourneyInvariant
<1>3. Init => Promise!Init
  BY RefineInit
<1> QED BY <1>1, <1>2, <1>3, JourneyInductive, PTL DEF Spec, ImplementsJourney, Promise!Spec

-----------------------------------------------------------------------------
(* What follows for the sender of an onion.                                *)

Proved == INSTANCE JourneyProofs WITH
  Itineraries <- {Itinerary(identities) : identities \in Routes},
  Contents <- Message,
  sent <- Sent, visited <- Visited, stage <- Stage, received <- Received

\* The stops that are made on the way of an onion are pairs of these.
Stop == UNION {{<<identities[i], i>> : i \in DOMAIN identities} : identities \in Routes}

\* The itineraries are sequences of stops.
LEMMA ItinerariesAre == {Itinerary(identities) : identities \in Routes} \subseteq Seq(Stop)
<1> SUFFICES ASSUME NEW identities \in Routes PROVE Itinerary(identities) \in Seq(Stop)
  OBVIOUS
<1>1. DOMAIN identities = 1..Len(identities) /\ Len(identities) \in Nat
  BY DeliveryAssumption
<1>2. \A i \in DOMAIN identities : <<identities[i], i>> \in Stop
  BY DEF Stop
<1>3. Itinerary(identities) \in [1..Len(identities) -> Stop]
  BY <1>1, <1>2 DEF Itinerary
<1> QED BY <1>1, <1>3

\* Onions make the journeys about which JourneyProofs is.
LEMMA OnionsMakeJourneys == Spec => Proved!Spec
<1>1. Promise!Init => Proved!Init
  BY DEF Promise!Init, Proved!Init, Promise!NotSent, Proved!NotSent
<1>2. [Promise!Next]_Promise!vars => [Proved!Next]_Proved!vars
  BY DEF Promise!Next, Promise!Depart, Promise!Visit, Promise!Arrive, Promise!Lose, Promise!vars,
         Proved!Next, Proved!Depart, Proved!Visit, Proved!Arrive, Proved!Lose, Proved!vars
<1> QED BY <1>1, <1>2, DeliveryImplementsJourney, PTL
        DEF ImplementsJourney, Promise!Spec, Proved!Spec

\* Relays unwrap an onion for the identities of its route in their order, and
\* each finds the delay that was chosen for it: whatever is switched, waited for
\* or lost meanwhile, no hop is made twice or left out.
THEOREM DeliveryInOrder == Spec => []Promise!InOrder
<1>1. Proved!Spec => []Proved!InOrder
  BY ItinerariesAre, Proved!JourneyInOrder
<1>2. Proved!InOrder => Promise!InOrder
  BY DEF Proved!InOrder, Promise!InOrder
<1> QED BY <1>1, <1>2, OnionsMakeJourneys, PTL

\* What the board gets is what was sent, from a relay at which the route ends.
THEOREM DeliveryReceivedAtTheEnd == Spec => []Promise!ReceivedAtTheEnd
<1>1. Proved!Spec => []Proved!ReceivedAtTheEnd
  BY ItinerariesAre, Proved!JourneyReceivedAtTheEnd
<1>2. Proved!ReceivedAtTheEnd => Promise!ReceivedAtTheEnd
  BY DEF Proved!ReceivedAtTheEnd, Promise!ReceivedAtTheEnd
<1> QED BY <1>1, <1>2, OnionsMakeJourneys, PTL

\* The route and the content of an onion are fixed when it is sent, and one that
\* is dropped, lost in a crash or posted is not relayed or posted any more.
THEOREM DeliverySettledForGood == Spec => Promise!SettledForGood
<1> DEFINE Settles(m) ==
      /\ Stage[m] # "unsent" => Sent'[m] = Sent[m]
      /\ Stage[m] \in {"lost", "arrived"} =>
           /\ Stage'[m] = Stage[m]
           /\ Visited'[m] = Visited[m] /\ Received'[m] = Received[m]
<1>1. Proved!Spec => Proved!SettledForGood
  BY ItinerariesAre, Proved!JourneySettled
<1>2. [\A m \in Message : Settles(m)]_Proved!vars => [\A m \in Message : Settles(m)]_Promise!vars
  BY DEF Proved!vars, Promise!vars
<1> QED BY <1>1, <1>2, OnionsMakeJourneys, PTL
        DEF Proved!SettledForGood, Promise!SettledForGood
=============================================================================
