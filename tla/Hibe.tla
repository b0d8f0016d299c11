-------------------------------- MODULE Hibe --------------------------------
(***************************************************************************)
(* The keys of the hierarchical identity-based encryption of Boneh, Boyen  *)
(* and Goh, generated and derived with the help of cached products         *)
(* (hibe.rs).                                                              *)
(*                                                                         *)
(* Group elements are represented by their exponents.  An element of G2 is *)
(* a combination of independent generators: the master key, the element    *)
(* g3 of the public key (its field 3), and h[1], ..., h[HIERARCHY_DEPTH]   *)
(* (its field 4).  An element of G1 is a multiple of g (field 0).          *)
(***************************************************************************)
EXTENDS NodeName, FiniteSetsExt

CONSTANT ORDER   \* of the groups, a prime

ASSUME OrderAssumption == ORDER \in Nat /\ ORDER > 2

Scalar == 0..ORDER - 1

MASTER == -1
G3 == 0
Generator == {MASTER, G3} \cup (1..HIERARCHY_DEPTH)

generator(i) == [j \in Generator |-> IF j = i THEN 1 ELSE 0]
u ++ v == [j \in Generator |-> (u[j] + v[j]) % ORDER]
u ** s == [j \in Generator |-> (u[j] * s) % ORDER]

\* The products of the elements that may come at each place of an identity,
\* as far as `identities' lists them.
generate(identities) ==
  [p \in UNION {{i} \X identities[i] : i \in DOMAIN identities} |-> generator(p[1]) ** p[2]]

\* Mutant: the cache is looked up by the element alone.
productAnywhere(products, index, element) ==
  LET cached == {p \in DOMAIN products : p[2] = element} IN
  IF cached # {} THEN products[CHOOSE p \in cached : TRUE] ELSE generator(index) ** element

product(products, index, element) ==
  IF <<index, element>> \in DOMAIN products THEN products[<<index, element>>]
  ELSE generator(index) ** element

\* What both functions multiply by their random number.
identity_product(products, identity) ==
  [j \in Generator |->
     (generator(G3)[j] +
      MapThenSumSet(LAMBDA i : product(products, i, identity[i])[j], DOMAIN identity)) % ORDER]

generate_key(products, identity, r) ==
  <<generator(MASTER) ++ (identity_product(products, identity) ** r),
    r,
    [i \in 1..HIERARCHY_DEPTH - Len(identity) |-> generator(Len(identity) + i) ** r]>>

\* Mutant: the elements for further derivation are paired with the public
\* ones of the parent.
derive_keyUnshifted(products, parent_key, parent_name, child, t) ==
  <<parent_key[1] ++ (parent_key[3][1] ** child)
      ++ (identity_product(products, Append(parent_name, child)) ** t),
    (parent_key[2] + t) % ORDER,
    [i \in 1..Len(parent_key[3]) - 1 |->
       parent_key[3][i + 1] ++ (generator(Len(parent_name) + i) ** t)]>>

derive_key(products, parent_key, parent_name, child, t) ==
  <<parent_key[1] ++ (parent_key[3][1] ** child)
      ++ (identity_product(products, Append(parent_name, child)) ** t),
    (parent_key[2] + t) % ORDER,
    [i \in 1..Len(parent_key[3]) - 1 |->
       parent_key[3][i + 1] ++ (generator(Len(parent_name) + 1 + i) ** t)]>>

\* decapsulate(): the pairing of the first element with what was encapsulated
\* for an identity under a random number, over that of the second one, is a
\* multiple of the master key alone.
opens(key, identity) ==
  key[1] ++ (identity_product(<<>>, identity) ** (ORDER - key[2])) = generator(MASTER)
=============================================================================
