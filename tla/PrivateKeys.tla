----------------------------- MODULE PrivateKeys -----------------------------
(***************************************************************************)
(* How a relay comes by the private key of an identity (get_private_key()  *)
(* of bin/relay.rs): among the cells it got from an authority, each with   *)
(* one key, it looks for the one that contains the identity's leaf, and    *)
(* from that cell's key derives those of the nodes down to the leaf.       *)
(***************************************************************************)
EXTENDS Hibe, SequencesExt

CONSTANT MAX_CELLS   \* bound of the number of cells a relay has

VARIABLES identity,        \* the identity of an onion
          products,        \* what is cached of the authority's public key
          received_keys,   \* the key of each cell
          name,            \* the node whose key is in hand
          key,             \* that key
          subnodes,        \* the nodes to go down to
          pc

vars == <<identity, products, received_keys, name, key, subnodes, pc>>

Cell == {n \in [len : 0..HIERARCHY_DEPTH, path : 0..2^HIERARCHY_DEPTH - 1] : IsCanonical(n)}

\* HashMapper: different bits become different elements, neither of them 0.
hashed(bit) == bit + 1
mapped(n) == [i \in 1..n.len |-> hashed(map_identity(n)[i])]

\* The elements that occur at each place of an identity.
identity_matrix ==
  LET all_zero == mapped(number(0))
      all_one == mapped(number(2^WORD_BITS - 1))
  IN  [i \in 1..HIERARCHY_DEPTH |-> {all_zero[i], all_one[i]}]

\* Caches of all products, of some of them, and of none.
Matrices == {identity_matrix, <<{1}, {2}>>, <<>>}

\* The cells of one allocation do not overlap.
CellSets == {cells \in UNION {kSubset(n, Cell) : n \in 0..MAX_CELLS} :
               \A a, b \in cells : contains(a, b) => a = b}

\* There is no key at first; name and key are set before they are used.
NoKey == <<>>

Init ==
  /\ identity \in Word
  /\ products \in {generate(matrix) : matrix \in Matrices}
  /\ \E cells \in CellSets, r \in Scalar :
       received_keys = [cell \in cells |-> generate_key(<<>>, mapped(cell), r)]
  /\ name = ROOT /\ key = NoKey /\ subnodes = <<>>
  /\ pc = "find"

node == number(identity)

\* The map is searched in any order.  The i-th node of a walk is at depth i;
\* those down to the cell are skipped.
Find ==
  /\ pc = "find"
  /\ \E cell \in DOMAIN received_keys :
       /\ contains(cell, node)
       /\ name' = cell
       /\ key' = received_keys[cell]
       /\ subnodes' = SubSeq(walk(node), cell.len + 1, HIERARCHY_DEPTH)
  /\ pc' = "derive"
  /\ UNCHANGED <<identity, products, received_keys>>

NotFound ==
  /\ pc = "find"
  /\ \A cell \in DOMAIN received_keys : ~contains(cell, node)
  /\ pc' = "none"
  /\ UNCHANGED <<identity, products, received_keys, name, key, subnodes>>

Derive ==
  /\ pc = "derive" /\ subnodes # <<>>
  /\ \E t \in Scalar :
       LET elements == mapped(Head(subnodes)) IN
         key' = derive_key(products, key, Front(elements), Last(elements), t)
  /\ name' = Head(subnodes)
  /\ subnodes' = Tail(subnodes)
  /\ UNCHANGED <<identity, products, received_keys, pc>>

Return ==
  /\ pc = "derive" /\ subnodes = <<>>
  /\ pc' = "some"
  /\ UNCHANGED <<identity, products, received_keys, name, key, subnodes>>

Next == Find \/ NotFound \/ Derive \/ Return

Spec == Init /\ [][Next]_vars

-----------------------------------------------------------------------------
GeneratedKeys(n) == {generate_key(<<>>, mapped(n), r) : r \in Scalar}

\* The key in hand is one that the authority could have generated for the
\* node it is for, however far it was derived and whatever was cached; and
\* the next derivation can lead to every such key of the next node, so that a
\* derived key tells nothing of the cell it was derived from.
DerivedLikeGenerated ==
  pc = "derive" =>
    /\ key \in GeneratedKeys(name)
    /\ subnodes # <<>> =>
         LET elements == mapped(Head(subnodes)) IN
           {derive_key(products, key, Front(elements), Last(elements), t) : t \in Scalar}
             = GeneratedKeys(Head(subnodes))

\* The key that is returned opens what is encapsulated for the identity's
\* leaf, and for no other leaf (but for the random number 0).
OpensItsLeaf ==
  pc = "some" => \A n \in Cell : is_leaf(n) =>
    (opens(key, mapped(n)) <=> n = node \/ key[2] = 0)

-----------------------------------------------------------------------------
(* The identity tree: what the bit arithmetic of NodeName means, for each  *)
(* cell and the leaf that is looked for.                                   *)

\* The key of a cell can be derived into that of a leaf (the HIBE identity of
\* the first is a prefix of that of the second) exactly when the first
\* contains the second: what get_address() answers by contains() is what the
\* relay's keys can open.
DerivableIffContained ==
  \A cell \in DOMAIN received_keys :
    contains(cell, node) <=> IsPrefix(mapped(cell), mapped(node))

\* However many bits an identity has above the depth of the tree, a cell has
\* its part of all identities, and no two cells of a relay share one.
IdentitiesSplitByLevel ==
  LET Ids(n) == {x \in Word : contains(n, number(x))} IN
  \A a, b \in DOMAIN received_keys :
    /\ Cardinality(Ids(a)) = subtree_size(a) * 2^(WORD_BITS - HIERARCHY_DEPTH)
    /\ a # b => Ids(a) \cap Ids(b) = {}
=============================================================================
