------------------------------ MODULE NodeName ------------------------------
(***************************************************************************)
(* Names of the nodes of the binary identity tree (nodename.rs).  A node   *)
(* is its depth and its path, the path being the bits from the root to the *)
(* node read as a number: the children of w are 2w and 2w+1.  The leaves   *)
(* are the identities an onion can be addressed to, and an inner node      *)
(* stands for all identities below it.                                     *)
(*                                                                         *)
(* The operators are those of the source, on numbers: a shift by k is a    *)
(* multiplication or a division by 2^k.  Paths are u64 in the source and   *)
(* HIERARCHY_DEPTH is 32, so that no shift here loses a bit.               *)
(***************************************************************************)
EXTENDS Integers, Sequences

CONSTANTS HIERARCHY_DEPTH,  \* depth of the leaves (32 in the source)
          WORD_BITS         \* width of the identities a caller passes (64)

ASSUME DepthAssumption == /\ HIERARCHY_DEPTH \in Nat
                          /\ WORD_BITS \in Nat
                          /\ HIERARCHY_DEPTH < WORD_BITS

Node == [len : 0..HIERARCHY_DEPTH, path : Nat]

\* The numbers a caller may pass as an identity or as a path.
Word == 0 .. 2^WORD_BITS - 1

\* A node whose path has no bit beyond its depth, as every constructor of
\* the source makes it.
IsCanonical(n) == n.path < 2^n.len

ROOT == [len |-> 0, path |-> 0]

\* Mutant: the path is not masked.
canonicalizedNoMask(n) == n

canonicalized(n) == [n EXCEPT !.path = n.path % 2^n.len]

new(length, path) == canonicalized([len |-> length, path |-> path])

\* The leaf of an identity: its low HIERARCHY_DEPTH bits.
number(path) == new(HIERARCHY_DEPTH, path)

left(n)   == [len |-> n.len + 1, path |-> 2 * n.path]
right(n)  == [len |-> n.len + 1, path |-> 2 * n.path + 1]

subtree_size(n) == 2^(HIERARCHY_DEPTH - n.len)

is_leaf(n) == n.len = HIERARCHY_DEPTH

\* n.contains(m): m is n or below n.
contains(n, m) == /\ n.len <= m.len
                  /\ m.path \div 2^(m.len - n.len) = n.path

\* The nodes from the child of the root down to n.
walk(n) == [i \in 1..n.len |-> new(i, n.path \div 2^(n.len - i))]

\* Mutant: the path is read from its low end.
map_identityReversed(n) == [i \in 1..n.len |-> (n.path \div 2^(i - 1)) % 2]

\* The HIBE identity of a node: the bits of its path, the topmost first.
map_identity(n) == [i \in 1..n.len |-> (n.path \div 2^(n.len - i)) % 2]
=============================================================================
