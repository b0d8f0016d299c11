----------------------------- MODULE MCAuthority -----------------------------
(***************************************************************************)
(* Values of the constants of AuthorityService for model checking.         *)
(***************************************************************************)
EXTENDS AuthorityService, FiniteSetsExt

\* A contiguous range of identities for each key, in proportion to the
\* weights: one of the partitions allocation::allocate may compute.
MCAllocate(weights) ==
  LET total    == FoldSet(LAMBDA k, acc : acc + weights[k], 0, DOMAIN weights)
      share(k) == (Cardinality(Identity) * weights[k]) \div total
      first(k) == FoldSet(LAMBDA q, acc : acc + share(q), 0, {q \in DOMAIN weights : q < k})
  IN  [k \in DOMAIN weights |-> {x \in Identity : x >= first(k) /\ x < first(k) + share(k)}]
=============================================================================
