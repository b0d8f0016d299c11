----------------------------- MODULE MCNetwork -----------------------------
(***************************************************************************)
(* Values of the constants of Network for model checking.                  *)
(***************************************************************************)
EXTENDS NetworkCalm, FiniteSetsExt

MCWeightOf == [r \in Relay |-> r]

MCIdentity == 0..5

\* A contiguous range of identities for each key, in the order of the relays'
\* weights and in proportion to them: one of the partitions that
\* allocation::allocate may compute from the requests alone.
MCAllocate(weights) ==
  LET total    == FoldSet(LAMBDA k, acc : acc + weights[k], 0, DOMAIN weights)
      share(k) == (Cardinality(MCIdentity) * weights[k]) \div total
      before(k) == {q \in DOMAIN weights : q[2] < k[2] \/ (q[2] = k[2] /\ q[1] < k[1])}
      first(k) == FoldSet(LAMBDA q, acc : acc + share(q), 0, before(k))
  IN  [k \in DOMAIN weights |-> {x \in MCIdentity : x >= first(k) /\ x < first(k) + share(k)}]

\* MCAllocate gives an identity to one relay at most, for all weights that the
\* relays may have under two keys each.
ASSUME AllocatesToOne ==
  \A S \in SUBSET ((1..2) \X Relay) : \A weights \in [S -> 0..2] :
    (\E k \in S : weights[k] # 0) => DividesAmong(S, weights)
=============================================================================
