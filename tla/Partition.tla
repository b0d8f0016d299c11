------------------------------ MODULE Partition ------------------------------
(***************************************************************************)
(* What allocation::allocate promises to the rest of the system, without   *)
(* the tree: every relay receives exactly its quota of the identities, an  *)
(* identity is given to at most one relay, and what has been given is      *)
(* never taken back or given again.                                        *)
(***************************************************************************)
EXTENDS Integers, FiniteSets

CONSTANTS Leaf,      \* the identities, a range of numbers
          NoRelay    \* not a relay: the owner of an identity nobody has

VARIABLES quota,     \* how many identities each relay is to receive
          owner,     \* who has each identity
          closed     \* the allocation has been handed out

vars == <<quota, owner, closed>>

\* The identities of each relay, and those nobody has.
Owned == LET owns == owner IN
           [r \in DOMAIN quota \cup {NoRelay} |-> {l \in Leaf : owns[l] = r}]

Met == LET owned == Owned IN \A r \in DOMAIN quota : Cardinality(owned[r]) = quota[r]

\* The quotas are no more than there is, and nothing is given yet.
Init == /\ quota \in [DOMAIN quota -> Nat]
        /\ Cardinality(UNION {{r} \X (1..quota[r]) : r \in DOMAIN quota})
             <= Cardinality(Leaf)
        /\ owner = [l \in Leaf |-> NoRelay]
        /\ closed = FALSE

\* A range of unowned identities is given to a relay that is still owed as
\* many.
Grant ==
  /\ ~closed
  /\ \E given \in {{l \in Leaf : owner'[l] # owner[l]}} :
       /\ given # {} /\ \A l, k \in given : l..k \subseteq given
       /\ \A l \in given : owner[l] = NoRelay
       /\ \E r \in DOMAIN quota :
            /\ \A l \in given : owner'[l] = r
            /\ Cardinality(Owned[r]) + Cardinality(given) <= quota[r]
  /\ DOMAIN owner' = Leaf
  /\ UNCHANGED <<quota, closed>>

Close == ~closed /\ Met /\ closed' = TRUE /\ UNCHANGED <<quota, owner>>

Next == Grant \/ Close
Spec == Init /\ [][Next]_vars
=============================================================================
