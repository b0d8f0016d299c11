------------------------------ MODULE Accuracy ------------------------------
(***************************************************************************)
(* The second implementation of the allocation, with which the accuracy    *)
(* figures are computed (accuracy.py).  It counts free chunks instead of   *)
(* naming cells, takes relays off its queue once their request is          *)
(* fulfilled, and can hand out the chunks that remain at the end.          *)
(*                                                                         *)
(* scaled_weight and assigned_weight are fractions in the source; here     *)
(* they are numbers of identities.                                         *)
(***************************************************************************)
EXTENDS Integers, FiniteSetsExt

CONSTANTS DEPTH,         \* of the identity tree
          Relay,
          MAX_WEIGHT     \* bound of the relays' weights

\* A list of relays, a depth and weights that are finite.
ASSUME AccuracyAssumption == IsFiniteSet(Relay) /\ DEPTH \in Nat /\ MAX_WEIGHT \in Nat

VARIABLES weight, overallocate,     \* the arguments
          queue,                    \* relays on the heap
          allocation_request, assigned_weight,
          current_size, num_free, pc

vars == <<weight, overallocate, queue, allocation_request, assigned_weight,
          current_size, num_free, pc>>

allocation_space_size == 2^DEPTH

Sum(f) == FoldSet(LAMBDA r, acc : acc + f[r], 0, Relay)

\* floor(allocation_space_size * scaled_weight), scaled_weight being 0 for
\* each relay if there is no weight at all.
Request(r) == IF Sum(weight) = 0 THEN 0
              ELSE (allocation_space_size * weight[r]) \div Sum(weight)

Init == /\ weight \in [Relay -> 0..MAX_WEIGHT]
        /\ overallocate \in BOOLEAN
        /\ queue = Relay
        /\ allocation_request = [r \in Relay |-> Request(r)]
        /\ assigned_weight = [r \in Relay |-> 0]
        /\ current_size = allocation_space_size
        /\ num_free = 1
        /\ pc = "loop"

\* heappop: a relay with a largest request, any one of several.
Popped(r) == r \in queue /\ \A q \in queue : allocation_request[q] <= allocation_request[r]

\* Relays return to the heap unless they have no request (any more).
Pushed(r, left) == queue' = IF left = 0 THEN queue \ {r} ELSE queue

Looping == pc = "loop" /\ queue # {} /\ current_size > 0

SplitChunks ==
  /\ Looping
  /\ \E r \in queue : Popped(r) /\ allocation_request[r] < current_size
                     /\ Pushed(r, allocation_request[r])
  /\ current_size' = current_size \div 2
  /\ num_free' = num_free * 2
  /\ UNCHANGED <<weight, overallocate, allocation_request, assigned_weight, pc>>

\* What is asserted of a request when a chunk is taken off it: the allocation
\* stops if it does not hold.
Asserted(left) == left >= 0 /\ left < current_size

\* Mutant: a relay that has got a chunk has got all it asked for.
AssignChunkUncharged ==
  /\ Looping
  /\ \E r \in queue :
       /\ Popped(r) /\ allocation_request[r] >= current_size
       /\ allocation_request' = [allocation_request EXCEPT ![r] = 0]
       /\ assigned_weight' = [assigned_weight EXCEPT ![r] = @ + current_size]
       /\ Pushed(r, 0)
  /\ num_free' = num_free - 1
  /\ UNCHANGED <<weight, overallocate, current_size, pc>>

AssignChunk ==
  /\ Looping
  /\ \E r \in queue :
       /\ Popped(r) /\ allocation_request[r] >= current_size
       /\ Asserted(allocation_request[r] - current_size)
       /\ allocation_request' = [allocation_request EXCEPT ![r] = @ - current_size]
       /\ assigned_weight' = [assigned_weight EXCEPT ![r] = @ + current_size]
       /\ Pushed(r, allocation_request[r] - current_size)
  /\ num_free' = num_free - 1
  /\ UNCHANGED <<weight, overallocate, current_size, pc>>

EndLoop == /\ pc = "loop" /\ ~Looping
           /\ pc' = IF overallocate THEN "overallocate" ELSE "done"
           /\ UNCHANGED <<weight, overallocate, queue, allocation_request,
                          assigned_weight, current_size, num_free>>

\* Mutant: the chunks that are left are not counted down.
OverallocateUncounted ==
  /\ pc = "overallocate" /\ queue # {} /\ num_free > 0
  /\ \E r \in queue :
       /\ Popped(r)
       /\ assigned_weight' = [assigned_weight EXCEPT ![r] = @ + 1]
       /\ queue' = queue \ {r}
  /\ UNCHANGED <<weight, overallocate, allocation_request, current_size, num_free, pc>>

\* Relays that receive a remaining chunk are not put back.
Overallocate ==
  /\ pc = "overallocate" /\ queue # {} /\ num_free > 0
  /\ \E r \in queue :
       /\ Popped(r)
       /\ assigned_weight' = [assigned_weight EXCEPT ![r] = @ + 1]
       /\ queue' = queue \ {r}
  /\ num_free' = num_free - 1
  /\ UNCHANGED <<weight, overallocate, allocation_request, current_size, pc>>

\* Mutant: the loop is to go on until no chunk remains.
EndOverallocationFull ==
  /\ pc = "overallocate" /\ num_free = 0
  /\ pc' = "done"
  /\ UNCHANGED <<weight, overallocate, queue, allocation_request, assigned_weight,
                 current_size, num_free>>

EndOverallocation ==
  /\ pc = "overallocate" /\ (queue = {} \/ num_free = 0)
  /\ pc' = "done"
  /\ UNCHANGED <<weight, overallocate, queue, allocation_request, assigned_weight,
                 current_size, num_free>>

Next == SplitChunks \/ AssignChunk \/ EndLoop \/ Overallocate \/ EndOverallocation

Spec == Init /\ [][Next]_vars
FairSpec == Spec /\ WF_vars(Next)

-----------------------------------------------------------------------------
\* What the relays' requests leave of the identities.
Unrequested == allocation_space_size - Sum([r \in Relay |-> Request(r)])

\* As long as the chunks have a size, those that are counted as free are exactly
\* what the assigned ones leave of the identities.  A relay without a request
\* makes the loop split chunks of one identity, too: from then on, and in the
\* second loop, as many are counted and may be given out as remain and once
\* more as many, which do not exist.  They go to relays without a request,
\* one to each.
ChunksAreAccountedFor ==
  /\ num_free >= 0
  /\ current_size > 0 =>
       num_free * current_size + Sum(assigned_weight) = allocation_space_size
  /\ current_size = 0 =>
       num_free + Sum(assigned_weight) = allocation_space_size + Unrequested
  /\ \A r \in Relay : assigned_weight[r] > Request(r) =>
       current_size = 0 /\ Request(r) = 0 /\ assigned_weight[r] = 1

\* Without over-allocation each relay gets its share, rounded down: the same
\* share that the authorities' allocate() computes for it.
SharesAreRequests ==
  pc = "done" /\ ~overallocate => \A r \in Relay : assigned_weight[r] = Request(r)

\* The loops end, and no assertion fails before.
Ends == <>(pc = "done")

\* What the comment of the second loop says: chunks that remain are allocated.
RemainderIsAllocated ==
  pc = "done" /\ overallocate /\ Unrequested > 0
    => \E r \in Relay : assigned_weight[r] > Request(r)
=============================================================================
