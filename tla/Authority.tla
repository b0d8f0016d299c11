----------------------------- MODULE Authority -----------------------------
(***************************************************************************)
(* A directory authority (bin/authority.rs).  It keeps two stores of       *)
(* registrations and two of allocations, each a pair of a current and a    *)
(* new one.  Relays register in the new store; once an epoch, a scheduler  *)
(* task turns the registrations into a new allocation with fresh HIBE      *)
(* keys, and at the switchover it copies the new stores to the current     *)
(* ones and clears the new ones.  Each copy and each clear takes its own   *)
(* locks, so that requests are handled between any two of them.            *)
(*                                                                         *)
(* The scheduler and the request handlers are here; the clock and who      *)
(* calls the handlers are left to the modules that use this one.           *)
(***************************************************************************)
EXTENDS Epoch, FiniteSets

CONSTANT Allocate(_)    \* allocation::allocate: from the weights of keys to
                        \* the identities of each key (module Allocation)

VARIABLES now,
          request_store,     \* <<current, new>> registrations
          allocation_store,  \* <<current, new>> allocations
          epoch,             \* the epoch the scheduler is preparing
          pc,                \* where the scheduler is
          setups             \* number of BBG setups: the last one's keys

stores == <<request_store, allocation_store>>
vars == <<stores, epoch, pc, setups>>

-----------------------------------------------------------------------------
(* The stores.                                                             *)

Put(f, k, v) == [x \in DOMAIN f \cup {k} |-> IF x = k THEN v ELSE f[x]]

NoRequests == [requests |-> <<>>, addresses |-> <<>>, counter |-> 0]

\* public_params and master_key always change together: both are the number
\* of the setup that made them, 0 for the default ones.
NoAllocations == [allocations |-> <<>>, addresses |-> <<>>, params |-> 0]

\* Mutant: the number of known addresses serves as the next id.
insertSized(reqs, key, address, weight) ==
  [requests  |-> Put(reqs.requests, key,
                     [id |-> Cardinality(DOMAIN reqs.requests), weight |-> weight]),
   addresses |-> Put(reqs.addresses, key, address),
   counter   |-> reqs.counter + 1]

insert(reqs, key, address, weight) ==
  [requests  |-> Put(reqs.requests, key, [id |-> reqs.counter, weight |-> weight]),
   addresses |-> Put(reqs.addresses, key, address),
   counter   |-> reqs.counter + 1]

\* The relay that an identity is allocated to: {} or the set of its address.
get_address(allocs, identity) ==
  {allocs.addresses[key] : key \in {k \in DOMAIN allocs.allocations :
                                      identity \in allocs.allocations[k]}}

\* The identities whose HIBE keys a relay receives: none for an unknown key.
get_hibe_keys(allocs, key) ==
  IF key \in DOMAIN allocs.allocations THEN allocs.allocations[key] ELSE {}

\* Mutant: relays are told apart by the order of their registrations.
AllocatedById(reqs) ==
  LET requests == reqs.requests
      key_of == [id \in {requests[k].id : k \in DOMAIN requests} |->
                   CHOOSE k \in DOMAIN requests : requests[k].id = id]
      granted == Allocate([key \in {<<id, id>> : id \in DOMAIN key_of} |->
                             requests[key_of[key[1]]].weight])
  IN  [k \in DOMAIN requests |-> granted[<<requests[k].id, requests[k].id>>]]

\* The body of allocate(): identities by id, and then by the key of the id.
Allocated(reqs) ==
  LET requests == reqs.requests
      ids      == {requests[k].id : k \in DOMAIN requests}
      granted  == Allocate([k \in DOMAIN requests |-> requests[k].weight])
      of_id(id) == UNION {granted[k] : k \in {q \in DOMAIN requests : requests[q].id = id}}
      reverse_keys == [id \in ids |-> CHOOSE k \in DOMAIN requests : requests[k].id = id]
  IN  [k \in {reverse_keys[id] : id \in ids} |-> of_id(requests[k].id)]

Weightless(reqs) == \A k \in DOMAIN reqs.requests : reqs.requests[k].weight = 0

-----------------------------------------------------------------------------
(* Request handlers.                                                       *)

handle_request(key, address, weight) ==
  /\ request_store' = <<request_store[1],
                        insert(request_store[2], key, address, weight)>>
  /\ UNCHANGED <<allocation_store, epoch, pc, setups>>

-----------------------------------------------------------------------------
(* The scheduler.                                                          *)

Init == /\ request_store = <<NoRequests, NoRequests>>
        /\ allocation_store = <<NoAllocations, NoAllocations>>
        /\ epoch = next(now)
        /\ pc = "wait_allocation"
        /\ setups = 0

\* The process restarts: nothing is kept on disk.  setups goes on counting, so
\* that keys of different setups stay different.
Restart == /\ request_store' = <<NoRequests, NoRequests>>
           /\ allocation_store' = <<NoAllocations, NoAllocations>>
           /\ epoch' = next(now)
           /\ pc' = "wait_allocation"
           /\ UNCHANGED setups

NumRelays == Cardinality(DOMAIN request_store[2].addresses)

TooFewRelays ==
  pc = "wait_allocation" /\ has_come(epoch.allocation_start, now) /\ NumRelays < 2

\* Mutant: skipping an epoch drops its registrations.
SkipClears ==
  /\ TooFewRelays
  /\ request_store' = <<request_store[1], NoRequests>>
  /\ UNCHANGED <<allocation_store, epoch, pc, setups>>

\* "Skipping this epoch" only goes back to waiting for the same epoch's
\* allocation time, which has come.
Skip == TooFewRelays /\ UNCHANGED vars

\* Mutant: two relays are not enough.
StartAllocationMoreThanTwo ==
  /\ pc = "wait_allocation" /\ has_come(epoch.allocation_start, now)
  /\ NumRelays > 2
  /\ pc' = "allocate"
  /\ UNCHANGED <<stores, epoch, setups>>

StartAllocation ==
  /\ pc = "wait_allocation" /\ has_come(epoch.allocation_start, now)
  /\ NumRelays >= 2
  /\ pc' = "allocate"
  /\ UNCHANGED <<stores, epoch, setups>>

\* Mutant: the addresses are taken after all requests have been taken.
AllocateNoAddresses ==
  LET new == request_store[2] IN
  /\ pc = "allocate"
  /\ setups' = setups + 1
  /\ allocation_store' = <<allocation_store[1],
       [allocations |-> IF Weightless(new) THEN <<>> ELSE Allocated(new),
        addresses   |-> <<>>,
        params      |-> setups + 1]>>
  /\ pc' = "wait_switchover"
  /\ request_store' = <<request_store[1], NoRequests>>
  /\ UNCHANGED epoch

\* allocate(), under the write locks of both new stores.  If all weights are
\* zero the division in allocation::allocate panics: the scheduler task ends,
\* with the requests taken and nothing allocated.
AllocateRelays ==
  LET new  == request_store[2]
      dies == Weightless(new)
  IN
  /\ pc = "allocate"
  /\ setups' = setups + 1
  /\ allocation_store' = <<allocation_store[1],
       [allocations |-> IF dies THEN <<>> ELSE Allocated(new),
        addresses   |-> new.addresses,
        params      |-> setups + 1]>>
  /\ pc' = IF dies THEN "dead" ELSE "wait_switchover"
  /\ request_store' = <<request_store[1], NoRequests>>
  /\ UNCHANGED epoch

StartAdvance ==
  /\ pc = "wait_switchover" /\ has_come(epoch.switchover, now)
  /\ pc' = "advance_requests"
  /\ UNCHANGED <<stores, epoch, setups>>

\* advance(), in the four steps between which its locks are released.
AdvanceRequests ==
  /\ pc = "advance_requests"
  /\ request_store' = <<request_store[2], request_store[2]>>
  /\ pc' = "advance_allocations"
  /\ UNCHANGED <<allocation_store, epoch, setups>>

\* Mutant: update_from forgets the public parameters.
AdvanceAllocationsOnly ==
  /\ pc = "advance_allocations"
  /\ allocation_store' = <<[allocation_store[2] EXCEPT !.params = allocation_store[1].params],
                           allocation_store[2]>>
  /\ pc' = "clear_requests"
  /\ UNCHANGED <<request_store, epoch, setups>>

\* Mutant: the new allocations are cleared before they have been copied.
AdvanceAllocationsLate ==
  /\ pc = "advance_allocations"
  /\ allocation_store' = <<NoAllocations, NoAllocations>>
  /\ pc' = "clear_requests"
  /\ UNCHANGED <<request_store, epoch, setups>>

AdvanceAllocations ==
  /\ pc = "advance_allocations"
  /\ allocation_store' = <<allocation_store[2], allocation_store[2]>>
  /\ pc' = "clear_requests"
  /\ UNCHANGED <<request_store, epoch, setups>>

ClearRequests ==
  /\ pc = "clear_requests"
  /\ request_store' = <<request_store[1], NoRequests>>
  /\ pc' = "clear_allocations"
  /\ UNCHANGED <<allocation_store, epoch, setups>>

\* Mutant: the scheduler keeps preparing the epoch it has switched to.
ClearAllocationsSameEpoch ==
  /\ pc = "clear_allocations"
  /\ allocation_store' = <<allocation_store[1], NoAllocations>>
  /\ pc' = "wait_allocation"
  /\ UNCHANGED <<request_store, epoch, setups>>

\* Mutant: the current allocations are cleared, not the new ones.
ClearAllocationsCurrent ==
  /\ pc = "clear_allocations"
  /\ allocation_store' = <<NoAllocations, allocation_store[2]>>
  /\ epoch' = next(now)
  /\ pc' = "wait_allocation"
  /\ UNCHANGED <<request_store, setups>>

\* The last step of advance(); the scheduler turns to the next epoch.
ClearAllocations ==
  /\ pc = "clear_allocations"
  /\ allocation_store' = <<allocation_store[1], NoAllocations>>
  /\ epoch' = next(now)
  /\ pc' = "wait_allocation"
  /\ UNCHANGED <<request_store, setups>>

Scheduler ==
  \/ Skip \/ StartAllocation \/ AllocateRelays \/ StartAdvance
  \/ AdvanceRequests \/ AdvanceAllocations \/ ClearRequests \/ ClearAllocations

\* The scheduler has something to do other than to wait for a time or, having
\* too few relays, to ask again for their number.
Busy ==
  \/ pc = "wait_allocation" /\ has_come(epoch.allocation_start, now) /\ NumRelays >= 2
  \/ pc = "wait_switchover" /\ has_come(epoch.switchover, now)
  \/ pc \in {"allocate", "advance_requests", "advance_allocations",
             "clear_requests", "clear_allocations"}
=============================================================================
