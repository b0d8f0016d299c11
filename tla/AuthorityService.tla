-------------------------- MODULE AuthorityService --------------------------
(***************************************************************************)
(* One authority with its clock and its callers: any relay may register at *)
(* any time.  Three history variables record what the properties relate    *)
(* the stores to.                                                          *)
(***************************************************************************)
EXTENDS Authority, Sequences

CONSTANTS Key,                 \* keys under which relays register
          Weight,              \* weights they ask for
          Identity,            \* leaves of the identity tree
          MAX_TIME,            \* bound of the clock
          MAX_REGISTRATIONS    \* bound of the number of registrations

VARIABLES registrations,   \* how many registrations have been answered "ok"
          ontime,          \* keys registered since the new requests were
                           \* cleared and before they were taken
          made,            \* the result of each allocate()
          prepared,        \* the epochs those were made for
          skipped          \* epochs of which the log says "skipping this epoch"

history == <<registrations, ontime, made, prepared, skipped>>
allVars == <<now, vars, history>>

ServiceInit == /\ now \in 0..EPOCH_DURATION - 1
               /\ Init
               /\ registrations = 0 /\ ontime = {} /\ made = <<>> /\ prepared = <<>>
               /\ skipped = {}

\* A relay's address is told apart from others by the key it came with.
Register ==
  /\ registrations < MAX_REGISTRATIONS
  /\ \E key \in Key, weight \in Weight :
       /\ handle_request(key, key, weight)
       /\ ontime' = IF pc \in {"wait_allocation", "allocate", "clear_allocations"}
                      THEN ontime \cup {key} ELSE ontime
  /\ registrations' = registrations + 1
  /\ UNCHANGED <<now, made, prepared, skipped>>

\* The scheduler's own steps take no time on this clock.
Tick == /\ now < MAX_TIME /\ ~Busy
        /\ now' = now + 1
        /\ UNCHANGED <<vars, history>>

SkipStep == Skip /\ skipped' = skipped \cup {epoch} /\ UNCHANGED <<ontime, made, prepared>>

AllocateStep == /\ AllocateRelays
                /\ made' = Append(made, allocation_store'[2])
                /\ prepared' = Append(prepared, epoch)
                /\ UNCHANGED <<ontime, skipped>>

ClearStep == ClearRequests /\ ontime' = {} /\ UNCHANGED <<made, prepared, skipped>>

OtherStep == /\ \/ StartAllocation \/ StartAdvance \/ AdvanceRequests
                \/ AdvanceAllocations \/ ClearAllocations
             /\ UNCHANGED <<ontime, made, prepared, skipped>>

SchedulerStep == /\ SkipStep \/ AllocateStep \/ ClearStep \/ OtherStep
                 /\ UNCHANGED <<now, registrations>>

ServiceNext == SchedulerStep \/ Register \/ Tick

ServiceSpec == ServiceInit /\ [][ServiceNext]_allVars

\* The clock runs, and the scheduler task is polled when it can go on.
FairServiceSpec == ServiceSpec /\ WF_allVars(SchedulerStep) /\ WF_allVars(Tick)

-----------------------------------------------------------------------------
\* No two requests of a store have the same id, whatever the order of
\* registrations, repeated registrations and clears: allocate() finds the key
\* of an id through reverse_keys.
UniqueIds ==
  \A i \in 1..2 : LET r == request_store[i].requests IN
    \A k, q \in DOMAIN r : r[k].id = r[q].id => k = q

\* A relay that got its "ok" before the requests were taken has an entry in
\* the allocation made from them, although registrations, the scheduler's
\* count and the clear of the last epoch interleave freely.
OnTimeMeansAllocated ==
  pc \in {"wait_switchover", "advance_requests", "advance_allocations", "clear_requests"}
    => ontime \subseteq DOMAIN allocation_store[2].allocations

\* Allocations, addresses and keys that are served together were made
\* together: either store holds nothing, or one result of allocate() in full.
NeverMixed ==
  \A i \in 1..2 : LET allocs == allocation_store[i] IN
    allocs # NoAllocations => allocs.params > 0 /\ allocs = made[allocs.params]

\* Every allocated key has an address, so that get_address(), which indexes
\* the addresses, does not panic; and it is the address the key came with.
AddressesKnown ==
  \A i \in 1..2 : \A k \in DOMAIN allocation_store[i].allocations :
    /\ k \in DOMAIN allocation_store[i].addresses
    /\ allocation_store[i].addresses[k] = k

\* No epoch is allocated for twice, even after epochs were skipped or their
\* allocation came late: the keys of an epoch are never replaced by others.
OneAllocationPerEpoch ==
  \A i, j \in 1..Len(prepared) :
    i < j => prepared[i].registration < prepared[j].registration

\* Keys that relays and clients may have fetched as the next ones are never
\* withdrawn: a new allocation is only replaced or cleared once it is the
\* current one.
NextKeysBecomeCurrent ==
  [][allocation_store[2] # NoAllocations /\ allocation_store'[2] # allocation_store[2]
       => allocation_store[1] = allocation_store[2]]_allVars

\* With enough relays in time for an epoch, the next switchover happens: no
\* registration, skipped epoch or late request keeps the scheduler from it.
EnoughRelays ==
  /\ pc = "wait_allocation" /\ NumRelays >= 2 /\ ~Weightless(request_store[2])
  /\ epoch.switchover <= MAX_TIME

SwitchoverHappens ==
  \A n \in 0..MAX_REGISTRATIONS :
    EnoughRelays /\ setups = n ~> allocation_store[1].params > n \/ pc = "dead"

\* What the log promises: an epoch that is skipped is not allocated for.
SkippedStaysSkipped == pc = "wait_switchover" => epoch \notin skipped

-----------------------------------------------------------------------------
(* The inductive invariant of the proofs in AuthorityProofs.               *)

WellFormed(reqs) ==
  /\ reqs.counter \in Nat
  /\ DOMAIN reqs.addresses = DOMAIN reqs.requests
  /\ \A k \in DOMAIN reqs.requests :
       /\ reqs.addresses[k] = k
       /\ reqs.requests[k].id \in Nat
       /\ reqs.requests[k].id < reqs.counter
  /\ \A k, q \in DOMAIN reqs.requests :
       reqs.requests[k].id = reqs.requests[q].id => k = q

RequestsWellFormed == \A i \in 1..2 : WellFormed(request_store[i])

Collecting == {"wait_allocation", "allocate", "clear_allocations"}

OnTimeAreCollected == pc \in Collecting => ontime \subseteq DOMAIN request_store[2].requests

Histories ==
  /\ setups \in Nat
  /\ made \in Seq({made[i] : i \in DOMAIN made}) /\ Len(made) = setups
  /\ prepared \in Seq({prepared[i] : i \in DOMAIN prepared}) /\ Len(prepared) = setups
  /\ \A i \in 1..setups :
       /\ made[i].params = i
       /\ \A k \in DOMAIN made[i].allocations :
            k \in DOMAIN made[i].addresses /\ made[i].addresses[k] = k

\* What the stores of allocations hold, by the place of the scheduler.
Pcs == {"wait_allocation", "allocate", "wait_switchover", "advance_requests",
        "advance_allocations", "clear_requests", "clear_allocations", "dead"}

StoresByPlace ==
  /\ pc \in Pcs
  /\ \/ allocation_store[1] = NoAllocations
     \/ \E i \in 1..setups : allocation_store[1] = made[i]
  /\ pc \in {"wait_allocation", "allocate"} => allocation_store[2] = NoAllocations
  /\ pc \in {"wait_switchover", "advance_requests", "advance_allocations", "dead",
             "clear_requests", "clear_allocations"}
       => setups > 0 /\ allocation_store[2] = made[setups]
  /\ pc \in {"clear_requests", "clear_allocations"}
       => allocation_store[1] = allocation_store[2]

EpochsByPlace ==
  /\ now \in Nat
  /\ epoch.registration \in Nat
  /\ epoch = from_registration(epoch.registration)
  /\ \A i \in 1..setups : prepared[i].registration \in Nat
  /\ \A i, j \in 1..setups : i < j => prepared[i].registration < prepared[j].registration
  /\ pc \in {"wait_allocation", "allocate"} =>
       \A i \in 1..setups : prepared[i].registration < epoch.registration
  /\ pc \notin {"wait_allocation", "allocate"} =>
       \A i \in 1..setups : prepared[i].registration <= epoch.registration
  /\ pc \in {"advance_requests", "advance_allocations", "clear_requests", "clear_allocations"}
       => epoch.switchover <= now

\* The stores are tied to the place where the scheduler is: what the new
\* allocations hold, and when they and the current ones are the same.  Every
\* invariant above but the type is a consequence.
ServiceInvariant ==
  /\ RequestsWellFormed
  /\ OnTimeAreCollected
  /\ OnTimeMeansAllocated
  /\ Histories
  /\ StoresByPlace
  /\ EpochsByPlace
=============================================================================
