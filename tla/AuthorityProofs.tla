-------------------------- MODULE AuthorityProofs --------------------------
(***************************************************************************)
(* Proofs that an authority keeps its stores consistent, for every number  *)
(* of relays and registrations, every schedule that satisfies the          *)
(* assumption of module Epoch, and every way to allocate.                  *)
(***************************************************************************)
EXTENDS AuthorityService, TLAPS

-----------------------------------------------------------------------------
(* The operators the steps are built from.                                 *)

\* Appending to a history leaves its earlier entries alone.
LEMMA AppendFacts ==
  ASSUME NEW s, s \in Seq({s[i] : i \in DOMAIN s}), NEW e,
         NEW t, t = Append(s, e)
  PROVE  /\ t \in Seq({t[i] : i \in DOMAIN t})
         /\ Len(t) = Len(s) + 1
         /\ \A i \in 1..Len(s) : t[i] = s[i]
         /\ t[Len(s) + 1] = e
<1> DEFINE S == {s[i] : i \in DOMAIN s}
           T == {t[i] : i \in DOMAIN t}
<1>1. /\ s \in Seq(S \cup {e}) /\ e \in S \cup {e}
  <2>1. s \in Seq(S) OBVIOUS
  <2> HIDE DEF S
  <2> QED BY <2>1
<1> HIDE DEF S
<1>2. /\ t \in Seq(S \cup {e})
      /\ Len(t) = Len(s) + 1
      /\ \A i \in 1..Len(s) : t[i] = s[i]
      /\ t[Len(s) + 1] = e
  BY <1>1
<1>3. t \in Seq(T)
  BY <1>2
<1> QED BY <1>2, <1>3 DEF T

\* Epoch::next() is the epoch of a registration time in the future.
LEMMA NextIsLater ==
  ASSUME NEW t \in Nat
  PROVE  /\ next(t).registration \in Nat
         /\ next(t).registration > t
         /\ next(t) = from_registration(next(t).registration)
<1>1. (t - REGISTRATION) % EPOCH_DURATION \in 0..EPOCH_DURATION - 1
  BY EpochAssumption
<1>2. next(t).registration = t + EPOCH_DURATION - ((t - REGISTRATION) % EPOCH_DURATION)
  BY DEF next, from_registration
<1>3. next(t) = from_registration(next(t).registration)
  BY <1>2 DEF next
<1> HIDE DEF next
<1>4. /\ next(t).registration \in Nat
      /\ next(t).registration > t
  BY <1>1, <1>2, EpochAssumption
<1> QED BY <1>3, <1>4

\* An epoch's switchover is after its registration time.
LEMMA SwitchoverIsLater ==
  ASSUME NEW t \in Nat
  PROVE  from_registration(t).switchover > t
BY EpochAssumption DEF from_registration

\* Registering keeps a store well-formed, also for a key that it has already.
LEMMA InsertWellFormed ==
  ASSUME NEW reqs, WellFormed(reqs), NEW key, NEW weight
  PROVE  /\ WellFormed(insert(reqs, key, key, weight))
         /\ DOMAIN insert(reqs, key, key, weight).requests = DOMAIN reqs.requests \cup {key}
<1> DEFINE new == insert(reqs, key, key, weight)
           D == DOMAIN reqs.requests
<1>1. /\ new.counter = reqs.counter + 1
      /\ DOMAIN new.requests = D \cup {key}
      /\ DOMAIN new.addresses = D \cup {key}
  BY DEF insert, Put, WellFormed
<1>2. /\ new.requests[key].id = reqs.counter
      /\ new.addresses[key] = key
  BY DEF insert, Put
<1>3. \A k \in D \ {key} : /\ new.requests[k] = reqs.requests[k]
                           /\ new.addresses[k] = reqs.addresses[k]
  BY DEF insert, Put, WellFormed
<1> HIDE DEF new
<1> QED BY <1>1, <1>2, <1>3 DEF WellFormed, new

\* allocate() has an entry for every relay that registered, because no two of
\* them have the same id.
LEMMA AllRequestsAllocated ==
  ASSUME NEW reqs, WellFormed(reqs)
  PROVE  DOMAIN Allocated(reqs) = DOMAIN reqs.requests
<1> DEFINE R == reqs.requests
           ids == {R[k].id : k \in DOMAIN R}
           reverse_keys == [id \in ids |-> CHOOSE k \in DOMAIN R : R[k].id = id]
<1>1. \A k \in DOMAIN R : reverse_keys[R[k].id] = k
  BY DEF WellFormed
<1>2. \A k \in DOMAIN R : R[k].id \in ids
  OBVIOUS
<1>3. \A id \in ids : \E k \in DOMAIN R : id = R[k].id
  OBVIOUS
<1> DEFINE keys == {reverse_keys[id] : id \in ids}
<1> HIDE DEF ids, reverse_keys, R
<1>4. ASSUME NEW k \in DOMAIN R PROVE k \in keys
  BY <1>1, <1>2
<1>5. ASSUME NEW k \in keys PROVE k \in DOMAIN R
  BY <1>1, <1>3
<1>6. keys = DOMAIN R
  BY <1>4, <1>5
<1> QED BY <1>6 DEF Allocated, keys, reverse_keys, ids, R

\* A store that nobody has registered in is well-formed.
LEMMA NoRequestsWellFormed == WellFormed(NoRequests)
BY DEF WellFormed, NoRequests

-----------------------------------------------------------------------------
(* The invariant holds initially, and every action preserves it.           *)

\* The authority starts with the invariant.
LEMMA ServiceInitial == ServiceInit => ServiceInvariant
<1> SUFFICES ASSUME ServiceInit PROVE ServiceInvariant
  OBVIOUS
<1> USE DEF ServiceInit, Init
<1>1. now \in Nat
  BY EpochAssumption
<1>2. RequestsWellFormed
  BY NoRequestsWellFormed DEF RequestsWellFormed
<1>3. OnTimeAreCollected /\ OnTimeMeansAllocated
  BY DEF OnTimeAreCollected, OnTimeMeansAllocated
<1>4. Histories
  BY DEF Histories
<1>5. StoresByPlace
  BY DEF StoresByPlace, Pcs
<1>6. EpochsByPlace
  BY <1>1, NextIsLater DEF EpochsByPlace
<1> QED BY <1>2, <1>3, <1>4, <1>5, <1>6 DEF ServiceInvariant

\* Steps that change neither the stores, the epoch, the scheduler's place nor
\* the histories: the clock, and the scheduler finding too few relays.
LEMMA IdleStep ==
  ASSUME ServiceInvariant, UNCHANGED <<stores, epoch, pc, setups, ontime, made, prepared>>,
         now' \in Nat, now <= now'
  PROVE  ServiceInvariant'
<1> USE DEF ServiceInvariant, stores
<1>1. RequestsWellFormed'
  BY DEF RequestsWellFormed
<1>2. OnTimeAreCollected' /\ OnTimeMeansAllocated'
  BY DEF OnTimeAreCollected, OnTimeMeansAllocated
<1>3. Histories'
  BY DEF Histories
<1>4. StoresByPlace'
  BY DEF StoresByPlace
<1>5. EpochsByPlace'
  <2>1. epoch.switchover <= now => epoch.switchover <= now'
    <3>1. epoch.switchover \in Nat /\ now \in Nat
      BY EpochAssumption DEF EpochsByPlace, from_registration
    <3> QED BY <3>1
  <2> QED BY <2>1 DEF EpochsByPlace
<1> QED BY <1>1, <1>2, <1>3, <1>4, <1>5

\* A registration keeps the invariant, wherever the scheduler is.
LEMMA RegisterStep ==
  ASSUME ServiceInvariant, Register
  PROVE  ServiceInvariant'
<1> USE DEF ServiceInvariant
<1> PICK key \in Key, weight \in Weight :
      /\ handle_request(key, key, weight)
      /\ ontime' = IF pc \in Collecting THEN ontime \cup {key} ELSE ontime
  BY DEF Register, Collecting
<1>1. /\ request_store'[1] = request_store[1]
      /\ request_store'[2] = insert(request_store[2], key, key, weight)
      /\ UNCHANGED <<allocation_store, epoch, pc, setups, now, made, prepared>>
  BY DEF handle_request, Register
<1>2. WellFormed(request_store[1]) /\ WellFormed(request_store[2])
  BY DEF RequestsWellFormed
<1>3. /\ WellFormed(request_store'[2])
      /\ DOMAIN request_store'[2].requests = DOMAIN request_store[2].requests \cup {key}
  BY <1>1, <1>2, InsertWellFormed
<1>4. RequestsWellFormed'
  BY <1>1, <1>2, <1>3 DEF RequestsWellFormed
<1>5. OnTimeAreCollected'
  BY <1>1, <1>3 DEF OnTimeAreCollected
<1>6. OnTimeMeansAllocated'
  BY <1>1 DEF OnTimeMeansAllocated, Collecting
<1>7. Histories'
  BY <1>1 DEF Histories
<1>8. StoresByPlace'
  BY <1>1 DEF StoresByPlace
<1>9. EpochsByPlace'
  BY <1>1 DEF EpochsByPlace
<1> QED BY <1>4, <1>5, <1>6, <1>7, <1>8, <1>9

\* So does taking up the allocation for the epoch to come.
LEMMA StartAllocationStep ==
  ASSUME ServiceInvariant, StartAllocation, UNCHANGED <<now, ontime, made, prepared>>
  PROVE  ServiceInvariant'
<1> USE DEF ServiceInvariant, StartAllocation, stores
<1>1. RequestsWellFormed' /\ Histories'
  BY DEF RequestsWellFormed, Histories
<1>2. OnTimeAreCollected' /\ OnTimeMeansAllocated'
  BY DEF OnTimeAreCollected, OnTimeMeansAllocated, Collecting
<1>3. StoresByPlace' /\ EpochsByPlace'
  BY DEF StoresByPlace, EpochsByPlace, Pcs
<1> QED BY <1>1, <1>2, <1>3

\* allocate(): the registrations become the new allocations, which enter the
\* histories.
LEMMA AllocateRelaysStep ==
  ASSUME ServiceInvariant, AllocateStep, UNCHANGED now
  PROVE  ServiceInvariant'
<1> USE DEF ServiceInvariant
<1> DEFINE new  == request_store[2]
           dies == Weightless(new)
           entry == allocation_store'[2]
<1>1. /\ pc = "allocate"
      /\ setups' = setups + 1
      /\ allocation_store'[1] = allocation_store[1]
      /\ entry = [allocations |-> IF dies THEN <<>> ELSE Allocated(new),
                  addresses   |-> new.addresses,
                  params      |-> setups + 1]
      /\ pc' = IF dies THEN "dead" ELSE "wait_switchover"
      /\ request_store'[1] = request_store[1] /\ request_store'[2] = NoRequests
      /\ epoch' = epoch /\ now' = now /\ ontime' = ontime
      /\ made' = Append(made, entry)
      /\ prepared' = Append(prepared, epoch)
  BY DEF AllocateStep, AllocateRelays
<1>2. WellFormed(request_store[1]) /\ WellFormed(new)
  BY DEF RequestsWellFormed
<1>3. setups \in Nat /\ Len(made) = setups /\ Len(prepared) = setups
  BY DEF Histories
<1>4. /\ made' \in Seq({made'[i] : i \in DOMAIN made'}) /\ Len(made') = setups'
      /\ \A i \in 1..setups : made'[i] = made[i]
      /\ made'[setups'] = entry
  <2>1. made \in Seq({made[i] : i \in DOMAIN made})
    BY DEF Histories
  <2> HIDE DEF entry
  <2> QED BY <2>1, <1>1, <1>3, AppendFacts, SMTT(60)
<1>5. /\ prepared' \in Seq({prepared'[i] : i \in DOMAIN prepared'})
      /\ Len(prepared') = setups'
      /\ \A i \in 1..setups : prepared'[i] = prepared[i]
      /\ prepared'[setups'] = epoch
  <2>1. prepared \in Seq({prepared[i] : i \in DOMAIN prepared})
    BY DEF Histories
  <2>2. prepared' = Append(prepared, epoch) /\ setups' = Len(prepared) + 1
    BY <1>1, <1>3
  <2> QED BY <2>1, <2>2, <1>3, AppendFacts
<1>6. RequestsWellFormed'
  BY <1>1, <1>2, NoRequestsWellFormed DEF RequestsWellFormed
<1>7. OnTimeAreCollected'
  BY <1>1 DEF OnTimeAreCollected, Collecting
<1>8. OnTimeMeansAllocated'
  <2>1. CASE dies
    BY <2>1, <1>1 DEF OnTimeMeansAllocated
  <2>2. CASE ~dies
    <3>1. ontime \subseteq DOMAIN new.requests
      BY <1>1 DEF OnTimeAreCollected, Collecting
    <3>2. DOMAIN entry.allocations = DOMAIN new.requests
      BY <1>1, <1>2, <2>2, AllRequestsAllocated
    <3> QED BY <3>1, <3>2, <1>1 DEF OnTimeMeansAllocated
  <2> QED BY <2>1, <2>2
<1>9. Histories'
  <2>1. \A k \in DOMAIN entry.allocations : k \in DOMAIN entry.addresses /\ entry.addresses[k] = k
    <3>1. CASE dies
      BY <3>1, <1>1
    <3>2. CASE ~dies
      <4>1. DOMAIN entry.allocations = DOMAIN new.requests
        BY <1>1, <1>2, <3>2, AllRequestsAllocated
      <4> QED BY <4>1, <1>1, <1>2 DEF WellFormed
    <3> QED BY <3>1, <3>2
  <2>2. entry.params = setups'
    BY <1>1
  <2> HIDE DEF entry
  <2>3. ASSUME NEW i \in 1..setups'
        PROVE  /\ made'[i].params = i
               /\ \A k \in DOMAIN made'[i].allocations :
                    k \in DOMAIN made'[i].addresses /\ made'[i].addresses[k] = k
    <3>1. CASE i = setups'
      BY <3>1, <2>1, <2>2, <1>4
    <3>2. CASE i # setups'
      <4>1. i \in 1..setups
        BY <3>2, <1>1, <1>3
      <4> QED BY <4>1, <1>4 DEF Histories
    <3> QED BY <3>1, <3>2
  <2>4. setups' \in Nat
    BY <1>1, <1>3
  <2> QED BY <2>3, <2>4, <1>4, <1>5 DEF Histories
<1>10. StoresByPlace'
  <2>1. \/ allocation_store'[1] = NoAllocations
        \/ \E i \in 1..setups' : allocation_store'[1] = made'[i]
    <3>1. \A i \in 1..setups : i \in 1..setups'
      BY <1>1, <1>3
    <3> QED BY <3>1, <1>1, <1>4 DEF StoresByPlace
  <2>2. setups' > 0 /\ allocation_store'[2] = made'[setups']
    BY <1>1, <1>3, <1>4
  <2> QED BY <2>1, <2>2, <1>1 DEF StoresByPlace, Pcs
<1>11. EpochsByPlace'
  <2>1. \A i \in 1..setups : /\ prepared[i].registration \in Nat
                             /\ prepared[i].registration < epoch.registration
    BY <1>1 DEF EpochsByPlace
  <2>2. /\ now \in Nat /\ epoch.registration \in Nat
        /\ epoch = from_registration(epoch.registration)
        /\ \A i, j \in 1..setups : i < j => prepared[i].registration < prepared[j].registration
    BY DEF EpochsByPlace
  <2>3. \A i \in 1..setups' : i \in 1..setups \/ i = setups'
    BY <1>1, <1>3
  <2>4. \A i \in 1..setups' : /\ prepared'[i].registration \in Nat
                              /\ prepared'[i].registration <= epoch'.registration
    BY <2>1, <2>2, <2>3, <1>1, <1>5
  <2>5. \A i, j \in 1..setups' : i < j => prepared'[i].registration < prepared'[j].registration
    <3> SUFFICES ASSUME NEW i \in 1..setups', NEW j \in 1..setups', i < j
                 PROVE  prepared'[i].registration < prepared'[j].registration
      OBVIOUS
    <3>1. i \in 1..setups
      BY <1>1, <1>3
    <3>2. CASE j = setups'
      BY <3>1, <3>2, <2>1, <1>5
    <3>3. CASE j \in 1..setups
      BY <3>1, <3>3, <2>2, <1>5
    <3> QED BY <3>2, <3>3, <2>3
  <2> QED BY <2>2, <2>4, <2>5, <1>1 DEF EpochsByPlace
<1> QED BY <1>6, <1>7, <1>8, <1>9, <1>10, <1>11

\* The steps of advance() before the last, with what they leave alone.
LEMMA StartAdvanceStep ==
  ASSUME ServiceInvariant, StartAdvance, UNCHANGED <<now, ontime, made, prepared>>
  PROVE  ServiceInvariant'
<1> USE DEF ServiceInvariant, StartAdvance, stores
<1>1. RequestsWellFormed' /\ Histories'
  BY DEF RequestsWellFormed, Histories
<1>2. OnTimeAreCollected' /\ OnTimeMeansAllocated'
  BY DEF OnTimeAreCollected, OnTimeMeansAllocated, Collecting
<1>3. StoresByPlace'
  BY DEF StoresByPlace, Pcs
<1>4. EpochsByPlace'
  BY DEF EpochsByPlace, has_come
<1> QED BY <1>1, <1>2, <1>3, <1>4

\* So does the first half of advance(): the new requests become the current ones.
LEMMA AdvanceRequestsStep ==
  ASSUME ServiceInvariant, AdvanceRequests, UNCHANGED <<now, ontime, made, prepared>>
  PROVE  ServiceInvariant'
<1> USE DEF ServiceInvariant, AdvanceRequests
<1>1. RequestsWellFormed' /\ Histories'
  BY DEF RequestsWellFormed, Histories
<1>2. OnTimeAreCollected' /\ OnTimeMeansAllocated'
  BY DEF OnTimeAreCollected, OnTimeMeansAllocated, Collecting
<1>3. StoresByPlace' /\ EpochsByPlace'
  BY DEF StoresByPlace, EpochsByPlace, Pcs
<1> QED BY <1>1, <1>2, <1>3

\* So does its second half, for the allocations.
LEMMA AdvanceAllocationsStep ==
  ASSUME ServiceInvariant, AdvanceAllocations, UNCHANGED <<now, ontime, made, prepared>>
  PROVE  ServiceInvariant'
<1> USE DEF ServiceInvariant, AdvanceAllocations
<1>1. /\ allocation_store'[1] = allocation_store[2]
      /\ allocation_store'[2] = allocation_store[2]
  OBVIOUS
<1>2. RequestsWellFormed' /\ Histories'
  BY DEF RequestsWellFormed, Histories
<1>3. OnTimeAreCollected' /\ OnTimeMeansAllocated'
  BY <1>1 DEF OnTimeAreCollected, OnTimeMeansAllocated, Collecting
<1>4. StoresByPlace'
  <2>1. setups \in Nat /\ setups > 0 /\ allocation_store[2] = made[setups]
    BY DEF StoresByPlace, Histories
  <2>2. setups \in 1..setups
    BY <2>1
  <2> QED BY <1>1, <2>1, <2>2 DEF StoresByPlace, Pcs
<1>5. EpochsByPlace'
  BY DEF EpochsByPlace
<1> QED BY <1>2, <1>3, <1>4, <1>5

\* So does clearing the new requests, with which collecting begins again.
LEMMA ClearRequestsStep ==
  ASSUME ServiceInvariant, ClearStep, UNCHANGED now
  PROVE  ServiceInvariant'
<1> USE DEF ServiceInvariant, ClearStep, ClearRequests
<1>1. RequestsWellFormed'
  BY NoRequestsWellFormed DEF RequestsWellFormed
<1>2. OnTimeAreCollected' /\ OnTimeMeansAllocated'
  BY DEF OnTimeAreCollected, OnTimeMeansAllocated
<1>3. Histories'
  BY DEF Histories
<1>4. StoresByPlace' /\ EpochsByPlace'
  BY DEF StoresByPlace, EpochsByPlace, Pcs
<1> QED BY <1>1, <1>2, <1>3, <1>4

\* The next epoch is later than all those that were allocated for: their
\* switchovers have passed.
LEMMA ClearAllocationsStep ==
  ASSUME ServiceInvariant, ClearAllocations, UNCHANGED <<now, ontime, made, prepared>>
  PROVE  ServiceInvariant'
<1> USE DEF ServiceInvariant
<1>1. /\ pc = "clear_allocations" /\ pc' = "wait_allocation"
      /\ allocation_store'[1] = allocation_store[1]
      /\ allocation_store'[2] = NoAllocations
      /\ epoch' = next(now)
      /\ UNCHANGED <<request_store, setups, now, ontime, made, prepared>>
  BY DEF ClearAllocations
<1>2. RequestsWellFormed' /\ Histories'
  BY <1>1 DEF RequestsWellFormed, Histories
<1>3. OnTimeAreCollected' /\ OnTimeMeansAllocated'
  BY <1>1 DEF OnTimeAreCollected, OnTimeMeansAllocated, Collecting
<1>4. StoresByPlace'
  BY <1>1 DEF StoresByPlace, Pcs
<1>5. EpochsByPlace'
  <2>1. /\ now \in Nat /\ epoch.registration \in Nat /\ epoch.switchover <= now
        /\ epoch.switchover > epoch.registration /\ epoch.switchover \in Int
    BY <1>1, SwitchoverIsLater, EpochAssumption DEF EpochsByPlace, from_registration
  <2>2. /\ epoch'.registration \in Nat /\ epoch'.registration > now
        /\ epoch' = from_registration(epoch'.registration)
    BY <2>1, <1>1, NextIsLater
  <2>3. \A i \in 1..setups : /\ prepared[i].registration \in Nat
                             /\ prepared[i].registration <= epoch.registration
    BY <1>1 DEF EpochsByPlace
  <2>4. \A i \in 1..setups : prepared[i].registration < epoch'.registration
    BY <2>1, <2>2, <2>3
  <2> QED BY <2>2, <2>3, <2>4, <1>1 DEF EpochsByPlace
<1> QED BY <1>2, <1>3, <1>4, <1>5

-----------------------------------------------------------------------------
(* The theorems.                                                           *)

\* Together: the invariant is inductive.
LEMMA ServiceInductive == ServiceInvariant /\ [ServiceNext]_allVars => ServiceInvariant'
<1> SUFFICES ASSUME ServiceInvariant, [ServiceNext]_allVars PROVE ServiceInvariant'
  OBVIOUS
<1>1. now \in Nat
  BY DEF ServiceInvariant, EpochsByPlace
<1>2. CASE Register
  BY <1>2, RegisterStep
<1>3. CASE Tick
  BY <1>1, <1>3, IdleStep DEF Tick, vars, history, stores
<1>4. CASE SchedulerStep
  <2>1. UNCHANGED now
    BY <1>4 DEF SchedulerStep
  <2>2. CASE SkipStep
    BY <1>1, <2>1, <2>2, IdleStep DEF SkipStep, Skip, vars, stores
  <2>3. CASE AllocateStep
    BY <2>1, <2>3, AllocateRelaysStep
  <2>4. CASE ClearStep
    BY <2>1, <2>4, ClearRequestsStep
  <2>5. CASE OtherStep
    BY <2>1, <2>5, StartAllocationStep, StartAdvanceStep, AdvanceRequestsStep,
       AdvanceAllocationsStep, ClearAllocationsStep DEF OtherStep
  <2> QED BY <1>4, <2>2, <2>3, <2>4, <2>5 DEF SchedulerStep
<1>5. CASE UNCHANGED allVars
  BY <1>1, <1>5, IdleStep DEF allVars, vars, history, stores
<1> QED BY <1>2, <1>3, <1>4, <1>5 DEF ServiceNext

\* The stores always fit the place of the scheduler.
THEOREM AuthorityInvariant == ServiceSpec => []ServiceInvariant
<1> QED BY ServiceInitial, ServiceInductive, PTL DEF ServiceSpec

\* No two requests in a store have the same id.
THEOREM AuthorityUniqueIds == ServiceSpec => []UniqueIds
<1>1. ServiceInvariant => UniqueIds
  BY DEF ServiceInvariant, RequestsWellFormed, WellFormed, UniqueIds
<1> QED BY <1>1, AuthorityInvariant, PTL

\* A relay registered in time has an entry in the allocation.
THEOREM AuthorityOnTimeMeansAllocated == ServiceSpec => []OnTimeMeansAllocated
<1>1. ServiceInvariant => OnTimeMeansAllocated
  BY DEF ServiceInvariant
<1> QED BY <1>1, AuthorityInvariant, PTL

\* Either store of allocations is empty or one result of allocate() in full.
THEOREM AuthorityNeverMixed == ServiceSpec => []NeverMixed
<1>1. ServiceInvariant => NeverMixed
  <2> SUFFICES ASSUME ServiceInvariant, NEW i \in 1..2, allocation_store[i] # NoAllocations
               PROVE  allocation_store[i].params > 0
                      /\ allocation_store[i] = made[allocation_store[i].params]
    BY DEF NeverMixed
  <2> USE DEF ServiceInvariant
  <2>1. \E n \in 1..setups : allocation_store[i] = made[n]
    <3>1. setups \in Nat
      BY DEF Histories
    <3>2. CASE i = 1
      BY <3>2 DEF StoresByPlace
    <3>3. CASE i = 2
      BY <3>1, <3>3 DEF StoresByPlace, Pcs
    <3> QED BY <3>2, <3>3
  <2>2. PICK n \in 1..setups : allocation_store[i] = made[n]
    BY <2>1
  <2>3. made[n].params = n /\ setups \in Nat
    BY DEF Histories
  <2> QED BY <2>2, <2>3
<1> QED BY <1>1, AuthorityInvariant, PTL

\* get_address() finds an address for every allocated key.
THEOREM AuthorityAddressesKnown == ServiceSpec => []AddressesKnown
<1>1. ServiceInvariant => AddressesKnown
  <2> SUFFICES ASSUME ServiceInvariant, NEW i \in 1..2,
                      NEW k \in DOMAIN allocation_store[i].allocations
               PROVE  /\ k \in DOMAIN allocation_store[i].addresses
                      /\ allocation_store[i].addresses[k] = k
    BY DEF AddressesKnown
  <2> USE DEF ServiceInvariant
  <2>1. CASE allocation_store[i] = NoAllocations
    BY <2>1 DEF NoAllocations
  <2>2. CASE \E n \in 1..setups : allocation_store[i] = made[n]
    BY <2>2 DEF Histories
  <2>3. setups \in Nat
    BY DEF Histories
  <2> QED BY <2>1, <2>2, <2>3 DEF StoresByPlace, Pcs
<1> QED BY <1>1, AuthorityInvariant, PTL

\* No epoch is allocated for twice.
THEOREM AuthorityOneAllocationPerEpoch == ServiceSpec => []OneAllocationPerEpoch
<1>1. ServiceInvariant => OneAllocationPerEpoch
  BY DEF ServiceInvariant, OneAllocationPerEpoch, EpochsByPlace, Histories
<1> QED BY <1>1, AuthorityInvariant, PTL

\* A new allocation is only replaced or cleared once it is the current one.
THEOREM AuthorityNextKeysBecomeCurrent == ServiceSpec => NextKeysBecomeCurrent
<1> DEFINE Kept == allocation_store[2] # NoAllocations
                     /\ allocation_store'[2] # allocation_store[2]
                       => allocation_store[1] = allocation_store[2]
<1>1. ServiceInvariant /\ [ServiceNext]_allVars => Kept
  <2> SUFFICES ASSUME ServiceInvariant, [ServiceNext]_allVars,
                      allocation_store'[2] # allocation_store[2],
                      allocation_store[2] # NoAllocations
               PROVE  allocation_store[1] = allocation_store[2]
    OBVIOUS
  <2>1. AllocateRelays \/ ClearAllocations
    BY DEF ServiceNext, Register, handle_request, Tick, SchedulerStep, SkipStep, Skip,
           AllocateStep, ClearStep, ClearRequests, OtherStep, StartAllocation, StartAdvance,
           AdvanceRequests, AdvanceAllocations, allVars, vars, stores
  <2>2. pc = "allocate" \/ pc = "clear_allocations"
    BY <2>1 DEF AllocateRelays, ClearAllocations
  <2> QED BY <2>2 DEF ServiceInvariant, StoresByPlace
<1>2. ServiceInvariant /\ [ServiceNext]_allVars => [Kept]_allVars
  BY <1>1
<1> HIDE DEF Kept
<1>3. ServiceSpec => [][Kept]_allVars
  BY <1>2, AuthorityInvariant, PTL DEF ServiceSpec
<1> QED BY <1>3 DEF NextKeysBecomeCurrent, Kept
=============================================================================
