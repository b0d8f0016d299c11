----------------------------- MODULE NetworkCalm -----------------------------
(***************************************************************************)
(* What is true of module Network at every moment, and not only when       *)
(* everybody is at rest: where the parties are, and what they have, as far *)
(* as it follows from there having been no trouble since the beginning of  *)
(* this epoch, of the last one, or of the one before.                      *)
(*                                                                         *)
(* Here an epoch begins with its registration time.                        *)
(***************************************************************************)
EXTENDS Network

\* The registration time of the present epoch, the last one that has come.
Last == now - ((now - REGISTRATION) % EPOCH_DURATION)

\* No trouble since the beginning of this epoch, of the one before it, and of
\* the one before that.
Calm == trouble < Last
CalmForTwo == trouble < Last - EPOCH_DURATION
CalmForThree == trouble < Last - 2 * EPOCH_DURATION

RegistrationTime(t) == t \in Int /\ (t - REGISTRATION) % EPOCH_DURATION = 0

IsEpoch(epoch) ==
  RegistrationTime(epoch.registration) /\ epoch = from_registration(epoch.registration)

Requests(a) == IF a = 1 THEN request_storeA ELSE request_storeB
EpochOf(a) == IF a = 1 THEN epochA ELSE epochB
Pc(a) == IF a = 1 THEN pcA ELSE pcB

New(a) == Requests(a)[2]

-----------------------------------------------------------------------------
(* At any time.                                                            *)

\* No two requests have the same id.
IdsDiffer(reqs) ==
  /\ reqs.counter \in Nat /\ DOMAIN reqs.addresses = DOMAIN reqs.requests
  /\ IsFiniteSet(DOMAIN reqs.addresses)
  /\ \A k \in DOMAIN reqs.requests : reqs.requests[k].id \in 0..reqs.counter - 1
  /\ \A k, l \in DOMAIN reqs.requests : reqs.requests[k].id = reqs.requests[l].id => k = l

\* The relays' variables are functions of the relays.
Maps ==
  /\ DOMAIN served = Authorities
  /\ DOMAIN relay_pc = Relay /\ DOMAIN relay_epoch = Relay /\ DOMAIN drawn = Relay
  /\ DOMAIN contacted = Relay /\ DOMAIN public_key = Relay
  /\ DOMAIN next_authorities = Relay /\ DOMAIN live_authorities = Relay

IsSequence(s) == s \in Seq({s[i] : i \in DOMAIN s})

Advancing == {"advance_requests", "advance_allocations", "clear_requests", "clear_allocations"}
Clearing == {"clear_requests", "clear_allocations"}

AuthorityAnyTime(a) ==
  /\ IsEpoch(EpochOf(a)) /\ EpochOf(a).registration <= Last + EPOCH_DURATION
  /\ Pc(a) \in {"wait_allocation", "allocate", "wait_switchover", "dead"} \cup Advancing
  /\ Pc(a) # "wait_allocation" => EpochOf(a).allocation_start <= now
  /\ Requests(a) = <<Requests(a)[1], New(a)>> /\ IdsDiffer(New(a))
  /\ served[a] # NoEpoch => RegistrationTime(served[a]) /\ served[a] <= now

Fetched == {"fetch_public", "fetch_keys", "wait_switchover"}

RelayAnyTime(r) ==
  /\ IsEpoch(relay_epoch[r]) /\ relay_epoch[r].registration <= Last + EPOCH_DURATION
  /\ relay_pc[r] \in {"off", "dead", "wait_registration", "register", "wait_finish", "swap"}
                       \cup Fetched
  /\ relay_pc[r] \in {"register", "wait_finish"} => relay_epoch[r].registration <= now
  /\ relay_pc[r] \in Fetched => relay_epoch[r].allocation_finish <= now
  /\ relay_pc[r] = "register" => contacted[r] \in {0, 1}
  /\ relay_pc[r] = "off" => live_authorities[r] = <<>>
  /\ drawn[r] \in Nat
  /\ IsSequence(next_authorities[r]) /\ IsSequence(live_authorities[r])

ClientAnyTime ==
  /\ IsEpoch(client_epoch) /\ client_epoch.registration <= Last + EPOCH_DURATION
  /\ client_pc \in {"off", "dead", "fetch_current", "wait_finish", "fetch_next", "wait_switchover"}
  /\ client_pc \in {"fetch_next", "wait_switchover"} => client_epoch.allocation_finish <= now
  /\ client_since \in Nat /\ client_since <= now
  /\ IsSequence(next_public_keys) /\ IsSequence(public_keys)

-----------------------------------------------------------------------------
(* Where everybody is while it is calm.                                    *)

\* An authority has made its allocation for this epoch, and has made it current.
HasAllocated(a) ==
  \/ Pc(a) \in {"wait_switchover"} \cup Advancing
  \/ Pc(a) = "wait_allocation" /\ EpochOf(a).registration = Last + EPOCH_DURATION

HasAdvanced(a) ==
  Pc(a) \in Clearing \/ EpochOf(a).registration = Last + EPOCH_DURATION

\* Nothing has happened in the epoch in which the system starts.
Beginning == Last <= 0

Within(from, to) == Last + from <= now /\ now < Last + to

\* An authority either is done with this epoch or where its schedule says.
AuthorityOnTime(a) ==
  \/ /\ EpochOf(a).registration = Last + EPOCH_DURATION /\ Pc(a) = "wait_allocation"
     /\ Beginning \/ Within(SWITCHOVER, EPOCH_DURATION)
  \/ /\ EpochOf(a).registration = Last /\ ~Beginning
     /\ Within(0, ALLOCATION_START) => Pc(a) = "wait_allocation"
     /\ Within(ALLOCATION_START, ALLOCATION_FINISH) =>
          Pc(a) \in {"wait_allocation", "allocate", "wait_switchover", "dead"}
     /\ Within(ALLOCATION_FINISH, SWITCHOVER) => Pc(a) = "wait_switchover"
     /\ Within(SWITCHOVER, EPOCH_DURATION) => Pc(a) \in {"wait_switchover"} \cup Advancing

\* What an authority has made current last.
ServedOnTime(a) ==
  /\ Calm /\ HasAdvanced(a) => served[a] = IF Beginning THEN NoEpoch ELSE Last
  /\ CalmForTwo /\ ~HasAdvanced(a) =>
       served[a] = IF Last - EPOCH_DURATION <= 0 THEN NoEpoch ELSE Last - EPOCH_DURATION

\* A relay that takes part in this epoch: it has keys that it fetched in it, is
\* about to use them, or is on its way to them.
HasSwapped(r) ==
  /\ relay_pc[r] = "wait_registration" /\ live_authorities[r] # <<>>
  /\ relay_epoch[r].registration = Last + EPOCH_DURATION

Participates(r) ==
  \/ HasSwapped(r)
  \/ relay_pc[r] = "swap"
  \/ relay_pc[r] \notin {"off", "dead"} /\ relay_epoch[r].registration = Last

Present == {r \in Relay : Participates(r)}

RelayOnTime(r) ==
  \/ relay_pc[r] \in {"off", "dead"}
  \/ /\ relay_pc[r] = "wait_registration" /\ live_authorities[r] = <<>>
     /\ relay_epoch[r].registration = Last + EPOCH_DURATION
  \/ HasSwapped(r) /\ ~Beginning /\ Within(SWITCHOVER, EPOCH_DURATION)
  \/ relay_pc[r] = "swap" /\ ~Beginning /\ Within(SWITCHOVER, EPOCH_DURATION)
       /\ relay_epoch[r].registration = Last + EPOCH_DURATION
  \/ /\ relay_epoch[r].registration = Last /\ ~Beginning
     /\ Within(0, ALLOCATION_START) =>
          relay_pc[r] \in {"wait_registration", "register", "wait_finish"}
     /\ Within(ALLOCATION_START, ALLOCATION_FINISH) => relay_pc[r] = "wait_finish"
     /\ Within(ALLOCATION_FINISH, SWITCHOVER) => relay_pc[r] \in {"wait_finish"} \cup Fetched
     /\ Within(SWITCHOVER, EPOCH_DURATION) => relay_pc[r] = "wait_switchover"

ClientOnTime ==
  \/ client_pc \in {"off", "dead", "fetch_current"}
  \/ /\ client_pc = "wait_finish" /\ client_epoch.registration = Last + EPOCH_DURATION
     /\ client_since < Last => ~Beginning /\ Within(SWITCHOVER, EPOCH_DURATION)
  \/ /\ client_epoch.registration = Last /\ ~Beginning
     /\ Within(0, ALLOCATION_FINISH) => client_pc = "wait_finish"
     /\ Within(ALLOCATION_FINISH, SWITCHOVER) =>
          client_pc \in {"wait_finish", "fetch_next", "wait_switchover"}
     /\ Within(SWITCHOVER, EPOCH_DURATION) => client_pc = "wait_switchover"

-----------------------------------------------------------------------------
(* What they have.                                                         *)

\* The allocation an authority made for this epoch.
Fresh(a) == IF HasAdvanced(a) THEN Current(a) ELSE Coming(a)

\* The relays that have registered with a for this epoch.
Registered(a) ==
  {r \in Present : \/ relay_pc[r] = "wait_finish"
                   \/ relay_pc[r] = "register" /\ contacted[r] >= a}

\* The requests are taken for this epoch, and none comes for the next one.
RequestsTaken(a) == HasAllocated(a) => DOMAIN New(a).requests = {}

\* An authority has the requests of those who have registered in this epoch,
\* and no others.
RequestsCollected(a) ==
  EpochOf(a).registration = Last /\ Pc(a) \in {"wait_allocation", "allocate"} =>
    /\ DOMAIN New(a).requests = {used_key(r) : r \in Registered(a)}
    /\ \A r \in Registered(a) : /\ New(a).requests[used_key(r)].weight = WeightOf[r]
                                /\ New(a).addresses[used_key(r)] = r

\* The keys of those who take part, and what they are given for their weights.
KeyOf == [r \in Present |-> used_key(r)]

WeightsOf(keys) ==
  [k \in {keys[r] : r \in DOMAIN keys} |-> WeightOf[CHOOSE r \in DOMAIN keys : keys[r] = k]]

\* An allocation is for these relays, under their keys.
IsFor(allocs, keys) ==
  /\ DOMAIN allocs.allocations = {keys[r] : r \in DOMAIN keys}
  /\ \A r \in DOMAIN keys :
       /\ allocs.allocations[keys[r]] = Allocate(WeightsOf(keys))[keys[r]]
       /\ allocs.addresses[keys[r]] = r
  /\ DOMAIN keys # {} => \E r \in DOMAIN keys : WeightOf[r] # 0

AllocationMade(a) == HasAllocated(a) => IsFor(Fresh(a), KeyOf)

\* What a relay keeps of an authority is what it was given there.
IsGiven(kept, allocs, key) ==
  kept.public_key = allocs.params /\ kept.received_keys = allocs.allocations[key]

KeysFetched(r) ==
  /\ relay_pc[r] \in Fetched \cup {"swap"} /\ Participates(r) =>
       /\ Len(next_authorities[r]) \in IF relay_pc[r] \in {"wait_switchover", "swap"} THEN {2} ELSE {0, 1}
       /\ \A a \in DOMAIN next_authorities[r] :
            IsGiven(next_authorities[r][a], Fresh(a), used_key(r))
       /\ relay_pc[r] = "fetch_keys" => public_key[r] = Fresh(Fetching(r)).params
  /\ HasSwapped(r) =>
       /\ Len(live_authorities[r]) = 2
       /\ \A a \in Authorities : IsGiven(live_authorities[r][a], Fresh(a), used_key(r))

\* The same of the client.
PublicKeysFetched ==
  /\ client_pc \in {"fetch_next", "wait_switchover"} /\ client_epoch.registration = Last =>
       /\ Len(next_public_keys) \in IF client_pc = "wait_switchover" THEN {2} ELSE {0, 1}
       /\ \A a \in DOMAIN next_public_keys : next_public_keys[a] = Fresh(a).params
  /\ client_pc = "wait_finish" /\ client_epoch.registration = Last + EPOCH_DURATION =>
       (client_since < Last => \A a \in Authorities : public_keys[a] = Fresh(a).params)

\* Until an authority advances, what it serves goes with the keys that relays
\* and client have from the last epoch.
InSync(kept, allocs, r) ==
  /\ kept.public_key = allocs.params
  /\ kept.received_keys = {x \in Identity : A!get_address(allocs, x) = {r}}

OldAddressesAgree ==
  ~HasAdvanced(1) /\ ~HasAdvanced(2) =>
    \A x \in Identity : get_relay_address(1, x) = get_relay_address(2, x)

OldPublicKeys(a) ==
  ~HasAdvanced(a) /\ ClientRuns /\ client_epoch.registration = Last =>
    (client_since < Last - EPOCH_DURATION => public_keys[a] = Current(a).params)

OldKeys(a) ==
  ~HasAdvanced(a) =>
    /\ \A r \in Relay : live_authorities[r] # <<>> /\ relay_pc[r] # "dead" /\ ~HasSwapped(r) =>
         InSync(live_authorities[r][a], Current(a), r)
    /\ \A x \in Identity : \A r \in get_relay_address(a, x) :
         /\ get_relay_address(a, x) = {r}
         /\ r \in Present /\ live_authorities[r] # <<>>

-----------------------------------------------------------------------------
(* What is expected of allocation::allocate: that it gives an identity to  *)
(* one relay at most.  Module AllocationProofs proves that of Allocation.  *)

DividesAmong(S, weights) ==
  /\ \A k \in S : Allocate(weights)[k] \subseteq Identity
  /\ \A k, l \in S : k # l => Allocate(weights)[k] \cap Allocate(weights)[l] = {}

AllocatesDisjointly ==
  \A S : \A weights \in [S -> Nat] :
    IsFiniteSet(S) /\ (\E k \in S : weights[k] # 0) => DividesAmong(S, weights)

-----------------------------------------------------------------------------
(* The invariants.                                                         *)

AnyTime ==
  /\ now \in Nat /\ trouble \in Int /\ trouble <= now /\ Maps
  /\ \A a \in Authorities : AuthorityAnyTime(a) /\ ServedOnTime(a)
  /\ \A r \in Relay : RelayAnyTime(r)
  /\ ClientAnyTime

OnTime ==
  /\ \A a \in Authorities : AuthorityOnTime(a) /\ RequestsTaken(a)
  /\ \A r \in Relay : RelayOnTime(r)
  /\ ClientOnTime /\ PublicKeysFetched

FreshKeysAgree ==
  /\ \A a \in Authorities : RequestsCollected(a) /\ AllocationMade(a) /\ OldPublicKeys(a)
  /\ \A r \in Relay : KeysFetched(r)

\* What holds at any time, and what holds the longer it is calm: after one
\* epoch without trouble everybody is where the schedule says, after two the
\* allocations are the same everywhere and relays and client have fetched their
\* keys, and after three those are in use.  Nothing more follows from a shorter
\* calm, as registrations, allocations and keys each take an epoch of their own.
CalmInvariant ==
  /\ AnyTime
  /\ Calm => OnTime
  /\ CalmForTwo => FreshKeysAgree
  /\ CalmForThree => OldAddressesAgree

\* With that, the relays' keys of the last epoch go together with what the
\* authorities still serve until they advance.
NetworkInvariant ==
  /\ CalmInvariant
  /\ CalmForThree => \A a \in Authorities : OldKeys(a)
=============================================================================
