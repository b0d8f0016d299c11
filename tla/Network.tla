------------------------------ MODULE Network ------------------------------
(***************************************************************************)
(* Two authorities, the relays and a client, each following the schedule   *)
(* of module Epoch on its own, without any further coordination.           *)
(*                                                                         *)
(* What can go wrong is called trouble: a process crashes, a request       *)
(* fails, an authority finds too few relays or dies of their weights, or   *)
(* somebody is still busy with one instant of the schedule when the next   *)
(* one comes.  The properties are about times when there has been no       *)
(* trouble for the epoch that is served and the one before, whatever       *)
(* happened earlier; they say that the parties then agree, and thus also   *)
(* that trouble is overcome.                                               *)
(***************************************************************************)
EXTENDS Relay, FiniteSets

CONSTANTS Allocate(_),      \* as in module Authority
          WeightOf,         \* the weight each relay is configured with
          Identity,         \* leaves of the identity tree
          MAX_TIME,         \* bound of the clock
          MAX_TROUBLES,     \* bound of crashes, failures and delays
          LATEST_TROUBLE,   \* and of the time when they happen
          RELAY_START,      \* times at which relays are started, and
          CLIENT_START      \* those at which the client is

VARIABLES request_storeA, allocation_storeA, epochA, pcA, setupsA,
          request_storeB, allocation_storeB, epochB, pcB, setupsB,
          client_pc, client_epoch, next_public_keys, public_keys,
          served,         \* the registration time of the epoch whose keys each
                          \* authority has made current, NoEpoch if that was late
          client_since,   \* when the client's epoch task started
          trouble,        \* time of the last trouble
          troubles        \* how much trouble there has been

ASSUME TwoAuthorities == NumAuthorities = 2
ASSUME RelaysAssumption == IsFiniteSet(Relay) /\ WeightOf \in [Relay -> Nat]

A == INSTANCE Authority WITH request_store <- request_storeA,
       allocation_store <- allocation_storeA, epoch <- epochA, pc <- pcA, setups <- setupsA
B == INSTANCE Authority WITH request_store <- request_storeB,
       allocation_store <- allocation_storeB, epoch <- epochB, pc <- pcB, setups <- setupsB
C == INSTANCE Client

varsA == <<request_storeA, allocation_storeA, epochA, pcA, setupsA>>
varsB == <<request_storeB, allocation_storeB, epochB, pcB, setupsB>>
client == <<client_pc, client_epoch, next_public_keys, public_keys>>
history == <<served, client_since, trouble, troubles>>
vars == <<now, varsA, varsB, relayVars, client, history>>

Authorities == 1..2
NoEpoch == -1
LongAgo == -EPOCH_DURATION - 1

Current(a) == IF a = 1 THEN allocation_storeA[1] ELSE allocation_storeB[1]
Coming(a) == IF a = 1 THEN allocation_storeA[2] ELSE allocation_storeB[2]

\* Mutant: both routes read the current allocations.
get_current_for_next(a) == Current(a).params

\* authority.rs offers one route for each of the stores' readers.
get_current_public_key(a) == Current(a).params
get_next_public_key(a) == Coming(a).params
get_hibe_keys(a, key) == A!get_hibe_keys(Coming(a), key)
get_relay_address(a, identity) == A!get_address(Current(a), identity)

-----------------------------------------------------------------------------
NetworkInit ==
  /\ now = 0
  /\ A!Init /\ B!Init /\ RelayInit /\ C!ClientInit
  /\ served = [a \in Authorities |-> NoEpoch]
  /\ client_since = 0
  /\ trouble = LongAgo
  /\ troubles = 0

NoTrouble == UNCHANGED <<trouble, troubles>>

\* Crashes, failures and delays are bounded in number and time.
Trouble == /\ troubles < MAX_TROUBLES /\ now <= LATEST_TROUBLE
           /\ troubles' = troubles + 1
           /\ trouble' = now

RelayAndClientUnchanged == UNCHANGED <<relayVars, client, client_since>>
AuthoritiesUnchanged == UNCHANGED <<varsA, varsB, served>>

-----------------------------------------------------------------------------
(* The authorities.                                                        *)

\* The epoch that is being switched to, unless the next one has begun.
Serves(epoch) == IF now < succeeding(epoch).registration THEN epoch.registration ELSE NoEpoch

AuthoritySkips == /\ \/ A!Skip /\ UNCHANGED varsB
                     \/ B!Skip /\ UNCHANGED varsA
                  /\ NoTrouble /\ UNCHANGED <<now, served>> /\ RelayAndClientUnchanged

AuthoritySwitches == /\ \/ /\ A!AdvanceAllocations /\ UNCHANGED varsB
                           /\ served' = [served EXCEPT ![1] = Serves(epochA)]
                        \/ /\ B!AdvanceAllocations /\ UNCHANGED varsA
                           /\ served' = [served EXCEPT ![2] = Serves(epochB)]
                     /\ NoTrouble /\ UNCHANGED now /\ RelayAndClientUnchanged

AStep == A!StartAllocation \/ A!AllocateRelays \/ A!StartAdvance
           \/ A!AdvanceRequests \/ A!ClearRequests \/ A!ClearAllocations
BStep == B!StartAllocation \/ B!AllocateRelays \/ B!StartAdvance
           \/ B!AdvanceRequests \/ B!ClearRequests \/ B!ClearAllocations

AuthorityWorks == /\ \/ AStep /\ UNCHANGED varsB
                     \/ BStep /\ UNCHANGED varsA
                  /\ NoTrouble /\ UNCHANGED <<now, served>> /\ RelayAndClientUnchanged

AuthorityRestarts == /\ \/ /\ A!Restart /\ UNCHANGED varsB
                           /\ served' = [served EXCEPT ![1] = NoEpoch]
                        \/ /\ B!Restart /\ UNCHANGED varsA
                           /\ served' = [served EXCEPT ![2] = NoEpoch]
                     /\ Trouble /\ UNCHANGED now /\ RelayAndClientUnchanged

-----------------------------------------------------------------------------
(* The relays.                                                             *)

Registers(r, a) ==
  /\ RegisteredWith(r, a)
  /\ IF a = 1 THEN A!handle_request(used_key(r), r, WeightOf[r]) /\ UNCHANGED varsB
              ELSE B!handle_request(used_key(r), r, WeightOf[r]) /\ UNCHANGED varsA
  /\ NoTrouble /\ UNCHANGED served

\* The request is lost: the relay logs that and goes on.
RegistrationLost(r, a) == RegisteredWith(r, a) /\ Trouble /\ AuthoritiesUnchanged

RelayWorks(r) ==
  /\ \/ now \in RELAY_START /\ StartRelay(r)
     \/ BeginRegistration(r) \/ BeginFetch(r)
     \/ FetchPublicKey(r, get_next_public_key(Fetching(r)))
     \/ FetchKeys(r, get_hibe_keys(Fetching(r), used_key(r)))
     \/ ReachSwitchover(r) \/ Swap(r)
  /\ NoTrouble /\ AuthoritiesUnchanged

RelayFails(r) == (CrashRelay(r) \/ TaskFails(r)) /\ Trouble /\ AuthoritiesUnchanged

RelayStep(r) ==
  /\ \/ RelayWorks(r) \/ RelayFails(r)
     \/ \E a \in Authorities : Registers(r, a) \/ RegistrationLost(r, a)
  /\ UNCHANGED <<now, client, client_since>>

-----------------------------------------------------------------------------
(* The client.                                                             *)

ClientWorks ==
  /\ \/ now \in CLIENT_START /\ C!StartClient
     \/ C!BeginRetrieval \/ C!SwitchKeys
     \/ C!FetchCurrent(get_current_public_key(C!Asking))
     \/ C!FetchNext(get_next_public_key(C!Asking))
  /\ client_since' = IF client_pc = "fetch_current" THEN now ELSE client_since
  /\ NoTrouble

ClientFails == C!ClientFetchFails /\ Trouble /\ UNCHANGED client_since

ClientStep == (ClientWorks \/ ClientFails) /\ AuthoritiesUnchanged /\ UNCHANGED <<now, relayVars>>

-----------------------------------------------------------------------------
(* The clock.  Whoever is busy at one instant of the schedule is done      *)
(* before the next one, or else that is trouble.                           *)

Instant(t) == (t - REGISTRATION) % EPOCH_DURATION
                \in {0, ALLOCATION_START, ALLOCATION_FINISH, SWITCHOVER}

Quiet == ~A!Busy /\ ~B!Busy /\ (\A r \in Relay : ~RelayBusy(r)) /\ ~C!ClientBusy

Tick == /\ now < MAX_TIME
        /\ now' = now + 1
        /\ LET late == Instant(now + 1) /\ ~Quiet IN
             /\ late => troubles < MAX_TROUBLES /\ now < LATEST_TROUBLE
             /\ troubles' = IF late THEN troubles + 1 ELSE troubles
             /\ trouble' = IF late \/ A!TooFewRelays \/ B!TooFewRelays \/ "dead" \in {pcA, pcB}
                             THEN now + 1 ELSE trouble
        /\ AuthoritiesUnchanged /\ RelayAndClientUnchanged

NetworkNext ==
  \/ AuthoritySkips \/ AuthoritySwitches \/ AuthorityWorks \/ AuthorityRestarts
  \/ \E r \in Relay : RelayStep(r)
  \/ ClientStep
  \/ Tick

NetworkSpec == NetworkInit /\ [][NetworkNext]_vars

-----------------------------------------------------------------------------
\* There has been no trouble since the registration time of the epoch before
\* the one whose keys authority a serves.  One epoch without trouble is not
\* enough: a registration made under the key of one epoch may be answered "ok"
\* by an authority that, having restarted or been late, collects them for the
\* next, where nobody uses that key any more.
Untroubled(a) == served[a] # NoEpoch /\ served[a] - EPOCH_DURATION > trouble

\* Without such trouble, every relay that still takes part has,
\* for each authority, the public key that this authority hands to clients,
\* and the keys of the very identities that the authority sends to the relay:
\* registration, allocation, the two requests for keys, the authority's
\* advance() and the relay's swap are five separate steps of several tasks.
RelaysInSync ==
  Quiet => \A a \in Authorities, r \in Relay :
    Untroubled(a) /\ live_authorities[r] # <<>> /\ relay_pc[r] # "dead" =>
      LET live == live_authorities[r][a] IN
        /\ live.public_key = Current(a).params
        /\ live.received_keys = {x \in Identity : get_relay_address(a, x) = {r}}

ClientRuns == client_pc \in {"wait_finish", "fetch_next", "wait_switchover"}

\* In such an epoch, a client that has been running since before the epoch's
\* registration time wraps onions with the keys the authorities serve, even
\* if it had started with some keys of one epoch and some of another, or had
\* failed to fetch the keys of earlier epochs in time.
ClientInSync ==
  Quiet /\ ClientRuns =>
    \A a \in Authorities :
      Untroubled(a) /\ client_since < served[a] => public_keys[a] = Current(a).params

\* In such an epoch the authorities switched together and agree on the relay
\* of every identity, although they count registrations, allocate and advance
\* independently.  Onions need that: the relay that one authority names must
\* have the private keys of all.
AuthoritiesAgree ==
  Quiet /\ (\A a \in Authorities : Untroubled(a)) =>
    /\ served[1] = served[2]
    /\ \A x \in Identity : get_relay_address(1, x) = get_relay_address(2, x)

\* In such an epoch, an onion for any identity reaches a relay that can unwrap
\* it, if the identity has one: whichever authority is asked for the address,
\* that relay is alive and has the identity's keys from every authority, under
\* the public keys that clients wrap with.  No address leads to a relay that
\* crashed or whose epoch task died in an earlier epoch.
OnionsAreUnwrapped ==
  Quiet /\ (\A a \in Authorities : Untroubled(a)) =>
    \A x \in Identity, a \in Authorities : \A r \in get_relay_address(a, x) :
      /\ relay_pc[r] \notin {"off", "dead"}
      /\ \A b \in Authorities : /\ x \in live_authorities[r][b].received_keys
                                /\ live_authorities[r][b].public_key = Current(b).params

\* What the client's log says: it waits for the allocations of the epoch that
\* comes next, so that a client that runs follows every switchover.
ClientFollowsEverySwitchover ==
  Quiet /\ ClientRuns =>
    \A a \in Authorities : Untroubled(a) => public_keys[a] = Current(a).params
=============================================================================
