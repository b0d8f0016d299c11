------------------------------- MODULE Relay -------------------------------
(***************************************************************************)
(* The epoch task of the relays (bin/relay.rs).  Once per epoch a relay    *)
(* registers with every authority under a key it has just drawn, fetches   *)
(* from each of them the next public key and the HIBE keys of the          *)
(* identities it was given, and replaces its live keys at the switchover.  *)
(*                                                                         *)
(* The authorities' answers are parameters of the actions: the module that *)
(* composes relays and authorities supplies them.  A failed registration   *)
(* is only logged; any other failed request ends the task for good, while  *)
(* the process goes on serving with the keys it has.                       *)
(***************************************************************************)
EXTENDS Epoch, Sequences

CONSTANTS Relay,            \* the relays
          NumAuthorities    \* how many authorities each is configured with

VARIABLES now,
          relay_pc,           \* where the epoch task of each relay is
          relay_epoch,        \* the epoch it prepares for
          drawn,              \* how many keys it has drawn
          contacted,          \* with how many authorities it tried to register
          public_key,         \* the public key fetched for the next keys
          next_authorities,   \* what it has fetched for the next epoch
          live_authorities    \* what it unwraps onions with

relayVars == <<relay_pc, relay_epoch, drawn, contacted, public_key,
               next_authorities, live_authorities>>

\* The key a relay registers with: the keys drawn are all different.
used_key(r) == <<drawn[r], r>>

\* What is kept of one authority: the number of the setup of its public key,
\* the identities whose private keys it sent, and the key used for that.
LiveAuthority(params, identities, key) ==
  [public_key |-> params, received_keys |-> identities, used_key |-> key]

RelayInit ==
  /\ relay_pc = [r \in Relay |-> "off"]
  /\ relay_epoch = [r \in Relay |-> next(now)]
  /\ drawn = [r \in Relay |-> 0]
  /\ contacted = [r \in Relay |-> 0]
  /\ public_key = [r \in Relay |-> 0]
  /\ next_authorities = [r \in Relay |-> <<>>]
  /\ live_authorities = [r \in Relay |-> <<>>]

GoTo(r, place) == relay_pc' = [relay_pc EXCEPT ![r] = place]

\* The process starts, with nothing to unwrap onions with.
StartRelay(r) ==
  /\ relay_pc[r] = "off"
  /\ GoTo(r, "wait_registration")
  /\ relay_epoch' = [relay_epoch EXCEPT ![r] = next(now)]
  /\ UNCHANGED <<drawn, contacted, public_key, next_authorities, live_authorities>>

\* A crash loses all keys: nothing is kept on disk.
CrashRelay(r) ==
  /\ relay_pc[r] # "off"
  /\ GoTo(r, "off")
  /\ contacted' = [contacted EXCEPT ![r] = 0]
  /\ public_key' = [public_key EXCEPT ![r] = 0]
  /\ next_authorities' = [next_authorities EXCEPT ![r] = <<>>]
  /\ live_authorities' = [live_authorities EXCEPT ![r] = <<>>]
  /\ UNCHANGED <<relay_epoch, drawn>>

\* register() draws one key for all authorities.
BeginRegistration(r) ==
  /\ relay_pc[r] = "wait_registration" /\ has_come(relay_epoch[r].registration, now)
  /\ drawn' = [drawn EXCEPT ![r] = @ + 1]
  /\ contacted' = [contacted EXCEPT ![r] = 0]
  /\ GoTo(r, "register")
  /\ UNCHANGED <<relay_epoch, public_key, next_authorities, live_authorities>>

\* The request to authority a has been answered, or has failed.
RegisteredWith(r, a) ==
  /\ relay_pc[r] = "register" /\ contacted[r] + 1 = a
  /\ contacted' = [contacted EXCEPT ![r] = a]
  /\ GoTo(r, IF a = NumAuthorities THEN "wait_finish" ELSE "register")
  /\ UNCHANGED <<relay_epoch, drawn, public_key, next_authorities, live_authorities>>

\* Mutant: keys are fetched as soon as the allocation starts.
BeginFetchEarly(r) ==
  /\ relay_pc[r] = "wait_finish" /\ has_come(relay_epoch[r].allocation_start, now)
  /\ GoTo(r, "fetch_public")
  /\ next_authorities' = [next_authorities EXCEPT ![r] = <<>>]
  /\ UNCHANGED <<relay_epoch, drawn, contacted, public_key, live_authorities>>

BeginFetch(r) ==
  /\ relay_pc[r] = "wait_finish" /\ has_come(relay_epoch[r].allocation_finish, now)
  /\ GoTo(r, "fetch_public")
  /\ next_authorities' = [next_authorities EXCEPT ![r] = <<>>]
  /\ UNCHANGED <<relay_epoch, drawn, contacted, public_key, live_authorities>>

\* The authority that is asked next.
Fetching(r) == Len(next_authorities[r]) + 1

FetchPublicKey(r, params) ==
  /\ relay_pc[r] = "fetch_public"
  /\ public_key' = [public_key EXCEPT ![r] = params]
  /\ GoTo(r, "fetch_keys")
  /\ UNCHANGED <<relay_epoch, drawn, contacted, next_authorities, live_authorities>>

FetchKeys(r, identities) ==
  /\ relay_pc[r] = "fetch_keys"
  /\ next_authorities' = [next_authorities EXCEPT ![r] =
       Append(@, LiveAuthority(public_key[r], identities, used_key(r)))]
  /\ GoTo(r, IF Fetching(r) = NumAuthorities THEN "wait_switchover" ELSE "fetch_public")
  /\ UNCHANGED <<relay_epoch, drawn, contacted, public_key, live_authorities>>

\* An error while fetching, or when a client for requests is made, leaves the
\* task by `?' or bail!.
TaskFails(r) ==
  /\ relay_pc[r] \in {"register", "fetch_public", "fetch_keys"}
  /\ GoTo(r, "dead")
  /\ UNCHANGED <<relay_epoch, drawn, contacted, public_key, next_authorities,
                 live_authorities>>

ReachSwitchover(r) ==
  /\ relay_pc[r] = "wait_switchover" /\ has_come(relay_epoch[r].switchover, now)
  /\ relay_epoch' = [relay_epoch EXCEPT ![r] = next(now)]
  /\ GoTo(r, "swap")
  /\ UNCHANGED <<drawn, contacted, public_key, next_authorities, live_authorities>>

\* Under the write lock of the live authorities.
Swap(r) ==
  /\ relay_pc[r] = "swap"
  /\ live_authorities' = [live_authorities EXCEPT ![r] = next_authorities[r]]
  /\ next_authorities' = [next_authorities EXCEPT ![r] = <<>>]
  /\ GoTo(r, "wait_registration")
  /\ UNCHANGED <<relay_epoch, drawn, contacted, public_key>>

\* The task has something to do other than to wait for a time.
RelayBusy(r) ==
  \/ relay_pc[r] = "wait_registration" /\ has_come(relay_epoch[r].registration, now)
  \/ relay_pc[r] = "wait_finish" /\ has_come(relay_epoch[r].allocation_finish, now)
  \/ relay_pc[r] = "wait_switchover" /\ has_come(relay_epoch[r].switchover, now)
  \/ relay_pc[r] \in {"register", "fetch_public", "fetch_keys", "swap"}
=============================================================================
