------------------------------- MODULE Client -------------------------------
(***************************************************************************)
(* How a client comes by the authorities' public keys (bin/client.rs): it  *)
(* fetches the current ones when it starts, and then, once per epoch, the  *)
(* next ones, which it starts to use at the switchover.  A failed request  *)
(* ends a client that is starting; later it is retried at once, for the    *)
(* same epoch.                                                             *)
(*                                                                         *)
(* As in module Relay, the authorities' answers are parameters.            *)
(***************************************************************************)
EXTENDS Epoch, Sequences

CONSTANT NumAuthorities

VARIABLES now,
          client_pc,
          client_epoch,
          next_public_keys,   \* the keys retrieve_keys() has collected
          public_keys         \* the keys onions are wrapped with

clientVars == <<client_pc, client_epoch, next_public_keys, public_keys>>

ClientInit == /\ client_pc = "off"
              /\ client_epoch = next(now)
              /\ next_public_keys = <<>>
              /\ public_keys = <<>>

StartClient == /\ client_pc = "off"
               /\ client_pc' = "fetch_current"
               /\ UNCHANGED <<client_epoch, next_public_keys, public_keys>>

\* The authority that is asked next.
Asking == Len(next_public_keys) + 1

\* Authority number Asking has answered with its current key.  After the last
\* one, the keys are in use and the epoch task starts.
FetchCurrent(params) ==
  LET fetched == Append(next_public_keys, params) IN
  /\ client_pc = "fetch_current"
  /\ IF Asking < NumAuthorities
       THEN /\ next_public_keys' = fetched
            /\ UNCHANGED <<client_pc, client_epoch, public_keys>>
       ELSE /\ next_public_keys' = <<>>
            /\ public_keys' = fetched
            /\ client_epoch' = next(now)
            /\ client_pc' = "wait_finish"

BeginRetrieval ==
  /\ client_pc = "wait_finish" /\ has_come(client_epoch.allocation_finish, now)
  /\ client_pc' = "fetch_next"
  /\ next_public_keys' = <<>>
  /\ UNCHANGED <<client_epoch, public_keys>>

FetchNext(params) ==
  /\ client_pc = "fetch_next"
  /\ next_public_keys' = Append(next_public_keys, params)
  /\ client_pc' = IF Asking = NumAuthorities THEN "wait_switchover" ELSE "fetch_next"
  /\ UNCHANGED <<client_epoch, public_keys>>

ClientFetchFails ==
  /\ client_pc \in {"fetch_current", "fetch_next"}
  /\ client_pc' = IF client_pc = "fetch_current" THEN "dead" ELSE "wait_finish"
  /\ next_public_keys' = <<>>
  /\ UNCHANGED <<client_epoch, public_keys>>

\* Mutant: the keys are used as soon as they have been fetched.
SwitchKeysEarly ==
  /\ client_pc = "wait_switchover"
  /\ public_keys' = next_public_keys
  /\ next_public_keys' = <<>>
  /\ client_epoch' = next(now)
  /\ client_pc' = "wait_finish"

SwitchKeys ==
  /\ client_pc = "wait_switchover" /\ has_come(client_epoch.switchover, now)
  /\ public_keys' = next_public_keys
  /\ next_public_keys' = <<>>
  /\ client_epoch' = next(now)
  /\ client_pc' = "wait_finish"

ClientBusy ==
  \/ client_pc = "wait_finish" /\ has_come(client_epoch.allocation_finish, now)
  \/ client_pc = "wait_switchover" /\ has_come(client_epoch.switchover, now)
  \/ client_pc \in {"fetch_current", "fetch_next"}
=============================================================================
