------------------------------- MODULE Epoch -------------------------------
(***************************************************************************)
(* The schedule that authorities, relays and clients follow, each by its   *)
(* own clock (shared.rs).  Once per EPOCH_DURATION, relays register,       *)
(* authorities allocate, relays and clients fetch the keys of the coming   *)
(* epoch, and at the switchover all of them start to use those keys.       *)
(*                                                                         *)
(* Times are numbers; in the source a unit is a minute, EPOCH_DURATION is  *)
(* 60, the offsets are 10, 15 and 30, and registration is at half past     *)
(* every hour.                                                             *)
(***************************************************************************)
EXTENDS Integers

CONSTANTS EPOCH_DURATION,
          REGISTRATION,        \* registrations are at this time, modulo the duration
          ALLOCATION_START,    \* the other instants of an epoch, as offsets
          ALLOCATION_FINISH,   \* from its registration time
          SWITCHOVER

ASSUME EpochAssumption ==
  /\ EPOCH_DURATION \in Nat /\ REGISTRATION \in Nat
  /\ ALLOCATION_START \in Nat /\ ALLOCATION_FINISH \in Nat /\ SWITCHOVER \in Nat
  /\ 0 < ALLOCATION_START
  /\ ALLOCATION_START < ALLOCATION_FINISH
  /\ ALLOCATION_FINISH < SWITCHOVER
  /\ SWITCHOVER < EPOCH_DURATION

from_registration(t) ==
  [registration      |-> t,
   allocation_start  |-> t + ALLOCATION_START,
   allocation_finish |-> t + ALLOCATION_FINISH,
   switchover        |-> t + SWITCHOVER]

\* Epoch::next(): the epoch of the first registration time after now.
next(now) ==
  from_registration(now + EPOCH_DURATION - ((now - REGISTRATION) % EPOCH_DURATION))

succeeding(epoch) == from_registration(epoch.registration + EPOCH_DURATION)

\* wait_until(when) returns: at once if the time has passed already.
has_come(when, now) == when <= now
=============================================================================
