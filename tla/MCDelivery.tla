----------------------------- MODULE MCDelivery -----------------------------
(***************************************************************************)
(* Two authorities that agree on their allocations but for two identities  *)
(* in the second epoch, as after a lost registration.  Identity 3 is one   *)
(* that neither gave to anybody.                                           *)
(***************************************************************************)
EXTENDS Delivery

MCOwner(a, epoch, identity) ==
  CASE identity = 3 -> NoRelay
    [] a = 1 /\ epoch = 2 /\ identity = 0 -> NoRelay
    [] a = 2 /\ epoch = 2 /\ identity = 2 -> 2
    [] OTHER -> ((identity + epoch) % 2) + 1

MCRoutes == {<<2, 0, 1>>, <<3>>}
=============================================================================
