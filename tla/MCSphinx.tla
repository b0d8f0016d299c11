------------------------------ MODULE MCSphinx ------------------------------
(***************************************************************************)
(* Routes of every length, with nodes that come back, one that is the      *)
(* beginning of another, one that is too long and an empty one; messages   *)
(* that contain the mark; one without content, and one that is too long.   *)
(***************************************************************************)
EXTENDS SphinxNet

MCRoutes == {<<>>, <<1>>, <<1, 2>>, <<1, 2, 1>>, <<1, 2, 3>>, <<1, 2, 3, 1>>}
MCMessages == {<<>>, <<1, 0>>, <<0, 1, 1>>, <<2, 2, 2, 2>>}
MCReused == {<<"secret", 0>>}

delays_of(route) == [i \in DOMAIN route |-> i]

Asked(route, delays, message, payload_size, secret) ==
  [route |-> route, delays |-> delays, message |-> message,
   payload_size |-> payload_size, secret |-> secret]

MCRequests ==
  {Asked(route, delays_of(route), <<1, 0>>, 6, secret) :
     route \in MCRoutes, secret \in {{}, MCReused}}
  \cup {Asked(<<1, 2>>, <<1, 2>>, message, payload_size, {}) :
          message \in MCMessages, payload_size \in {2, 3, 6}}
  \cup {Asked(<<1, 2, 3>>, <<1, 2>>, <<1, 0>>, 6, {})}
=============================================================================
