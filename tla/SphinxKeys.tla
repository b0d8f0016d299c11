------------------------------ MODULE SphinxKeys ------------------------------
(***************************************************************************)
(* The keys of Sphinx packets (crypto/keys.rs, header/keys.rs).            *)
(*                                                                         *)
(* A point of the group is represented by its exponent, and an exponent by *)
(* the set of its factors: secrets and blinding factors.  The group is     *)
(* commutative, so that a set says it all; no factor occurs twice here.    *)
(* What is derived from a shared key is the key and the use it is for,     *)
(* that is, nobody finds collisions.                                       *)
(***************************************************************************)
EXTENDS SequencesExt

private_key(node) == {<<"node", node>>}
public_key(private) == private

diffie_hellman(private, remote_public_key) == private \cup remote_public_key

RoutingKeys(shared_key) ==
  [use \in {"stream_cipher", "integrity_mac", "payload", "blinding"} |-> <<use, shared_key>>]

\* A blinding factor, as a scalar.
scalar(blinding_factor) == {blinding_factor}

\* The sender goes through the route with the product of its secret and all
\* blinding factors so far; it has the keys of all nodes in the end.
KeyMaterial(route, initial_secret) ==
  LET step(so_far, node) ==
        LET shared_key == diffie_hellman(so_far.accumulator, public_key(private_key(node)))
            keys == RoutingKeys(shared_key)
        IN  [accumulator  |-> so_far.accumulator \cup scalar(keys["blinding"]),
             routing_keys |-> Append(so_far.routing_keys, keys)]
  IN  [initial_shared_secret |-> public_key(initial_secret),
       routing_keys |->
         FoldLeft(step, [accumulator |-> initial_secret, routing_keys |-> <<>>],
                  route).routing_keys]

\* A node multiplies the shared secret by the blinding factor it derives.
blind_the_shared_secret(shared_secret, blinding_factor) ==
  diffie_hellman(scalar(blinding_factor), shared_secret)

compute_routing_keys(shared_secret, node_secret_key) ==
  RoutingKeys(diffie_hellman(node_secret_key, shared_secret))
=============================================================================
