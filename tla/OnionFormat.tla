----------------------------- MODULE OnionFormat -----------------------------
(***************************************************************************)
(* Wrapping and unwrapping of onions (format.rs).                          *)
(*                                                                         *)
(* The header has a block for each hop of the route, and a block is three  *)
(* cells: the delay, the tag, and whom to send the rest to (an identity    *)
(* and shares).  The payload is one cell.  Keystreams are those of nonces. *)
(*                                                                         *)
(* A nonce is shared among the authorities.  A share is a point of the     *)
(* nonce's polynomial, encrypted for an identity under one authority's     *)
(* key.  Tags are their inputs, that is, nobody finds collisions.          *)
(***************************************************************************)
EXTENDS Cells

\* HOP_INFO_SIZE and the serialised identity and shares, in cells.
BLOCK == 3

\* The keystream of a nonce, from a place on.
apply_keystream(cells, nonce, place) == xor(cells, keystream(nonce, place, Len(cells)))

empty_share == [params |-> <<>>, identity |-> 0, secret |-> <<>>, point |-> 0]

\* split() and Share::wrap(): one point for each authority's key.
shares_of(nonce, identity, public_keys) ==
  [i \in DOMAIN public_keys |->
     [params |-> public_keys[i], identity |-> identity, secret |-> nonce, point |-> i]]

GARBAGE == <<"garbage">>

\* Share::unwrap(): a key of another authority, epoch or identity makes
\* something of the share, too.  Whether the library's result also depends on
\* the public key it is passed is left open: `strict' says that it does.
decrypted(share, public_key, private_key, strict) ==
  IF /\ share.params = private_key.params /\ share.identity = private_key.identity
     /\ strict => share.params = public_key
    THEN [secret |-> share.secret, point |-> share.point]
    ELSE [secret |-> GARBAGE, point |-> 0]

\* Mutant: the points that there are suffice.
recoveredFewer(onion, public_keys, private_keys, strict) ==
  LET points == [i \in 1..Len(private_keys) |->
                   decrypted(onion.shares[i], public_keys[i], private_keys[i], strict)]
      secret == onion.shares[1].secret
  IN  IF /\ Len(points) > 0
         /\ \A i \in DOMAIN points : points[i] = [secret |-> secret, point |-> i]
        THEN secret ELSE GARBAGE

\* The first half of unwrap(): a private key for each share, and all points in
\* the order of their numbers, give the secret.  With fewer private keys,
\* recover() panics; no tag fits then either.
recovered(onion, public_keys, private_keys, strict) ==
  LET points == [i \in 1..Len(private_keys) |->
                   decrypted(onion.shares[i], public_keys[i], private_keys[i], strict)]
      secret == onion.shares[1].secret
  IN  IF /\ Len(points) = Len(onion.shares)
         /\ \A i \in DOMAIN points : points[i] = [secret |-> secret, point |-> i]
        THEN secret ELSE GARBAGE

\* The tag is at its place in the header, but not part of what it is of.
tag_onion(nonce, identity, shares, header, payload) ==
  <<"tag", nonce, identity, shares, header[1], drop(header, 2), payload>>

fresh(num_authorities, path_length, data) ==
  [identity |-> 0,
   shares   |-> [i \in 1..num_authorities |-> empty_share],
   header   |-> zeros(path_length * BLOCK),
   payload  |-> <<cell(<<"data", data>>)>>]

\* Mutant: the keystream is applied before the header is extended.
compute_fillerShort(onion, nonce) ==
  [onion EXCEPT !.header = drop(apply_keystream(@, nonce, 0) \o zeros(BLOCK), BLOCK)]

compute_filler(onion, nonce) ==
  [onion EXCEPT !.header = drop(apply_keystream(@ \o zeros(BLOCK), nonce, 0), BLOCK)]

wrap_with_nonce(onion, nonce, identity, public_keys, delay) ==
  LET shares == shares_of(nonce, identity, public_keys)
      hop == <<cell(<<"delay", delay>>), cell(<<"zero">>),
               cell(<<"next", onion.identity, onion.shares>>)>>
      header == SubSeq(apply_keystream(hop \o onion.header, nonce, 0), 1, Len(onion.header))
      payload == apply_keystream(onion.payload, nonce, Len(onion.header) + BLOCK)
      tag == cell(tag_onion(nonce, identity, shares, header, payload))
  IN  [identity |-> identity, shares |-> shares,
       header |-> [header EXCEPT ![2] = tag], payload |-> payload]

\* Mutant: the layers are put on in the order of the route.
wrapReversed(nonces, identities, delays, public_keys, data) ==
  LET filled == FoldLeft(compute_filler,
                         fresh(Len(public_keys), Len(identities), data), nonces)
  IN  FoldLeft(LAMBDA onion, i :
                 wrap_with_nonce(onion, nonces[i], identities[i], public_keys, delays[i]),
               filled, [i \in DOMAIN identities |-> i])

\* wrap(): the layers are put on from the last hop to the first, after the
\* filler of all hops has been computed in the order of the route.
wrap(nonces, identities, delays, public_keys, data) ==
  LET filled == FoldLeft(compute_filler,
                         fresh(Len(public_keys), Len(identities), data), nonces)
  IN  FoldRight(LAMBDA i, onion :
                  wrap_with_nonce(onion, nonces[i], identities[i], public_keys, delays[i]),
                [i \in DOMAIN identities |-> i], filled)

refused == [ok |-> FALSE]

\* The second half: the tag must be that of the onion as it came.
unwrap(onion, nonce) ==
  LET header == apply_keystream(onion.header \o zeros(BLOCK), nonce, 0)
      payload == apply_keystream(onion.payload, nonce, Len(onion.header) + BLOCK)
  IN  IF \/ onion.header[2] # cell(tag_onion(nonce, onion.identity, onion.shares,
                                              onion.header, onion.payload))
         \/ ~plain(header[1], "delay") \/ ~plain(header[3], "next") THEN refused
      ELSE [ok |-> TRUE, delay |-> header[1].text[2],
            onion |-> [identity |-> header[3].text[2], shares |-> header[3].text[3],
                       header |-> drop(header, BLOCK), payload |-> payload]]

is_final_destination(onion) ==
  onion.identity = 0 /\ \A i \in DOMAIN onion.shares : onion.shares[i] = empty_share
=============================================================================
