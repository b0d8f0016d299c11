----------------------------- MODULE SphinxHeader -----------------------------
(***************************************************************************)
(* The header of a Sphinx packet (header/): a layer for each node of the   *)
(* route, which tells the node whom to send the rest to.  However long the *)
(* route is, the header has a block for each of MAX_PATH_LENGTH nodes: a   *)
(* node removes the first one and appends one that decrypting zeros gives, *)
(* and the filler is what the appended blocks will have become at the end. *)
(*                                                                         *)
(* A block is three cells: flag and address, delay, integrity MAC; or, in  *)
(* the block for the last node, flag and destination, identifier, and the  *)
(* beginning of the padding.  The version is left out.  MACs are their     *)
(* inputs.  Asserting and indexing out of range are a panic.               *)
(***************************************************************************)
EXTENDS Cells, SphinxKeys

CONSTANT MAX_PATH_LENGTH

\* A header has blocks for so many nodes.
ASSUME PathAssumption == MAX_PATH_LENGTH \in Nat

\* Lengths in cells.
NODE_META_INFO_SIZE == 2
HEADER_INTEGRITY_MAC_SIZE == 1
FINAL_NODE_META_INFO_LENGTH == 2
FILLER_STEP_SIZE_INCREASE == NODE_META_INFO_SIZE + HEADER_INTEGRITY_MAC_SIZE
ENCRYPTED_ROUTING_INFO_SIZE == FILLER_STEP_SIZE_INCREASE * MAX_PATH_LENGTH
TRUNCATED_ROUTING_INFO_SIZE == ENCRYPTED_ROUTING_INFO_SIZE - FILLER_STEP_SIZE_INCREASE
STREAM_CIPHER_OUTPUT_LENGTH == FILLER_STEP_SIZE_INCREASE * (MAX_PATH_LENGTH + 1)

generate_pseudorandom_bytes(key) == keystream(key, 0, STREAM_CIPHER_OUTPUT_LENGTH)

HeaderIntegrityMac(key, header_data) == cell(<<"mac", key, header_data>>)

verify(integrity_mac, key, header_data) == integrity_mac = HeaderIntegrityMac(key, header_data)

-----------------------------------------------------------------------------
(* The sender.                                                             *)

\* Mutant: the first bytes of the stream instead of the last.
filler_stepFirst(filler, i, pseudorandom_bytes) ==
  xor(filler \o zeros(FILLER_STEP_SIZE_INCREASE),
      take(pseudorandom_bytes, i * FILLER_STEP_SIZE_INCREASE))

filler_step(filler, i, pseudorandom_bytes) ==
  xor(filler \o zeros(FILLER_STEP_SIZE_INCREASE),
      drop(pseudorandom_bytes, Len(pseudorandom_bytes) - i * FILLER_STEP_SIZE_INCREASE))

Filler(routing_keys) ==
  FoldLeft(LAMBDA filler, i :
             filler_step(filler, i, generate_pseudorandom_bytes(routing_keys[i]["stream_cipher"])),
           <<>>, [i \in DOMAIN routing_keys |-> i])

padding_length(route_len) ==
  ENCRYPTED_ROUTING_INFO_SIZE - FILLER_STEP_SIZE_INCREASE * (route_len - 1)
    - FINAL_NODE_META_INFO_LENGTH

\* The padding is random, so that it cannot be told from what is encrypted.
random(n) == [i \in 1..n |-> cell(<<"random", i>>)]

add_padding(destination, route_len) ==
  <<cell(<<"final", destination.address>>), cell(<<"identifier", destination.identifier>>)>>
    \o random(padding_length(route_len))

encrypt(cells, key) == xor(cells, take(generate_pseudorandom_bytes(key), Len(cells)))

encapsulate_with_mac(enc_routing_information, key) ==
  [integrity_mac           |-> HeaderIntegrityMac(key, enc_routing_information),
   enc_routing_information |-> enc_routing_information]

for_final_hop(destination, keys, filler, route_len) ==
  encapsulate_with_mac(
    encrypt(add_padding(destination, route_len), keys["stream_cipher"]) \o filler,
    keys["integrity_mac"])

truncate(enc_routing_information) == take(enc_routing_information, TRUNCATED_ROUTING_INFO_SIZE)

\* For a node: the next one, the delay, and what to send there, cut.
RoutingInformation(node_address, delay, next) ==
  <<cell(<<"forward", node_address>>), cell(<<"delay", delay>>), next.integrity_mac>>
    \o truncate(next.enc_routing_information)

\* From the last node but one to the first: what node i is told is encrypted
\* with its own key, and is the address of the node after it.
for_forward_hops(final_hop, delays, route, routing_keys) ==
  FoldRight(LAMBDA i, next :
              encapsulate_with_mac(
                encrypt(RoutingInformation(route[i + 1], delays[i], next),
                        routing_keys[i]["stream_cipher"]),
                routing_keys[i]["integrity_mac"]),
            [i \in 1..Len(route) - 1 |-> i], final_hop)

\* What SphinxHeader::new() and what it calls assert, or need in order not to
\* index out of range or subtract below zero.
Buildable(route, delays) ==
  /\ Len(route) - 1 >= 0
  /\ Len(route) - 1 <= MAX_PATH_LENGTH
  /\ Len(delays) = Len(route)
  /\ MAX_PATH_LENGTH - Len(route) >= 0
  /\ padding_length(Len(route)) >= 0

SphinxHeader_new(initial_secret, route, delays, destination) ==
  LET material == KeyMaterial(route, initial_secret)
      keys == material.routing_keys
      final_hop == for_final_hop(destination, Last(keys), Filler(Front(keys)), Len(route))
  IN  [header       |-> [shared_secret |-> material.initial_shared_secret,
                         routing_info  |-> for_forward_hops(final_hop, delays, route, keys)],
       payload_keys |-> [i \in DOMAIN keys |-> keys[i]["payload"]]]

-----------------------------------------------------------------------------
(* The nodes.                                                              *)

Failed == [kind |-> "error"]

parse_as_forward_hop(raw) ==
  [kind |-> "forward", next_hop |-> raw[1].text[2], delay |-> raw[2].text[2],
   routing_info |->
     [integrity_mac           |-> raw[3],
      enc_routing_information |-> take(drop(raw, FILLER_STEP_SIZE_INCREASE),
                                       ENCRYPTED_ROUTING_INFO_SIZE)]]

parse_as_final_hop(raw) ==
  [kind |-> "final", address |-> raw[1].text[2], identifier |-> raw[2].text[2]]

\* A flag that is still encrypted is none of the two.
parse(raw) == IF plain(raw[1], "forward") THEN parse_as_forward_hop(raw)
              ELSE IF plain(raw[1], "final") THEN parse_as_final_hop(raw)
              ELSE Failed

\* Mutant: without the padding, what the next node needs is too short.
unwrapUnpadded(enc_routing_information, key) ==
  parse(encrypt(enc_routing_information, key) \o zeros(FILLER_STEP_SIZE_INCREASE))

unwrap(enc_routing_information, key) ==
  parse(xor(enc_routing_information \o zeros(FILLER_STEP_SIZE_INCREASE),
            generate_pseudorandom_bytes(key)))

\* Mutant: the MAC is not verified, and whatever the first cell holds is
\* taken for routing information.
openUnverified(routing_info, keys) ==
  LET raw == xor(routing_info.enc_routing_information \o zeros(FILLER_STEP_SIZE_INCREASE),
                 generate_pseudorandom_bytes(keys["stream_cipher"]))
  IN  IF raw[1].text[1] = "forward" THEN parse_as_forward_hop(raw) ELSE parse_as_final_hop(raw)

\* The MAC is verified before anything else is looked at.
open(routing_info, keys) ==
  IF verify(routing_info.integrity_mac, keys["integrity_mac"],
            routing_info.enc_routing_information)
    THEN unwrap(routing_info.enc_routing_information, keys["stream_cipher"])
    ELSE Failed

ForwardHop(shared_secret, parsed, keys) ==
  [kind |-> "forward",
   header |-> [shared_secret |-> shared_secret, routing_info |-> parsed.routing_info],
   next_hop |-> parsed.next_hop, delay |-> parsed.delay, payload_key |-> keys["payload"]]

FinalHop(parsed, keys) ==
  [kind |-> "final", destination |-> [address |-> parsed.address, identifier |-> parsed.identifier],
   payload_key |-> keys["payload"]]

process_header(header, node_secret_key) ==
  LET keys == compute_routing_keys(header.shared_secret, node_secret_key)
      parsed == open(header.routing_info, keys)
  IN  CASE parsed.kind = "forward" ->
             ForwardHop(blind_the_shared_secret(header.shared_secret, keys["blinding"]), parsed, keys)
        [] parsed.kind = "final" -> FinalHop(parsed, keys)
        [] parsed.kind = "error" -> Failed

\* With keys and the next secret from an earlier packet under the same secret;
\* the next secret is an Option, a sequence of at most one.
process_header_with_derived_keys(header, new_blinded_secret, keys) ==
  LET parsed == open(header.routing_info, keys)
  IN  CASE parsed.kind = "forward" ->
             IF new_blinded_secret = <<>> THEN Failed
             ELSE ForwardHop(new_blinded_secret[1], parsed, keys)
        [] parsed.kind = "final" -> FinalHop(parsed, keys)
        [] parsed.kind = "error" -> Failed
=============================================================================
