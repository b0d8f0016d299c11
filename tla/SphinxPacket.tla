----------------------------- MODULE SphinxPacket -----------------------------
(***************************************************************************)
(* Whole Sphinx packets (packet/), their payload (payload/), and single    *)
(* use reply blocks (surb/).                                               *)
(*                                                                         *)
(* The payload is under Lioness, a cipher over a block of any size: its    *)
(* layers come off only in the opposite order of that in which they were   *)
(* put on.  Each byte of a payload carries the layers it is under.  What   *)
(* is sent is a sequence of header cells followed by payload bytes.        *)
(***************************************************************************)
EXTENDS SphinxHeader

CONSTANTS SECURITY_PARAMETER,   \* 16
          DIGEST_RESULT_SIZE    \* 32, of Lioness

\* Sizes are numbers.
ASSUME SizesAssumption == SECURITY_PARAMETER \in Nat /\ DIGEST_RESULT_SIZE \in Nat

PAYLOAD_OVERHEAD_SIZE == SECURITY_PARAMETER + 1

\* The secret is one cell, an address too, and a payload key is two.
HEADER_SIZE == 1 + HEADER_INTEGRITY_MAC_SIZE + ENCRYPTED_ROUTING_INFO_SIZE
NODE_ADDRESS_LENGTH == 1
PAYLOAD_KEY_SIZE == 2

-----------------------------------------------------------------------------
(* The payload.                                                            *)

Layered(payload, layer, inverse) ==
  [i \in DOMAIN payload |->
     [payload[i] EXCEPT !.layers = IF @ # <<>> /\ Last(@) = inverse THEN Front(@)
                                   ELSE Append(@, layer)]]

add_encryption_layer(payload, key) ==
  Layered(payload, <<"encrypted", key>>, <<"decrypted", key>>)

unwrap_payload(payload, key) ==
  Layered(payload, <<"decrypted", key>>, <<"encrypted", key>>)

\* Mutant: the mark is forgotten.
validate_parametersUnmarked(payload_size, plaintext_len) ==
  /\ payload_size >= DIGEST_RESULT_SIZE
  /\ plaintext_len <= payload_size - SECURITY_PARAMETER

validate_parameters(payload_size, plaintext_len) ==
  /\ payload_size >= PAYLOAD_OVERHEAD_SIZE
  /\ payload_size >= DIGEST_RESULT_SIZE
  /\ plaintext_len <= payload_size - PAYLOAD_OVERHEAD_SIZE

repeat(byte, n) == [i \in 1..n |-> byte]

set_final_payload(plaintext, payload_size) ==
  LET start == repeat(0, SECURITY_PARAMETER) \o plaintext \o <<1>>
      all == start \o repeat(0, payload_size - Len(start))
  IN  [i \in DOMAIN all |-> [byte |-> all[i], layers |-> <<>>]]

\* Of parameters that have been validated.
encapsulate_message(plaintext, payload_keys, payload_size) ==
  FoldRight(LAMBDA key, payload : add_encryption_layer(payload, key), payload_keys,
            set_final_payload(plaintext, payload_size))

\* Bytes under a layer are taken for noise, which does not start with zeros.
\* The mark is the last 1, as those before belong to the message.
marks(payload) == {i \in DOMAIN payload : i > SECURITY_PARAMETER /\ payload[i].byte = 1}

\* What was sent, if it can be told: a sequence of at most one message.
recover_plaintext(payload) ==
  LET mark == CHOOSE i \in marks(payload) : \A j \in marks(payload) : j <= i
  IN  IF \/ \E i \in DOMAIN payload : payload[i].layers # <<>>
         \/ \E i \in 1..SECURITY_PARAMETER : payload[i].byte # 0
         \/ marks(payload) = {} THEN <<>>
      ELSE <<[i \in 1..mark - 1 - SECURITY_PARAMETER |-> payload[i + SECURITY_PARAMETER].byte]>>

-----------------------------------------------------------------------------
(* Packets.                                                                *)

header_to_bytes(header) ==
  <<cell(<<"shared_secret", header.shared_secret>>), header.routing_info.integrity_mac>>
    \o header.routing_info.enc_routing_information

\* Of HEADER_SIZE cells.
header_from_bytes(bytes) ==
  [shared_secret |-> bytes[1].text[2],
   routing_info  |-> [integrity_mac           |-> bytes[2],
                      enc_routing_information |-> drop(bytes, 2)]]

packet_to_bytes(packet) == header_to_bytes(packet.header) \o packet.payload

packet_from_bytes(bytes) ==
  IF Len(bytes) < HEADER_SIZE + PAYLOAD_OVERHEAD_SIZE THEN Failed
  ELSE [kind |-> "packet", header |-> header_from_bytes(take(bytes, HEADER_SIZE)),
        payload |-> drop(bytes, HEADER_SIZE)]

\* A header and the payload keys that go with it make a packet around a message.
with_payload(header, payload_keys, message, payload_size) ==
  IF validate_parameters(payload_size, Len(message))
    THEN [kind |-> "packet", header |-> header,
          payload |-> encapsulate_message(message, payload_keys, payload_size)]
    ELSE Failed

build_packet(initial_secret, message, route, destination, delays, payload_size) ==
  LET built == SphinxHeader_new(initial_secret, route, delays, destination)
  IN  with_payload(built.header, built.payload_keys, message, payload_size)

\* What is done to the payload once the header is processed.
with_header(processed, payload) ==
  CASE processed.kind = "forward" ->
         [kind |-> "forward", next_hop |-> processed.next_hop, delay |-> processed.delay,
          packet |-> [kind |-> "packet", header |-> processed.header,
                      payload |-> unwrap_payload(payload, processed.payload_key)]]
    [] processed.kind = "final" ->
         [kind |-> "final", destination |-> processed.destination,
          payload |-> unwrap_payload(payload, processed.payload_key)]
    [] processed.kind = "error" -> Failed

process(packet, node_secret_key) ==
  with_header(process_header(packet.header, node_secret_key), packet.payload)

process_with_derived_keys(packet, new_blinded_secret, routing_keys) ==
  with_header(process_header_with_derived_keys(packet.header, new_blinded_secret, routing_keys),
              packet.payload)

\* ProcessedPacket::shared_secret()
next_secret(processed) ==
  IF processed.kind = "forward" THEN <<processed.packet.header.shared_secret>> ELSE <<>>

-----------------------------------------------------------------------------
(* Single use reply blocks.                                                *)

SURB_new(initial_secret, route, delays, destination) ==
  LET built == SphinxHeader_new(initial_secret, route, delays, destination)
  IN  [kind |-> "surb", header |-> built.header, first_hop_address |-> route[1],
       payload_keys |-> built.payload_keys]

use_surb(surb, message, payload_size) ==
  with_payload(surb.header, surb.payload_keys, message, payload_size)

halves(key) == <<cell(<<"key", key, 1>>), cell(<<"key", key, 2>>)>>

surb_to_bytes(surb) ==
  header_to_bytes(surb.header) \o <<cell(<<"address", surb.first_hop_address>>)>>
    \o FlattenSeq([i \in DOMAIN surb.payload_keys |-> halves(surb.payload_keys[i])])

\* How many keys there are is found by division.
surb_from_bytes(bytes) ==
  LET keys == drop(bytes, HEADER_SIZE + NODE_ADDRESS_LENGTH) IN
  IF Len(keys) < PAYLOAD_KEY_SIZE \/ Len(keys) % PAYLOAD_KEY_SIZE # 0 THEN Failed
  ELSE [kind |-> "surb", header |-> header_from_bytes(take(bytes, HEADER_SIZE)),
        first_hop_address |-> bytes[HEADER_SIZE + 1].text[2],
        payload_keys |-> [i \in 1..Len(keys) \div PAYLOAD_KEY_SIZE |->
                            keys[(i - 1) * PAYLOAD_KEY_SIZE + 1].text[2]]]
=============================================================================
