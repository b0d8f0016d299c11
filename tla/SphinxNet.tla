------------------------------ MODULE SphinxNet ------------------------------
(***************************************************************************)
(* Packets of the Sphinx library on their way through nodes.  A packet is  *)
(* built by its sender, who may use one initial secret for several; or the *)
(* recipient makes a reply block, and who has it sends a message back to   *)
(* the recipient without knowing where that is.                            *)
(*                                                                         *)
(* A node processes whatever it gets, and packets may come to the wrong    *)
(* one.  It keeps the keys it derived and the secret that it passed on,    *)
(* and uses them for packets under the same secret, as the library offers. *)
(***************************************************************************)
EXTENDS SphinxPacket

CONSTANTS Node, Packet,
          Routes,      \* the routes senders choose among, sequences of nodes
          Messages,    \* and the messages, sequences of bytes
          Requests,    \* and what they ask the library for with these
          Reused       \* an initial secret that is used for many packets

\* A request's fields: route, delays, message, payload_size, secret.  A secret
\* is no public key or blinding factor.
ASSUME RequestsAssumption ==
  /\ \A request \in Requests : /\ request.route \in Routes /\ request.message \in Messages
                                /\ request.delays \in Seq(Nat) /\ request.payload_size \in Nat
  /\ \A route \in Routes : route \in Seq(Node)
  /\ \A message \in Messages : message \in Seq(Nat)
  /\ \A factor \in Reused : factor[1] = "secret"

VARIABLES pc,         \* where each packet is
          request,    \* what was asked for
          bytes,      \* what is sent: a packet or, before that, a reply block
          next_hop,   \* the node it is to go to
          cache,      \* each node's keys, by the packets' secret
          payload,    \* what came out of the last layer
          received,   \* what was recovered from it
          visited,    \* history: the stops, node and what it was told
          misled      \* history: whether the packet came to a wrong node

vars == <<pc, request, bytes, next_hop, cache, payload, received, visited, misled>>

NoRequest == [route |-> <<>>, delays |-> <<>>, message |-> <<>>, payload_size |-> 0, secret |-> {}]

\* The secret of a packet, if it is not to be a used one, is a new one.
initial_secret(p, secret) == IF secret = Reused THEN Reused ELSE {<<"secret", p>>}

destination(p) == [address |-> <<"recipient", p>>, identifier |-> <<"identifier", p>>]

Init ==
  /\ pc = [p \in Packet |-> "unsent"]
  /\ request = [p \in Packet |-> NoRequest]
  /\ bytes = [p \in Packet |-> <<>>]
  /\ next_hop = [p \in Packet |-> <<>>]
  /\ cache = [n \in Node |-> <<>>]
  /\ payload = [p \in Packet |-> <<>>]
  /\ received = [p \in Packet |-> <<>>]
  /\ visited = [p \in Packet |-> <<>>]
  /\ misled = [p \in Packet |-> FALSE]

-----------------------------------------------------------------------------
Becomes(p, place) == pc' = [pc EXCEPT ![p] = place]
Ends(p, place) == Becomes(p, place) /\ bytes' = [bytes EXCEPT ![p] = <<>>]

\* A packet is made and sent to its first node, or is not made.
Sends(p, result, first) ==
  \/ /\ result.kind = "error"
     /\ Ends(p, "refused")
     /\ UNCHANGED next_hop
  \/ /\ result.kind = "packet"
     /\ Becomes(p, "flying")
     /\ bytes' = [bytes EXCEPT ![p] = packet_to_bytes(result)]
     /\ next_hop' = [next_hop EXCEPT ![p] = <<first>>]

\* The route and the delays are not checked, only asserted.
BuildPacket(p, r) ==
  /\ pc[p] = "unsent"
  /\ request' = [request EXCEPT ![p] = r]
  /\ \/ ~Buildable(r.route, r.delays) /\ Ends(p, "panicked") /\ UNCHANGED next_hop
     \/ /\ Buildable(r.route, r.delays)
        /\ \E result \in {build_packet(initial_secret(p, r.secret), r.message, r.route,
                                       destination(p), r.delays, r.payload_size)} :
             Sends(p, result, r.route[1])
  /\ UNCHANGED <<cache, payload, received, visited, misled>>

\* What a reply block is made for is checked, but for its length.
construct_SURB(p, r) ==
  /\ pc[p] = "unsent" /\ r.secret # Reused
  /\ request' = [request EXCEPT ![p] = r]
  /\ \/ /\ r.route = <<>> \/ Len(r.delays) # Len(r.route)
        /\ Ends(p, "refused")
     \/ /\ r.route # <<>> /\ Len(r.delays) = Len(r.route)
        /\ \/ ~Buildable(r.route, r.delays) /\ Ends(p, "panicked")
           \/ /\ Buildable(r.route, r.delays)
              /\ Becomes(p, "surb")
              /\ bytes' = [bytes EXCEPT ![p] =
                             surb_to_bytes(SURB_new(initial_secret(p, r.secret), r.route,
                                                    r.delays, destination(p)))]
  /\ UNCHANGED <<next_hop, cache, payload, received, visited, misled>>

\* The reply block was sent as bytes.
UseSURB(p) ==
  /\ pc[p] = "surb"
  /\ \E surb \in {surb_from_bytes(bytes[p])} :
       IF surb.kind = "error" THEN Ends(p, "refused") /\ UNCHANGED next_hop
       ELSE Sends(p, use_surb(surb, request[p].message, request[p].payload_size),
                  surb.first_hop_address)
  /\ UNCHANGED <<request, cache, payload, received, visited, misled>>

-----------------------------------------------------------------------------
secrets(entries) == {entries[i].shared_secret : i \in DOMAIN entries}

entry(n, shared_secret) ==
  LET i == CHOOSE j \in DOMAIN cache[n] : cache[n][j].shared_secret = shared_secret
  IN  cache[n][i]

\* With what the node has from an earlier packet, if it has it.
processed(packet, n) ==
  LET shared_secret == packet.header.shared_secret IN
  IF shared_secret \in secrets(cache[n])
    THEN process_with_derived_keys(packet, entry(n, shared_secret).new_blinded_secret,
                                   entry(n, shared_secret).routing_keys)
    ELSE process(packet, private_key(n))

\* Mutant: an entry is added whether there is one or not.
RemembersAgain(n, packet, result) ==
  LET shared_secret == packet.header.shared_secret IN
  cache' = IF result.kind = "error" THEN cache
           ELSE [cache EXCEPT ![n] =
                   Append(@, [shared_secret |-> shared_secret,
                              new_blinded_secret |-> next_secret(result),
                              routing_keys |-> compute_routing_keys(shared_secret, private_key(n))])]

\* Mutant: the secret that is kept is the one that came.
RemembersUnblinded(n, packet, result) ==
  LET shared_secret == packet.header.shared_secret IN
  cache' = IF result.kind = "error" \/ shared_secret \in secrets(cache[n]) THEN cache
           ELSE [cache EXCEPT ![n] =
                   Append(@, [shared_secret |-> shared_secret,
                              new_blinded_secret |->
                                IF next_secret(result) = <<>> THEN <<>> ELSE <<shared_secret>>,
                              routing_keys |-> compute_routing_keys(shared_secret, private_key(n))])]

Remembers(n, packet, result) ==
  LET shared_secret == packet.header.shared_secret IN
  cache' = IF result.kind = "error" \/ shared_secret \in secrets(cache[n]) THEN cache
           ELSE [cache EXCEPT ![n] =
                   Append(@, [shared_secret |-> shared_secret,
                              new_blinded_secret |-> next_secret(result),
                              routing_keys |-> compute_routing_keys(shared_secret, private_key(n))])]

Process(p, n) ==
  /\ pc[p] = "flying"
  /\ \E packet \in {packet_from_bytes(bytes[p])} :
       \E result \in {processed(packet, n)} :
         /\ Remembers(n, packet, result)
         /\ \/ result.kind = "error" /\ Ends(p, "lost") /\ UNCHANGED <<next_hop, visited, payload>>
            \/ /\ result.kind = "forward"
               /\ bytes' = [bytes EXCEPT ![p] = packet_to_bytes(result.packet)]
               /\ next_hop' = [next_hop EXCEPT ![p] = <<result.next_hop>>]
               /\ visited' = [visited EXCEPT ![p] = Append(@, <<n, result.delay>>)]
               /\ UNCHANGED <<pc, payload>>
            \/ /\ result.kind = "final"
               /\ Ends(p, "final")
               /\ visited' = [visited EXCEPT ![p] = Append(@, <<n, result.destination>>)]
               /\ payload' = [payload EXCEPT ![p] = result.payload]
               /\ UNCHANGED next_hop
  /\ misled' = [misled EXCEPT ![p] = @ \/ next_hop[p] # <<n>>]
  /\ UNCHANGED <<request, received>>

Recover(p) ==
  /\ pc[p] = "final"
  /\ received' = [received EXCEPT ![p] = recover_plaintext(payload[p])]
  /\ Becomes(p, IF received'[p] = <<>> THEN "lost" ELSE "delivered")
  /\ UNCHANGED <<request, bytes, next_hop, cache, payload, visited, misled>>

Next == \E p \in Packet :
          \/ \E r \in Requests : BuildPacket(p, r) \/ construct_SURB(p, r)
          \/ UseSURB(p) \/ Recover(p)
          \/ \E n \in Node : Process(p, n)

Spec == Init /\ [][Next]_vars

-----------------------------------------------------------------------------
Sent(p) == pc[p] \in {"flying", "final", "delivered", "lost"}

\* A packet never grows or shrinks, so that its length does not tell how many
\* nodes it has passed or has to pass, and a node keeps one entry for a secret.
TypeOK ==
  /\ \A p \in Packet :
       /\ pc[p] \in {"unsent", "surb", "refused", "panicked"} \/ Sent(p)
       /\ pc[p] = "flying" => Len(bytes[p]) = HEADER_SIZE + request[p].payload_size
       /\ Len(payload[p]) \in {0, request[p].payload_size}
       /\ Len(received[p]) <= 1
  /\ \A n \in Node : Cardinality(secrets(cache[n])) = Len(cache[n])

Fits(r) == /\ Len(r.route) \in 1..MAX_PATH_LENGTH /\ Len(r.delays) = Len(r.route)
           /\ r.payload_size >= DIGEST_RESULT_SIZE
           /\ r.payload_size >= SECURITY_PARAMETER + Len(r.message) + 1

\* The packets that are made are those whose route has a node and no more than
\* MAX_PATH_LENGTH, with a delay for each, and whose message fits; for these
\* nothing is refused and no length becomes negative, neither for packets nor
\* for reply blocks.
MadeIffItFits ==
  \A p \in Packet : /\ Sent(p) => Fits(request[p])
                    /\ pc[p] \in {"refused", "panicked"} => ~Fits(request[p])

\* On its way, everything in a packet but the secret and the MAC is hidden by
\* some key, whatever nodes have removed from it and appended to it, and the
\* payload is under one layer for each node still to come.
NothingInClear ==
  \A p \in Packet : pc[p] = "flying" =>
    /\ \A i \in 3..HEADER_SIZE : bytes[p][i].pads # {}
    /\ \A i \in HEADER_SIZE + 1..Len(bytes[p]) :
         Len(bytes[p][i].layers) = Len(request[p].route) - Len(visited[p])

\* A packet gets lost only if it came to a node that it was not meant for, or
\* if another under the same secret, and through the same nodes until then, had
\* its route end where this one's goes on: that leaves the node without the
\* secret to pass on.
LostOnlyForAReason ==
  \A p \in Packet : pc[p] = "lost" =>
    \/ misled[p]
    \/ \E q \in Packet :
         /\ initial_secret(q, request[q].secret) = initial_secret(p, request[p].secret)
         /\ Len(request[q].route) = Len(visited[p]) + 1
         /\ Len(visited[q]) = Len(request[q].route)
         /\ IsPrefix(request[q].route, request[p].route)

\* What leaves a node has nothing in common with what came in, cell by cell and
\* byte by byte.
LooksDifferent ==
  [][\A p \in Packet : Len(bytes[p]) > 0 /\ Len(visited'[p]) > Len(visited[p]) =>
       \A i \in DOMAIN bytes[p], j \in DOMAIN bytes'[p] :
         (i > HEADER_SIZE <=> j > HEADER_SIZE) => bytes[p][i] # bytes'[p][j]]_vars

-----------------------------------------------------------------------------
(* What the sender is promised.                                            *)

Itinerary(route, delays, final) ==
  [i \in DOMAIN route |-> <<route[i], IF i = Len(route) THEN final ELSE delays[i]>>]

Itineraries == {Itinerary(r.route, r.delays, destination(p)) : r \in {s \in Requests : Fits(s)}, p \in Packet}

Journeys ==
  [p \in Packet |->
     IF Sent(p) THEN [itinerary |-> Itinerary(request[p].route, request[p].delays, destination(p)),
                      content   |-> <<request[p].message>>]
     ELSE [itinerary |-> <<>>, content |-> <<>>]]

Stages == [p \in Packet |-> CASE pc[p] \in {"flying", "final"} -> "underway"
                              [] pc[p] = "lost" -> "lost"
                              [] pc[p] = "delivered" -> "arrived"
                              [] OTHER -> "unsent"]

Promise == INSTANCE Journey WITH
  Message <- Packet, Contents <- Messages, sent <- Journeys, stage <- Stages

\* Every node of the route learns the next one and its delay, the last one the
\* recipient, each in its turn and nobody else anything; and the recipient gets
\* the message, whether a packet or a reply block brought it, and whether the
\* nodes had the keys already or derived them.
ImplementsJourney == Promise!Spec
=============================================================================
