------------------------------ MODULE Delivery ------------------------------
(***************************************************************************)
(* Onions on their way from a client (bin/client.rs) through the relays    *)
(* (bin/relay.rs) to the board (bin/board.rs), while all parties switch    *)
(* from one epoch to the next at moments of their own.                     *)
(*                                                                         *)
(* A relay handles each onion in a thread of its own, which takes the read *)
(* lock on the relay's keys three times: for the public keys, for the      *)
(* private ones, and for as long as it takes to send the onion on.  The    *)
(* relay's epoch task takes the write lock, and so does the client's on    *)
(* its public keys.  The locks are fair: nobody gets a read lock while     *)
(* somebody waits for the write lock.                                      *)
(*                                                                         *)
(* How the keys of an epoch come about is the matter of module Network;    *)
(* here each authority's allocation of an epoch is given.                  *)
(***************************************************************************)
EXTENDS OnionFormat, FiniteSets

CONSTANTS Relay,
          NumAuthorities,
          Owner(_, _, _),   \* the relay to which an authority gives, in an
                            \* epoch, an identity
          NoRelay,
          MAX_EPOCH,        \* epochs are 1..MAX_EPOCH
          Routes,           \* the routes, sequences of identities, among which
                            \* the client chooses one for each message
          MAX_MESSAGES,     \* how many messages the client sends
          MAX_CRASHES,      \* how many relays may crash
          BOARD_SIZE,       \* how many messages the board keeps (100)
          Allowed           \* the messages whose content the board shows

\* There is an authority to ask and a hop to send to.
ASSUME DeliveryAssumption ==
  /\ NumAuthorities \in Nat \ {0} /\ MAX_EPOCH \in Nat \ {0}
  /\ MAX_MESSAGES \in Nat /\ BOARD_SIZE \in Nat
  /\ \A identities \in Routes : identities \in Seq(Range(identities)) \ {<<>>}

Authorities == 1..NumAuthorities
Message == 1..MAX_MESSAGES
Epochs == 1..MAX_EPOCH

VARIABLES authority_epoch,   \* the epoch each authority is in
          client_epoch,      \* the epoch of the client's public keys
          live_epoch,        \* the epoch of each relay's keys
          up,                \* the relays that have not crashed
          writer,            \* relays whose epoch task waits for the write lock
          client_writer,     \* whether the client's does
          readers,           \* the onions that hold each relay's lock to be sent
          task,              \* what handles each message, client or relay
          messages,          \* what the board shows
          route, wrapped,    \* history: each message's route, and the epoch of
                             \* the keys it was wrapped with
          hops,              \* the relays, identities and delays of its unwrapping
          posted             \* the payloads that were posted to the board

epochs == <<authority_epoch, client_epoch, live_epoch>>
locks == <<writer, client_writer, readers>>
history == <<route, wrapped, hops>>
vars == <<epochs, up, locks, task, messages, posted, history>>

\* Where the handling of a message is, the relay that handles it, the one it is
\* to be sent to, and how many authorities the client has asked.
Task(place) == [pc |-> place, at |-> NoRelay, to |-> NoRelay, asked |-> 0,
                onion |-> fresh(0, 0, 0), public_keys |-> <<>>]

Init ==
  /\ authority_epoch = [a \in Authorities |-> 1]
  /\ client_epoch = 1
  /\ live_epoch = [r \in Relay |-> 1]
  /\ up = Relay
  /\ writer = {} /\ client_writer = FALSE
  /\ readers = [r \in Relay |-> {}]
  /\ task = [m \in Message |-> Task("unsent")]
  /\ messages = <<>> /\ posted = <<>>
  /\ route = [m \in Message |-> <<>>]
  /\ wrapped = [m \in Message |-> 0]
  /\ hops = [m \in Message |-> <<>>]

\* The key pair of an authority in an epoch.
params(a, epoch) == <<a, epoch>>
keys_of(epoch) == [a \in Authorities |-> params(a, epoch)]

At(m, place) == task[m].pc = place
Becomes(m, new) == task' = [task EXCEPT ![m] = new]
Ends(m, place) == Becomes(m, Task(place))

-----------------------------------------------------------------------------
(* The client holds its read lock from before an onion is wrapped until    *)
(* the first relay has answered, and handles one message after the other.  *)

ClientReads == \E m \in Message : At(m, "client_ask") \/ At(m, "client_post")

\* The onion of each message, by route and epoch of the keys: the delays and
\* nonces, which are random, are those of the hop's place.
wrapped_onion ==
  [m \in Message |-> [identities \in Routes |-> [epoch \in Epochs |->
     wrap([i \in DOMAIN identities |-> <<m, i>>], identities,
          [i \in DOMAIN identities |-> i], keys_of(epoch), m)]]]

build_and_send(m) ==
  /\ At(m, "unsent") /\ ~ClientReads /\ ~client_writer
  /\ \A n \in Message : n < m => ~At(n, "unsent")
  /\ \E identities \in Routes :
       /\ Becomes(m, [Task("client_ask") EXCEPT !.onion = wrapped_onion[m][identities][client_epoch]])
       /\ route' = [route EXCEPT ![m] = identities]
  /\ wrapped' = [wrapped EXCEPT ![m] = client_epoch]
  /\ UNCHANGED <<epochs, up, locks, messages, posted, hops>>

get_relay_address(a, identity) == Owner(a, authority_epoch[a], identity)

\* The authorities are asked in turn.  One that knows no relay for the
\* identity answers with an error; an onion for which all do is dropped.
request_relay(m) ==
  LET a == task[m].asked + 1
      relay == get_relay_address(a, task[m].onion.identity) IN
  /\ At(m, "client_ask")
  /\ IF relay # NoRelay THEN Becomes(m, [task[m] EXCEPT !.pc = "client_post", !.to = relay])
     ELSE IF a < NumAuthorities THEN Becomes(m, [task[m] EXCEPT !.asked = a])
     ELSE Ends(m, "dropped")
  /\ UNCHANGED <<epochs, up, locks, messages, posted, history>>

\* The relay answers before it does anything with the onion.
Arrive(m) == IF task[m].to \in up
               THEN Becomes(m, [Task("relay_onion") EXCEPT !.at = task[m].to, !.onion = task[m].onion])
               ELSE Ends(m, "dropped")

ClientPosts(m) ==
  /\ At(m, "client_post")
  /\ Arrive(m)
  /\ UNCHANGED <<epochs, up, locks, messages, posted, history>>

-----------------------------------------------------------------------------
(* relay_onion() and send_onion().                                         *)

Readable(r) == r \notin writer

ReadPublicKeys(m) ==
  /\ At(m, "relay_onion") /\ Readable(task[m].at)
  /\ Becomes(m, [task[m] EXCEPT !.pc = "unwrap", !.public_keys = keys_of(live_epoch[task[m].at])])
  /\ UNCHANGED <<epochs, up, locks, messages, posted, history>>

\* The private keys are those of the authorities that gave the relay the
\* identity: an authority that did not is left out of the list.
private_keys(r, identity) ==
  FoldLeft(LAMBDA keys, a :
             IF Owner(a, live_epoch[r], identity) = r
               THEN Append(keys, [params |-> params(a, live_epoch[r]), identity |-> identity])
               ELSE keys,
           <<>>, [a \in Authorities |-> a])

\* The lock is taken anew for the private keys.  An onion that cannot be
\* unwrapped with them is dropped, with a line in the log.
Unwrap(m) ==
  LET r == task[m].at
      old == task[m].onion
      nonces == {recovered(old, task[m].public_keys, private_keys(r, old.identity), strict) :
                   strict \in BOOLEAN} IN
  /\ At(m, "unwrap") /\ Readable(r)
  /\ \E result \in {unwrap(old, nonce) : nonce \in nonces} :
       \/ ~result.ok /\ Ends(m, "dropped") /\ UNCHANGED hops
       \/ /\ result.ok
          /\ hops' = [hops EXCEPT ![m] = Append(@, <<r, old.identity, result.delay>>)]
          /\ Becomes(m, [Task(IF is_final_destination(result.onion) THEN "post" ELSE "sleep")
                           EXCEPT !.at = r, !.onion = result.onion])
  /\ UNCHANGED <<epochs, up, locks, messages, posted, route, wrapped>>

redacted_message == cell(<<"redacted">>)

\* Mutant: redacted messages are not counted.
handle_post_messageUncounted(message) ==
  \/ /\ message.text[2] \notin Allowed
     /\ messages' = Append(messages, redacted_message)
  \/ /\ message.text[2] \in Allowed
     /\ LET all == Append(messages, message)
        IN  messages' = IF Len(all) > BOARD_SIZE THEN Tail(all) ELSE all

\* A message with a content that is not allowed is replaced.  In each of the
\* two cases, the oldest message goes when there are too many.
handle_post_message(message) ==
  \/ /\ message.text[2] \notin Allowed
     /\ LET all == Append(messages, redacted_message)
        IN  messages' = IF Len(all) > BOARD_SIZE THEN Tail(all) ELSE all
  \/ /\ message.text[2] \in Allowed
     /\ LET all == Append(messages, message)
        IN  messages' = IF Len(all) > BOARD_SIZE THEN Tail(all) ELSE all

PostToBoard(m) ==
  LET message == task[m].onion.payload[1] IN
  /\ At(m, "post")
  /\ handle_post_message(message)
  /\ posted' = Append(posted, message)
  /\ Ends(m, "done")
  /\ UNCHANGED <<epochs, up, locks, history>>

\* Once the delay is over, the lock is taken and kept.
LockKeys(m) ==
  /\ At(m, "sleep") /\ Readable(task[m].at)
  /\ readers' = [readers EXCEPT ![task[m].at] = @ \cup {m}]
  /\ Becomes(m, [task[m] EXCEPT !.pc = "ask"])
  /\ UNCHANGED <<epochs, up, writer, client_writer, messages, posted, history>>

Release(m) == readers' = [readers EXCEPT ![task[m].at] = @ \ {m}]

\* Mutant: the configuration is read under a second read lock.
AskNested(m) ==
  LET relay == get_relay_address(1, task[m].onion.identity) IN
  /\ At(m, "ask") /\ Readable(task[m].at)
  /\ IF relay = NoRelay
       THEN Ends(m, "dropped") /\ Release(m)
       ELSE Becomes(m, [task[m] EXCEPT !.pc = "send", !.to = relay]) /\ UNCHANGED readers
  /\ UNCHANGED <<epochs, up, writer, client_writer, messages, posted, history>>

\* Only the first authority is asked; an error ends the handling.
Ask(m) ==
  LET relay == get_relay_address(1, task[m].onion.identity) IN
  /\ At(m, "ask")
  /\ IF relay = NoRelay
       THEN Ends(m, "dropped") /\ Release(m)
       ELSE Becomes(m, [task[m] EXCEPT !.pc = "send", !.to = relay]) /\ UNCHANGED readers
  /\ UNCHANGED <<epochs, up, writer, client_writer, messages, posted, history>>

Send(m) ==
  /\ At(m, "send")
  /\ Arrive(m) /\ Release(m)
  /\ UNCHANGED <<epochs, up, writer, client_writer, messages, posted, history>>

-----------------------------------------------------------------------------
(* Switchovers and crashes.                                                *)

handling == <<task, messages, posted, history>>

AuthoritySwitches(a) ==
  /\ authority_epoch[a] < MAX_EPOCH
  /\ authority_epoch' = [authority_epoch EXCEPT ![a] = @ + 1]
  /\ UNCHANGED <<client_epoch, live_epoch, up, locks, handling>>

\* Epoch tasks wait for the write lock, get it once no read lock is held,
\* and replace all keys before they give it back.
RelayWaits(r) ==
  /\ r \in up \ writer /\ live_epoch[r] < MAX_EPOCH
  /\ writer' = writer \cup {r}
  /\ UNCHANGED <<epochs, up, client_writer, readers, handling>>

RelaySwitches(r) ==
  /\ r \in writer /\ readers[r] = {}
  /\ writer' = writer \ {r}
  /\ live_epoch' = [live_epoch EXCEPT ![r] = @ + 1]
  /\ UNCHANGED <<authority_epoch, client_epoch, up, client_writer, readers, handling>>

ClientWaits ==
  /\ ~client_writer /\ client_epoch < MAX_EPOCH
  /\ client_writer' = TRUE
  /\ UNCHANGED <<epochs, up, writer, readers, handling>>

ClientSwitches ==
  /\ client_writer /\ ~ClientReads
  /\ client_writer' = FALSE
  /\ client_epoch' = client_epoch + 1
  /\ UNCHANGED <<authority_epoch, live_epoch, up, writer, readers, handling>>

AtRelay == {"relay_onion", "unwrap", "post", "sleep", "ask", "send"}

\* Mutant: the epoch task of a relay that crashes is still waited for.
CrashWaiting(r) ==
  /\ r \in up /\ Cardinality(Relay \ up) < MAX_CRASHES
  /\ up' = up \ {r}
  /\ readers' = [readers EXCEPT ![r] = {}]
  /\ task' = [m \in Message |-> IF task[m].pc \in AtRelay /\ task[m].at = r
                                  THEN Task("dropped") ELSE task[m]]
  /\ UNCHANGED <<epochs, writer, client_writer, messages, posted, history>>

\* The onions that a relay handles are lost with it.
Crash(r) ==
  /\ r \in up /\ Cardinality(Relay \ up) < MAX_CRASHES
  /\ up' = up \ {r}
  /\ writer' = writer \ {r}
  /\ readers' = [readers EXCEPT ![r] = {}]
  /\ task' = [m \in Message |-> IF task[m].pc \in AtRelay /\ task[m].at = r
                                  THEN Task("dropped") ELSE task[m]]
  /\ UNCHANGED <<epochs, client_writer, messages, posted, history>>

-----------------------------------------------------------------------------
ClientStep(m) == build_and_send(m) \/ request_relay(m) \/ ClientPosts(m)

RelayStep(m) == \/ ReadPublicKeys(m) \/ Unwrap(m) \/ PostToBoard(m)
                \/ LockKeys(m) \/ Ask(m) \/ Send(m)

Handle(m) == ClientStep(m) \/ RelayStep(m)

Next == \/ \E m \in Message : Handle(m)
        \/ \E a \in Authorities : AuthoritySwitches(a)
        \/ \E r \in Relay : RelayWaits(r) \/ RelaySwitches(r) \/ Crash(r)
        \/ ClientWaits \/ ClientSwitches

Spec == Init /\ [][Next]_vars

Progress == \/ \E m \in Message : Handle(m)
            \/ \E r \in Relay : RelaySwitches(r)
            \/ ClientSwitches

\* Something that can go on does, and whoever is asked answers.  That is less
\* than the scheduling of threads and tasks gives, and enough, as the messages
\* are finitely many.  Nothing is assumed of crashes and of when switchovers
\* begin.
FairSpec == Spec /\ WF_vars(Progress)

-----------------------------------------------------------------------------
TypeOK ==
  /\ authority_epoch \in [Authorities -> Epochs] /\ client_epoch \in Epochs
  /\ live_epoch \in [Relay -> Epochs]
  /\ up \subseteq Relay /\ writer \subseteq up
  /\ \A r \in Relay : readers[r] = {m \in Message : task[m].pc \in {"ask", "send"} /\ task[m].at = r}
  /\ Len(messages) <= BOARD_SIZE /\ Len(posted) <= MAX_MESSAGES

Itinerary(identities) == [i \in DOMAIN identities |-> <<identities[i], i>>]

Delivered(m) == cell(<<"data", m>>) \in Range(posted)

\* A stop is an identity, and the delay that is found there.
Sent == [m \in Message |->
  IF At(m, "unsent") THEN [itinerary |-> <<>>, content |-> <<>>]
  ELSE [itinerary |-> Itinerary(route[m]), content |-> <<m>>]]

Visited == [m \in Message |-> [i \in DOMAIN hops[m] |-> <<hops[m][i][2], hops[m][i][3]>>]]

Stage == [m \in Message |-> CASE At(m, "unsent")  -> "unsent"
                              [] At(m, "dropped") -> "lost"
                              [] At(m, "done")    -> "arrived"
                              [] OTHER            -> "underway"]

Received == [m \in Message |-> IF Delivered(m) THEN <<m>> ELSE <<>>]

Promise == INSTANCE Journey WITH
  Itineraries <- {Itinerary(identities) : identities \in Routes},
  Contents <- Message,
  sent <- Sent, visited <- Visited, stage <- Stage, received <- Received

\* Each message is unwrapped hop by hop along the route the client chose,
\* with the delays it chose, never twice at one hop and never out of order,
\* whatever keys a relay had in hand when the onion came; it is posted after
\* the last hop, and what is lost never comes back.
ImplementsJourney == Promise!Spec

\* An onion is only unwrapped where every authority has given the identity
\* to, in the epoch the onion was wrapped for.  Neither keys that were read
\* before and after a switchover, nor a list of private keys from which that of
\* one authority is missing, unwrap anything.
UnwrappedByOwners ==
  \A m \in Message : \A i \in DOMAIN hops[m] :
    \A a \in Authorities : Owner(a, wrapped[m], hops[m][i][2]) = hops[m][i][1]

\* What the board may show of a message.
shown(message) == IF message.text[2] \in Allowed THEN message ELSE redacted_message

\* The board shows what was posted last, oldest first, each as it may be shown.
BoardShowsLatest ==
  /\ Len(messages) = IF Len(posted) < BOARD_SIZE THEN Len(posted) ELSE BOARD_SIZE
  /\ \A i \in DOMAIN messages : messages[i] = shown(posted[i + Len(posted) - Len(messages)])

\* What is posted is a message as the client sent it, at the end of its route,
\* and each is posted once; the board shows the latest ones, or that they were
\* redacted.
PostedAsSent ==
  /\ \A i \in DOMAIN posted :
       /\ posted[i].pads = {}
       /\ \E m \in Message : posted[i].text = <<"data", m>> /\ Len(hops[m]) = Len(route[m])
  /\ \A i, j \in DOMAIN posted : posted[i] = posted[j] => i = j
  /\ BoardShowsLatest

\* All parties are in the same epoch and stay there, all relays are up, and a
\* message is underway for identities that both authorities gave away alike.
Calm == /\ up = Relay /\ writer = {} /\ ~client_writer
        /\ \A a \in Authorities : authority_epoch[a] = client_epoch
        /\ \A r \in Relay : live_epoch[r] = client_epoch

Owned(identities, epoch) ==
  \A i \in DOMAIN identities : \E r \in Relay :
    \A a \in Authorities : Owner(a, epoch, identities[i]) = r

\* An onion that is sent while all parties are in one epoch reaches the board,
\* unless somebody crashes or a switchover begins before.
CalmOnionsArrive ==
  \A m \in Message :
    Calm /\ wrapped[m] = client_epoch /\ Owned(route[m], client_epoch) /\ At(m, "client_ask")
      ~> ~Calm \/ Delivered(m)

\* Whoever waits for a write lock gets it: no onion keeps the keys of an old
\* epoch in use, however many are relayed.
SwitchoversHappen == []<>(writer = {} /\ ~client_writer)
=============================================================================
