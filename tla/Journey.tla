------------------------------- MODULE Journey -------------------------------
(***************************************************************************)
(* What a mix network promises to the sender of a message: the message     *)
(* makes the stops of the itinerary that the sender chose, each once and   *)
(* in their order, and its recipient gets the very content that was sent,  *)
(* once all stops are made.  It may get lost at any moment.                *)
(*                                                                         *)
(* What a stop is depends on the system: who is there, and what it is told *)
(* there.  Both the onions of aimless-onions and the packets of the Sphinx *)
(* library are shown to implement this.                                    *)
(***************************************************************************)
EXTENDS Integers, Sequences

CONSTANTS Message,
          Itineraries,   \* what the senders may choose
          Contents

VARIABLES sent,       \* each message's itinerary and content, once it is sent
          visited,    \* the stops it has made
          stage,      \* "unsent", "underway", "lost" or "arrived"
          received    \* what the recipient got: a sequence of at most one content

vars == <<sent, visited, stage, received>>

NotSent == [itinerary |-> <<>>, content |-> <<>>]

Init ==
  /\ sent = [m \in Message |-> NotSent]
  /\ visited = [m \in Message |-> <<>>]
  /\ stage = [m \in Message |-> "unsent"]
  /\ received = [m \in Message |-> <<>>]

Depart(m) ==
  /\ stage[m] = "unsent"
  /\ \E itinerary \in Itineraries, content \in Contents :
       sent' = [sent EXCEPT ![m] = [itinerary |-> itinerary, content |-> <<content>>]]
  /\ stage' = [stage EXCEPT ![m] = "underway"]
  /\ UNCHANGED <<visited, received>>

Visit(m) ==
  LET n == Len(visited[m]) + 1 IN
  /\ stage[m] = "underway" /\ n <= Len(sent[m].itinerary)
  /\ visited' = [visited EXCEPT ![m] = Append(@, sent[m].itinerary[n])]
  /\ UNCHANGED <<sent, stage, received>>

Arrive(m) ==
  /\ stage[m] = "underway" /\ visited[m] = sent[m].itinerary
  /\ stage' = [stage EXCEPT ![m] = "arrived"]
  /\ received' = [received EXCEPT ![m] = sent[m].content]
  /\ UNCHANGED <<sent, visited>>

\* Whatever somebody has who fails is lost together.
Lose(messages) ==
  /\ \A m \in messages : stage[m] = "underway"
  /\ stage' = [m \in Message |-> IF m \in messages THEN "lost" ELSE stage[m]]
  /\ UNCHANGED <<sent, visited, received>>

Next == \/ \E m \in Message : Depart(m) \/ Visit(m) \/ Arrive(m)
        \/ \E messages \in SUBSET Message : Lose(messages)

Spec == Init /\ [][Next]_vars

-----------------------------------------------------------------------------
(* What this means for the sender.                                         *)

\* The stops made so far are the first ones of the itinerary, in order.
InOrder ==
  \A m \in Message :
    /\ Len(visited[m]) <= Len(sent[m].itinerary)
    /\ \A n \in 1..Len(visited[m]) : visited[m][n] = sent[m].itinerary[n]

\* What has been received is what was sent, and arrived at the end of the
\* itinerary: no recipient reads a message that has a stop left to make.
ReceivedAtTheEnd ==
  \A m \in Message : received[m] # <<>> =>
    /\ stage[m] = "arrived"
    /\ received[m] = sent[m].content
    /\ visited[m] = sent[m].itinerary

\* A message on its way keeps its itinerary and its content; and one that is
\* received or lost makes no more stops, so that it is received at most once.
SettledForGood ==
  [][\A m \in Message :
       /\ stage[m] # "unsent" => sent'[m] = sent[m]
       /\ stage[m] \in {"lost", "arrived"} =>
            /\ stage'[m] = stage[m]
            /\ visited'[m] = visited[m] /\ received'[m] = received[m]]_vars
=============================================================================
