---------------------------- MODULE JourneyProofs ----------------------------
(***************************************************************************)
(* What Journey means for the sender, for any messages, itineraries and    *)
(* contents.  DeliveryProofs and SphinxProofs prove that onions and Sphinx *)
(* packets implement Journey and state there what these theorems then say  *)
(* about relays, nodes, board and recipients.                              *)
(***************************************************************************)
EXTENDS Journey, TLAPS

\* Types, for stops of any kind.
TypeOK(Stop) ==
  /\ sent \in [Message -> [itinerary : Seq(Stop), content : Seq(Contents)]]
  /\ visited \in [Message -> Seq(Stop)]
  /\ stage \in [Message -> {"unsent", "underway", "lost", "arrived"}]
  /\ received \in [Message -> Seq(Contents)]

Inv(Stop) ==
  /\ TypeOK(Stop) /\ InOrder /\ ReceivedAtTheEnd
  /\ \A m \in Message : stage[m] = "unsent" => visited[m] = <<>>

-----------------------------------------------------------------------------
\* A journey that has not begun satisfies the invariant.
LEMMA JourneyInit ==
  ASSUME NEW CONSTANT Stop
  PROVE  Init => Inv(Stop)
<1> SUFFICES ASSUME Init PROVE Inv(Stop)
  OBVIOUS
<1>1. TypeOK(Stop)
  BY DEF Init, NotSent, TypeOK
<1> QED BY <1>1 DEF Init, NotSent, Inv, InOrder, ReceivedAtTheEnd

\* A sender fixes the itinerary of a message that has not moved yet.
LEMMA DepartStep ==
  ASSUME NEW CONSTANT Stop, Itineraries \subseteq Seq(Stop),
         Inv(Stop), NEW m \in Message, Depart(m)
  PROVE  Inv(Stop)'
<1>1. PICK itinerary \in Itineraries, content \in Contents :
        sent' = [sent EXCEPT ![m] = [itinerary |-> itinerary, content |-> <<content>>]]
  BY DEF Depart
<1>2. /\ stage[m] = "unsent" /\ stage' = [stage EXCEPT ![m] = "underway"]
      /\ visited' = visited /\ received' = received
  BY DEF Depart
<1>3. TypeOK(Stop) /\ InOrder /\ ReceivedAtTheEnd /\ visited[m] = <<>> /\ received[m] = <<>>
  BY <1>2 DEF Inv, ReceivedAtTheEnd
<1>4. itinerary \in Seq(Stop) /\ Len(itinerary) \in Nat /\ <<content>> \in Seq(Contents)
  OBVIOUS
<1>5. TypeOK(Stop)'
  BY <1>1, <1>2, <1>3, <1>4 DEF TypeOK
<1>6. ASSUME NEW k \in Message
      PROVE  /\ k # m => sent'[k] = sent[k] /\ stage'[k] = stage[k]
             /\ k = m => sent'[k].itinerary = itinerary /\ stage'[k] = "underway"
  BY <1>1, <1>2, <1>3 DEF TypeOK
<1>7. InOrder'
  <2> SUFFICES ASSUME NEW k \in Message
               PROVE  /\ Len(visited[k]) <= Len(sent'[k].itinerary)
                      /\ \A n \in 1..Len(visited[k]) : visited[k][n] = sent'[k].itinerary[n]
    BY <1>2 DEF InOrder
  <2>1. CASE k = m
    BY <1>3, <1>4, <1>6, <2>1
  <2>2. CASE k # m
    BY <1>3, <1>6, <2>2 DEF InOrder
  <2> QED BY <2>1, <2>2
<1>8. ReceivedAtTheEnd'
  BY <1>2, <1>3, <1>6 DEF ReceivedAtTheEnd
<1> QED BY <1>2, <1>5, <1>6, <1>7, <1>8 DEF Inv

\* The next stop is that of the itinerary.
LEMMA VisitStep ==
  ASSUME NEW CONSTANT Stop, Inv(Stop), NEW m \in Message, Visit(m)
  PROVE  Inv(Stop)'
<1> DEFINE n == Len(visited[m]) + 1
           stop == sent[m].itinerary[n]
<1>1. /\ stage[m] = "underway" /\ n <= Len(sent[m].itinerary)
      /\ visited' = [visited EXCEPT ![m] = Append(@, stop)]
      /\ UNCHANGED <<sent, stage, received>>
  BY DEF Visit
<1>2. TypeOK(Stop) /\ InOrder /\ ReceivedAtTheEnd
  BY DEF Inv
<1>3. /\ sent[m].itinerary \in Seq(Stop) /\ visited[m] \in Seq(Stop)
      /\ Len(visited[m]) \in Nat /\ stop \in Stop
  BY <1>1, <1>2 DEF TypeOK
<1>4. /\ Append(visited[m], stop) \in Seq(Stop)
      /\ Len(Append(visited[m], stop)) = n
      /\ \A i \in 1..n - 1 : Append(visited[m], stop)[i] = visited[m][i]
      /\ Append(visited[m], stop)[n] = stop
  BY <1>3
<1>5. \A k \in Message : visited'[k] = IF k = m THEN Append(visited[m], stop) ELSE visited[k]
  BY <1>1, <1>2 DEF TypeOK
<1>6. TypeOK(Stop)'
  BY <1>1, <1>2, <1>4 DEF TypeOK
<1>7. InOrder'
  <2> SUFFICES ASSUME NEW k \in Message
               PROVE  /\ Len(visited'[k]) <= Len(sent[k].itinerary)
                      /\ \A i \in 1..Len(visited'[k]) : visited'[k][i] = sent[k].itinerary[i]
    BY <1>1 DEF InOrder
  <2>1. CASE k = m
    <3>1. \A i \in 1..n - 1 : visited[m][i] = sent[m].itinerary[i]
      BY <1>2, <1>3 DEF InOrder
    <3>2. \A i \in 1..n : i \in 1..n - 1 \/ i = n
      BY <1>3
    <3> QED BY <1>1, <1>4, <1>5, <2>1, <3>1, <3>2
  <2>2. CASE k # m
    BY <1>2, <1>5, <2>2 DEF InOrder
  <2> QED BY <2>1, <2>2
<1>8. ReceivedAtTheEnd'
  <2> SUFFICES ASSUME NEW k \in Message, received[k] # <<>>
               PROVE  /\ stage[k] = "arrived" /\ received[k] = sent[k].content
                      /\ visited'[k] = sent[k].itinerary
    BY <1>1 DEF ReceivedAtTheEnd
  <2>1. stage[k] = "arrived" /\ received[k] = sent[k].content /\ visited[k] = sent[k].itinerary
    BY <1>2 DEF ReceivedAtTheEnd
  <2> QED BY <1>1, <1>5, <2>1
<1>9. \A k \in Message : stage'[k] = "unsent" => visited'[k] = <<>>
  BY <1>1, <1>5 DEF Inv
<1> QED BY <1>6, <1>7, <1>8, <1>9 DEF Inv

\* The recipient gets what was sent, as all stops are made.
LEMMA ArriveStep ==
  ASSUME NEW CONSTANT Stop, Inv(Stop), NEW m \in Message, Arrive(m)
  PROVE  Inv(Stop)'
<1>1. /\ stage[m] = "underway" /\ visited[m] = sent[m].itinerary
      /\ stage' = [stage EXCEPT ![m] = "arrived"]
      /\ received' = [received EXCEPT ![m] = sent[m].content]
      /\ UNCHANGED <<sent, visited>>
  BY DEF Arrive
<1>2. TypeOK(Stop) /\ InOrder /\ ReceivedAtTheEnd
  BY DEF Inv
<1>3. TypeOK(Stop)'
  BY <1>1, <1>2 DEF TypeOK
<1>4. \A k \in Message :
        /\ k # m => stage'[k] = stage[k] /\ received'[k] = received[k]
        /\ k = m => stage'[k] = "arrived" /\ received'[k] = sent[k].content
  BY <1>1, <1>2 DEF TypeOK
<1>5. InOrder'
  BY <1>1, <1>2 DEF InOrder
<1>6. ReceivedAtTheEnd'
  BY <1>1, <1>2, <1>4 DEF ReceivedAtTheEnd
<1>7. \A k \in Message : stage'[k] = "unsent" => visited'[k] = <<>>
  BY <1>1, <1>4 DEF Inv
<1> QED BY <1>3, <1>5, <1>6, <1>7 DEF Inv

\* Nothing that is lost has been received.
LEMMA LoseStep ==
  ASSUME NEW CONSTANT Stop, Inv(Stop), NEW messages \in SUBSET Message, Lose(messages)
  PROVE  Inv(Stop)'
<1>1. /\ \A m \in messages : stage[m] = "underway"
      /\ stage' = [m \in Message |-> IF m \in messages THEN "lost" ELSE stage[m]]
      /\ UNCHANGED <<sent, visited, received>>
  BY DEF Lose
<1>2. TypeOK(Stop) /\ InOrder /\ ReceivedAtTheEnd
  BY DEF Inv
<1>3. TypeOK(Stop)'
  BY <1>1, <1>2 DEF TypeOK
<1>4. InOrder' /\ ReceivedAtTheEnd'
  BY <1>1, <1>2 DEF InOrder, ReceivedAtTheEnd
<1> QED BY <1>1, <1>3, <1>4 DEF Inv

\* Every stop, loss and arrival keeps it.
LEMMA JourneyStep ==
  ASSUME NEW CONSTANT Stop, Itineraries \subseteq Seq(Stop), Inv(Stop), [Next]_vars
  PROVE  Inv(Stop)'
<1>1. ASSUME NEW m \in Message, Depart(m)
      PROVE  Inv(Stop)'
  BY <1>1, DepartStep
<1>2. ASSUME NEW m \in Message, Visit(m)
      PROVE  Inv(Stop)'
  BY <1>2, VisitStep
<1>3. ASSUME NEW m \in Message, Arrive(m)
      PROVE  Inv(Stop)'
  BY <1>3, ArriveStep
<1>4. ASSUME NEW messages \in SUBSET Message, Lose(messages)
      PROVE  Inv(Stop)'
  BY <1>4, LoseStep
<1>5. CASE UNCHANGED vars
  BY <1>5 DEF vars, Inv, TypeOK, InOrder, ReceivedAtTheEnd
<1> QED BY <1>1, <1>2, <1>3, <1>4, <1>5 DEF Next

-----------------------------------------------------------------------------
\* Every message makes the stops its sender chose, in this order.
THEOREM JourneyInOrder ==
  ASSUME NEW CONSTANT Stop, Itineraries \subseteq Seq(Stop)
  PROVE  Spec => []InOrder
<1>1. Init => Inv(Stop)
  BY JourneyInit
<1>2. Inv(Stop) /\ [Next]_vars => Inv(Stop)'
  BY JourneyStep
<1>3. Inv(Stop) => InOrder
  BY DEF Inv
<1> QED BY <1>1, <1>2, <1>3, PTL DEF Spec

\* Whoever receives a message receives the content that was sent, after all
\* stops.
THEOREM JourneyReceivedAtTheEnd ==
  ASSUME NEW CONSTANT Stop, Itineraries \subseteq Seq(Stop)
  PROVE  Spec => []ReceivedAtTheEnd
<1>1. Init => Inv(Stop)
  BY JourneyInit
<1>2. Inv(Stop) /\ [Next]_vars => Inv(Stop)'
  BY JourneyStep
<1>3. Inv(Stop) => ReceivedAtTheEnd
  BY DEF Inv
<1> QED BY <1>1, <1>2, <1>3, PTL DEF Spec

\* What is sent stays as it is, and what is settled stays settled: nothing is
\* received twice, or after it was lost.
THEOREM JourneySettled ==
  ASSUME NEW CONSTANT Stop, Itineraries \subseteq Seq(Stop)
  PROVE  Spec => SettledForGood
<1> DEFINE Settles(m) ==
      /\ stage[m] # "unsent" => sent'[m] = sent[m]
      /\ stage[m] \in {"lost", "arrived"} =>
           /\ stage'[m] = stage[m]
           /\ visited'[m] = visited[m] /\ received'[m] = received[m]
<1>1. Init => Inv(Stop)
  BY JourneyInit
<1>2. Inv(Stop) /\ [Next]_vars => Inv(Stop)'
  BY JourneyStep
<1>3. Inv(Stop) /\ [Next]_vars => [\A m \in Message : Settles(m)]_vars
  <2> SUFFICES ASSUME Inv(Stop), Next, NEW m \in Message
               PROVE  Settles(m)
    OBVIOUS
  <2>0. TypeOK(Stop)
    BY DEF Inv
  <2>1. ASSUME NEW k \in Message, Depart(k)
        PROVE  Settles(m)
    BY <2>0, <2>1 DEF Depart, TypeOK
  <2>2. ASSUME NEW k \in Message, Visit(k)
        PROVE  Settles(m)
    BY <2>0, <2>2 DEF Visit, TypeOK
  <2>3. ASSUME NEW k \in Message, Arrive(k)
        PROVE  Settles(m)
    BY <2>0, <2>3 DEF Arrive, TypeOK
  <2>4. ASSUME NEW messages \in SUBSET Message, Lose(messages)
        PROVE  Settles(m)
    BY <2>0, <2>4 DEF Lose, TypeOK
  <2> QED BY <2>1, <2>2, <2>3, <2>4 DEF Next
<1> QED BY <1>1, <1>2, <1>3, PTL DEF Spec, SettledForGood
=============================================================================
