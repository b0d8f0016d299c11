----------------------------- MODULE DoubleChoose -----------------------------
(***************************************************************************)
(* How likely a client that draws identities at random draws the same      *)
(* relay more than once for a path (probability() of doublechoose.py).     *)
(*                                                                         *)
(* The relays' probabilities are weights here, that is, a probability is   *)
(* a weight of paths, out of the weight of all paths.                      *)
(***************************************************************************)
EXTENDS FiniteSetsExt, Combinatorics

CONSTANTS MAX_RELAYS, MAX_WEIGHT, MAX_PATH_LENGTH   \* bounds of the arguments

VARIABLES probs, path_length,   \* the arguments
          i,                    \* the relay of this iteration
          prob,                 \* the sum, and the result
          pc

vars == <<probs, path_length, i, prob, pc>>

Relays == DOMAIN probs

\* The weight of paths, each given by its relay at every place.
Weight(paths) ==
  FoldSet(LAMBDA path, sum :
            sum + FoldSet(LAMBDA place, product : product * probs[path[place]], 1, DOMAIN path),
          0, paths)

AllPaths == [1..path_length -> Relays]
Doubled == {path \in AllPaths : \E m, n \in 1..path_length : m # n /\ path[m] = path[n]}

Init ==
  /\ probs \in UNION {[1..n -> 1..MAX_WEIGHT] : n \in 1..MAX_RELAYS}
  /\ path_length \in 0..MAX_PATH_LENGTH
  /\ i = 0 /\ prob = 0 /\ pc = "start"

\* Too short for doubles, or longer than there are relays.
Start ==
  /\ pc = "start"
  /\ \/ path_length < 2 /\ prob' = 0 /\ pc' = "done"
     \/ /\ path_length >= 2 /\ Cardinality(Relays) < path_length
        /\ prob' = Weight(AllPaths) /\ pc' = "done"
     \/ /\ path_length >= 2 /\ Cardinality(Relays) >= path_length
        /\ pc' = "loop" /\ UNCHANGED prob
  /\ UNCHANGED <<probs, path_length, i>>

\* The other places are for other relays, all different.
unique_remainder(relay, k) ==
  LET paths == kSubset(path_length - k, Relays \ {relay}) IN
  factorial[path_length - k]
    * FoldSet(LAMBDA path, sum : sum + FoldSet(LAMBDA r, product : product * probs[r], 1, path),
              0, paths)

\* This relay, k times, for every k.
Term(relay) ==
  FoldSet(LAMBDA k, sum :
            sum + choose(path_length, k) * probs[relay]^k * unique_remainder(relay, k),
          0, 2..path_length)

NextRelay ==
  /\ pc = "loop" /\ i < Cardinality(Relays)
  /\ i' = i + 1
  /\ prob' = prob + Term(i + 1)
  /\ UNCHANGED <<probs, path_length, pc>>

Return ==
  /\ pc = "loop" /\ i = Cardinality(Relays)
  /\ pc' = "done"
  /\ UNCHANGED <<probs, path_length, i, prob>>

Next == Start \/ NextRelay \/ Return

Spec == Init /\ [][Next]_vars

-----------------------------------------------------------------------------
\* "Returns the probability to double-choose a node": all paths that have some
\* relay at two places are counted, and each of them once.
CountsAllDoubles == pc = "done" => prob = Weight(Doubled)
=============================================================================
