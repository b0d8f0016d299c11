----------------------------- MODULE Allocation -----------------------------
(***************************************************************************)
(* allocation::allocate (allocation.rs): the identities are divided among  *)
(* the registered relays in proportion to their weights.  Weights are      *)
(* first scaled to numbers of identities, then handed out greedily: the    *)
(* heaviest relay gets a free cell of the current size, or, when no relay  *)
(* deserves a whole cell, every free cell is split in two.                 *)
(*                                                                         *)
(* Relay keys are byte strings compared lexicographically; here they are   *)
(* numbers.  The sort by key at the start only makes the result            *)
(* independent of the order of the requests, which are a function of the   *)
(* key here.  The map from ids to allocations is indexed by key: ids are   *)
(* unique among the requests of one call.                                  *)
(***************************************************************************)
EXTENDS NodeName, FiniteSets

CONSTANTS Relay,       \* keys of the relays that may register
          MAX_WEIGHT   \* bound of the weights they ask for

ASSUME RelayAssumption == /\ IsFiniteSet(Relay) /\ Relay \subseteq Nat
                          /\ MAX_WEIGHT \in Nat

VARIABLES request,     \* the weight each request asks for
          weight,      \* what the heap holds: identities still owed
          nodes,       \* the nodes given to each relay so far
          free_cells,  \* the cells nobody has, a stack
          cell_size,   \* number of identities in a free cell
          pc           \* where the function is

vars == <<request, weight, nodes, free_cells, cell_size, pc>>

WEIGHT_SPACE_SIZE == 2^HIERARCHY_DEPTH

\* The sum of a function of naturals, as the number of units it counts.
Units(f) == UNION {{r} \X (1..f[r]) : r \in DOMAIN f}
Total(f) == Cardinality(Units(f))

\* Mutant: shares are rounded to the nearest identity.
ScaledRounded(req) ==
  [r \in DOMAIN req |->
     (2 * WEIGHT_SPACE_SIZE * req[r] + Total(req)) \div (2 * Total(req))]

\* The number of identities each request is entitled to, rounded down.
Scaled(req) ==
  [r \in DOMAIN req |-> (WEIGHT_SPACE_SIZE * req[r]) \div Total(req)]

\* The mutant forgets the tie-break that partial_cmp has (and cmp has not).
LessByWeight(r, q) == weight[r] < weight[q]

\* The order of the heap, partial_cmp: by weight, then by key.
Less(r, q) == weight[r] < weight[q] \/ (weight[r] = weight[q] /\ r < q)

\* What BinaryHeap::pop may return: an element no other one is above of.
Largest(r) == r \in DOMAIN weight /\ \A q \in DOMAIN weight : ~Less(r, q)

\* The state in which the function is called, with any requests.
Init == /\ request \in UNION {[S -> 0..MAX_WEIGHT] : S \in SUBSET Relay}
        /\ weight = request
        /\ nodes = [r \in DOMAIN request |-> <<>>]
        /\ free_cells = <<ROOT>>
        /\ cell_size = subtree_size(ROOT)
        /\ pc = "scale"

\* Weights become numbers of identities.  With requests that sum up to zero
\* the division panics.
Scale ==
  /\ pc = "scale"
  /\ IF DOMAIN request # {} /\ Total(request) = 0
       THEN pc' = "panic" /\ UNCHANGED weight
       ELSE pc' = "loop" /\ weight' = Scaled(request)
  /\ UNCHANGED <<request, nodes, free_cells, cell_size>>

\* Mutant: only the last free cell is split.
SplitLast ==
  /\ pc = "loop"
  /\ \E r \in DOMAIN weight :
       Largest(r) /\ weight[r] # 0 /\ weight[r] < cell_size
  /\ cell_size' = cell_size \div 2
  /\ LET n == Len(free_cells) IN
       free_cells' = [i \in 1..n + 1 |->
         IF i < n THEN free_cells[i]
         ELSE IF i = n THEN left(free_cells[n]) ELSE right(free_cells[n])]
  /\ UNCHANGED <<request, weight, nodes, pc>>

\* Even the largest weight is less than a cell: every free cell is replaced
\* by its two halves.
Split ==
  /\ pc = "loop"
  /\ \E r \in DOMAIN weight :
       Largest(r) /\ weight[r] # 0 /\ weight[r] < cell_size
  /\ cell_size' = cell_size \div 2
  /\ free_cells' = [i \in 1..2 * Len(free_cells) |->
                      IF i % 2 = 1 THEN left(free_cells[(i + 1) \div 2])
                                   ELSE right(free_cells[i \div 2])]
  /\ UNCHANGED <<request, weight, nodes, pc>>

\* Mutant: the cell given away stays among the free ones.
AssignKeep ==
  /\ pc = "loop"
  /\ \E r \in DOMAIN weight :
       /\ Largest(r) /\ weight[r] # 0 /\ weight[r] >= cell_size
       /\ nodes' = [nodes EXCEPT ![r] = Append(@, free_cells[Len(free_cells)])]
       /\ weight' = [weight EXCEPT ![r] = @ - cell_size]
  /\ UNCHANGED <<request, free_cells, cell_size, pc>>

\* Mutant: a cell is given without being charged for.
AssignUncharged ==
  /\ pc = "loop"
  /\ \E r \in DOMAIN weight :
       /\ Largest(r) /\ weight[r] # 0 /\ weight[r] >= cell_size
       /\ IF free_cells = <<>>
            THEN pc' = "panic" /\ UNCHANGED <<nodes, weight, free_cells>>
            ELSE /\ nodes' = [nodes EXCEPT ![r] = Append(@, free_cells[Len(free_cells)])]
                 /\ free_cells' = SubSeq(free_cells, 1, Len(free_cells) - 1)
                 /\ UNCHANGED <<weight, pc>>
  /\ UNCHANGED <<request, cell_size>>

\* The relay owed most receives the last free cell; the code expects that
\* there is one.
Assign ==
  /\ pc = "loop"
  /\ \E r \in DOMAIN weight :
       /\ Largest(r) /\ weight[r] # 0 /\ weight[r] >= cell_size
       /\ weight' = [weight EXCEPT ![r] = @ - cell_size]
       /\ IF free_cells = <<>>
            THEN pc' = "panic" /\ UNCHANGED <<nodes, free_cells>>
            ELSE /\ nodes' = [nodes EXCEPT ![r] = Append(@, free_cells[Len(free_cells)])]
                 /\ free_cells' = SubSeq(free_cells, 1, Len(free_cells) - 1)
                 /\ UNCHANGED pc
  /\ UNCHANGED <<request, cell_size>>

\* Mutant: the loop ends once no relay deserves a cell of the current size.
StopEarly ==
  /\ pc = "loop"
  /\ \A r \in DOMAIN weight : Largest(r) => weight[r] < cell_size
  /\ pc' = "done"
  /\ UNCHANGED <<request, weight, nodes, free_cells, cell_size>>

\* Mutant: an empty heap is not expected.
StopNonEmpty ==
  /\ pc = "loop"
  /\ \E r \in DOMAIN weight : Largest(r) /\ weight[r] = 0
  /\ pc' = "done"
  /\ UNCHANGED <<request, weight, nodes, free_cells, cell_size>>

\* The heap is empty, or nobody is owed anything.
Stop ==
  /\ pc = "loop"
  /\ \A r \in DOMAIN weight : Largest(r) => weight[r] = 0
  /\ pc' = "done"
  /\ UNCHANGED <<request, weight, nodes, free_cells, cell_size>>

Next == Scale \/ Split \/ Assign \/ Stop

Spec == Init /\ [][Next]_vars
-----------------------------------------------------------------------------
\* The owner of what nobody has: not a key.
NoRelay == -1

Leaves == 0..WEIGHT_SPACE_SIZE - 1

\* The identities below a cell.
Below(cell) == {l \in Leaves : contains(cell, number(l))}

\* Every place a cell can be: the i-th node of a relay, or the i-th free cell.
Places == (UNION {{r} \X DOMAIN nodes[r] : r \in DOMAIN nodes})
            \cup ({NoRelay} \X DOMAIN free_cells)

CellAt(p) == IF p[1] = NoRelay THEN free_cells[p[2]] ELSE nodes[p[1]][p[2]]

\* The identities a relay has been given.
Given(r) == UNION {Below(nodes[r][i]) : i \in DOMAIN nodes[r]}

\* The number of identities each relay is entitled to; none if the weights
\* are all zero and no call ever returns.
Share == IF Total(request) = 0 THEN [r \in DOMAIN request |-> 0]
                               ELSE Scaled(request)

TypeOK ==
  /\ request \in UNION {[S -> 0..MAX_WEIGHT] : S \in SUBSET Relay}
  /\ weight \in [DOMAIN request -> Nat]
  /\ nodes \in [DOMAIN request -> Seq(Node)]
  /\ free_cells \in Seq(Node)
  /\ cell_size \in 1..WEIGHT_SPACE_SIZE
  /\ pc \in {"scale", "loop", "done", "panic"}

\* The stack of free cells is never empty when a cell is to be handed out
\* ("We expected to have more free cells"): the function fails only for
\* requests whose weights are all zero.
NeverOutOfCells == pc = "panic" => \A r \in DOMAIN request : request[r] = 0

\* Wherever the loop is, every identity is below exactly one cell, given or
\* free: get_address finds at most one relay for an identity, and nothing
\* gets lost when cells are split.
CellsPartitionTheTree ==
  \A l \in Leaves : Cardinality({p \in Places : contains(CellAt(p), number(l))}) = 1

\* Nobody receives more or less than the proportional share rounded down,
\* whatever the order in which cells were handed out and split.
ExactShares ==
  /\ pc \in {"loop", "done"} =>
       \A r \in DOMAIN request :
         Cardinality(Given(r)) + weight[r] =
           (WEIGHT_SPACE_SIZE * request[r]) \div Total(request)
  /\ pc = "done" => \A r \in DOMAIN request : weight[r] = 0

\* A relay gets at most one cell of each size, so that it never has to fetch
\* more than HIERARCHY_DEPTH + 1 HIBE keys from an authority.
OneCellPerLevel ==
  \A r \in DOMAIN nodes : \A i, j \in DOMAIN nodes[r] :
    i < j => nodes[r][i].len < nodes[r][j].len

\* All free cells are of one level, cell_size is their size, and together
\* they are enough for what is still owed.  Nobody is owed two cells of the
\* current size, nor one if it has one already.
LoopAt(level) ==
  /\ cell_size = 2^(HIERARCHY_DEPTH - level)
  /\ \A i \in DOMAIN free_cells : free_cells[i].len = level
  /\ Total(weight) <= Len(free_cells) * cell_size
  /\ \A r \in DOMAIN request :
       /\ weight[r] < 2 * cell_size
       /\ \A i \in DOMAIN nodes[r] :
            /\ nodes[r][i].len <= level
            /\ nodes[r][i].len = level => weight[r] < cell_size

LoopInvariant == \E level \in 0..HIERARCHY_DEPTH : LoopAt(level)

\* The inductive invariant that NeverOutOfCells and OneCellPerLevel rest on.
InductiveInvariant ==
  /\ TypeOK
  /\ pc = "scale" => /\ weight = request
                     /\ nodes = [r \in DOMAIN request |-> <<>>]
                     /\ free_cells = <<ROOT>>
                     /\ cell_size = subtree_size(ROOT)
  /\ pc = "loop" => LoopInvariant
  /\ NeverOutOfCells
  /\ OneCellPerLevel

\* Who has each identity.
Owner ==
  LET given == [r \in DOMAIN nodes |-> Given(r)]
  IN  [l \in Leaves |-> IF \A r \in DOMAIN nodes : l \notin given[r] THEN NoRelay
                       ELSE CHOOSE r \in DOMAIN nodes : l \in given[r]]

Partitioned == INSTANCE Partition WITH
  Leaf <- Leaves, quota <- Share, owner <- Owner, closed <- pc = "done"

\* Seen from outside, without the tree, identities that are free are given to
\* relays that are owed them, until every relay has its quota: the greedy loop
\* implements module Partition.
ImplementsPartition == Partitioned!Spec
=============================================================================
