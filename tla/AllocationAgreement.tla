------------------------- MODULE AllocationAgreement -------------------------
(***************************************************************************)
(* Two authorities run allocation::allocate on the same registrations.     *)
(* An onion wraps each hop for one identity and secret-shares it among     *)
(* the authorities, so a relay can only unwrap it if every authority gave  *)
(* it that identity: the two runs must reach the same allocation, although *)
(* each authority numbered and stored the requests in its own order.       *)
(*                                                                         *)
(* The registrations are shared; every other variable of Allocation has a  *)
(* second copy.  The runs share nothing else, so that it does not matter   *)
(* that the other one begins when the first has ended.                     *)
(***************************************************************************)
EXTENDS Allocation

VARIABLES other_weight, other_nodes, other_free_cells, other_cell_size, other_pc

local == <<weight, nodes, free_cells, cell_size, pc>>
other_local == <<other_weight, other_nodes, other_free_cells, other_cell_size, other_pc>>

Other == INSTANCE Allocation WITH
  weight <- other_weight, nodes <- other_nodes, free_cells <- other_free_cells,
  cell_size <- other_cell_size, pc <- other_pc

BothInit == Init /\ Other!Init

Returned(place) == place \in {"done", "panic"}

First == Next /\ UNCHANGED other_local
Second == Returned(pc) /\ Other!Next /\ UNCHANGED local

BothNext == First \/ Second

\* Two sequential functions, each of which goes on as long as it can.
BothSpec == /\ BothInit /\ [][BothNext]_<<request, local, other_local>>
            /\ WF_<<request, local, other_local>>(BothNext)

\* Authorities with the same registrations give every relay the same cells:
\* the result does not depend on how a heap orders requests of equal weight.
Agreement == pc = "done" /\ other_pc = "done" => nodes = other_nodes

\* Both calls return, or fail, for all requests.
BothTerminate == <>(Returned(pc) /\ Returned(other_pc))
=============================================================================
