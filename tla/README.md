# Verification of aimless-onions

Aimless Onions is an onion network in which the sender of a message does not choose relays from
a directory.  All keys belong to the leaves of a binary *identity tree*.  Once per *epoch* every
authority divides the leaves among the registered relays in proportion to their weights; a client
picks random leaves, wraps an onion for them with a few short public keys, one per authority, and
never learns which relays they belong to.  The repository also has a Sphinx packet library, with which
the onions are compared, and scripts that compute figures.

This directory holds TLA+ models of the program, the configurations with which TLC checks them on
small instances, and proofs for TLAPS.  All paths below are relative to the repository; `bin/` is
`src/aimless-onions/src/bin/`, and other `.rs` files are those of `src/aimless-onions/src/`.

    tlc -workers 2 -config MCAuthority.cfg MCAuthority     # one run
    tlapm AuthorityProofs.tla                              # one module's proofs

`PROJECT.json` lists the runs, the source lines each definition stands for, the mutation of a
definition that makes each property fail, the hazards and the theorems.  Operators whose
comment begins with *Mutant:* are such mutations; no specification uses them.


## 1. Inventory

### Components

| Component | State | Operations | Talks to |
|---|---|---|---|
| **Identity tree** `nodename.rs` | none; a node is a length and a path | `left`, `right`, `contains`, `walk`, `nth_prefix`, `map_identity` | used by all others |
| **Allocation** `allocation.rs` | local: a heap of requests, a stack of free cells per size, the result | `allocate()` | called by the authority's scheduler |
| **Epoch schedule** `shared.rs` | none; computed from the wall clock | `Epoch::next()`, `succeeding()`, `wait_until()` | authority, relay and client tasks |
| **Directory authority** `bin/authority.rs` | two stores under read-write locks, of registrations and of allocations, each with a *current* and a *new* half | `POST` of a registration, `GET` of public keys, relay addresses and a relay's HIBE keys; a scheduler task | serves relays and clients over HTTPS |
| **Relay** `bin/relay.rs` | keys of the live epoch, under a read-write lock; keys of the next one, in a task | epoch task: register, fetch, swap; HTTP handler: `relay_onion()` | authorities, other relays, the board |
| **Client** `bin/client.rs` | current public keys under a read-write lock | initial retrieval, epoch task, `build_and_send()` | authorities, the first relay |
| **Board** `bin/board.rs` | a bounded list of messages under a lock | store a message, list them | the last relay posts to it |
| **HIBE keys** `hibe.rs` | a cache of products | `generate_key()`, `derive_key()` | authority (generate), relay (derive) |
| **Onion format** `format.rs` | none | `wrap()`, `unwrap()`, filler, tags and secret shares | client (wrap), relay (unwrap) |
| **API types** `apitypes.rs` | none | record types of the requests | |
| **Consensus reader, tools** `consensus.rs`, `bin/allocate.rs`, `bin/onion_sizes.rs`, `benches/` | none | read a Tor consensus, print figures | |
| **Allocation accuracy** `src/accuracy.py` | local: a heap, counters | a second implementation of the allocation, with over-allocation | |
| **Sphinx keys and header** `src/sphinx-benchmarks/src/crypto/`, `header/` | none | derive a route's keys; build and process a header | its packets |
| **Sphinx packets** `packet/`, `payload/`, `surb/` | none; a node may keep keys and secrets | build, process and recover packets, reply blocks | senders, nodes and recipients of a mix network |
| **Sphinx addresses, delays and tools** `route.rs`, `header/delays.rs`, `bin/onion_size.rs` | none | encodings, random durations, sizes | |
| **Double choice** `src/doublechoose.py` | local: a sum | how likely a path has one relay twice | the notebook |
| **Measurements** `src/tor-diff-size/`, `src/tor-measurement-script/`, `src/scripts/` | files | scripts around other programs | |

### How they interact

The parties share nothing but the schedule, which each follows by its own clock.  In one epoch

    registration        each relay draws a key and registers it with every authority, one by one
    allocation start    each authority takes the registrations it has, allocates, and sets up new keys
    allocation finish   each relay fetches, from one authority after the other, the next public key
                        and the private keys of its identities; each client the next public keys
    switchover          each authority makes the new keys current and clears the registrations;
                        each relay swaps its keys; each client swaps its public keys

and nothing acknowledges any of these steps.  Everything is kept in memory.  A relay that gets an
onion asks *every* authority's keys for its part of the layer, so all authorities must have given
each identity to the same relay, although they allocate separately.

### What is hard, and what would make it correct

* *Several actors, no coordination.*  Registrations arrive while the scheduler takes, copies and
  clears stores under separate locks.  Right means: no registration made in time is lost, ids stay
  unique, keys once handed out are not withdrawn, and an allocation, its addresses and its keys are
  never from different runs.
* *Agreement without a protocol.*  Authorities number and store requests in different orders, and
  the order in which requests of equal weight leave the heap rests on which of two inconsistent
  comparisons it uses.  Right means: equal registrations lead to equal allocations.
* *Failure and recovery.*  Requests are lost, processes crash, tasks end for good after one error,
  authorities skip epochs.  Right means: once there is no trouble for a while, every party that
  still takes part uses matching keys again.
* *Arithmetic at boundaries.*  Shares are rounded; cells are popped from a stack that must not be
  empty; the schedule is modular.  Right means: cells never overlap, shares are exact, no epoch is
  prepared twice.
* *Progress.*  The greedy loop ends; an epoch with enough relays is switched to.
* *Layered data.*  The filler must anticipate what later hops append; derived HIBE keys must not
  depend on the cache; a relay pairs keys and shares by position.  Right means: an onion follows its
  route, is unwrapped where every authority put its identity, and nowhere else, and arrives.
* *Packets of one size.*  A Sphinx header always has room for the longest route: what a node appends
  must be what the sender anticipated two ciphers earlier; the sender multiplies secrets where the
  nodes multiply points, and a node may use keys it kept from another packet.  Right means: every node
  of every route learns the next one and its delay and nothing else, and the recipient gets what was
  sent, by packet or by reply block.
* *Locks held over requests.*  A relay keeps its keys locked while it sends an onion on.  Right means:
  a switchover happens nevertheless.

`PROJECT.json` lists each of these under "hazards" with the line where it bites and the properties
that would notice.


## 2. Modules

| Module | Models | Extends / instantiates |
|---|---|---|
| `NodeName` | `nodename.rs`: nodes, bit arithmetic, HIBE identities | |
| `Allocation` | `allocate()`, one action per branch of the loop | `NodeName` |
| `Partition` | abstract: identities are given to relays, range by range | |
| `AllocationAgreement` | two runs of `allocate()` on the same registrations | `Allocation`, and a second one |
| `Epoch` | `shared.rs`: the schedule | |
| `Authority` | `bin/authority.rs`: stores, handlers, scheduler; what the network asks of it | `Epoch` |
| `AuthorityService` | one authority with callers and a clock, and its properties | `Authority` |
| `Relay` | `bin/relay.rs`: the epoch task | `Epoch` |
| `Client` | `bin/client.rs`: key retrieval | `Epoch` |
| `Network` | two authorities, relays and a client, with crashes, failures and delays | `Relay`, twice `Authority`, `Client` |
| `NetworkCalm` | what is true of `Network` at every moment, by how long it has been calm: its inductive invariants | `Network` |
| `Accuracy` | `src/accuracy.py`: the second allocation | |
| `Hibe` | `hibe.rs`: keys, derivation and the cache, in exponents | `NodeName` |
| `PrivateKeys` | `get_private_key()` of `bin/relay.rs`; the meaning of node names | `Hibe` |
| `Cells` | byte strings under stream ciphers, for both formats | |
| `OnionFormat` | `format.rs`: layers, filler, tags, shares | `Cells` |
| `Journey` | abstract: a message makes the stops its sender chose, and its recipient gets the content | |
| `Delivery` | sending (`bin/client.rs`), `relay_onion()` and `send_onion()` (`bin/relay.rs`), the board, and the locks on keys while epochs change | `OnionFormat`, `Journey` |
| `SphinxKeys` | Sphinx: `crypto/keys.rs`, `header/keys.rs`: shared keys and blinding | |
| `SphinxHeader` | Sphinx: `header/`: filler, layers, MACs, processing | `Cells`, `SphinxKeys` |
| `SphinxPacket` | Sphinx: `packet/`, `payload/`, `surb/`: packets, payload, reply blocks | `SphinxHeader` |
| `SphinxNet` | senders, nodes and recipients that use them | `SphinxPacket`, `Journey` |
| `DoubleChoose` | `src/doublechoose.py`: `probability()` | |
| `AllocationProofs` | theorems about the allocation | `AllocationAgreement`, TLAPS |
| `AuthorityProofs` | theorems about an authority | `AuthorityService`, TLAPS |
| `NetworkProofs` | theorems about the network | `NetworkCalm`, TLAPS |
| `JourneyProofs` | what a journey means for the sender | `Journey`, TLAPS |
| `DeliveryProofs` | theorems about the onion format, locks, board and the way of an onion | `Delivery`, `JourneyProofs`, TLAPS |
| `KeyProofs` | theorems about node names and derived keys | `PrivateKeys`, TLAPS |
| `AccuracyProofs` | theorems about the second allocation | `Accuracy`, TLAPS |
| `SphinxProofs` | theorems about Sphinx packets | `SphinxNet`, `JourneyProofs`, TLAPS |
| `MCAuthority`, `MCNetwork`, `MCDelivery`, `MCSphinx` | instances for TLC; the other runs need no module of their own | |

### Node names and the allocation

A node is a record of a length and a path, as in the source: a path is a number whose last bits are
the steps from the root.  `walk`, `contains` and `map_identity` are the source's arithmetic, and
`PrivateKeys` compares them with what they mean in a tree.

`Allocation` keeps what the function has at hand: `weight` is the heap, that is what each relay is
still owed, `free_cells` the stack, `cell_size` the size of its cells, `nodes` the result.  `Scale` is
the scaling of the weights, and the loop's body is one of `Assign` (the heaviest relay is given and
charged a cell), `Split` (no relay deserves a cell: all are halved) and `Stop`.  `Largest` is what
`BinaryHeap::pop` may return.  The heap compares with `<=`, hence by `PartialOrd`, which breaks ties by
key (`allocation.rs`:19), and not by `Ord` (:25), which leaves them open; with the latter, agreement
fails, as the mutation of `Less` shows.  A pop from an empty stack and the division by a zero sum are
panics, `pc = "panic"`; `NeverOutOfCells` says the first does not occur.

`Partition` is the promise without the tree: identities that are free are given, a range at a time, to
relays that are owed them, until every relay has its quota.  The refinement mapping reads the owner
of an identity off the cells.

`AllocationAgreement` adds a second copy of all local variables, `other_weight` and so on, and lets the
second call begin when the first has returned: they share nothing but the registrations, so that
their steps commute.

### The authority

`request_store` and `allocation_store` are pairs, `[1]` the current half and `[2]` the new one.
`handle_request`, `get_address` and `get_hibe_keys` are the handlers' bodies under their lock, hence one
step each.  The scheduler task is a program counter, with one action for each section between
locks: `advance()` takes and releases locks four times (`bin/authority.rs`:133-140), and so is
four actions between which requests are served.  A set of HIBE keys is represented by the number
`params` of the `Authority::setup()` that drew it; number 0 is the key pair an authority draws when
it starts.  `allocate()` is the constant operator `Allocate(_)`, so that every property of
`AuthorityService` is about any way to allocate; the instances supply one in the spirit of
`allocate()`, small enough to be evaluated in each state.  Division by zero when all weights are
zero is a panic in the task, which then is `dead` while the handlers go on.

`AuthorityService` adds history: which keys registered in time (`ontime`), what each allocation
was (`made`) and for which epoch (`prepared`).

### Relays, clients and the network

`Relay` and `Client` are tasks with program counters, in which each HTTP request is a step.  The
authorities' answers are parameters, which `Network` fills in from the state of the authority that
is asked, so that one task can get answers from before and after a switchover.  As in the source, a
failed registration is logged and forgotten, any other error ends a relay's epoch task
(`bin/relay.rs`:195, :249 ff.) while the process keeps serving, and a client retries at once.

*Trouble* is a crash, a lost or failed request, an authority with fewer than two relays, one whose scheduler
has died of the division by zero, or a party still busy with one instant of the schedule when the next one comes.  Nothing else is ruled out:
within an instant, all parties act in any order.  The properties are about authorities that are
`Untroubled`: there was no trouble since the registration time of the epoch *before* the one they
serve.  One quiet epoch is not enough.  A registration made under the key of one epoch can be
accepted by an authority that has restarted or was late, and that collects it for the next epoch,
when its relay uses another key; the authority then has a relay more than the others.  TLC finds
that trace as soon as the condition is relaxed to one epoch.

### Keys

`Hibe` represents a group element by its exponent: an element of G2 is a vector over the master key
and the independent public elements, one of G1 a number.  Multiplying, adding and the pairing in
`opens` are then linear algebra over a small prime field, and what the source computes with random
numbers can be compared for *all* random numbers: `DerivedLikeGenerated` says that a derived key is
one that could have been generated, and that every such key can come out.  `PrivateKeys` starts with
any set of disjoint cells, as an allocation gives them, each with a generated key, and any of three
caches, and does what `get_private_key()` does: look for a cell, then derive step by step.

### Onions and their delivery

In `OnionFormat` a header is a sequence of cells (module `Cells`), three for each hop.  A cell is a text
and the set of pads that hide it.  Applying a keystream adds its pads or, the second time, removes them; so the
zeros that a hop appends become exactly the cells that `compute_filler()` anticipated, or the tag, which
contains all it is computed from, does not match.  A share is a point of the nonce for an identity,
under one authority's key.  Whether decryption with the private key of one epoch and the public key of
another yields the share is up to the library, and left open.

In `Delivery` each message has a task, at the client first and then in the thread of the relay it was
sent to.  The relay's lock is taken as in the source: once for the public keys, again for the private
keys (`bin/relay.rs`:150, :155), and a third time in `send_onion()`, which keeps it while the address is
asked for and the next relay answers (:114).  The lock is fair, as tokio's is: who waits to write
keeps new readers out.  The private keys are a list from which an authority that did not give the
relay the identity is missing; unwrapping then fails.  Which identities belong to whom is a constant,
`Owner`: how it comes about is the matter of `Network`.  The authorities, the relays and the client
switch epochs each at a moment of its own, so that onions meet relays that have the keys of an epoch
before or after theirs.

`Journey` is what the sender is promised: one message after the other departs with an itinerary and a
content, makes its stops one by one, arrives after the last, or is lost on the way.  A stop of an
onion is an identity together with the delay found there.  The refinement mapping reads the stops
off the history of unwrappings and the arrival off the posts to the board.

### Sphinx

`SphinxKeys` represents a point by its exponent, and an exponent by the set of its factors.  The
sender multiplies its secret by all blinding factors so far (`header/keys.rs`:122); a node
multiplies the point it got by one.  That both have the same keys is then a fact about sets, and
whether it holds after all hops rests on who multiplies what and when.

`SphinxHeader` uses the cells of the onions, three to a block, with the source's lengths counted in
cells, its own way to compute the filler, the padding for a route that is shorter than
`MAX_PATH_LENGTH`, and the MAC over a header that is longer than what the next node is sent.
What the source asserts, or would subtract below zero, is a panic (`Buildable`); what it returns as an
error is `Failed`.

`SphinxPacket` adds the payload.  Lioness is a permutation of the whole payload: each byte carries the
sequence of layers it is under, and a layer comes off only as the last one.  A message is found again by
the last 1 in the payload, so a byte has a value here.  Packets and reply blocks go through bytes,
that is, through the same sequence of cells by which they are cut at fixed lengths in the source.

`SphinxNet` is what uses the library: senders that build packets, perhaps several from one initial
secret, as `build_packet()` allows; recipients that make reply blocks and people who use them;
and nodes that process whatever reaches them, and keep the keys and the next secret of packets under
one secret, as `process_with_derived_keys()` and `ProcessedPacket::shared_secret()` are there for.
Packets may come to wrong nodes.  Here, a stop is a node and what it is told: a delay, or at the
last one the recipient.


## 3. What TLC checks

| Run | What it shows |
|---|---|
| `private_keys` | For every identity and every one or two disjoint cells of a tree of depth 3: a key is found exactly if a cell contains the identity; the key derived from it opens the identity's leaf and no other, and is distributed as a generated one, whatever is cached. A cell's HIBE identity is a prefix of a leaf's exactly if the cell contains it. |
| `allocation` | Up to four relays, weights up to 4, 16 identities: every identity is in exactly one cell at all times, each relay has its exact share with at most one cell per size, the stack is never empty when popped, the loop ends; each step is one of `Partition` or changes nothing there; and a second authority with the same registrations gets the same allocation. |
| `authority` | Registrations at any moment, over more than two epochs: ids, registrations, addresses and keys are consistent; no epoch is prepared twice, keys handed out as next become current; an epoch with enough relays is switched to. |
| `authority_skip` | *Expected violation*, see 5. |
| `network` | Two authorities and two relays over three epochs with up to two crashes, failures or delays: two quiet epochs later everything matches again, for every relay and identity. |
| `network_client` | The same for a client that starts while the authorities and relays switch, with one crash, failure or delay of anybody; and at every moment, everybody is and has what `NetworkInvariant` says. |
| `network_late_client` | *Expected violation*, see 5. |
| `delivery` | Two onions, two relays, two authorities that disagree in the second epoch, one crash: onions implement `Journey`, that is, each is unwrapped along its route, in order, with the chosen delays; only by relays that all authorities agree on; what reaches the board is what was sent, once; an onion sent while all is calm arrives; whoever waits for the write lock gets it. |
| `sphinx` | Two packets, built or sent with reply blocks, under new or reused secrets, through three nodes that keep keys, with misdelivery: packets implement `Journey`; exactly what fits is built; nothing but secret and MAC is in the clear on the way; a packet leaves a node with nothing in common with what came in; it is lost only at a wrong node or, under a reused secret, where another packet's route ended. |
| `accuracy` | The second implementation, for five relays of weights up to 3 on eight identities: how many chunks are counted as free and given, in both loops, also after the chunks have lost their size; each relay gets its share; both loops end without a failing assertion. |
| `accuracy_remainder` | *Expected violation*, see 5. |
| `double_choose` | *Expected violation*, see 5. |

### Bounds, and why they are enough

* *Tree and weights.*  A tree of depth 4 with up to four relays has splits at every level, shares of
  several cells, shares that round to nothing, equal requests, and unowned cells.  The proofs below
  carry the main invariants to all depths, relays and weights.
* *Time.*  `EPOCH_DURATION` is 4 with the four instants at 0, 1, 2 and 3: as in the source they are
  distinct and in this order, and between two of them nothing depends on time.  `MAX_TIME` in
  `Network` is 12, that is three switchovers: one in which trouble occurs, one that must not count
  yet, and one for which the properties bite.
* *Trouble.*  `MAX_TROUBLES` (2, or 1 with a client) bounds its number; `LATEST_TROUBLE` is 4, which is
  no loss: later trouble makes the property vacuous at every epoch before `MAX_TIME`.
* *Registrations.*  `MAX_REGISTRATIONS` bounds `Register` in `AuthorityService`; it is enough for a
  relay that registers twice, a late one, and two full epochs.
* *Keys.*  The order of the groups is 3, the smallest with more than one random number besides 0; places
  are three, enough for a key that is derived twice after generation.  Identities have four bits, one
  more than the tree is deep.
* *Onions.*  Three hops as in the client, so that a filler passes two more hops; two messages, so that
  one can hold a lock, or push out the other from the board (`BOARD_SIZE` 1, of 100), while the other is
  anywhere; two epochs, `MAX_CRASHES` 1.  Messages that are redacted and those that are not are added to the list in two
  branches, each with its own bound: both are taken in the run, and that what remains are the latest, in order, is proved for every
  size (`DeliveryBoardShowsLatest`).  One identity belongs to nobody, one is given away by
  only one authority in the second epoch, and one differently by both.
* *Packets.*  `MAX_PATH_LENGTH` is 3 (in the source it is set when the library is built), so that the filler of the last node has passed two
  others, and routes are of all lengths, also empty, too long, through one node twice, and the beginning of
  another.  Two packets are enough for one to profit, or suffer, from the keys that the other left at a
  node.  `SECURITY_PARAMETER` is 2 (16) and `DIGEST_RESULT_SIZE` 4 (32); payloads of 2, 3 and 6 are too small
  for a mark, too small for the cipher, and large enough for messages of some lengths; messages contain
  the mark.  A payload of exactly `DIGEST_RESULT_SIZE` is left to the Lioness library, which may refuse it.
* *Paths.*  Up to five relays and paths of up to four for `double_choose`, four being the length from
  which on two relays can both be doubled.
* *Starts.*  `RELAY_START` and `CLIENT_START` are times in different phases of an epoch.
  A client of `network_client` starts at a switchover, so that it may get the keys of two epochs.

`CHECK_DEADLOCK FALSE` stands where the model stops by design: `allocate()` and the function in
`PrivateKeys` return, onions end, and the clock and the registrations are bounded.

### Fairness

`SwitchoverHappens` assumes weak fairness of the scheduler's steps and of the clock.  A tokio task
that can go on is polled eventually, locks are held for short sections only, and the clock runs.
No fairness is assumed of registrations.  `BothTerminate` and `Ends` assume that a sequential loop is not
stopped (`WF(Next)`).  `CalmOnionsArrive` and `SwitchoversHappen` assume `WF(Progress)`: as long as some handler or
some task that waits for a lock can go on, one of them does, and requests are answered or fail.  The
beginning of switchovers and crashes is not part of it.  That any one of them goes on is enough
as the messages are finitely many; the threads and tasks of the source each go on by themselves.  The property excepts a scheduler that died of the division by zero, by name.


## 4. What is proved

Everything below holds for every value of the constants, under the assumptions named in the modules.

**`AllocationProofs`**, which begins with facts about powers of two.  From
`InductiveInvariant`: what is free and what is still requested are tied by an inequality, the
requests that remain being at most what the free cells hold; requests are below twice the current
cell size; each relay's cells have different sizes.  Alone, `NeverOutOfCells` is not inductive: that
the stack is not empty follows only from the balance of requests and cells over all relays.
Theorems: `AllocationInvariant`, `AllocationTypeOK`, `AllocationNeverOutOfCells` and
`AllocationOneCellPerLevel`.

**`AllocationProofs`, the partition**.  `PartitionInvariant` adds what the tree has to do with it: every identity is below
the cell at exactly one place, given or free (`BelowOne`); no cell has more identities than there are
(`Fits`); what a relay has been given and what it is owed add up to its share (`SharesAddUp`).  The first
needs that the cells of one size split into those of the next, a fact about quotients, and the third that
the cell a relay is charged for has as many identities as it is charged, none of which it had before.
Theorems: `AllocationCellsPartitionTheTree`, `AllocationExactShares`, and `AllocationImplementsPartition`,
for which each step is shown to be a `Grant` of the identities of one cell, the `Close` with all quotas
met, or to change no owner.

**`AllocationProofs`, agreement**.  `AllocationsAgree`: two calls with the same registrations return the same
allocation.  The steps of one call cannot be compared with those of another call made later, so the
proof gives the calls a common third: `From`, the least set of local states that contains the start of
the call and with a state the one after it.  Since the heap has one largest request (`HighestUnique`,
which rests on keys deciding between equal weights) there is only one state after each, and
the set is a chain with at most one end (`OneEnd`).  Both calls are on it (`OnTheChain` is the inductive
invariant), and both return at its end.

**`JourneyProofs`**.  For any messages, itineraries and contents: the stops made are the first ones of the
itinerary, in order; a content is received at the end of the itinerary only, and is the
one that was sent; nothing changes what was sent, and what is lost or has arrived
stays so.  Of `Journey` this is little more than its definition.  It says something of the program because onions and
packets are proved below to implement `Journey`: `DeliveryProofs` and `SphinxProofs` instantiate these theorems under their
refinement mappings, and there they are about what relays unwrap, nodes process and recipients get.  They are
consequences of the refinements that TLC checks, and therefore no properties of the runs.

**`DeliveryProofs`, the onion format**.  `OnionRoute`: what `wrap()` makes for a route of any length, with any number of
authorities, is unwrapped hop by hop: each hop's nonce gives the delay chosen for it and leaves the onion of
the next hop, any other nonce is refused, and the last hop is left with the data.  The heart of it is that
the filler fits (`FillerFits`): after *k* hops the header ends in the cells that the first *k* keystreams make of the zeros
that were appended, so that the tag computed by the sender covers just what the hop has before it.  Fillers and layers
are built by folds over the route, which are defined by recursive functions over the indices; facts about
them are proved for all lengths by taking the least index at which they would fail (`FillersInTurn`,
`LayersInTurn`, from the well-foundedness of the naturals).  Not assumed is that nonces or identities differ.
`RecoveredOnly` says when shares give the nonce: only with one matching private key per authority.

**`DeliveryProofs`, the way of an onion**.  For any relays, authorities, owners, epochs, routes and number of onions and any
size of the board.  First the locks and the board: the lock on a relay's keys is held for exactly those onions
that this relay is sending on, none of them at a relay that has crashed, and a party waits for a switchover only while
there is an epoch to switch to (`DeliveryTypeOK`); the board shows what was posted last, in that order
(`DeliveryBoardShowsLatest`).  `DeliveryInvariant` is in three parts.  `LockInvariant` computes the holders of each
lock from the handlers' places, so that each step of a handler has to take or release just its own;
`EpochsInvariant` has every waiting party below the last epoch; `BoardInvariant` counts one post per
handler that is done, which bounds what was posted by the number of onions.

Then the way of an onion, by `JourneyInvariant`: whoever handles a message that has made *k* hops has exactly the
layer *k* + 1 of the onion that the client wrapped (`Travels`); these hops were at the identities of
its route, at relays to which all authorities gave them (`MadeHops`); and the posts are one for each message that is done.
`UnwrappedByOwners` and `PostedAsSent` are not inductive without it: that a relay can unwrap only what is its own
holds because it has a layer, whose shares are under the keys of *one* epoch, while its private and public keys may be
from before and after a switchover (`KeysHeld`, `OnlyOwnersOpen`).  Each step then is one of five moves of a message (`StepMoves`): it leaves,
is passed on, makes a hop, is posted, or is lost with its relay.  Theorems: `JourneyInductive`, from it
`DeliveryUnwrappedByOwners` and `DeliveryPostedAsSent`, and `DeliveryImplementsJourney`, for which each move is shown
to be a step of `Journey` or none (`MoveIsStep`, `LossIsStep`) under the refinement mapping.  With it go
`DeliveryInOrder` (hops are those of the route, in order, with the delays chosen), `DeliveryReceivedAtTheEnd`
(the board gets what was sent, after all hops) and `DeliverySettledForGood` (nothing changes an onion's route or content, and
what was lost or posted is not relayed again).

`DeliveryAssumption` says that the numbers are naturals, that there is an authority and an epoch, and that routes
are not empty.  The code needs them too: without an authority there is nobody to ask for the first relay, and a
route has three hops (`bin/client.rs`).  Nothing is assumed of owners, nor that the identities of a route differ.

**`KeyProofs`**.  For any depth of the tree, width of identities, matrix, and order of the groups above 2
(`DepthAssumption`, `OrderAssumption`).  The arithmetic of `nodename.rs`, shifts and quotients of paths, is shown to be
that of a tree: `walk` goes from a node's topmost ancestor to the node itself, a node contains just those on whose walk it is, and
`map_identity` maps this to prefixes.  That is `PrivateKeysDerivableIffContained`.  `PrivateKeysIdentitiesSplitByLevel`
adds that the cells of a relay do not overlap.  Keys are vectors of exponents, and what `generate_key()` and `derive_key()` compute is put in one
closed form (`KeyOf`), for any random number, with or without the cache: a derived key then is one that could have been
generated, with the sum of the random numbers in place of the one (`PrivateKeysDerivedLikeGenerated`), and the pairing in `opens`
cancels all but the master key if the identities are the same.  If they are not, the random
number or its negative is left where they differ, unless it is 0 (`PrivateKeysOpensItsLeaf`).  `KeyInvariant` says so of the key in hand at every step of `get_private_key()`, of which
the nodes still to come are the rest of the walk.

**`AccuracyProofs`**.  For any finite set of relays, any weights and any depth (`AccuracyAssumption`).  `AccuracyInvariant`: without
over-allocation, what a relay has and what it still requests add up to its share; who has left the heap
requests nothing; and while chunks have a size, the free ones are what the assigned ones leave of the tree.  The last is
inductive only since the requests together never exceed what is free (`RequestsFit`, `LeftFits`): when all requests are below a
chunk's size, halving it loses nothing, and when chunks have size one and none is left, all requests are met.  A relay
that requests nothing lets the loop halve chunks of size one: their size becomes zero and their number doubles.  By then
every request is met (`FulfilledSum`), so that just the identities which nobody requested are counted a second time; no
request changes after that (`RequestsStay`), and the second loop gives chunks only to relays on the heap, which then have no request.
Hence `AccuracyChunksAreAccountedFor`; `AccuracyAssertionsHold`, of the two assertions of the loop; and `AccuracySharesAreRequests`.

**`SphinxProofs`**.  For any nodes, packets, messages, routes and delays, any path length and payload sizes, and secrets that are used
once or for many packets.  `PathAssumption` and `SizesAssumption` say that sizes are naturals, and
`RequestsAssumption` that requests are of the library's types, and that a secret handed in for reuse is made of random
secrets, that is, not of public keys or blinding factors.

The secret of a packet grows by one blinding factor at each node.  `Chain` is what it is after each.  No two nodes
of a route share the same with the sender, as the first two that did would contain the factor of an earlier pair; with that the keys differ (`SharedDistinct`), also those that a node which is not
on its turn would derive (`NodeKeys`).  So its MAC fails there (`OpensNot`), and if two chains
meet in one secret, their routes are the same up to there (`ChainTells`).  Fillers and layers are
taken one by one, by the least index at which they could fail; the filler is what a header ends in after
*k* nodes (`FillerFits`), so that each node finds its MAC right and its layer in the clear (`OpensForward`, `OpensFinal`);
and no pad of a cell is ever removed twice (`LayersHidden`).  Packets and reply blocks go through bytes at each hop and come out
the same (`PacketOnWire`, `SURBOnWire`).

`SphinxInvariant` then says of every packet where it is and what it is, byte for byte, in terms of its request and the number of
its stops (`IsPlaced`), and of every entry that a node keeps from which packet's passing it comes (`Cached`).  Without the second,
nothing is inductive: a packet under a reused secret is processed with what another one left (`ProcessedIs`), and it has to be shown
that this is what would have been derived, or that the route of the other one ended there.  From it follow `SphinxTypeOK`,
`SphinxMadeIffItFits`, `SphinxNothingInClear`, `SphinxLostOnlyForAReason`, `SphinxLooksDifferent` and
`SphinxImplementsJourney`; for the last each step is one of five moves of a packet (`StepMoves`): it leaves, has not left,
makes a stop, is lost, or has its message recovered.  As for onions, `SphinxInOrder`, `SphinxReceivedAtTheEnd` and
`SphinxSettledForGood` follow.

**`AuthorityProofs`**.  `ServiceInvariant` ties the stores to the place where the scheduler is: while
it collects, the new allocations are the default ones; from the allocation to the end of
`advance()` they are the last that was made; while it clears, both halves are equal.  With it goes
what makes ids unique (the counter is above every id of its store) and epochs distinct (the next
one prepared is later than all prepared).  None of the properties is inductive without the place
of the scheduler: `OnTimeMeansAllocated` needs that registrations in time are among the collected
ones, `NextKeysBecomeCurrent` that clearing comes last.  The assumptions are `EpochAssumption` (the
instants are distinct, in order, and within one duration) and what the invariant needs of
`Allocate`; nothing bounds relays, registrations or time.  Theorems: `AuthorityInvariant` and, from
it, `AuthorityUniqueIds`, `AuthorityOnTimeMeansAllocated`, `AuthorityNeverMixed`,
`AuthorityAddressesKnown`, `AuthorityOneAllocationPerEpoch`, `AuthorityNextKeysBecomeCurrent`.

**`NetworkProofs`**.  That everything matches again after trouble, for any schedule that satisfies
`EpochAssumption`, any finite set of relays with natural weights, and any amount of trouble at any time;
`MAX_TIME`, `MAX_TROUBLES` and `LATEST_TROUBLE` are arbitrary here.  None of the four properties of `Network`
is inductive, as each speaks of moments when all are at rest, and of what is there two epochs
after it was begun.  `CalmInvariant` says what holds at *every* moment, between any two steps of any two
parties, by how long there has been no trouble:

* always (`AnyTime`): epochs are those of the schedule, no task is ahead of it, and request ids differ;
* since the registration time of this epoch (`OnTime`): everybody is where the schedule has them, or has left
  for good, and the requests of the last epoch are gone.  This is how a missed instant shows: the clock cannot
  pass it without noting trouble;
* since the epoch before (`FreshKeysAgree`): each authority has collected the registrations of those relays
  that take part, and of no others, has allocated for them under their present keys, and relays and client have
  been given what goes with that allocation, as far as they have asked;
* since the one before that (`OldAddressesAgree`): what the authorities serve until they advance agrees too.

Registration, allocation and the handing out of keys take an epoch each, and a shorter calm does
not give more: `FreshKeysAgree` becomes `OldAddressesAgree` when the schedule turns to the next
epoch (`TurnsToNext`).  `NetworkInvariant` adds `OldKeys`: until an authority advances, relays have
the keys of just the identities it sends to them.  An authority is `Untroubled` at rest in one of two ways, before or after
it has advanced in the present epoch (`UntroubledIs`), and each property follows from the invariant in both.

The proof that a step keeps the invariant first says what the step does to one party, as a *move*
of an authority (a request comes in, it makes an allocation, advances, starts afresh), of a relay, of the client or of the clock; what a move
leaves alone of the other parties is then shown once for each kind of move, not once for each action.

`NetworkStaysCalm`, `NetworkClientInSync` and `NetworkAuthoritiesAgree` hold for whatever `Allocate` returns, the same
for the same weights, as `AllocationsAgree` shows of `allocate()`.
`NetworkKeepsOldKeys`, `NetworkRelaysInSync` and `NetworkOnionsAreUnwrapped` have the hypothesis `AllocatesDisjointly`: unless all weights are
zero, an identity is given to one relay at most.  That is what
`AllocationCellsPartitionTheTree` shows of `allocate()`, and what `MCNetwork` has TLC evaluate of its allocation.  Without
it an identity could have two relays, and `RelaysInSync` would be false of both.  `TwoAuthorities` says that there are two of them, for which the model has variables.

TLC checks the inductive invariants of the loop, of an authority and of the network too, as invariants of the runs
`allocation`, `authority` and `network_client`; `TypeOK` of `Allocation` is a part of the first.

**Only model-checked**: liveness (`BothTerminate`, `SwitchoverHappens`, `Ends`, `CalmOnionsArrive`,
`SwitchoversHappen`), which is out of the prover's reach, as the theorems of the library about well-founded
induction are, whose parameters are operators: where something is proved for routes of any length, the least
counterexample is taken by hand.  Every safety property and every refinement that a passing run checks is proved.
The inductive invariants of `KeyProofs`, `AccuracyProofs`, `JourneyProofs`, `SphinxProofs` and of the way of an onion are in
the modules of the proofs, in terms defined there, and no run has them.


## 5. Where the program and its words differ

* `authority_skip`.  With fewer than two relays the scheduler logs *"skipping this epoch"*
  (`bin/authority.rs`:240), but stays in the loop with the same epoch, whose allocation time has
  come: it spins and allocates for this very epoch as soon as a second relay registers, normally in
  the registration window of the next one.
* `network_late_client`.  The client logs that it waits for the *next* epoch (`bin/client.rs`:215), but
  one started between a registration time and its switchover prepares the epoch after that one,
  and uses withdrawn keys for a whole epoch.
* `accuracy_remainder`.  The second loop of `accuracy.py` is to hand out the chunks that remain, but relays
  whose request is fulfilled have left the heap, so that it often hands out nothing.  If relays without a
  request are left there, it may, on the other hand, hand out more chunks than remain: for weights 2, 1, 0, 0, 0
  and eight identities it gives away nine (`ChunksAreAccountedFor` says how many there can be).
* `double_choose`.  `probability()` *"Returns the probability to double-choose a node."*
  (`src/doublechoose.py`:21), but its terms are for one relay at several places and different ones at
  all others: a path on which two relays are both doubled is in none.  There are such paths from length
  four on, and the notebook asks for length five (`src/Benchmark.ipynb`:1608).


## 6. What is not modelled

* Cryptography as such: keys are the numbers of the setups that drew them, or exponents; ciphers are
  pads; tags are their inputs; nobody guesses a nonce.
* HTTP, TLS, serialisation and routing of requests, logging, command lines.
* The encoding of onions in bytes: lengths of blocks, integers and nonces with leading zeros.
* In Sphinx: versions, the byte encodings of addresses, delays and identifiers, the drawing of random
  delays, and errors of the Lioness library on payloads that have been validated.
* The files of times that client and board write, and the difference of clocks in them (`board.rs`:81).
* Onions at relays without keys (before the first switchover, when `send_onion()` would panic).
* The statistics around `accuracy.py` and `doublechoose.py`, the consensus reader and the evaluation tools, which read a file and print numbers, and the
  measurement scripts, which have no state of this system.
* A POST to the board that fails (`bin/relay.rs`:171) and an authority that does not answer when it is asked for an
  address: the onion is lost, as `Journey` allows at any stop.  `CalmOnionsArrive` assumes that whoever is asked answers.
* `probability()` of an empty list, and of weights that are all zero, where it divides by zero.
* Skew between the clocks of the parties beyond *delay*: the clock is common, and whoever is late by
  less than the next instant is covered by interleaving, whoever is later counts as trouble.


## 7. Plan

Done: the allocation, with its partition and agreement proved; the authority; the schedule; the exchange
of keys over epochs, proved to recover from any trouble; key derivation; the way of an onion from the client to the board; the Sphinx
library; and the proofs of all safety properties.  What is left:

* **Delivery with the epoch task**: `Delivery` over `Network` instead of a constant `Owner`, with the start of
  relays without keys.  The state space of `Network` alone takes minutes, so this needs an abstraction
  of `Network` first: an epoch's owners, and who has which keys.
