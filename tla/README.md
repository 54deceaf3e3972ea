# Verification of stryi-chain

TLA+ modules, TLC runs and TLAPS proofs about the code of the stryi-chain
workspace. Paths below are relative to the repository; `core` stands for
`crates/stryi_core/src`, `storage` for `crates/stryi_storage/src`, `node` for
`crates/stryi_node/src`, `network` for `crates/stryi_network/src`.

Contents: 1 inventory, 2 modules and the code they model, 3 properties and runs,
4 proofs, 5 what is left out, 6 plan. `PROJECT.json` maps every definition to its
source lines and lists components, runs, mutants, hazards and theorems.

## 1. Inventory

stryi-chain is a proof-of-work chain with unspent transaction outputs (UTXO). A
node owns one database and talks to peers over libp2p.

| Component | State | Operations | What makes it correct |
| --- | --- | --- | --- |
| Consensus engine (`core/consensus`) | in-memory index of the canonical chain and its tip, registry of lighter forks | `new`, `on_block` with one handler per disposition | index equals the stored chain; forks are valid branches; the heaviest valid branch wins |
| Fork overlay (`core/consensus/forks/overlay.rs`) | outputs put and removed, detached blocks, replayed blocks | rewind, replay, reads of the branch, `into_delta` | shows the ledger of exactly one block at any time |
| Canonical transitions (`core/storage/transition.rs`) | height, block, index, undo, output, transaction-index and chain-state tables | genesis, append, reorganize | one atomic change; ledger = replay of the chain |
| UTXO processor (`core/transactions/utxo_processor.rs`) | none | apply, rewind | rewind inverts apply |
| Block validator (`core/consensus/validator`, `rules.rs`) | none | header, transaction and reward rules | no double spend, no value from nothing |
| Difficulty (`core/difficulty*`) | none | ASERT threshold from anchor and parent | depends on the branch only; within its limits |
| In-memory backend (`core/storage/in_memory.rs`) | one view of chain and outputs | a transition replaces the view as a whole | the contract every backend has to meet |
| RocksDB backend (`storage`) | database, writer lock, permanent failed flag | snapshot reads, one transaction per update, opening checks | all or nothing; nothing after a failure |
| Start-up and genesis bootstrap (`node/main.rs`, `node/bootstrap.rs`) | none | compare configuration, storage and peer; save once, verify later | a data directory keeps one genesis, and it is the configured one |
| Mempool (`core/mempool`) | transactions, dependency graph, conflicts | admit, replace by fee, evict, build templates, update on block | no two conflicting members, parents before children |
| Miner, consensus runtime, event loop (`node/miner`, `node/node`) | current round, batches, announced tip, one synchronisation permit | start and cancel rounds, submit blocks, publish transitions, announce | a new tip reaches pool, miner and peers; mining goes on |
| Synchronisation (`node/node/sync.rs`, `ibd.rs`, `lca.rs`) | progress of a peer session | search of the common ancestor, batches of blocks, retries | ends at the peer's chain, or gives up; a success means the offered work |
| Network (`network`) | connected peers, own signed services, waiting fetches | connect, ping, identify, exchange of services, fetch, publish | the map follows the connections; callers are answered; services are learned |
| Servers (`node/http`, `node/grpc.rs`) | readiness flags | submit a payment, snapshot reads | nothing is served after a failure; a read sees one state |
| Wallet, chain generator, codecs | none shared | clients and pure functions | out of scope, see section 5 |

Interactions. The consensus runtime is the only caller of `on_block`; the engine is
the only writer of the database. Blocks come from announcements, synchronisation
and the miner. The verdict of `on_block` carries the attached and detached blocks,
from which mempool, miner and announcements are updated. Servers and the mempool
read snapshots.

Hard behaviours: reorganizations that run through an overlay and then have to agree
with storage and memory; the process ending between any two of those steps; a
database that fails in the middle of a handler; blocks in any order, again and again;
transactions and outputs that exist on both branches; ties; forgotten forks after a
restart; searches and announcements that race with a moving tip. `PROJECT.json`
lists each as a hazard at the line where it bites.

## 2. Modules

| Module | Models | Checked by |
| --- | --- | --- |
| `BlockTree`, `ConsensusEngine` | engine, overlay, tables, validator | `MCConsensusEngine`, `BlockTreeProofs`, `ConsensusEngineProofs` |
| `CanonicalChain` | abstract promise of the engine | refined by `ConsensusEngine` |
| `StryiStorage` | RocksDB backend under threads, faults and power loss | `MCStryiStorage`, `StryiStorageProofs` |
| `MemoryStorage` | in-memory backend, the storage contract | refined by `StryiStorage` |
| `Mempool` | pool, dependency graph, replacement, templates | `MCMempool`, `MempoolProofs` |
| `NodeRuntime` | composition of event loop, consensus runtime, miner, servers, synchronisation task and shutdown in one node | `MCNodeRuntime`, `NodeRuntimeProofs` |
| `PeerSync` | start-up and synchronisation with peers | `MCPeerSync`, `PeerSyncProofs` |
| `NetworkManager` | network managers of several nodes | `MCNetworkManager`, `NetworkManagerProofs` |
| `SumProofs` | no code: the laws of finite sums that the proofs about value, work and fees share | itself |

What one module shows is the abstraction the next one uses. `ConsensusEngine` takes a
database update to be one atomic step, which `StryiStorage` shows; `NodeRuntime` and
`PeerSync` take `on_block` to be one step from a block to a verdict, a tip and the
fork tips, which `ConsensusEngine` shows; `NodeRuntime` takes the pool to be a set of
payments without conflicts and the peer's chain to stand still, which are the subjects
of `Mempool` and `PeerSync`. In these abstractions a block is the sequence of labels
from genesis to the block, so the parent is the front of the sequence and its length
the height.

### BlockTree

The blocks and transactions that exist, as constants. Blocks, transactions and
outputs are named by their digests, so every attribute is a function of the name and
a table from outpoints to outputs is a set of outpoints. The operators are the pure
code: `BlockUndo`, `apply_block` and `rewind_block` (the UTXO processor),
`block_subsidy`, and the validator, evaluated against a branch view of heights and
outputs: `validate` is `verify_hash_threshold` (through `next_hash_threshold`),
`validate_block_structure` (with `ensure_unique_inputs`) and `validate_transactions`
(`get_external_dependencies`, `resolve_utxo`, `validate_payment_tx`,
`calculate_total_fees`, `reward_rule`).

Checks that read only the block and data it commits to by hash (proof of work, merkle
root, median time, layout, signatures, zero threshold) have the same result on every
node and are the constant set `BadBlocks`. The timestamp limit depends on the clock:
`FutureDated` blocks are sometimes refused. `Misshapen` blocks carry a genesis marker
where none may be. Values have the width `MaxU64`.

`BranchWork`, `FirstOf`, `LedgerAt` and `ValidBlocks` are reference functions: the
result of summing, looking up, replaying and validating a branch from genesis. They
are constants fixed by their recurrences (`ReferenceAssumption`), which is all the
proofs use of them; the MC module computes them and TLC evaluates the assumptions on
every run.

### ConsensusEngine

| Variables | Code |
| --- | --- |
| `heights`, `block_indexes`, `undo`, `utxo`, `transaction_indexes`, `chain_state` | tables of the database |
| `index`, `tip` | `ChainIndex` |
| `forks` | `ForkRegistry` |
| `pc`, `current`, `overlay` | the handler in progress and its `ForkDbOverlay` |
| `verdict` | what the last `on_block` returned |

| Actions | Code |
| --- | --- |
| `stage_genesis` | opening checks of the backend, then the genesis transition |
| `build_chain_index` | `StryiConsensusEngine::new` |
| `RejectMalformed`, `handle_known`, `DropOrphan` | `on_block` up to the classification |
| `RejectExtension`, `handle_extend_canonical` | validation and append, the commit and the index together |
| `BeginFork` | both fork handlers up to the creation of the overlay |
| `RewindBlock`, `ReplayBlock` | one iteration of the loops over the overlay |
| `RejectForkBlock`, `BufferFork`, `PrepareReorg` | the rest of the fork handlers |
| `CommitReorg` | `stage_reorganization`, then index, tip and fork registry |
| `StorageFault` | a read or commit fails: nothing is applied, the handle is dead |
| `Crash` | the process ends; tables stay, memory is lost |

`on_block` runs alone and readers see only committed data, so a handler that makes
one commit is one action. The fork handlers are split at every block they rewind or
replay, so a crash or fault can hit any point of them. A commit that took effect and
is followed by a crash before the in-memory switch is the committing action followed
by `Crash`, since memory is lost in both. Comparisons by which the code detects
corruption lead to `pc = "error"` when they fail.

### CanonicalChain

Two variables, chain and ledger, that change in one step to a valid chain with
strictly more work and the ledger of that chain. The refinement mapping takes the
chain to `heights` and the ledger to `utxo`.

### StryiStorage and MemoryStorage

`log` is the sequence of committed database states (canonical chain, block bodies,
utxo table, addresses table); its last element is the database and `disk` counts how
many would survive a power failure. `failed`, `lock`, `poisoned` and `handler` are the
fields of `StorageInner`; `w` and `r` hold the update or the query each thread is in.

An update is split where another thread can come between: waiting for the lock
(`Lock`, `LockRefused`), the checks of the transition (`Stage`), one step per output
removed or put (`RemoveUtxo`, `PutUtxo`) with the address sets kept locally and written
at the end of the batch (`EndRemove`, `EndPut`), the last health check (`CheckHealth`),
`Commit`, and the end of a failed one (`NotifyWriter`, `Leave`). A query takes a snapshot
(`Read`), reads the tip, the block of every height and the outputs of an address: it is
a client of one view that makes the calls which the handlers of the servers make one or
two at a time (`get_balance`, `get_block`, `height_range_hashes`). The
environment is `BackendFails`, `ReadFails`, `Panic`, `ProcessDies`, `PowerFails` and
`WriteBack` (the operating system writing the log out). The outputs that a transition
removes and puts are constants here, since `ConsensusEngine` computes them.

`MemoryStorage` has the three tables without an address index and one action per
transition. The mapping takes its data to the last committed state.

### Mempool

`storage` is `TransactionStorage` with both indexes, `tracker` the dependency graph
(the list of incoming edges per node, in insertion order), `utxos` what the lookup
finds, `exported` a snapshot. Every operation holds the write lock and is one action:
`add_transaction`, `remove_transaction`, `update_on_block`, `cleanup_expired`,
`get_sync_state`, `restore_state`. `LedgerMoves` is the canonical chain, which is not
under that lock. Fees, required fees and their percentages follow the code, with the
width of a `u64` as the constant `U64`: sums saturate where the code says so and wrap
where it uses `sum()` (a release build; a debug build panics and changes nothing). The
percentages are computed in `f64` by the code and exactly here, which is the same below
2^53. `actual_fee` is the fee a payment is *credited* with, the larger of the policy's
and of what its inputs leave. `restore_state` decodes any bytes; nothing in the repository
calls it, and here it gets a snapshot of `get_sync_state`, with the order of a hash map
as any order. `get_with_ancestors` and
`get_best_transactions` are operators; where the code puts packages of equal rate in the
topological order, a ranking may have them in any order. `main` configures `RbfPolicy::disabled`, and
replacement is modelled as the library implements it.

### NodeRuntime

| Variables | Code |
| --- | --- |
| `tip`, `forks`, `worker` | engine behind its lock, and the blocking worker that holds it |
| `pool`, `adder` | mempool, and the admission that holds its write lock |
| `loop`, `lastAnnounced`, `netEvents` | event loop, announced tip, broadcast channel with its lag |
| `sync` | the peer synchronisation task, which holds the permit |
| `miner`, `pow`, `mined`, `tipUnread` | miner loop, proof-of-work tasks, channel of mined blocks, tip updates |
| `failed`, `handler`, `cancel`, `ready`, `main` | storage failure and its handler, cancellation token, readiness of the servers, `main` |

An action is the code between two points at which another task can run: an await, a
lock or a channel. The engine commits (`apply_block_batch`), then the pool is updated
(`update_pool`), then the tip is sent to the miner (`send_tip_update`): the three are
separate because others see the state in between. The worker looks at the token and at
the storage's health when it takes its next block (`BeginBlock`), and the commit may come
after either has changed; an error of the engine (`WorkerFails`) marks the storage failed
only if it is fatal. `Announce` is the manager's `PublishChainTip`: gossipsub takes the tip
or refuses it, and the loop remembers it as announced in both cases, on registration, at
the heartbeat and after a reorganization. `validate_transactions` looks outputs
up before the block only, as the code does (the map of outputs created in the block stays
empty), so a candidate with a payment and its parent is refused.

### PeerSync

`config`, `genesis`, `tip` and `forks` are the local side, `remote` the chains of the
peers, `task` the synchronisation with its place in the code, its binary search and its
batch. Start-up is `OpenStorage` (the checks of `main`), `bootstrap` or `synchronize`,
then `query_sync_peers`, `CheckPeer`, `NoCandidate`, `PickBestPeer`, `ensure_genesis`.
A running node starts at `ChainTipAnnounced` with `connect_sync_peer`,
`connect_fallback_sync_peer`, `request_chain_info`, `CompareGenesis`, `ReadTip`. Both go
on with `CompareTip`, the search (`ReadLocalBlock`, `ProbeRemoteBlock`, `LcaFound`) and
the download. Each request is one step answered from one snapshot; between two requests
the peers and, in a running node, the local chain move. A request may be answered, fail
(`RequestFails`), be answered with nothing, which the code takes for the end and reports
as success (`EmptyBatch`), or wait for ever. A node may be told to stop (`Cancel`): the
task then returns `Ok` from wherever it waits (`Cancelled`), and a batch that the stop cuts
short is counted in full (`apply_blocks`). With a configured limit of 0 the client still
takes one block, as it pushes before it checks (`Limit`). `StorageFails` is an error of
`build_consensus_engine` or of a read. `offered` and `excused` are history variables: the
chains the task was told of, and which of the events happened after which a reported
success says nothing: a reorganisation on either side, a block dropped in the middle of a
fork, an empty answer, the stop of the node.

`start_mode` resolves `Auto` by whether a genesis block is *configured*, as
`node/main.rs:246-252` does. `node/cli.rs:19` documents it by whether one is *stored* (and
then the other way round: no stored genesis, bootstrap). `GenesisAgrees` holds under
either reading.

### NetworkManager

Per node the map of connected peers (key, services, ping failures), the registry of own
services, and the mempool fetch. libp2p is external and modelled from its use: two nodes
may have several connections (`open`), each end hears of opening and closing on its own
(`seen`), requests and responses overtake each other, a request may fail at the
requester. The actions are the arms of `process_event` and the commands of `run_loop`.
The node never sends `FetchMempoolState`; the model keeps the command as the library
offers it.

## 3. Properties and runs

### Engine

| Property | States |
| --- | --- |
| `TypeOK` | types of all state |
| `SelfChecksHold` | no corruption or invalid-transition error is ever returned on a database the engine wrote itself, restarts included |
| `LedgerIsReplay` | stored chain is valid; outputs and work are those of replaying it from genesis |
| `IndexMatchesStorage` | the in-memory index never drifts from the committed chain |
| `ForkRegistrySound` | every fork is a valid branch off the chain, with its true work, not heavier than the chain |
| `OverlayShowsBranch` | the overlay shows the outputs after the block it stands at |
| `TxIndexCanonical` | exactly the transactions of canonical blocks are indexed, also those on both branches |
| `SupplyBounded` | no more value than the allocation and one subsidy per block |
| `WorkStrictlyIncreases` | the chain changes only for a heavier one |
| `TransitionDescribesDiff` | the reported transition is the difference of the two chains |
| `Implements` | refinement of `CanonicalChain` |
| `HandledBlockWeighs` | a valid fork block whose handling has begun is handled to the end, after which the chain has at least the work of its branch |

Runs:

- `engine` (`MCConsensusEngine.cfg`, about 56 000 states) checks all of them
  over fifteen blocks: two branches of three blocks that leave genesis, and a
  side block that ties. The branches share a payment and a coinbase transaction (the
  cases in which outputs and index entries are removed and put back); thresholds
  depend on the branch's own first block; and there are blocks that spend an output of
  the same block, repeat a payment, claim too much reward, skip a height, use another
  branch's threshold, fail a header check, carry a genesis marker or lie in the
  future. Every order of delivery, faults and restarts at every step. Three blocks
  per branch are the smallest size at which a fork is created, extended, beaten again
  and won by several blocks at once, and the subsidy decays in between.
- `midfork` (`MCMidFork.cfg`) shows a disagreement between code and documentation: a
  block whose parent is an *inner* block of a registered fork is classified as an
  orphan and dropped, because `classify_block` looks parents up among fork tips
  only. The enum documents that case as an unknown parent. A consequence is that while the
  node keeps running the lighter fork's blocks stay known, so the heavier branch that
  leaves it in the middle is not connected. A restart, which empties the registry, or
  a reorganization that drops the fork ends the situation.
- `repeat` (`MCRepeat.cfg`) shows another: `rewind_block` does not restore the outputs
  before a block that repeats a payment without inputs, because the output it removes
  was there already. No validator refuses such a payment.

Bounds: each tree is finite and every state of it is explored, so there are no
counters to bound. The tree is the only bound; `MaxU64 = 15` is above every sum.

Fairness. `HandledBlockWeighs` needs `OverlayStep` to be weakly fair: `on_block` is
straight synchronous code on a blocking thread. Nothing is assumed of the network: that
the heaviest branch of all is adopted would need it to be offered, and the code does not
promise that (a tip is published once, see `announce`, and an announcement that meets a
running synchronisation is dropped).

### Storage

| Property | States |
| --- | --- |
| `AddressIndexExact` | in every committed state the addresses table lists an output exactly under its owner |
| `HealthyUnlessFault` | the storage never reports a corruption of its own making |
| `ReadsOneState` | a finished query saw the chain and the outputs of one committed state |
| `StopsWriting` | after a failure at most the one update past its last check is committed |
| `ImplementsMemory` | every step is a transition of the in-memory backend or changes nothing; only a power failure takes one back |
| `FailureHeard` | a registered failure handler runs, in whatever order registration and failure meet |

`storage` (about 235 000 states) has two writers that race for the lock with
transitions prepared for the same head, one of them a reorganization that moves outputs
back, and one reader; two commits, one end of the process. Two commits are needed for a
stale transition and for a query that spans one. Fairness: a thread inside
`mark_failed` or `set_failure_handler` goes on; nothing else.

`durability` shows that a power failure can take back reported transitions: commits use
`set_sync(false)`, where `TABLES.md` speaks of a WAL fsync. The engine's guarantees are
not affected (any prefix of the commits is a consistent state, and `engine` restarts
from every one), but a transition that peers already know may be gone.

### Mempool

| Property | States |
| --- | --- |
| `IndexesExact` | transactions, both indexes and the graph list the same payments |
| `ConflictFree` | no two pooled payments spend the same output |
| `ReplacementOutbids` | a replacement is credited with more than all it pushes out together, descendants included, unless their fees exhaust a `u64` |
| `TemplateComplete` | a template has no duplicates, keeps the limit, has all tracked ancestors, and takes everything when there is room |

`mempool` (about 60 000 states) has a payment with two children, one that replaces it,
one that conflicts with two at once, one with a wrong signer and a coinbase; a pool of
three, so that it is full and replaced at once; one that pays nothing (`f`) and one whose
outputs exceed the width of its sum (`w`).

Four things the model shows that differ from what the repository says of the pool; no
run states them:

- with a diamond of four payments `get_with_ancestors` is not always parents first, as its
  comment says (`dependencies.rs:47`), since the stack may reach the common ancestor by one
  branch before it visits the other; a block with a payment and its parent is refused in
  any order;
- a child admitted on a confirmed parent has no edge from it when a
  reorganization brings the parent back into the pool, so `remove_transaction` of the
  parent leaves the child behind, against `mempool/mod.rs:125`; a restored pool may miss edges too;
- the fee of the policy is said to be required, but `actual_fee` only credits it;
  a payment that pays nothing is admitted, taken into templates, and may replace one that
  pays. `ReplacementOutbids` is about the credit;
- a payment that spends an output of the pool and conflicts with an ancestor of
  that output pushes its own parent out and stays, so a template is not in a valid
  inclusion order, even over a chain that stands still.

### Node

| Property | States |
| --- | --- |
| `StaleRoundNoticed` | a round on an old parent is cancelled, or the news is on its way, also after a lag |
| `PoolIsUnconfirmed` | the pool holds no payment of the canonical chain except what the worker is about to take out, although admission reads a snapshot before it inserts |
| `ReadyOnlyWhileHealthy` | after the failure handler the servers are not ready, in any order with the start of the loop |
| `ShutdownCompletes` | a cancelled node ends: no cycle of locks, full channels and joins |
| `TipEventuallyOffered` | every tip the node settles on is offered to gossipsub, whoever brought it |

`node` (about 920 000 states): one payment, a gossiped block and an announced branch of
two blocks that confirms the payment, two messages, two mining rounds, channels of one
place so that lag and back-pressure happen. It checks the invariants; `shutdown`
(about 85 000 states) checks the two liveness properties with one message. Fairness: every
task runs (weak fairness of each task's steps). `select!` chooses among ready branches at
random, so the miner sees its cancellation even if other branches are always ready (strong
fairness of `MinerCancelled`). A proof-of-work task need not find a nonce, but polls its
token. `TipEventuallyOffered` assumes nothing of gossipsub.

`announce` shows what that leaves open. An announcement is said to be broadcast on
start-up, periodically and on reorganizations; a tip that gossipsub refuses, as it does
while no peer has subscribed, is remembered as announced and not published again. The
specification adds that gossipsub takes an announcement it is offered again and again.

`minerstall` shows that the miner can stop for good: a finished round stays the current
one until a tip update arrives, and none comes when the candidate was refused, which the
template causes by pairing a payment with its parent.

### Synchronisation

| Property | States |
| --- | --- |
| `SearchSound` | the binary search brackets the common ancestor while both chains only grow |
| `SyncAdopts` | a synchronisation that reports success leaves at least the work of every chain offered, unless a chain was reorganised, a fork left in its middle, an answer empty or the node stopped meanwhile |
| `GenesisAgrees` | a serving node holds the configured genesis, or a peer's when told to join |
| `SyncEnds` | a synchronisation or start-up ends, unless it waits for ever for one answer in a node that is not stopped |

`sync` (about 1 100 000 states): eight starts (empty and initialised storage in every
mode, wrong identity, other genesis, invalid genesis), two peers of which one has another
genesis, chains up to height 3 with blocks of work 1 and 2 so that the heavier chain may
be the shorter, two moves of any chain, batches of 2 and 3. The explicit `Join` mode
with an empty storage does not look at a configured genesis block and takes the peer's
without a prompt; `GenesisAgrees` states that as the code has it.

Fairness, for `SyncEnds`: the steps the
task takes by itself (`LocalStep`). The code sets no deadline on requests, so no answer is
assumed, and a silent peer holds the start-up, or the only permit of a running node, until
the node is stopped; the property says that nothing else does.

### Network

| Property | States |
| --- | --- |
| `PeersAreConnected` | the peer map holds exactly the peers with a connection, also with two connections of which one closes |
| `FetchAnswered` | a mempool fetch is answered, fails, or ends with the loop |
| `ServicesLearned` | a peer that stays connected does not stay ignorant of a service, although an old list may replace a newer one |

`network` (about 67 000 states): two nodes, two connections, one service, two messages in
flight at a time. Fairness: each run loop goes on (weak); requests
may time out, but not for ever while the connection stays open, identify repeats, and
who misses a service asks again as `connect_sync_peer` does (strong).

Where a run says `CHECK_DEADLOCK FALSE` the system may really stop: an exited start-up,
a failed storage, nodes that are cancelled and out of connections.

Each property has a mutant, a changed copy of a definition beside the original, with
which TLC reports it violated.

## 4. Proofs

Eight modules hold proofs, checked for every value of the constants that satisfies the
assumptions of the component's module. TLC evaluates each assumption on the instance
of its run.

| Module | Proved | Only model-checked |
| --- | --- | --- |
| `SumProofs` | laws of sums over finite sets | |
| `BlockTreeProofs` | `TransactionsOnce`, `FreshOutputs`, `SupplyOfBranch` | |
| `ConsensusEngineProofs` | `TypeOK`, `SelfChecksHold`, `LedgerIsReplay`, `IndexMatchesStorage`, `ForkRegistrySound`, `OverlayShowsBranch`, `TxIndexCanonical`, `WorkStrictlyIncreases`, `TransitionDescribesDiff`, `SupplyBounded`, `Implements` | `HandledBlockWeighs` |
| `StryiStorageProofs` | `TypeOK`, `AddressIndexExact`, `HealthyUnlessFault`, `ReadsOneState`, `StopsWriting`, `ImplementsMemory` | `FailureHeard` |
| `MempoolProofs` | `TypeOK`, `IndexesExact`, `ConflictFree`, `ReplacementOutbids`, `TemplateComplete` | |
| `NodeRuntimeProofs` | `TypeOK`, `PoolIsUnconfirmed`, `StaleRoundNoticed`, `ReadyOnlyWhileHealthy` | `ShutdownCompletes`, `TipEventuallyOffered` |
| `PeerSyncProofs` | `TypeOK`, `SearchSound`, `GenesisAgrees`, `SyncAdopts` | `SyncEnds` |
| `NetworkManagerProofs` | `TypeOK`, `PeersAreConnected` | `FetchAnswered`, `ServicesLearned` |

In each module the inductive invariant is `IInv`, there is one lemma per action or per
group of actions, and `Invariance` (`Invariant` in the engine) joins them.

### Sums

Values, work and fees are added up with the library's `MapThenSumSet`, a recursive
function on the subsets of a set. `SumProofs` shows first that this function is well
defined (a smallest set on which it would not be leads to a contradiction), so it obeys
its recurrence, and then, again by smallest counterexample, what the proofs need: a sum
over natural numbers is a natural number, splits over disjoint sets, grows with the set,
and over the union of a family is at most the sum of its members' sums. It also has the
two facts that stand in for induction: `Counting` (a set of numbers that contains 0 and
with every number the next) and `Iterates` (a function defined from its value at the
number before exists; the steps are given as a function, so the provers can instantiate
the lemma).

### Block tree and engine

Assumptions: `TreeAssumption` (parents, heights and positive work),
`TransactionAssumption` (types), `AmountAssumption` (amounts are natural numbers and a
block holds finitely many), `ReferenceAssumption` (recurrences of the reference
functions) and `DigestAssumption`. The last one is what naming by digest says: an
outpoint has one creator; in blocks whose structure is right a coinbase names its height
(`ensure_coinbase_context`) and is never a payment (`ensure_transaction_composition`);
genesis holds the allocation alone (`validate_genesis`).

Hypothesis: `NoRepeats`, no valid branch holds a payment *without inputs* twice. The code
does not see to it, and without it the ledger after a rewind is wrong (run `repeat`), so it
is not an assumption of the model but a hypothesis of the theorems that need it: all of
the engine's rest on it through the invariant, `FreshOutputs` takes it too, and
`TransactionsOnce` takes it for its one branch (`InputlessOnce`). `SupplyOfBranch` holds
without it.

`TransactionsOnce`: a transaction occurs once on a valid branch. Two coinbases differ in
height. A payment with inputs that occurs twice spends an input twice, so this input was created
twice, by one transaction that occurs twice and again lower on the branch; the
repetition that starts lowest is therefore impossible. Induction is by least
counterexample (`LeastNumber`, from the well-foundedness of the natural numbers).
`FreshOutputs` follows: a valid block creates nothing that is unspent on its branch.
Without it neither undo records nor removal from the transaction index would be exact.

`SupplyOfBranch` bounds the value of the outputs along a valid branch by the allocation
and one subsidy per block. The payments of a block spend different outputs
(`ensure_unique_inputs`), all of them unspent before the block, and each makes no more
than it spends (`validate_payment_tx`); what they leave is the fees, and the coinbase
makes no more than fees and subsidy (`reward_rule`). So the outputs removed are worth at
least those added less one subsidy. `SupplyBounded` follows for the engine from
`LedgerIsReplay` and the validity of the canonical chain.

None of the engine's properties is inductive. A ledger can only be kept correct by a
reorganization if the undo records of the detached blocks are correct (`RecordsInv`),
if the fork's blocks were valid on their own branch when they were registered
(`ForkInv`), and if the overlay was built for the present head (`OverlayInv`,
`CurrentInv`). `IInv` joins these with the type invariant and `SelfChecksHold`, and
distinguishes the empty database from one that has a chain. The lemmas about the block
tree carry the mathematics:

- `LedgerStep`: on a valid branch, rewinding a block's undo record inverts it;
- `ValidExtension`: a block that passes `validate` against the view of a valid branch
  is valid on that branch, anchor and ledger included;
- `BranchAppend`, `SwitchedChain`: a fork plus a block is a fork; a chain cut at the
  ancestor and continued by a fork is a chain;
- `ReorgReady`: when both loops are done every comparison of `stage_reorganization`
  passes, which is what makes `SelfChecksHold` inductive;
- `BestIsLast`: work increases along a chain, so the abstract best block is the tip;
- `ExtensionIndexes`, `ReorgIndexes`: entries of detached blocks are removed and those
  of attached blocks put; as a transaction is in one block of each chain only, what is
  left is the index of the new chain, whichever transactions the branches share.

### Storage

`TransitionsAssumption` types the transitions and makes the writers finite. `IInv` says of
every update in progress what it has staged over the committed state (`Staged`: which
part of the outputs is removed or put, and that the address sets kept locally, with the
addresses table for all others, are the owners of the staged outputs), and of every
query what it has read of its snapshot (`Asked`). The lock makes the database stand still
under an update, so the staged state is still based on the last commit when it is
written; `StopsWriting` needs that at most one writer is past its last check, and
`ImplementsMemory` that the staged state at the commit is the in-memory backend's result.

### Mempool

`PoolAssumption` gives each outpoint one creator. `IInv` states exact indexes of the pool
and also of the last exported snapshot, which `restore_state` takes over as it is, and
that the nodes of the graph are the pooled payments. `ConflictFree` follows from exact
indexes, since the spending index has one entry per outpoint. The proof rests on the
fact that the conflicts an admission finds are among what it removes, for any policy.

`ReplacementOutbids`: what leaves the pool when a payment is admitted are its conflicts and
their descendants, and every one of them is counted for at least one conflict when the
required fee is added up (`ChargeCovers`, `ConflictsCharged`); a descendant of two
conflicts is counted twice, which only raises the sum. The policy asks for no less than
that sum and the base delta (`RequiredGrows`), and five per cent more for every conflict
makes it strictly more (`PercentGrows`); the saturation of the requirement is covered by
the condition on the sum. This needs `AmountAssumption` (amounts and
costs are natural numbers), `ChargeAssumption` (replacement is disabled, or the base
delta and the minimum fee are not both zero: with both at zero a payment that
is credited nothing could be replaced by another one) and that the pool is finite (`FiniteInv`).

`TemplateComplete` needs that edges come from tracked transactions (`LinkInv`). While
`gather_with_ancestors` runs, what it has visited or still has on its stack are ancestors,
and the parents of the visited ones are among them (`Searched`); every turn takes one off
the entries of the stack plus the edges not yet followed (`Left`), so the search ends
within the turns it is given (`TurnKeeps`). The result is therefore the smallest set with
the transaction and the parents of all its members (`Ancestors`), and ancestors of
ancestors are ancestors. A package then adds exactly what is missing, and since a list
without duplicates is no longer than the pool, a limit of that size never leaves one out
(`PickKeeps`).

### Node

`RuntimeAssumption`: types, and channels have a place. `PoolIsUnconfirmed` has the
hypothesis `PaymentsSpend`, every payment has an input: one without could be admitted
again after it was confirmed, which no validator refuses. It needs
that no chain confirms a payment twice or spends an output twice (`WellSpent`, for the
tip and all forks), that the children of a payment the worker is about to take out go
with it (`SpentTogether`), and the order of the tasks: the loop waits for its admission
and its worker (`OrderInv`). `StaleRoundNoticed` needs that there is no current round
while a candidate is built (`MinerInv`). Well-spent branches come from
`validate_transactions`, again by least counterexample along the blocks of a branch.

### Synchronisation

`SyncAssumption`: a stored chain has a valid genesis, the peer's limit is positive. `SearchSound`
needs that the chains the task started from are prefixes of the present ones unless the
history variables say otherwise (`StartInv`, `TargetInv`), that heights below `low`
agree and above `high` differ (`Bracketed`), and that the block read before a probe is
still at its height. `GenesisAgrees` needs where a node without a genesis can be
(`GenesisInv`). That applying a batch keeps the views well formed is proved by least
counterexample over the blocks of the batch.

`SyncAdopts` needs a second invariant (`AdoptInv`) over the first: no fork is heavier
than the tip (`ForksLight`); while the task aims at a chain no offer was heavier
(`OfferInv`); a search that meets no common block starts from genesis (`FoundInv`); and
until one of the five excused events happens the peer still has the chain it offered, the
block below the next one to fetch is known to the engine, and a batch holds the peer's
blocks from there on (`FetchInv`). Applying a batch makes all its blocks known
(`BatchKnows`) and leaves no fork heavier than the tip (`BatchLight`), so when the last
batch is applied the target lies on the tip's chain or on a fork, and in both cases the
tip has at least its work.

### Network

`NetworkAssumption`: finitely many connections, each between two nodes. `PeersAreConnected`
is inductive with requests on their own connection; the bound on ping failures in
`TypeOK` needs a potential: each failure past the limit closes a connection, which is
never reopened, so failures are bounded by the limit plus the closed connections
(`FailuresInv`).

### What is left to TLC

Liveness under fairness and `ENABLED` are out of the prover's reach: `HandledBlockWeighs`,
`FailureHeard`, `ShutdownCompletes`, `TipEventuallyOffered`, `SyncEnds`,
`FetchAnswered` and `ServicesLearned`. Every safety property that a passing run checks is
proved.

## 5. Not modelled

- ASERT arithmetic, and overflow of 256-bit work and 64-bit heights: the numbers exceed
  TLC's 32-bit integers. Work is a positive number, and the threshold check is modelled
  by the branch it reads.
- Cryptography and encodings: digests are injective, a signature is an attribute of a
  payment, a service record names its owner.
- The configuration of libp2p: transports, discovery, gossip scores.
- Servers beyond the readiness gate, the submission and snapshot reads: formats, TLS,
  query parameters. The lookup of a payment reads the storage and then the pool, so a
  payment confirmed in between is reported as unknown once; no document promises more.
- Wallet and chain generator: a client and a tool without shared state.
- What gossip does with a published block or tip; `estimate_fee` and `is_fee_sufficient`,
  which the node does not call.

## 6. Plan

All components of a running node are modelled, and every safety property the passing runs
check is proved. What is left:

1. The hypotheses `NoRepeats` and `PaymentsSpend` go once the validators refuse a payment
   without inputs.
2. The liveness properties, should a prover for fairness and `ENABLED` become available;
   the invariants they rest on are proved.
