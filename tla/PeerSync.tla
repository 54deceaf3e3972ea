------------------------------ MODULE PeerSync ------------------------------
(***************************************************************************)
(* How a node starts and copies the chain of a peer: main() checks the     *)
(* configuration against the storage, synchronize() runs before a joining  *)
(* node serves, and sync_from_peer() when a running node hears of a        *)
(* heavier chain.  Every request to the peer is answered from one snapshot *)
(* of its storage, but the task makes many of them, and between any two    *)
(* the chain of the peer may grow or be reorganised; in a running node the *)
(* local chain moves as well.                                              *)
(*                                                                         *)
(* A block is the sequence of labels from the first block after genesis to *)
(* the block itself, so its parent is Front(b) and its height Len(b).  The *)
(* hash of every genesis block is the same empty hash.                     *)
(***************************************************************************)
EXTENDS Integers, Sequences, FiniteSets, SequencesExt, FiniteSetsExt

CONSTANTS
  Peers, Labels,
  Weight,        \* work of a block with a given label
  GenesisOf,     \* genesis block of each peer
  Compatible,    \* peers with our chain name and protocol version
  NoGenesis,     \* storage without a genesis block, or none configured
  ValidGenesis,  \* genesis blocks that validate_genesis accepts
  LocalStarts,   \* initial local storage (genesis block, canonical tip) and
                 \* configuration: start mode, configured genesis block, whether
                 \* the configured chain identity is the stored one, and
                 \* auto_accept_genesis
  RemoteStarts,  \* initial chains of the peers
  MaxHeight,     \* bound: highest block
  MaxMoves,      \* bound: moves of the peers and of the local chain
  MaxSyncs,      \* bound: synchronisations of the running node
  LocalBatch,    \* our max_blocks_range_per_request
  PeerBatch,     \* the peer's; with a limit of 0 it refuses every request
  MaxDiscovery,  \* PEER_DISCOVERY_MAX_RETRIES, 30 in the code
  MaxConnects    \* SYNC_PEER_CONNECT_MAX_RETRIES, 10 in the code

\* Branches from genesis within the bound.
Chains == UNION {[1..n -> Labels] : n \in 0..MaxHeight}

\* A stored chain has a genesis block, which was validated when it was saved.
ASSUME SyncAssumption ==
  /\ Peers # {} /\ MaxHeight \in Nat
  /\ NoGenesis \notin ValidGenesis
  /\ RemoteStarts \subseteq Chains
  /\ \A l \in LocalStarts :
       /\ l.config.mode \in {"Auto", "Bootstrap", "Join"}
       /\ l.genesis \in ValidGenesis \cup {NoGenesis} /\ l.tip \in Chains
       /\ l.genesis = NoGenesis => l.tip = <<>>
  /\ Weight \in [Labels -> Nat \ {0}]
  /\ Compatible \subseteq Peers
  /\ LocalBatch \in Nat /\ PeerBatch \in Nat \ {0}
  /\ MaxDiscovery \in Nat \ {0} /\ MaxConnects \in Nat \ {0}

VARIABLES
  config,                \* configuration of the node
  genesis, tip, forks,   \* local storage and fork tree of the engine
  remote,                \* canonical chain of every peer
  phase,                 \* "startup", "running", "exited"
  task,                  \* the synchronisation
  offered,               \* history: chains the task was told of
  excused,               \* history: what happened to the chains meanwhile, and
                         \* why the task stopped before its end
  cancelled,             \* the node was told to stop
  moves, syncs

local == <<config, genesis, tip, forks>>
aside == <<cancelled, moves, syncs>>
vars == <<config, genesis, tip, forks, remote, phase, task, offered, excused, cancelled, moves, syncs>>

----------------------------------------------------------------------------
\* Chains and the engine

Work(b) == MapThenSumSet(LAMBDA i : Weight[b[i]], DOMAIN b)

AtHeight(c, h) == SubSeq(c, 1, h)

Ancestor(b, c) == LongestCommonPrefix({b, c})

\* The engine's view after block b; a block inside a registered fork, other
\* than its tip, is not found as a parent, and its child is dropped.
on_block(v, b) ==
  LET p == Front(b) IN
  CASE IsPrefix(b, v.tip) \/ (\E f \in v.forks : IsPrefix(b, f)) -> v
    [] OTHER ->
       IF ~IsPrefix(p, v.tip) /\ p \notin v.forks
         THEN [v EXCEPT !.midfork = @ \/ \E f \in v.forks : IsPrefix(p, f)]
       ELSE IF p = v.tip THEN [v EXCEPT !.tip = b]
       ELSE IF Work(b) > Work(v.tip)
         THEN [v EXCEPT !.tip = b, !.reorg = TRUE,
                        !.forks = {f \in @ \ {p} : Ancestor(f, b) = Ancestor(f, v.tip)}]
       ELSE [v EXCEPT !.forks = (@ \ {p}) \cup {b}]

View == [tip |-> tip, forks |-> forks, midfork |-> FALSE, reorg |-> FALSE]

----------------------------------------------------------------------------
NoTask == [pc |-> "idle", peer |-> CHOOSE p \in Peers : TRUE, attempt |-> 1, ask |-> {},
           target |-> <<>>, start |-> <<>>, low |-> 0, high |-> 0, best |-> 0,
           seen |-> <<>>, next |-> 0, batch |-> <<>>]

Init ==
  /\ \E l \in LocalStarts : config = l.config /\ genesis = l.genesis /\ tip = l.tip
  /\ forks = {}
  /\ remote \in [Peers -> RemoteStarts]
  /\ phase = "startup"
  /\ task = [NoTask EXCEPT !.pc = "open"]
  /\ offered = {} /\ excused = {}
  /\ cancelled = FALSE /\ moves = 0 /\ syncs = 0

Ended == task.pc \in {"idle", "done", "failed"}

\* An error ends the process during startup, only the task afterwards.
Fail == /\ task' = [task EXCEPT !.pc = "failed"]
        /\ phase' = IF phase = "startup" THEN "exited" ELSE phase

Goto(pc) == task' = [task EXCEPT !.pc = pc]

\* The task returns Ok; after the startup the node serves.
Succeed == Goto("done") /\ phase' = IF phase = "startup" THEN "running" ELSE phase

----------------------------------------------------------------------------
\* Startup: the configuration against the storage

start_mode ==
  IF config.mode # "Auto" THEN config.mode
  ELSE IF config.genesis # NoGenesis THEN "Bootstrap" ELSE "Join"

Initialized == genesis # NoGenesis

validate_genesis(g) == g \in ValidGenesis

\* What is typed at the prompt; not asked with auto_accept_genesis.
confirm_genesis(accept) == IF accept THEN {TRUE} ELSE BOOLEAN

\* Mutant: an initialised storage is taken for the chain that was asked for.
save_unverified(g, accept) ==
  IF Initialized THEN {genesis}
  ELSE {IF yes THEN g ELSE NoGenesis : yes \in confirm_genesis(accept)}

\* The genesis blocks the storage may hold afterwards; NoGenesis: an error.
confirm_and_save(g, accept) ==
  CASE ~validate_genesis(g) -> {NoGenesis}
    [] validate_genesis(g) /\ Initialized -> {IF g = genesis THEN g ELSE NoGenesis}
    [] OTHER -> {IF yes THEN g ELSE NoGenesis : yes \in confirm_genesis(accept)}

Saves(g, accept, pc) ==
  \E saved \in confirm_and_save(g, accept) :
    IF saved = NoGenesis
      THEN Fail /\ UNCHANGED genesis
      ELSE genesis' = saved /\ Goto(pc) /\ UNCHANGED phase

\* main: a stored chain has to be the configured one, and a configured genesis
\* block its genesis; a bootstrap node without a chain has to save one.  A joining
\* node without a chain does not look at its configured genesis block.
OpenStorage ==
  /\ task.pc = "open"
  /\ CASE Initialized /\ ~config.identity -> Fail /\ UNCHANGED genesis
       [] Initialized /\ config.identity /\ config.genesis = NoGenesis ->
            Goto("connected") /\ UNCHANGED <<genesis, phase>>
       [] Initialized /\ config.identity /\ config.genesis # NoGenesis ->
            Saves(config.genesis, config.accept, "connected")
       [] ~Initialized /\ start_mode = "Bootstrap" ->
            IF config.genesis = NoGenesis
              THEN Fail /\ UNCHANGED genesis
              ELSE Saves(config.genesis, config.accept, "connected")
       [] ~Initialized /\ start_mode = "Join" -> Goto("connected") /\ UNCHANGED <<genesis, phase>>
  /\ UNCHANGED <<config, tip, forks, remote, offered, excused, aside>>

\* The node is the source of its chain: no peer is asked.
bootstrap ==
  /\ task.pc = "connected" /\ start_mode = "Bootstrap"
  /\ Succeed
  /\ UNCHANGED <<local, remote, offered, excused, aside>>

\* The engine cannot be built from the storage, or the storage cannot be read.
StorageFails ==
  /\ task.pc \in {"connected", "genesis", "compare", "tip", "search"}
  /\ task.pc = "compare" => phase = "startup"
  /\ Fail
  /\ UNCHANGED <<local, remote, offered, excused, aside>>

synchronize ==
  /\ task.pc = "connected" /\ start_mode = "Join"
  /\ task' = [task EXCEPT !.pc = "query", !.start = tip]
  /\ UNCHANGED <<local, remote, phase, offered, excused, aside>>

----------------------------------------------------------------------------
\* Startup: find_best_peer, up to MaxDiscovery times

\* The peers that advertise the sync service at that moment.
query_sync_peers ==
  /\ task.pc = "query"
  /\ \E ps \in SUBSET Peers : task' = [task EXCEPT !.pc = "ask", !.ask = ps]
  /\ offered' = {}
  /\ UNCHANGED <<local, remote, phase, excused, aside>>

validate_peer_chain_invariants(p) == p \in Compatible

\* The peer is no candidate: no endpoint can be made of its record, it cannot be
\* reached, or it does not answer.
Unreachable(p) == UNCHANGED offered

\* One peer of the list, skipped unless it answers, is of our chain and has more
\* work than we have.
CheckPeer ==
  /\ task.pc = "ask"
  /\ \E p \in task.ask :
       /\ task' = [task EXCEPT !.ask = @ \ {p}]
       /\ \/ Unreachable(p)
          \/ /\ validate_peer_chain_invariants(p)
             /\ Work(remote[p]) > Work(tip)
             /\ offered' = offered \cup {[peer |-> p, chain |-> remote[p]]}
  /\ UNCHANGED <<local, remote, phase, excused, aside>>

NoCandidate ==
  /\ task.pc = "ask" /\ task.ask = {} /\ offered = {}
  /\ IF task.attempt >= MaxDiscovery
       THEN Fail
       ELSE /\ task' = [task EXCEPT !.pc = "query", !.attempt = @ + 1]
            /\ UNCHANGED phase
  /\ UNCHANGED <<local, remote, offered, excused, aside>>

\* Mutant: any candidate will do.
PickAnyPeer ==
  /\ task.pc = "ask" /\ task.ask = {}
  /\ \E c \in offered :
       task' = [task EXCEPT !.pc = "genesis", !.peer = c.peer, !.target = c.chain]
  /\ excused' = {}
  /\ UNCHANGED <<local, remote, phase, offered, aside>>

PickBestPeer ==
  /\ task.pc = "ask" /\ task.ask = {}
  /\ \E c \in offered :
       /\ \A d \in offered : Work(d.chain) <= Work(c.chain)
       /\ task' = [task EXCEPT !.pc = "genesis", !.peer = c.peer, !.target = c.chain]
       /\ excused' = IF IsPrefix(c.chain, remote[c.peer]) THEN {} ELSE {"remote"}
  /\ UNCHANGED <<local, remote, phase, offered, aside>>

\* A stored genesis block is compared with the peer's; without one the peer's is
\* saved, and nobody is asked.
ensure_genesis ==
  /\ phase = "startup" /\ task.pc = "genesis"
  /\ LET g == GenesisOf[task.peer] IN
     CASE ~Initialized -> Saves(g, TRUE, "compare")
       [] Initialized /\ g = genesis -> Goto("compare") /\ UNCHANGED <<genesis, phase>>
       [] Initialized /\ g # genesis -> Fail /\ UNCHANGED genesis
  /\ UNCHANGED <<config, tip, forks, remote, offered, excused, aside>>

----------------------------------------------------------------------------
\* Running: an announcement of a heavier chain starts the task

ChainTipAnnounced ==
  /\ phase = "running" /\ ~cancelled /\ Ended /\ syncs < MaxSyncs
  /\ \E p \in Peers : /\ Work(remote[p]) > Work(tip)
                      /\ task' = [NoTask EXCEPT !.pc = "connect", !.peer = p]
  /\ syncs' = syncs + 1
  /\ offered' = {} /\ excused' = {}
  /\ UNCHANGED <<local, remote, phase, cancelled, moves>>

\* The source peer is retried; its services are refreshed before each retry.
connect_sync_peer ==
  /\ task.pc = "connect"
  /\ \/ Goto("info")
     \/ task.attempt < MaxConnects /\ task' = [task EXCEPT !.attempt = @ + 1]
     \/ task.attempt >= MaxConnects /\ Goto("fallback")
  /\ UNCHANGED <<local, remote, phase, offered, excused, aside>>

connect_fallback_sync_peer ==
  /\ task.pc = "fallback"
  /\ \/ \E p \in Peers \ {task.peer} : task' = [task EXCEPT !.pc = "info", !.peer = p]
     \/ Goto("failed")
  /\ UNCHANGED <<local, remote, phase, offered, excused, aside>>

request_chain_info ==
  /\ task.pc = "info"
  /\ IF validate_peer_chain_invariants(task.peer)
       THEN /\ task' = [task EXCEPT !.pc = "genesis", !.target = remote[task.peer]]
            /\ offered' = {[peer |-> task.peer, chain |-> remote[task.peer]]}
       ELSE Goto("failed") /\ UNCHANGED offered
  /\ UNCHANGED <<local, remote, phase, excused, aside>>

CompareGenesis ==
  /\ phase = "running" /\ task.pc = "genesis"
  /\ Goto(IF GenesisOf[task.peer] = genesis THEN "tip" ELSE "failed")
  /\ UNCHANGED <<local, remote, phase, offered, excused, aside>>

\* Height, hash and work of the local tip come from one view.
ReadTip ==
  /\ task.pc = "tip"
  /\ task' = [task EXCEPT !.start = tip,
                !.pc = IF Work(tip) >= Work(task.target) THEN "done" ELSE "compare"]
  /\ excused' = excused \ {"local"}
  /\ UNCHANGED <<local, remote, phase, offered, aside>>

----------------------------------------------------------------------------
\* Both: where to start, and the download.  task.target stands for what is kept
\* of the peer's chain info, its height and its work.

RemoteHeight == Len(task.target)
LocalHeight == Len(task.start)

\* The peer's answer for one height or a range, from one snapshot of its chain.
Holds(p, h) == h <= Len(remote[p])

SearchFrom(t) == [t EXCEPT !.pc = "search", !.low = 0, !.best = 0,
                           !.high = Min({Len(t.target), Len(t.start)})]

PeerIncludesTip == /\ Holds(task.peer, LocalHeight)
                   /\ AtHeight(remote[task.peer], LocalHeight) = task.start

\* Any failure of the request counts as a tip that is not included.
CompareTip ==
  /\ task.pc = "compare"
  /\ \/ /\ PeerIncludesTip
        /\ task' = [task EXCEPT !.pc = "fetch", !.next = LocalHeight + 1]
     \/ task' = SearchFrom(task)
  /\ UNCHANGED <<local, remote, phase, offered, excused, aside>>

Mid == task.low + (task.high - task.low) \div 2

\* find_lca: the local block is read first, then the peer's is requested.
ReadLocalBlock ==
  /\ task.pc = "search" /\ task.low <= task.high
  /\ IF Mid <= Len(tip)
       THEN task' = [task EXCEPT !.pc = "probe", !.seen = AtHeight(tip, Mid)] /\ UNCHANGED phase
       ELSE Fail
  /\ UNCHANGED <<local, remote, offered, excused, aside>>

\* Mutant: the upper bound is not lowered past the block that differs.
ProbeKeepingHigh ==
  /\ task.pc = "probe" /\ Holds(task.peer, Mid)
  /\ LET same == AtHeight(remote[task.peer], Mid) = task.seen
     IN  task' = IF same THEN [task EXCEPT !.pc = "search", !.best = Mid, !.low = Mid + 1]
                 ELSE IF Mid = 0 THEN [task EXCEPT !.pc = "found"]
                 ELSE [task EXCEPT !.pc = "search", !.high = Mid]
  /\ UNCHANGED <<local, remote, phase, offered, excused, aside>>

\* Mutant: the halves are confused.
ProbeUpwards ==
  /\ task.pc = "probe" /\ Holds(task.peer, Mid)
  /\ LET same == AtHeight(remote[task.peer], Mid) = task.seen
     IN  task' = IF same THEN [task EXCEPT !.pc = "search", !.best = Mid, !.low = Mid + 1]
                 ELSE [task EXCEPT !.pc = "search", !.low = Mid + 1]
  /\ UNCHANGED <<local, remote, phase, offered, excused, aside>>

ProbeRemoteBlock ==
  /\ task.pc = "probe" /\ Holds(task.peer, Mid)
  /\ LET same == AtHeight(remote[task.peer], Mid) = task.seen
     IN  task' = IF same THEN [task EXCEPT !.pc = "search", !.best = Mid, !.low = Mid + 1]
                 ELSE IF Mid = 0 THEN [task EXCEPT !.pc = "found"]
                 ELSE [task EXCEPT !.pc = "search", !.high = Mid - 1]
  /\ UNCHANGED <<local, remote, phase, offered, excused, aside>>

LcaFound ==
  /\ task.pc = "found" \/ (task.pc = "search" /\ task.low > task.high)
  /\ task' = [task EXCEPT !.pc = "fetch", !.next = task.best + 1]
  /\ UNCHANGED <<local, remote, phase, offered, excused, aside>>

\* The peer cuts the range to its own limit, the client to the limit it asked for;
\* it looks at its limit after it has taken a block, so that 0 means one.
RangeEnd(h) == Min({RemoteHeight, h + PeerBatch - 1})
\* Mutant: the client keeps what it gets.
ReceivedAll(h) == RangeEnd(h) - h + 1
Limit == Max({1, LocalBatch})
Received(h) == Min({RangeEnd(h) - h + 1, Limit})

\* The download goes on while a height the peer told us of is missing.
BlocksMissing == task.next <= RemoteHeight

request_blocks_by_height_range ==
  /\ task.pc = "fetch" /\ BlocksMissing
  /\ Holds(task.peer, RangeEnd(task.next))
  /\ task' = [task EXCEPT !.pc = "apply",
                !.batch = [i \in 1..Received(task.next) |->
                             AtHeight(remote[task.peer], task.next + i - 1)]]
  /\ UNCHANGED <<local, remote, phase, offered, excused, aside>>

\* The peer's answer ends before its first block: the task stops and reports success.
EmptyBatch ==
  /\ task.pc = "fetch" /\ BlocksMissing
  /\ Succeed
  /\ excused' = excused \cup {"empty"}
  /\ UNCHANGED <<local, remote, offered, aside>>

\* Something the peer lacks, or a lost connection.
RequestFails ==
  /\ task.pc \in {"genesis", "info", "probe", "fetch"}
  /\ task.pc = "fetch" => BlocksMissing
  /\ Fail
  /\ UNCHANGED <<local, remote, offered, excused, aside>>

\* The engine's view after the first n blocks of the batch.
Batch[n \in 0..Len(task.batch)] ==
  IF n = 0 THEN View ELSE on_block(Batch[n - 1], task.batch[n])

\* The engine is locked for the whole batch.  A refused block, or an error of the
\* engine, ends it and the task; orphans count like the blocks that were applied.  In
\* a node that is told to stop, either the batch is not begun, an error, or its
\* rest is left out and counted all the same.
apply_blocks ==
  /\ task.pc = "apply"
  /\ \E n \in 0..Len(task.batch) :
       LET v == Batch[n]
           counted == [task EXCEPT !.pc = "fetch", !.next = @ + Len(task.batch), !.batch = <<>>]
       IN
       /\ tip' = v.tip /\ forks' = v.forks
       /\ \/ /\ n < Len(task.batch) /\ Fail
             /\ excused' = excused
          \/ /\ n < Len(task.batch) /\ cancelled
             /\ task' = counted /\ UNCHANGED phase
             /\ excused' = excused \cup {"cancelled"}
          \/ /\ n = Len(task.batch)
             /\ task' = counted /\ UNCHANGED phase
             /\ excused' = IF v.midfork THEN excused \cup {"midfork"} ELSE excused
  /\ UNCHANGED <<config, genesis, remote, offered, aside>>

SyncComplete ==
  /\ task.pc = "fetch" /\ ~BlocksMissing
  /\ Succeed
  /\ UNCHANGED <<local, remote, offered, excused, aside>>

\* A running node that is told to stop leaves the task wherever it waits, except
\* in the engine, and the task reports success.
Cancelled ==
  /\ phase = "running" /\ cancelled /\ ~Ended /\ task.pc # "apply"
  /\ Succeed
  /\ excused' = excused \cup {"cancelled"}
  /\ UNCHANGED <<local, remote, offered, aside>>

----------------------------------------------------------------------------
\* Meanwhile

\* The canonical chain of a peer grows or is replaced by a heavier one.
RemoteMoves ==
  /\ moves < MaxMoves /\ moves' = moves + 1
  /\ \E p \in Peers, c \in Chains :
       /\ Work(c) > Work(remote[p])
       /\ remote' = [remote EXCEPT ![p] = c]
       /\ excused' = IF p = task.peer /\ task.target # <<>> /\ ~IsPrefix(remote[p], c)
                       THEN excused \cup {"remote"} ELSE excused
  /\ UNCHANGED <<local, phase, task, offered, cancelled, syncs>>

\* The running node mines a block or receives one by gossip.
LocalMoves ==
  /\ phase = "running" /\ ~cancelled /\ moves < MaxMoves /\ moves' = moves + 1
  /\ \E b \in Chains \ {<<>>} :
       LET v == on_block(View, b) IN
       /\ <<v.tip, v.forks>> # <<tip, forks>>
       /\ tip' = v.tip /\ forks' = v.forks
       /\ excused' = IF v.reorg THEN excused \cup {"local"} ELSE excused
  /\ UNCHANGED <<config, genesis, remote, phase, task, offered, cancelled, syncs>>

\* A signal, or another part of the node that gave up.
Cancel ==
  /\ phase = "running" /\ ~cancelled
  /\ cancelled' = TRUE
  /\ UNCHANGED <<local, remote, phase, task, offered, excused, moves, syncs>>

----------------------------------------------------------------------------
\* Steps that take nobody else.
LocalStep ==
  \/ bootstrap \/ StorageFails \/ synchronize \/ query_sync_peers \/ NoCandidate
  \/ PickBestPeer \/ ReadTip \/ ReadLocalBlock \/ LcaFound \/ apply_blocks \/ SyncComplete
  \/ Cancelled

\* Steps that wait for a peer, and the first, which may wait for the operator.
Answer ==
  \/ OpenStorage \/ CheckPeer \/ ensure_genesis
  \/ connect_sync_peer \/ connect_fallback_sync_peer \/ request_chain_info
  \/ CompareGenesis \/ CompareTip \/ ProbeRemoteBlock
  \/ request_blocks_by_height_range \/ EmptyBatch \/ RequestFails

TaskStep == LocalStep \/ Answer

Next == TaskStep \/ ChainTipAnnounced \/ RemoteMoves \/ LocalMoves \/ Cancel

\* The task's own steps are taken; no request has a deadline, so that nothing
\* makes a peer answer.
Spec == Init /\ [][Next]_vars /\ WF_vars(LocalStep)

----------------------------------------------------------------------------
\* Properties

\* Type invariant, with the limit of a batch that the client asked for.
TypeOK ==
  /\ tip \in Chains /\ forks \subseteq Chains /\ remote \in [Peers -> Chains]
  /\ phase \in {"startup", "running", "exited"}
  /\ task.peer \in Peers /\ task.attempt \in 1..Max({MaxDiscovery, MaxConnects})
  /\ task.low \in 0..MaxHeight + 1 /\ task.high \in 0..MaxHeight /\ task.best \in 0..MaxHeight
  /\ task.next \in 0..MaxHeight + 1 /\ Len(task.batch) <= Min({Limit, PeerBatch})
  /\ genesis = NoGenesis => tip = <<>> /\ phase # "running"

Same(h) == /\ h <= Len(tip) /\ h <= Len(remote[task.peer])
           /\ AtHeight(tip, h) = AtHeight(remote[task.peer], h)

\* find_lca keeps its bounds right although both chains grow during the search:
\* below `low` the chains agree and `best` is the last height known to, above
\* `high` they differ, unless one of them was reorganised meanwhile.
SearchSound ==
  task.pc = "search" /\ excused = {} =>
    /\ \A h \in 0 .. task.low - 1 : Same(h)
    /\ \A h \in task.high + 1 .. Min({RemoteHeight, LocalHeight}) : ~Same(h)
    /\ task.low > 0 => task.best = task.low - 1

\* A synchronisation that reports success leaves the node with at least the work
\* of every chain it was offered, however both chains grew meanwhile.  Five things make
\* it report success early: a reorganisation on either side, a branch that leaves
\* a registered fork in its middle, an empty answer, and the stop of the node.
SyncAdopts ==
  task.pc = "done" /\ excused = {} => \A o \in offered : Work(tip) >= Work(o.chain)

\* A node that serves holds a genesis block, and where one was configured it is that
\* one, whatever was stored before and whichever peers were asked: only a node told
\* to join takes a peer's instead.
GenesisAgrees ==
  phase = "running" =>
    /\ genesis \in ValidGenesis
    /\ config.genesis \in {NoGenesis, genesis}
       \/ (config.mode = "Join" /\ \E p \in Peers : genesis = GenesisOf[p])

\* The task is waiting for an answer.
Waiting ==
  \/ task.pc \in {"open", "genesis", "connect", "fallback", "info", "compare", "probe"}
  \/ task.pc = "ask" /\ task.ask # {}
  \/ task.pc = "fetch" /\ BlocksMissing

\* A synchronisation ends, so that the single permit is given back and the startup
\* either serves or exits, unless it waits for ever for one answer in a node that is
\* not told to stop: it never asks for ever, and the stop of the node ends every wait.
SyncEnds == ~Ended ~> Ended \/ [](Waiting /\ ~cancelled)
=============================================================================
