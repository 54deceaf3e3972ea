---------------------------- MODULE NodeRuntime ----------------------------
(***************************************************************************)
(* The tasks of one running node and what they share: the event loop, the  *)
(* consensus runtime that serialises block processing behind the engine    *)
(* lock, the peer synchronisation task, the miner with its proof-of-work   *)
(* tasks, the HTTP submission handler, the failure handler of the storage  *)
(* and the shutdown of main.                                               *)
(*                                                                         *)
(* A block is the history it ends: a sequence of labels, one per block     *)
(* after genesis, so the parent of b is Front(b), its work is Len(b) and   *)
(* genesis is <<>>.  The engine is what the module ConsensusEngine shows   *)
(* it to be: the verdict of one block and the new canonical tip.           *)
(***************************************************************************)
EXTENDS Integers, Sequences, FiniteSets, SequencesExt

CONSTANTS
  Txs,           \* payments
  Coins,         \* outputs of the genesis block
  Inputs,        \* what a payment spends: coins, or payments (their one output)
  NetBlocks,     \* blocks other nodes gossip
  NetTips,       \* chains other nodes announce
  MaxHeight,     \* bound: highest block
  MaxEvents,     \* bound: messages that reach this node from the network
  MaxRounds,     \* bound: mining rounds
  NetCap,        \* capacity of the network event channel, 32 in the code
  MinedCap       \* capacity of the channel of mined blocks, 4 in the code

\* Histories; the label of a block says who made it and what it confirms.
Blocks == Seq([by : {"miner", "net", "none"}, txs : SUBSET Txs])

ASSUME RuntimeAssumption ==
  /\ Coins \cap Txs = {}
  /\ Inputs \in [Txs -> SUBSET (Coins \cup Txs)]
  /\ \A b \in NetBlocks \cup NetTips : b \in Blocks /\ Len(b) <= MaxHeight
  /\ MaxHeight \in Nat /\ MaxEvents \in Nat /\ MaxRounds \in Nat
  /\ NetCap \in Nat \ {0} /\ MinedCap \in Nat \ {0}

VARIABLES
  tip, forks,    \* engine: canonical tip and the tips of registered forks
  pool,          \* payments in the mempool
  adder,         \* admission that holds the write lock of the pool
  worker,        \* blocking consensus worker, holds the engine lock
  loop,          \* event loop
  lastAnnounced, \* last_announced_tip, and whether gossipsub took it
  sync,          \* peer synchronisation task, holds the permit unless "none"
  netEvents,     \* broadcast channel of network events
  tipUnread,     \* tip updates the miner has not received; 2: it lagged
  miner,         \* miner event loop
  pow,           \* proof-of-work tasks
  mined,         \* channel of mined blocks
  failed,        \* failed flag of the storage
  handler,       \* progress of its failure handler
  cancel,        \* master cancellation token
  ready,         \* readiness of both servers
  main           \* where main() is

chain == <<tip, forks>>
health == <<failed, handler, cancel, ready>>
mining == <<miner, pow, mined>>
vars == <<tip, forks, pool, adder, worker, loop, lastAnnounced, sync, netEvents,
          tipUnread, miner, pow, mined, failed, handler, cancel, ready, main>>

----------------------------------------------------------------------------
\* Blocks and the engine

Label(by, ts) == [by |-> by, txs |-> ts]

TxsOf(b) == UNION {b[i].txs : i \in DOMAIN b}

\* The output of a payment is the payment itself.  A payment without inputs may be
\* confirmed again, and its output exists again.
CreatedAt(b, o, i) == IF i = 0 THEN o \in Coins ELSE o \in b[i].txs

\* Outputs unspent after b: no block after the last one that created it spends it.
Unspent(b) ==
  {o \in Coins \cup TxsOf(b) :
     \E i \in 0..Len(b) : /\ CreatedAt(b, o, i)
                          /\ \A j \in (i + 1)..Len(b) : \A t \in b[j].txs : o \notin Inputs[t]}

\* validate_transactions sees the outputs before the block only: a payment
\* that spends an output of the same block is refused.
ValidBlock(b) ==
  LET ts == Last(b).txs
  IN  /\ \A t \in ts : Inputs[t] \subseteq Unspent(Front(b))
      /\ \A t, u \in ts : t # u => Inputs[t] \cap Inputs[u] = {}

Ancestor(b, c) == LongestCommonPrefix({b, c})

Verdict(k, t, f) == [kind |-> k, tip |-> t, forks |-> f]

on_block(b) ==
  LET p == Front(b) IN
  CASE IsPrefix(b, tip) -> Verdict("AlreadyIncludedInChain", tip, forks)
    [] ~IsPrefix(b, tip) /\ (\E f \in forks : IsPrefix(b, f)) ->
         Verdict("AlreadyKnownInForkTree", tip, forks)
    [] ~IsPrefix(p, tip) /\ p \notin forks /\ (\A f \in forks : ~IsPrefix(b, f)) ->
         Verdict("Buffered", tip, forks)
    [] OTHER ->
         IF ~ValidBlock(b) THEN Verdict("Rejected", tip, forks)
         ELSE IF p = tip THEN Verdict("Applied", b, forks)
         ELSE IF Len(b) > Len(tip)
           THEN Verdict("CausedReorganization", b,
                  {f \in forks \ {p} : Ancestor(f, b) = Ancestor(f, tip)})
         ELSE Verdict("Buffered", tip, (forks \ {p}) \cup {b})

Moves(v) == v.kind \in {"Applied", "CausedReorganization"}

----------------------------------------------------------------------------
Idle == [for |-> "none", blocks |-> <<>>, stage |-> "run", attached |-> {}, verdicts |-> <<>>]

NoSync(panicked) == [pc |-> "none", target |-> <<>>, next |-> 0, panicked |-> panicked]

Selecting == [pc |-> "select", block |-> <<>>, kind |-> "none"]

Init ==
  /\ tip = <<>> /\ forks = {} /\ pool = {}
  /\ adder = [by |-> "none", txs |-> {}]
  /\ worker = Idle
  /\ loop = [pc |-> "boot", block |-> <<>>, kind |-> "none"]
  /\ lastAnnounced = [tip |-> <<[by |-> "none", txs |-> {}]>>, taken |-> FALSE]
  /\ sync = NoSync(FALSE)
  /\ netEvents = [queue |-> <<>>, lagged |-> FALSE, sent |-> 0]
  /\ tipUnread = 0
  /\ miner = [pc |-> "select", best |-> {}, current |-> 0, rounds |-> 0]
  /\ pow = {} /\ mined = <<>>
  /\ failed = FALSE /\ handler = "idle" /\ cancel = FALSE /\ ready = FALSE
  /\ main = "running"

----------------------------------------------------------------------------
\* Storage failure and shutdown

\* mark_failed: the first caller sets the flag and runs the handler, which
\* clears the readiness flags and cancels everything.
mark_failed == /\ failed' = TRUE
               /\ handler' = IF failed THEN handler ELSE "flags"

\* Bound: a node that is already stopping meets no further fault.
Undisturbed == ~failed /\ ~cancel /\ ~sync.panicked

StorageFails ==
  /\ Undisturbed /\ main = "running"
  /\ mark_failed
  /\ UNCHANGED <<chain, pool, adder, worker, loop, lastAnnounced, sync, netEvents,
                 tipUnread, mining, cancel, ready, main>>

HandlerFlags ==
  /\ handler = "flags"
  /\ ready' = FALSE /\ handler' = "cancel"
  /\ UNCHANGED <<chain, pool, adder, worker, loop, lastAnnounced, sync, netEvents,
                 tipUnread, mining, failed, cancel, main>>

HandlerCancel ==
  /\ handler = "cancel"
  /\ cancel' = TRUE /\ handler' = "done"
  /\ UNCHANGED <<chain, pool, adder, worker, loop, lastAnnounced, sync, netEvents,
                 tipUnread, mining, failed, ready, main>>

Signal ==
  /\ ~cancel /\ main = "running"
  /\ cancel' = TRUE
  /\ UNCHANGED <<chain, pool, adder, worker, loop, lastAnnounced, sync, netEvents,
                 tipUnread, mining, failed, handler, ready, main>>

\* run() has returned: main cancels what is left and waits for the miner.
MainAfterRun ==
  /\ main = "running" /\ loop.pc = "ended"
  /\ cancel' = TRUE /\ main' = "join miner"
  /\ UNCHANGED <<chain, pool, adder, worker, loop, lastAnnounced, sync, netEvents,
                 tipUnread, mining, failed, handler, ready>>

\* Dropping the tokio runtime waits for the blocking tasks.
MainExits ==
  /\ main = "join miner" /\ miner.pc = "stopped"
  /\ pow = {} /\ worker.for = "none"
  /\ main' = "exited"
  /\ UNCHANGED <<chain, pool, adder, worker, loop, lastAnnounced, sync, netEvents,
                 tipUnread, mining, health>>

----------------------------------------------------------------------------
\* Mempool admission: from the event loop and from POST /api/tx.  The write
\* lock is held over the lookup of the spent outputs in a storage snapshot.

PoolUnlocked == adder.by = "none"

Admissible(t) ==
  /\ t \notin pool
  /\ \A u \in pool : Inputs[t] \cap Inputs[u] = {}
  /\ Inputs[t] \subseteq Unspent(tip) \cup pool

LookUp(by, t) ==
  /\ PoolUnlocked
  /\ adder' = [by |-> by, txs |-> IF Admissible(t) THEN {t} ELSE {}]

\* The middleware in front of both servers: the flag is read once per request.
ReadyGate == ready

send_tx(t) ==
  /\ ReadyGate /\ ~cancel /\ ~failed
  /\ Admissible(t)
  /\ LookUp("http", t)
  /\ UNCHANGED <<chain, pool, worker, loop, lastAnnounced, sync, netEvents,
                 tipUnread, mining, health, main>>

add_transaction ==
  /\ ~PoolUnlocked
  /\ pool' = pool \cup adder.txs
  /\ adder' = [by |-> "none", txs |-> {}]
  /\ loop' = IF adder.by = "loop" THEN [loop EXCEPT !.pc = "select"] ELSE loop
  /\ UNCHANGED <<chain, worker, lastAnnounced, sync, netEvents,
                 tipUnread, mining, health, main>>

----------------------------------------------------------------------------
\* ConsensusRuntime.  The worker holds the engine lock from start to end.

EngineFree == worker.for = "none"

Start(client, bs) ==
  /\ EngineFree
  /\ worker' = [Idle EXCEPT !.for = client, !.blocks = bs]

\* apply_block_batch takes its next block: the token and the health of the storage
\* are looked at here, and either may change before the commit.
BeginBlock ==
  /\ worker.for # "none" /\ worker.stage = "run" /\ worker.blocks # <<>>
  /\ ~cancel /\ ~failed
  /\ worker' = [worker EXCEPT !.stage = "commit"]
  /\ UNCHANGED <<chain, pool, adder, loop, lastAnnounced, sync, netEvents,
                 tipUnread, mining, health, main>>

\* The engine commits the new chain; the mempool and the subscribers learn of it in
\* the two steps after it.
apply_block_batch ==
  /\ worker.stage = "commit"
  /\ LET b == Head(worker.blocks)
         v == on_block(b)
     IN  /\ tip' = v.tip /\ forks' = v.forks
         /\ worker' = [worker EXCEPT
              !.blocks = IF v.kind = "Rejected" THEN <<>> ELSE Tail(@),
              !.verdicts = Append(@, v.kind),
              !.stage = IF Moves(v) THEN "pool" ELSE "run",
              !.attached = IF Moves(v)
                             THEN UNION {b[i].txs : i \in Len(Ancestor(b, tip)) + 1 .. Len(b)}
                             ELSE {}]
  /\ UNCHANGED <<pool, adder, loop, lastAnnounced, sync, netEvents,
                 tipUnread, mining, health, main>>

\* Mutant: only what the last attached block confirms leaves the pool.
update_pool_with_head ==
  /\ worker.stage = "pool" /\ PoolUnlocked
  /\ pool' = pool \ Last(tip).txs
  /\ worker' = [worker EXCEPT !.stage = "send", !.attached = {}]
  /\ UNCHANGED <<chain, adder, loop, lastAnnounced, sync, netEvents,
                 tipUnread, mining, health, main>>

\* publish_transition, first half
update_pool ==
  /\ worker.stage = "pool" /\ PoolUnlocked
  /\ pool' = pool \ worker.attached
  /\ worker' = [worker EXCEPT !.stage = "send", !.attached = {}]
  /\ UNCHANGED <<chain, adder, loop, lastAnnounced, sync, netEvents,
                 tipUnread, mining, health, main>>

\* publish_transition, second half: the channel keeps one message.
send_tip_update ==
  /\ worker.stage = "send"
  /\ tipUnread' = IF tipUnread = 0 THEN 1 ELSE 2
  /\ worker' = [worker EXCEPT !.stage = "run"]
  /\ UNCHANGED <<chain, pool, adder, loop, lastAnnounced, sync, netEvents,
                 mining, health, main>>

\* What the client does with the verdicts of its batch.
Deliver(verdicts, error) ==
  IF worker.for = "loop"
    THEN /\ loop' = IF error \/ verdicts = <<>>
                      THEN Selecting
                      ELSE [loop EXCEPT !.pc = "publish", !.block = <<>>, !.kind = Head(verdicts)]
         /\ UNCHANGED sync
    ELSE /\ sync' = IF error \/ (\E i \in DOMAIN verdicts : verdicts[i] = "Rejected")
                      THEN NoSync(sync.panicked)
                      ELSE [sync EXCEPT !.pc = "fetch"]
         /\ UNCHANGED loop

WorkerEnds ==
  /\ worker.for # "none" /\ worker.stage = "run"
  /\ worker.blocks = <<>> \/ cancel
  /\ Deliver(worker.verdicts, FALSE)
  /\ worker' = Idle
  /\ UNCHANGED <<chain, pool, adder, lastAnnounced, netEvents,
                 tipUnread, mining, health, main>>

\* on_block returns an error or panics, or the storage failed before.  Only a fatal
\* error and a panic mark the storage failed.
WorkerFails ==
  /\ worker.for # "none"
  /\ \/ worker.stage = "commit"
     \/ worker.stage = "run" /\ worker.blocks # <<>> /\ ~cancel /\ failed
  /\ mark_failed \/ UNCHANGED <<failed, handler>>
  /\ Deliver(<<>>, TRUE)
  /\ worker' = Idle
  /\ UNCHANGED <<chain, pool, adder, lastAnnounced, netEvents,
                 tipUnread, mining, cancel, ready, main>>

----------------------------------------------------------------------------
\* Event loop

\* The readiness flags are raised first and checked against a failure after.
StoreReady ==
  /\ loop.pc = "boot"
  /\ ready' = TRUE
  /\ loop' = [loop EXCEPT !.pc = "check"]
  /\ UNCHANGED <<chain, pool, adder, worker, lastAnnounced, sync, netEvents,
                 tipUnread, mining, failed, handler, cancel, main>>

\* Mutant: the flags are not checked again after they were raised.
CheckNothing ==
  /\ loop.pc = "check"
  /\ loop' = [loop EXCEPT !.pc = "register"]
  /\ UNCHANGED <<chain, pool, adder, worker, lastAnnounced, sync, netEvents,
                 tipUnread, mining, health, main>>

CheckStopped ==
  /\ loop.pc = "check"
  /\ IF failed \/ cancel
       THEN ready' = FALSE /\ loop' = [loop EXCEPT !.pc = "ended"]
       ELSE ready' = ready /\ loop' = [loop EXCEPT !.pc = "register"]
  /\ UNCHANGED <<chain, pool, adder, worker, lastAnnounced, sync, netEvents,
                 tipUnread, mining, failed, handler, cancel, main>>

\* PublishChainTip: gossipsub may refuse, as it does while no peer has subscribed to
\* the topic.  The tip is remembered either way.
Announce(b) == \E taken \in BOOLEAN : lastAnnounced' = [tip |-> b, taken |-> taken]

\* The services are registered and the tip is published once; a network that
\* has stopped fails the registration, and run() returns.
Register ==
  /\ loop.pc = "register"
  /\ \/ /\ EngineFree
        /\ Announce(tip) /\ loop' = [loop EXCEPT !.pc = "select"]
     \/ /\ cancel
        /\ lastAnnounced' = lastAnnounced /\ loop' = [loop EXCEPT !.pc = "ended"]
  /\ UNCHANGED <<chain, pool, adder, worker, sync, netEvents,
                 tipUnread, mining, health, main>>

\* Mutant: the hash of the parent is remembered.
HeartbeatRemembersParent ==
  /\ loop.pc = "select" /\ EngineFree
  /\ tip # lastAnnounced.tip
  /\ Announce(Front(tip))
  /\ UNCHANGED <<chain, pool, adder, worker, loop, sync, netEvents,
                 tipUnread, mining, health, main>>

\* Only a tip that was not announced before, successfully or not, is announced.
Heartbeat ==
  /\ loop.pc = "select" /\ EngineFree
  /\ tip # lastAnnounced.tip
  /\ Announce(tip)
  /\ UNCHANGED <<chain, pool, adder, worker, loop, sync, netEvents,
                 tipUnread, mining, health, main>>

recv_mined_block ==
  /\ loop.pc = "select" /\ mined # <<>>
  /\ loop' = [loop EXCEPT !.pc = "apply", !.block = Head(mined)]
  /\ mined' = Tail(mined)
  /\ UNCHANGED <<chain, pool, adder, worker, lastAnnounced, sync, netEvents,
                 tipUnread, miner, pow, health, main>>

Pending(type) == /\ loop.pc = "select" /\ ~netEvents.lagged
                 /\ netEvents.queue # <<>> /\ Head(netEvents.queue).type = type

Receive == netEvents' = [netEvents EXCEPT !.queue = Tail(@)]

RecvNewBlock ==
  /\ Pending("NewBlock") /\ Receive
  /\ loop' = [loop EXCEPT !.pc = "apply",
                          !.block = Head(netEvents.queue).block]
  /\ UNCHANGED <<chain, pool, adder, worker, lastAnnounced, sync,
                 tipUnread, mining, health, main>>

RecvNewTransaction ==
  /\ Pending("NewTransaction") /\ Receive
  /\ \E t \in Head(netEvents.queue).txs : LookUp("loop", t)
  /\ loop' = [loop EXCEPT !.pc = "add"]
  /\ UNCHANGED <<chain, pool, worker, lastAnnounced, sync,
                 tipUnread, mining, health, main>>

\* Ignored unless the remote chain is heavier and the permit is free.
RecvChainTip ==
  /\ Pending("ChainTipAnnounced") /\ EngineFree /\ Receive
  /\ LET r == Head(netEvents.queue).block
     IN  sync' = IF Len(r) > Len(tip) /\ sync.pc = "none"
                   THEN [sync EXCEPT !.pc = "prepare", !.target = r] ELSE sync
  /\ UNCHANGED <<chain, pool, adder, worker, loop, lastAnnounced,
                 tipUnread, mining, health, main>>

\* The events that were overwritten are lost; the loop only logs it.
RecvLagged ==
  /\ loop.pc = "select" /\ netEvents.lagged
  /\ netEvents' = [netEvents EXCEPT !.lagged = FALSE]
  /\ UNCHANGED <<chain, pool, adder, worker, loop, lastAnnounced, sync,
                 tipUnread, mining, health, main>>

\* apply_block for the loop: refused when the node is stopping.
ApplyBlock ==
  /\ loop.pc = "apply"
  /\ \/ /\ cancel
        /\ loop' = Selecting /\ UNCHANGED worker
     \/ /\ ~cancel /\ Start("loop", <<loop.block>>)
        /\ loop' = [loop EXCEPT !.pc = "wait"]
  /\ UNCHANGED <<chain, pool, adder, lastAnnounced, sync, netEvents,
                 tipUnread, mining, health, main>>

publish_reorg_tip_announcement == EngineFree /\ Announce(tip)

\* A reorganization is followed by an announcement of the new tip; the block
\* itself is published too, which changes nothing here.
PublishVerdict ==
  /\ loop.pc = "publish"
  /\ IF loop.kind = "CausedReorganization"
       THEN publish_reorg_tip_announcement
       ELSE lastAnnounced' = lastAnnounced
  /\ loop' = Selecting
  /\ UNCHANGED <<chain, pool, adder, worker, sync, netEvents,
                 tipUnread, mining, health, main>>

JoinPanickedSync ==
  /\ loop.pc = "select" /\ sync.panicked
  /\ sync' = [sync EXCEPT !.panicked = FALSE]
  /\ mark_failed /\ cancel' = TRUE
  /\ UNCHANGED <<chain, pool, adder, worker, loop, lastAnnounced, netEvents,
                 tipUnread, mining, ready, main>>

\* The token is cancelled, or the network task, which ends only then, has closed the
\* channel of its events.
LoopCancelled ==
  /\ loop.pc = "select" /\ cancel
  /\ ready' = FALSE
  /\ loop' = [loop EXCEPT !.pc = "drain"]
  /\ UNCHANGED <<chain, pool, adder, worker, lastAnnounced, sync, netEvents,
                 tipUnread, mining, failed, handler, cancel, main>>

\* The remaining synchronisation task is awaited, then both servers have ended.
LoopEnds ==
  /\ loop.pc = "drain" /\ sync.pc = "none" /\ adder.by # "http"
  /\ loop' = [loop EXCEPT !.pc = "ended"]
  /\ UNCHANGED <<chain, pool, adder, worker, lastAnnounced, sync, netEvents,
                 tipUnread, mining, health, main>>

----------------------------------------------------------------------------
\* sync_from_peer; the peer's chain stands still here (see PeerSync)

SyncStops ==
  /\ \/ sync.pc = "prepare"                            \* error, or cancelled
     \/ sync.pc = "fetch" /\ (cancel \/ sync.next > Len(sync.target))
  /\ sync' = NoSync(sync.panicked)
  /\ UNCHANGED <<chain, pool, adder, worker, loop, lastAnnounced, netEvents,
                 tipUnread, mining, health, main>>

SyncPanics ==
  /\ Undisturbed
  /\ sync.pc \in {"prepare", "fetch"}
  /\ sync' = NoSync(TRUE)
  /\ UNCHANGED <<chain, pool, adder, worker, loop, lastAnnounced, netEvents,
                 tipUnread, mining, health, main>>

prepare_peer_sync ==
  /\ sync.pc = "prepare" /\ ~failed
  /\ Len(sync.target) > Len(tip)
  /\ sync' = [sync EXCEPT !.pc = "fetch", !.next = Len(Ancestor(tip, sync.target)) + 1]
  /\ UNCHANGED <<chain, pool, adder, worker, loop, lastAnnounced, netEvents,
                 tipUnread, mining, health, main>>

\* A batch of one or two blocks goes to the consensus runtime.
SyncBatch ==
  /\ sync.pc = "fetch" /\ sync.next <= Len(sync.target) /\ ~cancel
  /\ \E n \in 1..2 :
       LET to == IF sync.next + n - 1 > Len(sync.target) THEN Len(sync.target)
                                                         ELSE sync.next + n - 1
       IN  /\ Start("sync", [i \in 1 .. to - sync.next + 1 |->
                               SubSeq(sync.target, 1, sync.next + i - 1)])
           /\ sync' = [sync EXCEPT !.pc = "wait", !.next = to + 1]
  /\ UNCHANGED <<chain, pool, adder, loop, lastAnnounced, netEvents,
                 tipUnread, mining, health, main>>

----------------------------------------------------------------------------
\* Miner

NoRound == 0

\* maybe_start_new_round up to the choice of transactions.
Tick ==
  /\ miner.pc = "select" /\ miner.current = NoRound
  /\ miner.rounds < MaxRounds
  /\ PoolUnlocked /\ pool # {}
  /\ miner' = [miner EXCEPT !.pc = "building", !.best = pool]
  /\ UNCHANGED <<chain, pool, adder, worker, loop, lastAnnounced, sync, netEvents,
                 tipUnread, pow, mined, health, main>>

\* The parent, and with it threshold and median time, come from one storage view.
mining_context == tip

\* The candidate is handed to a new task.  Nothing is built when the storage
\* failed or the chain's time is too far ahead of the clock.
build_candidate_block ==
  /\ miner.pc = "building"
  /\ \/ /\ ~failed /\ Len(tip) < MaxHeight
        /\ miner' = [miner EXCEPT !.pc = "select", !.best = {}, !.rounds = @ + 1,
                                  !.current = miner.rounds + 1]
        /\ pow' = pow \cup {[round |-> miner.rounds + 1, cancelled |-> FALSE, stage |-> "hash",
                             block |-> Append(mining_context, Label("miner", miner.best))]}
     \/ /\ miner' = [miner EXCEPT !.pc = "select", !.best = {}]
        /\ UNCHANGED pow
  /\ UNCHANGED <<chain, pool, adder, worker, loop, lastAnnounced, sync, netEvents,
                 tipUnread, mined, health, main>>

CancelRound(round) ==
  pow' = {IF p.round = round THEN [p EXCEPT !.cancelled = TRUE] ELSE p : p \in pow}

abort_current_attempt(pc) ==
  /\ CancelRound(miner.current)
  /\ miner' = [miner EXCEPT !.current = NoRound, !.pc = pc]

RecvTipUpdate ==
  /\ miner.pc = "select" /\ tipUnread = 1
  /\ tipUnread' = 0
  /\ abort_current_attempt("select")
  /\ UNCHANGED <<chain, pool, adder, worker, loop, lastAnnounced, sync, netEvents,
                 mined, health, main>>

\* Mutant: the retained update is skipped with the lost ones.
RecvTipLaggedSkipping ==
  /\ miner.pc = "select" /\ tipUnread = 2
  /\ tipUnread' = 0
  /\ UNCHANGED <<chain, pool, adder, worker, loop, lastAnnounced, sync, netEvents,
                 mining, health, main>>

\* Lagged is only logged; the update that is retained is received next.
RecvTipLagged ==
  /\ miner.pc = "select" /\ tipUnread = 2
  /\ tipUnread' = 1
  /\ UNCHANGED <<chain, pool, adder, worker, loop, lastAnnounced, sync, netEvents,
                 mining, health, main>>

\* Mutant: the proof-of-work task is left alone when the miner stops.
MinerStopsOnly ==
  /\ miner.pc = "select" /\ cancel
  /\ miner' = [miner EXCEPT !.pc = "stopped"]
  /\ UNCHANGED <<chain, pool, adder, worker, loop, lastAnnounced, sync, netEvents,
                 tipUnread, pow, mined, health, main>>

MinerCancelled ==
  /\ miner.pc = "select" /\ cancel
  /\ abort_current_attempt("stopped")
  /\ UNCHANGED <<chain, pool, adder, worker, loop, lastAnnounced, sync, netEvents,
                 tipUnread, mined, health, main>>

\* The token is polled between batches, so a cancelled task may still find a nonce.
FindNonce ==
  /\ \E p \in pow : p.stage = "hash" /\ pow' = (pow \ {p}) \cup {[p EXCEPT !.stage = "send"]}
  /\ UNCHANGED <<chain, pool, adder, worker, loop, lastAnnounced, sync, netEvents,
                 tipUnread, miner, mined, health, main>>

StopHashing ==
  /\ \E p \in pow : p.stage = "hash" /\ p.cancelled /\ pow' = pow \ {p}
  /\ UNCHANGED <<chain, pool, adder, worker, loop, lastAnnounced, sync, netEvents,
                 tipUnread, miner, mined, health, main>>

\* Mutant: the capacity of the channel is ignored.
SendMinedAtOnce ==
  /\ \E p \in pow :
       /\ p.stage = "send"
       /\ pow' = pow \ {p}
       /\ IF loop.pc = "ended" THEN UNCHANGED mined ELSE mined' = Append(mined, p.block)
  /\ UNCHANGED <<chain, pool, adder, worker, loop, lastAnnounced, sync, netEvents,
                 tipUnread, miner, health, main>>

\* The sender waits while the channel is full; a dropped receiver ends it.
SendMined ==
  /\ \E p \in pow :
       /\ p.stage = "send"
       /\ pow' = pow \ {p}
       /\ IF loop.pc = "ended" THEN UNCHANGED mined
          ELSE Len(mined) < MinedCap /\ mined' = Append(mined, p.block)
  /\ UNCHANGED <<chain, pool, adder, worker, loop, lastAnnounced, sync, netEvents,
                 tipUnread, miner, health, main>>

----------------------------------------------------------------------------
\* Other nodes

Events ==
  [type : {"NewBlock"}, block : NetBlocks, txs : {{}}]
  \cup [type : {"ChainTipAnnounced"}, block : NetTips, txs : {{}}]
  \cup [type : {"NewTransaction"}, block : {<<>>}, txs : {{t} : t \in Txs}]

\* The channel overwrites its oldest event when the loop falls behind.
GossipArrives ==
  /\ netEvents.sent < MaxEvents /\ ~cancel
  /\ \E e \in Events :
       netEvents' = [queue  |-> Append(IF Len(netEvents.queue) = NetCap
                                         THEN Tail(netEvents.queue) ELSE netEvents.queue, e),
                     lagged |-> netEvents.lagged \/ Len(netEvents.queue) = NetCap,
                     sent   |-> netEvents.sent + 1]
  /\ UNCHANGED <<chain, pool, adder, worker, loop, lastAnnounced, sync,
                 tipUnread, mining, health, main>>

----------------------------------------------------------------------------
Stopped == main = "exited" /\ handler \in {"idle", "done"} /\ UNCHANGED vars

LoopStep ==
  \/ StoreReady \/ CheckStopped \/ Register \/ Heartbeat \/ recv_mined_block
  \/ RecvNewBlock \/ RecvNewTransaction \/ RecvChainTip \/ RecvLagged
  \/ ApplyBlock \/ PublishVerdict \/ JoinPanickedSync \/ LoopCancelled \/ LoopEnds
WorkerStep == \/ BeginBlock \/ apply_block_batch \/ update_pool \/ send_tip_update
              \/ WorkerEnds \/ WorkerFails
SyncStep == SyncStops \/ SyncPanics \/ prepare_peer_sync \/ SyncBatch
MinerStep == \/ Tick \/ build_candidate_block \/ RecvTipUpdate \/ RecvTipLagged
             \/ MinerCancelled
PowStep == FindNonce \/ StopHashing \/ SendMined
Shutdown == HandlerFlags \/ HandlerCancel \/ MainAfterRun \/ MainExits

Next ==
  \/ LoopStep \/ WorkerStep \/ SyncStep \/ MinerStep \/ PowStep \/ Shutdown
  \/ add_transaction \/ StorageFails \/ Signal \/ GossipArrives \/ Stopped
  \/ \E t \in Txs : send_tx(t)

\* Every task runs.  The miner may go through failing rounds for ever, but select!
\* chooses among its ready branches at random, so it also sees the cancellation.
\* A proof-of-work task need not find a nonce, but a cancelled one polls its token.
Fairness ==
  /\ WF_vars(LoopStep) /\ WF_vars(WorkerStep) /\ WF_vars(SyncStep)
  /\ WF_vars(add_transaction)
  /\ WF_vars(MinerStep) /\ SF_vars(MinerCancelled)
  /\ WF_vars(StopHashing \/ SendMined)
  /\ WF_vars(Shutdown)

Spec == Init /\ [][Next]_vars /\ Fairness

\* A node that keeps announcing is heard at some time: peers subscribe sooner or later.
Taken == LoopStep /\ lastAnnounced' = [tip |-> tip, taken |-> TRUE]
HeardSpec == Spec /\ SF_vars(Taken /\ lastAnnounced' # lastAnnounced)

----------------------------------------------------------------------------
\* Properties

\* Type invariant, with the limits of heights and of both bounded channels.
TypeOK ==
  /\ tip \in Blocks /\ Len(tip) <= MaxHeight
  /\ \A f \in forks : f \in Blocks /\ Len(f) <= MaxHeight
  /\ pool \subseteq Txs
  /\ adder \in [by : {"none", "http", "loop"}, txs : SUBSET Txs]
  /\ worker.for \in {"none", "loop", "sync"} /\ worker.stage \in {"run", "commit", "pool", "send"}
  /\ loop.pc \in {"boot", "check", "register", "select", "add", "apply", "wait", "publish",
                 "drain", "ended"}
  /\ sync.pc \in {"none", "prepare", "fetch", "wait"} /\ sync.panicked \in BOOLEAN
  /\ Len(netEvents.queue) <= NetCap /\ Len(mined) <= MinedCap
  /\ tipUnread \in 0..2
  /\ miner.pc \in {"select", "building", "stopped"} /\ miner.current \in 0..MaxRounds
  /\ \A p \in pow : p.round \in 1..MaxRounds /\ p.block \in Blocks
  /\ handler \in {"idle", "flags", "cancel", "done"}
  /\ failed \in BOOLEAN /\ cancel \in BOOLEAN /\ ready \in BOOLEAN
  /\ main \in {"running", "join miner", "exited"}

\* No proof of work is wasted unnoticed: a task that is not cancelled is the
\* current round of the miner, and once its parent is no longer the tip the
\* news is on its way, even when tip updates were lost to a lag.
StaleRoundNoticed ==
  \A p \in pow : ~p.cancelled =>
    /\ p.round = miner.current
    /\ \/ Front(p.block) = tip
       \/ tipUnread > 0
       \/ worker.stage \in {"pool", "send"}

\* The mempool holds no payment of the canonical chain, nor is one being
\* admitted, except what the worker is about to take out: a commit may fall
\* between the lookup and the insertion of the very payment it confirms.
PoolIsUnconfirmed == (pool \cup adder.txs) \cap TxsOf(tip) \subseteq worker.attached

\* A node whose storage failed does not serve requests: the failure handler and
\* the event loop that raises the readiness flags may run in any order.
ReadyOnlyWhileHealthy ==
  failed /\ handler \in {"cancel", "done"} => ~ready \/ loop.pc = "check"

\* A signal or a failed storage ends the process: nobody waits for a task that
\* waits for them (engine lock, mempool lock, full channel of mined blocks).
ShutdownCompletes == cancel ~> main = "exited"

\* Every tip the node settles on is offered to gossipsub, also one that a
\* synchronisation or a plain extension brought, for which nothing is offered at once
\* and which may have become the tip while the loop was announcing another one.
\* Whether gossipsub takes it is the question of TipReachesPeers.
TipEventuallyOffered == []<>(lastAnnounced.tip = tip \/ cancel)

\* "Broadcast via gossipsub on startup, periodically (heartbeat), and on chain
\* reorganizations" (ChainTipAnnouncement): with peers that subscribe sooner or later,
\* the tip a node settles on reaches them.
TipReachesPeers == []<>(lastAnnounced = [tip |-> tip, taken |-> TRUE] \/ cancel)

\* The round the miner believes to be running: hashing, sending, or its block is
\* in the hands of the event loop, or a tip update is going to end it.
RoundInProgress ==
  \/ miner.current = NoRound
  \/ \E p \in pow : p.round = miner.current
  \/ mined # <<>> \/ loop.pc \in {"apply", "wait"} \/ worker.for # "none"
  \/ tipUnread > 0

\* max_delay_secs: "Max seconds to wait even if a threshold not reached."  While
\* payments wait, the miner does not stay idle for ever.
MiningGoesOn == []<>(pool = {} \/ RoundInProgress \/ cancel)
=============================================================================
