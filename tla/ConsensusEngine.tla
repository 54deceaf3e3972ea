-------------------------- MODULE ConsensusEngine --------------------------
(***************************************************************************)
(* StryiConsensusEngine over its storage: the single owner of the          *)
(* canonical chain of a node.  A node opens its storage, saves or verifies *)
(* the genesis block, rebuilds the in-memory index and then handles blocks *)
(* one at a time with on_block.                                            *)
(*                                                                         *)
(*   - Tables of the storage change in one committed transaction per       *)
(*     canonical transition; a crash keeps them and loses everything else. *)
(*   - Blocks that do not extend the tip are validated, and a              *)
(*     reorganization is prepared, in an overlay that is rewound and       *)
(*     replayed one block per step.                                        *)
(*   - Wherever the code compares two records and returns an error when    *)
(*     they disagree, the action has an ELSE that goes to pc = "error"; no *)
(*     such step exists if the bookkeeping is right (SelfChecksHold).      *)
(*                                                                         *)
(* Not here: arithmetic overflow of 256-bit work and 64-bit heights, the   *)
(* address index, metadata, and readers other than the engine.             *)
(***************************************************************************)
EXTENDS BlockTree, Sequences

VARIABLES
  \* storage tables
  heights,             \* canonical height -> block hash
  block_indexes,       \* stored block -> cumulative work (bodies share the keys)
  undo,                \* stored block -> BlockUndo
  utxo,                \* unspent outpoints of the canonical chain
  transaction_indexes, \* txid -> block
  chain_state,         \* latest block, block count (0: no record) and work
  \* memory of the engine
  index,               \* ChainIndex.entries: canonical block -> cumulative work
  tip,                 \* ChainIndex.tip
  forks,               \* ForkRegistry: fork tip -> ForkEntry
  \* the handler in progress
  pc, current, overlay,
  verdict              \* what the last on_block returned

tables == <<heights, block_indexes, undo, utxo, transaction_indexes, chain_state>>
memory == <<index, tip, forks>>
vars == <<tables, memory, pc, current, overlay, verdict>>

----------------------------------------------------------------------------
Canonical == {heights[h] : h \in DOMAIN heights}

NoEntries == [x \in {} |-> Genesis]

Put(f, k, v) == [x \in DOMAIN f \cup {k} |-> IF x = k THEN v ELSE f[x]]

NoVerdict == [block |-> Genesis, disposition |-> "None", kind |-> "None",
              attached |-> {}, detached |-> {}]

Verdict(b, d, k) == [NoVerdict EXCEPT !.block = b, !.disposition = d, !.kind = k]

EmptyOverlay == [goal |-> "none", lca |-> Genesis, expected_head |-> Genesis,
                 cursor |-> Genesis, rewind_tip |-> Genesis, branch_tip |-> Genesis,
                 utxos |-> {}, removed_utxos |-> {}, detached |-> {},
                 blocks |-> <<>>, branch_work |-> <<>>]

NoState == [hash |-> Genesis, height |-> 0, count |-> 0, work |-> 0]

\* An error the code returns because two of its records disagree.
Abort == /\ pc' = "error"
         /\ UNCHANGED <<tables, memory, current, overlay, verdict>>

----------------------------------------------------------------------------
\* Startup

Init ==
  /\ heights = NoEntries /\ block_indexes = NoEntries /\ undo = NoEntries
  /\ utxo = {} /\ transaction_indexes = NoEntries
  /\ chain_state = NoState
  /\ index = NoEntries /\ tip = Genesis /\ forks = NoEntries
  /\ pc = "down" /\ current = Genesis /\ overlay = EmptyOverlay
  /\ verdict = NoVerdict

verify_current_state ==
  LET s == chain_state
  IN  /\ s.hash \in DOMAIN block_indexes
      /\ s.height \in DOMAIN heights
      /\ heights[s.height] = s.hash
      /\ Height[s.hash] = s.height
      /\ block_indexes[s.hash] = s.work
      /\ s.count = s.height + 1

\* What opening the storage compares: either nothing was ever written, or genesis,
\* tip and the highest canonical height agree with the chain state.
verify_initialized_state ==
  IF chain_state.count = 0
    THEN /\ DOMAIN heights = {} /\ DOMAIN block_indexes = {} /\ DOMAIN undo = {}
         /\ utxo = {} /\ DOMAIN transaction_indexes = {}
    ELSE /\ 0 \in DOMAIN heights /\ heights[0] = Genesis
         /\ Genesis \in DOMAIN block_indexes /\ block_indexes[Genesis] = 0
         /\ verify_current_state
         /\ \A h \in DOMAIN heights : h <= chain_state.height

\* Commit the genesis block on first start; on every later one the transition
\* repeats comparisons that opening the storage has made and writes nothing.
stage_genesis ==
  /\ pc = "down"
  /\ IF verify_initialized_state
       THEN /\ pc' = "opened"
            /\ UNCHANGED <<undo, memory, current, overlay, verdict>>
            /\ IF chain_state.count # 0
                 THEN UNCHANGED tables
                 ELSE /\ heights' = Put(heights, 0, Genesis)
                      /\ block_indexes' = Put(block_indexes, Genesis, 0)
                      /\ utxo' = apply_block(Genesis, utxo)
                      /\ transaction_indexes' =
                           Put(transaction_indexes, Coinbase[Genesis], Genesis)
                      /\ chain_state' = [NoState EXCEPT !.count = 1]
       ELSE Abort

\* What collect_canonical_ancestry and rebuild_chain_index compare on the walk
\* from the stored tip to genesis.
CanonicalHistoryAgrees ==
  /\ chain_state.count = chain_state.height + 1
  /\ \A h \in 0..chain_state.height :
       /\ h \in DOMAIN heights
       /\ heights[h] \in DOMAIN block_indexes
       /\ Height[heights[h]] = h
       /\ IF h = 0
            THEN heights[h] = Genesis /\ block_indexes[heights[h]] = 0
            ELSE /\ heights[h] \in DOMAIN undo
                 /\ Parent[heights[h]] = heights[h - 1]
                 /\ block_indexes[heights[h]] =
                      block_indexes[heights[h - 1]] + Work[heights[h]]
  /\ heights[chain_state.height] = chain_state.hash
  /\ block_indexes[chain_state.hash] = chain_state.work

recompute_tip(idx) == CHOOSE x \in DOMAIN idx : \A y \in DOMAIN idx : idx[y] <= idx[x]

\* StryiConsensusEngine::new: the index is rebuilt, the fork registry is empty.
build_chain_index ==
  /\ pc = "opened"
  /\ IF CanonicalHistoryAgrees
       THEN /\ index' = [x \in {heights[h] : h \in 0..chain_state.height} |->
                           block_indexes[x]]
            /\ tip' = recompute_tip(index')
            /\ forks' = NoEntries
            /\ pc' = "idle"
            /\ UNCHANGED <<tables, current, overlay, verdict>>
       ELSE Abort

----------------------------------------------------------------------------
\* on_block up to the classification

validate_height(b) ==
  Parent[b] \in DOMAIN index \cup DOMAIN forks => Height[b] = Height[Parent[b]] + 1

\* ForkRegistry::has_block (every tip is also a block of its entry).
has_block(b) == \E t \in DOMAIN forks : \E i \in DOMAIN forks[t].blocks : forks[t].blocks[i] = b

classify_block(b) ==
  IF b \in DOMAIN index THEN "KnownCanonical"
  ELSE IF b \in DOMAIN forks \/ has_block(b) THEN "KnownFork"
  ELSE IF Parent[b] = tip THEN "ExtendsCanonical"
  ELSE IF Parent[b] \in DOMAIN index THEN "CreatesFork"
  ELSE IF Parent[b] \in DOMAIN forks THEN "ExtendsFork"
  ELSE "Orphan"

Classified(b, d) ==
  /\ pc = "idle"
  /\ b \notin Misshapen
  /\ validate_height(b)
  /\ classify_block(b) = d

RejectMalformed(b) ==
  /\ pc = "idle"
  /\ b \in Misshapen \/ ~validate_height(b)
  /\ verdict' = Verdict(b, "None", "Rejected")
  /\ UNCHANGED <<tables, memory, pc, current, overlay>>

handle_known(b) ==
  /\ \/ /\ Classified(b, "KnownCanonical")
        /\ verdict' = Verdict(b, "Known", "AlreadyIncludedInChain")
     \/ /\ Classified(b, "KnownFork")
        /\ verdict' = Verdict(b, "Known", "AlreadyKnownInForkTree")
  /\ UNCHANGED <<tables, memory, pc, current, overlay>>

\* An orphan is dropped, and reported as Buffered.
DropOrphan(b) ==
  /\ Classified(b, "Orphan")
  /\ verdict' = Verdict(b, "Orphan", "Buffered")
  /\ UNCHANGED <<tables, memory, pc, current, overlay>>

----------------------------------------------------------------------------
\* A block on top of the canonical tip

\* The clock may or may not have reached a timestamp that lies ahead.
MayReject(b, at, U) == ~validate(b, at, U) \/ b \in FutureDated

RejectExtension(b) ==
  /\ Classified(b, "ExtendsCanonical")
  /\ MayReject(b, heights, utxo)
  /\ verdict' = Verdict(b, "ExtendsCanonical", "Rejected")
  /\ UNCHANGED <<tables, memory, pc, current, overlay>>

\* Mutant: the work is taken off, as if the block were detached.
extended_state_subtracting(b, s) ==
  [hash |-> b, height |-> Height[b], count |-> Height[b] + 1, work |-> s.work - Work[b]]

extended_state(b, s) == [hash |-> b, height |-> Height[b], count |-> Height[b] + 1,
                         work |-> s.work + Work[b]]

\* put_block refuses to change the record of a stored block or of its height.
MayPut(b, cumulative_work) ==
  /\ b \in DOMAIN block_indexes => block_indexes[b] = cumulative_work
  /\ Height[b] \in DOMAIN heights => heights[Height[b]] = b

\* What extended_state, apply_block and put_block require of the next block.
MayAttach(b) ==
  /\ b # Genesis /\ b \notin Misshapen
  /\ Parent[b] = chain_state.hash
  /\ Height[b] = chain_state.height + 1
  /\ BlockUndo(b).spent_utxos \subseteq utxo
  /\ MayPut(b, chain_state.work + Work[b])

\* Mutant: put_block_undo is forgotten.
attach_block_without_undo(b) ==
  /\ utxo' = apply_block(b, utxo)
  /\ heights' = Put(heights, Height[b], b)
  /\ block_indexes' = Put(block_indexes, b, chain_state.work + Work[b])
  /\ undo' = undo
  /\ transaction_indexes' =
       [t \in DOMAIN transaction_indexes \cup TransactionsOf(b) |->
          IF t \in TransactionsOf(b) THEN b ELSE transaction_indexes[t]]
  /\ chain_state' = extended_state(b, chain_state)

attach_block(b) ==
  /\ utxo' = apply_block(b, utxo)
  /\ heights' = Put(heights, Height[b], b)
  /\ block_indexes' = Put(block_indexes, b, chain_state.work + Work[b])
  /\ undo' = Put(undo, b, BlockUndo(b))
  /\ transaction_indexes' =
       [t \in DOMAIN transaction_indexes \cup TransactionsOf(b) |->
          IF t \in TransactionsOf(b) THEN b ELSE transaction_indexes[t]]
  /\ chain_state' = extended_state(b, chain_state)

\* Mutant: a heavier block does not move the tip.
InsertKeepingTip(b, cumulative_work) ==
  /\ index' = Put(index, b, cumulative_work)
  /\ tip' = tip

\* ChainIndex::insert
InsertIntoIndex(b, cumulative_work) ==
  /\ index' = Put(index, b, cumulative_work)
  /\ tip' = IF cumulative_work > index[tip] THEN b ELSE tip

handle_extend_canonical(b) ==
  /\ Classified(b, "ExtendsCanonical")
  /\ validate(b, heights, utxo)
  /\ IF verify_current_state /\ MayAttach(b)
       THEN /\ attach_block(b)
            /\ InsertIntoIndex(b, index[tip] + Work[b])
            /\ verdict' = [Verdict(b, "ExtendsCanonical", "Applied") EXCEPT !.attached = {b}]
            /\ UNCHANGED <<forks, pc, current, overlay>>
       ELSE Abort

----------------------------------------------------------------------------
\* ForkDbOverlay

\* Mutant: the removal marker wins over a later put.
RemovalWins == (overlay.utxos \cup utxo) \ overlay.removed_utxos

\* Outputs visible through the overlay: a put wins over a removal marker.
OverlayUtxos == overlay.utxos \cup (utxo \ overlay.removed_utxos)

\* Number of fork blocks replayed so far.
Replayed == Len(overlay.branch_work)

\* Canonical heights above the ancestor are masked, replayed ones are visible.
OverlayHeights ==
  [h \in {k \in DOMAIN heights : k <= Height[overlay.lca]} \cup
         (Height[overlay.lca] + 1 .. Height[overlay.lca] + Replayed) |->
     IF h <= Height[overlay.lca] THEN heights[h]
                                 ELSE overlay.blocks[h - Height[overlay.lca]]]

\* ForkDbOverlay::new with what is to be replayed into it afterwards.
NewOverlay(goal, lca, blocks) ==
  [goal |-> goal, lca |-> lca, expected_head |-> chain_state.hash,
   cursor |-> tip, rewind_tip |-> chain_state.hash, branch_tip |-> lca,
   utxos |-> {}, removed_utxos |-> {}, detached |-> {},
   blocks |-> blocks, branch_work |-> <<>>]

MayOverlay(lca) ==
  /\ lca \in DOMAIN block_indexes
  /\ Height[lca] <= chain_state.height
  /\ Height[lca] \in DOMAIN heights
  /\ heights[Height[lca]] = lca

\* handle_creates_fork_from_canonical and handle_extends_fork, up to the loop
\* that rewinds the overlay.
BeginFork(b) ==
  /\ \/ Classified(b, "CreatesFork")
     \/ Classified(b, "ExtendsFork")
  /\ LET extends == classify_block(b) = "ExtendsFork"
         lca     == IF extends THEN forks[Parent[b]].ancestor ELSE Parent[b]
     IN  IF lca \in DOMAIN index /\ MayOverlay(lca)
           THEN /\ overlay' = NewOverlay("validate", lca,
                                IF extends THEN forks[Parent[b]].blocks ELSE <<>>)
                /\ current' = b
                /\ pc' = "overlay"
                /\ UNCHANGED <<tables, memory, verdict>>
           ELSE Abort

MayRewind ==
  LET hash == overlay.rewind_tip
  IN  /\ Replayed = 0
      /\ Height[hash] > Height[overlay.lca]
      /\ hash \in DOMAIN block_indexes
      /\ Height[hash] \in DOMAIN heights
      /\ heights[Height[hash]] = hash
      /\ hash \in DOMAIN undo
      /\ undo[hash].created_outpoints \subseteq OverlayUtxos
      /\ overlay.cursor \in DOMAIN index

\* One iteration of build_fork_overlay.
RewindBlock ==
  /\ pc = "overlay"
  /\ overlay.cursor # overlay.lca
  /\ IF MayRewind
       THEN LET u == undo[overlay.rewind_tip]
            IN  /\ overlay' = [overlay EXCEPT
                     !.utxos = (@ \ u.created_outpoints) \cup u.spent_utxos,
                     !.removed_utxos = @ \cup u.created_outpoints,
                     !.detached = @ \cup {overlay.rewind_tip},
                     !.rewind_tip = Parent[@],
                     !.cursor = Parent[@]]
                /\ UNCHANGED <<tables, memory, pc, current, verdict>>
       ELSE Abort

MayReplay(b) ==
  /\ overlay.rewind_tip = overlay.lca
  /\ b # Genesis /\ b \notin Misshapen
  /\ Parent[b] = overlay.branch_tip
  /\ Height[b] = Height[overlay.branch_tip] + 1
  /\ BlockUndo(b).spent_utxos \subseteq OverlayUtxos

WorkBefore(i) == IF i = 1 THEN index[overlay.lca] ELSE overlay.branch_work[i - 1]

\* replay_block for the next block of the fork.
ReplayBlock ==
  /\ pc = "overlay"
  /\ overlay.cursor = overlay.lca
  /\ Replayed < Len(overlay.blocks)
  /\ LET b == overlay.blocks[Replayed + 1]
         u == BlockUndo(b)
     IN  IF MayReplay(b)
           THEN /\ overlay' = [overlay EXCEPT
                     !.utxos = (@ \ u.spent_utxos) \cup u.created_outpoints,
                     !.removed_utxos = @ \cup u.spent_utxos,
                     !.branch_work = Append(@, WorkBefore(Replayed + 1) + Work[b]),
                     !.branch_tip = b]
                /\ UNCHANGED <<tables, memory, pc, current, verdict>>
           ELSE Abort

OverlayReady(goal) ==
  /\ pc = "overlay"
  /\ overlay.goal = goal
  /\ overlay.cursor = overlay.lca
  /\ Replayed = Len(overlay.blocks)

----------------------------------------------------------------------------
\* The rest of the fork handlers

EndOverlay == /\ pc' = "idle"
              /\ current' = Genesis
              /\ overlay' = EmptyOverlay

Extending == overlay.lca # Parent[current]

Disposition == IF Extending THEN "ExtendsFork" ELSE "CreatesFork"

RejectForkBlock ==
  /\ OverlayReady("validate")
  /\ MayReject(current, OverlayHeights, OverlayUtxos)
  /\ verdict' = Verdict(current, Disposition, "Rejected")
  /\ EndOverlay
  /\ UNCHANGED <<tables, memory>>

\* Mutant: the work of the new block is left out.
fork_work_of_parent ==
  IF Extending THEN forks[Parent[current]].work ELSE index[overlay.lca]

fork_work ==
  (IF Extending THEN forks[Parent[current]].work ELSE index[overlay.lca]) + Work[current]

\* Mutant: a tie replaces the canonical chain.
ForkMatches == fork_work >= index[tip]

ForkOutweighs == fork_work > index[tip]

\* The branch is still too light: the entry of the parent makes room for it.
BufferFork ==
  /\ OverlayReady("validate")
  /\ validate(current, OverlayHeights, OverlayUtxos)
  /\ ~ForkOutweighs
  /\ forks' = [t \in (DOMAIN forks \ {Parent[current]}) \cup {current} |->
                 IF t = current
                   THEN [work |-> fork_work, ancestor |-> overlay.lca,
                         blocks |-> Append(overlay.blocks, current)]
                   ELSE forks[t]]
  /\ verdict' = Verdict(current, Disposition, "Buffered")
  /\ EndOverlay
  /\ UNCHANGED <<tables, index, tip>>

\* perform_reorg up to the rewinding of a second overlay.
PrepareReorg ==
  /\ OverlayReady("validate")
  /\ validate(current, OverlayHeights, OverlayUtxos)
  /\ ForkOutweighs
  /\ IF overlay.lca \in DOMAIN index /\ MayOverlay(overlay.lca)
       THEN /\ overlay' = NewOverlay("reorg", overlay.lca, Append(overlay.blocks, current))
            /\ UNCHANGED <<tables, memory, pc, current, verdict>>
       ELSE Abort

----------------------------------------------------------------------------
\* stage_reorganization and the in-memory switch that follows its commit

\* The heights detach_to_ancestor walks over.
DetachedHeights == Height[overlay.lca] + 1 .. chain_state.height

MayReorganize ==
  LET lca == overlay.lca
  IN  /\ verify_current_state
      /\ overlay.rewind_tip = lca
      /\ overlay.blocks # <<>>
      /\ chain_state.hash = overlay.expected_head
      /\ MayOverlay(lca)
      /\ \A h \in DetachedHeights :
           /\ h \in DOMAIN heights
           /\ heights[h] \in DOMAIN block_indexes
           /\ Height[heights[h]] = h
           /\ Parent[heights[h]] = heights[h - 1]
      /\ {heights[h] : h \in DetachedHeights} = overlay.detached
      /\ \A i \in 1..Len(overlay.blocks) :
           LET b == overlay.blocks[i]
           IN  /\ b # Genesis /\ b \notin Misshapen
               /\ Parent[b] = (IF i = 1 THEN lca ELSE overlay.blocks[i - 1])
               /\ Height[b] = Height[lca] + i
               /\ b \in DOMAIN block_indexes =>
                    block_indexes[b] = block_indexes[lca] + (overlay.branch_work[i] - index[lca])

\* Mutant: an output that was removed and put back is still deleted.
RemovedAndPutBack == overlay.removed_utxos \cap utxo

\* ForkDbOverlay::into_delta: changes relative to the tables.
DeltaRemoved == {o \in overlay.removed_utxos : o \notin overlay.utxos /\ o \in utxo}
DeltaPut     == overlay.utxos \ utxo

ReplacedBlocks == {overlay.blocks[i] : i \in 1..Len(overlay.blocks)}
PositionOf(b)  == CHOOSE i \in 1..Len(overlay.blocks) : overlay.blocks[i] = b

\* Mutant: transactions of detached blocks stay indexed.
KeepDetachedTransactions == {}

\* remove_canonical_block: only an entry that names the detached block goes.
DetachedTransactions == {t \in DOMAIN transaction_indexes :
                           /\ transaction_indexes[t] \in overlay.detached
                           /\ t \in TransactionsOf(transaction_indexes[t])}

stage_reorganization ==
  LET lca     == overlay.lca
      last    == Len(overlay.blocks)
      kept    == {h \in DOMAIN heights : h <= Height[lca]}
      base    == block_indexes[lca] - index[lca]
      added   == UNION {TransactionsOf(b) : b \in ReplacedBlocks}
  IN  /\ heights' = [h \in kept \cup (Height[lca] + 1 .. Height[lca] + last) |->
                       IF h \in kept THEN heights[h] ELSE overlay.blocks[h - Height[lca]]]
      /\ utxo' = (utxo \ DeltaRemoved) \cup DeltaPut
      /\ block_indexes' = [b \in DOMAIN block_indexes \cup ReplacedBlocks |->
                             IF b \in ReplacedBlocks
                               THEN base + overlay.branch_work[PositionOf(b)]
                               ELSE block_indexes[b]]
      /\ undo' = [b \in DOMAIN undo \cup ReplacedBlocks |->
                    IF b \in ReplacedBlocks THEN BlockUndo(b) ELSE undo[b]]
      /\ transaction_indexes' =
           [t \in (DOMAIN transaction_indexes \ DetachedTransactions) \cup added |->
              IF t \in added
                THEN overlay.blocks[CHOOSE i \in 1..last :
                       /\ t \in TransactionsOf(overlay.blocks[i])
                       /\ \A j \in i+1..last : t \notin TransactionsOf(overlay.blocks[j])]
                ELSE transaction_indexes[t]]
      /\ chain_state' = [hash |-> overlay.blocks[last], height |-> Height[lca] + last,
                         count |-> Height[lca] + last + 1,
                         work |-> base + overlay.branch_work[last]]

\* Mutant: forks rooted in the detached suffix survive.
ForksNotAttached(canonical) ==
  {t \in DOMAIN forks :
     /\ Extending => t # Parent[current]
     /\ \A i \in DOMAIN forks[t].blocks : forks[t].blocks[i] \notin canonical}

\* Forks whose root was detached, or that are canonical now, are forgotten.
SurvivingForks(canonical) ==
  {t \in DOMAIN forks :
     /\ Extending => t # Parent[current]
     /\ forks[t].ancestor \in canonical
     /\ \A i \in DOMAIN forks[t].blocks : forks[t].blocks[i] \notin canonical}

\* Mutant: only the block that tipped the balance is reported.
ReportLastBlock ==
  [Verdict(current, Disposition, "CausedReorganization") EXCEPT
     !.attached = {current}, !.detached = overlay.detached]

ReorgVerdict ==
  [Verdict(current, Disposition, "CausedReorganization") EXCEPT
     !.attached = ReplacedBlocks, !.detached = overlay.detached]

CommitReorg ==
  /\ OverlayReady("reorg")
  /\ IF MayReorganize
       THEN /\ stage_reorganization
            /\ index' = [b \in (DOMAIN index \ overlay.detached) \cup ReplacedBlocks |->
                           IF b \in ReplacedBlocks
                             THEN overlay.branch_work[PositionOf(b)] ELSE index[b]]
            /\ tip' = recompute_tip(index')
            /\ forks' = [t \in SurvivingForks(DOMAIN index') |-> forks[t]]
            /\ verdict' = ReorgVerdict
            /\ EndOverlay
       ELSE Abort

----------------------------------------------------------------------------
\* Failures

\* A failed read or commit stops the storage handle for good; nothing of the
\* transaction is applied and the node begins to shut down.
StorageFault ==
  /\ pc \in {"opened", "idle", "overlay"}
  /\ pc' = "failed"
  /\ UNCHANGED <<tables, memory, current, overlay, verdict>>

\* The process ends, between any two steps: memory is lost.
Crash ==
  /\ pc # "down"
  /\ pc' = "down"
  /\ index' = NoEntries /\ tip' = Genesis /\ forks' = NoEntries
  /\ current' = Genesis /\ overlay' = EmptyOverlay
  /\ verdict' = NoVerdict
  /\ UNCHANGED tables

----------------------------------------------------------------------------
OnBlock(b) ==
  \/ RejectMalformed(b)
  \/ handle_known(b)
  \/ DropOrphan(b)
  \/ RejectExtension(b)
  \/ handle_extend_canonical(b)
  \/ BeginFork(b)

Startup == stage_genesis \/ build_chain_index

OverlayStep == \/ RewindBlock
               \/ ReplayBlock
               \/ RejectForkBlock
               \/ BufferFork
               \/ PrepareReorg
               \/ CommitReorg

Next == \/ Startup
        \/ \E b \in Blocks : OnBlock(b)
        \/ OverlayStep
        \/ StorageFault
        \/ Crash

Spec == Init /\ [][Next]_vars

----------------------------------------------------------------------------
(***************************************************************************)
(* Properties                                                              *)
(***************************************************************************)

ForkEntryType == [work : Nat, ancestor : Blocks, blocks : Seq(Blocks)]

OverlayType == [goal : {"none", "validate", "reorg"}, lca : Blocks,
                expected_head : Blocks, cursor : Blocks, rewind_tip : Blocks,
                branch_tip : Blocks, utxos : SUBSET DOMAIN Value,
                removed_utxos : SUBSET DOMAIN Value, detached : SUBSET Blocks,
                blocks : Seq(Blocks), branch_work : Seq(Nat)]

UndoType == [spent_utxos : SUBSET DOMAIN Value, created_outpoints : SUBSET DOMAIN Value]

StateType == [hash : Blocks, height : Nat, count : Nat, work : Nat]

Verdicts == {"None", "Rejected", "AlreadyIncludedInChain", "AlreadyKnownInForkTree",
             "Buffered", "Applied", "CausedReorganization"}

Dispositions == {"None", "Known", "ExtendsCanonical", "CreatesFork", "ExtendsFork", "Orphan"}

VerdictType == [block : Blocks, disposition : Dispositions, kind : Verdicts,
                attached : SUBSET Blocks, detached : SUBSET Blocks]

\* The values every table and every in-memory record of the engine can hold.
TypeOK ==
  /\ DOMAIN heights \subseteq Nat
  /\ heights \in [DOMAIN heights -> Blocks]
  /\ DOMAIN block_indexes \subseteq Blocks
  /\ block_indexes \in [DOMAIN block_indexes -> Nat]
  /\ DOMAIN undo \subseteq Blocks
  /\ undo \in [DOMAIN undo -> UndoType]
  /\ utxo \subseteq DOMAIN Value
  /\ DOMAIN transaction_indexes \subseteq DOMAIN Inputs
  /\ transaction_indexes \in [DOMAIN transaction_indexes -> Blocks]
  /\ chain_state \in StateType
  /\ DOMAIN index \subseteq Blocks
  /\ index \in [DOMAIN index -> Nat]
  /\ tip \in Blocks
  /\ DOMAIN forks \subseteq Blocks
  /\ forks \in [DOMAIN forks -> ForkEntryType]
  /\ pc \in {"down", "opened", "idle", "overlay", "failed", "error"}
  /\ current \in Blocks
  /\ overlay \in OverlayType
  /\ verdict \in VerdictType

\* No record the engine or the storage compares with another ever disagrees
\* with it: none of the Corruption and InvalidTransition errors of startup,
\* append, overlay and reorganization can be returned.
SelfChecksHold == pc # "error"

\* The height table is a valid chain from genesis to the recorded tip, and the
\* incrementally updated unspent outputs and work are the ones a replay of that
\* chain from genesis gives, through appends, rewinds and reorganizations.
LedgerIsReplay ==
  IF chain_state.count = 0
    THEN heights = NoEntries /\ utxo = {}
    ELSE /\ IsValidChain(heights)
         /\ DOMAIN heights = 0..chain_state.height
         /\ chain_state.hash = heights[chain_state.height]
         /\ chain_state.work = BranchWork[chain_state.hash]
         /\ utxo = LedgerAt[chain_state.hash]

\* While the engine runs, its index of the canonical chain is exactly the height
\* table of the storage, with the same tip and work: the in-memory switch after
\* a commit never drifts from what was committed.
IndexMatchesStorage ==
  pc \in {"idle", "overlay"} =>
    /\ DOMAIN index = Canonical
    /\ \A b \in Canonical : index[b] = BranchWork[b]
    /\ tip = chain_state.hash

\* Every registered fork is a valid branch that leaves the canonical chain at
\* its recorded ancestor, shares no block with it, carries its true work and
\* does not outweigh the chain it lost against.
ForkRegistrySound ==
  pc \in {"idle", "overlay"} =>
    \A t \in DOMAIN forks :
      LET e == forks[t]
      IN  /\ e.ancestor \in Canonical \ {chain_state.hash}
          /\ e.blocks # <<>>
          /\ e.blocks[Len(e.blocks)] = t
          /\ \A i \in 1..Len(e.blocks) :
               /\ e.blocks[i] \in ValidBlocks \ Canonical
               /\ Parent[e.blocks[i]] = (IF i = 1 THEN e.ancestor ELSE e.blocks[i - 1])
          /\ e.work = BranchWork[t]
          /\ e.work <= chain_state.work

\* A block is validated, and a reorganization prepared, against the unspent
\* outputs of its own branch, never against those of the canonical chain: the
\* overlay shows the state after the block it was rewound or replayed to.
OverlayShowsBranch ==
  pc = "overlay" =>
    OverlayUtxos = LedgerAt[IF Replayed = 0 THEN overlay.rewind_tip ELSE overlay.branch_tip]

\* A transaction is indexed exactly when a canonical block holds it, under such
\* a block, also when both branches of a reorganization hold the transaction.
TxIndexCanonical ==
  /\ DOMAIN transaction_indexes = UNION {TransactionsOf(b) : b \in Canonical}
  /\ \A t \in DOMAIN transaction_indexes :
       /\ transaction_indexes[t] \in Canonical
       /\ t \in TransactionsOf(transaction_indexes[t])

\* No sequence of appends and reorganizations creates more value than the
\* genesis allocation and one subsidy per canonical block.
SupplyBounded ==
  chain_state.count # 0 =>
    TotalValue(utxo) <= TotalValue(LedgerAt[Genesis])
                          + MapThenSumSet(block_subsidy, 1..chain_state.height)

\* The canonical chain changes only for one with strictly more work: a tie
\* never replaces the chain, and no crash or fault loses committed blocks.
WorkStrictlyIncreases ==
  [][heights' # heights /\ chain_state.count # 0 => chain_state'.work > chain_state.work]_vars

\* The transition that on_block reports to mempool, miner and peers is exactly
\* the difference between the old and the new canonical chain.
TransitionDescribesDiff ==
  [][heights' # heights /\ chain_state.count # 0 =>
       /\ verdict'.attached = Canonical' \ Canonical
       /\ verdict'.detached = Canonical \ Canonical']_vars

\* The engine implements the abstract canonical chain.
Abstract == INSTANCE CanonicalChain WITH chain <- heights, ledger <- utxo

Implements == Abstract!Spec

\* Every block whose parent the engine already holds, in the canonical chain or
\* in a registered fork, is connected: only an unknown parent makes an orphan.
OrphanMeansUnknownParent ==
  (pc = "idle" /\ verdict.disposition = "Orphan") =>
    LET p == Parent[verdict.block] IN p \notin DOMAIN index /\ ~has_block(p)

\* UtxoProcessor::rewind_block gives the outputs their state before the block: while
\* an overlay is rewound it shows what was unspent after the block it stands at.
RewindRestores ==
  (pc = "overlay" /\ Replayed = 0) => OverlayUtxos = LedgerAt[overlay.rewind_tip]

(***************************************************************************)
(* Progress.  on_block is synchronous code on a blocking thread: once it   *)
(* has begun it runs to its end, unless storage fails or the process ends. *)
(* Nothing is assumed about which blocks are offered, or how often.        *)
(***************************************************************************)
FairSpec == Spec /\ WF_vars(OverlayStep)

\* A valid fork block that on_block has begun to handle makes a difference if it
\* should: the rewinding and replaying of both overlays ends, and the canonical
\* chain then has at least the work of the branch that ends in the block.
HandledBlockWeighs ==
  \A b \in ValidBlocks \ FutureDated :
    (pc = "overlay" /\ current = b)
      ~> (chain_state.work >= BranchWork[b] \/ pc \in {"failed", "down"})
=============================================================================
