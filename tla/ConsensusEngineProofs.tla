----------------------- MODULE ConsensusEngineProofs -----------------------
(***************************************************************************)
(* Proofs about ConsensusEngine for every block tree that satisfies the    *)
(* assumptions of BlockTree and on which no branch repeats a payment       *)
(* without inputs (NoRepeats, a hypothesis of every theorem).              *)
(***************************************************************************)
EXTENDS ConsensusEngine, BlockTreeProofs

----------------------------------------------------------------------------
(***************************************************************************)
(* The inductive invariant.                                                *)
(***************************************************************************)

\* A fork: a sequence of valid blocks that continues from lca.
Branch(lca, s) ==
  /\ \A i \in 1..Len(s) :
       /\ s[i] \in ValidBlocks \ {Genesis}
       /\ Parent[s[i]] = (IF i = 1 THEN lca ELSE s[i - 1])
       /\ Height[s[i]] = Height[lca] + i
       /\ FirstOf[s[i]] = (IF lca = Genesis THEN s[1] ELSE FirstOf[lca])
       /\ BranchWork[lca] < BranchWork[s[i]]
  /\ \A i, j \in 1..Len(s) : i < j => BranchWork[s[i]] < BranchWork[s[j]]

\* Before genesis is committed the storage is empty.
EmptyInv ==
  /\ pc = "down"
  /\ heights = NoEntries
  /\ DOMAIN block_indexes = {}
  /\ DOMAIN undo = {}
  /\ utxo = {}
  /\ DOMAIN transaction_indexes = {}
  /\ chain_state = NoState

\* The committed chain, its ledger and its work.
ChainInv ==
  /\ IsValidChain(heights)
  /\ DOMAIN heights = 0..chain_state.height
  /\ chain_state.count = chain_state.height + 1
  /\ chain_state.hash = heights[chain_state.height]
  /\ chain_state.work = BranchWork[chain_state.hash]
  /\ utxo = LedgerAt[chain_state.hash]
  /\ \A h \in 1..chain_state.height : FirstOf[heights[h]] = heights[1]
  /\ \A h, k \in 0..chain_state.height :
       h < k => BranchWork[heights[h]] < BranchWork[heights[k]]

\* The records kept by hash, of detached blocks too.
RecordsInv ==
  /\ \A b \in DOMAIN block_indexes : block_indexes[b] = BranchWork[b]
  /\ \A b \in DOMAIN undo : undo[b] = BlockUndo(b)
  /\ \A h \in 0..chain_state.height : heights[h] \in DOMAIN block_indexes
  /\ \A h \in 1..chain_state.height : heights[h] \in DOMAIN undo

\* A registered fork.
ForkInv(t, e) ==
  /\ e.ancestor \in Canonical
  /\ e.ancestor # chain_state.hash
  /\ Len(e.blocks) > 0
  /\ e.blocks[Len(e.blocks)] = t
  /\ Branch(e.ancestor, e.blocks)
  /\ \A i \in 1..Len(e.blocks) : e.blocks[i] \notin Canonical
  /\ e.work = BranchWork[t]
  /\ e.work <= chain_state.work

MemoryInv ==
  /\ DOMAIN index = Canonical
  /\ \A b \in Canonical : index[b] = BranchWork[b]
  /\ tip = chain_state.hash
  /\ \A t \in DOMAIN forks : ForkInv(t, forks[t])

\* The overlay on its way from the tip to the ancestor and up the fork.
OverlayInv ==
  /\ overlay.lca \in Canonical
  /\ overlay.lca # chain_state.hash
  /\ overlay.expected_head = chain_state.hash
  /\ overlay.cursor = overlay.rewind_tip
  /\ overlay.rewind_tip \in Canonical
  /\ Height[overlay.lca] <= Height[overlay.rewind_tip]
  /\ overlay.detached = {heights[h] : h \in Height[overlay.rewind_tip] + 1 .. chain_state.height}
  /\ Branch(overlay.lca, overlay.blocks)
  /\ \A i \in 1..Len(overlay.blocks) : overlay.blocks[i] \notin Canonical
  /\ Replayed <= Len(overlay.blocks)
  /\ Replayed > 0 => overlay.rewind_tip = overlay.lca
  /\ \A i \in 1..Replayed : overlay.branch_work[i] = BranchWork[overlay.blocks[i]]
  /\ overlay.branch_tip = (IF Replayed = 0 THEN overlay.lca ELSE overlay.blocks[Replayed])
  /\ OverlayUtxos = LedgerAt[IF Replayed = 0 THEN overlay.rewind_tip ELSE overlay.branch_tip]

\* The block the overlay was built for.
CurrentInv ==
  /\ current # Genesis
  /\ current \notin Misshapen
  /\ current \notin Canonical
  /\ \A t \in DOMAIN forks : \A i \in 1..Len(forks[t].blocks) : forks[t].blocks[i] # current
  /\ \/ /\ overlay.goal = "validate"
        /\ Height[current] = Height[Parent[current]] + 1
        /\ \/ /\ overlay.blocks = <<>>
              /\ Parent[current] = overlay.lca
           \/ /\ Len(overlay.blocks) > 0
              /\ Parent[current] \in DOMAIN forks
              /\ forks[Parent[current]].ancestor = overlay.lca
              /\ forks[Parent[current]].blocks = overlay.blocks
     \/ /\ overlay.goal = "reorg"
        /\ Len(overlay.blocks) > 0
        /\ overlay.blocks[Len(overlay.blocks)] = current
        /\ BranchWork[current] > chain_state.work

StateInv ==
  \/ EmptyInv
  \/ /\ ChainInv
     /\ RecordsInv
     /\ pc \in {"idle", "overlay"} => MemoryInv
     /\ pc = "overlay" => OverlayInv /\ CurrentInv

IInv == TypeOK /\ SelfChecksHold /\ StateInv

\* A step that replaces the canonical chain by a heavier one and reports it.
ChainSwitch ==
  /\ ChainInv /\ ChainInv'
  /\ chain_state'.work > chain_state.work
  /\ verdict'.attached = Canonical' \ Canonical
  /\ verdict'.detached = Canonical \ Canonical'

----------------------------------------------------------------------------
(***************************************************************************)
(* Facts about the block tree.                                             *)
(***************************************************************************)

\* Outputs are outpoints: the ledger and undo records stay within their type.
LEMMA UndoTyping ==
  ASSUME NEW b \in Blocks
  PROVE  /\ TransactionsOf(b) \subseteq DOMAIN Inputs
         /\ BlockUndo(b) \in UndoType
         /\ BlockUndo(b).spent_utxos \subseteq DOMAIN Value
         /\ BlockUndo(b).created_outpoints \subseteq DOMAIN Value
<1>1. /\ Coinbase[b] \in DOMAIN Inputs
      /\ Payments[b] \subseteq DOMAIN Inputs
  BY TransactionAssumption
<1>2. TransactionsOf(b) \subseteq DOMAIN Inputs
  BY <1>1 DEF TransactionsOf
<1>3. \A t \in DOMAIN Inputs : Inputs[t] \subseteq DOMAIN Value /\ Outputs[t] \subseteq DOMAIN Value
  BY TransactionAssumption
<1>4. SpentIn(b) \subseteq DOMAIN Value
  BY <1>1, <1>3 DEF SpentIn
<1>5. MadeIn(b) \subseteq DOMAIN Value
  BY <1>2, <1>3 DEF MadeIn
<1>. QED  BY <1>2, <1>4, <1>5 DEF BlockUndo, UndoType

\* The ledger of a valid block is its parent's with the block applied, and the block
\* spends only what is there.
LEMMA LedgerStep ==
  ASSUME NEW b \in ValidBlocks, b # Genesis
  PROVE  /\ BlockUndo(b).spent_utxos \subseteq LedgerAt[Parent[b]]
         /\ BlockUndo(b).created_outpoints \subseteq LedgerAt[b]
         /\ LedgerAt[b] = apply_block(b, LedgerAt[Parent[b]])
<1>0. b \in Blocks \ {Genesis}
  BY ReferenceAssumption
<1>1. validate_transactions(b, LedgerAt[Parent[b]]) /\ LedgerAt[b] = apply_block(b, LedgerAt[Parent[b]])
  BY <1>0, ReferenceAssumption
<1>2. SpentIn(b) \subseteq LedgerAt[Parent[b]]
  BY <1>1 DEF validate_transactions, validate_payment_tx, resolve_utxo, SpentIn,
     get_external_dependencies
<1>. QED  BY <1>1, <1>2 DEF BlockUndo, apply_block

\* It creates only what is not there, so undoing it gives the parent's ledger back
\* (UtxoProcessor::rewind_block).
LEMMA LedgerUndo ==
  ASSUME NoRepeats, NEW b \in ValidBlocks, b # Genesis
  PROVE  rewind_block(BlockUndo(b), LedgerAt[b]) = LedgerAt[Parent[b]]
<1> DEFINE L == LedgerAt[Parent[b]]
           sp == BlockUndo(b).spent_utxos
           cr == BlockUndo(b).created_outpoints
<1>1. sp \subseteq L /\ LedgerAt[b] = (L \ sp) \cup cr
  BY LedgerStep DEF apply_block
<1>2. cr \cap L = {}
  BY FreshOutputs
<1>3. rewind_block(BlockUndo(b), LedgerAt[b]) = (LedgerAt[b] \ cr) \cup sp
  BY DEF rewind_block
<1> HIDE DEF L, sp, cr
<1>. QED  BY <1>1, <1>2, <1>3 DEF L

\* A block that passes BlockValidator against the view of a valid branch makes
\* that branch one block longer.
LEMMA ValidExtension ==
  ASSUME NEW b \in Blocks, b # Genesis, b \notin Misshapen,
         Parent[b] \in ValidBlocks,
         Height[b] = Height[Parent[b]] + 1,
         NEW at, validate(b, at, LedgerAt[Parent[b]]),
         Parent[b] # Genesis => at[1] = FirstOf[Parent[b]]
  PROVE  /\ b \in ValidBlocks
         /\ BranchWork[b] = BranchWork[Parent[b]] + Work[b]
         /\ Work[b] > 0
         /\ FirstOf[b] = IF Parent[b] = Genesis THEN b ELSE FirstOf[Parent[b]]
         /\ LedgerAt[b] = apply_block(b, LedgerAt[Parent[b]])
<1>1. /\ b \notin BadBlocks
      /\ verify_hash_threshold(b, at)
      /\ validate_transactions(b, LedgerAt[Parent[b]])
  BY DEF validate, validate_block_structure
<1>2. Parent[b] # Genesis => Anchor[b] = FirstOf[Parent[b]]
  BY <1>1 DEF verify_hash_threshold, next_hash_threshold
<1>3. b \in ValidBlocks
  BY <1>1, <1>2, ReferenceAssumption
<1>. QED  BY <1>3, ReferenceAssumption, TreeAssumption

\* Canonical blocks sit at their own height.
LEMMA CanonicalHeight ==
  ASSUME TypeOK, ChainInv, NEW b \in Canonical
  PROVE  /\ b \in ValidBlocks
         /\ b \in Blocks
         /\ Height[b] \in 0..chain_state.height
         /\ heights[Height[b]] = b
         /\ b # Genesis <=> Height[b] # 0
<1>1. PICK h \in DOMAIN heights : b = heights[h]
  BY DEF Canonical
<1>2. Height[b] = h /\ b \in ValidBlocks
  BY <1>1 DEF ChainInv, IsValidChain
<1>. QED  BY <1>1, <1>2, ReferenceAssumption, TreeAssumption DEF ChainInv, IsValidChain

----------------------------------------------------------------------------
(***************************************************************************)
(* Steps that leave tables and memory alone.                               *)
(***************************************************************************)

\* What on_block returns has the type of a ConsensusVerdict.
LEMMA VerdictTyping ==
  ASSUME NEW b \in Blocks, NEW d \in Dispositions, NEW k \in Verdicts
  PROVE  Verdict(b, d, k) \in VerdictType
BY DEF Verdict, NoVerdict, VerdictType

\* The records of an engine that has not started have their types.
LEMMA EmptyTyping ==
  /\ NoVerdict \in VerdictType
  /\ EmptyOverlay \in OverlayType
  /\ NoState \in StateType
BY TreeAssumption DEF NoVerdict, VerdictType, Dispositions, Verdicts, EmptyOverlay,
   OverlayType, NoState, StateType

\* The invariant of the bookkeeping does not depend on the last verdict.
LEMMA StateInvFrame ==
  ASSUME StateInv, UNCHANGED <<tables, memory, pc, current, overlay>>
  PROVE  StateInv'
BY DEF StateInv, EmptyInv, ChainInv, RecordsInv, MemoryInv, OverlayInv, CurrentInv, ForkInv,
   Canonical, OverlayUtxos, Replayed, tables, memory

\* A step that only reports a verdict.
LEMMA ReportStep ==
  ASSUME IInv, UNCHANGED <<tables, memory, pc, current, overlay>>, verdict' \in VerdictType
  PROVE  IInv'
<1>1. TypeOK'
  BY DEF IInv, TypeOK, tables, memory
<1>2. SelfChecksHold'
  BY DEF IInv, SelfChecksHold
<1>3. StateInv'
  BY StateInvFrame DEF IInv
<1>. QED  BY <1>1, <1>2, <1>3 DEF IInv

\* A new storage without a chain state satisfies the invariant.
LEMMA InitInv == Init => IInv
<1> SUFFICES ASSUME Init PROVE IInv
  OBVIOUS
<1>1. TypeOK
  BY EmptyTyping, TreeAssumption DEF Init, TypeOK, NoEntries
<1>2. SelfChecksHold /\ StateInv
  BY DEF Init, SelfChecksHold, StateInv, EmptyInv, NoEntries
<1>. QED  BY <1>1, <1>2 DEF IInv

\* The branches of on_block that only return a verdict (malformed, known, orphan
\* and rejected blocks) keep the invariant.
LEMMA ReportActions ==
  ASSUME IInv, NEW b \in Blocks,
         RejectMalformed(b) \/ handle_known(b) \/ DropOrphan(b) \/ RejectExtension(b)
  PROVE  IInv'
<1>1. UNCHANGED <<tables, memory, pc, current, overlay>>
  BY DEF RejectMalformed, handle_known, DropOrphan, RejectExtension
<1>2. verdict' \in VerdictType
  BY VerdictTyping DEF RejectMalformed, handle_known, DropOrphan, RejectExtension,
     Dispositions, Verdicts
<1>. QED  BY <1>1, <1>2, ReportStep

\* A failed read or commit (StryiStorage::mark_failed) keeps the invariant.
LEMMA StorageFaultStep == IInv /\ StorageFault => IInv'
<1> SUFFICES ASSUME IInv, StorageFault PROVE IInv'
  OBVIOUS
<1>1. TypeOK' /\ SelfChecksHold'
  BY DEF IInv, TypeOK, SelfChecksHold, StorageFault, tables, memory
<1>2. StateInv'
  BY DEF IInv, StorageFault, StateInv, EmptyInv, ChainInv, RecordsInv, tables, memory
<1>. QED  BY <1>1, <1>2 DEF IInv

\* Losing the memory of the process and keeping the tables keeps the invariant.
LEMMA CrashStep == IInv /\ Crash => IInv'
<1> SUFFICES ASSUME IInv, Crash PROVE IInv'
  OBVIOUS
<1>1. TypeOK'
  BY EmptyTyping, TreeAssumption DEF IInv, TypeOK, Crash, tables, NoEntries
<1>2. SelfChecksHold' /\ StateInv'
  BY DEF IInv, SelfChecksHold, Crash, StateInv, EmptyInv, ChainInv, RecordsInv, tables
<1>. QED  BY <1>1, <1>2 DEF IInv

----------------------------------------------------------------------------
(***************************************************************************)
(* Startup.                                                                *)
(***************************************************************************)

\* The tip, its height entry, its work index and the chain state agree.
LEMMA CurrentStateVerified ==
  ASSUME TypeOK, ChainInv, RecordsInv
  PROVE  verify_current_state
<1>1. chain_state.height \in 0..chain_state.height
  BY DEF TypeOK, StateType
<1>. QED  BY <1>1 DEF verify_current_state, ChainInv, RecordsInv, IsValidChain

\* stage_genesis keeps the invariant, and its verification of a saved chain passes.
LEMMA StageGenesisStep == IInv /\ stage_genesis => IInv'
<1> SUFFICES ASSUME IInv, stage_genesis PROVE IInv'
  OBVIOUS
<1>0. TypeOK /\ StateInv /\ SelfChecksHold
  BY DEF IInv
<1>1. CASE EmptyInv
  <2>1. chain_state.count = 0 /\ verify_initialized_state
    BY <1>1 DEF EmptyInv, NoState, NoEntries, verify_initialized_state
  <2>2. /\ heights' = Put(heights, 0, Genesis)
        /\ block_indexes' = Put(block_indexes, Genesis, 0)
        /\ utxo' = apply_block(Genesis, utxo)
        /\ transaction_indexes' = Put(transaction_indexes, Coinbase[Genesis], Genesis)
        /\ chain_state' = [NoState EXCEPT !.count = 1]
        /\ pc' = "opened"
        /\ UNCHANGED <<undo, memory, current, overlay, verdict>>
    BY <2>1 DEF stage_genesis
  <2>3. /\ DOMAIN heights' = {0} /\ heights'[0] = Genesis
        /\ heights' \in [{0} -> Blocks]
        /\ DOMAIN block_indexes' = {Genesis} /\ block_indexes'[Genesis] = 0
        /\ block_indexes' \in [{Genesis} -> Nat]
    BY <1>1, <2>2, TreeAssumption DEF EmptyInv, NoEntries, Put
  <2>4. /\ chain_state'.hash = Genesis /\ chain_state'.height = 0
        /\ chain_state'.count = 1 /\ chain_state'.work = 0
        /\ chain_state' \in StateType
    BY <2>2, TreeAssumption DEF NoState, StateType
  <2>5. utxo' = LedgerAt[Genesis] /\ utxo' \subseteq DOMAIN Value
    BY <1>1, <2>2, ReferenceAssumption, TreeAssumption DEF EmptyInv
  <2>6. /\ DOMAIN transaction_indexes' \subseteq DOMAIN Inputs
        /\ transaction_indexes' \in [DOMAIN transaction_indexes' -> Blocks]
    BY <1>0, <2>2, TransactionAssumption, TreeAssumption DEF TypeOK, Put
  <2>7. TypeOK'
    BY <1>0, <2>2, <2>3, <2>4, <2>5, <2>6, TreeAssumption DEF TypeOK, memory
  <2>8. ChainInv'
    BY <2>3, <2>4, <2>5, ReferenceAssumption, TreeAssumption DEF ChainInv, IsValidChain
  <2>9. RecordsInv'
    BY <1>1, <2>2, <2>3, <2>4, ReferenceAssumption DEF RecordsInv, EmptyInv
  <2>. QED  BY <2>2, <2>7, <2>8, <2>9 DEF IInv, StateInv, SelfChecksHold
<1>2. CASE ChainInv /\ RecordsInv
  <2>1. chain_state.count # 0 /\ 0 \in DOMAIN heights /\ heights[0] = Genesis
    BY <1>0, <1>2 DEF ChainInv, IsValidChain, TypeOK, StateType
  <2>2. verify_initialized_state
    <3>1. verify_current_state
      BY <1>0, <1>2, CurrentStateVerified
    <3>2. chain_state.height \in Nat /\ DOMAIN heights = 0..chain_state.height
      BY <1>0, <1>2 DEF TypeOK, StateType, ChainInv
    <3>3. \A h \in DOMAIN heights : h <= chain_state.height
      BY <3>2
    <3>4. Genesis \in DOMAIN block_indexes /\ block_indexes[Genesis] = 0
      BY <1>2, <2>1, <3>2, ReferenceAssumption DEF RecordsInv
    <3>. QED  BY <2>1, <3>1, <3>3, <3>4 DEF verify_initialized_state
  <2>3. pc' = "opened" /\ UNCHANGED <<tables, memory, current, overlay, verdict>>
    BY <2>1, <2>2 DEF stage_genesis, tables
  <2>4. TypeOK'
    BY <1>0, <2>3 DEF TypeOK, tables, memory
  <2>5. ChainInv' /\ RecordsInv'
    BY <1>2, <2>3 DEF ChainInv, RecordsInv, tables
  <2>. QED  BY <2>3, <2>4, <2>5 DEF IInv, StateInv, SelfChecksHold
<1>. QED  BY <1>0, <1>1, <1>2 DEF StateInv

\* Work strictly increases along a chain, so the heaviest entry of an index of
\* it is its tip.
LEMMA HeaviestIsTip ==
  ASSUME NEW idx, NEW t \in DOMAIN idx,
         \A b \in DOMAIN idx : idx[b] \in Nat,
         \A b \in DOMAIN idx : b # t => idx[b] < idx[t]
  PROVE  recompute_tip(idx) = t
<1>1. \A y \in DOMAIN idx : idx[y] <= idx[t]
  OBVIOUS
<1>2. \A x \in DOMAIN idx : (\A y \in DOMAIN idx : idx[y] <= idx[x]) => x = t
  OBVIOUS
<1>. QED  BY <1>1, <1>2 DEF recompute_tip

\* StryiConsensusEngine::new finds a history that passes every comparison of
\* rebuild_chain_index, and the index it builds is the stored chain.
LEMMA BuildChainIndexStep == IInv /\ build_chain_index => IInv'
<1> SUFFICES ASSUME IInv, build_chain_index PROVE IInv'
  OBVIOUS
<1>0. TypeOK /\ StateInv /\ SelfChecksHold
  BY DEF IInv
<1>1. ChainInv /\ RecordsInv
  BY <1>0 DEF StateInv, EmptyInv, build_chain_index
<1>2. CanonicalHistoryAgrees
  <2>1. chain_state.height \in Nat
    BY <1>0 DEF TypeOK, StateType
  <2>2. ASSUME NEW h \in 0..chain_state.height
        PROVE  /\ h \in DOMAIN heights
               /\ heights[h] \in DOMAIN block_indexes
               /\ Height[heights[h]] = h
               /\ block_indexes[heights[h]] = BranchWork[heights[h]]
    BY <1>1 DEF ChainInv, RecordsInv, IsValidChain
  <2>3. heights[0] = Genesis /\ block_indexes[heights[0]] = 0
    BY <1>1, <2>1, <2>2, ReferenceAssumption DEF ChainInv, IsValidChain
  <2>4. ASSUME NEW h \in 0..chain_state.height, h # 0
        PROVE  /\ heights[h] \in DOMAIN undo
               /\ Parent[heights[h]] = heights[h - 1]
               /\ block_indexes[heights[h]] = block_indexes[heights[h - 1]] + Work[heights[h]]
    <3>1. h \in 1..chain_state.height /\ h - 1 \in 0..chain_state.height
      BY <2>1, <2>4
    <3>2. heights[h] \in Blocks \ {Genesis}
      BY <1>1, <2>2, <2>4, ReferenceAssumption, TreeAssumption DEF ChainInv, IsValidChain
    <3>3. Parent[heights[h]] = heights[h - 1]
      BY <1>1, <2>4 DEF ChainInv, IsValidChain
    <3>. QED  BY <1>1, <2>2, <3>1, <3>2, <3>3, ReferenceAssumption DEF RecordsInv
  <2>. QED  BY <1>1, <2>1, <2>2, <2>3, <2>4 DEF CanonicalHistoryAgrees, ChainInv
<1>3. /\ index' = [x \in {heights[h] : h \in 0..chain_state.height} |-> block_indexes[x]]
      /\ tip' = recompute_tip(index')
      /\ forks' = NoEntries
      /\ pc' = "idle"
      /\ UNCHANGED <<tables, current, overlay, verdict>>
  BY <1>2 DEF build_chain_index
<1>4. /\ DOMAIN index' = Canonical
      /\ \A b \in Canonical : index'[b] = BranchWork[b]
      /\ Canonical \subseteq Blocks
  BY <1>1, <1>3, ReferenceAssumption DEF Canonical, ChainInv, RecordsInv, IsValidChain
<1>5. tip' = chain_state.hash
  <2>1. chain_state.hash \in Canonical
    BY <1>0, <1>1 DEF Canonical, ChainInv, TypeOK, StateType
  <2>2. \A b \in Canonical : b # chain_state.hash => BranchWork[b] < BranchWork[chain_state.hash]
    BY <1>0, <1>1 DEF Canonical, ChainInv, TypeOK, StateType
  <2>3. \A b \in DOMAIN index' : index'[b] \in Nat
    BY <1>4, ReferenceAssumption
  <2>4. \A b \in DOMAIN index' : b # chain_state.hash => index'[b] < index'[chain_state.hash]
    BY <1>4, <2>1, <2>2
  <2>5. recompute_tip(index') = chain_state.hash
    BY <1>4, <2>1, <2>3, <2>4, HeaviestIsTip
  <2>. QED  BY <1>3, <2>5
<1>6. TypeOK'
  <2>1. index' \in [DOMAIN index' -> Nat] /\ DOMAIN index' \subseteq Blocks
    BY <1>3, <1>4, ReferenceAssumption
  <2>2. tip' \in Blocks
    BY <1>0, <1>5 DEF TypeOK, StateType
  <2>. QED  BY <1>0, <1>3, <2>1, <2>2 DEF TypeOK, tables, NoEntries
<1>7. ChainInv' /\ RecordsInv'
  BY <1>1, <1>3 DEF ChainInv, RecordsInv, tables
<1>8. MemoryInv'
  BY <1>3, <1>4, <1>5 DEF MemoryInv, Canonical, tables, NoEntries
<1>. QED  BY <1>3, <1>6, <1>7, <1>8 DEF IInv, StateInv, SelfChecksHold

----------------------------------------------------------------------------
(***************************************************************************)
(* A block on top of the tip.                                              *)
(***************************************************************************)

\* What routing a block to a handler says about it.
LEMMA RoutedBlock ==
  ASSUME IInv, NEW b \in Blocks, NEW d, Classified(b, d),
         d \in {"ExtendsCanonical", "CreatesFork", "ExtendsFork"}
  PROVE  /\ TypeOK /\ ChainInv /\ RecordsInv /\ MemoryInv
         /\ pc = "idle"
         /\ b # Genesis
         /\ b \notin Misshapen
         /\ b \notin Canonical
         /\ \A t \in DOMAIN forks : \A i \in 1..Len(forks[t].blocks) : forks[t].blocks[i] # b
         /\ Height[b] = Height[Parent[b]] + 1
<1>0. TypeOK /\ StateInv /\ pc = "idle"
  BY DEF IInv, Classified
<1>1. ChainInv /\ RecordsInv /\ MemoryInv
  BY <1>0 DEF StateInv, EmptyInv
<1>2. Genesis \in Canonical
  BY <1>1 DEF ChainInv, IsValidChain, Canonical
<1>3. b \notin DOMAIN index /\ ~has_block(b)
  BY DEF Classified, classify_block
<1>4. b \notin Canonical
  BY <1>1, <1>3 DEF MemoryInv
<1>5. \A t \in DOMAIN forks : \A i \in 1..Len(forks[t].blocks) : forks[t].blocks[i] # b
  <2>1. \A t \in DOMAIN forks : DOMAIN forks[t].blocks = 1..Len(forks[t].blocks)
    BY <1>0 DEF TypeOK, ForkEntryType
  <2>. QED  BY <1>3, <2>1 DEF has_block
<1>6. Height[b] = Height[Parent[b]] + 1
  <2>1. tip \in DOMAIN index
    BY <1>0, <1>1 DEF MemoryInv, ChainInv, Canonical, TypeOK, StateType
  <2>2. Parent[b] \in DOMAIN index \cup DOMAIN forks
    BY <2>1 DEF Classified, classify_block
  <2>. QED  BY <2>2 DEF Classified, validate_height
<1>. QED  BY <1>0, <1>1, <1>2, <1>4, <1>5, <1>6 DEF Classified

\* handle_extend_canonical passes the checks of storage, keeps the invariant and
\* appends one block to the chain.
LEMMA ExtendCanonicalStep ==
  ASSUME IInv, NEW b \in Blocks, handle_extend_canonical(b)
  PROVE  IInv' /\ ChainSwitch
<1> DEFINE H == chain_state.height
<1>0. /\ TypeOK /\ ChainInv /\ RecordsInv /\ MemoryInv
      /\ pc = "idle"
      /\ b # Genesis /\ b \notin Misshapen /\ b \notin Canonical
      /\ \A t \in DOMAIN forks : \A i \in 1..Len(forks[t].blocks) : forks[t].blocks[i] # b
      /\ Height[b] = Height[Parent[b]] + 1
  BY RoutedBlock DEF handle_extend_canonical
<1>1. H \in Nat /\ H \in 0..H
  BY <1>0 DEF TypeOK, StateType
<1>2. Parent[b] = chain_state.hash /\ tip = chain_state.hash
  BY <1>0 DEF handle_extend_canonical, Classified, classify_block, MemoryInv
<1>3. chain_state.hash = heights[H] /\ Height[chain_state.hash] = H /\ chain_state.hash \in ValidBlocks
  BY <1>0, <1>1 DEF ChainInv, IsValidChain
<1>4. Height[b] = H + 1
  BY <1>0, <1>2, <1>3
<1>5. Parent[b] # Genesis => heights[1] = FirstOf[Parent[b]]
  <2>1. heights[0] = Genesis
    BY <1>0 DEF ChainInv, IsValidChain
  <2>. QED  BY <1>0, <1>1, <1>2, <1>3, <2>1 DEF ChainInv
<1>6. /\ b \in ValidBlocks
      /\ BranchWork[b] = chain_state.work + Work[b]
      /\ Work[b] > 0
      /\ FirstOf[b] = IF Parent[b] = Genesis THEN b ELSE FirstOf[Parent[b]]
      /\ LedgerAt[b] = apply_block(b, utxo)
  <2>1. validate(b, heights, LedgerAt[Parent[b]])
    BY <1>0, <1>2 DEF handle_extend_canonical, ChainInv
  <2>2. Parent[b] \in ValidBlocks
    BY <1>2, <1>3
  <2>. QED  BY <1>0, <1>2, <1>5, <2>1, <2>2, ValidExtension DEF ChainInv
<1>6a. BranchWork[b] > chain_state.work /\ chain_state.work \in Nat /\ BranchWork[b] \in Nat
  <2>1. Work[b] \in Nat /\ BranchWork[b] \in Nat
    BY TreeAssumption, ReferenceAssumption
  <2>2. chain_state.work \in Nat
    BY <1>0 DEF TypeOK, StateType
  <2>. QED  BY <1>6, <2>1, <2>2
<1>7. verify_current_state /\ MayAttach(b)
  <2>1. verify_current_state
    BY <1>0, CurrentStateVerified
  <2>2. BlockUndo(b).spent_utxos \subseteq utxo
    BY <1>0, <1>2, <1>6, LedgerStep DEF ChainInv
  <2>3. b \in DOMAIN block_indexes => block_indexes[b] = chain_state.work + Work[b]
    BY <1>0, <1>6 DEF RecordsInv
  <2>4. Height[b] \notin DOMAIN heights
    BY <1>0, <1>1, <1>4 DEF ChainInv
  <2>. QED  BY <1>0, <1>2, <1>4, <2>1, <2>2, <2>3, <2>4 DEF MayAttach, MayPut
<1>8. /\ attach_block(b)
      /\ InsertIntoIndex(b, index[tip] + Work[b])
      /\ verdict' = [Verdict(b, "ExtendsCanonical", "Applied") EXCEPT !.attached = {b}]
      /\ UNCHANGED <<forks, pc, current, overlay>>
  BY <1>7 DEF handle_extend_canonical
<1>9. /\ DOMAIN heights' = 0..H+1
      /\ heights'[H + 1] = b
      /\ \A h \in 0..H : heights'[h] = heights[h]
      /\ heights' \in [DOMAIN heights' -> Blocks]
  BY <1>0, <1>1, <1>4, <1>8 DEF attach_block, Put, ChainInv, TypeOK
<1>10. /\ chain_state' = [hash |-> b, height |-> H + 1, count |-> H + 2, work |-> BranchWork[b]]
       /\ chain_state'.hash = b /\ chain_state'.height = H + 1
       /\ chain_state'.count = H + 2 /\ chain_state'.work = BranchWork[b]
       /\ chain_state' \in StateType
  BY <1>1, <1>4, <1>6, <1>8, ReferenceAssumption DEF attach_block, extended_state, StateType
<1>11. utxo' = LedgerAt[b]
  BY <1>6, <1>8 DEF attach_block
<1>12. /\ DOMAIN block_indexes' = DOMAIN block_indexes \cup {b}
       /\ \A x \in DOMAIN block_indexes' : block_indexes'[x] = BranchWork[x]
       /\ block_indexes' \in [DOMAIN block_indexes' -> Nat]
       /\ DOMAIN block_indexes' \subseteq Blocks
  BY <1>0, <1>6, <1>8, ReferenceAssumption DEF attach_block, Put, RecordsInv, TypeOK
<1>13. /\ DOMAIN undo' = DOMAIN undo \cup {b}
       /\ \A x \in DOMAIN undo' : undo'[x] = BlockUndo(x)
       /\ undo' \in [DOMAIN undo' -> UndoType]
       /\ DOMAIN undo' \subseteq Blocks
  BY <1>0, <1>8, UndoTyping DEF attach_block, Put, RecordsInv, TypeOK
<1>14. Canonical' = Canonical \cup {b}
  <2>1. Canonical' = {heights'[h] : h \in 0..H+1}
    BY <1>9 DEF Canonical
  <2>2. Canonical = {heights[h] : h \in 0..H}
    BY <1>0 DEF Canonical, ChainInv
  <2>3. 0..H+1 = 0..H \cup {H+1}
    BY <1>1
  <2>. QED  BY <1>9, <2>1, <2>2, <2>3
<1>15. /\ DOMAIN index' = Canonical'
       /\ \A x \in Canonical' : index'[x] = BranchWork[x]
       /\ tip' = b
  <2>1. index[tip] = chain_state.work
    BY <1>0, <1>1, <1>2 DEF MemoryInv, ChainInv, Canonical
  <2>2. index' = Put(index, b, BranchWork[b]) /\ tip' = b
    BY <1>0, <1>6, <1>8, <2>1, ReferenceAssumption, TreeAssumption DEF InsertIntoIndex, TypeOK, StateType
  <2>. QED  BY <1>0, <1>14, <2>2 DEF Put, MemoryInv
<1>16. TypeOK'
  <2>1. /\ DOMAIN transaction_indexes' \subseteq DOMAIN Inputs
        /\ transaction_indexes' \in [DOMAIN transaction_indexes' -> Blocks]
    BY <1>0, <1>8, UndoTyping DEF attach_block, TypeOK
  <2>2. utxo' \subseteq DOMAIN Value
    BY <1>11, ReferenceAssumption
  <2>3. verdict' \in VerdictType
    <3>1. Verdict(b, "ExtendsCanonical", "Applied") \in VerdictType
      BY VerdictTyping DEF Dispositions, Verdicts
    <3>. QED  BY <1>8, <3>1 DEF VerdictType
  <2>4. DOMAIN index' \subseteq Blocks /\ index' \in [DOMAIN index' -> Nat]
    <3>1. Canonical' \subseteq Blocks
      BY <1>9 DEF Canonical
    <3>2. index' = [x \in DOMAIN index' |-> index'[x]]
      BY <1>8 DEF InsertIntoIndex, Put
    <3>. QED  BY <1>15, <3>1, <3>2, ReferenceAssumption
  <2>5. DOMAIN heights' \subseteq Nat
    BY <1>1, <1>9
  <2>. QED  BY <1>0, <1>8, <1>9, <1>10, <1>12, <1>13, <1>15, <2>1, <2>2, <2>3, <2>4, <2>5 DEF TypeOK
<1>17. ChainInv'
  <2>1. IsValidChain(heights')
    <3>1. ASSUME NEW h \in DOMAIN heights'
          PROVE  /\ h \in Nat
                 /\ heights'[h] \in ValidBlocks
                 /\ Height[heights'[h]] = h
                 /\ h # 0 => h - 1 \in DOMAIN heights' /\ Parent[heights'[h]] = heights'[h - 1]
      <4>1. CASE h = H + 1
        BY <1>1, <1>2, <1>3, <1>4, <1>6, <1>9, <4>1
      <4>2. CASE h \in 0..H
        <5>1. h # 0 => h - 1 \in 0..H
          BY <1>1, <4>2
        <5>. QED  BY <1>0, <1>1, <1>9, <4>2, <5>1 DEF ChainInv, IsValidChain
      <4>. QED  BY <1>1, <1>9, <4>1, <4>2
    <3>2. 0 \in DOMAIN heights' /\ heights'[0] = Genesis
      BY <1>0, <1>1, <1>9 DEF ChainInv, IsValidChain
    <3>. QED  BY <3>1, <3>2 DEF IsValidChain
  <2>2. \A h \in 1..H+1 : FirstOf[heights'[h]] = heights'[1]
    <3>1. CASE H = 0
      <4>1. Parent[b] = Genesis
        BY <1>0, <1>2, <1>3, <3>1 DEF ChainInv, IsValidChain
      <4>2. \A h \in 1..H+1 : h = H + 1 /\ h = 1
        BY <3>1
      <4>. QED  BY <1>6, <1>9, <4>1, <4>2
    <3>2. CASE H # 0
      <4>1. 1 \in 0..H /\ Parent[b] # Genesis
        BY <1>1, <1>2, <1>3, <3>2, TreeAssumption
      <4>2. FirstOf[b] = heights[1]
        BY <1>5, <1>6, <4>1
      <4>3. \A h \in 1..H+1 : h = H + 1 \/ (h \in 1..H /\ h \in 0..H)
        BY <1>1
      <4>. QED  BY <1>0, <1>9, <4>1, <4>2, <4>3 DEF ChainInv
    <3>. QED  BY <3>1, <3>2
  <2>3. \A h, k \in 0..H+1 : h < k => BranchWork[heights'[h]] < BranchWork[heights'[k]]
    <3> SUFFICES ASSUME NEW h \in 0..H+1, NEW k \in 0..H+1, h < k
                 PROVE  BranchWork[heights'[h]] < BranchWork[heights'[k]]
      OBVIOUS
    <3>0. h \in 0..H /\ heights'[h] = heights[h] /\ heights[h] \in Blocks
      BY <1>0, <1>1, <1>9 DEF ChainInv, IsValidChain, TypeOK
    <3>1. CASE k \in 0..H
      BY <1>0, <1>9, <3>0, <3>1 DEF ChainInv
    <3>2. CASE k = H + 1
      <4>0. BranchWork[heights[h]] \in Nat /\ BranchWork[chain_state.hash] \in Nat
        BY <1>3, <3>0, ReferenceAssumption
      <4>1. BranchWork[heights[h]] <= BranchWork[chain_state.hash]
        <5>1. CASE h = H
          BY <1>3, <4>0, <5>1
        <5>2. CASE h < H
          BY <1>0, <1>1, <1>3, <3>0, <4>0, <5>2 DEF ChainInv
        <5>. QED  BY <1>1, <3>0, <5>1, <5>2
      <4>2. BranchWork[chain_state.hash] < BranchWork[b]
        BY <1>0, <1>6a DEF ChainInv
      <4>. QED  BY <1>3, <1>9, <3>0, <3>2, <4>1, <4>2, ReferenceAssumption
    <3>. QED  BY <1>1, <3>1, <3>2
  <2>4. chain_state'.count = chain_state'.height + 1
    BY <1>1, <1>10
  <2>. QED  BY <1>9, <1>10, <1>11, <2>1, <2>2, <2>3, <2>4 DEF ChainInv
<1>18. RecordsInv'
  <2>1. \A h \in 0..H+1 : heights'[h] \in DOMAIN block_indexes'
    <3>1. \A h \in 0..H+1 : h = H + 1 \/ h \in 0..H
      BY <1>1
    <3>. QED  BY <1>0, <1>9, <1>12, <3>1 DEF RecordsInv
  <2>2. \A h \in 1..H+1 : heights'[h] \in DOMAIN undo'
    <3>1. \A h \in 1..H+1 : h = H + 1 \/ (h \in 1..H /\ h \in 0..H)
      BY <1>1
    <3>. QED  BY <1>0, <1>9, <1>13, <3>1 DEF RecordsInv
  <2>. QED  BY <1>10, <1>12, <1>13, <2>1, <2>2 DEF RecordsInv
<1>19. MemoryInv'
  <2>1. chain_state.hash \in Canonical
    BY <1>0, <1>1, <1>3 DEF Canonical, ChainInv
  <2>2. ASSUME NEW t \in DOMAIN forks' PROVE ForkInv(t, forks[t])'
    <3>1. t \in DOMAIN forks /\ forks' = forks /\ ForkInv(t, forks[t])
      BY <1>0, <1>8, <2>2 DEF MemoryInv
    <3>2. forks[t] \in ForkEntryType
      BY <1>0, <3>1 DEF TypeOK
    <3>3. forks[t].work <= BranchWork[b]
      BY <1>6a, <3>1, <3>2 DEF ForkInv, ForkEntryType
    <3>. QED  BY <1>0, <1>10, <1>14, <3>1, <3>3 DEF ForkInv
  <2>. QED  BY <1>8, <1>10, <1>15, <2>2 DEF MemoryInv
<1>20. verdict'.attached = {b} /\ verdict'.detached = {}
  BY <1>8 DEF Verdict, NoVerdict
<1>21. ChainSwitch
  BY <1>0, <1>6a, <1>10, <1>14, <1>17, <1>20 DEF ChainSwitch
<1>. QED  BY <1>0, <1>8, <1>16, <1>17, <1>18, <1>19, <1>21 DEF IInv, StateInv, SelfChecksHold

----------------------------------------------------------------------------
(***************************************************************************)
(* The overlay.                                                            *)
(***************************************************************************)

\* The stored head is the canonical block of greatest height.
LEMMA TipCanonical ==
  ASSUME TypeOK, ChainInv
  PROVE  /\ chain_state.height \in Nat
         /\ chain_state.hash \in Canonical
         /\ Height[chain_state.hash] = chain_state.height
<1>1. chain_state.height \in Nat /\ chain_state.height \in 0..chain_state.height
  BY DEF TypeOK, StateType
<1>. QED  BY <1>1 DEF ChainInv, IsValidChain, Canonical

\* Storage accepts every canonical block as the root of an overlay.
LEMMA CanonicalMayOverlay ==
  ASSUME TypeOK, ChainInv, RecordsInv, NEW lca \in Canonical
  PROVE  MayOverlay(lca)
<1>1. Height[lca] \in 0..chain_state.height /\ heights[Height[lca]] = lca
  BY CanonicalHeight
<1>2. chain_state.height \in Nat
  BY DEF TypeOK, StateType
<1>. QED  BY <1>1, <1>2 DEF MayOverlay, RecordsInv, ChainInv

\* A new overlay shows the ledger of the tip.
LEMMA FreshOverlay ==
  ASSUME TypeOK, ChainInv, MemoryInv,
         NEW lca \in Canonical, lca # chain_state.hash,
         NEW s \in Seq(Blocks), Branch(lca, s), \A i \in 1..Len(s) : s[i] \notin Canonical,
         NEW g \in {"validate", "reorg"},
         UNCHANGED tables, overlay' = NewOverlay(g, lca, s)
  PROVE  overlay' \in OverlayType /\ OverlayInv'
<1>1. /\ overlay'.lca = lca /\ overlay'.expected_head = chain_state.hash
      /\ overlay'.cursor = chain_state.hash /\ overlay'.rewind_tip = chain_state.hash
      /\ overlay'.branch_tip = lca /\ overlay'.utxos = {} /\ overlay'.removed_utxos = {}
      /\ overlay'.detached = {} /\ overlay'.blocks = s /\ overlay'.branch_work = <<>>
  BY DEF NewOverlay, MemoryInv
<1>2. lca \in Blocks /\ chain_state.hash \in Blocks /\ tip \in Blocks
  BY CanonicalHeight DEF TypeOK, StateType
<1>3. overlay' \in OverlayType
  BY <1>2 DEF NewOverlay, OverlayType
<1>4. Canonical' = Canonical /\ heights' = heights /\ utxo' = utxo /\ chain_state' = chain_state
  BY DEF Canonical, tables
<1>5. chain_state.hash \in Canonical /\ Height[chain_state.hash] = chain_state.height
  BY TipCanonical
<1>6. Height[lca] <= Height[chain_state.hash]
  BY <1>5, CanonicalHeight DEF TypeOK, StateType
<1>7. {heights[h] : h \in Height[chain_state.hash] + 1 .. chain_state.height} = {}
  BY <1>5 DEF TypeOK, StateType
<1>8. Replayed' = 0 /\ 0 <= Len(s)
  BY <1>1 DEF Replayed
<1>9. OverlayUtxos' = LedgerAt[chain_state.hash]
  BY <1>1, <1>4 DEF OverlayUtxos, ChainInv
<1>10. OverlayInv'
  <2>1. overlay'.detached =
          {heights'[h] : h \in Height[overlay'.rewind_tip] + 1 .. chain_state'.height}
    BY <1>1, <1>4, <1>7
  <2>2. \A i \in 1..Replayed' : FALSE
    BY <1>8
  <2>3. Branch(overlay.lca, overlay.blocks)'
    BY <1>1
  <2>4. (\A i \in 1..Len(overlay.blocks) : overlay.blocks[i] \notin Canonical)'
    BY <1>1, <1>4
  <2>5. (OverlayUtxos = LedgerAt[IF Replayed = 0 THEN overlay.rewind_tip ELSE overlay.branch_tip])'
    BY <1>1, <1>8, <1>9
  <2>6. /\ overlay'.lca \in Canonical' /\ overlay'.lca # chain_state'.hash
        /\ overlay'.expected_head = chain_state'.hash
        /\ overlay'.cursor = overlay'.rewind_tip
        /\ overlay'.rewind_tip \in Canonical'
        /\ Height[overlay'.lca] <= Height[overlay'.rewind_tip]
    BY <1>1, <1>4, <1>5, <1>6
  <2>7. Replayed' <= Len(overlay'.blocks) /\ overlay'.branch_tip = overlay'.lca
    BY <1>1, <1>8
  <2>. QED  BY <1>8, <2>1, <2>2, <2>3, <2>4, <2>5, <2>6, <2>7 DEF OverlayInv
<1>. QED  BY <1>3, <1>10

\* The invariants of chain, records and memory read only those variables.
LEMMA MemoryFrame ==
  ASSUME ChainInv, RecordsInv, MemoryInv, UNCHANGED <<tables, memory>>
  PROVE  ChainInv' /\ RecordsInv' /\ MemoryInv'
BY DEF ChainInv, RecordsInv, MemoryInv, ForkInv, Canonical, tables, memory

\* Both fork handlers start on an overlay that storage accepts.
LEMMA BeginForkStep ==
  ASSUME IInv, NEW b \in Blocks, BeginFork(b)
  PROVE  IInv'
<1> DEFINE extends == classify_block(b) = "ExtendsFork"
           lca == IF extends THEN forks[Parent[b]].ancestor ELSE Parent[b]
           s == IF extends THEN forks[Parent[b]].blocks ELSE <<>>
<1>0. /\ TypeOK /\ ChainInv /\ RecordsInv /\ MemoryInv
      /\ pc = "idle"
      /\ b # Genesis /\ b \notin Misshapen /\ b \notin Canonical
      /\ \A t \in DOMAIN forks : \A i \in 1..Len(forks[t].blocks) : forks[t].blocks[i] # b
      /\ Height[b] = Height[Parent[b]] + 1
  BY RoutedBlock DEF BeginFork
<1>1. /\ lca \in Canonical /\ lca # chain_state.hash
      /\ s \in Seq(Blocks) /\ Branch(lca, s)
      /\ \A i \in 1..Len(s) : s[i] \notin Canonical
      /\ \/ s = <<>> /\ Parent[b] = lca
         \/ /\ Len(s) > 0
            /\ Parent[b] \in DOMAIN forks
            /\ forks[Parent[b]].ancestor = lca
            /\ forks[Parent[b]].blocks = s
  <2>1. CASE extends
    <3>1. Parent[b] \in DOMAIN forks
      BY <2>1 DEF classify_block
    <3>2. ForkInv(Parent[b], forks[Parent[b]]) /\ forks[Parent[b]] \in ForkEntryType
      BY <1>0, <3>1 DEF MemoryInv, TypeOK
    <3>. QED  BY <2>1, <3>1, <3>2 DEF ForkInv, ForkEntryType
  <2>2. CASE ~extends
    <3>1. Classified(b, "CreatesFork")
      BY <2>2 DEF BeginFork, Classified
    <3>2. Parent[b] \in DOMAIN index /\ Parent[b] # tip
      BY <3>1 DEF Classified, classify_block
    <3>3. lca = Parent[b] /\ s = <<>>
      BY <2>2
    <3> HIDE DEF s, lca
    <3>4. s \in Seq(Blocks) /\ \A i \in 1..Len(s) : FALSE
      BY <3>3
    <3>5. Branch(lca, s)
      BY <3>4 DEF Branch
    <3>6. lca \in Canonical /\ lca # chain_state.hash
      BY <1>0, <3>2, <3>3 DEF MemoryInv
    <3>. QED  BY <3>3, <3>4, <3>5, <3>6
  <2>. QED  BY <2>1, <2>2
<1>2. lca \in DOMAIN index /\ MayOverlay(lca)
  BY <1>0, <1>1, CanonicalMayOverlay DEF MemoryInv
<1>3. /\ overlay' = NewOverlay("validate", lca, s)
      /\ current' = b
      /\ pc' = "overlay"
      /\ UNCHANGED <<tables, memory, verdict>>
  BY <1>2 DEF BeginFork
<1> HIDE DEF lca, s
<1>4. overlay' \in OverlayType /\ OverlayInv'
  BY <1>0, <1>1, <1>3, FreshOverlay
<1>5. ChainInv' /\ RecordsInv' /\ MemoryInv'
  BY <1>0, <1>3, MemoryFrame
<1>6. overlay'.goal = "validate" /\ overlay'.blocks = s /\ overlay'.lca = lca
  BY <1>3 DEF NewOverlay
<1>7. CurrentInv'
  BY <1>0, <1>1, <1>3, <1>6 DEF CurrentInv, Canonical, tables, memory
<1>8. TypeOK'
  BY <1>0, <1>3, <1>4 DEF TypeOK, tables, memory
<1>. QED  BY <1>3, <1>4, <1>5, <1>7, <1>8 DEF IInv, StateInv, SelfChecksHold

\* What holds whenever a handler works on its overlay.
LEMMA InOverlay ==
  ASSUME IInv, pc = "overlay"
  PROVE  TypeOK /\ ChainInv /\ RecordsInv /\ MemoryInv /\ OverlayInv /\ CurrentInv
BY DEF IInv, StateInv, EmptyInv

\* One iteration of build_fork_overlay moves the overlay from a block to its parent.
LEMMA RewindBlockStep ==
  ASSUME NoRepeats, IInv, RewindBlock
  PROVE  IInv'
<1> DEFINE r == overlay.rewind_tip
           H == chain_state.height
           u == undo[r]
<1>0. pc = "overlay" /\ overlay.cursor # overlay.lca
  BY DEF RewindBlock
<1>1. TypeOK /\ ChainInv /\ RecordsInv /\ MemoryInv /\ OverlayInv /\ CurrentInv
  BY <1>0, InOverlay
<1>2. /\ r \in Canonical /\ overlay.lca \in Canonical /\ r # overlay.lca
      /\ overlay.cursor = r /\ Height[overlay.lca] <= Height[r]
  BY <1>0, <1>1 DEF OverlayInv
<1>3. /\ r \in ValidBlocks /\ r \in Blocks /\ Height[r] \in 0..H /\ heights[Height[r]] = r
      /\ Height[overlay.lca] \in 0..H /\ heights[Height[overlay.lca]] = overlay.lca
  BY <1>1, <1>2, CanonicalHeight
<1>4. H \in Nat
  BY <1>1, TipCanonical
<1>5. Height[overlay.lca] < Height[r] /\ Height[r] \in 1..H /\ Height[r] - 1 \in 0..H
  BY <1>2, <1>3, <1>4
<1>6. r # Genesis
  BY <1>3, <1>5, TreeAssumption
<1>7. Replayed = 0
  <2>1. Replayed \in Nat
    BY <1>1 DEF TypeOK, OverlayType, Replayed
  <2>. QED  BY <1>1, <1>2, <2>1 DEF OverlayInv
<1>8. OverlayUtxos = LedgerAt[r]
  BY <1>1, <1>7 DEF OverlayInv
<1>9. r \in DOMAIN undo /\ u = BlockUndo(r)
  BY <1>1, <1>3, <1>5 DEF RecordsInv
<1>10. /\ u.spent_utxos \subseteq DOMAIN Value /\ u.created_outpoints \subseteq DOMAIN Value
       /\ u.created_outpoints \subseteq LedgerAt[r]
       /\ rewind_block(u, LedgerAt[r]) = LedgerAt[Parent[r]]
  BY <1>3, <1>6, <1>9, LedgerStep, LedgerUndo, UndoTyping
<1>11. MayRewind
  <2>1. r \in DOMAIN block_indexes /\ Height[r] \in DOMAIN heights
    BY <1>1, <1>3 DEF RecordsInv, ChainInv
  <2>2. overlay.cursor \in DOMAIN index
    BY <1>1, <1>2 DEF MemoryInv
  <2>. QED  BY <1>3, <1>5, <1>7, <1>8, <1>9, <1>10, <2>1, <2>2 DEF MayRewind
<1>12. /\ overlay' = [overlay EXCEPT
              !.utxos = (@ \ u.created_outpoints) \cup u.spent_utxos,
              !.removed_utxos = @ \cup u.created_outpoints,
              !.detached = @ \cup {r},
              !.rewind_tip = Parent[@],
              !.cursor = Parent[@]]
       /\ UNCHANGED <<tables, memory, pc, current, verdict>>
  BY <1>11 DEF RewindBlock
<1> HIDE DEF u
<1>13. /\ overlay'.goal = overlay.goal /\ overlay'.lca = overlay.lca
       /\ overlay'.expected_head = overlay.expected_head
       /\ overlay'.cursor = Parent[r] /\ overlay'.rewind_tip = Parent[r]
       /\ overlay'.branch_tip = overlay.branch_tip
       /\ overlay'.utxos = (overlay.utxos \ u.created_outpoints) \cup u.spent_utxos
       /\ overlay'.removed_utxos = overlay.removed_utxos \cup u.created_outpoints
       /\ overlay'.detached = overlay.detached \cup {r}
       /\ overlay'.blocks = overlay.blocks /\ overlay'.branch_work = overlay.branch_work
  BY <1>1, <1>2, <1>12 DEF TypeOK, OverlayType
<1>14. Parent[r] \in Blocks /\ Parent[r] = heights[Height[r] - 1] /\ Height[Parent[r]] = Height[r] - 1
  <2>1. Height[r] \in DOMAIN heights /\ Height[r] # 0
    BY <1>1, <1>3, <1>5 DEF ChainInv
  <2>2. Height[r] - 1 \in DOMAIN heights /\ Parent[heights[Height[r]]] = heights[Height[r] - 1]
    BY <1>1, <2>1 DEF ChainInv, IsValidChain
  <2>3. Height[heights[Height[r] - 1]] = Height[r] - 1
    BY <1>1, <2>2 DEF ChainInv, IsValidChain
  <2>4. Parent[r] \in Blocks
    BY <1>3, TreeAssumption
  <2>. QED  BY <1>3, <2>2, <2>3, <2>4
<1>15. overlay' \in OverlayType
  BY <1>1, <1>2, <1>3, <1>10, <1>12, <1>14 DEF TypeOK, OverlayType
<1>16. TypeOK'
  BY <1>1, <1>12, <1>15 DEF TypeOK, tables, memory
<1>17. ChainInv' /\ RecordsInv' /\ MemoryInv'
  BY <1>1, <1>12, MemoryFrame
<1>18. Canonical' = Canonical /\ heights' = heights /\ utxo' = utxo /\ chain_state' = chain_state
  BY <1>12 DEF Canonical, tables
<1>19. OverlayUtxos' = LedgerAt[Parent[r]]
  <2>1. OverlayUtxos' = rewind_block(u, OverlayUtxos)
    BY <1>13, <1>18 DEF OverlayUtxos, rewind_block
  <2>. QED  BY <1>8, <1>10, <2>1
<1>20. Replayed' = 0
  BY <1>7, <1>13 DEF Replayed
<1>21. overlay'.detached = {heights[h] : h \in Height[Parent[r]] + 1 .. H}
  <2>1. overlay.detached = {heights[h] : h \in Height[r] + 1 .. H}
    BY <1>1 DEF OverlayInv
  <2>2. Height[Parent[r]] + 1 .. H = (Height[r] + 1 .. H) \cup {Height[r]}
    BY <1>4, <1>5, <1>14
  <2>. QED  BY <1>3, <1>13, <2>1, <2>2
<1>22. Parent[r] \in Canonical /\ Height[overlay.lca] <= Height[Parent[r]]
  BY <1>1, <1>3, <1>4, <1>5, <1>14 DEF Canonical, ChainInv
<1>23. OverlayInv'
  <2>1. overlay'.detached =
          {heights'[h] : h \in Height[overlay'.rewind_tip] + 1 .. chain_state'.height}
    BY <1>13, <1>18, <1>21
  <2>2. \A i \in 1..Replayed' : FALSE
    BY <1>20
  <2>3. overlay'.branch_tip = overlay'.lca
    BY <1>1, <1>7, <1>13 DEF OverlayInv
  <2>4. Replayed' <= Len(overlay'.blocks)
    BY <1>1, <1>7, <1>13, <1>20 DEF OverlayInv
  <2>5. Branch(overlay.lca, overlay.blocks)'
    BY <1>1, <1>13 DEF OverlayInv
  <2>6. (\A i \in 1..Len(overlay.blocks) : overlay.blocks[i] \notin Canonical)'
    BY <1>1, <1>13, <1>18 DEF OverlayInv
  <2>7. (OverlayUtxos = LedgerAt[IF Replayed = 0 THEN overlay.rewind_tip ELSE overlay.branch_tip])'
    BY <1>13, <1>19, <1>20
  <2>8. /\ overlay'.lca \in Canonical' /\ overlay'.lca # chain_state'.hash
        /\ overlay'.expected_head = chain_state'.hash
    BY <1>1, <1>13, <1>18 DEF OverlayInv
  <2>. QED  BY <1>13, <1>18, <1>20, <1>22, <2>1, <2>2, <2>3, <2>4, <2>5, <2>6, <2>7, <2>8
            DEF OverlayInv
<1>24. CurrentInv'
  BY <1>1, <1>12, <1>13, <1>18 DEF CurrentInv, tables, memory
<1>. QED  BY <1>0, <1>12, <1>16, <1>17, <1>23, <1>24 DEF IInv, StateInv, SelfChecksHold

\* ForkDbOverlay::replay_block moves the overlay to the next block of the fork.
LEMMA ReplayBlockStep == IInv /\ ReplayBlock => IInv'
<1> SUFFICES ASSUME IInv, ReplayBlock PROVE IInv'
  OBVIOUS
<1> DEFINE n == Replayed
           b == overlay.blocks[n + 1]
           sp == BlockUndo(b).spent_utxos
           cr == BlockUndo(b).created_outpoints
           w == WorkBefore(n + 1) + Work[b]
<1>0. pc = "overlay" /\ overlay.cursor = overlay.lca /\ n < Len(overlay.blocks)
  BY DEF ReplayBlock
<1>1. TypeOK /\ ChainInv /\ RecordsInv /\ MemoryInv /\ OverlayInv /\ CurrentInv
  BY <1>0, InOverlay
<1>2. /\ overlay.blocks \in Seq(Blocks) /\ overlay.branch_work \in Seq(Nat)
      /\ n \in Nat /\ Len(overlay.blocks) \in Nat
  BY <1>1 DEF TypeOK, OverlayType, Replayed
<1>3. n + 1 \in 1..Len(overlay.blocks) /\ (n > 0 => n \in 1..Len(overlay.blocks) /\ n \in 1..n)
  BY <1>0, <1>2
<1>4. /\ b \in ValidBlocks /\ b # Genesis /\ b \in Blocks
      /\ Parent[b] = (IF n = 0 THEN overlay.lca ELSE overlay.blocks[n])
      /\ Height[b] = Height[overlay.lca] + (n + 1)
  <2>1. Branch(overlay.lca, overlay.blocks)
    BY <1>1 DEF OverlayInv
  <2>2. n + 1 = 1 <=> n = 0
    BY <1>2
  <2>. QED  BY <1>2, <1>3, <2>1, <2>2, ReferenceAssumption DEF Branch
<1>5. overlay.branch_tip = Parent[b]
  BY <1>1, <1>4 DEF OverlayInv
<1>6. overlay.lca \in Blocks /\ Height[overlay.lca] \in Nat /\ overlay.lca \in Canonical
  <2>1. overlay.lca \in Canonical
    BY <1>1 DEF OverlayInv
  <2>2. overlay.lca \in Blocks
    BY <1>1, <2>1, CanonicalHeight
  <2>. QED  BY <2>1, <2>2, TreeAssumption
<1>7. Height[b] = Height[Parent[b]] + 1
  BY <1>4, ReferenceAssumption
<1>8. OverlayUtxos = LedgerAt[Parent[b]]
  <2>1. overlay.rewind_tip = overlay.lca
    BY <1>0, <1>1 DEF OverlayInv
  <2>2. OverlayUtxos = LedgerAt[IF n = 0 THEN overlay.rewind_tip ELSE overlay.branch_tip]
    BY <1>1 DEF OverlayInv
  <2>. QED  BY <1>4, <1>5, <2>1, <2>2
<1>9. /\ sp \subseteq LedgerAt[Parent[b]] /\ LedgerAt[b] = apply_block(b, LedgerAt[Parent[b]])
      /\ sp \subseteq DOMAIN Value /\ cr \subseteq DOMAIN Value
  BY <1>4, LedgerStep, UndoTyping
<1>10. MayReplay(b)
  <2>1. overlay.rewind_tip = overlay.lca
    BY <1>0, <1>1 DEF OverlayInv
  <2>2. b \notin Misshapen
    BY <1>4, ReferenceAssumption
  <2>. QED  BY <1>4, <1>5, <1>7, <1>8, <1>9, <2>1, <2>2 DEF MayReplay
<1>11. w = BranchWork[b] /\ w \in Nat
  <2>1. BranchWork[b] = BranchWork[Parent[b]] + Work[b] /\ BranchWork[b] \in Nat
    BY <1>4, ReferenceAssumption
  <2>2. CASE n = 0
    BY <1>1, <1>4, <1>6, <2>1, <2>2 DEF WorkBefore, MemoryInv
  <2>3. CASE n # 0
    <3>1. overlay.branch_work[n] = BranchWork[overlay.blocks[n]]
      BY <1>1, <1>2, <1>3, <2>3 DEF OverlayInv
    <3>2. (n + 1) - 1 = n /\ n + 1 # 1
      BY <1>2, <2>3
    <3>3. WorkBefore(n + 1) = overlay.branch_work[n]
      BY <3>2 DEF WorkBefore
    <3>. QED  BY <1>4, <2>1, <2>3, <3>1, <3>3
  <2>. QED  BY <2>2, <2>3
<1>12. /\ overlay' = [overlay EXCEPT
              !.utxos = (@ \ sp) \cup cr,
              !.removed_utxos = @ \cup sp,
              !.branch_work = Append(@, w),
              !.branch_tip = b]
       /\ UNCHANGED <<tables, memory, pc, current, verdict>>
  BY <1>10 DEF ReplayBlock
<1> HIDE DEF n, b, sp, cr, w
<1>13. /\ overlay'.goal = overlay.goal /\ overlay'.lca = overlay.lca
       /\ overlay'.expected_head = overlay.expected_head
       /\ overlay'.cursor = overlay.cursor /\ overlay'.rewind_tip = overlay.rewind_tip
       /\ overlay'.branch_tip = b
       /\ overlay'.utxos = (overlay.utxos \ sp) \cup cr
       /\ overlay'.removed_utxos = overlay.removed_utxos \cup sp
       /\ overlay'.detached = overlay.detached
       /\ overlay'.blocks = overlay.blocks /\ overlay'.branch_work = Append(overlay.branch_work, w)
  BY <1>1, <1>12 DEF TypeOK, OverlayType
<1>14. Append(overlay.branch_work, w) \in Seq(Nat)
  BY <1>2, <1>11
<1>15. overlay' \in OverlayType
  BY <1>1, <1>4, <1>9, <1>12, <1>14 DEF TypeOK, OverlayType
<1>16. TypeOK'
  BY <1>1, <1>12, <1>15 DEF TypeOK, tables, memory
<1>17. ChainInv' /\ RecordsInv' /\ MemoryInv'
  BY <1>1, <1>12, MemoryFrame
<1>18. Canonical' = Canonical /\ heights' = heights /\ utxo' = utxo /\ chain_state' = chain_state
  BY <1>12 DEF Canonical, tables
<1>19. OverlayUtxos' = LedgerAt[b]
  <2>1. OverlayUtxos' = (OverlayUtxos \ sp) \cup cr
    BY <1>13, <1>18 DEF OverlayUtxos
  <2>2. LedgerAt[b] = (LedgerAt[Parent[b]] \ sp) \cup cr
    BY <1>9 DEF apply_block, sp, cr
  <2>. QED  BY <1>8, <2>1, <2>2
<1>20. Replayed' = n + 1
  BY <1>2, <1>11, <1>13 DEF Replayed, n
<1>21. \A i \in 1..n+1 : overlay'.branch_work[i] = BranchWork[overlay.blocks[i]]
  <2> SUFFICES ASSUME NEW i \in 1..n+1
               PROVE  overlay'.branch_work[i] = BranchWork[overlay.blocks[i]]
    OBVIOUS
  <2>0. n = Len(overlay.branch_work)
    BY DEF n, Replayed
  <2>1. CASE i = n + 1
    BY <1>2, <1>11, <1>13, <2>0, <2>1 DEF b
  <2>2. CASE i \in 1..n
    <3>1. overlay'.branch_work[i] = overlay.branch_work[i]
      BY <1>2, <1>11, <1>13, <2>0, <2>2
    <3>. QED  BY <1>1, <2>2, <3>1 DEF OverlayInv, n
  <2>. QED  BY <1>2, <2>1, <2>2
<1>22. OverlayInv'
  <2>1. overlay'.detached =
          {heights'[h] : h \in Height[overlay'.rewind_tip] + 1 .. chain_state'.height}
    BY <1>1, <1>13, <1>18 DEF OverlayInv
  <2>2. (\A i \in 1..Replayed : overlay.branch_work[i] = BranchWork[overlay.blocks[i]])'
    BY <1>13, <1>20, <1>21
  <2>3. overlay'.branch_tip = (IF Replayed' = 0 THEN overlay'.lca ELSE overlay'.blocks[Replayed'])
    BY <1>2, <1>13, <1>20 DEF b
  <2>4. Replayed' <= Len(overlay'.blocks) /\ overlay'.rewind_tip = overlay'.lca
    <3>1. n + 1 <= Len(overlay.blocks)
      BY <1>0, <1>2
    <3>2. overlay.rewind_tip = overlay.lca
      BY <1>0, <1>1 DEF OverlayInv
    <3>. QED  BY <1>13, <1>20, <3>1, <3>2
  <2>5. Branch(overlay.lca, overlay.blocks)'
    BY <1>1, <1>13 DEF OverlayInv
  <2>6. (\A i \in 1..Len(overlay.blocks) : overlay.blocks[i] \notin Canonical)'
    BY <1>1, <1>13, <1>18 DEF OverlayInv
  <2>7. (OverlayUtxos = LedgerAt[IF Replayed = 0 THEN overlay.rewind_tip ELSE overlay.branch_tip])'
    BY <1>2, <1>13, <1>19, <1>20
  <2>8. /\ overlay'.lca \in Canonical' /\ overlay'.lca # chain_state'.hash
        /\ overlay'.expected_head = chain_state'.hash
        /\ overlay'.cursor = overlay'.rewind_tip
        /\ overlay'.rewind_tip \in Canonical'
        /\ Height[overlay'.lca] <= Height[overlay'.rewind_tip]
    BY <1>1, <1>13, <1>18 DEF OverlayInv
  <2>. QED  BY <2>1, <2>2, <2>3, <2>4, <2>5, <2>6, <2>7, <2>8 DEF OverlayInv
<1>23. CurrentInv'
  BY <1>1, <1>12, <1>13, <1>18 DEF CurrentInv, tables, memory
<1>. QED  BY <1>0, <1>12, <1>16, <1>17, <1>22, <1>23 DEF IInv, StateInv, SelfChecksHold

----------------------------------------------------------------------------
(***************************************************************************)
(* Losing and winning forks.                                               *)
(***************************************************************************)

\* A fork block that fails validate_for_fork changes nothing but the verdict.
LEMMA RejectForkBlockStep == IInv /\ RejectForkBlock => IInv'
<1> SUFFICES ASSUME IInv, RejectForkBlock PROVE IInv'
  OBVIOUS
<1>1. TypeOK /\ ChainInv /\ RecordsInv /\ MemoryInv
  BY InOverlay DEF RejectForkBlock, OverlayReady
<1>2. /\ pc' = "idle" /\ current' = Genesis /\ overlay' = EmptyOverlay
      /\ UNCHANGED <<tables, memory>>
      /\ verdict' = Verdict(current, Disposition, "Rejected")
  BY DEF RejectForkBlock, EndOverlay
<1>3. verdict' \in VerdictType
  <2>1. current \in Blocks /\ Disposition \in Dispositions /\ "Rejected" \in Verdicts
    BY <1>1 DEF TypeOK, Disposition, Dispositions, Verdicts
  <2>. QED  BY <1>2, <2>1, VerdictTyping
<1>4. TypeOK'
  BY <1>1, <1>2, <1>3, EmptyTyping, TreeAssumption DEF TypeOK, tables, memory
<1>5. ChainInv' /\ RecordsInv' /\ MemoryInv'
  BY <1>1, <1>2, MemoryFrame
<1>. QED  BY <1>2, <1>4, <1>5 DEF IInv, StateInv, SelfChecksHold

\* One more valid block on a branch is a branch.
LEMMA BranchAppend ==
  ASSUME NEW lca \in Blocks, NEW s \in Seq(Blocks), Branch(lca, s),
         NEW c \in ValidBlocks, c # Genesis,
         Parent[c] = (IF Len(s) = 0 THEN lca ELSE s[Len(s)]),
         Height[c] = Height[Parent[c]] + 1
  PROVE  Branch(lca, Append(s, c)) /\ Append(s, c) \in Seq(Blocks)
<1> DEFINE n == Len(s)
           q == Append(s, c)
<1>0. c \in Blocks /\ n \in Nat /\ n = Len(s)
  BY ReferenceAssumption
<1>1. /\ q \in Seq(Blocks) /\ Len(q) = n + 1
      /\ q[n + 1] = c /\ \A i \in 1..n : q[i] = s[i]
  BY <1>0
<1>2. \A i \in 1..n+1 : i = n + 1 \/ i \in 1..n
  BY <1>0
<1>3. Height[lca] \in Nat /\ BranchWork[lca] \in Nat /\ BranchWork[c] \in Nat /\ Work[c] \in Nat /\ Work[c] > 0
  BY <1>0, TreeAssumption, ReferenceAssumption
<1>4. BranchWork[c] = BranchWork[Parent[c]] + Work[c]
  BY <1>0, ReferenceAssumption
<1>5. FirstOf[c] = IF Parent[c] = Genesis THEN c ELSE FirstOf[Parent[c]]
  BY <1>0, ReferenceAssumption
<1> HIDE DEF n, q
<1>6. /\ Height[c] = Height[lca] + (n + 1)
      /\ FirstOf[c] = (IF lca = Genesis THEN q[1] ELSE FirstOf[lca])
      /\ BranchWork[lca] < BranchWork[c]
      /\ \A i \in 1..n : BranchWork[s[i]] < BranchWork[c]
  <2>1. CASE n = 0
    <3>1. Parent[c] = lca /\ q[1] = c /\ 1..n = {}
      BY <1>0, <1>1, <2>1
    <3>. QED  BY <1>3, <1>4, <1>5, <2>1, <3>1
  <2>2. CASE n # 0
    <3>1. n \in 1..n /\ 1 \in 1..n /\ Parent[c] = s[n]
      BY <1>0, <2>2
    <3>2. /\ s[n] # Genesis /\ Height[s[n]] = Height[lca] + n
          /\ FirstOf[s[n]] = (IF lca = Genesis THEN s[1] ELSE FirstOf[lca])
          /\ BranchWork[lca] < BranchWork[s[n]]
      BY <1>0, <3>1 DEF Branch
    <3>3. s[n] \in Blocks /\ BranchWork[s[n]] \in Nat
      BY <1>0, <3>1, ReferenceAssumption
    <3>4. BranchWork[s[n]] < BranchWork[c]
      BY <1>3, <1>4, <3>1, <3>3
    <3>5. ASSUME NEW i \in 1..n PROVE BranchWork[s[i]] < BranchWork[c]
      <4>1. s[i] \in Blocks /\ BranchWork[s[i]] \in Nat
        BY <1>0, <3>5, ReferenceAssumption
      <4>2. i < n => BranchWork[s[i]] < BranchWork[s[n]]
        BY <1>0, <3>1, <3>5 DEF Branch
      <4>. QED  BY <1>0, <1>3, <3>3, <3>4, <4>1, <4>2
    <3>6. Height[c] = Height[lca] + (n + 1)
      <4>1. Height[c] = (Height[lca] + n) + 1
        BY <3>1, <3>2
      <4>2. (Height[lca] + n) + 1 = Height[lca] + (n + 1)
        BY <1>0, <1>3
      <4>. QED  BY <4>1, <4>2
    <3>7. FirstOf[c] = (IF lca = Genesis THEN q[1] ELSE FirstOf[lca])
      BY <1>1, <1>5, <3>1, <3>2
    <3>8. BranchWork[lca] < BranchWork[c]
      BY <1>3, <3>2, <3>3, <3>4
    <3>. QED  BY <3>5, <3>6, <3>7, <3>8
  <2>. QED  BY <2>1, <2>2
<1>7. ASSUME NEW i \in 1..n+1
      PROVE  /\ q[i] \in ValidBlocks \ {Genesis}
             /\ Parent[q[i]] = (IF i = 1 THEN lca ELSE q[i - 1])
             /\ Height[q[i]] = Height[lca] + i
             /\ FirstOf[q[i]] = (IF lca = Genesis THEN q[1] ELSE FirstOf[lca])
             /\ BranchWork[lca] < BranchWork[q[i]]
  <2>1. CASE i = n + 1
    <3>1. Parent[c] = (IF n + 1 = 1 THEN lca ELSE q[(n + 1) - 1])
      <4>1. n # 0 => n \in 1..n /\ (n + 1) - 1 = n
        BY <1>0
      <4>. QED  BY <1>0, <1>1, <4>1
    <3>. QED  BY <1>1, <1>6, <2>1, <3>1
  <2>2. CASE i \in 1..n
    <3>1. i # 1 => i - 1 \in 1..n
      BY <1>0, <2>2
    <3>2. q[1] = s[1]
      BY <1>0, <1>1, <2>2
    <3>. QED  BY <1>0, <1>1, <2>2, <3>1, <3>2 DEF Branch
  <2>. QED  BY <1>2, <2>1, <2>2
<1>8. ASSUME NEW i \in 1..n+1, NEW j \in 1..n+1, i < j
      PROVE  BranchWork[q[i]] < BranchWork[q[j]]
  <2>1. i \in 1..n
    BY <1>0, <1>8
  <2>2. CASE j = n + 1
    BY <1>1, <1>6, <2>1, <2>2
  <2>3. CASE j \in 1..n
    BY <1>0, <1>1, <1>8, <2>1, <2>3 DEF Branch
  <2>. QED  BY <1>2, <2>2, <2>3
<1>9. Branch(lca, q)
  BY <1>1, <1>7, <1>8 DEF Branch
<1>. QED  BY <1>1, <1>9 DEF q

\* A block that passes validation in the overlay of its fork is valid on its own
\* branch, continues the fork and has the work that the handler computes for it.
LEMMA ForkBlockValid ==
  ASSUME IInv, OverlayReady("validate"), validate(current, OverlayHeights, OverlayUtxos)
  PROVE  /\ TypeOK /\ ChainInv /\ RecordsInv /\ MemoryInv /\ OverlayInv /\ CurrentInv
         /\ current \in ValidBlocks /\ current \in Blocks
         /\ Append(overlay.blocks, current) \in Seq(Blocks)
         /\ Len(Append(overlay.blocks, current)) > 0
         /\ Append(overlay.blocks, current)[Len(Append(overlay.blocks, current))] = current
         /\ Branch(overlay.lca, Append(overlay.blocks, current))
         /\ \A i \in 1..Len(Append(overlay.blocks, current)) :
              Append(overlay.blocks, current)[i] \notin Canonical
         /\ fork_work = BranchWork[current]
         /\ index[tip] = chain_state.work
<1> DEFINE lca == overlay.lca
           s == overlay.blocks
           n == Len(s)
           p == Parent[current]
<1>0. pc = "overlay" /\ overlay.goal = "validate" /\ overlay.cursor = lca /\ Replayed = n
  BY DEF OverlayReady
<1>1. TypeOK /\ ChainInv /\ RecordsInv /\ MemoryInv /\ OverlayInv /\ CurrentInv
  BY <1>0, InOverlay
<1>2. /\ s \in Seq(Blocks) /\ n \in Nat /\ current \in Blocks
      /\ current # Genesis /\ current \notin Misshapen /\ current \notin Canonical
      /\ Height[current] = Height[p] + 1
      /\ lca \in Canonical /\ overlay.rewind_tip = lca
      /\ Branch(lca, s) /\ \A i \in 1..n : s[i] \notin Canonical
  BY <1>0, <1>1 DEF TypeOK, OverlayType, CurrentInv, OverlayInv
<1>3. /\ lca \in ValidBlocks /\ lca \in Blocks /\ Height[lca] \in 0..chain_state.height
      /\ heights[Height[lca]] = lca /\ (lca # Genesis <=> Height[lca] # 0)
      /\ chain_state.height \in Nat
  BY <1>1, <1>2, CanonicalHeight, TipCanonical
<1>4. \/ n = 0 /\ p = lca
      \/ /\ n > 0 /\ p = s[n] /\ n \in 1..n /\ 1 \in 1..n
         /\ p \in DOMAIN forks /\ forks[p].work = BranchWork[p]
  <2>1. CASE s = <<>> /\ p = lca
    BY <2>1
  <2>2. CASE n > 0 /\ p \in DOMAIN forks /\ forks[p].blocks = s
    <3>1. ForkInv(p, forks[p])
      BY <1>1, <2>2 DEF MemoryInv
    <3>. QED  BY <1>2, <2>2, <3>1 DEF ForkInv
  <2>. QED  BY <1>0, <1>1, <2>1, <2>2 DEF CurrentInv
<1>5. OverlayUtxos = LedgerAt[p]
  <2>1. overlay.branch_tip = (IF n = 0 THEN lca ELSE s[n])
    BY <1>0, <1>1 DEF OverlayInv
  <2>2. OverlayUtxos = LedgerAt[IF n = 0 THEN lca ELSE overlay.branch_tip]
    BY <1>0, <1>1, <1>2 DEF OverlayInv
  <2>. QED  BY <1>2, <1>4, <2>1, <2>2
<1>6. p \in ValidBlocks
  BY <1>2, <1>3, <1>4 DEF Branch
<1> HIDE DEF lca, s, n, p
<1>7. p # Genesis => OverlayHeights[1] = FirstOf[p]
  <2> SUFFICES ASSUME p # Genesis PROVE OverlayHeights[1] = FirstOf[p]
    OBVIOUS
  <2>1. OverlayHeights =
          [h \in {k \in DOMAIN heights : k <= Height[lca]} \cup (Height[lca] + 1 .. Height[lca] + n) |->
             IF h <= Height[lca] THEN heights[h] ELSE s[h - Height[lca]]]
    BY <1>0 DEF OverlayHeights, lca, s
  <2>2. CASE Height[lca] = 0
    <3>1. lca = Genesis /\ n > 0 /\ p = s[n] /\ n \in 1..n
      BY <1>3, <1>4, <2>2
    <3>2. 1 \in Height[lca] + 1 .. Height[lca] + n /\ ~(1 <= Height[lca]) /\ 1 - Height[lca] = 1
      BY <1>2, <2>2, <3>1
    <3>3. OverlayHeights[1] = s[1]
      BY <2>1, <3>2
    <3>4. FirstOf[s[n]] = s[1]
      BY <1>2, <3>1 DEF Branch, n
    <3>. QED  BY <3>1, <3>3, <3>4
  <2>3. CASE Height[lca] # 0
    <3>1. 1 \in DOMAIN heights /\ 1 <= Height[lca] /\ Height[lca] \in 1..chain_state.height
      BY <1>1, <1>3, <2>3 DEF ChainInv
    <3>2. OverlayHeights[1] = heights[1]
      BY <2>1, <3>1
    <3>3. FirstOf[lca] = heights[1]
      BY <1>1, <1>3, <3>1 DEF ChainInv
    <3>4. n > 0 /\ n \in 1..n => FirstOf[s[n]] = FirstOf[lca]
      BY <1>2, <1>3, <2>3 DEF Branch, n
    <3>. QED  BY <1>4, <3>2, <3>3, <3>4
  <2>. QED  BY <2>2, <2>3
<1>8. /\ current \in ValidBlocks
      /\ BranchWork[current] = BranchWork[p] + Work[current]
  <2>1. validate(current, OverlayHeights, LedgerAt[Parent[current]])
    BY <1>5 DEF p
  <2>. QED  BY <1>2, <1>6, <1>7, <2>1, ValidExtension DEF p
<1>9. Branch(lca, Append(s, current)) /\ Append(s, current) \in Seq(Blocks)
  <2>1. Parent[current] = (IF Len(s) = 0 THEN lca ELSE s[Len(s)])
    BY <1>2, <1>4 DEF p, n
  <2>2. Height[current] = Height[Parent[current]] + 1
    BY <1>2 DEF p
  <2>. QED  BY <1>2, <1>3, <1>8, <2>1, <2>2, BranchAppend
<1>10. /\ Len(Append(s, current)) = n + 1 /\ n + 1 > 0
       /\ Append(s, current)[n + 1] = current
       /\ \A i \in 1..n : Append(s, current)[i] = s[i]
  BY <1>2 DEF n
<1>11. \A i \in 1..n+1 : Append(s, current)[i] \notin Canonical
  <2>1. \A i \in 1..n+1 : i = n + 1 \/ i \in 1..n
    BY <1>2
  <2>. QED  BY <1>2, <1>10, <2>1
<1>12. fork_work = BranchWork[current]
  <2>1. CASE n = 0 /\ p = lca
    <3>1. ~Extending
      BY <2>1 DEF Extending, p, lca
    <3>2. index[lca] = BranchWork[lca]
      BY <1>1, <1>2 DEF MemoryInv
    <3>. QED  BY <1>8, <2>1, <3>1, <3>2 DEF fork_work, lca
  <2>2. CASE n > 0 /\ p = s[n] /\ n \in 1..n /\ forks[p].work = BranchWork[p]
    <3>1. Extending
      BY <1>2, <2>2 DEF Extending, p, lca
    <3>. QED  BY <1>8, <2>2, <3>1 DEF fork_work, p
  <2>. QED  BY <1>4, <2>1, <2>2
<1>13. index[tip] = chain_state.work
  BY <1>1, TipCanonical DEF MemoryInv, ChainInv
<1>. QED  BY <1>1, <1>2, <1>8, <1>9, <1>10, <1>11, <1>12, <1>13 DEF lca, s

\* ForkRegistry keeps only sound entries when a light fork is inserted.
LEMMA BufferForkStep == IInv /\ BufferFork => IInv'
<1> SUFFICES ASSUME IInv, BufferFork PROVE IInv'
  OBVIOUS
<1> DEFINE q == Append(overlay.blocks, current)
           e == [work |-> fork_work, ancestor |-> overlay.lca, blocks |-> q]
<1>0. OverlayReady("validate") /\ validate(current, OverlayHeights, OverlayUtxos) /\ ~ForkOutweighs
  BY DEF BufferFork
<1>1. /\ TypeOK /\ ChainInv /\ RecordsInv /\ MemoryInv /\ OverlayInv
      /\ current \in Blocks
      /\ q \in Seq(Blocks) /\ Len(q) > 0 /\ q[Len(q)] = current
      /\ Branch(overlay.lca, q)
      /\ \A i \in 1..Len(q) : q[i] \notin Canonical
      /\ fork_work = BranchWork[current]
      /\ index[tip] = chain_state.work
  BY <1>0, ForkBlockValid
<1>2. /\ forks' = [t \in (DOMAIN forks \ {Parent[current]}) \cup {current} |->
                     IF t = current THEN e ELSE forks[t]]
      /\ verdict' = Verdict(current, Disposition, "Buffered")
      /\ pc' = "idle" /\ current' = Genesis /\ overlay' = EmptyOverlay
      /\ UNCHANGED <<tables, index, tip>>
  BY DEF BufferFork, EndOverlay
<1>3. /\ e.work = BranchWork[current] /\ e.ancestor = overlay.lca /\ e.blocks = q
      /\ e \in ForkEntryType
  <2>1. overlay.lca \in Blocks /\ BranchWork[current] \in Nat
    BY <1>1, ReferenceAssumption DEF TypeOK, OverlayType
  <2>. QED  BY <1>1, <2>1 DEF ForkEntryType
<1> HIDE DEF q, e
<1>4. BranchWork[current] <= chain_state.work
  <2>1. BranchWork[current] \in Nat /\ chain_state.work \in Nat
    BY <1>1, ReferenceAssumption DEF TypeOK, StateType
  <2>2. ~(BranchWork[current] > chain_state.work)
    BY <1>0, <1>1 DEF ForkOutweighs
  <2>. QED  BY <2>1, <2>2
<1>5. verdict' \in VerdictType
  <2>1. Disposition \in Dispositions /\ "Buffered" \in Verdicts
    BY DEF Disposition, Dispositions, Verdicts
  <2>. QED  BY <1>1, <1>2, <2>1, VerdictTyping
<1>6. DOMAIN forks' \subseteq Blocks /\ forks' \in [DOMAIN forks' -> ForkEntryType]
  BY <1>1, <1>2, <1>3 DEF TypeOK
<1>7. TypeOK'
  BY <1>1, <1>2, <1>5, <1>6, EmptyTyping, TreeAssumption DEF TypeOK, tables
<1>8. ChainInv' /\ RecordsInv'
  BY <1>1, <1>2 DEF ChainInv, RecordsInv, tables
<1>9. Canonical' = Canonical /\ chain_state' = chain_state
  BY <1>2 DEF Canonical, tables
<1>10. ASSUME NEW t \in DOMAIN forks' PROVE ForkInv(t, forks[t])'
  <2>1. CASE t = current
    <3>1. forks'[t] = e
      BY <1>2, <2>1
    <3>2. e.ancestor \in Canonical /\ e.ancestor # chain_state.hash
      BY <1>1, <1>3 DEF OverlayInv
    <3>. QED  BY <1>1, <1>3, <1>4, <1>9, <2>1, <3>1, <3>2 DEF ForkInv
  <2>2. CASE t # current
    <3>1. t \in DOMAIN forks /\ forks'[t] = forks[t]
      BY <1>2, <2>2
    <3>2. ForkInv(t, forks[t])
      BY <1>1, <3>1 DEF MemoryInv
    <3>. QED  BY <1>9, <3>1, <3>2 DEF ForkInv
  <2>. QED  BY <2>1, <2>2
<1>11. MemoryInv'
  BY <1>1, <1>2, <1>9, <1>10 DEF MemoryInv
<1>. QED  BY <1>2, <1>7, <1>8, <1>11 DEF IInv, StateInv, SelfChecksHold

\* perform_reorg starts on a second overlay that storage accepts.
LEMMA PrepareReorgStep == IInv /\ PrepareReorg => IInv'
<1> SUFFICES ASSUME IInv, PrepareReorg PROVE IInv'
  OBVIOUS
<1> DEFINE q == Append(overlay.blocks, current)
<1>0. OverlayReady("validate") /\ validate(current, OverlayHeights, OverlayUtxos) /\ ForkOutweighs
  BY DEF PrepareReorg
<1>1. /\ TypeOK /\ ChainInv /\ RecordsInv /\ MemoryInv /\ OverlayInv /\ CurrentInv
      /\ q \in Seq(Blocks) /\ Len(q) > 0 /\ q[Len(q)] = current
      /\ Branch(overlay.lca, q)
      /\ \A i \in 1..Len(q) : q[i] \notin Canonical
      /\ fork_work = BranchWork[current]
      /\ index[tip] = chain_state.work
  BY <1>0, ForkBlockValid
<1>2. overlay.lca \in Canonical /\ overlay.lca # chain_state.hash
  BY <1>1 DEF OverlayInv
<1>3. overlay.lca \in DOMAIN index /\ MayOverlay(overlay.lca)
  BY <1>1, <1>2, CanonicalMayOverlay DEF MemoryInv
<1>4. /\ overlay' = NewOverlay("reorg", overlay.lca, q)
      /\ UNCHANGED <<tables, memory, pc, current, verdict>>
  BY <1>3 DEF PrepareReorg
<1> HIDE DEF q
<1>5. overlay' \in OverlayType /\ OverlayInv'
  BY <1>1, <1>2, <1>4, FreshOverlay
<1>6. ChainInv' /\ RecordsInv' /\ MemoryInv'
  BY <1>1, <1>4, MemoryFrame
<1>7. overlay'.goal = "reorg" /\ overlay'.blocks = q
  BY <1>4 DEF NewOverlay
<1>8. BranchWork[current] > chain_state.work
  BY <1>0, <1>1 DEF ForkOutweighs
<1>9. CurrentInv'
  BY <1>1, <1>4, <1>7, <1>8 DEF CurrentInv, Canonical, tables, memory
<1>10. TypeOK'
  BY <1>1, <1>4, <1>5 DEF TypeOK, tables, memory
<1>. QED  BY <1>0, <1>4, <1>5, <1>6, <1>9, <1>10 DEF IInv, StateInv, SelfChecksHold, OverlayReady

----------------------------------------------------------------------------
(***************************************************************************)
(* The reorganization.                                                     *)
(***************************************************************************)

\* A nonempty set of positions has a last one.
LEMMA LastPosition ==
  ASSUME NEW n \in Nat, NEW S \in SUBSET (1..n), S # {}
  PROVE  \E i \in S : \A j \in i+1..n : j \notin S
<1> DEFINE R == {ss \in Nat \X Nat : ss[1] < ss[2]}
           T == {n - i : i \in S}
<1>1. R = OpToRel(<, Nat)
  BY Zenon DEF OpToRel
<1>2. IsWellFoundedOn(R, Nat)
  BY <1>1, NatLessThanWellFounded, Zenon
<1>3. T \subseteq Nat /\ T # {}
  <2>1. \A i \in S : n - i \in Nat
    OBVIOUS
  <2>. QED  BY <2>1
<1> HIDE DEF R, T
<1>4. PICK x \in T : \A y \in T : <<y, x>> \notin R
  BY <1>2, <1>3, WFMin
<1>5. PICK i \in S : x = n - i
  BY DEF T
<1>6. \A j \in S : n - j \in T /\ n - j \in Nat /\ n - i \in Nat /\ ~(n - j < n - i)
  BY <1>3, <1>4, <1>5 DEF T, R
<1>7. \A j \in i+1..n : j \notin S
  BY <1>6
<1>. QED  BY <1>7

\* The canonical chain cut at an ancestor and continued by a fork is a chain.
LEMMA SwitchedChain ==
  ASSUME TypeOK, ChainInv, NEW lca \in Canonical,
         NEW s \in Seq(Blocks), Branch(lca, s),
         NEW c, DOMAIN c = 0..Height[lca] + Len(s),
         \A h \in 0..Height[lca] : c[h] = heights[h],
         \A i \in 1..Len(s) : c[Height[lca] + i] = s[i]
  PROVE  /\ IsValidChain(c)
         /\ \A h \in 1..Height[lca] + Len(s) : FirstOf[c[h]] = c[1]
         /\ \A h, k \in 0..Height[lca] + Len(s) :
              h < k => BranchWork[c[h]] < BranchWork[c[k]]
<1> DEFINE L == Height[lca]
           n == Len(s)
<1>0. /\ L \in 0..chain_state.height /\ heights[L] = lca /\ lca \in Blocks
      /\ (lca # Genesis <=> L # 0) /\ chain_state.height \in Nat /\ n \in Nat /\ L \in Nat
  BY CanonicalHeight, TipCanonical
<1>1. \A h \in 0..L+n : h \in 0..L \/ \E i \in 1..n : h = L + i
  <2> SUFFICES ASSUME NEW h \in 0..L+n, h \notin 0..L PROVE \E i \in 1..n : h = L + i
    OBVIOUS
  <2>1. h - L \in 1..n /\ h = L + (h - L)
    BY <1>0
  <2>. QED  BY <2>1
<1>2. ASSUME NEW h \in 0..L
      PROVE  /\ c[h] = heights[h] /\ h \in 0..chain_state.height /\ h \in Nat
             /\ c[h] \in ValidBlocks /\ c[h] \in Blocks /\ Height[c[h]] = h
             /\ h # 0 => h - 1 \in 0..L /\ Parent[c[h]] = c[h - 1]
             /\ BranchWork[c[h]] \in Nat
  <2>1. c[h] = heights[h] /\ h \in 0..chain_state.height /\ (h # 0 => h - 1 \in 0..L)
    BY <1>0, <1>2
  <2>2. h \in DOMAIN heights
    BY <2>1 DEF ChainInv
  <2>3. c[h] \in ValidBlocks /\ Height[c[h]] = h /\ (h # 0 => Parent[c[h]] = heights[h - 1])
    BY <2>1, <2>2 DEF ChainInv, IsValidChain
  <2>. QED  BY <2>1, <2>3, ReferenceAssumption
<1> HIDE DEF L, n
<1>3. ASSUME NEW i \in 1..n
      PROVE  /\ c[L + i] = s[i] /\ s[i] \in ValidBlocks /\ s[i] \in Blocks
             /\ Height[s[i]] = L + i
             /\ Parent[s[i]] = c[(L + i) - 1]
             /\ FirstOf[s[i]] = (IF lca = Genesis THEN s[1] ELSE FirstOf[lca])
             /\ BranchWork[lca] < BranchWork[s[i]]
             /\ BranchWork[s[i]] \in Nat
  <2>1. /\ c[L + i] = s[i] /\ s[i] \in ValidBlocks
        /\ Height[s[i]] = L + i
        /\ Parent[s[i]] = (IF i = 1 THEN lca ELSE s[i - 1])
        /\ FirstOf[s[i]] = (IF lca = Genesis THEN s[1] ELSE FirstOf[lca])
        /\ BranchWork[lca] < BranchWork[s[i]]
    BY <1>3 DEF Branch, L, n
  <2>2. CASE i = 1
    <3>1. (L + i) - 1 = L /\ L \in 0..L
      BY <1>0, <2>2
    <3>. QED  BY <1>0, <1>2, <2>1, <2>2, <3>1, ReferenceAssumption
  <2>3. CASE i # 1
    <3>1. (L + i) - 1 = L + (i - 1) /\ i - 1 \in 1..n
      BY <1>0, <2>3
    <3>2. c[L + (i - 1)] = s[i - 1]
      BY <3>1 DEF L, n
    <3>. QED  BY <2>1, <2>3, <3>1, <3>2, ReferenceAssumption
  <2>. QED  BY <2>2, <2>3
<1>4. IsValidChain(c)
  <2>1. DOMAIN c = 0..L+n
    BY DEF L, n
  <2>2. 0 \in DOMAIN c /\ c[0] = Genesis
    <3>1. 0 \in 0..L /\ 0 \in 0..L+n
      BY <1>0
    <3>2. heights[0] = Genesis
      BY DEF ChainInv, IsValidChain
    <3>. QED  BY <1>2, <2>1, <3>1, <3>2
  <2>3. ASSUME NEW h \in DOMAIN c
        PROVE  /\ h \in Nat /\ c[h] \in ValidBlocks /\ Height[c[h]] = h
               /\ h # 0 => h - 1 \in DOMAIN c /\ Parent[c[h]] = c[h - 1]
    <3>0. h \in Nat /\ (h # 0 => h - 1 \in DOMAIN c)
      <4>1. h \in 0..L+n
        BY <2>1, <2>3
      <4>2. L + n \in Nat
        BY <1>0
      <4>3. h \in Nat /\ (h # 0 => h - 1 \in 0..L+n)
        BY <4>1, <4>2
      <4>. QED  BY <2>1, <4>3
    <3>1. CASE h \in 0..L
      BY <1>2, <3>0, <3>1
    <3>2. CASE \E i \in 1..n : h = L + i
      BY <1>3, <3>0, <3>2
    <3>. QED  BY <1>1, <2>1, <3>1, <3>2
  <2>. QED  BY <2>2, <2>3 DEF IsValidChain
<1>5. ASSUME NEW h \in 1..L+n PROVE FirstOf[c[h]] = c[1]
  <2>0. h \in 0..L+n
    BY <1>0, <1>5
  <2>1. CASE L = 0
    <3>1. PICK i \in 1..n : h = L + i
      BY <1>0, <1>1, <1>5, <2>0, <2>1
    <3>2. lca = Genesis /\ 1 \in 1..n /\ L + 1 = 1
      BY <1>0, <2>1, <3>1
    <3>. QED  BY <1>3, <3>1, <3>2
  <2>2. CASE L # 0
    <3>1. 1 \in 0..L /\ lca # Genesis /\ L \in 1..chain_state.height
      BY <1>0, <2>2
    <3>2. FirstOf[lca] = heights[1] /\ c[1] = heights[1]
      BY <1>0, <1>2, <3>1 DEF ChainInv
    <3>3. CASE h \in 0..L
      <4>1. h \in 1..chain_state.height
        BY <1>0, <1>5, <3>3
      <4>. QED  BY <1>2, <3>2, <3>3, <4>1 DEF ChainInv
    <3>4. CASE \E i \in 1..n : h = L + i
      BY <1>3, <3>1, <3>2, <3>4
    <3>. QED  BY <1>1, <2>0, <3>3, <3>4
  <2>. QED  BY <2>1, <2>2
<1>6. ASSUME NEW h \in 0..L+n, NEW k \in 0..L+n, h < k
      PROVE  BranchWork[c[h]] < BranchWork[c[k]]
  <2>0. BranchWork[lca] \in Nat
    BY <1>0, ReferenceAssumption
  <2>1. CASE k \in 0..L
    <3>1. h \in 0..L
      BY <1>0, <1>6, <2>1
    <3>. QED  BY <1>2, <1>6, <2>1, <3>1 DEF ChainInv
  <2>2. CASE \E i \in 1..n : k = L + i
    <3>1. PICK i \in 1..n : k = L + i
      BY <2>2
    <3>2. CASE h \in 0..L
      <4>1. BranchWork[c[h]] <= BranchWork[lca]
        <5>1. CASE h = L
          BY <1>0, <1>2, <2>0, <3>2, <5>1
        <5>2. CASE h < L
          <6>1. BranchWork[heights[h]] < BranchWork[heights[L]]
            BY <1>0, <1>2, <3>2, <5>2 DEF ChainInv
          <6>. QED  BY <1>0, <1>2, <2>0, <3>2, <6>1
        <5>. QED  BY <1>0, <3>2, <5>1, <5>2
      <4>. QED  BY <1>2, <1>3, <2>0, <3>1, <3>2, <4>1
    <3>3. CASE \E j \in 1..n : h = L + j
      <4>1. PICK j \in 1..n : h = L + j
        BY <3>3
      <4>2. j < i
        BY <1>0, <1>6, <3>1, <4>1
      <4>3. BranchWork[s[j]] < BranchWork[s[i]]
        BY <3>1, <4>1, <4>2 DEF Branch, n
      <4>. QED  BY <1>3, <3>1, <4>1, <4>3
    <3>. QED  BY <1>1, <3>2, <3>3
  <2>. QED  BY <1>1, <2>1, <2>2
<1>. QED  BY <1>4, <1>5, <1>6 DEF L, n

\* When both loops over the overlay are done, storage finds nothing to object to.
LEMMA ReorgReady ==
  ASSUME IInv, OverlayReady("reorg")
  PROVE  /\ TypeOK /\ ChainInv /\ RecordsInv /\ MemoryInv /\ OverlayInv /\ CurrentInv
         /\ overlay.blocks \in Seq(Blocks) /\ Len(overlay.blocks) \in Nat
         /\ Len(overlay.blocks) > 0
         /\ overlay.blocks[Len(overlay.blocks)] = current
         /\ current \in Blocks /\ current \notin Canonical
         /\ BranchWork[current] > chain_state.work
         /\ overlay.lca \in Canonical
         /\ Branch(overlay.lca, overlay.blocks)
         /\ \A i \in 1..Len(overlay.blocks) :
              overlay.branch_work[i] = BranchWork[overlay.blocks[i]]
         /\ overlay.detached =
              {heights[h] : h \in Height[overlay.lca] + 1 .. chain_state.height}
         /\ OverlayUtxos = LedgerAt[current]
         /\ MayReorganize
<1> DEFINE lca == overlay.lca
           s == overlay.blocks
           n == Len(s)
<1>0. pc = "overlay" /\ overlay.goal = "reorg" /\ overlay.cursor = lca /\ Replayed = n
  BY DEF OverlayReady
<1>1. TypeOK /\ ChainInv /\ RecordsInv /\ MemoryInv /\ OverlayInv /\ CurrentInv
  BY <1>0, InOverlay
<1>2. /\ s \in Seq(Blocks) /\ n \in Nat /\ current \in Blocks /\ current \notin Canonical
      /\ n > 0 /\ s[n] = current /\ BranchWork[current] > chain_state.work
  BY <1>0, <1>1 DEF TypeOK, OverlayType, CurrentInv
<1>3. /\ lca \in Canonical /\ overlay.rewind_tip = lca /\ Branch(lca, s)
      /\ \A i \in 1..n : overlay.branch_work[i] = BranchWork[s[i]]
      /\ overlay.detached = {heights[h] : h \in Height[lca] + 1 .. chain_state.height}
      /\ chain_state.hash = overlay.expected_head
  BY <1>0, <1>1 DEF OverlayInv
<1>4. OverlayUtxos = LedgerAt[current]
  <2>1. overlay.branch_tip = s[n] /\ OverlayUtxos = LedgerAt[overlay.branch_tip]
    BY <1>0, <1>1, <1>2 DEF OverlayInv
  <2>. QED  BY <1>2, <2>1
<1>5. /\ Height[lca] \in 0..chain_state.height /\ lca \in Blocks
      /\ chain_state.height \in Nat
      /\ heights[Height[lca]] = lca
  BY <1>1, <1>3, CanonicalHeight, TipCanonical
<1>6. verify_current_state /\ MayOverlay(lca)
  BY <1>1, <1>3, CurrentStateVerified, CanonicalMayOverlay
<1> HIDE DEF lca, s, n
<1>7. ASSUME NEW h \in Height[lca] + 1 .. chain_state.height
      PROVE  /\ h \in DOMAIN heights
             /\ heights[h] \in DOMAIN block_indexes
             /\ Height[heights[h]] = h
             /\ Parent[heights[h]] = heights[h - 1]
  <2>1. h \in 0..chain_state.height /\ h # 0
    BY <1>5, <1>7
  <2>. QED  BY <1>1, <2>1 DEF ChainInv, RecordsInv, IsValidChain
<1>8. ASSUME NEW i \in 1..n
      PROVE  /\ s[i] # Genesis /\ s[i] \notin Misshapen
             /\ Parent[s[i]] = (IF i = 1 THEN lca ELSE s[i - 1])
             /\ Height[s[i]] = Height[lca] + i
             /\ s[i] \in DOMAIN block_indexes =>
                  block_indexes[s[i]] = block_indexes[lca] + (overlay.branch_work[i] - index[lca])
  <2>1. /\ Parent[s[i]] = (IF i = 1 THEN lca ELSE s[i - 1])
        /\ Height[s[i]] = Height[lca] + i /\ s[i] \in Blocks
    BY <1>3, <1>8, ReferenceAssumption DEF Branch, n
  <2>2. block_indexes[lca] = BranchWork[lca] /\ index[lca] = BranchWork[lca]
    BY <1>1, <1>3, <1>6 DEF MayOverlay, RecordsInv, MemoryInv
  <2>3. BranchWork[lca] \in Nat /\ BranchWork[s[i]] \in Nat
    BY <1>5, <2>1, ReferenceAssumption
  <2>4. BranchWork[s[i]] = BranchWork[lca] + (BranchWork[s[i]] - BranchWork[lca])
    BY <2>3
  <2>5. s[i] \in DOMAIN block_indexes => block_indexes[s[i]] = BranchWork[s[i]]
    BY <1>1 DEF RecordsInv
  <2>6. s[i] # Genesis
    BY <1>5, <1>8, <2>1, TreeAssumption DEF n
  <2>7. s[i] \notin Misshapen
    BY <1>3, <1>8, <2>1, <2>6, ReferenceAssumption DEF Branch, n
  <2>. QED  BY <1>3, <2>1, <2>2, <2>4, <2>5, <2>6, <2>7
<1>9. s # <<>>
  BY <1>2 DEF n
<1>10. MayReorganize
  BY <1>3, <1>6, <1>7, <1>8, <1>9 DEF MayReorganize, DetachedHeights, lca, s, n
<1>. QED  BY <1>1, <1>2, <1>3, <1>4, <1>10 DEF lca, s, n

\* stage_reorganization accepts the delta; the commit and the switch of index, tip
\* and fork registry after it keep the invariant and give a heavier chain.
LEMMA CommitReorgStep ==
  ASSUME IInv, CommitReorg
  PROVE  IInv' /\ ChainSwitch
<1> DEFINE lca == overlay.lca
           L == Height[lca]
           H == chain_state.height
           s == overlay.blocks
           n == Len(s)
<1>0. /\ TypeOK /\ ChainInv /\ RecordsInv /\ MemoryInv /\ OverlayInv /\ CurrentInv
      /\ s \in Seq(Blocks) /\ n \in Nat /\ n > 0 /\ s[n] = current
      /\ current \in Blocks /\ current \notin Canonical
      /\ BranchWork[current] > chain_state.work
      /\ lca \in Canonical /\ Branch(lca, s)
      /\ \A i \in 1..n : overlay.branch_work[i] = BranchWork[s[i]]
      /\ overlay.detached = {heights[h] : h \in L + 1 .. H}
      /\ OverlayUtxos = LedgerAt[current]
      /\ MayReorganize
  BY ReorgReady DEF CommitReorg
<1>1. /\ stage_reorganization
      /\ index' = [b \in (DOMAIN index \ overlay.detached) \cup ReplacedBlocks |->
                     IF b \in ReplacedBlocks
                       THEN overlay.branch_work[PositionOf(b)] ELSE index[b]]
      /\ tip' = recompute_tip(index')
      /\ forks' = [t \in SurvivingForks(DOMAIN index') |-> forks[t]]
      /\ verdict' = ReorgVerdict
      /\ pc' = "idle" /\ current' = Genesis /\ overlay' = EmptyOverlay
  BY <1>0 DEF CommitReorg, EndOverlay
<1>2. /\ L \in 0..H /\ L \in Nat /\ H \in Nat /\ heights[L] = lca /\ lca \in Blocks
      /\ n \in 1..n /\ L + n \in Nat
  BY <1>0, CanonicalHeight, TipCanonical
<1>3. \A i \in 1..n : s[i] \in Blocks /\ BranchWork[s[i]] \in Nat
  BY <1>0, ReferenceAssumption
<1>4. /\ ReplacedBlocks = {s[i] : i \in 1..n}
      /\ ReplacedBlocks \subseteq Blocks
      /\ \A b \in ReplacedBlocks : overlay.branch_work[PositionOf(b)] = BranchWork[b]
  <2>1. ReplacedBlocks = {s[i] : i \in 1..n}
    BY DEF ReplacedBlocks
  <2>2. ASSUME NEW b \in ReplacedBlocks
        PROVE  PositionOf(b) \in 1..n /\ s[PositionOf(b)] = b
    <3>1. \E i \in 1..n : s[i] = b
      BY <2>1, <2>2
    <3>. QED  BY <3>1 DEF PositionOf
  <2>. QED  BY <1>0, <1>3, <2>1, <2>2
<1>5. block_indexes[lca] - index[lca] = 0
  <2>1. block_indexes[lca] = BranchWork[lca]
    BY <1>0, <1>2 DEF RecordsInv
  <2>2. index[lca] = BranchWork[lca] /\ BranchWork[lca] \in Nat
    BY <1>0, <1>2, ReferenceAssumption DEF MemoryInv
  <2>. QED  BY <2>1, <2>2
<1>6. /\ chain_state' = [hash |-> current, height |-> L + n, count |-> L + n + 1,
                         work |-> BranchWork[current]]
      /\ chain_state'.hash = current /\ chain_state'.height = L + n
      /\ chain_state'.count = L + n + 1 /\ chain_state'.work = BranchWork[current]
      /\ chain_state' \in StateType
  <2>1. overlay.branch_work[n] = BranchWork[current] /\ BranchWork[current] \in Nat
    BY <1>0, <1>2, <1>3
  <2>2. 0 + BranchWork[current] = BranchWork[current] /\ L + n + 1 \in Nat
    BY <1>2, <2>1
  <2>3. chain_state' = [hash |-> s[n], height |-> L + n, count |-> L + n + 1,
                        work |-> (block_indexes[lca] - index[lca]) + overlay.branch_work[n]]
    BY <1>1 DEF stage_reorganization
  <2>4. chain_state' = [hash |-> current, height |-> L + n, count |-> L + n + 1,
                        work |-> BranchWork[current]]
    BY <1>0, <1>5, <2>1, <2>2, <2>3
  <2>. QED  BY <1>0, <1>2, <2>1, <2>2, <2>4 DEF StateType
<1>7. heights' = [h \in {k \in DOMAIN heights : k <= L} \cup (L + 1 .. L + n) |->
                    IF h \in {k \in DOMAIN heights : k <= L} THEN heights[h] ELSE s[h - L]]
  BY <1>1 DEF stage_reorganization
<1> HIDE DEF lca, L, H, s, n
<1>8. /\ DOMAIN heights' = 0..L+n
      /\ \A h \in 0..L : heights'[h] = heights[h]
      /\ \A i \in 1..n : heights'[L + i] = s[i]
      /\ heights' \in [DOMAIN heights' -> Blocks]
  <2>1. {k \in DOMAIN heights : k <= L} = 0..L
    BY <1>0, <1>2 DEF ChainInv, H
  <2>2. 0..L \cup (L + 1 .. L + n) = 0..L+n
    BY <1>0, <1>2
  <2>3. heights' = [h \in 0..L+n |-> IF h \in 0..L THEN heights[h] ELSE s[h - L]]
    BY <1>7, <2>1, <2>2
  <2>4. \A h \in 0..L : h \in 0..L+n /\ h \in DOMAIN heights
    BY <1>0, <1>2, <2>1
  <2>5. \A i \in 1..n : L + i \in 0..L+n /\ L + i \notin 0..L /\ (L + i) - L = i
    BY <1>0, <1>2
  <2>6. \A h \in 0..L+n : h \in 0..L \/ h - L \in 1..n
    BY <1>0, <1>2
  <2>7. \A h \in DOMAIN heights : heights[h] \in Blocks
    BY <1>0 DEF TypeOK
  <2>. QED  BY <1>3, <2>3, <2>4, <2>5, <2>6, <2>7
<1>9. ChainInv'
  <2>1. /\ IsValidChain(heights')
        /\ \A h \in 1..L+n : FirstOf[heights'[h]] = heights'[1]
        /\ \A h, k \in 0..L+n : h < k => BranchWork[heights'[h]] < BranchWork[heights'[k]]
    BY <1>0, <1>8, SwitchedChain DEF L, n
  <2>2. utxo' = LedgerAt[current]
    <3>1. utxo' = (utxo \ DeltaRemoved) \cup DeltaPut
      BY <1>1 DEF stage_reorganization
    <3>2. (utxo \ DeltaRemoved) \cup DeltaPut = OverlayUtxos
      BY DEF DeltaRemoved, DeltaPut, OverlayUtxos
    <3>. QED  BY <1>0, <3>1, <3>2
  <2>3. heights'[L + n] = current
    BY <1>0, <1>2, <1>8
  <2>. QED  BY <1>6, <1>8, <2>1, <2>2, <2>3 DEF ChainInv
<1>10. Canonical' = {heights[h] : h \in 0..L} \cup ReplacedBlocks
  <2>1. \A h \in 0..L+n : h \in 0..L \/ \E i \in 1..n : h = L + i
    <3> SUFFICES ASSUME NEW h \in 0..L+n, h \notin 0..L PROVE \E i \in 1..n : h = L + i
      OBVIOUS
    <3>1. h - L \in 1..n /\ h = L + (h - L)
      BY <1>0, <1>2
    <3>. QED  BY <3>1
  <2>2. \A h \in 0..L : h \in 0..L+n
    BY <1>0, <1>2
  <2>3. \A i \in 1..n : L + i \in 0..L+n
    BY <1>0, <1>2
  <2>. QED  BY <1>4, <1>8, <2>1, <2>2, <2>3 DEF Canonical
<1>11. Canonical \ overlay.detached = {heights[h] : h \in 0..L}
  <2>1. Canonical = {heights[h] : h \in 0..H}
    BY <1>0 DEF Canonical, ChainInv, H
  <2>2. \A h \in 0..H : Height[heights[h]] = h
    BY <1>0 DEF ChainInv, IsValidChain, H
  <2>3. \A h \in 0..H : h \in 0..L \/ h \in L+1..H
    BY <1>2
  <2>4. \A h \in 0..L : h \in 0..H /\ h \notin L+1..H
    BY <1>2
  <2>5. \A h \in L+1..H : h \in 0..H
    BY <1>2
  <2>6. overlay.detached = {heights[h] : h \in L+1..H}
    BY <1>0
  <2>7. ASSUME NEW x \in Canonical, x \notin overlay.detached
        PROVE  x \in {heights[h] : h \in 0..L}
    BY <2>1, <2>3, <2>6, <2>7
  <2>8. ASSUME NEW h \in 0..L PROVE heights[h] \in Canonical /\ heights[h] \notin overlay.detached
    <3>1. h \in 0..H /\ Height[heights[h]] = h
      BY <2>2, <2>4, <2>8
    <3>2. ASSUME NEW k \in L+1..H, heights[k] = heights[h] PROVE FALSE
      BY <2>2, <2>4, <2>5, <2>8, <3>1, <3>2
    <3>. QED  BY <2>1, <2>6, <3>1, <3>2
  <2>. QED  BY <2>7, <2>8
<1>12. /\ DOMAIN index' = Canonical'
       /\ \A b \in Canonical' : index'[b] = BranchWork[b]
  <2>1. DOMAIN index = Canonical /\ \A b \in Canonical : index[b] = BranchWork[b]
    BY <1>0 DEF MemoryInv
  <2>. QED  BY <1>1, <1>4, <1>10, <1>11, <2>1
<1>13. Canonical' \subseteq Blocks /\ current \in Canonical'
  <2>1. current \in ReplacedBlocks
    BY <1>0, <1>2, <1>4
  <2>. QED  BY <1>8, <1>10, <2>1 DEF Canonical
<1>14. tip' = current
  <2>1. \A b \in DOMAIN index' : index'[b] \in Nat
    BY <1>12, <1>13, ReferenceAssumption
  <2>2. ASSUME NEW b \in Canonical', b # current PROVE BranchWork[b] < BranchWork[current]
    <3>1. PICK h \in 0..L+n : b = heights'[h]
      BY <1>8, <2>2 DEF Canonical
    <3>2. heights'[L + n] = current /\ L + n \in 0..L+n
      BY <1>0, <1>2, <1>8
    <3>3. h < L + n
      BY <1>2, <2>2, <3>1, <3>2
    <3>4. \A j, k \in 0..L+n : j < k => BranchWork[heights'[j]] < BranchWork[heights'[k]]
      BY <1>6, <1>9 DEF ChainInv
    <3>. QED  BY <3>1, <3>2, <3>3, <3>4
  <2>3. \A b \in DOMAIN index' : b # current => index'[b] < index'[current]
    BY <1>12, <1>13, <2>2
  <2>4. recompute_tip(index') = current
    BY <1>12, <1>13, <2>1, <2>3, HeaviestIsTip
  <2>. QED  BY <1>1, <2>4
<1>15. /\ DOMAIN block_indexes' = DOMAIN block_indexes \cup ReplacedBlocks
       /\ \A b \in DOMAIN block_indexes' : block_indexes'[b] = BranchWork[b]
       /\ block_indexes' \in [DOMAIN block_indexes' -> Nat]
       /\ DOMAIN block_indexes' \subseteq Blocks
  <2>1. block_indexes' = [b \in DOMAIN block_indexes \cup ReplacedBlocks |->
                            IF b \in ReplacedBlocks
                              THEN (block_indexes[lca] - index[lca]) + overlay.branch_work[PositionOf(b)]
                              ELSE block_indexes[b]]
    BY <1>1 DEF stage_reorganization, lca
  <2>2. \A b \in ReplacedBlocks :
          (block_indexes[lca] - index[lca]) + overlay.branch_work[PositionOf(b)] = BranchWork[b]
    <3>1. \A b \in ReplacedBlocks : BranchWork[b] \in Nat /\ 0 + BranchWork[b] = BranchWork[b]
      BY <1>4, ReferenceAssumption
    <3>. QED  BY <1>4, <1>5, <3>1
  <2>3. DOMAIN block_indexes' = DOMAIN block_indexes \cup ReplacedBlocks
    BY <2>1
  <2>4. DOMAIN block_indexes' \subseteq Blocks
    BY <1>0, <1>4, <2>3 DEF TypeOK
  <2>5. \A b \in DOMAIN block_indexes' : block_indexes'[b] = BranchWork[b]
    BY <1>0, <2>1, <2>2, <2>3 DEF RecordsInv
  <2>6. \A b \in DOMAIN block_indexes' : block_indexes'[b] \in Nat
    BY <2>4, <2>5, ReferenceAssumption
  <2>7. block_indexes' \in [DOMAIN block_indexes' -> Nat]
    BY <2>1, <2>3, <2>6
  <2>. QED  BY <2>3, <2>4, <2>5, <2>7
<1>16. /\ DOMAIN undo' = DOMAIN undo \cup ReplacedBlocks
       /\ \A b \in DOMAIN undo' : undo'[b] = BlockUndo(b)
       /\ undo' \in [DOMAIN undo' -> UndoType]
       /\ DOMAIN undo' \subseteq Blocks
  <2>1. undo' = [b \in DOMAIN undo \cup ReplacedBlocks |->
                   IF b \in ReplacedBlocks THEN BlockUndo(b) ELSE undo[b]]
    BY <1>1 DEF stage_reorganization
  <2>. QED  BY <1>0, <1>4, <2>1, UndoTyping DEF RecordsInv, TypeOK
<1>17. /\ DOMAIN transaction_indexes' \subseteq DOMAIN Inputs
       /\ transaction_indexes' \in [DOMAIN transaction_indexes' -> Blocks]
  <2> DEFINE added == UNION {TransactionsOf(b) : b \in ReplacedBlocks}
             Last(t) == CHOOSE i \in 1..n :
                          /\ t \in TransactionsOf(s[i])
                          /\ \A j \in i+1..n : t \notin TransactionsOf(s[j])
  <2>1. transaction_indexes' =
          [t \in (DOMAIN transaction_indexes \ DetachedTransactions) \cup added |->
             IF t \in added THEN s[Last(t)] ELSE transaction_indexes[t]]
    BY <1>1 DEF stage_reorganization, s, n
  <2>2. ASSUME NEW t \in added PROVE Last(t) \in 1..n
    <3> DEFINE S == {i \in 1..n : t \in TransactionsOf(s[i])}
    <3>1. S # {} /\ S \in SUBSET (1..n)
      BY <1>4, <2>2
    <3> HIDE DEF S
    <3>2. \E i \in S : \A j \in i+1..n : j \notin S
      BY <1>0, <3>1, LastPosition
    <3>3. \E i \in 1..n : /\ t \in TransactionsOf(s[i])
                          /\ \A j \in i+1..n : t \notin TransactionsOf(s[j])
      <4>1. PICK i \in S : \A j \in i+1..n : j \notin S
        BY <3>2
      <4>2. i \in 1..n /\ t \in TransactionsOf(s[i]) /\ \A j \in i+1..n : j \in 1..n
        BY <1>0 DEF S
      <4>. QED  BY <4>1, <4>2 DEF S
    <3>. QED  BY <3>3
  <2>3. added \subseteq DOMAIN Inputs
    BY <1>4, UndoTyping
  <2> HIDE DEF added, Last
  <2>. QED  BY <1>0, <1>3, <2>1, <2>2, <2>3 DEF TypeOK
<1>18. verdict' \in VerdictType
  <2>1. Disposition \in Dispositions /\ "CausedReorganization" \in Verdicts
    BY DEF Disposition, Dispositions, Verdicts
  <2>2. Verdict(current, Disposition, "CausedReorganization") \in VerdictType
    BY <1>0, <2>1, VerdictTyping
  <2>3. overlay.detached \subseteq Blocks
    BY <1>0 DEF TypeOK, OverlayType
  <2>. QED  BY <1>1, <1>4, <2>2, <2>3 DEF ReorgVerdict, VerdictType
<1>19. DOMAIN forks' \subseteq DOMAIN forks /\ \A t \in DOMAIN forks' : forks'[t] = forks[t]
  BY <1>1 DEF SurvivingForks
<1>20. TypeOK'
  <2>1. DOMAIN heights' \subseteq Nat
    BY <1>2, <1>8
  <2>2. utxo' \subseteq DOMAIN Value
    BY <1>0, <1>6, <1>9, ReferenceAssumption DEF ChainInv
  <2>3. DOMAIN index' \subseteq Blocks /\ index' \in [DOMAIN index' -> Nat]
    <3>1. index' = [x \in DOMAIN index' |-> index'[x]]
      BY <1>1
    <3>. QED  BY <1>12, <1>13, <3>1, ReferenceAssumption
  <2>4. DOMAIN forks' \subseteq Blocks /\ forks' \in [DOMAIN forks' -> ForkEntryType]
    <3>1. forks' = [t \in DOMAIN forks' |-> forks'[t]]
      BY <1>1
    <3>. QED  BY <1>0, <1>19, <3>1 DEF TypeOK
  <2>. QED  BY <1>0, <1>1, <1>6, <1>8, <1>14, <1>15, <1>16, <1>17, <1>18, <2>1, <2>2, <2>3, <2>4,
               EmptyTyping, TreeAssumption DEF TypeOK
<1>21. RecordsInv'
  <2>1. \A h \in 0..L+n : heights'[h] \in Canonical'
    BY <1>8 DEF Canonical
  <2>2. \A h \in 0..L+n : heights'[h] \in DOMAIN block_indexes'
    <3>1. \A h \in 0..L : heights[h] \in DOMAIN block_indexes
      BY <1>0, <1>2 DEF RecordsInv, H
    <3>. QED  BY <1>10, <1>15, <2>1, <3>1
  <2>3. \A h \in 1..L+n : heights'[h] \in DOMAIN undo'
    <3>1. \A h \in 1..L : heights[h] \in DOMAIN undo
      BY <1>0, <1>2 DEF RecordsInv, H
    <3>2. \A h \in 1..L+n : (h \in 1..L /\ h \in 0..L) \/ (h - L \in 1..n /\ h = L + (h - L))
      BY <1>0, <1>2
    <3>. QED  BY <1>4, <1>8, <1>16, <3>1, <3>2
  <2>. QED  BY <1>6, <1>15, <1>16, <2>2, <2>3 DEF RecordsInv
<1>22. ASSUME NEW t \in DOMAIN forks' PROVE ForkInv(t, forks[t])'
  <2>1. t \in DOMAIN forks /\ forks'[t] = forks[t]
    BY <1>19, <1>22
  <2>2. ForkInv(t, forks[t]) /\ forks[t] \in ForkEntryType
    BY <1>0, <2>1 DEF MemoryInv, TypeOK
  <2>3. forks[t].ancestor \in Canonical' /\ \A i \in DOMAIN forks[t].blocks : forks[t].blocks[i] \notin Canonical'
    BY <1>1, <1>12, <1>22 DEF SurvivingForks
  <2>4. DOMAIN forks[t].blocks = 1..Len(forks[t].blocks)
    BY <2>2 DEF ForkEntryType
  <2>5. forks[t].ancestor # current
    BY <1>0, <2>2 DEF ForkInv
  <2>6. forks[t].work <= BranchWork[current]
    <3>1. forks[t].work \in Nat /\ chain_state.work \in Nat /\ BranchWork[current] \in Nat
      BY <1>0, <2>2, ReferenceAssumption DEF ForkEntryType, TypeOK, StateType
    <3>. QED  BY <1>0, <2>2, <3>1 DEF ForkInv
  <2>. QED  BY <1>6, <2>1, <2>2, <2>3, <2>4, <2>5, <2>6 DEF ForkInv
<1>23. MemoryInv'
  BY <1>6, <1>12, <1>14, <1>22 DEF MemoryInv
<1>24. ChainSwitch
  <2>1. verdict'.attached = ReplacedBlocks /\ verdict'.detached = overlay.detached
    BY <1>1 DEF ReorgVerdict, Verdict, NoVerdict
  <2>2. ReplacedBlocks \cap Canonical = {}
    BY <1>0, <1>4 DEF OverlayInv, s, n
  <2>3. overlay.detached \subseteq Canonical
    <3>1. L+1..H \subseteq DOMAIN heights
      BY <1>0, <1>2 DEF ChainInv, H
    <3>. QED  BY <1>0, <3>1 DEF Canonical
  <2>4. Canonical' = (Canonical \ overlay.detached) \cup ReplacedBlocks
    BY <1>10, <1>11
  <2>. QED  BY <1>0, <1>6, <1>9, <2>1, <2>2, <2>3, <2>4 DEF ChainSwitch
<1>. QED  BY <1>0, <1>1, <1>9, <1>20, <1>21, <1>23, <1>24 DEF IInv, StateInv, SelfChecksHold

----------------------------------------------------------------------------
(***************************************************************************)
(* All steps together.                                                     *)
(***************************************************************************)

\* Saving genesis is the only step that starts from an empty storage.
GenesisSaved ==
  /\ EmptyInv
  /\ heights' = [h \in {0} |-> Genesis]
  /\ utxo' = LedgerAt[Genesis]

\* Every step keeps the invariant, and either leaves the canonical chain alone,
\* or saves genesis, or switches to a heavier chain.
LEMMA NextInv ==
  ASSUME NoRepeats, IInv, [Next]_vars
  PROVE  /\ IInv'
         /\ \/ UNCHANGED <<heights, utxo, chain_state>>
            \/ GenesisSaved
            \/ ChainSwitch
<1>1. CASE stage_genesis
  <2>1. IInv'
    BY <1>1, StageGenesisStep
  <2>2. CASE EmptyInv
    <3>1. chain_state.count = 0 /\ verify_initialized_state /\ DOMAIN heights = {}
      BY <2>2 DEF EmptyInv, NoState, NoEntries, verify_initialized_state
    <3>2. heights' = Put(heights, 0, Genesis) /\ utxo' = apply_block(Genesis, utxo)
      BY <1>1, <3>1 DEF stage_genesis
    <3>3. heights' = [h \in {0} |-> Genesis]
      BY <3>1, <3>2 DEF Put
    <3>4. utxo' = LedgerAt[Genesis]
      BY <2>2, <3>2, ReferenceAssumption DEF EmptyInv
    <3>. QED  BY <2>1, <2>2, <3>3, <3>4 DEF GenesisSaved
  <2>3. CASE ChainInv
    <3>1. chain_state.count # 0
      BY <2>3 DEF IInv, ChainInv, TypeOK, StateType
    <3>2. UNCHANGED tables
      BY <1>1, <3>1 DEF stage_genesis, Abort
    <3>. QED  BY <2>1, <3>2 DEF tables
  <2>. QED  BY <2>2, <2>3 DEF IInv, StateInv
<1>2. CASE build_chain_index
  BY <1>2, BuildChainIndexStep DEF build_chain_index, Abort, tables
<1>3. ASSUME NEW b \in Blocks, OnBlock(b)
      PROVE  IInv' /\ (UNCHANGED <<heights, utxo, chain_state>> \/ ChainSwitch)
  <2>1. CASE RejectMalformed(b) \/ handle_known(b) \/ DropOrphan(b) \/ RejectExtension(b)
    <3>1. UNCHANGED tables
      BY <2>1 DEF RejectMalformed, handle_known, DropOrphan, RejectExtension
    <3>. QED  BY <2>1, <3>1, ReportActions DEF tables
  <2>2. CASE handle_extend_canonical(b)
    BY <2>2, ExtendCanonicalStep
  <2>3. CASE BeginFork(b)
    <3>1. UNCHANGED tables
      BY <2>3 DEF BeginFork, Abort
    <3>. QED  BY <2>3, <3>1, BeginForkStep DEF tables
  <2>. QED  BY <1>3, <2>1, <2>2, <2>3 DEF OnBlock
<1>4. CASE RewindBlock
  <2>1. UNCHANGED tables
    BY <1>4 DEF RewindBlock, Abort
  <2>. QED  BY <1>4, <2>1, RewindBlockStep DEF tables
<1>5. CASE ReplayBlock
  <2>1. UNCHANGED tables
    BY <1>5 DEF ReplayBlock, Abort
  <2>. QED  BY <1>5, <2>1, ReplayBlockStep DEF tables
<1>6. CASE RejectForkBlock
  <2>1. UNCHANGED tables
    BY <1>6 DEF RejectForkBlock
  <2>. QED  BY <1>6, <2>1, RejectForkBlockStep DEF tables
<1>7. CASE BufferFork
  <2>1. UNCHANGED tables
    BY <1>7 DEF BufferFork
  <2>. QED  BY <1>7, <2>1, BufferForkStep DEF tables
<1>8. CASE PrepareReorg
  <2>1. UNCHANGED tables
    BY <1>8 DEF PrepareReorg, Abort
  <2>. QED  BY <1>8, <2>1, PrepareReorgStep DEF tables
<1>9. CASE CommitReorg
  BY <1>9, CommitReorgStep
<1>10. CASE StorageFault
  <2>1. UNCHANGED tables
    BY <1>10 DEF StorageFault
  <2>. QED  BY <1>10, <2>1, StorageFaultStep DEF tables
<1>11. CASE Crash
  <2>1. UNCHANGED tables
    BY <1>11 DEF Crash
  <2>. QED  BY <1>11, <2>1, CrashStep DEF tables
<1>12. CASE UNCHANGED vars
  <2>1. UNCHANGED <<tables, memory, pc, current, overlay>> /\ verdict' \in VerdictType
    BY <1>12 DEF vars, IInv, TypeOK
  <2>. QED  BY <2>1, ReportStep DEF tables
<1>. QED  BY <1>1, <1>2, <1>3, <1>4, <1>5, <1>6, <1>7, <1>8, <1>9, <1>10, <1>11, <1>12
          DEF Next, Startup, OverlayStep

\* The inductive invariant holds in every reachable state, on every block tree that
\* repeats no payment without inputs.
THEOREM Invariant ==
  ASSUME NoRepeats
  PROVE  Spec => []IInv
<1>1. Init => IInv
  BY InitInv
<1>2. IInv /\ [Next]_vars => IInv'
  BY NextInv
<1>. QED  BY <1>1, <1>2, PTL DEF Spec

\* Every table and every in-memory record keeps its type.
THEOREM TypeCorrectness ==
  ASSUME NoRepeats
  PROVE  Spec => []TypeOK
<1>1. IInv => TypeOK
  BY DEF IInv
<1>. QED  BY <1>1, Invariant, PTL

\* No consistency check of startup, append, overlay or reorganization ever fails, as
\* long as undoing a block is exact, for which no payment without inputs may be
\* repeated on a branch.
THEOREM NoSelfCheckFails ==
  ASSUME NoRepeats
  PROVE  Spec => []SelfChecksHold
<1>1. IInv => SelfChecksHold
  BY DEF IInv
<1>. QED  BY <1>1, Invariant, PTL

\* The stored ledger is the replay of the stored chain, for every block tree that
\* repeats no payment without inputs.
THEOREM LedgerCorrectness ==
  ASSUME NoRepeats
  PROVE  Spec => []LedgerIsReplay
<1>1. IInv => LedgerIsReplay
  <2> SUFFICES ASSUME IInv PROVE LedgerIsReplay
    OBVIOUS
  <2>1. CASE EmptyInv
    BY <2>1 DEF EmptyInv, NoState, LedgerIsReplay
  <2>2. CASE ChainInv
    <3>1. chain_state.count # 0
      BY <2>2 DEF IInv, ChainInv, TypeOK, StateType
    <3>. QED  BY <2>2, <3>1 DEF ChainInv, LedgerIsReplay
  <2>. QED  BY <2>1, <2>2 DEF IInv, StateInv
<1>. QED  BY <1>1, Invariant, PTL

\* The in-memory index never drifts from the committed chain.
THEOREM IndexCorrectness ==
  ASSUME NoRepeats
  PROVE  Spec => []IndexMatchesStorage
<1>1. IInv => IndexMatchesStorage
  BY DEF IInv, StateInv, EmptyInv, MemoryInv, IndexMatchesStorage
<1>. QED  BY <1>1, Invariant, PTL

\* Every registered fork is a valid branch off the canonical chain.
THEOREM ForkCorrectness ==
  ASSUME NoRepeats
  PROVE  Spec => []ForkRegistrySound
<1>1. IInv => ForkRegistrySound
  <2> SUFFICES ASSUME IInv, pc \in {"idle", "overlay"}, NEW t \in DOMAIN forks
               PROVE  LET e == forks[t]
                      IN  /\ e.ancestor \in Canonical \ {chain_state.hash}
                          /\ e.blocks # <<>>
                          /\ e.blocks[Len(e.blocks)] = t
                          /\ \A i \in 1..Len(e.blocks) :
                               /\ e.blocks[i] \in ValidBlocks \ Canonical
                               /\ Parent[e.blocks[i]] = (IF i = 1 THEN e.ancestor ELSE e.blocks[i - 1])
                          /\ e.work = BranchWork[t]
                          /\ e.work <= chain_state.work
    BY DEF ForkRegistrySound
  <2>1. ForkInv(t, forks[t])
    BY DEF IInv, StateInv, EmptyInv, MemoryInv
  <2>2. forks[t].blocks # <<>>
    BY <2>1 DEF ForkInv
  <2>. QED  BY <2>1, <2>2 DEF ForkInv, Branch
<1>. QED  BY <1>1, Invariant, PTL

\* The overlay always shows the ledger of the block it stands at: rewinding is exact
\* where no payment without inputs is repeated (RewindRestores fails elsewhere).
THEOREM OverlayCorrectness ==
  ASSUME NoRepeats
  PROVE  Spec => []OverlayShowsBranch
<1>1. IInv => OverlayShowsBranch
  BY DEF IInv, StateInv, EmptyInv, OverlayInv, OverlayShowsBranch
<1>. QED  BY <1>1, Invariant, PTL

\* The canonical chain is only ever replaced by one with strictly more work.
THEOREM WorkIncreases ==
  ASSUME NoRepeats
  PROVE  Spec => WorkStrictlyIncreases
<1>1. IInv /\ [Next]_vars =>
        [heights' # heights /\ chain_state.count # 0 => chain_state'.work > chain_state.work]_vars
  BY NextInv DEF GenesisSaved, ChainSwitch, EmptyInv, NoState
<1>. QED  BY <1>1, Invariant, PTL DEF Spec, WorkStrictlyIncreases

\* The reported transition is the difference between the two chains.
THEOREM TransitionReported ==
  ASSUME NoRepeats
  PROVE  Spec => TransitionDescribesDiff
<1>1. IInv /\ [Next]_vars =>
        [heights' # heights /\ chain_state.count # 0 =>
           /\ verdict'.attached = Canonical' \ Canonical
           /\ verdict'.detached = Canonical \ Canonical']_vars
  BY NextInv DEF GenesisSaved, ChainSwitch, EmptyInv, NoState
<1>. QED  BY <1>1, Invariant, PTL DEF Spec, TransitionDescribesDiff

----------------------------------------------------------------------------
(***************************************************************************)
(* The transaction index.                                                  *)
(***************************************************************************)

\* The height table is empty or a valid chain.
LEMMA ChainOrEmpty ==
  ASSUME IInv
  PROVE  EmptyInv \/ (TypeOK /\ ChainInv /\ chain_state.height \in Nat)
BY DEF IInv, StateInv, TypeOK, StateType

\* Genesis holds the allocation alone, and that is what stage_genesis indexes.
LEMMA StageGenesisIndexes ==
  ASSUME IInv, TxIndexCanonical, stage_genesis
  PROVE  TxIndexCanonical'
<1>1. CASE UNCHANGED tables
  BY <1>1 DEF TxIndexCanonical, Canonical, tables
<1>2. CASE /\ chain_state.count = 0
           /\ heights' = Put(heights, 0, Genesis)
           /\ transaction_indexes' = Put(transaction_indexes, Coinbase[Genesis], Genesis)
  <2>1. DOMAIN heights = {} /\ DOMAIN transaction_indexes = {}
    BY <1>2, ChainOrEmpty DEF EmptyInv, NoEntries, ChainInv
  <2>2. Canonical' = {Genesis}
    BY <1>2, <2>1 DEF Canonical, Put
  <2>3. /\ DOMAIN transaction_indexes' = {Coinbase[Genesis]}
        /\ transaction_indexes'[Coinbase[Genesis]] = Genesis
    BY <1>2, <2>1 DEF Put
  <2>4. TransactionsOf(Genesis) = {Coinbase[Genesis]}
    BY DigestAssumption DEF TransactionsOf
  <2>. QED  BY <2>2, <2>3, <2>4 DEF TxIndexCanonical
<1>. QED  BY <1>1, <1>2 DEF stage_genesis, Abort, tables

\* An appended block takes over the entries of its transactions.
LEMMA ExtensionIndexes ==
  ASSUME IInv, TxIndexCanonical, NEW b \in Blocks, handle_extend_canonical(b)
  PROVE  TxIndexCanonical'
<1>1. CASE Abort
  BY <1>1 DEF Abort, TxIndexCanonical, Canonical, tables
<1>2. CASE attach_block(b) /\ MayAttach(b)
  <2>1. TypeOK /\ ChainInv /\ chain_state.height \in Nat
    BY RoutedBlock DEF handle_extend_canonical, TypeOK, StateType
  <2>2. Canonical' = Canonical \cup {b}
    <3>1. Height[b] \notin DOMAIN heights
      BY <1>2, <2>1 DEF MayAttach, ChainInv
    <3>2. heights' = Put(heights, Height[b], b)
      BY <1>2 DEF attach_block
    <3>. QED  BY <3>1, <3>2 DEF Canonical, Put
  <2>3. transaction_indexes' =
          [t \in DOMAIN transaction_indexes \cup TransactionsOf(b) |->
             IF t \in TransactionsOf(b) THEN b ELSE transaction_indexes[t]]
    BY <1>2 DEF attach_block
  <2>. QED  BY <2>2, <2>3 DEF TxIndexCanonical
<1>. QED  BY <1>1, <1>2 DEF handle_extend_canonical

\* A reorganization drops the entries that name a detached block and adds those of
\* the replayed ones.  A transaction of a kept block stays indexed because it is in
\* no other block of the old chain, so its entry names the kept block.
LEMMA ReorgIndexes ==
  ASSUME NoRepeats, IInv, TxIndexCanonical, CommitReorg
  PROVE  TxIndexCanonical'
<1> DEFINE lca == overlay.lca
           L == Height[lca]
           H == chain_state.height
           s == overlay.blocks
           n == Len(s)
           kept == {heights[h] : h \in 0..L}
           added == UNION {TransactionsOf(b) : b \in ReplacedBlocks}
           Last(t) == CHOOSE i \in 1..n :
                        /\ t \in TransactionsOf(s[i])
                        /\ \A j \in i+1..n : t \notin TransactionsOf(s[j])
<1>0. /\ TypeOK /\ ChainInv /\ n \in Nat /\ n > 0 /\ lca \in Canonical
      /\ overlay.detached = {heights[h] : h \in L + 1 .. H} /\ MayReorganize
  BY ReorgReady DEF CommitReorg
<1>1. stage_reorganization
  BY <1>0 DEF CommitReorg
<1>2. L \in 0..H /\ L \in Nat /\ H \in Nat /\ L + n \in Nat
  BY <1>0, CanonicalHeight, TipCanonical
<1>3. ReplacedBlocks = {s[i] : i \in 1..n}
  BY DEF ReplacedBlocks
<1>4. heights' = [h \in {k \in DOMAIN heights : k <= L} \cup (L + 1 .. L + n) |->
                    IF h \in {k \in DOMAIN heights : k <= L} THEN heights[h] ELSE s[h - L]]
  BY <1>1 DEF stage_reorganization
<1>5. transaction_indexes' =
        [t \in (DOMAIN transaction_indexes \ DetachedTransactions) \cup added |->
           IF t \in added THEN s[Last(t)] ELSE transaction_indexes[t]]
  BY <1>1 DEF stage_reorganization
<1>6. DOMAIN heights = 0..H /\ IsValidChain(heights)
  BY <1>0 DEF ChainInv
<1> HIDE DEF lca, L, H, s, n, Last, added, kept
<1>7. Canonical' = kept \cup ReplacedBlocks
  <2>1. {k \in DOMAIN heights : k <= L} = 0..L
    BY <1>2, <1>6
  <2>2. heights' = [h \in 0..L \cup (L + 1 .. L + n) |-> IF h \in 0..L THEN heights[h] ELSE s[h - L]]
    BY <1>4, <2>1
  <2>3. \A h \in L + 1 .. L + n : h \notin 0..L /\ h - L \in 1..n
    BY <1>0, <1>2
  <2>4. \A i \in 1..n : L + i \in L + 1 .. L + n /\ L + i - L = i
    BY <1>0, <1>2
  <2>5. \A h \in L + 1 .. L + n : heights'[h] = s[h - L]
    BY <2>2, <2>3
  <2>6. \A h \in 0..L : heights'[h] = heights[h]
    BY <2>2
  <2>7. DOMAIN heights' = 0..L \cup (L + 1 .. L + n)
    BY <2>2
  <2>8. ASSUME NEW i \in 1..n PROVE L + i \in DOMAIN heights' /\ heights'[L + i] = s[i]
    <3> DEFINE h == L + i
    <3>1. h \in L + 1 .. L + n /\ h - L = i
      BY <1>0, <1>2
    <3> HIDE DEF h
    <3>2. heights'[h] = s[i] /\ h \in DOMAIN heights'
      BY <2>5, <2>7, <3>1
    <3>. QED  BY <3>2 DEF h
  <2>9. Canonical' \subseteq kept \cup ReplacedBlocks
    BY <1>3, <2>3, <2>5, <2>6, <2>7 DEF Canonical, kept
  <2>10. kept \subseteq Canonical'
    BY <2>6, <2>7 DEF Canonical, kept
  <2>11. ReplacedBlocks \subseteq Canonical'
    BY <1>3, <2>8 DEF Canonical
  <2>. QED  BY <2>9, <2>10, <2>11
<1>8. Canonical = kept \cup overlay.detached
  <2>1. 0..H = 0..L \cup (L + 1 .. H)
    BY <1>2
  <2>. QED  BY <1>0, <1>6, <2>1 DEF Canonical, kept
<1>9. \A x \in kept, y \in overlay.detached : TransactionsOf(x) \cap TransactionsOf(y) = {}
  <2>1. \A h, k \in 0..H : h < k => TransactionsOf(heights[h]) \cap TransactionsOf(heights[k]) = {}
    BY <1>2, <1>6, TransactionsOnce DEF NoRepeats
  <2>2. \A h \in 0..L, k \in L + 1 .. H : h \in 0..H /\ k \in 0..H /\ h < k
    BY <1>2
  <2>. QED  BY <1>0, <2>1, <2>2 DEF kept
<1>10. ASSUME NEW t \in added PROVE s[Last(t)] \in ReplacedBlocks /\ t \in TransactionsOf(s[Last(t)])
  <2> DEFINE S == {i \in 1..n : t \in TransactionsOf(s[i])}
  <2>1. S # {} /\ S \in SUBSET (1..n)
    BY <1>3, <1>10 DEF added
  <2> HIDE DEF S
  <2>2. PICK i \in S : \A j \in i+1..n : j \notin S
    BY <1>0, <2>1, LastPosition
  <2>3. i \in 1..n /\ t \in TransactionsOf(s[i]) /\ \A j \in i+1..n : j \in 1..n
    BY <1>0 DEF S
  <2>4. \E k \in 1..n : /\ t \in TransactionsOf(s[k])
                        /\ \A j \in k+1..n : t \notin TransactionsOf(s[j])
    BY <2>2, <2>3 DEF S
  <2>5. Last(t) \in 1..n /\ t \in TransactionsOf(s[Last(t)])
    BY <2>4, Zenon DEF Last
  <2>. QED  BY <1>3, <2>5
<1>11. /\ DOMAIN transaction_indexes = UNION {TransactionsOf(b) : b \in Canonical}
       /\ \A t \in DOMAIN transaction_indexes :
            /\ transaction_indexes[t] \in Canonical
            /\ t \in TransactionsOf(transaction_indexes[t])
  BY DEF TxIndexCanonical
<1>12. ASSUME NEW t \in DOMAIN transaction_indexes
       PROVE  t \notin DetachedTransactions <=> transaction_indexes[t] \in kept
  <2>1. kept \cap overlay.detached = {}
    <3>1. \A b : TransactionsOf(b) # {}
      BY DEF TransactionsOf
    <3>. QED  BY <1>9, <3>1
  <2>. QED  BY <1>8, <1>11, <2>1 DEF DetachedTransactions
<1>13. DOMAIN transaction_indexes' = (DOMAIN transaction_indexes \ DetachedTransactions) \cup added
  BY <1>5
<1>14. ASSUME NEW t \in DOMAIN transaction_indexes'
       PROVE  transaction_indexes'[t] \in Canonical' /\ t \in TransactionsOf(transaction_indexes'[t])
  <2>1. CASE t \in added
    BY <1>5, <1>7, <1>10, <1>13, <2>1
  <2>2. CASE t \notin added
    BY <1>5, <1>7, <1>11, <1>12, <1>13, <2>2
  <2>. QED  BY <2>1, <2>2
<1>15. ASSUME NEW b \in Canonical', NEW t \in TransactionsOf(b)
       PROVE  t \in DOMAIN transaction_indexes'
  <2>1. CASE b \in ReplacedBlocks
    BY <1>13, <2>1 DEF added
  <2>2. CASE b \in kept
    <3>1. t \in DOMAIN transaction_indexes
      BY <1>8, <1>11, <2>2
    <3>2. transaction_indexes[t] \in kept
      BY <1>8, <1>9, <1>11, <2>2, <3>1
    <3>. QED  BY <1>12, <1>13, <3>1, <3>2
  <2>. QED  BY <1>7, <2>1, <2>2
<1>16. DOMAIN transaction_indexes' = UNION {TransactionsOf(b) : b \in Canonical'}
  BY <1>14, <1>15
<1>. QED  BY <1>14, <1>16 DEF TxIndexCanonical

\* The index of transactions follows the canonical chain: exactly the transactions
\* of canonical blocks are indexed, under a block that holds them, also when both
\* branches of a reorganization hold the same transaction.
THEOREM TxIndexCorrectness ==
  ASSUME NoRepeats
  PROVE  Spec => []TxIndexCanonical
<1>1. Init => TxIndexCanonical
  BY DEF Init, TxIndexCanonical, Canonical, NoEntries
<1>2. IInv /\ TxIndexCanonical /\ [Next]_vars => TxIndexCanonical'
  <2> SUFFICES ASSUME IInv, TxIndexCanonical, [Next]_vars PROVE TxIndexCanonical'
    OBVIOUS
  <2>1. ASSUME UNCHANGED tables PROVE TxIndexCanonical'
    BY <2>1 DEF TxIndexCanonical, Canonical, tables
  <2>2. CASE stage_genesis
    BY <2>2, StageGenesisIndexes
  <2>3. CASE \E b \in Blocks : OnBlock(b)
    <3>1. PICK b \in Blocks : OnBlock(b)
      BY <2>3
    <3>2. handle_extend_canonical(b) \/ UNCHANGED tables
      BY <3>1 DEF OnBlock, RejectMalformed, handle_known, DropOrphan, RejectExtension,
         BeginFork, Abort
    <3>. QED  BY <2>1, <3>2, ExtensionIndexes
  <2>4. CASE CommitReorg
    BY <2>4, ReorgIndexes
  <2>5. CASE build_chain_index \/ StorageFault \/ Crash \/ UNCHANGED vars
    BY <2>1, <2>5 DEF build_chain_index, StorageFault, Crash, vars, Abort
  <2>6. CASE RewindBlock \/ ReplayBlock \/ RejectForkBlock \/ BufferFork \/ PrepareReorg
    BY <2>1, <2>6 DEF RewindBlock, ReplayBlock, RejectForkBlock, BufferFork, PrepareReorg, Abort
  <2>. QED  BY <2>2, <2>3, <2>4, <2>5, <2>6 DEF Next, Startup, OverlayStep
<1>. QED  BY <1>1, <1>2, Invariant, PTL DEF Spec

----------------------------------------------------------------------------
(***************************************************************************)
(* Refinement.                                                             *)
(***************************************************************************)

\* The heaviest block of a chain of increasing work is its last one.
LEMMA BestIsLast ==
  ASSUME NEW c, NEW H \in Nat, DOMAIN c = 0..H,
         \A h \in 0..H : BranchWork[c[h]] \in Nat,
         \A h, k \in 0..H : h < k => BranchWork[c[h]] < BranchWork[c[k]]
  PROVE  Abstract!Best(c) = c[H]
<1>1. H \in 0..H
  OBVIOUS
<1>2. \A h \in 0..H : BranchWork[c[h]] <= BranchWork[c[H]]
  <2> SUFFICES ASSUME NEW h \in 0..H PROVE BranchWork[c[h]] <= BranchWork[c[H]]
    OBVIOUS
  <2>1. h = H \/ h < H
    OBVIOUS
  <2>. QED  BY <1>1, <2>1
<1>3. ASSUME NEW k \in 0..H, \A h \in 0..H : BranchWork[c[h]] <= BranchWork[c[k]]
      PROVE  k = H
  <2>1. BranchWork[c[H]] <= BranchWork[c[k]]
    BY <1>1, <1>3
  <2>2. k < H => BranchWork[c[k]] < BranchWork[c[H]]
    BY <1>1, <1>3
  <2>3. ~(k < H)
    BY <1>1, <2>1, <2>2
  <2>. QED  BY <1>3, <2>3
<1> DEFINE Heaviest(b) == \A h \in DOMAIN c : BranchWork[c[h]] <= BranchWork[b]
           S == {c[h] : h \in DOMAIN c}
<1>4. c[H] \in S /\ Heaviest(c[H])
  BY <1>1, <1>2
<1>5. \A b \in S : Heaviest(b) => b = c[H]
  BY <1>3
<1>6. Abstract!Best(c) = CHOOSE b \in S : Heaviest(b)
  BY DEF Abstract!Best
<1> HIDE DEF S, Heaviest
<1>. QED  BY <1>4, <1>5, <1>6

\* The best block of the stored chain is the recorded tip.
LEMMA BestIsTip ==
  ASSUME TypeOK, ChainInv
  PROVE  Abstract!Best(heights) = chain_state.hash
<1>1. chain_state.height \in Nat
  BY TipCanonical
<1>2. \A h \in 0..chain_state.height : BranchWork[heights[h]] \in Nat
  BY ReferenceAssumption DEF ChainInv, IsValidChain
<1>. QED  BY <1>1, <1>2, BestIsLast DEF ChainInv

\* Storage and engine together implement the canonical chain that the rest of
\* the node relies on: chain and ledger change in one step, to a heavier chain.
THEOREM Refinement ==
  ASSUME NoRepeats
  PROVE  Spec => Implements
<1>1. Init => Abstract!Init
  BY DEF Init, Abstract!Init, NoEntries
<1>2. ASSUME IInv, [Next]_vars PROVE [Abstract!Next]_<<heights, utxo>>
  <2>1. CASE UNCHANGED <<heights, utxo, chain_state>>
    BY <2>1
  <2>2. CASE GenesisSaved
    <3>1. DOMAIN heights = {}
      BY <2>2 DEF GenesisSaved, EmptyInv, NoEntries
    <3>. QED  BY <2>2, <3>1 DEF GenesisSaved, Abstract!Next, Abstract!SaveGenesis
  <2>3. CASE ChainSwitch
    <3>1. TypeOK /\ TypeOK' /\ ChainInv /\ ChainInv'
      BY <1>2, <2>3, NextInv DEF ChainSwitch, IInv
    <3>2. Abstract!Best(heights) = chain_state.hash /\ chain_state.work = BranchWork[chain_state.hash]
      BY <3>1, BestIsTip DEF ChainInv
    <3>3. Abstract!Best(heights)' = chain_state'.hash /\ chain_state'.work = BranchWork[chain_state'.hash]
      <4>1. chain_state'.height \in Nat
        BY <3>1 DEF TypeOK, StateType
      <4>2. \A h \in 0..chain_state'.height : BranchWork[heights'[h]] \in Nat
        BY <3>1, ReferenceAssumption DEF ChainInv, IsValidChain
      <4>3. Abstract!Best(heights') = heights'[chain_state'.height]
        BY <3>1, <4>1, <4>2, BestIsLast DEF ChainInv
      <4>. QED  BY <3>1, <4>3 DEF ChainInv
    <3>4. DOMAIN heights # {} /\ IsValidChain(heights')
      BY <3>1 DEF ChainInv, IsValidChain
    <3>5. utxo' = LedgerAt[chain_state'.hash]
      BY <3>1 DEF ChainInv
    <3>6. BranchWork[chain_state'.hash] > BranchWork[chain_state.hash]
      BY <2>3, <3>2, <3>3 DEF ChainSwitch
    <3>7. Abstract!IsValidChain(heights')
      BY <3>4 DEF Abstract!IsValidChain, IsValidChain
    <3>. QED  BY <3>2, <3>3, <3>4, <3>5, <3>6, <3>7 DEF Abstract!Next, Abstract!Advance
  <2>. QED  BY <1>2, <2>1, <2>2, <2>3, NextInv
<1>. QED  BY <1>1, <1>2, Invariant, PTL DEF Spec, Implements, Abstract!Spec


\* No sequence of appends, reorganizations, faults and restarts leaves more value in
\* the utxo table than the allocation and one subsidy per canonical block.
THEOREM SupplyCorrectness ==
  ASSUME NoRepeats
  PROVE  Spec => []SupplyBounded
<1>1. IInv => SupplyBounded
  <2> SUFFICES ASSUME IInv, chain_state.count # 0
               PROVE  TotalValue(utxo) <= TotalValue(LedgerAt[Genesis])
                                            + MapThenSumSet(block_subsidy, 1..chain_state.height)
    BY DEF SupplyBounded
  <2>1. ~EmptyInv
    BY DEF EmptyInv, NoState
  <2>2. ChainInv
    BY <2>1 DEF IInv, StateInv
  <2>3. /\ IsValidChain(heights) /\ chain_state.height \in DOMAIN heights
        /\ utxo = LedgerAt[heights[chain_state.height]]
    <3>1. chain_state.height \in Nat
      BY DEF IInv, TypeOK, StateType
    <3>. QED  BY <2>2, <3>1 DEF ChainInv
  <2>. QED  BY <2>3, SupplyOfBranch
<1>. QED  BY <1>1, Invariant, PTL
=============================================================================
