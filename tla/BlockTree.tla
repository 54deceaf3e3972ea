----------------------------- MODULE BlockTree -----------------------------
(***************************************************************************)
(* The blocks and transactions a node can be handed, and the rules that    *)
(* depend on nothing but them: what a block does to a set of unspent       *)
(* outputs, how that is undone, and when a block is valid on a branch.     *)
(*                                                                         *)
(* A block is its hash, a transaction its txid and an output its outpoint: *)
(* each is a digest of the content, so value, owner, parent, height and    *)
(* so on are functions of it.  A table from outpoints to UTXO records is   *)
(* therefore just a set of outpoints.                                      *)
(***************************************************************************)
EXTENDS Integers, FiniteSets, FiniteSetsExt

CONSTANTS
  Blocks,        \* hashes of all blocks, the genesis block included
  Genesis,       \* the zero hash every genesis block has
  Parent,        \* header.previous_block_hash (the zero hash for genesis)
  Height,        \* header.height, as the header claims it
  Work,          \* Block::work, floor(2^256 / (hash_threshold + 1))
  Anchor,        \* the height-1 block from which hash_threshold was derived
  Misshapen,     \* blocks with a genesis marker on a non-genesis header
  BadBlocks,     \* blocks that fail a check that reads only hash-linked data
  FutureDated    \* blocks whose timestamp is ahead of some clock readings

CONSTANTS
  Coinbase,      \* first transaction of a block (the allocation, for genesis)
  Payments,      \* its other transactions
  Inputs,        \* outpoints a transaction spends
  Outputs,       \* outpoints a transaction creates
  Value, Owner,  \* contents of the UTXO at an outpoint
  Author         \* account recovered from the signature of a payment

CONSTANTS
  InitialSubsidy, DecayInterval, DecayStep,   \* ConsensusConsts
  MaxU64                                      \* largest u64

(***************************************************************************)
(* Reference functions.  They are what the incremental bookkeeping of the  *)
(* engine is compared with: the work of the branch that ends in a block,   *)
(* its height-1 block, the unspent outputs after replaying it from         *)
(* genesis, and the blocks all of whose branch satisfies every rule.       *)
(***************************************************************************)
CONSTANTS BranchWork, FirstOf, LedgerAt, ValidBlocks

----------------------------------------------------------------------------
\* UtxoProcessor

TransactionsOf(b) == {Coinbase[b]} \cup Payments[b]

SpentIn(b) == UNION {Inputs[t] : t \in Payments[b]}
MadeIn(b)  == UNION {Outputs[t] : t \in TransactionsOf(b)}

\* An output both created and spent in the block has no effect outside it.
BlockUndo(b) == [spent_utxos       |-> SpentIn(b) \ MadeIn(b),
                 created_outpoints |-> MadeIn(b) \ SpentIn(b)]

apply_block(b, U) == (U \ BlockUndo(b).spent_utxos) \cup BlockUndo(b).created_outpoints

rewind_block(u, U) == (U \ u.created_outpoints) \cup u.spent_utxos

----------------------------------------------------------------------------
\* BlockValidator

TotalValue(S) == MapThenSumSet(LAMBDA o : Value[o], S)

\* ConsensusConsts::block_subsidy: linear decay, saturating at zero.
block_subsidy(height) ==
  LET drop == (height \div DecayInterval) * DecayStep
  IN  IF DecayInterval = 0 THEN InitialSubsidy
      ELSE IF drop >= InitialSubsidy THEN 0 ELSE InitialSubsidy - drop

\* The outpoints that have to be looked up in the UTXO set (DependencyGraph).
get_external_dependencies(b) == SpentIn(b) \ MadeIn(b)

\* The map of outputs created earlier in the block stays empty, so only what was
\* looked up is found.
resolve_utxo(o, managed) == o \in managed

validate_payment_tx(t, managed) ==
  /\ \A o \in Inputs[t] : resolve_utxo(o, managed) /\ Owner[o] = Author[t]
  /\ TotalValue(Inputs[t]) <= MaxU64
  /\ TotalValue(Outputs[t]) <= TotalValue(Inputs[t])

calculate_total_fees(b) ==
  MapThenSumSet(LAMBDA t : TotalValue(Inputs[t]) - TotalValue(Outputs[t]), Payments[b])

\* Mutant: the subsidy never decays.
reward_rule_without_decay(b) ==
  TotalValue(Outputs[Coinbase[b]]) <= InitialSubsidy + calculate_total_fees(b)

reward_rule(b) ==
  LET max_reward == block_subsidy(Height[b]) + calculate_total_fees(b)
  IN  /\ max_reward <= MaxU64
      /\ TotalValue(Outputs[Coinbase[b]]) <= max_reward

\* No output is spent twice.  It is checked with the structure of the block,
\* and again by DependencyGraph::validate_order.
ensure_unique_inputs(b) ==
  \A t, u \in Payments[b] : t # u => Inputs[t] \cap Inputs[u] = {}

\* Other faults of the layout, like those of the header, are in BadBlocks.
validate_block_structure(b) == b \notin BadBlocks /\ ensure_unique_inputs(b)

\* The dependencies outside of the block are looked up, then every payment is
\* validated against what was found.
validate_transactions(b, U) ==
  LET managed == get_external_dependencies(b) IN
  /\ ensure_unique_inputs(b)
  /\ managed \subseteq U
  /\ \A t \in Payments[b] : validate_payment_tx(t, managed)
  /\ reward_rule(b)

\* DifficultyCalc::next_hash_threshold for parent p: the anchor at height 1 from
\* which the threshold is computed, resolved like the parent through the height
\* mapping `at` of the branch view.  Empty: a lookup or a comparison failed, and
\* the block is rejected.
next_hash_threshold(p, at) ==
  IF /\ {1, Height[p]} \subseteq DOMAIN at
     /\ at[Height[p]] = p
     /\ Height[p] = 2 => Parent[p] = at[1]
    THEN {at[1]} ELSE {}

\* The threshold in the header is the one computed from the anchor Anchor[b].
verify_hash_threshold(b, at) ==
  Parent[b] # Genesis => Anchor[b] \in next_hash_threshold(Parent[b], at)

\* Mutant: only the header is validated.
validate_header_only(b, at, U) ==
  /\ b \notin BadBlocks
  /\ verify_hash_threshold(b, at)

\* BlockValidator::validate and validate_for_fork against a branch view: its
\* height mapping and its unspent outputs.
validate(b, at, U) ==
  /\ verify_hash_threshold(b, at)
  /\ validate_block_structure(b)
  /\ validate_transactions(b, U)

----------------------------------------------------------------------------
\* Assumptions on the constants

\* Block hashes form a tree: a parent link is a digest of an older block.
\* Every threshold is at least zero, so a normal block has positive work.
ASSUME TreeAssumption ==
  /\ Genesis \in Blocks
  /\ Parent \in [Blocks -> Blocks]
  /\ Parent[Genesis] = Genesis
  /\ Height \in [Blocks -> Nat]
  /\ Height[Genesis] = 0
  /\ Work \in [Blocks -> Nat]
  /\ \A b \in Blocks \ {Genesis} : Work[b] > 0
  /\ Misshapen \subseteq Blocks \ {Genesis}
  /\ BadBlocks \subseteq Blocks \ {Genesis}
  /\ FutureDated \subseteq Blocks

\* Transactions are named by their txid and outputs by their outpoint.
ASSUME TransactionAssumption ==
  /\ Coinbase \in [Blocks -> DOMAIN Inputs]
  /\ Payments \in [Blocks -> SUBSET DOMAIN Inputs]
  /\ Inputs \in [DOMAIN Inputs -> SUBSET DOMAIN Value]
  /\ Outputs \in [DOMAIN Inputs -> SUBSET DOMAIN Value]

\* Amounts are u64, and a block holds finitely many of them.
ASSUME AmountAssumption ==
  /\ Value \in [DOMAIN Value -> Nat]
  /\ \A t \in DOMAIN Inputs : IsFiniteSet(Inputs[t]) /\ IsFiniteSet(Outputs[t])
  /\ \A b \in Blocks : IsFiniteSet(Payments[b])
  /\ InitialSubsidy \in Nat /\ DecayInterval \in Nat /\ DecayStep \in Nat

\* What the reference functions are, by their recurrences along the tree.
ASSUME ReferenceAssumption ==
  /\ BranchWork \in [Blocks -> Nat]
  /\ BranchWork[Genesis] = 0
  /\ \A b \in Blocks \ {Genesis} :
       /\ BranchWork[b] = BranchWork[Parent[b]] + Work[b]
       /\ FirstOf[b] = IF Parent[b] = Genesis THEN b ELSE FirstOf[Parent[b]]
       /\ LedgerAt[b] = apply_block(b, LedgerAt[Parent[b]])
       /\ b \in ValidBlocks <=>
            /\ Parent[b] \in ValidBlocks
            /\ Height[b] = Height[Parent[b]] + 1
            /\ b \notin Misshapen \cup BadBlocks
            /\ Parent[b] # Genesis => Anchor[b] = FirstOf[Parent[b]]
            /\ validate_transactions(b, LedgerAt[Parent[b]])
  /\ LedgerAt \in [Blocks -> SUBSET DOMAIN Value]
  /\ LedgerAt[Genesis] = apply_block(Genesis, {})
  /\ Genesis \in ValidBlocks
  /\ ValidBlocks \subseteq Blocks

\* What names by digest say in blocks whose structure is right: an outpoint names
\* the transaction that creates it, a coinbase the height of its block
\* (ensure_coinbase_context); coinbases and payments are of different kinds
\* (ensure_transaction_composition), and genesis holds the allocation alone
\* (validate_genesis).
ASSUME DigestAssumption ==
  /\ \A t, u \in DOMAIN Inputs : t # u => Outputs[t] \cap Outputs[u] = {}
  /\ \A a, b \in Blocks \ BadBlocks :
       /\ Coinbase[a] = Coinbase[b] => Height[a] = Height[b]
       /\ Coinbase[a] \notin Payments[b]
  /\ Payments[Genesis] = {}

----------------------------------------------------------------------------
\* A chain is a function from the heights 0..n to blocks.
IsValidChain(c) ==
  /\ 0 \in DOMAIN c
  /\ c[0] = Genesis
  /\ \A h \in DOMAIN c :
       /\ h \in Nat
       /\ c[h] \in ValidBlocks
       /\ Height[c[h]] = h
       /\ h # 0 => h - 1 \in DOMAIN c /\ Parent[c[h]] = c[h - 1]
=============================================================================
