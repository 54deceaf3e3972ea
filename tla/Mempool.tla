------------------------------ MODULE Mempool ------------------------------
(***************************************************************************)
(* The pool of unconfirmed payments (stryi_core::mempool): admission with  *)
(* replacement by fee, eviction together with descendants, confirmation by *)
(* a block, expiry, export and restore, and the choice of transactions for *)
(* a block template.                                                       *)
(*                                                                         *)
(* Every operation runs under the write lock of the pool, so it is one     *)
(* step.  The ledger is not under that lock: admission reads one view of   *)
(* it, and it may have moved on before the next operation.                 *)
(*                                                                         *)
(* A transaction is its hash, an outpoint is a value of its own; what they *)
(* contain are constant functions of them.                                 *)
(***************************************************************************)
EXTENDS Integers, Sequences, FiniteSets, FiniteSetsExt, Functions, SequencesExt

CONSTANTS
  Txs,            \* hashes of transactions that may be submitted
  NonPayments,    \* those of them that are coinbase or genesis transactions
  Signer,         \* account recovered from the signature, NoAccount if none
  NoAccount,
  Ins,            \* data.inputs, in their order
  Outs,           \* outpoints of data.outputs
  Outpoints,      \* every outpoint
  ValueOf, OwnerOf,
  SizeOf,         \* serialized_size
  U64             \* 2^64, one more than the largest amount

CONSTANTS
  MaxSize,        \* MemPoolConfig::max_size
  FixedFee, InputCost, OutputCost, ByteCost,  \* FeePolicy
  BaseFeeDelta,   \* RbfPolicy::base_fee_delta
  PercentIncrease,\* RbfPolicy::percentage_increase, in percent
  ExpiryTime,     \* MemPoolConfig::expiry_time
  MaxClock,       \* bound on the clock
  Ledgers,        \* the sets of unspent outputs the canonical chain may have
  Blocks          \* sets of transactions a block may confirm

CONSTANT NoTx     \* an index has no entry

ASSUME PoolAssumption ==
  /\ NoTx \notin Txs
  /\ Ins \in [Txs -> Seq(Outpoints)]
  /\ Outs \in [Txs -> SUBSET Outpoints]
  /\ \A t, u \in Txs : t # u => Outs[t] \cap Outs[u] = {}
  /\ Ledgers \subseteq SUBSET Outpoints
  /\ Blocks \subseteq SUBSET Txs
  /\ MaxClock \in Nat
  /\ MaxSize \in Nat

ASSUME AmountAssumption ==
  /\ ValueOf \in [Outpoints -> Nat] /\ SizeOf \in [Txs -> Nat]
  /\ \A t \in Txs : IsFiniteSet(Outs[t])
  /\ FixedFee \in Nat /\ InputCost \in Nat /\ OutputCost \in Nat /\ ByteCost \in Nat
  /\ BaseFeeDelta \in Nat /\ PercentIncrease \in Nat
  /\ U64 \in Nat \ {0}

VARIABLES
  storage,        \* TransactionStorage: transactions and its two indexes
  tracker,        \* DependencyTracker: nodes and incoming edges
  clock,          \* current_timestamp()
  utxos,          \* what UtxoLookup resolves: unspent outputs of the tip
  exported        \* the last snapshot built by get_sync_state

vars == <<storage, tracker, clock, utxos, exported>>

----------------------------------------------------------------------------
\* TransactionStorage

InputSet(t) == Range(Ins[t])

EmptyStorage == [transactions          |-> {},
                 output_creation_index |-> [o \in Outpoints |-> NoTx],
                 input_spending_index  |-> [o \in Outpoints |-> NoTx],
                 timestamp             |-> [t \in Txs |-> 0]]

\* Mutant of insert_with_timestamp: a timestamp that runs ahead of the clock.
insert_ahead(s, t, now) ==
  [transactions          |-> s.transactions \cup {t},
   output_creation_index |-> [o \in Outpoints |->
                                IF o \in Outs[t] THEN t ELSE s.output_creation_index[o]],
   input_spending_index  |-> [o \in Outpoints |->
                                IF o \in InputSet(t) THEN t ELSE s.input_spending_index[o]],
   timestamp             |-> [s.timestamp EXCEPT ![t] = now + 1]]

insert_with_timestamp(s, t, now) ==
  [transactions          |-> s.transactions \cup {t},
   output_creation_index |-> [o \in Outpoints |->
                                IF o \in Outs[t] THEN t ELSE s.output_creation_index[o]],
   input_spending_index  |-> [o \in Outpoints |->
                                IF o \in InputSet(t) THEN t ELSE s.input_spending_index[o]],
   timestamp             |-> [s.timestamp EXCEPT ![t] = now]]

\* Mutant of remove: the spending index keeps entries of removed transactions.
remove_keeping_inputs(s, R) ==
  LET gone == R \cap s.transactions IN
  [s EXCEPT !.transactions = @ \ gone,
            !.output_creation_index = [o \in Outpoints |->
               IF \E t \in gone : o \in Outs[t] THEN NoTx ELSE @[o]]]

\* Only a stored transaction is cleaned up, and only its own index entries.
remove(s, R) ==
  LET gone == R \cap s.transactions IN
  [transactions          |-> s.transactions \ gone,
   output_creation_index |-> [o \in Outpoints |->
                                IF \E t \in gone : o \in Outs[t] THEN NoTx
                                ELSE s.output_creation_index[o]],
   input_spending_index  |-> [o \in Outpoints |->
                                IF /\ s.input_spending_index[o] \in gone
                                   /\ o \in InputSet(s.input_spending_index[o])
                                THEN NoTx ELSE s.input_spending_index[o]],
   timestamp             |-> [t \in Txs |-> IF t \in gone THEN 0 ELSE s.timestamp[t]]]

----------------------------------------------------------------------------
\* DependencyTracker.  parents[t] lists the incoming edges of t in the order
\* in which they were added; petgraph walks them from the newest to the oldest.

\* The elements of a list that are in S, in their order.
Kept(s, S) ==
  LET Upto[i \in 0..Len(s)] ==
        IF i = 0 THEN <<>>
        ELSE IF s[i] \in S THEN Append(Upto[i - 1], s[i]) ELSE Upto[i - 1]
  IN  Upto[Len(s)]

EmptyTracker == [nodes |-> {}, parents |-> [t \in Txs |-> <<>>]]

\* Edges come only from transactions that are tracked at this moment.
track(d, t, ps) ==
  [nodes   |-> d.nodes \cup {t},
   parents |-> [d.parents EXCEPT ![t] = Kept(ps, d.nodes)]]

\* Edges of a removed node go with it: children are not rewired.
untrack(d, R) ==
  [nodes   |-> d.nodes \ R,
   parents |-> [t \in Txs |-> IF t \in R THEN <<>>
                              ELSE Kept(d.parents[t], Txs \ R)]]

Children(d, S) == {t \in d.nodes : \E i \in DOMAIN d.parents[t] : d.parents[t][i] \in S}

\* walk_hashes: breadth-first, one more generation per round.
get_descendants(d, t) ==
  LET Reached[n \in 0..Cardinality(d.nodes)] ==
        IF n = 0 THEN Children(d, {t})
        ELSE Reached[n - 1] \cup Children(d, Reached[n - 1])
  IN  Reached[Cardinality(d.nodes)]

\* gather_with_ancestors: a stack of nodes to visit; the visited ones are
\* listed in reverse order of their visit.
get_with_ancestors(d, t) ==
  LET degree == [u \in d.nodes |-> Len(d.parents[u])]
      edges  == MapThenSumSet(LAMBDA u : degree[u], d.nodes)
      Visit[n \in 0..edges + 1] ==
        IF n = 0 THEN [stack |-> <<t>>, result |-> <<>>]
        ELSE LET s    == Visit[n - 1]
                 node == Last(s.stack)
             IN  IF s.stack = <<>> THEN s
                 ELSE IF Contains(s.result, node) THEN [s EXCEPT !.stack = Front(@)]
                 ELSE [stack  |-> Front(s.stack) \o Reverse(d.parents[node]),
                       result |-> Append(s.result, node)]
  IN  IF t \in d.nodes THEN Reverse(Visit[edges + 1].result) ELSE <<>>

----------------------------------------------------------------------------
\* MempoolTxValidator and fees

InputValue(t)  == MapThenSumSet(LAMBDA i : ValueOf[Ins[t][i]], DOMAIN Ins[t])
OutputValue(t) == MapThenSumSet(LAMBDA o : ValueOf[o], Outs[t])

\* Amounts are added up in 64 bits, with saturating_add or with sum().  A release
\* build lets sum() wrap around; a debug build panics, which leaves the pool alone.
Saturated(x) == IF x < U64 THEN x ELSE U64 - 1
Wrapped(x)   == x % U64

\* An input comes from the pool if some pooled transaction creates it, and
\* from the ledger otherwise.
Resolved(o) == storage.output_creation_index[o] # NoTx \/ o \in utxos

validate(t) ==
  /\ t \notin NonPayments
  /\ Signer[t] # NoAccount
  /\ \A o \in InputSet(t) : Resolved(o) /\ OwnerOf[o] = Signer[t]
  /\ Saturated(InputValue(t)) >= Wrapped(OutputValue(t))

calculate_fee(t) == FixedFee + InputCost * Len(Ins[t]) + OutputCost * Cardinality(Outs[t])
                    + ByteCost * SizeOf[t]

\* The fee a transaction is credited with: what its inputs leave over, or what the
\* policy asks for if that is more.  Whether it is really paid is not checked.
actual_fee(t) ==
  Max({calculate_fee(t), Max({0, Wrapped(InputValue(t)) - Wrapped(OutputValue(t))})})

----------------------------------------------------------------------------
\* RbfConflictResolver (the load factor is always 1)

CeilPercent(x, percent) == (x * percent + 99) \div 100

required_fee(old) == Max({old + BaseFeeDelta, CeilPercent(old, 100 + PercentIncrease)})

is_disabled == BaseFeeDelta = 0 /\ PercentIncrease = 0

\* main() disables replacement; the default policies charge a base fee delta and
\* a fixed fee.
ASSUME ChargeAssumption ==
  is_disabled \/ \A t \in Txs : BaseFeeDelta + calculate_fee(t) > 0

\* Mutant of find_conflicts: only the first input is looked up.
find_first_conflict(t) == {storage.input_spending_index[Ins[t][1]]} \ {NoTx}

find_conflicts(t) == {storage.input_spending_index[o] : o \in InputSet(t)} \ {NoTx}

\* Mutant of ConflictFee: descendants leave without being paid for.
ConflictFeeOfHeads(C) == MapThenSumSet(actual_fee, C)

\* The fee of a descendant counts once for every conflict it descends from.
ConflictFee(C) ==
  MapThenSumSet(LAMBDA c : actual_fee(c) +
                           MapThenSumSet(actual_fee, get_descendants(tracker, c)), C)

\* Every sum and product on the way saturates as well, which the last one covers.
RequiredFor(C) ==
  Saturated(CeilPercent(required_fee(ConflictFee(C)), 100 + 5 * Cardinality(C)))

Affected(C) == C \cup UNION {get_descendants(tracker, c) : c \in C}

\* What has to leave for t to be admitted; conflict resolution may refuse it.
resolve_conflicts(t) ==
  LET C == find_conflicts(t) IN
  /\ C # {} => ~is_disabled /\ actual_fee(t) >= RequiredFor(C)

----------------------------------------------------------------------------
\* MemPool

Init ==
  /\ storage = EmptyStorage
  /\ tracker = EmptyTracker
  /\ clock = 0
  /\ utxos \in Ledgers
  /\ exported = EmptyStorage

parent_hashes(s, t) ==
  Kept([i \in DOMAIN Ins[t] |-> s.output_creation_index[Ins[t][i]]], Txs)

\* Every refusal (duplicate, full pool, failed lookup, failed validation,
\* conflict that cannot be replaced) leaves the pool as it was.
add_transaction(t) ==
  LET evicted == Affected(find_conflicts(t))
      s       == insert_with_timestamp(remove(storage, evicted), t, clock)
  IN  /\ t \notin storage.transactions
      /\ Cardinality(storage.transactions) < MaxSize
      /\ validate(t)
      /\ resolve_conflicts(t)
      /\ storage' = s
      /\ tracker' = track(untrack(tracker, evicted), t, parent_hashes(s, t))
      /\ UNCHANGED <<clock, utxos, exported>>

\* Transactions that leave with their descendants.
Evict(R) ==
  LET gone == R \cup UNION {get_descendants(tracker, t) : t \in R} IN
  /\ storage' = remove(storage, gone)
  /\ tracker' = untrack(tracker, gone)
  /\ UNCHANGED <<clock, utxos, exported>>

remove_transaction(t) == Evict({t})

Expired == {t \in storage.transactions : clock - storage.timestamp[t] > ExpiryTime}

cleanup_expired == Expired # {} /\ Evict(Expired)

\* Confirmed transactions leave, their children stay, and so do transactions
\* that conflict with them.
update_on_block(B) ==
  /\ storage' = remove(storage, B)
  /\ tracker' = untrack(tracker, B)
  /\ UNCHANGED <<clock, utxos, exported>>

get_sync_state ==
  /\ exported' = storage
  /\ UNCHANGED <<storage, tracker, clock, utxos>>

\* The snapshot lists transactions in the order of a hash map, so a child may
\* be tracked before its parent, and then has no edge from it.
RestoredTracker(s, order) ==
  LET Before(t) == {order[i] : i \in {i \in DOMAIN order :
                                       \E j \in DOMAIN order : i < j /\ order[j] = t}}
  IN  [nodes   |-> s.transactions,
       parents |-> [t \in Txs |-> Kept(parent_hashes(s, t), Before(t))]]

\* The code takes any bytes and checks nothing but their encoding.  Nothing calls it
\* yet; the snapshots it is made for are those of get_sync_state.
restore_state ==
  \E order \in SetToSeqs(exported.transactions) :
    /\ storage' = exported
    /\ tracker' = RestoredTracker(exported, order)
    /\ UNCHANGED <<clock, utxos, exported>>

Tick == clock < MaxClock /\ clock' = clock + 1 /\ UNCHANGED <<storage, tracker, utxos, exported>>

LedgerMoves == utxos' \in Ledgers /\ UNCHANGED <<storage, tracker, clock, exported>>

Next ==
  \/ \E t \in Txs : add_transaction(t)
  \/ \E t \in Txs : remove_transaction(t)
  \/ \E B \in Blocks : update_on_block(B)
  \/ cleanup_expired
  \/ get_sync_state
  \/ restore_state
  \/ Tick
  \/ LedgerMoves

Spec == Init /\ [][Next]_vars

----------------------------------------------------------------------------
\* Block template

Sum(s) == FoldLeft(LAMBDA a, b : a + b, 0, s)

PackageFee(t)  == Sum([i \in DOMAIN get_with_ancestors(tracker, t) |->
                         actual_fee(get_with_ancestors(tracker, t)[i])])
PackageSize(t) == Sum([i \in DOMAIN get_with_ancestors(tracker, t) |->
                         SizeOf[get_with_ancestors(tracker, t)[i]]])

\* package_fee_rate, compared without division: the better one first.  The code
\* puts equal ones in the topological order, here they may have any.
Rankings ==
  {order \in SetToSeqs(tracker.nodes) :
     \A i, j \in DOMAIN order : i < j =>
       PackageFee(order[i]) * PackageSize(order[j]) >= PackageFee(order[j]) * PackageSize(order[i])}

\* Mutant of get_best_transactions: packages keep what is already selected.
get_best_overlapping(order, limit) ==
  LET Selected[n \in 0..Len(order)] ==
        IF n = 0 THEN <<>>
        ELSE LET acc     == Selected[n - 1]
                 package == get_with_ancestors(tracker, order[n])
             IN  IF Contains(acc, order[n]) \/ Len(package) > limit - Len(acc) THEN acc
                 ELSE acc \o package
  IN  Selected[Len(order)]

get_best_transactions(order, limit) ==
  LET Selected[n \in 0..Len(order)] ==
        IF n = 0 THEN <<>>
        ELSE LET acc     == Selected[n - 1]
                 package == Kept(get_with_ancestors(tracker, order[n]), Txs \ Range(acc))
             IN  IF Contains(acc, order[n]) \/ Len(package) > limit - Len(acc) THEN acc
                 ELSE acc \o package
  IN  Selected[Len(order)]

----------------------------------------------------------------------------
\* Properties

\* Type invariant; no timestamp of a stored transaction lies after the clock's last
\* value (insert_with_timestamp).
TypeOK ==
  /\ storage.transactions \subseteq Txs
  /\ storage.output_creation_index \in [Outpoints -> Txs \cup {NoTx}]
  /\ storage.input_spending_index \in [Outpoints -> Txs \cup {NoTx}]
  /\ storage.timestamp \in [Txs -> 0..MaxClock]
  /\ tracker.nodes \subseteq Txs
  /\ DOMAIN tracker.parents = Txs
  /\ clock \in 0..MaxClock
  /\ utxos \in Ledgers
  /\ exported.transactions \subseteq Txs

\* The indexes describe the stored transactions and nothing else.
Indexed(s) ==
  /\ \A o \in Outpoints, t \in Txs :
       s.output_creation_index[o] = t <=> (t \in s.transactions /\ o \in Outs[t])
  /\ \A o \in Outpoints, t \in Txs :
       s.input_spending_index[o] = t <=> (t \in s.transactions /\ o \in InputSet(t))

\* Storage, both indexes and the dependency tracker list the same
\* transactions whatever was replaced, confirmed, expired or restored:
\* admission looks for parents and conflicts in the indexes only, so a stale
\* entry would refuse payments and a lost one would admit double spends.
IndexesExact == Indexed(storage) /\ tracker.nodes = storage.transactions

\* No two pooled transactions spend the same output (find_conflicts sees the
\* spender of every input, and all of them leave before the new one enters).
ConflictFree ==
  \A t, u \in storage.transactions : t # u => InputSet(t) \cap InputSet(u) = {}

\* A transaction that pushes others out is credited with a higher fee than everything
\* it pushes out together, descendants included, unless their fees exhaust a u64: no
\* cycle of replacements comes back to where it began (resolve_conflicts).
ReplacementOutbids ==
  [][\A t \in storage'.transactions \ storage.transactions :
       LET out      == storage.transactions \ storage'.transactions
           credited == MapThenSumSet(actual_fee, out)
       IN  out # {} /\ add_transaction(t) /\ credited < U64 - 1 => actual_fee(t) > credited]_vars

\* A template has no duplicates, respects the limit, takes with every
\* transaction all its tracked ancestors, and takes everything if there is
\* room for it (get_best_transactions).
TemplateComplete ==
  \A order \in Rankings, limit \in 1..MaxSize :
    LET T == get_best_transactions(order, limit) IN
    /\ IsInjective(T)
    /\ Len(T) <= limit
    /\ Range(T) \subseteq storage.transactions
    /\ \A t \in Range(T) : Range(get_with_ancestors(tracker, t)) \subseteq Range(T)
    /\ limit >= Cardinality(storage.transactions) => Range(T) = storage.transactions
=============================================================================
