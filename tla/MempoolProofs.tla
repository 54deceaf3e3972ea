--------------------------- MODULE MempoolProofs ---------------------------
(***************************************************************************)
(* Proofs about Mempool for every set of transactions, fee policy, limit   *)
(* and ledger: the storage, its two indexes and the dependency tracker     *)
(* describe the same transactions, no two of them spend one output, a      *)
(* replacement is credited with more than everything it pushes out, and a  *)
(* template has all ancestors of what it takes.                            *)
(***************************************************************************)
EXTENDS Mempool, SumProofs

StorageType ==
  [transactions          : SUBSET Txs,
   output_creation_index : [Outpoints -> Txs \cup {NoTx}],
   input_spending_index  : [Outpoints -> Txs \cup {NoTx}],
   timestamp             : [Txs -> 0..MaxClock]]

\* The last export is restored as it is, so it has to be as sound as the pool.
IInv ==
  /\ storage \in StorageType /\ Indexed(storage)
  /\ exported \in StorageType /\ Indexed(exported)
  /\ tracker.nodes = storage.transactions /\ DOMAIN tracker.parents = Txs
  /\ clock \in 0..MaxClock
  /\ utxos \in Ledgers

----------------------------------------------------------------------------
(***************************************************************************)
(* The operations of the storage.                                          *)
(***************************************************************************)

\* The empty pool.
LEMMA EmptySound ==
  EmptyStorage \in StorageType /\ Indexed(EmptyStorage)
<1>1. EmptyStorage \in StorageType
  BY PoolAssumption DEF EmptyStorage, StorageType
<1>2. Indexed(EmptyStorage)
  BY PoolAssumption DEF EmptyStorage, Indexed
<1>. QED  BY <1>1, <1>2

\* TransactionStorage::remove: the entries of what leaves are cleaned up in both
\* indexes, and those of what stays are left alone.
LEMMA RemoveSound ==
  ASSUME NEW s \in StorageType, Indexed(s), NEW R
  PROVE  /\ remove(s, R) \in StorageType /\ Indexed(remove(s, R))
         /\ remove(s, R).transactions = s.transactions \ R
<1> DEFINE gone == R \cap s.transactions
           v == remove(s, R)
<1>1. /\ v.transactions = s.transactions \ gone
      /\ v.output_creation_index = [o \in Outpoints |->
           IF \E t \in gone : o \in Outs[t] THEN NoTx ELSE s.output_creation_index[o]]
      /\ v.input_spending_index = [o \in Outpoints |->
           IF s.input_spending_index[o] \in gone /\ o \in InputSet(s.input_spending_index[o])
           THEN NoTx ELSE s.input_spending_index[o]]
      /\ v \in StorageType
  BY PoolAssumption DEF remove, StorageType
<1> HIDE DEF v
<1>2. s.transactions \subseteq Txs /\ gone \subseteq s.transactions
  BY DEF StorageType
<1>3. ASSUME NEW o \in Outpoints, NEW t \in Txs
      PROVE  v.output_creation_index[o] = t <=> (t \in v.transactions /\ o \in Outs[t])
  <2>1. s.output_creation_index[o] = t <=> (t \in s.transactions /\ o \in Outs[t])
    BY DEF Indexed
  <2>2. ASSUME NEW x \in gone, o \in Outs[x], o \in Outs[t] PROVE x = t
    BY <1>2, <2>2, PoolAssumption
  <2>3. NoTx # t
    BY PoolAssumption
  <2>. QED  BY <1>1, <2>1, <2>2, <2>3
<1>4. ASSUME NEW o \in Outpoints, NEW t \in Txs
      PROVE  v.input_spending_index[o] = t <=> (t \in v.transactions /\ o \in InputSet(t))
  <2>1. s.input_spending_index[o] = t <=> (t \in s.transactions /\ o \in InputSet(t))
    BY DEF Indexed
  <2>2. NoTx # t
    BY PoolAssumption
  <2>. QED  BY <1>1, <2>1, <2>2
<1>5. Indexed(v)
  BY <1>3, <1>4 DEF Indexed
<1>. QED  BY <1>1, <1>5 DEF v

\* TransactionStorage::insert_with_timestamp: with no conflict left in the
\* storage, the new entries of the indexes overwrite none of another transaction.
LEMMA InsertSound ==
  ASSUME NEW s \in StorageType, Indexed(s), NEW t \in Txs, NEW now \in 0..MaxClock,
         \A u \in s.transactions : u # t => InputSet(u) \cap InputSet(t) = {}
  PROVE  /\ insert_with_timestamp(s, t, now) \in StorageType
         /\ Indexed(insert_with_timestamp(s, t, now))
         /\ insert_with_timestamp(s, t, now).transactions = s.transactions \cup {t}
<1> DEFINE v == insert_with_timestamp(s, t, now)
<1>1. /\ v.transactions = s.transactions \cup {t}
      /\ v.output_creation_index = [o \in Outpoints |->
           IF o \in Outs[t] THEN t ELSE s.output_creation_index[o]]
      /\ v.input_spending_index = [o \in Outpoints |->
           IF o \in InputSet(t) THEN t ELSE s.input_spending_index[o]]
      /\ v \in StorageType
  BY DEF insert_with_timestamp, StorageType
<1> HIDE DEF v
<1>2. ASSUME NEW o \in Outpoints, NEW u \in Txs
      PROVE  v.output_creation_index[o] = u <=> (u \in v.transactions /\ o \in Outs[u])
  <2>1. s.output_creation_index[o] = u <=> (u \in s.transactions /\ o \in Outs[u])
    BY DEF Indexed
  <2>2. u # t => ~(o \in Outs[u] /\ o \in Outs[t])
    BY PoolAssumption
  <2>. QED  BY <1>1, <2>1, <2>2
<1>3. ASSUME NEW o \in Outpoints, NEW u \in Txs
      PROVE  v.input_spending_index[o] = u <=> (u \in v.transactions /\ o \in InputSet(u))
  <2>1. s.input_spending_index[o] = u <=> (u \in s.transactions /\ o \in InputSet(u))
    BY DEF Indexed
  <2>. QED  BY <1>1, <2>1
<1>4. Indexed(v)
  BY <1>2, <1>3 DEF Indexed
<1>. QED  BY <1>1, <1>4 DEF v

\* Exact indexes admit no double spend.
LEMMA IndexedConflictFree ==
  ASSUME NEW s \in StorageType, Indexed(s),
         NEW t \in s.transactions, NEW u \in s.transactions, t # u
  PROVE  InputSet(t) \cap InputSet(u) = {}
<1>1. t \in Txs /\ u \in Txs
  BY DEF StorageType
<1>2. ASSUME NEW o, o \in InputSet(t), o \in InputSet(u) PROVE FALSE
  <2>1. o \in Outpoints
    <3>1. Ins[t] \in Seq(Outpoints)
      BY <1>1, PoolAssumption
    <3>. QED  BY <1>2, <3>1 DEF InputSet, Range
  <2>2. s.input_spending_index[o] = t /\ s.input_spending_index[o] = u
    BY <1>1, <1>2, <2>1 DEF Indexed
  <2>. QED  BY <2>2
<1>. QED  BY <1>2

----------------------------------------------------------------------------
(***************************************************************************)
(* The operations of the tracker.                                          *)
(***************************************************************************)

\* What leaves the tracker is what leaves the storage.
LEMMA UntrackNodes ==
  ASSUME NEW d, NEW R
  PROVE  untrack(d, R).nodes = d.nodes \ R /\ DOMAIN untrack(d, R).parents = Txs
BY DEF untrack

\* A tracked transaction is a node, and it has a list of parents.
LEMMA TrackNodes ==
  ASSUME NEW d, NEW t, NEW ps, DOMAIN d.parents = Txs
  PROVE  track(d, t, ps).nodes = d.nodes \cup {t} /\ DOMAIN track(d, t, ps).parents = Txs
BY DEF track

\* A restored tracker has exactly the restored transactions.
LEMMA RestoredNodes ==
  ASSUME NEW s, NEW order
  PROVE  /\ RestoredTracker(s, order).nodes = s.transactions
         /\ DOMAIN RestoredTracker(s, order).parents = Txs
BY DEF RestoredTracker

----------------------------------------------------------------------------
(***************************************************************************)
(* The operations of the pool keep the invariant.                          *)
(***************************************************************************)

\* Transactions leave storage and tracker together.
LEMMA RemovalKeeps ==
  ASSUME IInv, NEW R, storage' = remove(storage, R), tracker' = untrack(tracker, R),
         UNCHANGED <<clock, utxos, exported>>
  PROVE  IInv'
<1>1. /\ remove(storage, R) \in StorageType /\ Indexed(remove(storage, R))
      /\ remove(storage, R).transactions = storage.transactions \ R
  BY RemoveSound DEF IInv
<1>2. /\ storage' \in StorageType /\ Indexed(storage)'
      /\ storage'.transactions = storage.transactions \ R
  BY <1>1 DEF Indexed
<1>3. tracker'.nodes = tracker.nodes \ R /\ DOMAIN tracker'.parents = Txs
  BY UntrackNodes
<1>4. exported' \in StorageType /\ Indexed(exported)' /\ clock' \in 0..MaxClock /\ utxos' \in Ledgers
  BY DEF IInv, Indexed
<1>5. tracker'.nodes = storage'.transactions
  BY <1>2, <1>3 DEF IInv
<1>. QED  BY <1>2, <1>3, <1>4, <1>5 DEF IInv

\* add_transaction: every conflict is in the spending index, so all of them have
\* left before the new transaction is inserted.
LEMMA AddKeeps ==
  ASSUME IInv, NEW t \in Txs, add_transaction(t)
  PROVE  IInv'
<1> DEFINE R == Affected(find_conflicts(t))
           s == remove(storage, R)
           v == insert_with_timestamp(s, t, clock)
<1>1. /\ storage' = v
      /\ tracker' = track(untrack(tracker, R), t, parent_hashes(v, t))
      /\ clock' = clock /\ utxos' = utxos /\ exported' = exported
  BY DEF add_transaction
<1>2. /\ s \in StorageType /\ Indexed(s) /\ s.transactions = storage.transactions \ R
  BY RemoveSound DEF IInv
<1>3. ASSUME NEW u \in s.transactions, u # t
      PROVE  InputSet(u) \cap InputSet(t) = {}
  <2> SUFFICES ASSUME NEW o, o \in InputSet(u), o \in InputSet(t)
               PROVE  FALSE
    OBVIOUS
  <2>1. u \in Txs /\ u \in storage.transactions /\ u \notin R
    BY <1>2 DEF StorageType
  <2>2. o \in Outpoints
    <3>1. Ins[t] \in Seq(Outpoints)
      BY PoolAssumption
    <3>. QED  BY <3>1 DEF InputSet, Range
  <2>3. storage.input_spending_index[o] = u
    BY <2>1, <2>2 DEF IInv, Indexed
  <2>4. u \in find_conflicts(t)
    BY <2>1, <2>3, PoolAssumption DEF find_conflicts
  <2>5. u \in R
    BY <2>4 DEF Affected
  <2>. QED  BY <2>1, <2>5
<1> HIDE DEF R, s
<1>4. clock \in 0..MaxClock
  BY DEF IInv
<1>5. v \in StorageType /\ Indexed(v) /\ v.transactions = s.transactions \cup {t}
  BY <1>2, <1>3, <1>4, InsertSound
<1> HIDE DEF v
<1>6. storage' \in StorageType /\ Indexed(storage)'
  BY <1>1, <1>5 DEF Indexed
<1>7. tracker'.nodes = (tracker.nodes \ R) \cup {t} /\ DOMAIN tracker'.parents = Txs
  BY <1>1, UntrackNodes, TrackNodes
<1>8. tracker'.nodes = storage'.transactions
  BY <1>1, <1>2, <1>5, <1>7 DEF IInv
<1>9. exported' \in StorageType /\ Indexed(exported)' /\ clock' \in 0..MaxClock /\ utxos' \in Ledgers
  BY <1>1 DEF IInv, Indexed
<1>. QED  BY <1>6, <1>7, <1>8, <1>9 DEF IInv

\* get_sync_state and restore_state: what is restored was exact when exported.
LEMMA SyncKeeps ==
  ASSUME IInv, get_sync_state \/ restore_state
  PROVE  IInv'
<1>1. CASE get_sync_state
  BY <1>1 DEF get_sync_state, IInv, Indexed
<1>2. CASE restore_state
  <2>1. PICK order : tracker' = RestoredTracker(exported, order)
    BY <1>2 DEF restore_state
  <2>2. storage' = exported /\ exported' = exported /\ clock' = clock /\ utxos' = utxos
    BY <1>2 DEF restore_state
  <2>3. tracker'.nodes = exported.transactions /\ DOMAIN tracker'.parents = Txs
    BY <2>1, RestoredNodes
  <2>. QED  BY <2>2, <2>3 DEF IInv, Indexed
<1>. QED  BY <1>1, <1>2

\* Every step keeps the invariant.
LEMMA NextInv ==
  ASSUME IInv, [Next]_vars
  PROVE  IInv'
<1>1. ASSUME NEW t \in Txs, add_transaction(t) PROVE IInv'
  BY <1>1, AddKeeps
<1>2. ASSUME NEW R, Evict(R) PROVE IInv'
  BY <1>2, RemovalKeeps DEF Evict
<1>3. ASSUME NEW B \in Blocks, update_on_block(B) PROVE IInv'
  BY <1>3, RemovalKeeps DEF update_on_block
<1>4. CASE get_sync_state \/ restore_state
  BY <1>4, SyncKeeps
<1>5. CASE Tick
  <2>1. clock' \in 0..MaxClock
    BY <1>5, PoolAssumption DEF Tick, IInv
  <2>2. storage' = storage /\ tracker' = tracker /\ utxos' = utxos /\ exported' = exported
    BY <1>5 DEF Tick
  <2>. QED  BY <2>1, <2>2 DEF IInv, Indexed
<1>6. CASE LedgerMoves
  BY <1>6 DEF LedgerMoves, IInv, Indexed
<1>7. CASE UNCHANGED vars
  BY <1>7 DEF vars, IInv, Indexed
<1>. QED  BY <1>1, <1>2, <1>3, <1>4, <1>5, <1>6, <1>7 DEF Next, remove_transaction, cleanup_expired

----------------------------------------------------------------------------
(***************************************************************************)
(* The theorems.                                                           *)
(***************************************************************************)

\* The invariant holds in every state of every behaviour.
THEOREM Invariance == Spec => []IInv
<1>1. Init => IInv
  <2> SUFFICES ASSUME Init PROVE IInv
    OBVIOUS
  <2>1. /\ storage = EmptyStorage /\ exported = EmptyStorage /\ tracker = EmptyTracker
        /\ clock = 0 /\ utxos \in Ledgers
    BY DEF Init
  <2>2. storage \in StorageType /\ Indexed(storage) /\ exported \in StorageType /\ Indexed(exported)
    BY <2>1, EmptySound
  <2>3. tracker.nodes = storage.transactions /\ DOMAIN tracker.parents = Txs
    BY <2>1 DEF EmptyTracker, EmptyStorage
  <2>. QED  BY <2>1, <2>2, <2>3, PoolAssumption DEF IInv
<1>2. IInv /\ [Next]_vars => IInv'
  BY NextInv
<1>. QED  BY <1>1, <1>2, PTL DEF Spec

\* Type correctness of the pool.
THEOREM TypeCorrectness == Spec => []TypeOK
<1>1. IInv => TypeOK
  BY DEF IInv, TypeOK, StorageType
<1>. QED  BY <1>1, Invariance, PTL

\* The indexes and the tracker describe the stored transactions and nothing else,
\* after any sequence of admissions, replacements, evictions, confirmations,
\* expiries, exports and restores.
THEOREM IndexExactness == Spec => []IndexesExact
<1>1. IInv => IndexesExact
  BY DEF IInv, IndexesExact
<1>. QED  BY <1>1, Invariance, PTL

\* No two pooled transactions spend the same output.
THEOREM NoDoubleSpend == Spec => []ConflictFree
<1>1. IInv => ConflictFree
  BY IndexedConflictFree DEF IInv, ConflictFree
<1>. QED  BY <1>1, Invariance, PTL

----------------------------------------------------------------------------
(***************************************************************************)
(* Fees.                                                                   *)
(***************************************************************************)

\* The larger of two numbers.
LEMMA TwoMax ==
  ASSUME NEW a \in Int, NEW b \in Int
  PROVE  Max({a, b}) \in {a, b} /\ Max({a, b}) >= a /\ Max({a, b}) >= b
<1>1. \E x \in {a, b} : \A y \in {a, b} : x >= y
  <2>1. CASE a >= b
    BY <2>1
  <2>2. CASE b >= a
    BY <2>2
  <2>. QED  BY <2>1, <2>2
<1>2. Max({a, b}) \in {a, b} /\ \A y \in {a, b} : Max({a, b}) >= y
  BY <1>1, Zenon DEF Max
<1>. QED  BY <1>2

\* The values of the inputs, in their order.
InputValues(t) == [i \in DOMAIN Ins[t] |-> ValueOf[Ins[t][i]]]

\* What the inputs of a transaction carry is a sum.
LEMMA InputsAreTotal ==
  ASSUME NEW t \in Txs
  PROVE  InputValue(t) \in Nat
<1> DEFINE D == DOMAIN Ins[t]
           w == InputValues(t)
           Step(f) == [s \in SUBSET D |->
                         IF s = {} THEN 0 ELSE ValueOf[Ins[t][Chosen(s)]] + f[Rest(s)]]
           g == CHOOSE f : f = Step(f)
<1>1. Ins[t] \in Seq(Outpoints) /\ ValueOf \in [Outpoints -> Nat]
  BY PoolAssumption, AmountAssumption
<1>2. D = 1..Len(Ins[t]) /\ Len(Ins[t]) \in Nat /\ \A i \in D : Ins[t][i] \in Outpoints
  BY <1>1
<1>3. IsFiniteSet(D) /\ D \in SUBSET D
  BY <1>2, FS_Interval
<1>4. \A i \in D : w[i] = ValueOf[Ins[t][i]] /\ w[i] \in Nat
  BY <1>1, <1>2 DEF InputValues
<1>5. InputValue(t) = g[D]
  BY Zenon DEF InputValue, MapThenSumSet, MapThenFoldSet, Chosen, Rest
<1>6. \A s \in SUBSET D : s # {} => w[Chosen(s)] = ValueOf[Ins[t][Chosen(s)]]
  <2> SUFFICES ASSUME NEW s \in SUBSET D, s # {} PROVE w[Chosen(s)] = ValueOf[Ins[t][Chosen(s)]]
    OBVIOUS
  <2>1. Chosen(s) \in s
    BY RestIsLess
  <2>. QED  BY <1>4, <2>1
<1> HIDE DEF w
<1>7. \A f : Sums(f, w, D) <=> f = Step(f)
  <2> SUFFICES ASSUME NEW f PROVE Sums(f, w, D) <=> f = Step(f)
    OBVIOUS
  <2>1. \A s \in SUBSET D : (IF s = {} THEN 0 ELSE w[Chosen(s)] + f[Rest(s)])
                              = IF s = {} THEN 0 ELSE ValueOf[Ins[t][Chosen(s)]] + f[Rest(s)]
    BY <1>6, Zenon
  <2>2. Step(f) = [s \in SUBSET D |-> IF s = {} THEN 0 ELSE w[Chosen(s)] + f[Rest(s)]]
    BY <2>1, Zenon
  <2>. QED  BY <2>2, Zenon DEF Sums
<1> HIDE DEF D
<1>8. Sums(SumOf(w, D), w, D)
  BY <1>3, SumsExist
<1>9. g = Step(g)
  BY <1>7, <1>8, Zenon
<1> HIDE DEF g
<1>10. Sums(g, w, D)
  BY <1>7, <1>9, Zenon
<1>11. g[D] = SumOf(w, D)[D]
  BY <1>3, <1>8, <1>10, SumsAgree
<1>12. Total(w, D) \in Nat
  BY <1>3, <1>4, TotalNat
<1>. QED  BY <1>5, <1>11, <1>12, TotalIs

\* A fee is a number, at least what the policy charges.
LEMMA FeeNat ==
  ASSUME NEW t \in Txs
  PROVE  actual_fee(t) \in Nat /\ calculate_fee(t) \in Nat /\ actual_fee(t) >= calculate_fee(t)
<1>1. Ins[t] \in Seq(Outpoints) /\ Outs[t] \in SUBSET Outpoints
  BY PoolAssumption
<1>2. /\ ValueOf \in [Outpoints -> Nat] /\ SizeOf[t] \in Nat /\ IsFiniteSet(Outs[t])
      /\ FixedFee \in Nat /\ InputCost \in Nat /\ OutputCost \in Nat /\ ByteCost \in Nat
  BY AmountAssumption
<1>3. Len(Ins[t]) \in Nat /\ Cardinality(Outs[t]) \in Nat
  BY <1>1, <1>2, FS_CardinalityType
<1>4. \A a, b \in Nat : a * b \in Nat
  OBVIOUS
<1>5. InputCost * Len(Ins[t]) \in Nat /\ OutputCost * Cardinality(Outs[t]) \in Nat /\ ByteCost * SizeOf[t] \in Nat
  BY <1>2, <1>3, <1>4
<1>6. calculate_fee(t) \in Nat
  <2> DEFINE a == InputCost * Len(Ins[t])
             b == OutputCost * Cardinality(Outs[t])
             c == ByteCost * SizeOf[t]
  <2>1. a \in Nat /\ b \in Nat /\ c \in Nat /\ calculate_fee(t) = FixedFee + a + b + c
    BY <1>5, Zenon DEF calculate_fee
  <2> HIDE DEF a, b, c
  <2>. QED  BY <1>2, <2>1
<1>7. OutputValue(t) = Total(ValueOf, Outs[t])
  BY Zenon DEF OutputValue, Total
<1>8. \A o \in Outs[t] : ValueOf[o] \in Nat
  BY <1>1, <1>2
<1>9. OutputValue(t) \in Nat
  BY <1>2, <1>7, <1>8, TotalNat
<1>10. InputValue(t) \in Nat
  BY InputsAreTotal
<1> DEFINE d == Wrapped(InputValue(t)) - Wrapped(OutputValue(t))
           m == Max({0, d})
           c == calculate_fee(t)
<1>11. d \in Int /\ 0 \in Int
  <2>1. \A v \in Nat : Wrapped(v) \in Int
    BY AmountAssumption DEF Wrapped
  <2>. QED  BY <1>9, <1>10, <2>1
<1>12. m \in {0, d} /\ m >= 0
  <2> HIDE DEF d
  <2>. QED  BY <1>11, TwoMax, Zenon
<1>13. m \in Int /\ c \in Int
  BY <1>6, <1>11, <1>12
<1> HIDE DEF d, m, c
<1>14. Max({c, m}) \in {c, m} /\ Max({c, m}) >= c
  BY <1>13, TwoMax, Zenon
<1>15. actual_fee(t) = Max({c, m})
  BY Zenon DEF actual_fee, c, m, d
<1>16. c \in Nat /\ m \in Nat
  BY <1>6, <1>11, <1>12, <1>13 DEF c
<1>. QED  BY <1>14, <1>15, <1>16 DEF c

\* The fees of all transactions.
Fees == [t \in Txs |-> actual_fee(t)]

LEMMA FeesNat == \A t \in Txs : Fees[t] = actual_fee(t) /\ Fees[t] \in Nat
BY FeeNat DEF Fees

\* What a set of transactions pays together.
LEMMA FeesAreTotal ==
  ASSUME NEW D \in SUBSET Txs, IsFiniteSet(D)
  PROVE  MapThenSumSet(actual_fee, D) = Total(Fees, D)
<1> DEFINE w == Fees
           Step(f) == [s \in SUBSET D |->
                         IF s = {} THEN 0 ELSE actual_fee(Chosen(s)) + f[Rest(s)]]
           g == CHOOSE f : f = Step(f)
<1>1. MapThenSumSet(actual_fee, D) = g[D]
  BY Zenon DEF MapThenSumSet, MapThenFoldSet, Chosen, Rest
<1>2. \A s \in SUBSET D : s # {} => w[Chosen(s)] = actual_fee(Chosen(s))
  <2> SUFFICES ASSUME NEW s \in SUBSET D, s # {} PROVE w[Chosen(s)] = actual_fee(Chosen(s))
    OBVIOUS
  <2>1. Chosen(s) \in s
    BY RestIsLess
  <2>2. Chosen(s) \in Txs
    BY <2>1
  <2>. QED  BY <2>2, FeesNat
<1> HIDE DEF w
<1>3. \A f : Sums(f, w, D) <=> f = Step(f)
  <2> SUFFICES ASSUME NEW f PROVE Sums(f, w, D) <=> f = Step(f)
    OBVIOUS
  <2>1. \A s \in SUBSET D : (IF s = {} THEN 0 ELSE w[Chosen(s)] + f[Rest(s)])
                              = IF s = {} THEN 0 ELSE actual_fee(Chosen(s)) + f[Rest(s)]
    BY <1>2, Zenon
  <2>2. Step(f) = [s \in SUBSET D |-> IF s = {} THEN 0 ELSE w[Chosen(s)] + f[Rest(s)]]
    BY <2>1, Zenon
  <2>. QED  BY <2>2, Zenon DEF Sums
<1>4. Sums(SumOf(w, D), w, D)
  BY SumsExist
<1>5. g = Step(g)
  BY <1>3, <1>4, Zenon
<1> HIDE DEF g
<1>6. Sums(g, w, D)
  BY <1>3, <1>5, Zenon
<1>7. D \in SUBSET D
  OBVIOUS
<1>8. g[D] = SumOf(w, D)[D]
  BY <1>4, <1>6, <1>7, SumsAgree
<1>. QED  BY <1>1, <1>8, TotalIs DEF w

----------------------------------------------------------------------------
(***************************************************************************)
(* Descendants.                                                            *)
(***************************************************************************)

\* walk_hashes reaches tracked transactions only, in as many rounds as there
\* are transactions.
LEMMA DescendantsTracked ==
  ASSUME NEW d, IsFiniteSet(d.nodes), NEW t
  PROVE  get_descendants(d, t) \in SUBSET d.nodes
<1> DEFINE m == Cardinality(d.nodes)
           V == SUBSET d.nodes
           x == Children(d, {t})
           Step(f) == [n \in 0..m |-> IF n = 0 THEN x ELSE f[n - 1] \cup Children(d, f[n - 1])]
           h == CHOOSE f : f = Step(f)
           g == [n \in 1..m |-> [S \in V |-> S \cup Children(d, S)]]
<1>1. m \in Nat
  BY FS_CardinalityType
<1>2. \A S : Children(d, S) \in V
  BY DEF Children
<1>3. \A S \in V : S \cup Children(d, S) \in V
  BY <1>2
<1>4. get_descendants(d, t) = h[m]
  BY Zenon DEF get_descendants
<1> HIDE DEF V, m, x
<1>5. g \in Steps(m, V) /\ \A n \in 1..m : \A S \in V : g[n][S] = S \cup Children(d, S)
  BY <1>3 DEF Steps
<1>6. x \in V
  BY <1>2 DEF x
<1> HIDE DEF g
<1>7. PICK f : Iterated(f, m, V, x, g)
  BY <1>1, <1>5, <1>6, Iterates, Zenon
<1>8. f = Step(f)
  <2>1. \A n \in 0..m : n = 0 \/ (n \in 1..m /\ n - 1 \in 0..m)
    BY <1>1
  <2>2. \A n \in 0..m : f[n] = IF n = 0 THEN x ELSE f[n - 1] \cup Children(d, f[n - 1])
    BY <1>5, <1>7, <2>1, Zenon DEF Iterated
  <2>3. f = [n \in 0..m |-> f[n]]
    BY <1>7, Zenon DEF Iterated
  <2>. QED  BY <2>2, <2>3, Zenon
<1>9. h = Step(h)
  BY <1>8, Zenon
<1> HIDE DEF h
<1>10. \A n \in 0..m : h[n] = IF n = 0 THEN x ELSE h[n - 1] \cup Children(d, h[n - 1])
  BY <1>9, Zenon
<1> DEFINE G == {n \in 0..m : h[n] \in V}
<1>11. 0 \in G
  <2>1. 0 \in 0..m
    BY <1>1
  <2>2. h[0] = x
    BY <1>10, <2>1, Zenon
  <2>. QED  BY <1>6, <2>1, <2>2
<1>12. ASSUME NEW n \in 1..m, n - 1 \in G PROVE n \in G
  <2>1. n \in 0..m /\ n # 0 /\ h[n - 1] \in V
    BY <1>1, <1>12
  <2>2. h[n] = h[n - 1] \cup Children(d, h[n - 1])
    BY <1>10, <2>1, Zenon
  <2>3. h[n] \in V
    BY <1>3, <2>1, <2>2
  <2>. QED  BY <2>1, <2>3
<1>13. \A n \in 0..m : n \in G
  <2> HIDE DEF G
  <2>. QED  BY <1>1, <1>11, <1>12, Counting
<1>14. h[m] \in V
  BY <1>1, <1>13
<1>. QED  BY <1>4, <1>14 DEF V

----------------------------------------------------------------------------
(***************************************************************************)
(* What a replacement pays.                                                *)
(***************************************************************************)

\* A conflict with all its descendants.
Package(c) == {c} \cup get_descendants(tracker, c)

\* The fee a conflict counts with.
Charge(C) == [c \in C |-> actual_fee(c) + MapThenSumSet(actual_fee, get_descendants(tracker, c))]

\* The charge of a conflict covers its package.
LEMMA ChargeCovers ==
  ASSUME IsFiniteSet(tracker.nodes), tracker.nodes \subseteq Txs,
         NEW C \in SUBSET tracker.nodes, NEW c \in C
  PROVE  /\ Charge(C)[c] \in Nat /\ Charge(C)[c] >= actual_fee(c)
         /\ IsFiniteSet(Package(c)) /\ Package(c) \in SUBSET tracker.nodes
         /\ Total(Fees, Package(c)) \in Nat /\ Total(Fees, Package(c)) <= Charge(C)[c]
<1> DEFINE D == get_descendants(tracker, c)
           H == {c}
<1>1. D \in SUBSET tracker.nodes
  BY DescendantsTracked
<1>2. IsFiniteSet(D) /\ D \in SUBSET Txs /\ c \in Txs
  BY <1>1, FS_Subset
<1>3. IsFiniteSet(H)
  BY FS_Singleton
<1> HIDE DEF D
<1>4. MapThenSumSet(actual_fee, D) = Total(Fees, D)
  BY <1>2, FeesAreTotal
<1>5. \A x \in H \cup D : Fees[x] \in Nat
  BY <1>2, FeesNat
<1>6. /\ Total(Fees, H) \in Nat /\ Total(Fees, D) \in Nat /\ Total(Fees, H \cup D) \in Nat
      /\ Total(Fees, H \cup D) <= Total(Fees, H) + Total(Fees, D)
  <2> HIDE DEF H
  <2>. QED  BY <1>2, <1>3, <1>5, TotalCover
<1>7. Total(Fees, H) = actual_fee(c)
  <2>1. c \in H /\ \A x \in H : Fees[x] \in Int
    BY <1>5
  <2>2. H \ {c} = {}
    OBVIOUS
  <2>3. Total(Fees, H) = Fees[c] + Total(Fees, H \ {c})
    <3> HIDE DEF H
    <3>. QED  BY <1>3, <2>1, TotalRemove
  <2>4. Total(Fees, H \ {c}) = 0
    BY <2>2, TotalEmpty
  <2>5. Fees[c] = actual_fee(c) /\ Fees[c] \in Nat
    BY <1>2, FeesNat
  <2> HIDE DEF H
  <2>. QED  BY <2>3, <2>4, <2>5
<1>8. Charge(C)[c] = actual_fee(c) + Total(Fees, D)
  BY <1>4 DEF Charge, D
<1>9. Package(c) = H \cup D
  BY DEF Package, D
<1>10. IsFiniteSet(H \cup D)
  BY <1>2, <1>3, FS_Union
<1>11. H \cup D \in SUBSET tracker.nodes
  BY <1>1
<1> HIDE DEF H
<1>12. actual_fee(c) \in Nat
  BY <1>6, <1>7
<1>. QED  BY <1>6, <1>7, <1>8, <1>9, <1>10, <1>11, <1>12

\* All conflicts together are charged for everything that has to leave.
LEMMA ConflictsCharged ==
  ASSUME IsFiniteSet(tracker.nodes), tracker.nodes \subseteq Txs, NEW C \in SUBSET tracker.nodes
  PROVE  /\ ConflictFee(C) \in Nat
         /\ \A c \in C : ConflictFee(C) >= actual_fee(c)
         /\ IsFiniteSet(Affected(C)) /\ Affected(C) \in SUBSET tracker.nodes
         /\ Total(Fees, Affected(C)) \in Nat /\ Total(Fees, Affected(C)) <= ConflictFee(C)
<1> DEFINE w == Charge(C)
           T(c) == actual_fee(c) + MapThenSumSet(actual_fee, get_descendants(tracker, c))
           Step(f) == [s \in SUBSET C |-> IF s = {} THEN 0 ELSE T(Chosen(s)) + f[Rest(s)]]
           g == CHOOSE f : f = Step(f)
<1>0. IsFiniteSet(C) /\ C \in SUBSET C
  BY FS_Subset
<1>1. ConflictFee(C) = g[C]
  BY Zenon DEF ConflictFee, MapThenSumSet, MapThenFoldSet, Chosen, Rest
<1>2. \A c \in C : w[c] = T(c)
  BY DEF Charge
<1> HIDE DEF T, w
<1>3. \A s \in SUBSET C : s # {} => w[Chosen(s)] = T(Chosen(s))
  <2> SUFFICES ASSUME NEW s \in SUBSET C, s # {} PROVE w[Chosen(s)] = T(Chosen(s))
    OBVIOUS
  <2>1. Chosen(s) \in s
    BY RestIsLess
  <2>. QED  BY <1>2, <2>1
<1>4. \A f : Sums(f, w, C) <=> f = Step(f)
  <2> SUFFICES ASSUME NEW f PROVE Sums(f, w, C) <=> f = Step(f)
    OBVIOUS
  <2>1. \A s \in SUBSET C : (IF s = {} THEN 0 ELSE w[Chosen(s)] + f[Rest(s)])
                              = IF s = {} THEN 0 ELSE T(Chosen(s)) + f[Rest(s)]
    BY <1>3, Zenon
  <2>2. Step(f) = [s \in SUBSET C |-> IF s = {} THEN 0 ELSE w[Chosen(s)] + f[Rest(s)]]
    BY <2>1, Zenon
  <2>. QED  BY <2>2, Zenon DEF Sums
<1>5. Sums(SumOf(w, C), w, C)
  BY <1>0, SumsExist
<1>6. g = Step(g)
  BY <1>4, <1>5, Zenon
<1> HIDE DEF g
<1>7. Sums(g, w, C)
  BY <1>4, <1>6, Zenon
<1>8. g[C] = SumOf(w, C)[C]
  BY <1>0, <1>5, <1>7, SumsAgree
<1>9. ConflictFee(C) = Total(w, C)
  BY <1>1, <1>8, TotalIs
<1>10. \A c \in C : /\ w[c] \in Nat /\ w[c] >= actual_fee(c)
                    /\ IsFiniteSet(Package(c)) /\ Package(c) \in SUBSET tracker.nodes
                    /\ Total(Fees, Package(c)) \in Nat /\ Total(Fees, Package(c)) <= w[c]
  BY ChargeCovers DEF w
<1>11. Total(w, C) \in Nat
  BY <1>0, <1>10, TotalNat
<1>12. ASSUME NEW c \in C PROVE Total(w, C) >= actual_fee(c)
  <2>1. Total(w, C) = w[c] + Total(w, C \ {c})
    BY <1>0, <1>10, TotalRemove
  <2>2. IsFiniteSet(C \ {c}) /\ \A x \in C \ {c} : w[x] \in Nat
    BY <1>0, <1>10, FS_Subset
  <2>3. Total(w, C \ {c}) \in Nat
    BY <2>2, TotalNat
  <2>4. actual_fee(c) \in Nat /\ w[c] \in Nat /\ w[c] >= actual_fee(c)
    BY <1>10, FeeNat
  <2>. QED  BY <2>1, <2>3, <2>4
<1> DEFINE G == [c \in C |-> Package(c)]
           v == [c \in C |-> Total(Fees, G[c])]
<1>13. \A c \in C : G[c] = Package(c) /\ v[c] = Total(Fees, G[c]) /\ v[c] = Total(Fees, Package(c))
  OBVIOUS
<1>14. Affected(C) = Joined(G, C)
  BY <1>13 DEF Affected, Joined, Package
<1> HIDE DEF G, v
<1>15. \A c \in C : IsFiniteSet(G[c]) /\ \A x \in G[c] : Fees[x] \in Nat
  <2> SUFFICES ASSUME NEW c \in C PROVE IsFiniteSet(G[c]) /\ \A x \in G[c] : Fees[x] \in Nat
    OBVIOUS
  <2>1. G[c] \in SUBSET Txs /\ IsFiniteSet(G[c])
    BY <1>10, <1>13
  <2>. QED  BY <2>1, FeesNat
<1>16. /\ IsFiniteSet(Joined(G, C)) /\ Total(Fees, Joined(G, C)) \in Nat /\ Total(v, C) \in Nat
       /\ Total(Fees, Joined(G, C)) <= Total(v, C)
  BY <1>0, <1>13, <1>15, TotalFamily
<1>17. Total(v, C) <= Total(w, C)
  <2>1. \A c \in C : v[c] \in Int /\ w[c] \in Int /\ v[c] <= w[c]
    BY <1>10, <1>13
  <2>. QED  BY <1>0, <2>1, TotalBelow
<1>18. Affected(C) \in SUBSET tracker.nodes
  BY <1>10, <1>13, <1>14 DEF Joined
<1>. QED  BY <1>9, <1>11, <1>12, <1>14, <1>16, <1>17, <1>18

\* Five percent per conflict on top of a positive fee is more than that fee.
LEMMA PercentGrows ==
  ASSUME NEW x \in Nat, x > 0, NEW k \in Nat, k > 0
  PROVE  CeilPercent(x, 100 + 5 * k) \in Int /\ CeilPercent(x, 100 + 5 * k) > x
<1> DEFINE d == 5 * k - 5
           e == x * d
           y == x * (100 + 5 * k)
<1>1. d \in Nat /\ 100 + 5 * k = 105 + d
  OBVIOUS
<1>2. e \in Nat
  <2>1. \A a, b \in Nat : a * b \in Nat
    OBVIOUS
  <2>. QED  BY <1>1, <2>1
<1>3. y = 105 * x + e
  <2>1. \A a, b \in Nat : a * (105 + b) = 105 * a + a * b
    OBVIOUS
  <2>2. y = x * (105 + d)
    BY <1>1
  <2> HIDE DEF d, y
  <2>. QED  BY <1>1, <2>1, <2>2
<1> HIDE DEF d, e, y
<1>4. y \in Nat /\ y + 99 >= 100 * (x + 1)
  BY <1>2, <1>3
<1>5. (y + 99) \div 100 \in Int /\ (y + 99) \div 100 >= x + 1
  BY <1>4
<1>6. CeilPercent(x, 100 + 5 * k) = (y + 99) \div 100
  BY DEF CeilPercent, y
<1>. QED  BY <1>5, <1>6

\* RbfPolicy::required_fee: never below the old fee and the delta.
LEMMA RequiredGrows ==
  ASSUME NEW old \in Nat
  PROVE  required_fee(old) \in Nat /\ required_fee(old) >= old + BaseFeeDelta
<1>1. BaseFeeDelta \in Nat /\ PercentIncrease \in Nat
  BY AmountAssumption
<1> DEFINE a == old + BaseFeeDelta
           b == CeilPercent(old, 100 + PercentIncrease)
<1>2. a \in Nat
  BY <1>1
<1>3. b \in Int
  <2> DEFINE y == old * (100 + PercentIncrease)
  <2>1. y \in Nat
    <3>1. \A i, j \in Nat : i * j \in Nat
      OBVIOUS
    <3>2. 100 + PercentIncrease \in Nat
      BY <1>1
    <3>. QED  BY <3>1, <3>2
  <2>2. b = (y + 99) \div 100
    BY DEF CeilPercent
  <2> HIDE DEF y, b
  <2>. QED  BY <2>1, <2>2
<1> HIDE DEF a, b
<1>4. a \in Int
  BY <1>2
<1>5. Max({a, b}) \in {a, b} /\ Max({a, b}) >= a
  BY <1>3, <1>4, TwoMax, Zenon
<1>6. required_fee(old) = Max({a, b})
  BY Zenon DEF required_fee, a, b
<1>. QED  BY <1>2, <1>3, <1>5, <1>6 DEF a

\* Storage and export hold finitely many transactions.
FiniteInv == IsFiniteSet(storage.transactions) /\ IsFiniteSet(exported.transactions)

LEMMA NextFinite ==
  ASSUME IInv, FiniteInv, [Next]_vars
  PROVE  FiniteInv'
<1>1. ASSUME NEW t \in Txs, add_transaction(t) PROVE FiniteInv'
  <2> DEFINE R == Affected(find_conflicts(t))
             s == remove(storage, R)
  <2>1. /\ storage' = insert_with_timestamp(s, t, clock) /\ exported' = exported
    BY <1>1 DEF add_transaction
  <2>2. s.transactions = storage.transactions \ R
    BY RemoveSound DEF IInv
  <2> HIDE DEF R, s
  <2>3. storage'.transactions = (storage.transactions \ R) \cup {t}
    BY <2>1, <2>2 DEF insert_with_timestamp
  <2>4. IsFiniteSet((storage.transactions \ R) \cup {t})
    BY FS_Subset, FS_AddElement DEF FiniteInv
  <2>. QED  BY <2>1, <2>3, <2>4 DEF FiniteInv
<1>2. ASSUME NEW R, storage' = remove(storage, R), exported' = exported PROVE FiniteInv'
  <2>1. remove(storage, R).transactions = storage.transactions \ R
    BY RemoveSound DEF IInv
  <2>2. IsFiniteSet(storage.transactions \ R)
    BY FS_Subset DEF FiniteInv
  <2>. QED  BY <1>2, <2>1, <2>2 DEF FiniteInv
<1>3. ASSUME NEW R, Evict(R) PROVE FiniteInv'
  BY <1>2, <1>3 DEF Evict
<1>4. ASSUME NEW B \in Blocks, update_on_block(B) PROVE FiniteInv'
  BY <1>2, <1>4 DEF update_on_block
<1>5. CASE get_sync_state \/ restore_state
  BY <1>5 DEF get_sync_state, restore_state, FiniteInv
<1>6. CASE Tick \/ LedgerMoves \/ UNCHANGED vars
  BY <1>6 DEF Tick, LedgerMoves, vars, FiniteInv
<1>. QED  BY <1>1, <1>3, <1>4, <1>5, <1>6 DEF Next, remove_transaction, cleanup_expired

\* The pool never holds infinitely many transactions.
LEMMA Finiteness == Spec => []FiniteInv
<1>1. Init => FiniteInv
  BY FS_EmptySet DEF Init, FiniteInv, EmptyStorage
<1>2. IInv /\ FiniteInv /\ [Next]_vars => FiniteInv'
  BY NextFinite
<1>. QED  BY <1>1, <1>2, Invariance, PTL DEF Spec

\* An admission that pushes transactions out.
LEMMA AddPays ==
  ASSUME IInv, FiniteInv, IInv', NEW t \in Txs, add_transaction(t),
         storage.transactions \ storage'.transactions # {},
         MapThenSumSet(actual_fee, storage.transactions \ storage'.transactions) < U64 - 1
  PROVE  actual_fee(t) > MapThenSumSet(actual_fee, storage.transactions \ storage'.transactions)
<1> DEFINE C == find_conflicts(t)
           R == Affected(C)
           out == storage.transactions \ storage'.transactions
           F == ConflictFee(C)
           x == required_fee(F)
           k == Cardinality(C)
<1>1. /\ IsFiniteSet(tracker.nodes) /\ tracker.nodes \subseteq Txs
      /\ tracker.nodes = storage.transactions
  BY DEF IInv, FiniteInv, StorageType
<1>2. out \in SUBSET R
  <2>1. storage' = insert_with_timestamp(remove(storage, R), t, clock)
    BY DEF add_transaction
  <2>2. remove(storage, R).transactions = storage.transactions \ R
    BY RemoveSound DEF IInv
  <2> HIDE DEF R
  <2>3. storage'.transactions = (storage.transactions \ R) \cup {t}
    BY <2>1, <2>2 DEF insert_with_timestamp
  <2>. QED  BY <2>3
<1>3. C \in SUBSET tracker.nodes
  <2> SUFFICES ASSUME NEW o \in InputSet(t), storage.input_spending_index[o] # NoTx
               PROVE  storage.input_spending_index[o] \in tracker.nodes
    BY DEF find_conflicts
  <2>1. o \in Outpoints
    <3>1. Ins[t] \in Seq(Outpoints)
      BY PoolAssumption
    <3>. QED  BY <3>1 DEF InputSet, Range
  <2>2. storage.input_spending_index[o] \in Txs
    BY <2>1 DEF IInv, StorageType
  <2>. QED  BY <1>1, <2>1, <2>2 DEF IInv, Indexed
<1>4. C # {}
  <2>1. C = {} => R = {}
    BY DEF Affected
  <2> HIDE DEF C, R
  <2>. QED  BY <1>2, <2>1
<1>5. ~is_disabled /\ actual_fee(t) >= RequiredFor(C)
  BY <1>4 DEF add_transaction, resolve_conflicts
<1> HIDE DEF C
<1>6. /\ F \in Nat /\ (\A c \in C : F >= actual_fee(c))
      /\ IsFiniteSet(R) /\ R \in SUBSET tracker.nodes
      /\ Total(Fees, R) \in Nat /\ Total(Fees, R) <= F
  BY <1>1, <1>3, ConflictsCharged
<1>7. BaseFeeDelta \in Nat /\ F + BaseFeeDelta > 0
  <2>1. PICK c \in C : TRUE
    BY <1>4
  <2>2. c \in Txs
    BY <1>1, <1>3
  <2>3. BaseFeeDelta \in Nat
    BY AmountAssumption
  <2>4. BaseFeeDelta + calculate_fee(c) > 0
    BY <1>5, <2>2, ChargeAssumption
  <2>5. actual_fee(c) \in Nat /\ calculate_fee(c) \in Nat /\ actual_fee(c) >= calculate_fee(c)
    BY <2>2, FeeNat
  <2>6. F >= actual_fee(c)
    BY <1>6
  <2> HIDE DEF F
  <2>. QED  BY <1>6, <2>3, <2>4, <2>5, <2>6
<1>8. x \in Nat /\ x >= F + BaseFeeDelta
  <2> HIDE DEF F
  <2>. QED  BY <1>6, RequiredGrows
<1>9. k \in Nat /\ k > 0
  <2>1. IsFiniteSet(C)
    BY <1>1, <1>3, FS_Subset
  <2>2. k \in Nat
    BY <2>1, FS_CardinalityType
  <2>3. k # 0
    BY <1>4, <2>1, FS_EmptySet
  <2>. QED  BY <2>2, <2>3
<1> DEFINE q == CeilPercent(x, 100 + 5 * k)
<1>10. RequiredFor(C) = Saturated(q)
  BY Zenon DEF RequiredFor
<1> HIDE DEF F, x, k, R, out
<1>11. x > 0 /\ x >= F
  BY <1>6, <1>7, <1>8
<1>12. q \in Int /\ q > x
  BY <1>8, <1>9, <1>11, PercentGrows
<1> HIDE DEF q
<1>13. \A u \in R : Fees[u] \in Nat
  BY <1>1, <1>6, FeesNat
<1>14. Total(Fees, out) \in Nat /\ Total(Fees, out) <= Total(Fees, R)
  BY <1>2, <1>6, <1>13, TotalPart
<1>15. MapThenSumSet(actual_fee, out) = Total(Fees, out)
  <2>1. out \in SUBSET Txs /\ IsFiniteSet(out)
    BY <1>1, <1>2, <1>6, FS_Subset
  <2>. QED  BY <2>1, FeesAreTotal
<1>16. actual_fee(t) \in Nat
  BY FeeNat
<1>17. actual_fee(t) > Total(Fees, out)
  <2>1. Total(Fees, out) < U64 - 1 /\ U64 \in Nat
    BY <1>15, AmountAssumption DEF out
  <2>2. actual_fee(t) >= IF q < U64 THEN q ELSE U64 - 1
    BY <1>5, <1>10 DEF Saturated
  <2>. QED  BY <1>6, <1>8, <1>11, <1>12, <1>14, <1>16, <2>1, <2>2
<1>. QED  BY <1>15, <1>17 DEF out

\* A transaction that pushes others out is credited with a higher fee than everything
\* it pushes out together, for every fee policy and every shape of the dependency
\* graph, as long as those fees do not exhaust a u64.  The credited fee is what the
\* code compares (actual_fee); what the payment leaves to the miner may be less
\* (RbfConflictResolver::resolve_conflicts, DependencyTracker::get_descendants).
THEOREM OutbidReplacement == Spec => ReplacementOutbids
<1>1. ASSUME IInv, FiniteInv, IInv', [Next]_vars
      PROVE  [\A t \in storage'.transactions \ storage.transactions :
               LET out      == storage.transactions \ storage'.transactions
                   credited == MapThenSumSet(actual_fee, out)
               IN  out # {} /\ add_transaction(t) /\ credited < U64 - 1
                     => actual_fee(t) > credited]_vars
  <2>1. storage'.transactions \subseteq Txs
    BY <1>1 DEF IInv, StorageType
  <2>. QED  BY <1>1, <2>1, AddPays
<1>. QED  BY <1>1, Invariance, Finiteness, PTL DEF Spec, ReplacementOutbids


----------------------------------------------------------------------------
(***************************************************************************)
(* Lists without duplicates.                                               *)
(***************************************************************************)

\* The elements of a list by their positions.
LEMMA InRange ==
  ASSUME NEW A, NEW s \in Seq(A)
  PROVE  /\ DOMAIN s = 1..Len(s) /\ Len(s) \in Nat
         /\ \A e : e \in Range(s) <=> \E i \in 1..Len(s) : s[i] = e
         /\ \A e : Contains(s, e) <=> e \in Range(s)
         /\ Range(s) \in SUBSET A
BY DEF Range, Contains

\* One more element.
LEMMA Appended ==
  ASSUME NEW A, NEW s \in Seq(A), NEW a \in A
  PROVE  /\ Append(s, a) \in Seq(A) /\ Range(Append(s, a)) = Range(s) \cup {a}
         /\ Len(Append(s, a)) = Len(s) + 1
         /\ IsInjective(s) /\ a \notin Range(s) => IsInjective(Append(s, a))
<1> DEFINE b == Append(s, a)
           n == Len(s)
<1>1. /\ b \in Seq(A) /\ Len(b) = n + 1 /\ n \in Nat
      /\ \A i \in 1..n : b[i] = s[i]
      /\ b[n + 1] = a
  OBVIOUS
<1> HIDE DEF b, n
<1>2. \A i \in 1..(n + 1) : i \in 1..n \/ i = n + 1
  BY <1>1
<1>3. \A e : e \in Range(s) <=> \E i \in 1..n : s[i] = e
  BY InRange DEF n
<1>4. \A e : e \in Range(b) <=> \E i \in 1..(n + 1) : b[i] = e
  <2>1. \A e : e \in Range(b) <=> \E i \in 1..Len(b) : b[i] = e
    BY <1>1, InRange, Zenon
  <2>2. Len(b) = n + 1
    BY <1>1
  <2>. QED  BY <2>1, <2>2, Zenon
<1>5. Range(b) = Range(s) \cup {a}
  <2>1. \A i \in 1..n : i \in 1..(n + 1)
    BY <1>1
  <2>2. n + 1 \in 1..(n + 1)
    BY <1>1
  <2>. QED  BY <1>1, <1>2, <1>3, <1>4, <2>1, <2>2
<1>6. ASSUME IsInjective(s), a \notin Range(s) PROVE IsInjective(b)
  <2>1. DOMAIN b = 1..(n + 1) /\ DOMAIN s = 1..n
    BY <1>1, InRange DEF n
  <2>. QED  BY <1>1, <1>2, <1>3, <1>6, <2>1 DEF IsInjective
<1>. QED  BY <1>1, <1>5, <1>6 DEF b, n

\* Two lists one after the other.
LEMMA Joining ==
  ASSUME NEW A, NEW s \in Seq(A), NEW t \in Seq(A)
  PROVE  /\ s \o t \in Seq(A) /\ Range(s \o t) = Range(s) \cup Range(t)
         /\ Len(s \o t) = Len(s) + Len(t)
         /\ IsInjective(s) /\ IsInjective(t) /\ Range(s) \cap Range(t) = {}
              => IsInjective(s \o t)
<1> DEFINE b == s \o t
           n == Len(s)
           k == Len(t)
<1>1. /\ b \in Seq(A) /\ Len(b) = n + k /\ n \in Nat /\ k \in Nat
      /\ \A i \in 1..n : b[i] = s[i]
      /\ \A i \in (n + 1)..(n + k) : b[i] = t[i - n]
  OBVIOUS
<1> HIDE DEF b, n, k
<1>2. \A i \in 1..(n + k) : i \in 1..n \/ (i \in (n + 1)..(n + k) /\ i - n \in 1..k)
  BY <1>1
<1>3. /\ \A e : e \in Range(s) <=> \E i \in 1..n : s[i] = e
      /\ \A e : e \in Range(t) <=> \E i \in 1..k : t[i] = e
  BY InRange DEF n, k
<1>4. \A e : e \in Range(b) <=> \E i \in 1..(n + k) : b[i] = e
  <2>1. \A e : e \in Range(b) <=> \E i \in 1..Len(b) : b[i] = e
    BY <1>1, InRange, Zenon
  <2>2. Len(b) = n + k
    BY <1>1
  <2>. QED  BY <2>1, <2>2, Zenon
<1>5. Range(b) = Range(s) \cup Range(t)
  <2>1. \A i \in 1..n : i \in 1..(n + k)
    BY <1>1
  <2>2. \A i \in 1..k : n + i \in 1..(n + k) /\ b[n + i] = t[i]
    <3> SUFFICES ASSUME NEW i \in 1..k PROVE n + i \in 1..(n + k) /\ b[n + i] = t[i]
      OBVIOUS
    <3>1. n + i \in 1..(n + k) /\ n + i \in (n + 1)..(n + k) /\ (n + i) - n = i
      BY <1>1
    <3>. QED  BY <1>1, <3>1
  <2>3. \A e : e \in Range(b) => e \in Range(s) \/ e \in Range(t)
    BY <1>1, <1>2, <1>3, <1>4
  <2>4. \A e : e \in Range(s) => e \in Range(b)
    BY <1>1, <1>3, <1>4, <2>1
  <2>5. \A e : e \in Range(t) => e \in Range(b)
    BY <1>3, <1>4, <2>2
  <2>. QED  BY <2>3, <2>4, <2>5
<1>6. ASSUME IsInjective(s), IsInjective(t), Range(s) \cap Range(t) = {} PROVE IsInjective(b)
  <2>1. DOMAIN b = 1..(n + k) /\ DOMAIN s = 1..n /\ DOMAIN t = 1..k
    BY <1>1, InRange DEF n, k
  <2> SUFFICES ASSUME NEW i \in 1..(n + k), NEW j \in 1..(n + k), b[i] = b[j] PROVE i = j
    BY <2>1 DEF IsInjective
  <2>2. CASE i \in 1..n /\ j \in 1..n
    BY <1>1, <1>6, <2>1, <2>2 DEF IsInjective
  <2>3. CASE i \in (n + 1)..(n + k) /\ j \in (n + 1)..(n + k)
    <3>1. i - n \in 1..k /\ j - n \in 1..k /\ t[i - n] = t[j - n]
      BY <1>1, <2>3
    <3>2. i - n = j - n
      BY <1>6, <2>1, <3>1 DEF IsInjective
    <3>. QED  BY <1>1, <3>2
  <2>4. ASSUME NEW x \in 1..n, NEW y \in (n + 1)..(n + k), b[x] = b[y] PROVE FALSE
    <3>1. y - n \in 1..k /\ s[x] = t[y - n]
      BY <1>1, <2>4
    <3>2. s[x] \in Range(s) /\ s[x] \in Range(t)
      BY <1>3, <3>1
    <3>. QED  BY <1>6, <3>2
  <2>. QED  BY <1>2, <2>2, <2>3, <2>4
<1>. QED  BY <1>1, <1>5, <1>6 DEF b, n, k

\* The other way round.
LEMMA Reversed ==
  ASSUME NEW A, NEW s \in Seq(A)
  PROVE  /\ Reverse(s) \in Seq(A) /\ Range(Reverse(s)) = Range(s)
         /\ Len(Reverse(s)) = Len(s)
         /\ IsInjective(s) => IsInjective(Reverse(s))
<1> DEFINE b == Reverse(s)
           n == Len(s)
<1>1. n \in Nat /\ DOMAIN s = 1..n /\ \A i \in 1..n : (n - i) + 1 \in 1..n /\ s[i] \in A
  OBVIOUS
<1>2. b = [i \in 1..n |-> s[(n - i) + 1]]
  BY DEF Reverse
<1> HIDE DEF b, n
<1>3. b \in Seq(A) /\ Len(b) = n /\ DOMAIN b = 1..n
  BY <1>1, <1>2
<1>4. \A e : e \in Range(s) <=> \E i \in 1..n : s[i] = e
  BY InRange DEF n
<1>5. \A e : e \in Range(b) <=> \E i \in 1..n : b[i] = e
  <2>1. \A e : e \in Range(b) <=> \E i \in 1..Len(b) : b[i] = e
    BY <1>3, InRange, Zenon
  <2>. QED  BY <1>3, <2>1, Zenon
<1>6. \A i \in 1..n : b[(n - i) + 1] = s[i] /\ b[i] = s[(n - i) + 1]
  <2> SUFFICES ASSUME NEW i \in 1..n PROVE b[(n - i) + 1] = s[i]
    BY <1>2
  <2>1. (n - ((n - i) + 1)) + 1 = i
    BY <1>1
  <2>. QED  BY <1>1, <1>2, <2>1
<1>7. Range(b) = Range(s)
  BY <1>1, <1>4, <1>5, <1>6
<1>8. ASSUME IsInjective(s) PROVE IsInjective(b)
  <2> SUFFICES ASSUME NEW i \in 1..n, NEW j \in 1..n, b[i] = b[j] PROVE i = j
    BY <1>3 DEF IsInjective
  <2>1. (n - i) + 1 = (n - j) + 1
    BY <1>1, <1>6, <1>8 DEF IsInjective
  <2>. QED  BY <1>1, <2>1
<1>. QED  BY <1>3, <1>7, <1>8 DEF b, n

\* Without the last element.
LEMMA Popped ==
  ASSUME NEW A, NEW s \in Seq(A), s # <<>>
  PROVE  /\ Front(s) \in Seq(A) /\ Last(s) \in A /\ Len(Front(s)) = Len(s) - 1 /\ Len(s) > 0
         /\ Range(s) = Range(Front(s)) \cup {Last(s)}
<1> DEFINE f == Front(s)
           n == Len(s) - 1
<1>1. n \in Nat /\ Len(s) = n + 1 /\ Len(s) > 0
  OBVIOUS
<1>2. f = SubSeq(s, 1, n) /\ Last(s) = s[n + 1] /\ Last(s) \in A
  BY <1>1 DEF Front, Last
<1>3. f \in Seq(A) /\ Len(f) = n /\ \A i \in 1..n : f[i] = s[i]
  BY <1>1, <1>2
<1> HIDE DEF f, n
<1>4. \A e : e \in Range(s) <=> \E i \in 1..(n + 1) : s[i] = e
  <2>1. \A e : e \in Range(s) <=> \E i \in 1..Len(s) : s[i] = e
    BY InRange, Zenon
  <2>. QED  BY <1>1, <2>1, Zenon
<1>5. \A e : e \in Range(f) <=> \E i \in 1..n : f[i] = e
  <2>1. \A e : e \in Range(f) <=> \E i \in 1..Len(f) : f[i] = e
    BY <1>3, InRange, Zenon
  <2>. QED  BY <1>3, <2>1, Zenon
<1>6. \A i \in 1..(n + 1) : i \in 1..n \/ i = n + 1
  BY <1>1
<1>7. n + 1 \in 1..(n + 1) /\ \A i \in 1..n : i \in 1..(n + 1)
  BY <1>1
<1>8. Range(s) = Range(f) \cup {Last(s)}
  BY <1>2, <1>3, <1>4, <1>5, <1>6, <1>7
<1>. QED  BY <1>1, <1>2, <1>3, <1>8 DEF f, n

LEMMA IntervalSize ==
  ASSUME NEW n \in Nat
  PROVE  IsFiniteSet(1..n) /\ Cardinality(1..n) = n
<1>1. 1 \in Int /\ n \in Int
  OBVIOUS
<1>2. IsFiniteSet(1..n) /\ Cardinality(1..n) = IF 1 > n THEN 0 ELSE n - 1 + 1
  BY <1>1, FS_Interval
<1>. QED  BY <1>2

\* A list without duplicates is no longer than the set it is from.
LEMMA InjectiveLength ==
  ASSUME NEW A, IsFiniteSet(A), NEW s \in Seq(A), IsInjective(s)
  PROVE  Len(s) <= Cardinality(A)
<1>1. s \in Injection(1..Len(s), A) /\ Len(s) \in Nat
  BY DEF Injection, IsInjective
<1>2. Cardinality(1..Len(s)) <= Cardinality(A)
  BY <1>1, FS_Injection
<1>3. Cardinality(1..Len(s)) = Len(s)
  BY <1>1, IntervalSize
<1>. QED  BY <1>1, <1>2, <1>3


\* Kept takes out what is not in S and leaves the order.
LEMMA KeptElements ==
  ASSUME NEW A, NEW s \in Seq(A), NEW S
  PROVE  /\ Kept(s, S) \in Seq(A \cap S) /\ Kept(s, S) \in Seq(A)
         /\ Range(Kept(s, S)) = Range(s) \cap S
         /\ IsInjective(s) => IsInjective(Kept(s, S))
<1> DEFINE m == Len(s)
           X == Seq(A)
           Op(i, y) == IF s[i] \in S THEN Append(y, s[i]) ELSE y
           Step(f) == [i \in 0..m |-> IF i = 0 THEN <<>> ELSE Op(i, f[i - 1])]
           h == CHOOSE f : f = Step(f)
           g == [i \in 1..m |-> [y \in X |-> Op(i, y)]]
<1>1. m \in Nat /\ \A i \in 1..m : s[i] \in A
  OBVIOUS
<1>2. \A i \in 1..m : \A y \in X : Op(i, y) \in X
  BY <1>1
<1>3. Kept(s, S) = h[m]
  BY Zenon DEF Kept
<1>4. g \in [1..m -> [X -> X]] /\ <<>> \in X
  BY <1>2
<1> HIDE DEF m, X, Op
<1>5. \A i \in 1..m : \A y \in X : g[i][y] = Op(i, y)
  BY Zenon
<1> HIDE DEF g
<1>6. PICK f : Iterated(f, m, X, <<>>, g)
  <2>1. g \in Steps(m, X)
    BY <1>4 DEF Steps
  <2>. QED  BY <1>1, <1>4, <2>1, Iterates, Zenon
<1>7. f = Step(f)
  <2>1. \A i \in 0..m : i = 0 \/ (i \in 1..m /\ i - 1 \in 0..m)
    BY <1>1
  <2>2. \A i \in 0..m : f[i] = IF i = 0 THEN <<>> ELSE Op(i, f[i - 1])
    BY <1>5, <1>6, <2>1, Zenon DEF Iterated
  <2>3. f = [i \in 0..m |-> f[i]]
    BY <1>6, Zenon DEF Iterated
  <2>. QED  BY <2>2, <2>3, Zenon
<1>8. h = Step(h)
  BY <1>7, Zenon
<1> HIDE DEF h
<1>9. \A i \in 0..m : h[i] = IF i = 0 THEN <<>> ELSE Op(i, h[i - 1])
  BY <1>8, Zenon
<1> DEFINE Seen(i) == {s[j] : j \in 1..i}
           Good(i) == /\ h[i] \in Seq(A \cap S) /\ h[i] \in Seq(A)
                      /\ Range(h[i]) = Seen(i) \cap S
                      /\ IsInjective(s) => IsInjective(h[i])
           G == {i \in 0..m : Good(i)}
<1>10. 0 \in G
  <2>1. h[0] = <<>>
    BY <1>1, <1>9
  <2>2. <<>> \in Seq(A) /\ <<>> \in Seq(A \cap S)
    OBVIOUS
  <2>3. Range(<<>>) = {} /\ IsInjective(<<>>)
    BY DEF Range, IsInjective
  <2>4. Seen(0) = {} /\ 0 \in 0..m
    BY <1>1
  <2> HIDE DEF Seen
  <2>. QED  BY <2>1, <2>2, <2>3, <2>4
<1>11. ASSUME NEW n \in 1..m, n - 1 \in G PROVE n \in G
  <2>1. /\ n \in 0..m /\ n # 0 /\ s[n] \in A
        /\ \A j \in 1..n : j = n \/ j \in 1..(n - 1)
        /\ \A j \in 1..(n - 1) : j # n /\ j \in 1..n /\ j \in 1..m
        /\ n \in 1..n
    BY <1>1
  <2>2. Good(n - 1) /\ h[n] = Op(n, h[n - 1])
    BY <1>9, <1>11, <2>1
  <2>3. Seen(n) = Seen(n - 1) \cup {s[n]}
    BY <2>1
  <2>4. DOMAIN s = 1..m
    BY DEF m
  <2>5. CASE s[n] \notin S
    <3>1. h[n] = h[n - 1]
      BY <2>2, <2>5 DEF Op
    <3>2. Seen(n) \cap S = Seen(n - 1) \cap S
      BY <2>3, <2>5
    <3> HIDE DEF Seen
    <3>. QED  BY <2>1, <2>2, <3>1, <3>2
  <2>6. CASE s[n] \in S
    <3> DEFINE y == h[n - 1]
    <3>1. h[n] = Append(y, s[n])
      BY <2>2, <2>6 DEF Op
    <3>2. s[n] \in A \cap S
      BY <2>1, <2>6
    <3>3. IsInjective(s) => s[n] \notin Seen(n - 1)
      BY <2>1, <2>4 DEF IsInjective
    <3>4. /\ y \in Seq(A \cap S) /\ y \in Seq(A) /\ Range(y) = Seen(n - 1) \cap S
          /\ IsInjective(s) => IsInjective(y)
      BY <2>2
    <3> HIDE DEF y, Seen
    <3>5. /\ Append(y, s[n]) \in Seq(A \cap S) /\ Append(y, s[n]) \in Seq(A)
          /\ Range(Append(y, s[n])) = Range(y) \cup {s[n]}
          /\ IsInjective(y) /\ s[n] \notin Range(y) => IsInjective(Append(y, s[n]))
      BY <3>2, <3>4, Appended
    <3>6. Range(h[n]) = Seen(n) \cap S
      BY <2>3, <2>6, <3>1, <3>4, <3>5
    <3>7. IsInjective(s) => IsInjective(h[n])
      BY <3>1, <3>3, <3>4, <3>5
    <3>. QED  BY <2>1, <3>1, <3>5, <3>6, <3>7
  <2>. QED  BY <2>5, <2>6
<1> HIDE DEF Good
<1>12. \A i \in 0..m : i \in G
  <2> HIDE DEF G
  <2>. QED  BY <1>1, <1>10, <1>11, Counting
<1>13. Good(m)
  BY <1>1, <1>12
<1>14. Seen(m) = Range(s)
  BY DEF Range, m
<1>. QED  BY <1>3, <1>13, <1>14 DEF Good


----------------------------------------------------------------------------
(***************************************************************************)
(* Edges of the tracker.                                                   *)
(***************************************************************************)

\* Edges come from tracked transactions.
Linked(d) == \A t \in Txs : d.parents[t] \in Seq(d.nodes)

LinkInv == Linked(tracker)

LEMMA SeqGrows ==
  ASSUME NEW A, NEW B, A \in SUBSET B, NEW s \in Seq(A)
  PROVE  s \in Seq(B)
OBVIOUS

\* Edges of what leaves go with it (DependencyTracker::remove_transaction).
LEMMA UntrackLinks ==
  ASSUME NEW d, d.nodes \in SUBSET Txs, Linked(d), NEW R
  PROVE  Linked(untrack(d, R))
<1> SUFFICES ASSUME NEW t \in Txs PROVE untrack(d, R).parents[t] \in Seq(d.nodes \ R)
  BY UntrackNodes DEF Linked
<1>1. untrack(d, R).parents[t] = IF t \in R THEN <<>> ELSE Kept(d.parents[t], Txs \ R)
  BY DEF untrack
<1>2. d.parents[t] \in Seq(d.nodes)
  BY DEF Linked
<1>3. Kept(d.parents[t], Txs \ R) \in Seq(d.nodes \cap (Txs \ R))
  BY <1>2, KeptElements
<1>4. d.nodes \cap (Txs \ R) = d.nodes \ R
  OBVIOUS
<1>5. <<>> \in Seq(d.nodes \ R)
  OBVIOUS
<1>. QED  BY <1>1, <1>3, <1>4, <1>5, Zenon

\* The parents found by the creation index are transactions (MemPool::parent_hashes).
LEMMA ParentHashes ==
  ASSUME NEW s \in StorageType, NEW t \in Txs
  PROVE  parent_hashes(s, t) \in Seq(Txs)
<1> DEFINE n == Len(Ins[t])
           e == [i \in DOMAIN Ins[t] |-> s.output_creation_index[Ins[t][i]]]
           A == Txs \cup {NoTx}
<1>1. Ins[t] \in Seq(Outpoints)
  BY PoolAssumption
<1>2. n \in Nat /\ DOMAIN Ins[t] = 1..n /\ \A i \in 1..n : Ins[t][i] \in Outpoints
  BY <1>1
<1>3. \A o \in Outpoints : s.output_creation_index[o] \in A
  BY DEF StorageType
<1>4. e \in [1..n -> A]
  BY <1>2, <1>3
<1>5. parent_hashes(s, t) = Kept(e, Txs)
  BY DEF parent_hashes
<1> HIDE DEF e, n
<1>6. e \in Seq(A)
  BY <1>2, <1>4
<1>7. Kept(e, Txs) \in Seq(A \cap Txs)
  BY <1>6, KeptElements
<1>8. A \cap Txs = Txs
  OBVIOUS
<1>. QED  BY <1>5, <1>7, <1>8, Zenon

\* A new transaction has edges from tracked transactions only
\* (DependencyTracker::add_transaction).
LEMMA TrackLinks ==
  ASSUME NEW d, Linked(d), DOMAIN d.parents = Txs, NEW t \in Txs, NEW ps \in Seq(Txs)
  PROVE  Linked(track(d, t, ps))
<1> SUFFICES ASSUME NEW u \in Txs PROVE track(d, t, ps).parents[u] \in Seq(d.nodes \cup {t})
  BY TrackNodes DEF Linked
<1>1. track(d, t, ps).parents[u] = IF u = t THEN Kept(ps, d.nodes) ELSE d.parents[u]
  BY DEF track
<1>2. Kept(ps, d.nodes) \in Seq(Txs \cap d.nodes)
  BY KeptElements
<1>3. d.parents[u] \in Seq(d.nodes)
  BY DEF Linked
<1>4. Txs \cap d.nodes \in SUBSET (d.nodes \cup {t}) /\ d.nodes \in SUBSET (d.nodes \cup {t})
  OBVIOUS
<1>5. Kept(ps, d.nodes) \in Seq(d.nodes \cup {t}) /\ d.parents[u] \in Seq(d.nodes \cup {t})
  BY <1>2, <1>3, <1>4, SeqGrows
<1>. QED  BY <1>1, <1>5, Zenon

\* A restored tracker has edges from restored transactions only
\* (MemPool::restore_state).
LEMMA RestoredLinks ==
  ASSUME NEW s \in StorageType, NEW order \in SetToSeqs(s.transactions)
  PROVE  Linked(RestoredTracker(s, order))
<1> SUFFICES ASSUME NEW t \in Txs
             PROVE  RestoredTracker(s, order).parents[t] \in Seq(s.transactions)
  BY RestoredNodes DEF Linked
<1> DEFINE B == {order[i] : i \in {i \in DOMAIN order :
                                     \E j \in DOMAIN order : i < j /\ order[j] = t}}
<1>1. RestoredTracker(s, order).parents[t] = Kept(parent_hashes(s, t), B)
  BY DEF RestoredTracker
<1>2. \A i \in DOMAIN order : order[i] \in s.transactions
  BY DEF SetToSeqs
<1>3. B \in SUBSET s.transactions
  BY <1>2
<1> HIDE DEF B
<1>4. Kept(parent_hashes(s, t), B) \in Seq(Txs \cap B)
  BY ParentHashes, KeptElements
<1>5. Txs \cap B \in SUBSET s.transactions
  BY <1>3
<1>. QED  BY <1>1, <1>4, <1>5, SeqGrows

\* Every step keeps the edges between tracked transactions.
LEMMA NextLinks ==
  ASSUME IInv, LinkInv, [Next]_vars
  PROVE  LinkInv'
<1>0. tracker.nodes \in SUBSET Txs /\ DOMAIN tracker.parents = Txs /\ storage \in StorageType
  BY DEF IInv, StorageType
<1>1. ASSUME NEW R, tracker' = untrack(tracker, R) PROVE LinkInv'
  <2>1. Linked(untrack(tracker, R))
    BY <1>0, UntrackLinks DEF LinkInv
  <2>. QED  BY <1>1, <2>1 DEF LinkInv, Linked
<1>2. ASSUME NEW t \in Txs, add_transaction(t) PROVE LinkInv'
  <2> DEFINE R == Affected(find_conflicts(t))
             d == untrack(tracker, R)
             ps == parent_hashes(storage', t)
  <2>1. tracker' = track(d, t, ps)
    BY <1>2 DEF add_transaction
  <2>2. IInv'
    BY <1>2, AddKeeps
  <2>3. storage' \in StorageType
    BY <2>2 DEF IInv, StorageType
  <2>4. ps \in Seq(Txs)
    BY <2>3, ParentHashes
  <2>5. Linked(d) /\ DOMAIN d.parents = Txs
    BY <1>0, UntrackLinks, UntrackNodes DEF LinkInv
  <2> HIDE DEF d, ps
  <2>6. Linked(track(d, t, ps))
    BY <2>4, <2>5, TrackLinks
  <2>. QED  BY <2>1, <2>6 DEF LinkInv, Linked
<1>3. CASE restore_state
  <2>1. PICK order \in SetToSeqs(exported.transactions) : tracker' = RestoredTracker(exported, order)
    BY <1>3 DEF restore_state
  <2>2. Linked(RestoredTracker(exported, order))
    BY <2>1, RestoredLinks DEF IInv
  <2>. QED  BY <2>1, <2>2 DEF LinkInv, Linked
<1>4. CASE tracker' = tracker
  BY <1>4 DEF LinkInv, Linked
<1>5. ASSUME NEW R, Evict(R) PROVE LinkInv'
  BY <1>1, <1>5 DEF Evict
<1>6. ASSUME NEW B \in Blocks, update_on_block(B) PROVE LinkInv'
  BY <1>1, <1>6 DEF update_on_block
<1>7. CASE get_sync_state \/ Tick \/ LedgerMoves \/ UNCHANGED vars
  BY <1>4, <1>7 DEF get_sync_state, Tick, LedgerMoves, vars
<1>. QED  BY <1>2, <1>3, <1>5, <1>6, <1>7 DEF Next, remove_transaction, cleanup_expired

\* The edges of the tracker are between tracked transactions in every state.
LEMMA Linkage == Spec => []LinkInv
<1>1. Init => LinkInv
  BY DEF Init, LinkInv, Linked, EmptyTracker
<1>2. IInv /\ LinkInv /\ [Next]_vars => LinkInv'
  BY NextLinks
<1>. QED  BY <1>1, <1>2, Invariance, PTL DEF Spec


----------------------------------------------------------------------------
(***************************************************************************)
(* The search for ancestors.                                               *)
(***************************************************************************)

\* A set that has with every transaction its parents.
Closed(d, K) == \A u \in K : Range(d.parents[u]) \subseteq K

\* A tracker as the invariant describes it.
Sound(d) == IsFiniteSet(d.nodes) /\ d.nodes \in SUBSET Txs /\ Linked(d)

\* One turn of the loop of gather_with_ancestors.
Turn(d, y) ==
  IF y.stack = <<>> THEN y
  ELSE IF Contains(y.result, Last(y.stack)) THEN [y EXCEPT !.stack = Front(@)]
  ELSE [stack  |-> Front(y.stack) \o Reverse(d.parents[Last(y.stack)]),
        result |-> Append(y.result, Last(y.stack))]

\* What the search has found so far or still has to visit are ancestors, and the
\* parents of what it has visited are among them.
Searched(d, t, y) ==
  /\ y \in [stack : Seq(d.nodes), result : Seq(d.nodes)]
  /\ IsInjective(y.result)
  /\ t \in Range(y.result) \cup Range(y.stack)
  /\ \A u \in Range(y.result) : Range(d.parents[u]) \subseteq Range(y.result) \cup Range(y.stack)
  /\ \A K \in SUBSET d.nodes :
       t \in K /\ Closed(d, K) => Range(y.result) \cup Range(y.stack) \subseteq K

\* The turns that are left: entries of the stack, and edges not yet followed.
Degree(d) == [u \in d.nodes |-> Len(d.parents[u])]

Left(d, y) == Len(y.stack) + Total(Degree(d), d.nodes \ Range(y.result))

LEMMA DegreeNat ==
  ASSUME NEW d, Sound(d)
  PROVE  \A u \in d.nodes : Degree(d)[u] = Len(d.parents[u]) /\ Degree(d)[u] \in Nat
<1> SUFFICES ASSUME NEW u \in d.nodes
             PROVE  Degree(d)[u] = Len(d.parents[u]) /\ Degree(d)[u] \in Nat
  OBVIOUS
<1>1. d.parents[u] \in Seq(d.nodes)
  BY DEF Sound, Linked
<1>. QED  BY <1>1 DEF Degree

\* A turn keeps this and comes one closer to the end.
LEMMA TurnKeeps ==
  ASSUME NEW d, Sound(d), NEW t \in d.nodes, NEW y, Searched(d, t, y)
  PROVE  /\ Searched(d, t, Turn(d, y))
         /\ Left(d, y) \in Nat
         /\ y.stack = <<>> => Turn(d, y) = y
         /\ y.stack # <<>> => Left(d, Turn(d, y)) = Left(d, y) - 1
<1> DEFINE N == d.nodes
           w == Degree(d)
           z == Turn(d, y)
           A == Range(y.result)
           B == Range(y.stack)
<1>1. /\ y \in [stack : Seq(N), result : Seq(N)] /\ y.stack \in Seq(N) /\ y.result \in Seq(N)
      /\ IsInjective(y.result) /\ t \in A \cup B
      /\ \A u \in A : Range(d.parents[u]) \subseteq A \cup B
      /\ \A K \in SUBSET N : t \in K /\ Closed(d, K) => A \cup B \subseteq K
  BY DEF Searched
<1>2. IsFiniteSet(N) /\ \A u \in N : d.parents[u] \in Seq(N)
  BY DEF Sound, Linked
<1>3. \A u \in N : w[u] = Len(d.parents[u]) /\ w[u] \in Nat
  BY DegreeNat
<1>4. IsFiniteSet(N \ A)
  BY <1>2, FS_Subset
<1> HIDE DEF w
<1>5. Left(d, y) = Len(y.stack) + Total(w, N \ A) /\ Total(w, N \ A) \in Nat /\ Len(y.stack) \in Nat
  <2>1. \A u \in N \ A : w[u] \in Nat
    BY <1>3
  <2>2. Total(w, N \ A) \in Nat
    BY <1>4, <2>1, TotalNat
  <2>3. Left(d, y) = Len(y.stack) + Total(w, N \ A)
    BY DEF Left, w
  <2>. QED  BY <1>1, <2>2, <2>3
<1>6. CASE y.stack = <<>>
  <2>1. z = y
    BY <1>6 DEF Turn
  <2>. QED  BY <1>5, <1>6, <2>1
<1>7. CASE y.stack # <<>>
  <2> DEFINE f == Front(y.stack)
             n == Last(y.stack)
             F == Range(f)
  <2>1. f \in Seq(N) /\ n \in N /\ Len(f) = Len(y.stack) - 1 /\ Len(y.stack) > 0 /\ B = F \cup {n}
    BY <1>1, <1>7, Popped
  <2>2. Contains(y.result, n) <=> n \in A
    BY <1>1, InRange
  <2>3. CASE n \in A
    <3>1. z = [y EXCEPT !.stack = f]
      BY <1>7, <2>2, <2>3, Zenon DEF Turn
    <3> HIDE DEF f, n
    <3>2. z \in [stack : Seq(N), result : Seq(N)] /\ z.stack = f /\ z.result = y.result
      BY <1>1, <2>1, <3>1
    <3>3. A \cup B = A \cup F
      BY <2>1, <2>3
    <3> HIDE DEF z
    <3>4. Range(z.result) = A /\ Range(z.stack) = F
      BY <3>2
    <3> HIDE DEF A, B, F
    <3>5. Searched(d, t, z)
      BY <1>1, <3>2, <3>3, <3>4 DEF Searched
    <3>6. Left(d, z) = Len(f) + Total(w, N \ A)
      BY <3>2, <3>4 DEF Left, w
    <3>. QED  BY <1>5, <1>7, <2>1, <3>5, <3>6 DEF z
  <2>4. CASE n \notin A
    <3> DEFINE p == d.parents[n]
               P == Range(p)
               q == Reverse(p)
    <3>1. z = [stack |-> f \o q, result |-> Append(y.result, n)]
      BY <1>7, <2>2, <2>4, Zenon DEF Turn
    <3>2. p \in Seq(N)
      BY <1>2, <2>1
    <3>3. q \in Seq(N) /\ Range(q) = P /\ Len(q) = Len(p)
      BY <3>2, Reversed
    <3>4. f \o q \in Seq(N) /\ Range(f \o q) = F \cup P /\ Len(f \o q) = Len(f) + Len(p)
      <4> HIDE DEF f, q, p
      <4>1. f \o q \in Seq(N) /\ Range(f \o q) = Range(f) \cup Range(q) /\ Len(f \o q) = Len(f) + Len(q)
        BY <2>1, <3>3, Joining
      <4>. QED  BY <3>3, <4>1
    <3>5. /\ Append(y.result, n) \in Seq(N) /\ Range(Append(y.result, n)) = A \cup {n}
          /\ IsInjective(Append(y.result, n))
      BY <1>1, <2>1, <2>4, Appended
    <3>6. /\ z \in [stack : Seq(N), result : Seq(N)]
          /\ z.stack = f \o q /\ z.result = Append(y.result, n)
      BY <3>1, <3>4, <3>5
    <3>7. /\ Range(z.stack) = F \cup P /\ Range(z.result) = A \cup {n}
          /\ Len(z.stack) = Len(f) + Len(p) /\ IsInjective(z.result)
      BY <3>4, <3>5, <3>6
    <3> HIDE DEF z, f, n, p, q
    <3>8. \A K \in SUBSET N : t \in K /\ Closed(d, K) => (A \cup {n}) \cup (F \cup P) \subseteq K
      <4> SUFFICES ASSUME NEW K \in SUBSET N, t \in K, Closed(d, K)
                   PROVE  (A \cup {n}) \cup (F \cup P) \subseteq K
        OBVIOUS
      <4>1. A \cup B \subseteq K
        BY <1>1
      <4>2. n \in K
        BY <2>1, <4>1
      <4>3. P \subseteq K
        BY <4>2 DEF Closed, p
      <4>. QED  BY <2>1, <4>1, <4>2, <4>3
    <3>9. \A u \in A \cup {n} : Range(d.parents[u]) \subseteq (A \cup {n}) \cup (F \cup P)
      <4>1. ASSUME NEW u \in A PROVE Range(d.parents[u]) \subseteq (A \cup {n}) \cup (F \cup P)
        BY <1>1, <2>1
      <4>2. Range(d.parents[n]) \subseteq (A \cup {n}) \cup (F \cup P)
        BY DEF p
      <4>. QED  BY <4>1, <4>2
    <3>10. t \in (A \cup {n}) \cup (F \cup P)
      BY <1>1, <2>1
    <3>11. Searched(d, t, z)
      BY <3>6, <3>7, <3>8, <3>9, <3>10 DEF Searched
    <3>12. Total(w, N \ A) = w[n] + Total(w, N \ (A \cup {n})) /\ Total(w, N \ (A \cup {n})) \in Nat
      <4> DEFINE D == N \ A
      <4>1. IsFiniteSet(D) /\ n \in D /\ (\A u \in D : w[u] \in Nat) /\ (\A u \in D : w[u] \in Int)
        BY <1>3, <1>4, <2>1, <2>4
      <4>2. D \ {n} = N \ (A \cup {n})
        OBVIOUS
      <4> HIDE DEF D
      <4>3. Total(w, D) = w[n] + Total(w, D \ {n})
        BY <4>1, TotalRemove
      <4>4. IsFiniteSet(D \ {n}) /\ \A u \in D \ {n} : w[u] \in Nat
        BY <4>1, FS_Subset
      <4>5. Total(w, D \ {n}) \in Nat
        BY <4>4, TotalNat
      <4>. QED  BY <4>2, <4>3, <4>5 DEF D
    <3>13. w[n] = Len(p) /\ Len(p) \in Nat
      BY <1>3, <2>1 DEF p
    <3>14. Left(d, z) = (Len(f) + Len(p)) + Total(w, N \ (A \cup {n}))
      BY <3>7 DEF Left, w
    <3> HIDE DEF A, B, F, P, N
    <3>15. Left(d, z) = Left(d, y) - 1
      BY <1>5, <2>1, <3>12, <3>13, <3>14
    <3>. QED  BY <1>5, <1>7, <3>11, <3>15 DEF z
  <2>. QED  BY <2>3, <2>4
<1>. QED  BY <1>6, <1>7


\* A stack of one.
LEMMA OneEntry ==
  ASSUME NEW A, NEW a \in A
  PROVE  <<a>> \in Seq(A) /\ Len(<<a>>) = 1 /\ Range(<<a>>) = {a}
<1>1. <<a>> \in Seq(A)
  OBVIOUS
<1>2. Len(<<a>>) = 1 /\ <<a>>[1] = a
  OBVIOUS
<1>3. Range(<<a>>) = {a}
  BY DEF Range
<1>. QED  BY <1>1, <1>2, <1>3

\* get_with_ancestors lists the transaction and its ancestors, each of them once:
\* the search ends within the turns it is given, with the smallest set that has
\* the transaction and, with every transaction, its parents.
LEMMA Ancestors ==
  ASSUME NEW d, Sound(d), NEW t \in d.nodes
  PROVE  /\ get_with_ancestors(d, t) \in Seq(d.nodes)
         /\ IsInjective(get_with_ancestors(d, t))
         /\ t \in Range(get_with_ancestors(d, t))
         /\ Closed(d, Range(get_with_ancestors(d, t)))
         /\ \A K \in SUBSET d.nodes :
              t \in K /\ Closed(d, K) => Range(get_with_ancestors(d, t)) \subseteq K
<1> DEFINE N == d.nodes
           w == Degree(d)
           m == Total(w, N) + 1
           X == {y \in [stack : Seq(N), result : Seq(N)] : Searched(d, t, y)}
           x == [stack |-> <<t>>, result |-> <<>>]
           Step(f) == [n \in 0..m |-> IF n = 0 THEN x ELSE Turn(d, f[n - 1])]
           h == CHOOSE f : f = Step(f)
           g == [n \in 1..m |-> [y \in X |-> Turn(d, y)]]
<1>1. get_with_ancestors(d, t) = Reverse(h[m].result)
  BY Zenon DEF get_with_ancestors, Turn, Total, Degree
<1>2. IsFiniteSet(N) /\ (\A u \in N : w[u] \in Nat) /\ Total(w, N) \in Nat /\ m \in Nat
  <2>1. IsFiniteSet(N) /\ \A u \in N : w[u] \in Nat
    BY DegreeNat DEF Sound
  <2> HIDE DEF w
  <2>2. Total(w, N) \in Nat
    BY <2>1, TotalNat
  <2>. QED  BY <2>1, <2>2
<1>3. x \in X /\ Left(d, x) = m
  <2>1. x \in [stack : Seq(N), result : Seq(N)] /\ x.result = <<>> /\ x.stack = <<t>> /\ Len(x.stack) = 1
    <3>1. <<t>> \in Seq(N) /\ <<>> \in Seq(N) /\ Len(<<t>>) = 1
      <4>1. <<t>> \in Seq(N) /\ Len(<<t>>) = 1
        BY OneEntry, Zenon
      <4>2. <<>> \in Seq(N)
        OBVIOUS
      <4>. QED  BY <4>1, <4>2, Zenon
    <3>2. x.result = <<>> /\ x.stack = <<t>>
      OBVIOUS
    <3>3. \A a, b \in Seq(N) : [stack |-> a, result |-> b] \in [stack : Seq(N), result : Seq(N)]
      OBVIOUS
    <3>. QED  BY <3>1, <3>2, <3>3, Zenon
  <2>2. Range(<<>>) = {} /\ IsInjective(<<>>)
    BY DEF Range, IsInjective
  <2>3. Range(<<t>>) = {t}
    BY DEF Range
  <2> HIDE DEF x
  <2>4. Range(x.result) = {} /\ Range(x.stack) = {t} /\ IsInjective(x.result)
    BY <2>1, <2>2, <2>3
  <2>5. Searched(d, t, x)
    BY <2>1, <2>4 DEF Searched
  <2>6. N \ {} = N
    OBVIOUS
  <2>7. Left(d, x) = 1 + Total(w, N)
    BY <2>1, <2>4, <2>6 DEF Left
  <2> HIDE DEF w
  <2>. QED  BY <1>2, <2>1, <2>5, <2>7
<1>4. \A y \in X : Searched(d, t, y) /\ Turn(d, y) \in X
  <2> SUFFICES ASSUME NEW y \in X PROVE Searched(d, t, y) /\ Turn(d, y) \in X
    OBVIOUS
  <2>1. Searched(d, t, y)
    OBVIOUS
  <2>2. Searched(d, t, Turn(d, y))
    BY <2>1, TurnKeeps
  <2>. QED  BY <2>1, <2>2 DEF Searched
<1> HIDE DEF m, X, x
<1>5. g \in Steps(m, X) /\ \A n \in 1..m : \A y \in X : g[n][y] = Turn(d, y)
  BY <1>4 DEF Steps
<1> HIDE DEF g
<1>6. PICK f : Iterated(f, m, X, x, g)
  BY <1>2, <1>3, <1>5, Iterates, Zenon
<1>7. f = Step(f)
  <2>1. \A n \in 0..m : n = 0 \/ (n \in 1..m /\ n - 1 \in 0..m)
    BY <1>2
  <2>2. \A n \in 0..m : f[n] = IF n = 0 THEN x ELSE Turn(d, f[n - 1])
    BY <1>5, <1>6, <2>1, Zenon DEF Iterated
  <2>3. f = [n \in 0..m |-> f[n]]
    BY <1>6, Zenon DEF Iterated
  <2>. QED  BY <2>2, <2>3, Zenon
<1>8. h = Step(h)
  BY <1>7, Zenon
<1> HIDE DEF h
<1>9. \A n \in 0..m : h[n] = IF n = 0 THEN x ELSE Turn(d, h[n - 1])
  BY <1>8, Zenon
<1> DEFINE Good(n) == /\ h[n] \in X
                      /\ h[n].stack = <<>> \/ Left(d, h[n]) + n = m
           G == {n \in 0..m : Good(n)}
<1>10. 0 \in G
  <2>1. h[0] = x /\ 0 \in 0..m
    BY <1>2, <1>9
  <2>. QED  BY <1>2, <1>3, <2>1
<1>11. ASSUME NEW n \in 1..m, n - 1 \in G PROVE n \in G
  <2> DEFINE y == h[n - 1]
  <2>1. h[n] = Turn(d, y) /\ n \in 0..m
    BY <1>2, <1>9
  <2>2. y \in X /\ (y.stack = <<>> \/ Left(d, y) + (n - 1) = m)
    BY <1>11
  <2> HIDE DEF y
  <2>3. Searched(d, t, y) /\ Turn(d, y) \in X
    BY <1>4, <2>2
  <2>4. /\ Left(d, y) \in Nat
        /\ y.stack = <<>> => Turn(d, y) = y
        /\ y.stack # <<>> => Left(d, Turn(d, y)) = Left(d, y) - 1
    BY <2>3, TurnKeeps
  <2>5. CASE y.stack = <<>>
    BY <2>1, <2>3, <2>4, <2>5
  <2>6. CASE y.stack # <<>>
    <3>1. Left(d, h[n]) + n = m
      BY <1>2, <2>1, <2>2, <2>4, <2>6
    <3>. QED  BY <2>1, <2>3, <3>1
  <2>. QED  BY <2>5, <2>6
<1>12. \A n \in 0..m : n \in G
  <2> HIDE DEF G
  <2>. QED  BY <1>2, <1>10, <1>11, Counting
<1>13. Good(m)
  BY <1>2, <1>12
<1> DEFINE y == h[m]
<1>14. Searched(d, t, y)
  BY <1>4, <1>13
<1>15. y.stack = <<>>
  <2> SUFFICES ASSUME y.stack # <<>> PROVE FALSE
    OBVIOUS
  <2>1. Left(d, y) + m = m /\ Left(d, y) \in Nat
    BY <1>13, <1>14, TurnKeeps
  <2>2. Left(d, y) = 0
    BY <1>2, <2>1
  <2>3. Left(d, Turn(d, y)) = Left(d, y) - 1 /\ Left(d, Turn(d, y)) \in Nat
    BY <1>14, TurnKeeps
  <2>. QED  BY <2>2, <2>3
<1>16. /\ y.result \in Seq(N) /\ IsInjective(y.result)
       /\ t \in Range(y.result) \cup Range(<<>>)
       /\ \A u \in Range(y.result) : Range(d.parents[u]) \subseteq Range(y.result) \cup Range(<<>>)
       /\ \A K \in SUBSET N : t \in K /\ Closed(d, K) => Range(y.result) \subseteq K
  BY <1>14, <1>15 DEF Searched
<1>17. Range(<<>>) = {}
  BY DEF Range
<1> HIDE DEF y
<1>18. /\ Reverse(y.result) \in Seq(N) /\ IsInjective(Reverse(y.result))
       /\ Range(Reverse(y.result)) = Range(y.result)
  BY <1>16, Reversed
<1>19. Closed(d, Range(y.result)) /\ t \in Range(y.result)
  BY <1>16, <1>17 DEF Closed
<1>20. get_with_ancestors(d, t) = Reverse(y.result)
  BY <1>1 DEF y
<1>. QED  BY <1>16, <1>18, <1>19, <1>20


\* Ancestors of an ancestor are ancestors.
LEMMA AncestorsNest ==
  ASSUME NEW d, Sound(d), NEW t \in d.nodes, NEW u \in Range(get_with_ancestors(d, t))
  PROVE  Range(get_with_ancestors(d, u)) \subseteq Range(get_with_ancestors(d, t))
<1> DEFINE L == get_with_ancestors(d, t)
           K == Range(L)
<1>1. L \in Seq(d.nodes) /\ Closed(d, K)
  BY Ancestors
<1>2. K \in SUBSET d.nodes
  BY <1>1, InRange
<1>3. u \in K /\ u \in d.nodes
  BY <1>2
<1> HIDE DEF K
<1>4. Range(get_with_ancestors(d, u)) \subseteq K
  BY <1>1, <1>2, <1>3, Ancestors
<1>. QED  BY <1>4 DEF K

----------------------------------------------------------------------------
(***************************************************************************)
(* Templates.                                                              *)
(***************************************************************************)

\* A ranking lists every tracked transaction.
LEMMA RankingCovers ==
  ASSUME NEW S, IsFiniteSet(S), NEW order \in SetToSeqs(S)
  PROVE  order \in Seq(S) /\ Range(order) = S
<1> DEFINE n == Cardinality(S)
<1>1. n \in Nat
  BY FS_CardinalityType
<1>2. order \in [1..n -> S] /\ \A i, j \in 1..n : i # j => order[i] # order[j]
  BY DEF SetToSeqs
<1> HIDE DEF n
<1>3. order \in Injection(1..n, S)
  BY <1>2 DEF Injection, IsInjective
<1>4. Cardinality(1..n) = Cardinality(S)
  BY <1>1, IntervalSize DEF n
<1>5. order \in Surjection(1..n, S)
  BY <1>3, <1>4, FS_Injection
<1>6. \A e \in S : \E i \in 1..n : order[i] = e
  BY <1>5 DEF Surjection
<1>. QED  BY <1>1, <1>2, <1>6 DEF Range

\* One turn of the loop of get_best_transactions.
Pick(t, acc, limit) ==
  LET package == Kept(get_with_ancestors(tracker, t), Txs \ Range(acc))
  IN  IF Contains(acc, t) \/ Len(package) > limit - Len(acc) THEN acc
      ELSE acc \o package

\* What a template is at any moment.
Fits(acc, limit) ==
  /\ acc \in Seq(tracker.nodes) /\ IsInjective(acc) /\ Len(acc) <= limit
  /\ \A u \in Range(acc) : Range(get_with_ancestors(tracker, u)) \subseteq Range(acc)

\* A package adds the ancestors that are missing, and is left out only when it
\* has no room; a limit as large as the pool has room for all.
LEMMA PickKeeps ==
  ASSUME Sound(tracker), NEW limit \in Nat, NEW t \in tracker.nodes, NEW acc, Fits(acc, limit)
  PROVE  /\ Fits(Pick(t, acc, limit), limit)
         /\ Range(acc) \subseteq Range(Pick(t, acc, limit))
         /\ limit >= Cardinality(tracker.nodes) => t \in Range(Pick(t, acc, limit))
<1> DEFINE N == tracker.nodes
           L == get_with_ancestors(tracker, t)
           p == Kept(L, Txs \ Range(acc))
           b == acc \o p
           A == Range(acc)
<1>1. /\ acc \in Seq(N) /\ IsInjective(acc) /\ Len(acc) <= limit /\ Len(acc) \in Nat
      /\ \A u \in A : Range(get_with_ancestors(tracker, u)) \subseteq A
  BY DEF Fits
<1>2. IsFiniteSet(N) /\ N \in SUBSET Txs
  BY DEF Sound
<1>3. L \in Seq(N) /\ IsInjective(L) /\ t \in Range(L)
  BY Ancestors
<1>4. \A u \in Range(L) : Range(get_with_ancestors(tracker, u)) \subseteq Range(L)
  BY AncestorsNest
<1> HIDE DEF L
<1>5. p \in Seq(N) /\ Range(p) = Range(L) \cap (Txs \ A) /\ IsInjective(p)
  BY <1>3, KeptElements
<1>6. Range(L) \in SUBSET Txs
  BY <1>2, <1>3, InRange
<1>7. Contains(acc, t) <=> t \in A
  BY <1>1, InRange
<1>8. Pick(t, acc, limit) = IF Contains(acc, t) \/ Len(p) > limit - Len(acc) THEN acc ELSE b
  BY DEF Pick, L
<1> HIDE DEF p
<1>9. /\ b \in Seq(N) /\ Range(b) = A \cup Range(p) /\ Len(b) = Len(acc) + Len(p) /\ Len(p) \in Nat
      /\ IsInjective(b)
  <2>1. A \cap Range(p) = {}
    BY <1>5
  <2>. QED  BY <1>1, <1>5, <2>1, Joining
<1>10. Range(b) = A \cup Range(L)
  BY <1>5, <1>6, <1>9
<1> HIDE DEF b, A
<1>11. CASE Contains(acc, t)
  BY <1>7, <1>8, <1>11 DEF A
<1>12. CASE ~Contains(acc, t) /\ Len(p) > limit - Len(acc)
  <2>1. Len(b) <= Cardinality(N) /\ Cardinality(N) \in Nat
    BY <1>2, <1>9, InjectiveLength, FS_CardinalityType
  <2>2. ~(limit >= Cardinality(N))
    BY <1>1, <1>9, <1>12, <2>1
  <2>. QED  BY <1>8, <1>12, <2>2
<1>13. CASE ~Contains(acc, t) /\ ~(Len(p) > limit - Len(acc))
  <2>1. Pick(t, acc, limit) = b
    BY <1>8, <1>13
  <2>2. Len(b) <= limit
    BY <1>1, <1>9, <1>13
  <2>3. \A u \in Range(b) : Range(get_with_ancestors(tracker, u)) \subseteq Range(b)
    BY <1>1, <1>4, <1>10
  <2>4. Fits(b, limit)
    BY <1>9, <2>2, <2>3 DEF Fits
  <2>. QED  BY <1>3, <1>10, <2>1, <2>4 DEF A
<1>. QED  BY <1>11, <1>12, <1>13

\* A template takes packages from the first to the last of a ranking.
LEMMA TemplateOf ==
  ASSUME Sound(tracker), NEW limit \in Nat, NEW order \in Seq(tracker.nodes)
  PROVE  /\ Fits(get_best_transactions(order, limit), limit)
         /\ limit >= Cardinality(tracker.nodes)
              => Range(order) \subseteq Range(get_best_transactions(order, limit))
<1> DEFINE N == tracker.nodes
           m == Len(order)
           X == {acc \in Seq(N) : Fits(acc, limit)}
           Step(f) == [n \in 0..m |-> IF n = 0 THEN <<>> ELSE Pick(order[n], f[n - 1], limit)]
           h == CHOOSE f : f = Step(f)
           g == [n \in 1..m |-> [acc \in X |-> Pick(order[n], acc, limit)]]
<1>1. get_best_transactions(order, limit) = h[m]
  BY Zenon DEF get_best_transactions, Pick
<1>2. m \in Nat /\ \A n \in 1..m : order[n] \in N
  OBVIOUS
<1>3. <<>> \in X
  <2>1. <<>> \in Seq(N) /\ Len(<<>>) = 0
    OBVIOUS
  <2>2. Range(<<>>) = {} /\ IsInjective(<<>>)
    BY DEF Range, IsInjective
  <2>3. Fits(<<>>, limit)
    BY <2>1, <2>2 DEF Fits
  <2>. QED  BY <2>1, <2>3
<1>4. \A n \in 1..m : \A acc \in X : /\ Pick(order[n], acc, limit) \in X
                                     /\ Range(acc) \subseteq Range(Pick(order[n], acc, limit))
                                     /\ limit >= Cardinality(N) => order[n] \in Range(Pick(order[n], acc, limit))
  <2> SUFFICES ASSUME NEW n \in 1..m, NEW acc \in X
               PROVE  /\ Pick(order[n], acc, limit) \in X
                      /\ Range(acc) \subseteq Range(Pick(order[n], acc, limit))
                      /\ limit >= Cardinality(N) => order[n] \in Range(Pick(order[n], acc, limit))
    OBVIOUS
  <2>1. order[n] \in N /\ Fits(acc, limit)
    BY <1>2
  <2>2. /\ Fits(Pick(order[n], acc, limit), limit)
        /\ Range(acc) \subseteq Range(Pick(order[n], acc, limit))
        /\ limit >= Cardinality(N) => order[n] \in Range(Pick(order[n], acc, limit))
    BY <2>1, PickKeeps
  <2>. QED  BY <2>2 DEF Fits
<1> HIDE DEF m, X
<1>5. g \in Steps(m, X) /\ \A n \in 1..m : \A acc \in X : g[n][acc] = Pick(order[n], acc, limit)
  BY <1>4 DEF Steps
<1> HIDE DEF g
<1>6. PICK f : Iterated(f, m, X, <<>>, g)
  BY <1>2, <1>3, <1>5, Iterates, Zenon
<1>7. f = Step(f)
  <2>1. \A n \in 0..m : n = 0 \/ (n \in 1..m /\ n - 1 \in 0..m)
    BY <1>2
  <2>2. \A n \in 0..m : f[n] = IF n = 0 THEN <<>> ELSE Pick(order[n], f[n - 1], limit)
    BY <1>5, <1>6, <2>1, Zenon DEF Iterated
  <2>3. f = [n \in 0..m |-> f[n]]
    BY <1>6, Zenon DEF Iterated
  <2>. QED  BY <2>2, <2>3, Zenon
<1>8. h = Step(h)
  BY <1>7, Zenon
<1> HIDE DEF h
<1>9. \A n \in 0..m : h[n] = IF n = 0 THEN <<>> ELSE Pick(order[n], h[n - 1], limit)
  BY <1>8, Zenon
<1> DEFINE Good(n) == /\ h[n] \in X
                      /\ limit >= Cardinality(N) => \A i \in 1..n : order[i] \in Range(h[n])
           G == {n \in 0..m : Good(n)}
<1>10. 0 \in G
  <2>1. h[0] = <<>> /\ 0 \in 0..m
    BY <1>2, <1>9
  <2>. QED  BY <1>3, <2>1
<1>11. ASSUME NEW n \in 1..m, n - 1 \in G PROVE n \in G
  <2> DEFINE acc == h[n - 1]
  <2>1. h[n] = Pick(order[n], acc, limit) /\ n \in 0..m
    BY <1>2, <1>9
  <2>2. acc \in X /\ (limit >= Cardinality(N) => \A i \in 1..(n - 1) : order[i] \in Range(acc))
    BY <1>11
  <2> HIDE DEF acc
  <2>3. /\ h[n] \in X /\ Range(acc) \subseteq Range(h[n])
        /\ limit >= Cardinality(N) => order[n] \in Range(h[n])
    BY <1>4, <2>1, <2>2
  <2>4. \A i \in 1..n : i = n \/ i \in 1..(n - 1)
    BY <1>2
  <2>5. limit >= Cardinality(N) => \A i \in 1..n : order[i] \in Range(h[n])
    BY <2>2, <2>3, <2>4
  <2>. QED  BY <2>1, <2>3, <2>5
<1>12. \A n \in 0..m : n \in G
  <2> HIDE DEF G
  <2>. QED  BY <1>2, <1>10, <1>11, Counting
<1>13. Good(m)
  BY <1>2, <1>12
<1>14. Fits(h[m], limit)
  BY <1>13 DEF X
<1>15. \A e : e \in Range(order) => \E i \in 1..m : order[i] = e
  BY InRange DEF m
<1>. QED  BY <1>1, <1>13, <1>14, <1>15

\* A template has no duplicates, respects the limit, takes with every transaction
\* all its tracked ancestors, and takes everything if there is room for it, for
\* every shape of the dependency graph and every ranking
\* (MemPool::get_best_transactions, DependencyTracker::gather_with_ancestors).
THEOREM TemplateCompleteness == Spec => []TemplateComplete
<1>1. ASSUME IInv, FiniteInv, LinkInv PROVE TemplateComplete
  <2> SUFFICES ASSUME NEW order \in Rankings, NEW limit \in 1..MaxSize
               PROVE  LET T == get_best_transactions(order, limit) IN
                      /\ IsInjective(T)
                      /\ Len(T) <= limit
                      /\ Range(T) \subseteq storage.transactions
                      /\ \A t \in Range(T) : Range(get_with_ancestors(tracker, t)) \subseteq Range(T)
                      /\ limit >= Cardinality(storage.transactions) => Range(T) = storage.transactions
    BY DEF TemplateComplete
  <2>1. limit \in Nat
    BY PoolAssumption
  <2>2. Sound(tracker) /\ tracker.nodes = storage.transactions
    BY <1>1 DEF IInv, FiniteInv, LinkInv, Sound, StorageType
  <2>3. order \in SetToSeqs(tracker.nodes) /\ IsFiniteSet(tracker.nodes)
    BY <2>2 DEF Rankings, Sound
  <2>4. order \in Seq(tracker.nodes) /\ Range(order) = tracker.nodes
    BY <2>3, RankingCovers
  <2> DEFINE T == get_best_transactions(order, limit)
  <2>5. /\ Fits(T, limit)
        /\ limit >= Cardinality(tracker.nodes) => Range(order) \subseteq Range(T)
    BY <2>1, <2>2, <2>4, TemplateOf
  <2> HIDE DEF T
  <2>6. Range(T) \subseteq tracker.nodes
    <3>1. T \in Seq(tracker.nodes)
      BY <2>5 DEF Fits
    <3>. QED  BY <3>1, InRange
  <2>7. /\ IsInjective(T) /\ Len(T) <= limit
        /\ \A t \in Range(T) : Range(get_with_ancestors(tracker, t)) \subseteq Range(T)
    BY <2>5 DEF Fits
  <2>8. limit >= Cardinality(storage.transactions) => Range(T) = storage.transactions
    BY <2>2, <2>4, <2>5, <2>6
  <2>. QED  BY <2>2, <2>6, <2>7, <2>8 DEF T
<1>. QED  BY <1>1, Invariance, Finiteness, Linkage, PTL
=============================================================================
