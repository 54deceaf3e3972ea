-------------------------- MODULE BlockTreeProofs --------------------------
(***************************************************************************)
(* Facts about branches of the block tree that follow from naming blocks,  *)
(* transactions and outputs by digest: a transaction occurs once on a      *)
(* branch, so a valid block never creates an output that is there already. *)
(*                                                                         *)
(* That needs payments to spend something.  The validator accepts a        *)
(* payment without inputs, which nothing stops from being repeated, so     *)
(* the theorems that rest on it have NoRepeats as an explicit hypothesis.  *)
(***************************************************************************)
EXTENDS BlockTree, SumProofs

\* No payment without inputs is in two blocks of the chain.
InputlessOnce(c) ==
  \A h, k \in DOMAIN c : \A t \in Payments[c[h]] \cap Payments[c[k]] : Inputs[t] = {} => h = k

\* No branch repeats a payment without inputs.
NoRepeats == \A c : IsValidChain(c) => InputlessOnce(c)

\* Genesis creates the allocation; a later block of a chain spends what is there
\* and changes the ledger by its undo record.
LEMMA ChainLedger ==
  ASSUME NEW c, IsValidChain(c), NEW h \in DOMAIN c
  PROVE  /\ h \in Nat /\ c[h] \in Blocks \ BadBlocks /\ Height[c[h]] = h
         /\ h = 0 => LedgerAt[c[h]] = MadeIn(c[h]) \ SpentIn(c[h]) /\ Payments[c[h]] = {}
         /\ h # 0 => /\ h - 1 \in DOMAIN c
                     /\ SpentIn(c[h]) \subseteq LedgerAt[c[h - 1]]
                     /\ LedgerAt[c[h]] = (LedgerAt[c[h - 1]] \ (SpentIn(c[h]) \ MadeIn(c[h])))
                                           \cup (MadeIn(c[h]) \ SpentIn(c[h]))
<1>1. /\ h \in Nat /\ c[h] \in ValidBlocks /\ Height[c[h]] = h
      /\ h # 0 => h - 1 \in DOMAIN c /\ Parent[c[h]] = c[h - 1]
      /\ c[0] = Genesis
  BY DEF IsValidChain
<1>2. CASE h = 0
  <2>1. c[h] = Genesis /\ Genesis \in Blocks \ BadBlocks
    BY <1>1, <1>2, TreeAssumption
  <2>2. LedgerAt[Genesis] = apply_block(Genesis, {}) /\ Payments[Genesis] = {}
    BY ReferenceAssumption, DigestAssumption
  <2>3. LedgerAt[Genesis] = MadeIn(Genesis) \ SpentIn(Genesis)
    BY <2>2 DEF apply_block, BlockUndo
  <2>. QED  BY <1>1, <1>2, <2>1, <2>2, <2>3
<1>3. CASE h # 0
  <2>1. c[h] \in Blocks \ {Genesis}
    BY <1>1, <1>3, ReferenceAssumption, TreeAssumption
  <2>2. /\ c[h] \notin BadBlocks
        /\ validate_transactions(c[h], LedgerAt[c[h - 1]])
        /\ LedgerAt[c[h]] = apply_block(c[h], LedgerAt[c[h - 1]])
    BY <1>1, <1>3, <2>1, ReferenceAssumption
  <2>3. SpentIn(c[h]) \subseteq LedgerAt[c[h - 1]]
    BY <2>2 DEF validate_transactions, validate_payment_tx, resolve_utxo, SpentIn,
       get_external_dependencies
  <2>4. LedgerAt[c[h]] = (LedgerAt[c[h - 1]] \ (SpentIn(c[h]) \ MadeIn(c[h])))
                           \cup (MadeIn(c[h]) \ SpentIn(c[h]))
    BY <2>2 DEF apply_block, BlockUndo
  <2>. QED  BY <1>1, <1>3, <2>1, <2>2, <2>3, <2>4
<1>. QED  BY <1>2, <1>3

\* What is unspent at one height and was not at an earlier one, or at none, was
\* created in between.
LEMMA CreatedBetween ==
  ASSUME NEW c, IsValidChain(c), NEW n \in Nat, DOMAIN c = 0..n,
         NEW o, NEW i \in -1..n, i # -1 => o \notin LedgerAt[c[i]],
         NEW j \in 0..n, i <= j, o \in LedgerAt[c[j]]
  PROVE  \E k \in i+1..j : o \in MadeIn(c[k])
<1> DEFINE S == {k \in 0..n : i <= k /\ o \in LedgerAt[c[k]]}
<1>1. S \in SUBSET Nat /\ j \in S
  OBVIOUS
<1>2. PICK k \in S : \A l \in S : k <= l
  BY <1>1, LeastNumber
<1>3. k \in 0..n /\ i <= k /\ o \in LedgerAt[c[k]] /\ k <= j
  BY <1>1, <1>2
<1>4. k # i
  BY <1>3
<1>5. k \in i+1..j
  BY <1>3, <1>4
<1>6. o \in MadeIn(c[k])
  <2>1. CASE k = 0
    BY <1>3, <2>1, ChainLedger
  <2>2. CASE k # 0
    <3>1. k - 1 \in 0..n /\ i <= k - 1 /\ ~(k <= k - 1)
      BY <1>3, <1>4, <2>2
    <3>2. o \notin LedgerAt[c[k - 1]]
      BY <1>2, <3>1
    <3>3. LedgerAt[c[k]] = (LedgerAt[c[k - 1]] \ (SpentIn(c[k]) \ MadeIn(c[k])))
                             \cup (MadeIn(c[k]) \ SpentIn(c[k]))
      BY <1>3, <2>2, ChainLedger
    <3>. QED  BY <1>3, <3>2, <3>3
  <2>. QED  BY <2>1, <2>2
<1>. QED  BY <1>5, <1>6

\* An output is created by one transaction.
LEMMA OneCreator ==
  ASSUME NEW a \in Blocks, NEW b \in Blocks, NEW o, o \in MadeIn(a), o \in MadeIn(b)
  PROVE  \E t : t \in TransactionsOf(a) /\ t \in TransactionsOf(b)
<1>1. PICK t \in TransactionsOf(a) : o \in Outputs[t]
  BY DEF MadeIn
<1>2. PICK u \in TransactionsOf(b) : o \in Outputs[u]
  BY DEF MadeIn
<1>3. t \in DOMAIN Inputs /\ u \in DOMAIN Inputs
  BY TransactionAssumption DEF TransactionsOf
<1>4. t = u
  BY <1>1, <1>2, <1>3, DigestAssumption
<1>. QED  BY <1>1, <1>2, <1>4

\* No transaction occurs twice on a branch that does not repeat a payment without
\* inputs.  A coinbase names its height.  Any other payment spends an output, which
\* would have to be created a second time before the payment is repeated, by a
\* transaction that is itself repeated earlier.
THEOREM TransactionsOnce ==
  ASSUME NEW c, IsValidChain(c), InputlessOnce(c), NEW n \in Nat, DOMAIN c = 0..n
  PROVE  \A i, j \in 0..n : i < j => TransactionsOf(c[i]) \cap TransactionsOf(c[j]) = {}
<1> DEFINE Twice(j) == \E i \in 0..n : i < j /\ TransactionsOf(c[i]) \cap TransactionsOf(c[j]) # {}
           S == {j \in 0..n : Twice(j)}
<1> SUFFICES ASSUME S # {} PROVE FALSE
  OBVIOUS
<1>1. S \in SUBSET Nat
  OBVIOUS
<1>2. PICK j \in S : \A k \in S : j <= k
  BY <1>1, LeastNumber
<1>3. j \in 0..n /\ Twice(j)
  BY <1>2
<1>4. \A k \in 0..n : k < j => ~Twice(k)
  BY <1>2, <1>3
<1>5. PICK i \in 0..n : i < j /\ TransactionsOf(c[i]) \cap TransactionsOf(c[j]) # {}
  BY <1>3
<1>6. PICK t : t \in TransactionsOf(c[i]) /\ t \in TransactionsOf(c[j])
  BY <1>5
<1>7. /\ c[i] \in Blocks \ BadBlocks /\ c[j] \in Blocks \ BadBlocks
      /\ Height[c[i]] = i /\ Height[c[j]] = j
  BY <1>3, ChainLedger
<1>8. t \in Payments[c[i]] /\ t \in Payments[c[j]]
  BY <1>5, <1>6, <1>7, DigestAssumption DEF TransactionsOf
<1>9. PICK o : o \in Inputs[t]
  BY <1>3, <1>5, <1>8 DEF InputlessOnce
<1>10. o \in SpentIn(c[i]) /\ o \in SpentIn(c[j])
  BY <1>8, <1>9 DEF SpentIn
<1>11. i # 0 /\ j # 0
  BY <1>3, <1>8, ChainLedger
<1>12. o \in LedgerAt[c[i - 1]] /\ o \in LedgerAt[c[j - 1]]
  BY <1>3, <1>10, <1>11, ChainLedger
<1>13. /\ i - 1 \in 0..n /\ j - 1 \in 0..n /\ -1 \in -1..n /\ -1 <= i - 1
       /\ i \in -1..n /\ i <= j - 1
  BY <1>3, <1>5, <1>11
<1>14. PICK a \in 0..i-1 : o \in MadeIn(c[a])
  <2>1. \E k \in (-1)+1..i-1 : o \in MadeIn(c[k])
    BY <1>12, <1>13, CreatedBetween
  <2>. QED  BY <2>1
<1>15. ASSUME NEW k \in 0..n, a < k, k < j, o \in MadeIn(c[k]) PROVE FALSE
  <2>1. a \in 0..n
    BY <1>5, <1>14
  <2>2. c[a] \in Blocks /\ c[k] \in Blocks
    BY <2>1, ChainLedger
  <2>3. TransactionsOf(c[a]) \cap TransactionsOf(c[k]) # {}
    BY <1>14, <1>15, <2>2, OneCreator
  <2>. QED  BY <1>4, <1>15, <2>1, <2>3
<1>16. o \notin MadeIn(c[i])
  BY <1>5, <1>14, <1>15
<1>17. o \notin LedgerAt[c[i]]
  BY <1>10, <1>11, <1>16, ChainLedger
<1>18. PICK k \in i+1..j-1 : o \in MadeIn(c[k])
  BY <1>12, <1>13, <1>17, CreatedBetween
<1>19. k \in 0..n /\ a < k /\ k < j
  BY <1>3, <1>5, <1>14, <1>18
<1>. QED  BY <1>15, <1>18, <1>19

\* Every valid block ends a chain from genesis.
LEMMA ValidBranch ==
  ASSUME NEW b \in ValidBlocks
  PROVE  \E c : IsValidChain(c) /\ DOMAIN c = 0..Height[b] /\ c[Height[b]] = b
<1> DEFINE Reached(x) == \E c : IsValidChain(c) /\ DOMAIN c = 0..Height[x] /\ c[Height[x]] = x
           S == {Height[x] : x \in {y \in ValidBlocks : ~Reached(y)}}
<1>0. \A x \in ValidBlocks : x \in Blocks /\ Height[x] \in Nat
  BY ReferenceAssumption, TreeAssumption
<1> HIDE DEF Reached
<1> SUFFICES ASSUME S # {} PROVE FALSE
  BY DEF Reached
<1>1. S \in SUBSET Nat
  BY <1>0
<1>2. PICK n \in S : \A k \in S : n <= k
  BY <1>1, LeastNumber
<1>3. PICK x \in ValidBlocks : ~Reached(x) /\ n = Height[x]
  BY <1>2
<1>4. CASE x = Genesis
  <2> DEFINE c == [h \in 0..0 |-> Genesis]
  <2>1. DOMAIN c = 0..0 /\ \A h \in 0..0 : h = 0 /\ c[h] = Genesis
    OBVIOUS
  <2> HIDE DEF c
  <2>2. Height[Genesis] = 0 /\ Genesis \in ValidBlocks
    BY TreeAssumption, ReferenceAssumption
  <2>3. IsValidChain(c)
    BY <2>1, <2>2 DEF IsValidChain
  <2>4. Reached(Genesis)
    BY <2>1, <2>2, <2>3 DEF Reached
  <2>. QED  BY <1>3, <1>4, <2>4
<1>5. CASE x # Genesis
  <2>1. Parent[x] \in ValidBlocks /\ Height[x] = Height[Parent[x]] + 1
    BY <1>0, <1>3, <1>5, ReferenceAssumption
  <2> DEFINE m == Height[Parent[x]]
  <2>2. m \in Nat /\ Height[x] = m + 1
    BY <1>0, <2>1
  <2>3. Reached(Parent[x])
    <3>1. m \notin S
      BY <1>2, <1>3, <2>2
    <3>. QED  BY <2>1, <3>1
  <2>4. PICK c : IsValidChain(c) /\ DOMAIN c = 0..m /\ c[m] = Parent[x]
    BY <2>3 DEF Reached
  <2> HIDE DEF m
  <2> DEFINE d == [h \in 0..m+1 |-> IF h = m + 1 THEN x ELSE c[h]]
  <2>5. /\ DOMAIN d = 0..m+1 /\ d[m + 1] = x
        /\ \A h \in 0..m : d[h] = c[h]
    BY <2>2
  <2> HIDE DEF d
  <2>6. \A h \in 0..m+1 : h \in Nat /\ (h = m + 1 \/ h \in 0..m)
    BY <2>2
  <2>7. ASSUME NEW h \in 0..m+1
        PROVE  /\ h \in Nat /\ d[h] \in ValidBlocks /\ Height[d[h]] = h
               /\ h # 0 => h - 1 \in 0..m+1 /\ Parent[d[h]] = d[h - 1]
    <3>1. CASE h = m + 1
      <4>1. h - 1 = m /\ m \in 0..m /\ m \in 0..m+1
        BY <2>2, <3>1
      <4>. QED  BY <2>2, <2>4, <2>5, <2>6, <3>1, <4>1
    <3>2. CASE h \in 0..m
      <4>1. /\ c[h] \in ValidBlocks /\ Height[c[h]] = h
            /\ h # 0 => h - 1 \in 0..m /\ Parent[c[h]] = c[h - 1]
        BY <2>4, <3>2 DEF IsValidChain
      <4>2. h # 0 => h - 1 \in 0..m+1
        BY <2>2, <3>2
      <4>. QED  BY <2>5, <2>6, <3>2, <4>1, <4>2
    <3>. QED  BY <2>6, <3>1, <3>2
  <2>8. 0 \in 0..m+1 /\ d[0] = Genesis
    BY <2>2, <2>4, <2>5 DEF IsValidChain
  <2>9. IsValidChain(d)
    BY <2>5, <2>7, <2>8 DEF IsValidChain
  <2>10. Reached(x)
    BY <2>2, <2>5, <2>9 DEF Reached
  <2>. QED  BY <1>3, <2>10
<1>. QED  BY <1>4, <1>5

\* A block accepted on its branch creates no outpoint that is unspent there, so
\* that rewind_block may take away everything the block created, provided that no
\* branch repeats a payment without inputs.
THEOREM FreshOutputs ==
  ASSUME NoRepeats, NEW b \in ValidBlocks, b # Genesis
  PROVE  BlockUndo(b).created_outpoints \cap LedgerAt[Parent[b]] = {}
<1> DEFINE n == Height[b]
<1>1. n \in Nat
  BY ReferenceAssumption, TreeAssumption
<1>2. PICK c : IsValidChain(c) /\ DOMAIN c = 0..n /\ c[n] = b
  BY ValidBranch
<1> HIDE DEF n
<1>3. n # 0
  BY <1>2 DEF IsValidChain
<1>4. n \in 0..n /\ n - 1 \in 0..n /\ -1 \in -1..n /\ -1 <= n - 1
  BY <1>1, <1>3
<1>5. Parent[b] = c[n - 1]
  BY <1>2, <1>3, <1>4 DEF IsValidChain
<1> SUFFICES ASSUME NEW o, o \in MadeIn(b), o \in LedgerAt[c[n - 1]] PROVE FALSE
  BY <1>5 DEF BlockUndo
<1>6. PICK k \in 0..n-1 : o \in MadeIn(c[k])
  <2>1. \E k \in (-1)+1..n-1 : o \in MadeIn(c[k])
    BY <1>1, <1>2, <1>4, CreatedBetween
  <2>. QED  BY <2>1
<1>7. k \in 0..n /\ k < n
  BY <1>1, <1>6
<1>8. c[k] \in Blocks /\ b \in Blocks
  BY <1>2, <1>4, <1>7, ChainLedger
<1>9. \E t : t \in TransactionsOf(c[k]) /\ t \in TransactionsOf(c[n])
  BY <1>2, <1>6, <1>8, OneCreator
<1>10. InputlessOnce(c)
  BY <1>2 DEF NoRepeats
<1>. QED  BY <1>1, <1>2, <1>4, <1>7, <1>9, <1>10, TransactionsOnce


----------------------------------------------------------------------------
(***************************************************************************)
(* What a block does to the value of the ledger.                           *)
(***************************************************************************)

\* The value of a set of outputs is a sum.
LEMMA ValueIsTotal ==
  ASSUME NEW S
  PROVE  TotalValue(S) = Total(Value, S)
BY Zenon DEF TotalValue, Total

LEMMA ValueNat ==
  ASSUME NEW S \in SUBSET DOMAIN Value, IsFiniteSet(S)
  PROVE  TotalValue(S) \in Nat
<1>1. \A x \in S : Value[x] \in Nat
  BY AmountAssumption
<1>. QED  BY <1>1, TotalNat, ValueIsTotal

\* The subsidy never drops below zero.
LEMMA SubsidyNat ==
  ASSUME NEW h \in Nat
  PROVE  block_subsidy(h) \in Nat
<1>1. InitialSubsidy \in Nat /\ DecayInterval \in Nat /\ DecayStep \in Nat
  BY AmountAssumption
<1>2. CASE DecayInterval = 0
  BY <1>1, <1>2 DEF block_subsidy
<1>3. CASE DecayInterval # 0
  <2> DEFINE q == h \div DecayInterval
             drop == q * DecayStep
  <2>1. q \in Nat
    BY <1>1, <1>3
  <2> HIDE DEF q
  <2>2. drop \in Nat
    BY <1>1, <2>1
  <2> HIDE DEF drop
  <2>3. (IF drop >= InitialSubsidy THEN 0 ELSE InitialSubsidy - drop) \in Nat
    BY <1>1, <2>2
  <2>. QED  BY <1>3, <2>3 DEF block_subsidy, drop, q
<1>. QED  BY <1>2, <1>3

\* The fee of every payment of a block.
Fees(b) == [t \in Payments[b] |-> TotalValue(Inputs[t]) - TotalValue(Outputs[t])]

LEMMA FeesAreTotal ==
  ASSUME NEW b \in Blocks
  PROVE  calculate_total_fees(b) = Total(Fees(b), Payments[b])
<1> DEFINE P == Payments[b]
           w == Fees(b)
           fee(t) == TotalValue(Inputs[t]) - TotalValue(Outputs[t])
           Step(f) == [s \in SUBSET P |-> IF s = {} THEN 0 ELSE fee(Chosen(s)) + f[Rest(s)]]
           g == CHOOSE f : f = Step(f)
<1>1. calculate_total_fees(b) = g[P]
  BY Zenon DEF calculate_total_fees, MapThenSumSet, MapThenFoldSet, Chosen, Rest
<1>2. \A s \in SUBSET P : s # {} => w[Chosen(s)] = fee(Chosen(s))
  <2> SUFFICES ASSUME NEW s \in SUBSET P, s # {} PROVE w[Chosen(s)] = fee(Chosen(s))
    OBVIOUS
  <2>1. Chosen(s) \in P
    BY RestIsLess
  <2>. QED  BY <2>1 DEF Fees
<1> HIDE DEF w, fee
<1>3. \A f : Sums(f, w, P) <=> f = Step(f)
  <2> SUFFICES ASSUME NEW f PROVE Sums(f, w, P) <=> f = Step(f)
    OBVIOUS
  <2>1. \A s \in SUBSET P : (IF s = {} THEN 0 ELSE w[Chosen(s)] + f[Rest(s)])
                              = IF s = {} THEN 0 ELSE fee(Chosen(s)) + f[Rest(s)]
    BY <1>2, Zenon
  <2>2. Step(f) = [s \in SUBSET P |-> IF s = {} THEN 0 ELSE w[Chosen(s)] + f[Rest(s)]]
    BY <2>1, Zenon
  <2>. QED  BY <2>2, Zenon DEF Sums
<1>4. IsFiniteSet(P) /\ P \in SUBSET P
  BY AmountAssumption
<1> HIDE DEF P
<1>5. Sums(SumOf(w, P), w, P)
  BY <1>4, SumsExist
<1>6. g = Step(g)
  BY <1>3, <1>5, Zenon
<1> HIDE DEF g
<1>7. Sums(g, w, P)
  BY <1>3, <1>6, Zenon
<1>8. g[P] = SumOf(w, P)[P]
  BY <1>4, <1>5, <1>7, SumsAgree
<1>. QED  BY <1>1, <1>8, TotalIs DEF w, P


\* No block creates more than it spends and its subsidy (validate_payment_tx,
\* reward_rule): the payments of a block spend different outputs, none of them of the
\* block itself, and their fees go to the coinbase.
LEMMA BlockValue ==
  ASSUME NEW b \in Blocks \ BadBlocks, NEW U \in SUBSET DOMAIN Value, IsFiniteSet(U),
         validate_transactions(b, U)
  PROVE  /\ IsFiniteSet(apply_block(b, U))
         /\ TotalValue(apply_block(b, U)) <= TotalValue(U) + block_subsidy(Height[b])
<1> DEFINE P == Payments[b]
           cb == Coinbase[b]
           S == SpentIn(b)
           M == MadeIn(b)
           fees == Fees(b)
           ins == [t \in P |-> TotalValue(Inputs[t])]
           outs == [t \in P |-> TotalValue(Outputs[t])]
<1>1. /\ IsFiniteSet(P) /\ P \subseteq DOMAIN Inputs /\ cb \in DOMAIN Inputs /\ cb \notin P
      /\ \A t, u \in DOMAIN Inputs : t # u => Outputs[t] \cap Outputs[u] = {}
  BY AmountAssumption, TransactionAssumption, DigestAssumption
<1>2. \A t \in DOMAIN Inputs :
        /\ IsFiniteSet(Inputs[t]) /\ Inputs[t] \in SUBSET DOMAIN Value
        /\ IsFiniteSet(Outputs[t]) /\ Outputs[t] \in SUBSET DOMAIN Value
  BY AmountAssumption, TransactionAssumption
<1>3. \A t \in DOMAIN Inputs : TotalValue(Inputs[t]) \in Nat /\ TotalValue(Outputs[t]) \in Nat
  BY <1>2, ValueNat
<1>4. /\ \A t, u \in P : t # u => Inputs[t] \cap Inputs[u] = {}
      /\ S \subseteq U /\ S \cap M = {}
  BY DEF validate_transactions, ensure_unique_inputs, get_external_dependencies,
         validate_payment_tx, resolve_utxo, SpentIn
<1>5. TotalValue(Outputs[cb]) <= block_subsidy(Height[b]) + Total(fees, P)
  BY FeesAreTotal DEF validate_transactions, reward_rule
<1>6. /\ IsFiniteSet(S) /\ TotalValue(S) \in Nat /\ TotalValue(S) = Total(ins, P)
  <2>1. \A t \in P : \A x \in Inputs[t] : Value[x] \in Nat
    BY <1>1, <1>2, AmountAssumption
  <2>2. \A t \in P : ins[t] = Total(Value, Inputs[t])
    BY ValueIsTotal
  <2>3. \A t \in P : IsFiniteSet(Inputs[t])
    BY <1>1, <1>2
  <2>4. \A t, u \in P : t # u => Inputs[t] \cap Inputs[u] = {}
    BY <1>4
  <2>5. IsFiniteSet(P)
    BY <1>1
  <2> HIDE DEF ins, P
  <2>6. /\ IsFiniteSet(Joined(Inputs, P))
        /\ Total(Value, Joined(Inputs, P)) \in Nat
    BY <2>1, <2>2, <2>3, <2>5, TotalFamily
  <2>7. Total(Value, Joined(Inputs, P)) = Total(ins, P)
    BY <2>1, <2>2, <2>3, <2>4, <2>5, TotalPartition
  <2>. QED  BY <2>6, <2>7, ValueIsTotal DEF SpentIn, Joined, P
<1> DEFINE O == Joined(Outputs, P)
<1>7. /\ IsFiniteSet(O) /\ Total(Value, O) \in Nat /\ Total(outs, P) \in Nat
      /\ Total(Value, O) <= Total(outs, P)
  <2>1. \A t \in P : \A x \in Outputs[t] : Value[x] \in Nat
    BY <1>1, <1>2, AmountAssumption
  <2>2. \A t \in P : outs[t] = Total(Value, Outputs[t])
    BY ValueIsTotal
  <2>3. \A t \in P : IsFiniteSet(Outputs[t])
    BY <1>1, <1>2
  <2> HIDE DEF outs, P
  <2>. QED  BY <1>1, <2>1, <2>2, <2>3, TotalFamily
<1>8. M = Outputs[cb] \cup O
  BY DEF MadeIn, TransactionsOf, Joined
<1>9. /\ IsFiniteSet(M) /\ Total(Value, M) \in Nat
      /\ Total(Value, M) <= Total(Value, Outputs[cb]) + Total(Value, O)
  <2> DEFINE C == Outputs[cb]
  <2>1. IsFiniteSet(C) /\ C \in SUBSET DOMAIN Value
    BY <1>1, <1>2
  <2>2. O \in SUBSET DOMAIN Value
    BY <1>1, <1>2 DEF Joined
  <2>3. \A x \in C \cup O : Value[x] \in Nat
    BY <2>1, <2>2, AmountAssumption
  <2> HIDE DEF C, O, M
  <2>4. /\ Total(Value, C \cup O) \in Nat
        /\ Total(Value, C \cup O) <= Total(Value, C) + Total(Value, O)
        /\ IsFiniteSet(C \cup O)
    BY <1>7, <2>1, <2>3, TotalCover, FS_Union
  <2>5. M = C \cup O
    BY <1>8 DEF C
  <2>. QED  BY <2>4, <2>5, Zenon DEF C
<1>10. Total(ins, P) = Total(fees, P) + Total(outs, P) /\ Total(fees, P) \in Int
  <2>1. \A t \in P : fees[t] \in Int /\ outs[t] \in Int /\ ins[t] = fees[t] + outs[t]
    BY <1>1, <1>3 DEF Fees
  <2> HIDE DEF fees, outs, ins, P
  <2>. QED  BY <1>1, <2>1, TotalPlus, TotalInt
<1>11. Total(Value, Outputs[cb]) \in Nat /\ Total(Value, Outputs[cb]) = TotalValue(Outputs[cb])
  BY <1>1, <1>3, ValueIsTotal
<1>12. block_subsidy(Height[b]) \in Nat
  BY SubsidyNat, TreeAssumption
<1> DEFINE R == U \ S
<1>13. apply_block(b, U) = R \cup M
  BY <1>4 DEF apply_block, BlockUndo
<1>14. /\ IsFiniteSet(R) /\ Total(Value, R) \in Nat
       /\ Total(Value, U) = Total(Value, S) + Total(Value, R)
  <2>1. \A x \in U : Value[x] \in Nat /\ Value[x] \in Int
    BY AmountAssumption
  <2>2. IsFiniteSet(R) /\ (\A x \in R : Value[x] \in Nat) /\ S \in SUBSET U
    BY <1>4, <2>1, FS_Subset
  <2> HIDE DEF S
  <2>3. Total(Value, U) = Total(Value, S) + Total(Value, U \ S)
    BY <2>1, <2>2, TotalSplit
  <2> HIDE DEF R
  <2>4. Total(Value, R) \in Nat
    BY <2>2, TotalNat
  <2>. QED  BY <2>2, <2>3, <2>4 DEF R
<1>15. /\ Total(Value, R \cup M) \in Nat /\ IsFiniteSet(R \cup M)
       /\ Total(Value, R \cup M) <= Total(Value, R) + Total(Value, M)
  <2>1. M \in SUBSET DOMAIN Value
    BY <1>1, <1>2 DEF MadeIn, TransactionsOf
  <2>2. \A x \in R \cup M : Value[x] \in Nat
    BY <2>1, AmountAssumption
  <2> HIDE DEF R, M
  <2>. QED  BY <1>9, <1>14, <2>2, TotalCover, FS_Union
<1>16. TotalValue(S) = Total(Value, S) /\ TotalValue(U) = Total(Value, U)
  BY ValueIsTotal
<1> DEFINE A == apply_block(b, U)
           Q == R \cup M
<1>17. TotalValue(A) = Total(Value, Q) /\ IsFiniteSet(A)
  BY <1>13, <1>15, ValueIsTotal
<1>18. Total(Value, Q) <= TotalValue(U) + block_subsidy(Height[b])
  <2> HIDE DEF A, Q, R, M, S, O, P, cb, fees, ins, outs
  <2>1. Total(Value, Q) <= Total(Value, R) + Total(Value, M) /\ Total(Value, Q) \in Nat
    BY <1>15 DEF Q
  <2>. QED
    BY <1>5, <1>6, <1>7, <1>9, <1>10, <1>11, <1>12, <1>14, <1>16, <2>1
<1>. QED  BY <1>17, <1>18


\* The subsidy of every height.
Subsidies == [h \in Nat |-> block_subsidy(h)]

LEMMA SubsidiesAreTotal ==
  ASSUME NEW n \in Nat
  PROVE  MapThenSumSet(block_subsidy, 1..n) = Total(Subsidies, 1..n)
<1> DEFINE P == 1..n
           w == Subsidies
           Step(f) == [s \in SUBSET P |-> IF s = {} THEN 0
                                          ELSE block_subsidy(Chosen(s)) + f[Rest(s)]]
           g == CHOOSE f : f = Step(f)
<1>1. MapThenSumSet(block_subsidy, P) = g[P]
  BY Zenon DEF MapThenSumSet, MapThenFoldSet, Chosen, Rest
<1>2. \A s \in SUBSET P : s # {} => w[Chosen(s)] = block_subsidy(Chosen(s))
  <2> SUFFICES ASSUME NEW s \in SUBSET P, s # {} PROVE w[Chosen(s)] = block_subsidy(Chosen(s))
    OBVIOUS
  <2>1. Chosen(s) \in s
    BY RestIsLess
  <2>2. Chosen(s) \in 1..n
    BY <2>1, Zenon
  <2>3. Chosen(s) \in Nat
    BY <2>2
  <2>. QED  BY <2>3, Zenon DEF Subsidies
<1> HIDE DEF w
<1>3. \A f : Sums(f, w, P) <=> f = Step(f)
  <2> SUFFICES ASSUME NEW f PROVE Sums(f, w, P) <=> f = Step(f)
    OBVIOUS
  <2>1. \A s \in SUBSET P : (IF s = {} THEN 0 ELSE w[Chosen(s)] + f[Rest(s)])
                              = IF s = {} THEN 0 ELSE block_subsidy(Chosen(s)) + f[Rest(s)]
    BY <1>2, Zenon
  <2>2. Step(f) = [s \in SUBSET P |-> IF s = {} THEN 0 ELSE w[Chosen(s)] + f[Rest(s)]]
    BY <2>1, Zenon
  <2>. QED  BY <2>2, Zenon DEF Sums
<1>4. IsFiniteSet(P) /\ P \in SUBSET P
  BY FS_Interval
<1> HIDE DEF P
<1>5. Sums(SumOf(w, P), w, P)
  BY <1>4, SumsExist
<1>6. g = Step(g)
  BY <1>3, <1>5, Zenon
<1> HIDE DEF g
<1>7. Sums(g, w, P)
  BY <1>3, <1>6, Zenon
<1>8. g[P] = SumOf(w, P)[P]
  BY <1>4, <1>5, <1>7, SumsAgree
<1>. QED  BY <1>1, <1>8, TotalIs DEF w, P

\* The outputs of genesis are finitely many.
LEMMA GenesisValue ==
  IsFiniteSet(LedgerAt[Genesis]) /\ LedgerAt[Genesis] \in SUBSET DOMAIN Value
<1>1. LedgerAt[Genesis] = apply_block(Genesis, {}) /\ LedgerAt[Genesis] \in SUBSET DOMAIN Value
  BY ReferenceAssumption, TreeAssumption
<1>2. Payments[Genesis] = {} /\ Coinbase[Genesis] \in DOMAIN Inputs
  BY DigestAssumption, TransactionAssumption, TreeAssumption
<1>3. apply_block(Genesis, {}) = Outputs[Coinbase[Genesis]]
  BY <1>2 DEF apply_block, BlockUndo, MadeIn, SpentIn, TransactionsOf
<1>. QED  BY <1>1, <1>2, <1>3, AmountAssumption

\* Along a valid branch the outputs never hold more than the allocation of genesis and
\* one subsidy per block (reward_rule, validate_payment_tx).
THEOREM SupplyOfBranch ==
  ASSUME NEW c, IsValidChain(c), NEW m \in DOMAIN c
  PROVE  TotalValue(LedgerAt[c[m]])
           <= TotalValue(LedgerAt[Genesis]) + MapThenSumSet(block_subsidy, 1..m)
<1> DEFINE V(h) == TotalValue(LedgerAt[c[h]])
           Z == TotalValue(LedgerAt[Genesis])
           Bounded(h) == IsFiniteSet(LedgerAt[c[h]]) /\ V(h) <= Z + Total(Subsidies, 1..h)
           F == {h \in DOMAIN c : ~Bounded(h)}
<1>1. \A h \in DOMAIN c : /\ h \in Nat /\ c[h] \in ValidBlocks /\ Height[c[h]] = h
                          /\ h # 0 => h - 1 \in DOMAIN c /\ Parent[c[h]] = c[h - 1]
  BY DEF IsValidChain
<1>2. c[0] = Genesis
  BY DEF IsValidChain
<1>3. IsFiniteSet(LedgerAt[Genesis]) /\ Z \in Nat
  BY GenesisValue, ValueNat
<1>4. \A h \in Nat : Subsidies[h] \in Nat
  BY SubsidyNat DEF Subsidies
<1>5. F = {}
  <2> SUFFICES ASSUME F # {} PROVE FALSE
    OBVIOUS
  <2>1. F \in SUBSET Nat
    BY <1>1
  <2> HIDE DEF F
  <2>2. PICK h \in F : \A k \in F : h <= k
    BY <2>1, LeastNumber
  <2>3. h \in DOMAIN c /\ h \in Nat /\ ~Bounded(h)
    BY <2>1, <2>2 DEF F
  <2> HIDE DEF Bounded
  <2>4. h # 0
    <3> SUFFICES ASSUME h = 0 PROVE FALSE
      OBVIOUS
    <3>1. 1..h = {}
      OBVIOUS
    <3>2. Total(Subsidies, 1..h) = 0
      BY <3>1, TotalEmpty
    <3>. QED  BY <1>2, <1>3, <2>3, <3>2 DEF Bounded
  <2> DEFINE p == h - 1
  <2>5. p \in DOMAIN c /\ p \in Nat /\ h = p + 1 /\ p < h /\ Parent[c[h]] = c[p]
    BY <1>1, <2>3, <2>4
  <2> HIDE DEF p
  <2>6. Bounded(p)
    BY <2>2, <2>5 DEF F
  <2> DEFINE b == c[h]
             U == LedgerAt[c[p]]
  <2>7. b \in ValidBlocks /\ b \in Blocks /\ c[p] \in ValidBlocks /\ c[p] \in Blocks /\ b # Genesis
    BY <1>1, <2>3, <2>4, <2>5, ReferenceAssumption, TreeAssumption
  <2>8. /\ b \in Blocks \ BadBlocks /\ validate_transactions(b, U) /\ Height[b] = h
        /\ LedgerAt[b] = apply_block(b, U) /\ U \in SUBSET DOMAIN Value
    BY <1>1, <2>3, <2>5, <2>7, ReferenceAssumption
  <2>9. IsFiniteSet(U) /\ TotalValue(U) <= Z + Total(Subsidies, 1..p)
    BY <2>6 DEF Bounded
  <2> HIDE DEF b, U
  <2>10. /\ IsFiniteSet(LedgerAt[b])
         /\ TotalValue(LedgerAt[b]) <= TotalValue(U) + block_subsidy(h)
    BY <2>8, <2>9, BlockValue
  <2>11. TotalValue(U) \in Nat
    BY <2>8, <2>9, ValueNat
  <2>12. LedgerAt[b] \in SUBSET DOMAIN Value
    BY <2>7, ReferenceAssumption
  <2>13. TotalValue(LedgerAt[b]) \in Nat
    BY <2>10, <2>12, ValueNat
  <2>14. /\ Total(Subsidies, 1..p) \in Nat
         /\ Total(Subsidies, 1..p + 1) = Total(Subsidies, 1..p) + Subsidies[p + 1]
    <3>1. \A i \in 1..p + 1 : Subsidies[i] \in Nat
      BY <1>4, <2>5
    <3>. QED  BY <2>5, <3>1, TotalNext
  <2>15. Subsidies[p + 1] = block_subsidy(h) /\ block_subsidy(h) \in Nat
    BY <2>3, <2>5, SubsidyNat DEF Subsidies
  <2> DEFINE sp == Total(Subsidies, 1..p)
             sh == Total(Subsidies, 1..h)
  <2>16. sh = sp + block_subsidy(h) /\ sp \in Nat
    BY <2>5, <2>14, <2>15
  <2> HIDE DEF sp, sh
  <2>17. TotalValue(U) <= Z + sp
    BY <2>9 DEF sp
  <2>18. TotalValue(LedgerAt[b]) <= Z + sh
    BY <1>3, <2>10, <2>11, <2>13, <2>15, <2>16, <2>17
  <2>. QED  BY <2>3, <2>10, <2>18 DEF Bounded, b, sh
<1>6. Bounded(m) /\ m \in Nat
  BY <1>1, <1>5
<1>. QED  BY <1>6, SubsidiesAreTotal
=============================================================================
