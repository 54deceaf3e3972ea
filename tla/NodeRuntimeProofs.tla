------------------------- MODULE NodeRuntimeProofs -------------------------
(***************************************************************************)
(* Proofs about NodeRuntime for any payments, gossip and channel sizes: no *)
(* stale proof of work goes unnoticed, a node whose storage failed does    *)
(* not serve, and, if every payment has inputs, the pool never keeps a     *)
(* confirmed one.                                                          *)
(***************************************************************************)
EXTENDS NodeRuntime, TLAPS, WellFoundedInduction

Labels == [by : {"miner", "net", "none"}, txs : SUBSET Txs]

\* Histories within the bound.
Hist == {b \in Blocks : Len(b) <= MaxHeight}

Kinds == {"AlreadyIncludedInChain", "AlreadyKnownInForkTree", "Buffered", "Rejected",
          "Applied", "CausedReorganization"}

WorkerType ==
  [for : {"none", "loop", "sync"}, blocks : Seq(Hist), stage : {"run", "commit", "pool", "send"},
   attached : SUBSET Txs, verdicts : Seq(Kinds)]

LoopType ==
  [pc : {"boot", "check", "register", "select", "add", "apply", "wait", "publish",
         "drain", "ended"},
   block : Hist, kind : Kinds \cup {"none"}]

SyncType ==
  [pc : {"none", "prepare", "fetch", "wait"}, target : Hist, next : Nat, panicked : BOOLEAN]

EventType == [type : {"NewBlock", "ChainTipAnnounced", "NewTransaction"},
              block : Hist, txs : SUBSET Txs]

NetType == [queue : Seq(EventType), lagged : BOOLEAN, sent : Nat]

MinerType ==
  [pc : {"select", "building", "stopped"}, best : SUBSET Txs, current : Nat, rounds : Nat]

TaskType ==
  [round : 1..MaxRounds, cancelled : BOOLEAN, stage : {"hash", "send"}, block : Hist]

\* Payments of b below its i-th block.
Below(b, i) == UNION {b[j].txs : j \in 1..(i - 1)}

\* Neither validator of payments asks for this: a payment without inputs may be
\* confirmed, and admitted, any number of times.
PaymentsSpend == \A t \in Txs : Inputs[t] # {}

\* Every payment of b spends what its own history created and nothing twice.
WellSpent(b) ==
  PaymentsSpend => \A i \in 1..Len(b) : \A t \in b[i].txs :
    /\ Inputs[t] \subseteq Coins \cup Below(b, i)
    /\ \A u \in Below(b, i) : Inputs[t] \cap Inputs[u] = {}

----------------------------------------------------------------------------
(***************************************************************************)
(* Histories.                                                              *)
(***************************************************************************)

\* A history is a sequence of labels.
LEMMA BlockSeq == Blocks = Seq(Labels)
BY DEF Blocks, Labels

\* What is assumed of the constants, gossip being within the bound.
LEMMA Constants ==
  /\ MaxHeight \in Nat /\ MaxRounds \in Nat /\ NetCap \in Nat \ {0} /\ MinedCap \in Nat \ {0}
  /\ NetBlocks \subseteq Hist /\ NetTips \subseteq Hist
  /\ Inputs \in [Txs -> SUBSET (Coins \cup Txs)]
  /\ Coins \cap Txs = {}
BY RuntimeAssumption, Zenon DEF Hist

\* A prefix agrees with the history on all its positions.
LEMMA PrefixAgrees ==
  ASSUME NEW s \in Seq(Labels), NEW t \in Seq(Labels), IsPrefix(s, t)
  PROVE  Len(s) <= Len(t) /\ \A i \in 1..Len(s) : s[i] = t[i]
<1>1. Len(s) <= Len(t) /\ SubSeq(s, 1, Len(s)) = SubSeq(t, 1, Len(s))
  BY DEF IsPrefix
<1>2. \A i \in 1..Len(s) : SubSeq(s, 1, Len(s))[i] = s[i] /\ SubSeq(t, 1, Len(s))[i] = t[i]
  BY <1>1
<1>. QED  BY <1>1, <1>2

\* The parent of a block.
LEMMA FrontOf ==
  ASSUME NEW b \in Seq(Labels), b # <<>>
  PROVE  /\ Front(b) \in Seq(Labels) /\ Len(b) \in Nat \ {0}
         /\ Len(Front(b)) = Len(b) - 1
         /\ \A i \in 1..(Len(b) - 1) : Front(b)[i] = b[i]
<1>1. Len(b) \in Nat \ {0}
  OBVIOUS
<1>2. Len(b) - 1 \in Nat /\ Len(b) - 1 <= Len(b)
  BY <1>1
<1>3. \A n \in Nat : n <= Len(b) =>
        /\ SubSeq(b, 1, n) \in Seq(Labels) /\ Len(SubSeq(b, 1, n)) = n
        /\ \A i \in 1..n : SubSeq(b, 1, n)[i] = b[i]
  OBVIOUS
<1>. QED  BY <1>1, <1>2, <1>3, Zenon DEF Front

\* The candidate extends the tip it was built on.
LEMMA FrontAppend ==
  ASSUME NEW s \in Seq(Labels), NEW x \in Labels
  PROVE  Front(Append(s, x)) = s
<1>1. /\ Append(s, x) \in Seq(Labels) /\ Len(Append(s, x)) = Len(s) + 1
      /\ \A i \in 1..Len(s) : Append(s, x)[i] = s[i]
  OBVIOUS
<1>2. Front(Append(s, x)) = SubSeq(Append(s, x), 1, Len(s))
  <2>1. Len(Append(s, x)) - 1 = Len(s)
    BY <1>1
  <2>. QED  BY <1>1, <2>1, Zenon DEF Front
<1>3. /\ SubSeq(Append(s, x), 1, Len(s)) \in Seq(Labels)
      /\ Len(SubSeq(Append(s, x), 1, Len(s))) = Len(s)
      /\ \A i \in 1..Len(s) : SubSeq(Append(s, x), 1, Len(s))[i] = s[i]
  BY <1>1
<1>. QED  BY <1>2, <1>3

\* The common ancestor is on both branches.
LEMMA AncestorOnBoth ==
  ASSUME NEW b \in Seq(Labels), NEW c \in Seq(Labels)
  PROVE  /\ Ancestor(b, c) \in Seq(Labels)
         /\ IsPrefix(Ancestor(b, c), b) /\ IsPrefix(Ancestor(b, c), c)
<1> DEFINE P == CommonPrefixes({b, c})
           T == {Len(b) - Len(p) : p \in P}
           R == {ss \in Nat \X Nat : ss[1] < ss[2]}
<1>1. \A p \in P : p \in Seq(Labels) /\ IsPrefix(p, b) /\ IsPrefix(p, c)
  BY DEF CommonPrefixes, Prefixes
<1>2. <<>> \in P
  <2>1. SubSeq(b, 1, 0) \in Prefixes(b) /\ SubSeq(b, 1, 0) = <<>>
    BY DEF Prefixes
  <2>2. IsPrefix(<<>>, b) /\ IsPrefix(<<>>, c)
    BY DEF IsPrefix
  <2>. QED  BY <2>1, <2>2 DEF CommonPrefixes
<1> HIDE DEF P
<1>3. T \subseteq Nat /\ T # {}
  <2>1. \A p \in P : Len(b) - Len(p) \in Nat
    BY <1>1, PrefixAgrees
  <2>. QED  BY <2>1, <1>2
<1>4. R = OpToRel(<, Nat)
  BY Zenon DEF OpToRel
<1>5. IsWellFoundedOn(R, Nat)
  BY <1>4, NatLessThanWellFounded, Zenon
<1> HIDE DEF R, T
<1>6. PICK x \in T : \A y \in T : <<y, x>> \notin R
  BY <1>3, <1>5, WFMin
<1>7. PICK a \in P : x = Len(b) - Len(a)
  BY DEF T
<1>8. \A p \in P : Len(p) <= Len(a)
  <2> SUFFICES ASSUME NEW p \in P PROVE Len(p) <= Len(a)
    OBVIOUS
  <2>1. Len(b) - Len(p) \in T /\ x \in T
    BY <1>7 DEF T
  <2>2. ~(Len(b) - Len(p) < Len(b) - Len(a))
    BY <1>3, <1>6, <1>7, <2>1 DEF R
  <2>. QED  BY <1>1, <2>2
<1>9. Ancestor(b, c) \in P
  BY <1>7, <1>8 DEF Ancestor, LongestCommonPrefix, P
<1>. QED  BY <1>1, <1>9

\* A prefix of a well spent history is well spent.
LEMMA PrefixSpent ==
  ASSUME NEW s \in Blocks, NEW t \in Blocks, IsPrefix(s, t), WellSpent(t)
  PROVE  WellSpent(s)
<1>1. Len(s) <= Len(t) /\ \A i \in 1..Len(s) : s[i] = t[i]
  BY PrefixAgrees, BlockSeq
<1>2. Len(s) \in Nat /\ Len(t) \in Nat
  BY BlockSeq
<1>3. \A i \in 1..Len(s) : Below(s, i) = Below(t, i) /\ i \in 1..Len(t)
  <2> SUFFICES ASSUME NEW i \in 1..Len(s) PROVE Below(s, i) = Below(t, i) /\ i \in 1..Len(t)
    OBVIOUS
  <2>1. \A j \in 1..(i - 1) : s[j] = t[j]
    BY <1>1, <1>2
  <2>2. Below(s, i) = Below(t, i)
    BY <2>1 DEF Below
  <2>. QED  BY <1>1, <1>2, <2>2
<1>. QED  BY <1>1, <1>3, Zenon DEF WellSpent

\* What is unspent after a well spent history was created in it and spent nowhere in
\* it: with inputs, no payment is confirmed twice.
LEMMA NeverSpent ==
  ASSUME NEW b \in Blocks, WellSpent(b), PaymentsSpend, NEW o \in Unspent(b)
  PROVE  o \in Coins \cup TxsOf(b) /\ \A u \in TxsOf(b) : o \notin Inputs[u]
<1> SUFFICES ASSUME NEW u \in TxsOf(b), o \in Inputs[u] PROVE FALSE
  BY DEF Unspent
<1>1. b \in Seq(Labels) /\ Len(b) \in Nat /\ \A i \in 1..Len(b) : b[i].txs \subseteq Txs
  <2>1. b \in Seq(Labels)
    BY BlockSeq
  <2>2. Len(b) \in Nat /\ \A i \in 1..Len(b) : b[i] \in Labels
    BY <2>1
  <2>3. \A l \in Labels : l.txs \subseteq Txs
    BY DEF Labels
  <2>. QED  BY <2>1, <2>2, <2>3, Zenon
<1>2. PICK i \in 0..Len(b) :
        CreatedAt(b, o, i) /\ \A j \in (i + 1)..Len(b) : \A t \in b[j].txs : o \notin Inputs[t]
  BY DEF Unspent
<1>3. PICK j \in 1..Len(b) : u \in b[j].txs
  BY <1>1 DEF TxsOf
<1>4. j <= i /\ i # 0 /\ i \in 1..Len(b)
  BY <1>1, <1>2, <1>3
<1>5. o \in b[i].txs /\ o \in Txs /\ o \notin Coins
  BY <1>1, <1>2, <1>4, Constants DEF CreatedAt
<1>6. o \in Below(b, j)
  BY <1>3, <1>5, Zenon DEF WellSpent
<1>7. o \in Below(b, i)
  <2>1. \A k \in 1..(j - 1) : k \in 1..(i - 1)
    BY <1>1, <1>4
  <2>. QED  BY <1>6, <2>1 DEF Below
<1>8. Inputs[o] \cap Inputs[o] = {}
  BY <1>4, <1>5, <1>7, Zenon DEF WellSpent
<1>. QED  BY <1>5, <1>8 DEF PaymentsSpend

\* A block that passes validate_transactions keeps its history well spent.
LEMMA ValidExtends ==
  ASSUME NEW b \in Blocks, b # <<>>, WellSpent(Front(b)), ValidBlock(b)
  PROVE  WellSpent(b)
<1> SUFFICES ASSUME PaymentsSpend PROVE WellSpent(b)
  BY DEF WellSpent
<1> DEFINE n == Len(b)
           p == Front(b)
<1>1. /\ p \in Seq(Labels) /\ n \in Nat \ {0} /\ Len(p) = n - 1
      /\ \A i \in 1..(n - 1) : p[i] = b[i]
  BY FrontOf, BlockSeq
<1>2. TxsOf(p) = Below(b, n)
  <2>1. DOMAIN p = 1..(n - 1)
    BY <1>1
  <2>. QED  BY <1>1, <2>1 DEF TxsOf, Below
<1>3. \A i \in 1..(n - 1) : Below(b, i) = Below(p, i)
  <2> SUFFICES ASSUME NEW i \in 1..(n - 1) PROVE Below(b, i) = Below(p, i)
    OBVIOUS
  <2>1. \A j \in 1..(i - 1) : p[j] = b[j]
    BY <1>1
  <2>. QED  BY <2>1 DEF Below
<1>4. \A t \in b[n].txs : Inputs[t] \subseteq Unspent(p)
  BY DEF ValidBlock, Last
<1>5. \A t \in b[n].txs : /\ Inputs[t] \subseteq Coins \cup Below(b, n)
                          /\ \A u \in Below(b, n) : Inputs[t] \cap Inputs[u] = {}
  <2>1. p \in Blocks /\ WellSpent(p)
    BY <1>1, BlockSeq
  <2>2. \A o \in Unspent(p) : o \in Coins \cup TxsOf(p) /\ \A u \in TxsOf(p) : o \notin Inputs[u]
    BY <2>1, NeverSpent
  <2> HIDE DEF p
  <2>. QED  BY <1>2, <1>4, <2>2
<1>6. \A i \in 1..n : i = n \/ i \in 1..(n - 1)
  BY <1>1
<1> HIDE DEF p
<1>7. \A i \in 1..(n - 1) : \A t \in b[i].txs :
         /\ Inputs[t] \subseteq Coins \cup Below(b, i)
         /\ \A u \in Below(b, i) : Inputs[t] \cap Inputs[u] = {}
  BY <1>1, <1>3, Zenon DEF WellSpent, p
<1>. QED  BY <1>5, <1>6, <1>7, Zenon DEF WellSpent

----------------------------------------------------------------------------
(***************************************************************************)
(* The inductive invariant.                                                *)
(***************************************************************************)

\* The canonical chain and every registered fork are well spent.
ChainInv ==
  /\ tip \in Hist /\ WellSpent(tip)
  /\ \A f \in forks : f \in Hist /\ WellSpent(f)

WorkerInv ==
  /\ worker \in WorkerType
  /\ worker.for = "none" => worker.stage = "run"
  /\ worker.stage # "pool" => worker.attached = {}
  /\ worker.stage = "commit" => worker.blocks # <<>>

\* The loop waits for the admission and for the worker it started.
OrderInv ==
  /\ loop \in LoopType
  /\ adder.by = "loop" => loop.pc = "add"
  /\ worker.for = "loop" => loop.pc = "wait"

\* With a confirmed payment, everything it funded leaves the pool as well.
SpentTogether ==
  \A t \in TxsOf(tip) : Inputs[t] \cap worker.attached # {} => t \in worker.attached

PoolInv ==
  /\ pool \subseteq Txs
  /\ adder \in [by : {"none", "http", "loop"}, txs : SUBSET Txs]
  /\ adder.by = "none" => adder.txs = {}
  /\ PaymentsSpend => PoolIsUnconfirmed /\ SpentTogether

SyncInv == sync \in SyncType

NetInv == netEvents \in NetType /\ Len(netEvents.queue) <= NetCap

MinedInv == mined \in Seq(Hist) /\ Len(mined) <= MinedCap

MinerInv ==
  /\ miner \in MinerType /\ miner.rounds <= MaxRounds /\ miner.current <= miner.rounds
  /\ miner.pc = "building" => miner.rounds < MaxRounds /\ miner.current = NoRound
  /\ \A p \in pow : p \in TaskType

NewsInv == tipUnread \in 0..2 /\ StaleRoundNoticed

HealthInv ==
  /\ handler \in {"idle", "flags", "cancel", "done"}
  /\ failed \in BOOLEAN /\ cancel \in BOOLEAN /\ ready \in BOOLEAN
  /\ main \in {"running", "join miner", "exited"}

IInv == /\ ChainInv /\ WorkerInv /\ OrderInv /\ PoolInv /\ SyncInv /\ NetInv
        /\ MinedInv /\ MinerInv /\ NewsInv /\ HealthInv /\ ReadyOnlyWhileHealthy

----------------------------------------------------------------------------
(***************************************************************************)
(* The engine.                                                             *)
(***************************************************************************)

\* The parent of a block on a branch is on the branch.
LEMMA ParentOnBranch ==
  ASSUME NEW b \in Seq(Labels), NEW c \in Seq(Labels), IsPrefix(b, c)
  PROVE  IsPrefix(Front(b), c)
<1>1. CASE b = <<>>
  <2>1. Front(<<>>) = <<>>
    BY DEF Front
  <2>. QED  BY <1>1, <2>1
<1>2. CASE b # <<>>
  <2> DEFINE p == Front(b)
             m == Len(p)
  <2>1. p \in Seq(Labels) /\ m = Len(b) - 1 /\ m \in Nat /\ \A i \in 1..m : p[i] = b[i]
    BY <1>2, FrontOf
  <2>2. Len(b) <= Len(c) /\ \A i \in 1..Len(b) : b[i] = c[i]
    BY PrefixAgrees
  <2>3. m <= Len(c) /\ \A i \in 1..m : p[i] = c[i]
    BY <2>1, <2>2
  <2> HIDE DEF p
  <2>4. /\ SubSeq(p, 1, m) \in Seq(Labels) /\ SubSeq(c, 1, m) \in Seq(Labels)
        /\ Len(SubSeq(p, 1, m)) = m /\ Len(SubSeq(c, 1, m)) = m
        /\ \A i \in 1..m : SubSeq(p, 1, m)[i] = SubSeq(c, 1, m)[i]
    BY <2>1, <2>3
  <2>5. SubSeq(p, 1, m) = SubSeq(c, 1, m)
    BY <2>1, <2>4
  <2>. QED  BY <2>3, <2>5, Zenon DEF IsPrefix, p
<1>. QED  BY <1>1, <1>2

\* The four ways on_block leaves the chain.
LEMMA Outcomes ==
  ASSUME NEW b \in Hist, ChainInv
  PROVE  \/ \E k \in Kinds \ {"Applied", "CausedReorganization"} :
              on_block(b) = Verdict(k, tip, forks)
         \/ /\ b # <<>> /\ ValidBlock(b) /\ (IsPrefix(Front(b), tip) \/ Front(b) \in forks)
            /\ \/ Front(b) = tip /\ on_block(b) = Verdict("Applied", b, forks)
               \/ \E S \in SUBSET forks :
                    on_block(b) = Verdict("CausedReorganization", b, S)
               \/ on_block(b) = Verdict("Buffered", tip, (forks \ {Front(b)}) \cup {b})
<1> DEFINE p == Front(b)
           S == {f \in forks \ {p} : Ancestor(f, b) = Ancestor(f, tip)}
<1>1. CASE IsPrefix(b, tip)
  <2>1. on_block(b) = Verdict("AlreadyIncludedInChain", tip, forks)
    <3>1. IsPrefix(p, tip)
      BY <1>1, ParentOnBranch, BlockSeq DEF ChainInv, Hist
    <3>. QED  BY <1>1, <3>1 DEF on_block
  <2>. QED  BY <2>1 DEF Kinds
<1>2. CASE ~IsPrefix(b, tip) /\ (\E f \in forks : IsPrefix(b, f))
  <2>1. on_block(b) = Verdict("AlreadyKnownInForkTree", tip, forks)
    BY <1>2 DEF on_block
  <2>. QED  BY <2>1 DEF Kinds
<1>3. CASE /\ ~IsPrefix(b, tip) /\ ~IsPrefix(p, tip) /\ p \notin forks
           /\ \A f \in forks : ~IsPrefix(b, f)
  <2>1. on_block(b) = Verdict("Buffered", tip, forks)
    BY <1>3 DEF on_block
  <2>. QED  BY <2>1 DEF Kinds
<1>4. CASE /\ ~IsPrefix(b, tip) /\ (IsPrefix(p, tip) \/ p \in forks)
           /\ \A f \in forks : ~IsPrefix(b, f)
  <2>1. on_block(b) = IF ~ValidBlock(b) THEN Verdict("Rejected", tip, forks)
                      ELSE IF p = tip THEN Verdict("Applied", b, forks)
                      ELSE IF Len(b) > Len(tip) THEN Verdict("CausedReorganization", b, S)
                      ELSE Verdict("Buffered", tip, (forks \ {p}) \cup {b})
    BY <1>4 DEF on_block
  <2>2. b # <<>>
    <3>1. IsPrefix(<<>>, tip)
      BY BlockSeq DEF IsPrefix, ChainInv, Hist
    <3>. QED  BY <3>1, <1>4
  <2>3. S \in SUBSET forks
    OBVIOUS
  <2> HIDE DEF S, p
  <2>4. CASE ~ValidBlock(b)
    BY <2>1, <2>4, Zenon DEF Kinds
  <2>5. CASE ValidBlock(b)
    BY <2>1, <2>2, <2>3, <2>5, <1>4, Zenon DEF p
  <2>. QED  BY <2>4, <2>5
<1>. QED  BY <1>1, <1>2, <1>3, <1>4, Zenon

\* on_block keeps the chain and the forks well spent; only a verdict that moves
\* the tip does, and then to the block itself.
LEMMA EngineStep ==
  ASSUME NEW b \in Hist, ChainInv
  PROVE  /\ on_block(b).kind \in Kinds
         /\ on_block(b).tip \in Hist /\ WellSpent(on_block(b).tip)
         /\ \A f \in on_block(b).forks : f \in Hist /\ WellSpent(f)
         /\ Moves(on_block(b)) => on_block(b).tip = b
         /\ ~Moves(on_block(b)) => on_block(b).tip = tip
<1> DEFINE v == on_block(b)
<1>1. CASE \E k \in Kinds \ {"Applied", "CausedReorganization"} : v = Verdict(k, tip, forks)
  BY <1>1 DEF Verdict, Moves, ChainInv
<1>2. CASE /\ b # <<>> /\ ValidBlock(b) /\ (IsPrefix(Front(b), tip) \/ Front(b) \in forks)
           /\ \/ Front(b) = tip /\ v = Verdict("Applied", b, forks)
              \/ \E S \in SUBSET forks : v = Verdict("CausedReorganization", b, S)
              \/ v = Verdict("Buffered", tip, (forks \ {Front(b)}) \cup {b})
  <2>0. b \in Blocks /\ tip \in Blocks /\ Front(b) \in Blocks
    BY <1>2, FrontOf, BlockSeq DEF Hist, ChainInv
  <2>1. WellSpent(Front(b))
    <3>1. CASE Front(b) \in forks
      BY <3>1, Zenon DEF ChainInv
    <3>2. CASE IsPrefix(Front(b), tip)
      BY <3>2, <2>0, PrefixSpent, Zenon DEF ChainInv
    <3>. QED  BY <1>2, <3>1, <3>2
  <2>2. WellSpent(b)
    BY <1>2, <2>0, <2>1, ValidExtends
  <2>3. CASE v = Verdict("Applied", b, forks)
    BY <2>2, <2>3 DEF Verdict, Moves, ChainInv, Kinds
  <2>4. CASE \E S \in SUBSET forks : v = Verdict("CausedReorganization", b, S)
    BY <2>2, <2>4 DEF Verdict, Moves, ChainInv, Kinds
  <2>5. CASE v = Verdict("Buffered", tip, (forks \ {Front(b)}) \cup {b})
    BY <2>2, <2>5 DEF Verdict, Moves, ChainInv, Kinds
  <2>. QED  BY <1>2, <2>3, <2>4, <2>5, Zenon
<1> HIDE DEF v
<1>. QED  BY <1>1, <1>2, Outcomes, Zenon DEF v

----------------------------------------------------------------------------
(***************************************************************************)
(* The steps of the tasks.                                                 *)
(***************************************************************************)

\* What each part of the invariant depends on.
LEMMA Frame ==
  /\ ChainInv /\ UNCHANGED <<tip, forks>> => ChainInv'
  /\ WorkerInv /\ UNCHANGED worker => WorkerInv'
  /\ OrderInv /\ UNCHANGED <<loop, adder, worker>> => OrderInv'
  /\ PoolInv /\ UNCHANGED <<pool, adder, tip, worker>> => PoolInv'
  /\ SyncInv /\ UNCHANGED sync => SyncInv'
  /\ NetInv /\ UNCHANGED netEvents => NetInv'
  /\ MinedInv /\ UNCHANGED mined => MinedInv'
  /\ MinerInv /\ UNCHANGED <<miner, pow>> => MinerInv'
  /\ NewsInv /\ UNCHANGED <<tipUnread, miner, pow, tip, worker>> => NewsInv'
  /\ HealthInv /\ UNCHANGED <<handler, failed, cancel, ready, main>> => HealthInv'
  /\ /\ ReadyOnlyWhileHealthy
     /\ UNCHANGED <<failed, handler, ready, loop>>
     => ReadyOnlyWhileHealthy'
<1>1. ChainInv /\ UNCHANGED <<tip, forks>> => ChainInv'
  BY Zenon DEF ChainInv
<1>2. WorkerInv /\ UNCHANGED worker => WorkerInv'
  BY Zenon DEF WorkerInv
<1>3. OrderInv /\ UNCHANGED <<loop, adder, worker>> => OrderInv'
  BY Zenon DEF OrderInv
<1>4. PoolInv /\ UNCHANGED <<pool, adder, tip, worker>> => PoolInv'
  BY Zenon DEF PoolInv, PoolIsUnconfirmed, SpentTogether, TxsOf
<1>5. SyncInv /\ UNCHANGED sync => SyncInv'
  BY Zenon DEF SyncInv
<1>6. NetInv /\ UNCHANGED netEvents => NetInv'
  BY Zenon DEF NetInv
<1>7. MinedInv /\ UNCHANGED mined => MinedInv'
  BY Zenon DEF MinedInv
<1>8. MinerInv /\ UNCHANGED <<miner, pow>> => MinerInv'
  BY Zenon DEF MinerInv
<1>9. NewsInv /\ UNCHANGED <<tipUnread, miner, pow, tip, worker>> => NewsInv'
  BY Zenon DEF NewsInv, StaleRoundNoticed
<1>10. HealthInv /\ UNCHANGED <<handler, failed, cancel, ready, main>> => HealthInv'
  BY Zenon DEF HealthInv
<1>11. /\ ReadyOnlyWhileHealthy
       /\ UNCHANGED <<failed, handler, ready, loop>>
       => ReadyOnlyWhileHealthy'
  BY Zenon DEF ReadyOnlyWhileHealthy
<1>. QED  BY <1>1, <1>2, <1>3, <1>4, <1>5, <1>6, <1>7, <1>8, <1>9, <1>10, <1>11, Zenon

\* Genesis is a history.
LEMMA EmptyHist == <<>> \in Hist /\ MaxHeight \in Nat
<1>1. MaxHeight \in Nat
  BY Constants, Zenon
<1>2. <<>> \in Blocks /\ Len(<<>>) = 0
  BY DEF Blocks
<1>. QED  BY <1>1, <1>2 DEF Hist

\* Head and tail of a nonempty queue.
LEMMA HeadTail ==
  ASSUME NEW S, NEW q \in Seq(S), q # <<>>
  PROVE  Head(q) \in S /\ Tail(q) \in Seq(S) /\ Len(Tail(q)) = Len(q) - 1 /\ Len(q) \in Nat
OBVIOUS

\* The loop back at its select!.
LEMMA Selected == Selecting \in LoopType /\ Selecting.pc = "select"
BY EmptyHist DEF Selecting, LoopType

\* Receiving shortens the queue of network events.
LEMMA Received ==
  ASSUME NetInv, netEvents.queue # <<>>, Receive
  PROVE  NetInv'
<1>0. NetCap \in Nat
  BY Constants, Zenon
<1>1. netEvents.queue \in Seq(EventType)
  BY DEF NetInv, NetType
<1>2. /\ Tail(netEvents.queue) \in Seq(EventType)
      /\ Len(Tail(netEvents.queue)) = Len(netEvents.queue) - 1 /\ Len(netEvents.queue) \in Nat
  BY <1>1, HeadTail
<1>3. netEvents' \in NetType /\ netEvents'.queue = Tail(netEvents.queue)
  BY <1>2 DEF NetInv, NetType, Receive
<1>. QED  BY <1>0, <1>2, <1>3 DEF NetInv

\* The worker that Start hands the blocks bs of client c to.
Fresh(c, bs) == [Idle EXCEPT !.for = c, !.blocks = bs]

\* A client of the engine lock finds a fresh worker.
LEMMA Started ==
  ASSUME NEW c \in {"loop", "sync"}, NEW bs \in Seq(Hist),
         worker' = Fresh(c, bs)
  PROVE  WorkerInv' /\ worker'.for = c /\ worker'.stage = "run" /\ worker'.attached = {}
<1>1. worker' = [for |-> c, blocks |-> bs, stage |-> "run", attached |-> {}, verdicts |-> <<>>]
  BY DEF Idle, Fresh
<1>2. <<>> \in Seq(Kinds)
  OBVIOUS
<1>3. worker' \in WorkerType
  BY <1>1, <1>2 DEF WorkerType
<1>4. worker'.for = c /\ worker'.stage = "run" /\ worker'.attached = {} /\ c # "none"
  BY <1>1
<1>. QED  BY <1>3, <1>4, Zenon DEF WorkerInv

\* The verdicts reach the loop or the synchronisation.
LEMMA Delivered ==
  ASSUME loop \in LoopType, sync \in SyncType,
         NEW vs \in Seq(Kinds), NEW e \in BOOLEAN, Deliver(vs, e)
  PROVE  loop' \in LoopType /\ sync' \in SyncType
<1>1. \/ loop' = loop \/ loop' = Selecting
      \/ /\ vs # <<>>
         /\ loop' = [loop EXCEPT !.pc = "publish", !.block = <<>>, !.kind = Head(vs)]
  BY DEF Deliver
<1>2. sync' = sync \/ sync' = NoSync(sync.panicked) \/ sync' = [sync EXCEPT !.pc = "fetch"]
  BY DEF Deliver
<1>3. sync' \in SyncType
  BY <1>2, EmptyHist DEF SyncType, NoSync
<1>4. CASE /\ vs # <<>>
           /\ loop' = [loop EXCEPT !.pc = "publish", !.block = <<>>, !.kind = Head(vs)]
  <2>1. Head(vs) \in Kinds
    BY <1>4, HeadTail
  <2> DEFINE k == Head(vs)
  <2>2. k \in Kinds /\ loop' = [loop EXCEPT !.pc = "publish", !.block = <<>>, !.kind = k]
    BY <1>4, <2>1
  <2> HIDE DEF k
  <2>. QED  BY <1>3, <2>2, EmptyHist DEF LoopType
<1>. QED  BY <1>1, <1>3, <1>4, Selected

\* Aborting a round cancels its tasks and forgets it.
LEMMA Aborted ==
  ASSUME MinerInv, NEW pc \in {"select", "stopped"}, abort_current_attempt(pc)
  PROVE  /\ MinerInv'
         /\ miner'.current = NoRound
         /\ \A q \in pow' : \E p \in pow :
              /\ q.block = p.block /\ q.round = p.round
              /\ q.cancelled = (p.round = miner.current \/ p.cancelled)
<1>1. /\ miner' = [miner EXCEPT !.current = NoRound, !.pc = pc]
      /\ pow' = {IF p.round = miner.current THEN [p EXCEPT !.cancelled = TRUE] ELSE p :
                    p \in pow}
  BY DEF abort_current_attempt, CancelRound
<1>2. /\ miner' \in MinerType /\ miner'.rounds = miner.rounds /\ miner'.current = 0
      /\ miner'.pc = pc
  BY <1>1 DEF MinerInv, MinerType, NoRound
<1>3. \A q \in pow' : q \in TaskType /\ \E p \in pow :
        /\ q.block = p.block /\ q.round = p.round
        /\ q.cancelled = (p.round = miner.current \/ p.cancelled)
  <2> SUFFICES ASSUME NEW q \in pow' PROVE q \in TaskType /\ \E p \in pow :
        /\ q.block = p.block /\ q.round = p.round
        /\ q.cancelled = (p.round = miner.current \/ p.cancelled)
    OBVIOUS
  <2>1. PICK p \in pow :
          q = IF p.round = miner.current THEN [p EXCEPT !.cancelled = TRUE] ELSE p
    BY <1>1
  <2>2. p \in TaskType
    BY DEF MinerInv
  <2>3. CASE p.round = miner.current
    <3>1. q \in TaskType /\ q.block = p.block /\ q.round = p.round /\ q.cancelled = TRUE
      BY <2>1, <2>2, <2>3 DEF TaskType
    <3>. QED  BY <2>3, <3>1
  <2>4. CASE p.round # miner.current
    <3>1. q = p /\ p.cancelled \in BOOLEAN
      BY <2>1, <2>2, <2>4 DEF TaskType
    <3>. QED  BY <2>2, <2>4, <3>1
  <2>. QED  BY <2>3, <2>4
<1>4. MaxRounds \in Nat
  BY Constants, Zenon
<1>5. miner'.pc # "building" /\ miner'.rounds <= MaxRounds /\ miner'.current <= miner'.rounds
  BY <1>2, <1>4 DEF MinerInv, MinerType
<1>6. MinerInv'
  BY <1>2, <1>3, <1>5, Zenon DEF MinerInv
<1>. QED  BY <1>2, <1>3, <1>6, Zenon DEF NoRound

\* The first failure starts the handler, whose flags come later.
LEMMA StorageFails_Step ==
  ASSUME IInv, StorageFails
  PROVE  IInv'
<1>1. UNCHANGED <<tip, forks, pool, adder, worker, loop, lastAnnounced, sync,
                  netEvents, tipUnread, miner, pow, mined, cancel, ready, main>>
  BY Zenon DEF StorageFails, chain, mining, health, mark_failed
<1>2. HealthInv'
  BY <1>1 DEF IInv, StorageFails, HealthInv, mark_failed
<1>3. ReadyOnlyWhileHealthy'
  BY <1>1 DEF IInv, StorageFails, ReadyOnlyWhileHealthy, mark_failed
<1>. QED  BY <1>1, <1>2, <1>3, Frame, Zenon DEF IInv

\* The handler clears readiness before it counts as past its flags.
LEMMA HandlerFlags_Step ==
  ASSUME IInv, HandlerFlags
  PROVE  IInv'
<1>1. UNCHANGED <<tip, forks, pool, adder, worker, loop, lastAnnounced, sync,
                  netEvents, tipUnread, miner, pow, mined, failed, cancel, main>>
  BY Zenon DEF HandlerFlags, chain, mining, health
<1>2. HealthInv'
  BY <1>1 DEF IInv, HandlerFlags, HealthInv
<1>3. ReadyOnlyWhileHealthy'
  BY <1>1 DEF IInv, HandlerFlags, ReadyOnlyWhileHealthy
<1>. QED  BY <1>1, <1>2, <1>3, Frame, Zenon DEF IInv

\* Cancelling follows the clearing of the flags.
LEMMA HandlerCancel_Step ==
  ASSUME IInv, HandlerCancel
  PROVE  IInv'
<1>1. UNCHANGED <<tip, forks, pool, adder, worker, loop, lastAnnounced, sync,
                  netEvents, tipUnread, miner, pow, mined, failed, ready, main>>
  BY Zenon DEF HandlerCancel, chain, mining, health
<1>2. HealthInv'
  BY <1>1 DEF IInv, HandlerCancel, HealthInv
<1>3. ReadyOnlyWhileHealthy'
  <2>1. failed => ~ready \/ loop.pc = "check"
    BY DEF IInv, HandlerCancel, ReadyOnlyWhileHealthy, HealthInv
  <2>. QED  BY <1>1, <2>1, Zenon DEF ReadyOnlyWhileHealthy
<1>. QED  BY <1>1, <1>2, <1>3, Frame, Zenon DEF IInv

\* A signal only cancels.
LEMMA Signal_Step ==
  ASSUME IInv, Signal
  PROVE  IInv'
<1>1. UNCHANGED <<tip, forks, pool, adder, worker, loop, lastAnnounced, sync,
                  netEvents, tipUnread, miner, pow, mined, failed, handler, ready,
                  main>>
  BY Zenon DEF Signal, chain, mining, health
<1>2. HealthInv'
  BY <1>1 DEF IInv, Signal, HealthInv
<1>. QED  BY <1>1, <1>2, Frame, Zenon DEF IInv

\* main cancels what is left.
LEMMA MainAfterRun_Step ==
  ASSUME IInv, MainAfterRun
  PROVE  IInv'
<1>1. UNCHANGED <<tip, forks, pool, adder, worker, loop, lastAnnounced, sync,
                  netEvents, tipUnread, miner, pow, mined, failed, handler, ready>>
  BY Zenon DEF MainAfterRun, chain, mining, health
<1>2. HealthInv'
  BY <1>1 DEF IInv, MainAfterRun, HealthInv
<1>. QED  BY <1>1, <1>2, Frame, Zenon DEF IInv

\* The process ends.
LEMMA MainExits_Step ==
  ASSUME IInv, MainExits
  PROVE  IInv'
<1>1. UNCHANGED <<tip, forks, pool, adder, worker, loop, lastAnnounced, sync,
                  netEvents, tipUnread, miner, pow, mined, failed, handler, cancel,
                  ready>>
  BY Zenon DEF MainExits, chain, mining, health
<1>2. HealthInv'
  BY <1>1 DEF IInv, MainExits, HealthInv
<1>. QED  BY <1>1, <1>2, Frame, Zenon DEF IInv

\* What was looked up enters the pool; the loop leaves "add" for its own only.
LEMMA add_transaction_Step ==
  ASSUME IInv, add_transaction
  PROVE  IInv'
<1>1. UNCHANGED <<tip, forks, worker, lastAnnounced, sync, netEvents, tipUnread,
                  miner, pow, mined, failed, handler, cancel, ready, main>>
  BY Zenon DEF add_transaction, chain, mining, health, PoolUnlocked
<1>2. OrderInv'
  BY <1>1 DEF IInv, add_transaction, OrderInv, LoopType
<1>3. PoolInv'
  BY <1>1 DEF IInv, add_transaction, PoolInv, PoolIsUnconfirmed, SpentTogether
<1>4. ReadyOnlyWhileHealthy'
  BY <1>1 DEF IInv, add_transaction, ReadyOnlyWhileHealthy, OrderInv
<1>. QED  BY <1>1, <1>2, <1>3, <1>4, Frame, Zenon DEF IInv

\* The next block of the batch is taken up.
LEMMA BeginBlock_Step ==
  ASSUME IInv, BeginBlock
  PROVE  IInv'
<1>1. UNCHANGED <<tip, forks, pool, adder, loop, lastAnnounced, sync, netEvents,
                  tipUnread, miner, pow, mined, failed, handler, cancel, ready,
                  main>>
  BY Zenon DEF BeginBlock, chain, mining, health
<1>2. WorkerInv'
  BY <1>1 DEF IInv, BeginBlock, WorkerInv, WorkerType
<1>3. OrderInv'
  BY <1>1 DEF IInv, BeginBlock, OrderInv
<1>4. PoolInv'
  BY <1>1 DEF IInv, BeginBlock, PoolInv, PoolIsUnconfirmed, SpentTogether
<1>5. NewsInv'
  BY <1>1 DEF IInv, BeginBlock, NewsInv, StaleRoundNoticed
<1>. QED  BY <1>1, <1>2, <1>3, <1>4, <1>5, Frame, Zenon DEF IInv

\* The pool loses exactly the payments it was allowed to share with the chain.
LEMMA update_pool_Step ==
  ASSUME IInv, update_pool
  PROVE  IInv'
<1>1. UNCHANGED <<tip, forks, adder, loop, lastAnnounced, sync, netEvents,
                  tipUnread, miner, pow, mined, failed, handler, cancel, ready,
                  main>>
  BY Zenon DEF update_pool, chain, mining, health, PoolUnlocked
<1>2. WorkerInv'
  BY <1>1 DEF IInv, update_pool, WorkerInv, WorkerType
<1>3. OrderInv'
  BY <1>1 DEF IInv, update_pool, OrderInv
<1>4. PoolInv'
  BY <1>1 DEF IInv, update_pool, PoolInv, PoolIsUnconfirmed, SpentTogether, PoolUnlocked
<1>5. NewsInv'
  BY <1>1 DEF IInv, update_pool, NewsInv, StaleRoundNoticed
<1>. QED  BY <1>1, <1>2, <1>3, <1>4, <1>5, Frame, Zenon DEF IInv

\* From the worker being about to tell to the update being unread.
LEMMA send_tip_update_Step ==
  ASSUME IInv, send_tip_update
  PROVE  IInv'
<1>1. UNCHANGED <<tip, forks, pool, adder, loop, lastAnnounced, sync, netEvents,
                  miner, pow, mined, failed, handler, cancel, ready, main>>
  BY Zenon DEF send_tip_update, chain, mining, health
<1>2. WorkerInv'
  BY <1>1 DEF IInv, send_tip_update, WorkerInv, WorkerType
<1>3. OrderInv'
  BY <1>1 DEF IInv, send_tip_update, OrderInv
<1>4. PoolInv'
  BY <1>1 DEF IInv, send_tip_update, PoolInv, PoolIsUnconfirmed, SpentTogether
<1>5. NewsInv'
  BY <1>1 DEF IInv, send_tip_update, NewsInv, StaleRoundNoticed
<1>. QED  BY <1>1, <1>2, <1>3, <1>4, <1>5, Frame, Zenon DEF IInv

\* The verdicts go to the client that waits for them.
LEMMA WorkerEnds_Step ==
  ASSUME IInv, WorkerEnds
  PROVE  IInv'
<1>1. UNCHANGED <<tip, forks, pool, adder, lastAnnounced, netEvents, tipUnread,
                  miner, pow, mined, failed, handler, cancel, ready, main>>
  BY Zenon DEF WorkerEnds, chain, mining, health, Deliver, Idle, NoSync, Selecting
<1>2. WorkerInv'
  BY <1>1 DEF IInv, WorkerEnds, WorkerInv, WorkerType, Idle
<1>3. OrderInv'
  <2>0. worker.verdicts \in Seq(Kinds)
    BY DEF IInv, WorkerInv, WorkerType
  <2>1. Deliver(worker.verdicts, FALSE) /\ worker' = Idle /\ worker.for # "none"
    BY DEF WorkerEnds
  <2>2. worker'.for = "none" /\ (worker.for = "loop" => loop'.pc # "add" /\ adder.by # "loop")
    BY <2>1, Selected DEF Deliver, IInv, OrderInv, LoopType, Idle
  <2>3. loop' \in LoopType
    BY <2>1, <2>0, Delivered DEF IInv, OrderInv, SyncInv
  <2>4. worker.for # "loop" => loop' = loop
    BY <2>1 DEF Deliver
  <2>. QED  BY <1>1, <2>2, <2>3, <2>4 DEF IInv, OrderInv
<1>4. PoolInv'
  BY <1>1
     DEF IInv, WorkerEnds, PoolInv, PoolIsUnconfirmed, SpentTogether, WorkerInv, Idle
<1>5. SyncInv'
  <2>0. worker.verdicts \in Seq(Kinds)
    BY DEF IInv, WorkerInv, WorkerType
  <2>1. Deliver(worker.verdicts, FALSE)
    BY DEF WorkerEnds
  <2>. QED  BY <2>1, <2>0, Delivered DEF IInv, OrderInv, SyncInv
<1>6. NewsInv'
  BY <1>1 DEF IInv, WorkerEnds, NewsInv, StaleRoundNoticed
<1>7. ReadyOnlyWhileHealthy'
  BY <1>1 DEF IInv, WorkerEnds, ReadyOnlyWhileHealthy, OrderInv, Deliver
<1>. QED  BY <1>1, <1>2, <1>3, <1>4, <1>5, <1>6, <1>7, Frame, Zenon DEF IInv

\* An error ends the batch; a fatal one marks the storage failed.
LEMMA WorkerFails_Step ==
  ASSUME IInv, WorkerFails
  PROVE  IInv'
<1>1. UNCHANGED <<tip, forks, pool, adder, lastAnnounced, netEvents, tipUnread,
                  miner, pow, mined, cancel, ready, main>>
  BY Zenon
     DEF WorkerFails, chain, mining, health, Deliver, Idle, NoSync, Selecting,
         mark_failed
<1>2. WorkerInv'
  BY <1>1 DEF IInv, WorkerFails, WorkerInv, WorkerType, Idle
<1>3. OrderInv'
  <2>0. <<>> \in Seq(Kinds)
    BY DEF IInv, WorkerInv, WorkerType
  <2>1. Deliver(<<>>, TRUE) /\ worker' = Idle /\ worker.for # "none"
    BY DEF WorkerFails
  <2>2. worker'.for = "none" /\ (worker.for = "loop" => loop'.pc # "add" /\ adder.by # "loop")
    BY <2>1, Selected DEF Deliver, IInv, OrderInv, LoopType, Idle
  <2>3. loop' \in LoopType
    BY <2>1, <2>0, Delivered DEF IInv, OrderInv, SyncInv
  <2>4. worker.for # "loop" => loop' = loop
    BY <2>1 DEF Deliver
  <2>. QED  BY <1>1, <2>2, <2>3, <2>4 DEF IInv, OrderInv
<1>4. PoolInv'
  BY <1>1
     DEF IInv, WorkerFails, PoolInv, PoolIsUnconfirmed, SpentTogether, WorkerInv, Idle
<1>5. SyncInv'
  <2>0. <<>> \in Seq(Kinds)
    BY DEF IInv, WorkerInv, WorkerType
  <2>1. Deliver(<<>>, TRUE)
    BY DEF WorkerFails
  <2>. QED  BY <2>1, <2>0, Delivered DEF IInv, OrderInv, SyncInv
<1>6. NewsInv'
  BY <1>1 DEF IInv, WorkerFails, NewsInv, StaleRoundNoticed
<1>7. HealthInv'
  BY <1>1 DEF IInv, WorkerFails, HealthInv, mark_failed
<1>8. ReadyOnlyWhileHealthy'
  <2>1. (handler' = handler /\ (failed \/ failed' = failed)) \/ handler' = "flags"
    BY DEF WorkerFails, mark_failed
  <2>2. loop.pc = "check" => loop' = loop
    BY DEF IInv, OrderInv, WorkerFails, Deliver
  <2>. QED  BY <1>1, <2>1, <2>2, Zenon DEF IInv, ReadyOnlyWhileHealthy
<1>. QED  BY <1>1, <1>2, <1>3, <1>4, <1>5, <1>6, <1>7, <1>8, Frame, Zenon DEF IInv

\* Readiness is raised only into the check that follows it.
LEMMA StoreReady_Step ==
  ASSUME IInv, StoreReady
  PROVE  IInv'
<1>1. UNCHANGED <<tip, forks, pool, adder, worker, lastAnnounced, sync, netEvents,
                  tipUnread, miner, pow, mined, failed, handler, cancel, main>>
  BY Zenon DEF StoreReady, chain, mining, health
<1>2. OrderInv'
  BY <1>1 DEF IInv, StoreReady, OrderInv, LoopType
<1>3. HealthInv'
  BY <1>1 DEF IInv, StoreReady, HealthInv
<1>4. ReadyOnlyWhileHealthy'
  BY <1>1 DEF IInv, StoreReady, ReadyOnlyWhileHealthy, OrderInv, LoopType
<1>. QED  BY <1>1, <1>2, <1>3, <1>4, Frame, Zenon DEF IInv

\* The check takes the flags back when the handler ran in between.
LEMMA CheckStopped_Step ==
  ASSUME IInv, CheckStopped
  PROVE  IInv'
<1>1. UNCHANGED <<tip, forks, pool, adder, worker, lastAnnounced, sync, netEvents,
                  tipUnread, miner, pow, mined, failed, handler, cancel, main>>
  BY Zenon DEF CheckStopped, chain, mining, health
<1>2. OrderInv'
  BY <1>1 DEF IInv, CheckStopped, OrderInv, LoopType
<1>3. HealthInv'
  BY <1>1 DEF IInv, CheckStopped, HealthInv
<1>4. ReadyOnlyWhileHealthy'
  <2>1. failed => ready' = FALSE
    BY DEF CheckStopped
  <2>. QED  BY <1>1, <2>1, Zenon DEF ReadyOnlyWhileHealthy
<1>. QED  BY <1>1, <1>2, <1>3, <1>4, Frame, Zenon DEF IInv

\* Registration leaves readiness alone.
LEMMA Register_Step ==
  ASSUME IInv, Register
  PROVE  IInv'
<1>1. UNCHANGED <<tip, forks, pool, adder, worker, sync, netEvents, tipUnread,
                  miner, pow, mined, failed, handler, cancel, ready, main>>
  BY Zenon DEF Register, chain, mining, health
<1>2. OrderInv'
  BY <1>1 DEF IInv, Register, OrderInv, LoopType
<1>3. ReadyOnlyWhileHealthy'
  BY <1>1 DEF IInv, Register, ReadyOnlyWhileHealthy
<1>. QED  BY <1>1, <1>2, <1>3, Frame, Zenon DEF IInv

\* An announcement touches nothing the invariant reads.
LEMMA Heartbeat_Step ==
  ASSUME IInv, Heartbeat
  PROVE  IInv'
<1>1. UNCHANGED <<tip, forks, pool, adder, worker, loop, sync, netEvents,
                  tipUnread, miner, pow, mined, failed, handler, cancel, ready,
                  main>>
  BY Zenon DEF Heartbeat, chain, mining, health
<1>. QED  BY <1>1, Frame, Zenon DEF IInv

\* A mined block moves from its channel to the loop.
LEMMA recv_mined_block_Step ==
  ASSUME IInv, recv_mined_block
  PROVE  IInv'
<1>1. UNCHANGED <<tip, forks, pool, adder, worker, lastAnnounced, sync, netEvents,
                  tipUnread, miner, pow, failed, handler, cancel, ready, main>>
  BY Zenon DEF recv_mined_block, chain, mining, health
<1>2. OrderInv'
  <2>1. Head(mined) \in Hist
    BY HeadTail DEF IInv, MinedInv, recv_mined_block
  <2>2. loop' \in LoopType /\ loop'.pc = "apply" /\ loop.pc = "select"
    BY <2>1 DEF IInv, OrderInv, LoopType, recv_mined_block
  <2>. QED  BY <1>1, <2>2 DEF IInv, OrderInv
<1>3. MinedInv'
  BY HeadTail, Constants DEF IInv, MinedInv, recv_mined_block
<1>4. ReadyOnlyWhileHealthy'
  BY <1>1 DEF IInv, recv_mined_block, ReadyOnlyWhileHealthy
<1>. QED  BY <1>1, <1>2, <1>3, <1>4, Frame, Zenon DEF IInv

\* A gossiped block moves from its queue to the loop.
LEMMA RecvNewBlock_Step ==
  ASSUME IInv, RecvNewBlock
  PROVE  IInv'
<1>1. UNCHANGED <<tip, forks, pool, adder, worker, lastAnnounced, sync, tipUnread,
                  miner, pow, mined, failed, handler, cancel, ready, main>>
  BY Zenon DEF RecvNewBlock, chain, mining, health, Pending, Receive
<1>2. OrderInv'
  <2>1. Head(netEvents.queue) \in EventType
    BY HeadTail DEF IInv, NetInv, NetType, RecvNewBlock, Pending
  <2>2. Head(netEvents.queue).block \in Hist
    BY <2>1 DEF EventType
  <2>3. loop' \in LoopType /\ loop'.pc = "apply" /\ loop.pc = "select"
    BY <2>2 DEF IInv, OrderInv, LoopType, RecvNewBlock, Pending
  <2>. QED  BY <1>1, <2>3 DEF IInv, OrderInv
<1>3. NetInv'
  BY Received DEF IInv, RecvNewBlock, Pending
<1>4. ReadyOnlyWhileHealthy'
  BY <1>1 DEF IInv, RecvNewBlock, ReadyOnlyWhileHealthy, Pending
<1>. QED  BY <1>1, <1>2, <1>3, <1>4, Frame, Zenon DEF IInv

\* An announced chain becomes the target of a synchronisation.
LEMMA RecvChainTip_Step ==
  ASSUME IInv, RecvChainTip
  PROVE  IInv'
<1>1. UNCHANGED <<tip, forks, pool, adder, worker, loop, lastAnnounced, tipUnread,
                  miner, pow, mined, failed, handler, cancel, ready, main>>
  BY Zenon DEF RecvChainTip, chain, mining, health, Pending, Receive
<1>2. SyncInv'
  <2>1. Head(netEvents.queue) \in EventType
    BY HeadTail DEF IInv, NetInv, NetType, RecvChainTip, Pending
  <2>2. Head(netEvents.queue).block \in Hist
    BY <2>1 DEF EventType
  <2> DEFINE r == Head(netEvents.queue).block
  <2>3. sync' = sync \/ sync' = [sync EXCEPT !.pc = "prepare", !.target = r]
    BY DEF RecvChainTip
  <2> HIDE DEF r
  <2>. QED  BY <2>2, <2>3 DEF r, IInv, SyncInv, SyncType
<1>3. NetInv'
  BY Received DEF IInv, RecvChainTip, Pending
<1>. QED  BY <1>1, <1>2, <1>3, Frame, Zenon DEF IInv

\* Lost events are only noted.
LEMMA RecvLagged_Step ==
  ASSUME IInv, RecvLagged
  PROVE  IInv'
<1>1. UNCHANGED <<tip, forks, pool, adder, worker, loop, lastAnnounced, sync,
                  tipUnread, miner, pow, mined, failed, handler, cancel, ready,
                  main>>
  BY Zenon DEF RecvLagged, chain, mining, health
<1>2. NetInv'
  BY <1>1 DEF IInv, RecvLagged, NetInv, NetType
<1>. QED  BY <1>1, <1>2, Frame, Zenon DEF IInv

\* The loop takes the engine lock and waits, or gives the block up.
LEMMA ApplyBlock_Step ==
  ASSUME IInv, ApplyBlock
  PROVE  IInv'
<1>1. UNCHANGED <<tip, forks, pool, adder, lastAnnounced, sync, netEvents,
                  tipUnread, miner, pow, mined, failed, handler, cancel, ready,
                  main>>
  BY Zenon DEF ApplyBlock, chain, mining, health, Start, EngineFree, Idle, Selecting
<1>2. WorkerInv'
  <2>1. CASE worker' = worker
    BY <2>1, Frame, Zenon DEF IInv
  <2>2. CASE worker.for = "none" /\ worker' = Fresh("loop", <<loop.block>>)
    <3>1. <<loop.block>> \in Seq(Hist)
      BY DEF IInv, OrderInv, LoopType
    <3> HIDE DEF Hist
    <3>. QED  BY <2>2, <3>1, Started
  <2>. QED  BY <2>1, <2>2 DEF ApplyBlock, Start, EngineFree, Fresh
<1>3. OrderInv'
  <2>1. CASE worker' = worker /\ loop' = Selecting
    BY <1>1, <2>1, Selected DEF IInv, OrderInv, ApplyBlock
  <2>2. CASE worker' = Fresh("loop", <<loop.block>>) /\ loop' = [loop EXCEPT !.pc = "wait"]
    <3>1. loop' \in LoopType /\ loop'.pc = "wait" /\ loop.pc = "apply"
      BY <2>2 DEF IInv, OrderInv, LoopType, ApplyBlock
    <3>. QED  BY <1>1, <3>1 DEF IInv, OrderInv
  <2>. QED  BY <2>1, <2>2 DEF ApplyBlock, Start, Fresh
<1>4. PoolInv'
  BY <1>1
     DEF IInv, ApplyBlock, PoolInv, PoolIsUnconfirmed, SpentTogether, WorkerInv, Start,
         EngineFree, Idle
<1>5. NewsInv'
  BY <1>1 DEF IInv, ApplyBlock, NewsInv, StaleRoundNoticed, WorkerInv, Start, EngineFree
<1>6. ReadyOnlyWhileHealthy'
  BY <1>1 DEF IInv, ApplyBlock, ReadyOnlyWhileHealthy
<1>. QED  BY <1>1, <1>2, <1>3, <1>4, <1>5, <1>6, Frame, Zenon DEF IInv

\* The loop returns to its select!.
LEMMA PublishVerdict_Step ==
  ASSUME IInv, PublishVerdict
  PROVE  IInv'
<1>1. UNCHANGED <<tip, forks, pool, adder, worker, sync, netEvents, tipUnread,
                  miner, pow, mined, failed, handler, cancel, ready, main>>
  BY Zenon DEF PublishVerdict, chain, mining, health, Selecting
<1>2. OrderInv'
  BY <1>1, Selected DEF IInv, PublishVerdict, OrderInv
<1>3. ReadyOnlyWhileHealthy'
  BY <1>1 DEF IInv, PublishVerdict, ReadyOnlyWhileHealthy
<1>. QED  BY <1>1, <1>2, <1>3, Frame, Zenon DEF IInv

\* A panicked synchronisation fails the storage.
LEMMA JoinPanickedSync_Step ==
  ASSUME IInv, JoinPanickedSync
  PROVE  IInv'
<1>1. UNCHANGED <<tip, forks, pool, adder, worker, loop, lastAnnounced, netEvents,
                  tipUnread, miner, pow, mined, ready, main>>
  BY Zenon DEF JoinPanickedSync, chain, mining, health, mark_failed
<1>2. SyncInv'
  BY <1>1 DEF IInv, JoinPanickedSync, SyncInv, SyncType
<1>3. HealthInv'
  BY <1>1 DEF IInv, JoinPanickedSync, HealthInv, mark_failed
<1>4. ReadyOnlyWhileHealthy'
  <2>1. (handler' = handler /\ failed) \/ handler' = "flags"
    BY DEF JoinPanickedSync, mark_failed
  <2>. QED  BY <1>1, <2>1, Zenon DEF IInv, ReadyOnlyWhileHealthy
<1>. QED  BY <1>1, <1>2, <1>3, <1>4, Frame, Zenon DEF IInv

\* The cancelled loop clears readiness.
LEMMA LoopCancelled_Step ==
  ASSUME IInv, LoopCancelled
  PROVE  IInv'
<1>1. UNCHANGED <<tip, forks, pool, adder, worker, lastAnnounced, sync, netEvents,
                  tipUnread, miner, pow, mined, failed, handler, cancel, main>>
  BY Zenon DEF LoopCancelled, chain, mining, health
<1>2. OrderInv'
  BY <1>1 DEF IInv, LoopCancelled, OrderInv, LoopType
<1>3. HealthInv'
  BY <1>1 DEF IInv, LoopCancelled, HealthInv
<1>4. ReadyOnlyWhileHealthy'
  BY <1>1 DEF IInv, LoopCancelled, ReadyOnlyWhileHealthy
<1>. QED  BY <1>1, <1>2, <1>3, <1>4, Frame, Zenon DEF IInv

\* The drained loop ends.
LEMMA LoopEnds_Step ==
  ASSUME IInv, LoopEnds
  PROVE  IInv'
<1>1. UNCHANGED <<tip, forks, pool, adder, worker, lastAnnounced, sync, netEvents,
                  tipUnread, miner, pow, mined, failed, handler, cancel, ready,
                  main>>
  BY Zenon DEF LoopEnds, chain, mining, health
<1>2. OrderInv'
  BY <1>1 DEF IInv, LoopEnds, OrderInv, LoopType
<1>3. ReadyOnlyWhileHealthy'
  BY <1>1 DEF IInv, LoopEnds, ReadyOnlyWhileHealthy
<1>. QED  BY <1>1, <1>2, <1>3, Frame, Zenon DEF IInv

\* The permit is returned.
LEMMA SyncStops_Step ==
  ASSUME IInv, SyncStops
  PROVE  IInv'
<1>1. UNCHANGED <<tip, forks, pool, adder, worker, loop, lastAnnounced, netEvents,
                  tipUnread, miner, pow, mined, failed, handler, cancel, ready,
                  main>>
  BY Zenon DEF SyncStops, chain, mining, health, NoSync
<1>2. SyncInv'
  BY EmptyHist DEF IInv, SyncStops, SyncInv, SyncType, NoSync
<1>. QED  BY <1>1, <1>2, Frame, Zenon DEF IInv

\* The permit is returned by the panic as well.
LEMMA SyncPanics_Step ==
  ASSUME IInv, SyncPanics
  PROVE  IInv'
<1>1. UNCHANGED <<tip, forks, pool, adder, worker, loop, lastAnnounced, netEvents,
                  tipUnread, miner, pow, mined, failed, handler, cancel, ready,
                  main>>
  BY Zenon DEF SyncPanics, chain, mining, health, NoSync
<1>2. SyncInv'
  BY EmptyHist DEF IInv, SyncPanics, SyncInv, SyncType, NoSync
<1>. QED  BY <1>1, <1>2, Frame, Zenon DEF IInv

\* Fetching starts above the common ancestor.
LEMMA prepare_peer_sync_Step ==
  ASSUME IInv, prepare_peer_sync
  PROVE  IInv'
<1>1. UNCHANGED <<tip, forks, pool, adder, worker, loop, lastAnnounced, netEvents,
                  tipUnread, miner, pow, mined, failed, handler, cancel, ready,
                  main>>
  BY Zenon DEF prepare_peer_sync, chain, mining, health
<1>2. SyncInv'
  <2>1. Len(Ancestor(tip, sync.target)) \in Nat
    BY AncestorOnBoth, BlockSeq DEF IInv, ChainInv, SyncInv, SyncType, Hist
  <2> DEFINE n == Len(Ancestor(tip, sync.target)) + 1
  <2>2. n \in Nat /\ sync' = [sync EXCEPT !.pc = "fetch", !.next = n]
    BY <2>1 DEF prepare_peer_sync
  <2> HIDE DEF n
  <2>. QED  BY <2>2 DEF IInv, SyncInv, SyncType
<1>. QED  BY <1>1, <1>2, Frame, Zenon DEF IInv

\* A round is built only while none is running.
LEMMA Tick_Step ==
  ASSUME IInv, Tick
  PROVE  IInv'
<1>1. UNCHANGED <<tip, forks, pool, adder, worker, loop, lastAnnounced, sync,
                  netEvents, tipUnread, pow, mined, failed, handler, cancel, ready,
                  main>>
  BY Zenon DEF Tick, chain, mining, health, PoolUnlocked
<1>2. MinerInv'
  <2>1. pool \subseteq Txs
    BY DEF IInv, PoolInv
  <2>. QED  BY <1>1, <2>1 DEF IInv, Tick, MinerInv, MinerType, NoRound
<1>3. NewsInv'
  BY <1>1 DEF IInv, Tick, NewsInv, StaleRoundNoticed
<1>. QED  BY <1>1, <1>2, <1>3, Frame, Zenon DEF IInv

\* The update that is consumed cancels every running task.
LEMMA RecvTipUpdate_Step ==
  ASSUME IInv, RecvTipUpdate
  PROVE  IInv'
<1>1. UNCHANGED <<tip, forks, pool, adder, worker, loop, lastAnnounced, sync,
                  netEvents, mined, failed, handler, cancel, ready, main>>
  BY Zenon DEF RecvTipUpdate, chain, mining, health, abort_current_attempt, CancelRound
<1>2. MinerInv'
  BY <1>1, Aborted DEF IInv, RecvTipUpdate
<1>3. NewsInv'
  BY <1>1
     DEF IInv, RecvTipUpdate, NewsInv, StaleRoundNoticed, MinerInv, TaskType,
         abort_current_attempt, CancelRound
<1>. QED  BY <1>1, <1>2, <1>3, Frame, Zenon DEF IInv

\* After a lag the retained update is still unread.
LEMMA RecvTipLagged_Step ==
  ASSUME IInv, RecvTipLagged
  PROVE  IInv'
<1>1. UNCHANGED <<tip, forks, pool, adder, worker, loop, lastAnnounced, sync,
                  netEvents, miner, pow, mined, failed, handler, cancel, ready,
                  main>>
  BY Zenon DEF RecvTipLagged, chain, mining, health
<1>2. NewsInv'
  BY <1>1 DEF IInv, RecvTipLagged, NewsInv, StaleRoundNoticed
<1>. QED  BY <1>1, <1>2, Frame, Zenon DEF IInv

\* The stopping miner cancels its task.
LEMMA MinerCancelled_Step ==
  ASSUME IInv, MinerCancelled
  PROVE  IInv'
<1>1. UNCHANGED <<tip, forks, pool, adder, worker, loop, lastAnnounced, sync,
                  netEvents, tipUnread, mined, failed, handler, cancel, ready,
                  main>>
  BY Zenon DEF MinerCancelled, chain, mining, health, abort_current_attempt, CancelRound
<1>2. MinerInv'
  BY <1>1, Aborted DEF IInv, MinerCancelled
<1>3. NewsInv'
  BY <1>1
     DEF IInv, MinerCancelled, NewsInv, StaleRoundNoticed, MinerInv, TaskType,
         abort_current_attempt, CancelRound
<1>. QED  BY <1>1, <1>2, <1>3, Frame, Zenon DEF IInv

\* A found nonce keeps the round and the block of its task.
LEMMA FindNonce_Step ==
  ASSUME IInv, FindNonce
  PROVE  IInv'
<1>1. UNCHANGED <<tip, forks, pool, adder, worker, loop, lastAnnounced, sync,
                  netEvents, tipUnread, miner, mined, failed, handler, cancel,
                  ready, main>>
  BY Zenon DEF FindNonce, chain, mining, health
<1>2. MinerInv'
  BY <1>1 DEF IInv, FindNonce, MinerInv, TaskType
<1>3. NewsInv'
  BY <1>1 DEF IInv, FindNonce, NewsInv, StaleRoundNoticed, MinerInv, TaskType
<1>. QED  BY <1>1, <1>2, <1>3, Frame, Zenon DEF IInv

\* Only cancelled tasks stop hashing.
LEMMA StopHashing_Step ==
  ASSUME IInv, StopHashing
  PROVE  IInv'
<1>1. UNCHANGED <<tip, forks, pool, adder, worker, loop, lastAnnounced, sync,
                  netEvents, tipUnread, miner, mined, failed, handler, cancel,
                  ready, main>>
  BY Zenon DEF StopHashing, chain, mining, health
<1>2. MinerInv'
  BY <1>1 DEF IInv, StopHashing, MinerInv
<1>3. NewsInv'
  BY <1>1 DEF IInv, StopHashing, NewsInv, StaleRoundNoticed
<1>. QED  BY <1>1, <1>2, <1>3, Frame, Zenon DEF IInv

\* The channel of mined blocks keeps its capacity.
LEMMA SendMined_Step ==
  ASSUME IInv, SendMined
  PROVE  IInv'
<1>1. UNCHANGED <<tip, forks, pool, adder, worker, loop, lastAnnounced, sync,
                  netEvents, tipUnread, miner, failed, handler, cancel, ready,
                  main>>
  BY Zenon DEF SendMined, chain, mining, health
<1>2. MinedInv'
  <2>1. PICK p \in pow : \/ mined' = mined
                         \/ Len(mined) < MinedCap /\ mined' = Append(mined, p.block)
    BY DEF SendMined
  <2>2. p.block \in Hist
    BY DEF IInv, MinerInv, TaskType
  <2>3. CASE Len(mined) < MinedCap /\ mined' = Append(mined, p.block)
    <3>1. mined' \in Seq(Hist) /\ Len(mined') = Len(mined) + 1
      BY <2>2, <2>3 DEF IInv, MinedInv
    <3>. QED  BY <2>3, <3>1, Constants DEF IInv, MinedInv
  <2>. QED  BY <2>1, <2>3, Frame DEF IInv
<1>3. MinerInv'
  BY <1>1 DEF IInv, SendMined, MinerInv
<1>4. NewsInv'
  BY <1>1 DEF IInv, SendMined, NewsInv, StaleRoundNoticed
<1>. QED  BY <1>1, <1>2, <1>3, <1>4, Frame, Zenon DEF IInv

----------------------------------------------------------------------------
(***************************************************************************)
(* Admission and confirmation.                                             *)
(***************************************************************************)

\* A payment the lookup admits although the chain confirms it is one that the
\* worker is about to take out: its funds are payments still in the pool.
LEMMA AdmittedIsAttached ==
  ASSUME IInv, PaymentsSpend, NEW t \in Txs, Admissible(t), t \in TxsOf(tip)
  PROVE  t \in worker.attached
<1>1. tip \in Seq(Labels) /\ WellSpent(tip)
  BY BlockSeq DEF IInv, ChainInv, Hist
<1>2. PICK i \in 1..Len(tip) : t \in tip[i].txs
  BY <1>1 DEF TxsOf
<1>3. PICK x \in Inputs[t] : TRUE
  BY DEF PaymentsSpend
<1>4. x \in pool
  <2>1. x \notin Unspent(tip)
    BY <1>1, NeverSpent, BlockSeq
  <2>. QED  BY <2>1 DEF Admissible
<1>5. x \in Txs /\ x \notin Coins
  BY <1>4, Constants DEF IInv, PoolInv
<1>6. x \in Below(tip, i)
  BY <1>1, <1>2, <1>5, Zenon DEF WellSpent
<1>7. x \in TxsOf(tip)
  BY <1>1, <1>2, <1>6 DEF Below, TxsOf
<1>8. x \in worker.attached
  BY <1>4, <1>7, Zenon DEF IInv, PoolInv, PoolIsUnconfirmed
<1>. QED  BY <1>8, Zenon DEF IInv, PoolInv, SpentTogether

\* The lookup of one payment keeps the pool unconfirmed.
LEMMA LookUpKeepsPool ==
  ASSUME IInv, NEW t \in Txs, NEW by \in {"http", "loop"}, LookUp(by, t),
         UNCHANGED <<tip, pool, worker>>
  PROVE  PoolInv'
<1>1. /\ adder' = [by |-> by, txs |-> IF Admissible(t) THEN {t} ELSE {}]
      /\ adder.by = "none"
  BY DEF LookUp, PoolUnlocked
<1>2. adder' \in [by : {"none", "http", "loop"}, txs : SUBSET Txs] /\ adder'.by # "none"
  BY <1>1
<1>3. PaymentsSpend => adder'.txs \cap TxsOf(tip) \subseteq worker.attached
  BY <1>1, AdmittedIsAttached
<1>4. /\ PaymentsSpend => (pool \cup adder.txs) \cap TxsOf(tip) \subseteq worker.attached
      /\ pool \subseteq Txs
  BY DEF IInv, PoolInv, PoolIsUnconfirmed
<1>5. TxsOf(tip)' = TxsOf(tip)
  BY DEF TxsOf
<1>6. PaymentsSpend => PoolIsUnconfirmed'
  BY <1>3, <1>4, <1>5, Zenon DEF PoolIsUnconfirmed
<1>7. PaymentsSpend => SpentTogether'
  BY <1>5, Zenon DEF SpentTogether, IInv, PoolInv
<1>. QED  BY <1>2, <1>4, <1>6, <1>7, Zenon DEF PoolInv

\* POST /api/tx.
LEMMA send_tx_Step ==
  ASSUME IInv, NEW t \in Txs, send_tx(t)
  PROVE  IInv'
<1>1. /\ UNCHANGED <<tip, forks, pool, worker, loop, lastAnnounced, sync, netEvents,
                    tipUnread, miner, pow, mined, failed, handler, cancel, ready, main>>
      /\ LookUp("http", t)
  BY Zenon DEF send_tx, chain, mining, health
<1>2. PoolInv'
  BY <1>1, LookUpKeepsPool
<1>3. OrderInv'
  BY <1>1 DEF IInv, OrderInv, LookUp
<1>. QED  BY <1>1, <1>2, <1>3, Frame, Zenon DEF IInv

\* A gossiped payment; the loop waits for its admission.
LEMMA RecvNewTransaction_Step ==
  ASSUME IInv, RecvNewTransaction
  PROVE  IInv'
<1>1. UNCHANGED <<tip, forks, pool, worker, lastAnnounced, sync, tipUnread, miner,
                  pow, mined, failed, handler, cancel, ready, main>>
  BY Zenon DEF RecvNewTransaction, chain, mining, health
<1>2. PICK t \in Head(netEvents.queue).txs : LookUp("loop", t)
  BY DEF RecvNewTransaction
<1>3. Head(netEvents.queue) \in EventType
  BY HeadTail DEF IInv, NetInv, NetType, RecvNewTransaction, Pending
<1>4. t \in Txs
  BY <1>2, <1>3 DEF EventType
<1>5. PoolInv'
  BY <1>1, <1>2, <1>4, LookUpKeepsPool
<1>6. loop' \in LoopType /\ loop'.pc = "add" /\ loop.pc = "select"
  BY DEF IInv, OrderInv, LoopType, RecvNewTransaction, Pending
<1>7. OrderInv'
  BY <1>1, <1>6 DEF IInv, OrderInv
<1>8. NetInv'
  BY Received DEF IInv, RecvNewTransaction, Pending
<1>9. ReadyOnlyWhileHealthy'
  BY <1>1, <1>6 DEF IInv, ReadyOnlyWhileHealthy
<1>. QED  BY <1>1, <1>5, <1>7, <1>8, <1>9, Frame, Zenon DEF IInv

\* What the blocks of b beyond its common ancestor with c confirm.
Attached(b, c) == UNION {b[i].txs : i \in Len(Ancestor(b, c)) + 1 .. Len(b)}

\* The attached payments are what the new chain confirms beyond the old one,
\* and they are closed under spending.
LEMMA AttachedBeyond ==
  ASSUME NEW b \in Hist, WellSpent(b), NEW c \in Hist
  PROVE  /\ Attached(b, c) \subseteq Txs
         /\ TxsOf(b) \subseteq TxsOf(c) \cup Attached(b, c)
         /\ PaymentsSpend =>
              \A t \in TxsOf(b) : Inputs[t] \cap Attached(b, c) # {} => t \in Attached(b, c)
<1> DEFINE a == Ancestor(b, c)
<1>1. b \in Seq(Labels) /\ c \in Seq(Labels)
  BY BlockSeq DEF Hist
<1>2. a \in Seq(Labels) /\ IsPrefix(a, b) /\ IsPrefix(a, c)
  BY <1>1, AncestorOnBoth
<1>3. /\ Len(a) <= Len(b) /\ \A i \in 1..Len(a) : a[i] = b[i]
      /\ Len(a) <= Len(c) /\ \A i \in 1..Len(a) : a[i] = c[i]
  BY <1>1, <1>2, PrefixAgrees
<1>4. Len(a) \in Nat /\ Len(b) \in Nat /\ Len(c) \in Nat
  BY <1>1, <1>2
<1> HIDE DEF a
<1>5. \A i \in 1..Len(b) : b[i].txs \subseteq Txs
  <2>1. \A i \in 1..Len(b) : b[i] \in Labels
    BY <1>1
  <2>2. \A l \in Labels : l.txs \subseteq Txs
    BY DEF Labels
  <2>. QED  BY <2>1, <2>2, Zenon
<1>6. \A i \in 1..Len(b) : i \in 1..Len(a) \/ i \in Len(a) + 1 .. Len(b)
  BY <1>3, <1>4
<1>7. Attached(b, c) \subseteq Txs
  <2>1. Attached(b, c) = UNION {b[i].txs : i \in Len(a) + 1 .. Len(b)}
    BY Zenon DEF Attached, a
  <2>2. \A i \in Len(a) + 1 .. Len(b) : i \in 1..Len(b)
    BY <1>4
  <2>. QED  BY <1>5, <2>1, <2>2
<1>8. \A t : t \in Attached(b, c) <=> \E i \in Len(a) + 1 .. Len(b) : t \in b[i].txs
  BY DEF Attached, a
<1>9. \A t : t \in TxsOf(b) <=> \E i \in 1..Len(b) : t \in b[i].txs
  BY <1>1 DEF TxsOf
<1>10. TxsOf(b) \subseteq TxsOf(c) \cup Attached(b, c)
  <2> SUFFICES ASSUME NEW t \in TxsOf(b), t \notin Attached(b, c) PROVE t \in TxsOf(c)
    OBVIOUS
  <2>1. PICK i \in 1..Len(a) : t \in b[i].txs
    BY <1>6, <1>8, <1>9
  <2>2. i \in 1..Len(c) /\ b[i] = c[i]
    BY <1>3, <1>4
  <2>. QED  BY <1>1, <2>1, <2>2 DEF TxsOf
<1>11. ASSUME PaymentsSpend, NEW t \in TxsOf(b), NEW x \in Inputs[t] \cap Attached(b, c),
              t \notin Attached(b, c)
       PROVE  FALSE
  <2>1. PICK i \in 1..Len(a) : t \in b[i].txs
    BY <1>6, <1>8, <1>9, <1>11
  <2>2. PICK j \in Len(a) + 1 .. Len(b) : x \in b[j].txs
    BY <1>8
  <2>3. i \in 1..Len(b) /\ j \in 1..Len(b)
    BY <1>3, <1>4
  <2>4. x \in Txs /\ x \notin Coins /\ x \in Inputs[t]
    BY <1>7, Constants
  <2>5. x \in Below(b, i)
    BY <1>11, <2>1, <2>3, <2>4, Zenon DEF WellSpent
  <2>6. x \in Below(b, j)
    <3>1. \A k \in 1..(i - 1) : k \in 1..(j - 1)
      BY <1>4
    <3>. QED  BY <2>5, <3>1 DEF Below
  <2>7. Inputs[x] \cap Inputs[x] = {}
    BY <1>11, <2>2, <2>3, <2>6, Zenon DEF WellSpent
  <2>. QED  BY <1>11, <2>4, <2>7 DEF PaymentsSpend
<1>. QED  BY <1>7, <1>10, <1>11

\* One block: the commit, before the pool and the subscribers hear of it.
LEMMA apply_block_batch_Step ==
  ASSUME IInv, apply_block_batch
  PROVE  IInv'
<1> DEFINE b == Head(worker.blocks)
           v == on_block(b)
           att == IF Moves(v) THEN Attached(b, tip) ELSE {}
           st == IF Moves(v) THEN "pool" ELSE "run"
           bs == IF v.kind = "Rejected" THEN <<>> ELSE Tail(worker.blocks)
           vs == Append(worker.verdicts, v.kind)
<1>1. UNCHANGED <<pool, adder, loop, lastAnnounced, sync, netEvents, tipUnread,
                  miner, pow, mined, failed, handler, cancel, ready, main>>
  BY Zenon DEF apply_block_batch, mining, health
<1>2. /\ tip' = v.tip /\ forks' = v.forks
      /\ worker' = [worker EXCEPT !.blocks = bs, !.verdicts = vs, !.stage = st, !.attached = att]
      /\ worker.for # "none" /\ worker.stage = "commit" /\ worker.blocks # <<>>
  BY DEF apply_block_batch, Attached, IInv, WorkerInv
<1>3. /\ b \in Hist /\ Tail(worker.blocks) \in Seq(Hist) /\ worker.attached = {}
      /\ worker \in WorkerType /\ worker.verdicts \in Seq(Kinds)
  <2>1. worker.blocks \in Seq(Hist)
    BY DEF IInv, WorkerInv, WorkerType
  <2>. QED  BY <1>2, <2>1, HeadTail DEF IInv, WorkerInv, WorkerType
<1>4. /\ v.kind \in Kinds /\ v.tip \in Hist /\ WellSpent(v.tip)
      /\ \A f \in v.forks : f \in Hist /\ WellSpent(f)
      /\ Moves(v) => v.tip = b
      /\ ~Moves(v) => v.tip = tip
  BY <1>3, EngineStep DEF IInv
<1>5. tip \in Hist
  BY DEF IInv, ChainInv
<1>6. ChainInv'
  BY <1>2, <1>4, Zenon DEF ChainInv
<1> HIDE DEF b, v
<1>7. /\ Moves(v) => WellSpent(b)
      /\ Moves(v) => Attached(b, tip) \subseteq Txs
      /\ Moves(v) => TxsOf(b) \subseteq TxsOf(tip) \cup Attached(b, tip)
      /\ Moves(v) /\ PaymentsSpend =>
           \A t \in TxsOf(b) : Inputs[t] \cap Attached(b, tip) # {} => t \in Attached(b, tip)
  BY <1>3, <1>4, <1>5, AttachedBeyond
<1>8. /\ bs \in Seq(Hist) /\ vs \in Seq(Kinds) /\ st \in {"run", "pool"} /\ att \subseteq Txs
      /\ st # "pool" => att = {}
  BY <1>3, <1>4, <1>7
<1>9. /\ Moves(v) => att = Attached(b, tip) /\ st = "pool"
      /\ ~Moves(v) => att = {} /\ st = "run"
  BY Zenon
<1> HIDE DEF bs, vs, st, att
<1>10. /\ worker' \in WorkerType /\ worker'.for = worker.for
       /\ worker'.stage = st /\ worker'.attached = att
  <2> HIDE DEF Hist, Kinds
  <2>. QED  BY <1>2, <1>3, <1>8 DEF WorkerType
<1>11. WorkerInv'
  BY <1>2, <1>8, <1>10 DEF WorkerInv
<1>12. OrderInv'
  BY <1>1, <1>10 DEF IInv, OrderInv
<1>13. PaymentsSpend => (pool \cup adder.txs) \cap TxsOf(tip) = {}
  BY <1>3 DEF IInv, PoolInv, PoolIsUnconfirmed
<1>14. PaymentsSpend => PoolIsUnconfirmed' /\ SpentTogether'
  <2> SUFFICES ASSUME PaymentsSpend PROVE PoolIsUnconfirmed' /\ SpentTogether'
    OBVIOUS
  <2>1. CASE Moves(v)
    <3>1. tip' = b /\ TxsOf(tip)' = TxsOf(b)
      BY <1>2, <1>4, <2>1, Zenon DEF TxsOf
    <3>. QED  BY <1>1, <1>7, <1>9, <1>10, <1>13, <2>1, <3>1, Zenon
              DEF PoolIsUnconfirmed, SpentTogether
  <2>2. CASE ~Moves(v)
    <3>1. tip' = tip /\ TxsOf(tip)' = TxsOf(tip)
      BY <1>2, <1>4, <2>2, Zenon DEF TxsOf
    <3>. QED  BY <1>1, <1>9, <1>10, <1>13, <2>2, <3>1, Zenon
              DEF PoolIsUnconfirmed, SpentTogether
  <2>. QED  BY <2>1, <2>2
<1>15. PoolInv'
  BY <1>1, <1>14, Zenon DEF IInv, PoolInv
<1>16. NewsInv'
  <2>1. (tip' = tip /\ st = "run") \/ st = "pool"
    BY <1>2, <1>4, <1>9, Zenon
  <2>. QED  BY <1>1, <1>2, <1>10, <2>1, Zenon DEF IInv, NewsInv, StaleRoundNoticed
<1>. QED  BY <1>1, <1>6, <1>11, <1>12, <1>15, <1>16, Frame, Zenon DEF IInv

\* A worker started by a client of the engine lock confirms nothing yet.
LEMMA StartKeeps ==
  ASSUME IInv, worker.for = "none", worker'.stage = "run", worker'.attached = {},
         UNCHANGED <<pool, adder, tip, tipUnread, miner, pow>>
  PROVE  PoolInv' /\ NewsInv'
<1>1. worker.stage = "run" /\ worker.attached = {}
  BY DEF IInv, WorkerInv
<1>2. PoolInv'
  <2>1. TxsOf(tip)' = TxsOf(tip) /\ worker'.attached = worker.attached
    BY <1>1, Zenon DEF TxsOf
  <2>. QED  BY <2>1, Zenon DEF IInv, PoolInv, PoolIsUnconfirmed, SpentTogether
<1>3. NewsInv'
  BY <1>1, Zenon DEF IInv, NewsInv, StaleRoundNoticed
<1>. QED  BY <1>2, <1>3

\* A batch of the target goes to the engine.
LEMMA SyncBatch_Step ==
  ASSUME IInv, SyncBatch
  PROVE  IInv'
<1>1. UNCHANGED <<tip, forks, pool, adder, loop, lastAnnounced, netEvents,
                  tipUnread, miner, pow, mined, failed, handler, cancel, ready,
                  main>>
  BY Zenon DEF SyncBatch, chain, mining, health
<1>2. PICK n \in 1..2 :
        LET to == IF sync.next + n - 1 > Len(sync.target) THEN Len(sync.target)
                                                          ELSE sync.next + n - 1
        IN  /\ Start("sync", [i \in 1 .. to - sync.next + 1 |->
                                SubSeq(sync.target, 1, sync.next + i - 1)])
            /\ sync' = [sync EXCEPT !.pc = "wait", !.next = to + 1]
  BY DEF SyncBatch
<1> DEFINE to == IF sync.next + n - 1 > Len(sync.target) THEN Len(sync.target)
                                                         ELSE sync.next + n - 1
           m == to - sync.next + 1
           bs == [i \in 1..m |-> SubSeq(sync.target, 1, sync.next + i - 1)]
<1>3. /\ worker.for = "none" /\ worker' = Fresh("sync", bs)
      /\ sync' = [sync EXCEPT !.pc = "wait", !.next = to + 1]
  BY <1>2 DEF Start, EngineFree, Fresh
<1>4. /\ sync \in SyncType /\ sync.next \in Nat /\ sync.target \in Blocks
      /\ Len(sync.target) <= MaxHeight /\ Len(sync.target) \in Nat /\ MaxHeight \in Nat
      /\ sync.next <= Len(sync.target)
  BY BlockSeq, EmptyHist DEF IInv, SyncInv, SyncType, Hist, SyncBatch
<1>5. to \in Nat /\ m \in Nat /\ to <= Len(sync.target)
      /\ \A i \in 1..m : sync.next + i - 1 \in Nat /\ sync.next + i - 1 <= Len(sync.target)
  BY <1>4
<1> HIDE DEF to
<1>6. \A k \in Nat : k <= Len(sync.target) => SubSeq(sync.target, 1, k) \in Hist
  <2> SUFFICES ASSUME NEW k \in Nat, k <= Len(sync.target)
               PROVE  SubSeq(sync.target, 1, k) \in Hist
    OBVIOUS
  <2>1. SubSeq(sync.target, 1, k) \in Seq(Labels) /\ Len(SubSeq(sync.target, 1, k)) = k
    BY <1>4, BlockSeq
  <2>. QED  BY <1>4, <2>1, BlockSeq DEF Hist
<1>7. bs \in [1..m -> Hist] /\ bs \in Seq(Hist)
  <2>1. \A i \in 1..m : SubSeq(sync.target, 1, sync.next + i - 1) \in Hist
    BY <1>5, <1>6, Zenon
  <2> HIDE DEF m
  <2>2. bs \in [1..m -> Hist]
    BY <2>1
  <2>3. m \in Nat
    BY <1>5
  <2> HIDE DEF bs
  <2>. QED  BY <2>2, <2>3
<1> HIDE DEF bs
<1>8. WorkerInv' /\ worker'.for = "sync" /\ worker'.stage = "run" /\ worker'.attached = {}
  BY <1>3, <1>7, Started
<1>9. PoolInv' /\ NewsInv'
  BY <1>1, <1>3, <1>8, StartKeeps
<1>10. OrderInv'
  BY <1>1, <1>8 DEF IInv, OrderInv
<1>11. SyncInv'
  <2> DEFINE k == to + 1
  <2>1. k \in Nat /\ sync' = [sync EXCEPT !.pc = "wait", !.next = k]
    BY <1>3, <1>5
  <2> HIDE DEF k
  <2>. QED  BY <1>4, <2>1 DEF SyncInv, SyncType
<1>. QED  BY <1>1, <1>8, <1>9, <1>10, <1>11, Frame, Zenon DEF IInv

\* The candidate of a new round extends the tip it is built on.
LEMMA build_candidate_block_Step ==
  ASSUME IInv, build_candidate_block
  PROVE  IInv'
<1>1. UNCHANGED <<tip, forks, pool, adder, worker, loop, lastAnnounced, sync,
                  netEvents, tipUnread, mined, failed, handler, cancel, ready,
                  main>>
  BY Zenon DEF build_candidate_block, chain, health
<1>2. /\ miner \in MinerType /\ miner.pc = "building" /\ miner.current = NoRound
      /\ miner.rounds < MaxRounds /\ MaxRounds \in Nat
  <2>1. MaxRounds \in Nat
    BY Constants, Zenon
  <2>. QED  BY <2>1 DEF IInv, MinerInv, build_candidate_block
<1>3. \A p \in pow : p \in TaskType /\ p.cancelled
  <2>1. \A p \in pow : p \in TaskType
    BY DEF IInv, MinerInv
  <2>2. \A p \in pow : p.round # NoRound /\ p.cancelled \in BOOLEAN
    BY <1>2, <2>1 DEF TaskType, NoRound
  <2>. QED  BY <1>2, <2>1, <2>2, Zenon DEF IInv, NewsInv, StaleRoundNoticed
<1>4. CASE miner' = [miner EXCEPT !.pc = "select", !.best = {}] /\ pow' = pow
  <2>1. MinerInv'
    BY <1>2, <1>3, <1>4 DEF IInv, MinerInv, MinerType
  <2>2. NewsInv'
    BY <1>1, <1>3, <1>4, Zenon DEF IInv, NewsInv, StaleRoundNoticed
  <2>. QED  BY <1>1, <2>1, <2>2, Frame, Zenon DEF IInv
<1> DEFINE c == Append(tip, Label("miner", miner.best))
           r == miner.rounds + 1
           q == [round |-> r, cancelled |-> FALSE, stage |-> "hash", block |-> c]
<1>5. CASE /\ Len(tip) < MaxHeight
           /\ miner' = [miner EXCEPT !.pc = "select", !.best = {}, !.rounds = @ + 1, !.current = r]
           /\ pow' = pow \cup {q}
  <2>1. tip \in Seq(Labels) /\ Label("miner", miner.best) \in Labels /\ MaxHeight \in Nat
    BY <1>2, BlockSeq, EmptyHist DEF IInv, ChainInv, Hist, MinerType, Label, Labels
  <2>2. Front(c) = tip
    BY <2>1, FrontAppend
  <2>3. c \in Hist
    <3>1. c \in Seq(Labels) /\ Len(c) = Len(tip) + 1 /\ Len(tip) \in Nat
      BY <2>1
    <3>. QED  BY <1>5, <2>1, <3>1, BlockSeq DEF Hist
  <2>4. r \in 1..MaxRounds
    BY <1>2 DEF MinerType
  <2> HIDE DEF c
  <2>5. /\ miner' \in MinerType /\ miner'.current = r /\ miner'.rounds = r
        /\ miner'.pc = "select"
    <3>1. miner' = [miner EXCEPT !.pc = "select", !.best = {}, !.rounds = r, !.current = r]
      BY <1>5
    <3>2. r \in Nat
      BY <1>2, <2>4
    <3> HIDE DEF r
    <3>. QED  BY <1>2, <3>1, <3>2 DEF MinerType
  <2>6. q \in TaskType /\ q.round = r /\ q.block = c
    BY <2>3, <2>4 DEF TaskType
  <2> HIDE DEF q, r
  <2>7. \A p \in pow' : p = q \/ (p \in TaskType /\ p.cancelled)
    BY <1>3, <1>5, Zenon
  <2>8. MinerInv'
    <3>1. \A p \in pow' : p \in TaskType
      BY <2>6, <2>7, Zenon
    <3>. QED  BY <1>2, <2>4, <2>5, <3>1 DEF MinerInv
  <2>9. NewsInv'
    BY <1>1, <2>2, <2>5, <2>6, <2>7, Zenon DEF IInv, NewsInv, StaleRoundNoticed
  <2>. QED  BY <1>1, <2>8, <2>9, Frame, Zenon DEF IInv
<1>. QED  BY <1>4, <1>5 DEF build_candidate_block, mining_context

\* The broadcast channel drops its oldest event at its capacity.
LEMMA GossipArrives_Step ==
  ASSUME IInv, GossipArrives
  PROVE  IInv'
<1>1. UNCHANGED <<tip, forks, pool, adder, worker, loop, lastAnnounced, sync,
                  tipUnread, miner, pow, mined, failed, handler, cancel, ready,
                  main>>
  BY Zenon DEF GossipArrives, chain, mining, health
<1>2. Events \subseteq EventType
  BY Constants, EmptyHist DEF Events, EventType
<1> DEFINE q == netEvents.queue
           kept == IF Len(q) = NetCap THEN Tail(q) ELSE q
<1>3. PICK e \in Events :
        netEvents' = [queue  |-> Append(kept, e),
                      lagged |-> netEvents.lagged \/ Len(q) = NetCap,
                      sent   |-> netEvents.sent + 1]
  BY DEF GossipArrives
<1>4. NetCap \in Nat \ {0}
  BY Constants, Zenon
<1>5. /\ q \in Seq(EventType) /\ Len(q) <= NetCap
      /\ netEvents.sent \in Nat /\ netEvents.lagged \in BOOLEAN
  BY DEF IInv, NetInv, NetType
<1> HIDE DEF q
<1>6. kept \in Seq(EventType) /\ Len(kept) \in Nat /\ Len(kept) + 1 <= NetCap
  <2>1. CASE Len(q) = NetCap
    <3>1. q # <<>>
      BY <1>4, <2>1
    <3>. QED  BY <1>4, <1>5, <2>1, <3>1, HeadTail
  <2>2. CASE Len(q) # NetCap
    BY <1>4, <1>5, <2>2
  <2>. QED  BY <2>1, <2>2
<1> HIDE DEF kept
<1>7. Append(kept, e) \in Seq(EventType) /\ Len(Append(kept, e)) <= NetCap
  <2>1. e \in EventType
    BY <1>2
  <2>. QED  BY <1>4, <1>6, <2>1
<1>8. NetInv'
  <2> DEFINE z == Append(kept, e)
             l == netEvents.lagged \/ Len(q) = NetCap
  <2>1. z \in Seq(EventType) /\ Len(z) <= NetCap /\ l \in BOOLEAN /\ netEvents.sent + 1 \in Nat
    BY <1>5, <1>7
  <2>2. netEvents' = [queue |-> z, lagged |-> l, sent |-> netEvents.sent + 1]
    BY <1>3
  <2> HIDE DEF z, l
  <2>. QED  BY <2>1, <2>2 DEF NetInv, NetType
<1>. QED  BY <1>1, <1>8, Frame, Zenon DEF IInv

----------------------------------------------------------------------------
(***************************************************************************)
(* The theorems.                                                           *)
(***************************************************************************)

\* The invariant holds when the node starts.
LEMMA InitIInv == Init => IInv
<1> SUFFICES ASSUME Init PROVE IInv
  OBVIOUS
<1>0. /\ MaxHeight \in Nat /\ MaxRounds \in Nat /\ NetCap \in Nat \ {0} /\ MinedCap \in Nat \ {0}
  BY Constants, Zenon
<1>1. ChainInv
  BY EmptyHist DEF Init, ChainInv, WellSpent
<1>2. WorkerInv
  <2>1. <<>> \in Seq(Hist) /\ <<>> \in Seq(Kinds)
    OBVIOUS
  <2>. QED  BY <2>1 DEF Init, Idle, WorkerInv, WorkerType
<1>3. OrderInv
  BY EmptyHist DEF Init, Idle, OrderInv, LoopType
<1>4. PoolInv
  <2>1. TxsOf(<<>>) = {}
    BY DEF TxsOf
  <2>. QED  BY <2>1 DEF Init, Idle, PoolInv, PoolIsUnconfirmed, SpentTogether
<1>5. SyncInv
  BY EmptyHist DEF Init, NoSync, SyncInv, SyncType
<1>6. NetInv
  BY <1>0 DEF Init, NetInv, NetType
<1>7. MinedInv
  BY <1>0 DEF Init, MinedInv
<1>8. MinerInv
  BY <1>0 DEF Init, MinerInv, MinerType, NoRound
<1>9. NewsInv /\ HealthInv /\ ReadyOnlyWhileHealthy
  <2>1. tipUnread = 0 /\ pow = {} /\ ~failed
    BY DEF Init
  <2>2. NewsInv /\ ReadyOnlyWhileHealthy
    BY <2>1 DEF NewsInv, StaleRoundNoticed, ReadyOnlyWhileHealthy
  <2>3. HealthInv
    BY Zenon DEF Init, HealthInv
  <2>. QED  BY <2>2, <2>3
<1>. QED  BY <1>1, <1>2, <1>3, <1>4, <1>5, <1>6, <1>7, <1>8, <1>9, Zenon DEF IInv

\* Every step of every task keeps it.
LEMMA NextIInv == IInv /\ [Next]_vars => IInv'
<1> SUFFICES ASSUME IInv, [Next]_vars PROVE IInv'
  OBVIOUS
<1>1. CASE LoopStep
  BY <1>1, Zenon, StoreReady_Step, CheckStopped_Step, Register_Step, Heartbeat_Step,
     recv_mined_block_Step, RecvNewBlock_Step, RecvNewTransaction_Step, RecvChainTip_Step,
     RecvLagged_Step, ApplyBlock_Step, PublishVerdict_Step, JoinPanickedSync_Step,
     LoopCancelled_Step, LoopEnds_Step DEF LoopStep
<1>2. CASE WorkerStep
  BY <1>2, Zenon, BeginBlock_Step, apply_block_batch_Step, update_pool_Step, send_tip_update_Step,
     WorkerEnds_Step, WorkerFails_Step DEF WorkerStep
<1>3. CASE SyncStep
  BY <1>3, Zenon, SyncStops_Step, SyncPanics_Step, prepare_peer_sync_Step, SyncBatch_Step
     DEF SyncStep
<1>4. CASE MinerStep
  BY <1>4, Zenon, Tick_Step, build_candidate_block_Step, RecvTipUpdate_Step,
     RecvTipLagged_Step, MinerCancelled_Step DEF MinerStep
<1>5. CASE PowStep
  BY <1>5, Zenon, FindNonce_Step, StopHashing_Step, SendMined_Step DEF PowStep
<1>6. CASE Shutdown
  BY <1>6, Zenon, HandlerFlags_Step, HandlerCancel_Step, MainAfterRun_Step, MainExits_Step
     DEF Shutdown
<1>7. CASE add_transaction \/ StorageFails \/ Signal \/ GossipArrives
  BY <1>7, Zenon, add_transaction_Step, StorageFails_Step, Signal_Step, GossipArrives_Step
<1>8. CASE UNCHANGED vars
  BY <1>8, Frame, Zenon DEF IInv, vars
<1>9. CASE Stopped
  BY <1>8, <1>9, Zenon DEF Stopped
<1>10. CASE \E t \in Txs : send_tx(t)
  BY <1>10, Zenon, send_tx_Step
<1>. QED  BY <1>1, <1>2, <1>3, <1>4, <1>5, <1>6, <1>7, <1>8, <1>9, <1>10, Zenon DEF Next

\* In every state the tasks can reach, however they interleave and wherever the
\* storage fails or a signal arrives, the inductive invariant holds.
THEOREM Invariance == Spec => []IInv
BY InitIInv, NextIInv, PTL DEF Spec

\* The shared state is well formed and both bounded channels keep their capacity.
THEOREM TypeCorrectness == Spec => []TypeOK
<1>1. IInv => TypeOK
  <2> SUFFICES ASSUME IInv PROVE TypeOK
    OBVIOUS
  <2>0. MaxRounds \in Nat
    BY Constants, Zenon
  <2>1. /\ tip \in Blocks /\ Len(tip) <= MaxHeight
        /\ \A f \in forks : f \in Blocks /\ Len(f) <= MaxHeight
    BY DEF IInv, ChainInv, Hist
  <2>2. /\ worker.for \in {"none", "loop", "sync"} /\ worker.stage \in {"run", "commit", "pool", "send"}
        /\ pool \subseteq Txs /\ adder \in [by : {"none", "http", "loop"}, txs : SUBSET Txs]
    BY DEF IInv, WorkerInv, WorkerType, PoolInv
  <2>3. loop.pc \in {"boot", "check", "register", "select", "add", "apply", "wait", "publish",
                    "drain", "ended"}
    BY DEF IInv, OrderInv, LoopType
  <2>4. /\ sync.pc \in {"none", "prepare", "fetch", "wait"} /\ sync.panicked \in BOOLEAN
        /\ Len(netEvents.queue) <= NetCap /\ Len(mined) <= MinedCap /\ tipUnread \in 0..2
    BY DEF IInv, SyncInv, SyncType, NetInv, MinedInv, NewsInv
  <2>5. miner.pc \in {"select", "building", "stopped"} /\ miner.current \in 0..MaxRounds
    BY <2>0 DEF IInv, MinerInv, MinerType
  <2>6. \A p \in pow : p.round \in 1..MaxRounds /\ p.block \in Blocks
    BY DEF IInv, MinerInv, TaskType, Hist
  <2>. QED  BY <2>1, <2>2, <2>3, <2>4, <2>5, <2>6, Zenon DEF TypeOK, IInv, HealthInv
<1>. QED  BY <1>1, Invariance, PTL

\* If every payment has inputs, which the code does not enforce, no payment of the
\* canonical chain stays in the mempool or is being admitted, except while the worker
\* that confirmed it is about to take it out: also when the commit falls between the
\* lookup and the insertion of that payment.
THEOREM PoolUnconfirmed ==
  ASSUME PaymentsSpend
  PROVE  Spec => []PoolIsUnconfirmed
<1>1. IInv => PoolIsUnconfirmed
  BY DEF IInv, PoolInv
<1>. QED  BY <1>1, Invariance, PTL

\* A proof-of-work task that nobody cancelled is the miner's current round, and
\* when its parent is no longer the tip the news is on its way, lagged or not.
THEOREM StaleWorkNoticed == Spec => []StaleRoundNoticed
<1>1. IInv => StaleRoundNoticed
  BY DEF IInv, NewsInv
<1>. QED  BY <1>1, Invariance, PTL

\* Once the failure handler has run, the node does not serve: the event loop
\* that raised the readiness flags last is about to take them back.
THEOREM FailedNodeIsNotReady == Spec => []ReadyOnlyWhileHealthy
<1>1. IInv => ReadyOnlyWhileHealthy
  BY DEF IInv
<1>. QED  BY <1>1, Invariance, PTL
=============================================================================
