--------------------------- MODULE PeerSyncProofs ---------------------------
(***************************************************************************)
(* Proofs about PeerSync for any peers, chains and batch limits: a node    *)
(* that serves holds the genesis block it was configured for, the binary   *)
(* search for the common ancestor stays sound while both chains grow under *)
(* it, and a synchronisation that succeeds adopts the work it was offered. *)
(***************************************************************************)
EXTENDS PeerSync, SumProofs

Pcs == {"idle", "open", "connected", "query", "ask", "genesis", "connect", "fallback",
        "info", "tip", "compare", "search", "probe", "found", "fetch", "apply", "done",
        "failed"}

MaxAttempts == Max({MaxDiscovery, MaxConnects})

TaskType ==
  [pc : Pcs, peer : Peers, attempt : 1..MaxAttempts, ask : SUBSET Peers,
   target : Chains, start : Chains, low : 0..MaxHeight + 1, high : 0..MaxHeight,
   best : 0..MaxHeight, seen : Chains, next : 0..MaxHeight + 1, batch : Seq(Chains)]

Offers == [peer : Peers, chain : Chains]

Views == [tip : Chains, forks : SUBSET Chains, midfork : BOOLEAN, reorg : BOOLEAN]

----------------------------------------------------------------------------
(***************************************************************************)
(* Numbers and chains.                                                     *)
(***************************************************************************)

\* The larger of two numbers.
LEMMA TwoMax ==
  ASSUME NEW a \in Int, NEW b \in Int
  PROVE  Max({a, b}) \in {a, b} /\ Max({a, b}) >= a /\ Max({a, b}) >= b
<1>1. \E x \in {a, b} : \A y \in {a, b} : x >= y
  <2>1. CASE a >= b
    BY <2>1
  <2>2. CASE b >= a
    BY <2>2
  <2>. QED  BY <2>1, <2>2
<1>2. Max({a, b}) \in {a, b} /\ \A y \in {a, b} : Max({a, b}) >= y
  BY <1>1, Zenon DEF Max
<1>. QED  BY <1>2

\* What is assumed of the numbers.
LEMMA Bounds ==
  /\ MaxHeight \in Nat /\ Limit \in Nat \ {0} /\ PeerBatch \in Nat \ {0}
  /\ MaxDiscovery \in Nat \ {0} /\ MaxConnects \in Nat \ {0}
<1>1. /\ MaxHeight \in Nat /\ LocalBatch \in Nat /\ PeerBatch \in Nat \ {0}
      /\ MaxDiscovery \in Nat \ {0} /\ MaxConnects \in Nat \ {0}
  BY SyncAssumption, Zenon
<1>2. Limit \in Nat \ {0}
  BY <1>1, TwoMax DEF Limit
<1>. QED  BY <1>1, <1>2

\* The smaller of two numbers.
LEMMA TwoMin ==
  ASSUME NEW a \in Int, NEW b \in Int
  PROVE  Min({a, b}) \in {a, b} /\ Min({a, b}) <= a /\ Min({a, b}) <= b
<1>1. \E x \in {a, b} : \A y \in {a, b} : x =< y
  <2>1. CASE a <= b
    BY <2>1
  <2>2. CASE b <= a
    BY <2>2
  <2>. QED  BY <2>1, <2>2
<1>2. Min({a, b}) \in {a, b} /\ \A y \in {a, b} : Min({a, b}) =< y
  BY <1>1, Zenon DEF Min
<1>. QED  BY <1>2

\* The attempts of either loop are within the larger limit.
LEMMA Attempts ==
  MaxAttempts \in Nat \ {0} /\ MaxAttempts >= MaxDiscovery /\ MaxAttempts >= MaxConnects
<1>1. MaxDiscovery \in Nat \ {0} /\ MaxConnects \in Nat \ {0}
  BY Bounds, Zenon
<1>. QED  BY <1>1, TwoMax DEF MaxAttempts

\* A chain is a sequence of labels within the bound.
LEMMA ChainSeq ==
  \A c : c \in Chains <=> c \in Seq(Labels) /\ Len(c) <= MaxHeight
<1>0. MaxHeight \in Nat
  BY Bounds, Zenon
<1>1. ASSUME NEW c \in Chains PROVE c \in Seq(Labels) /\ Len(c) <= MaxHeight
  <2>1. PICK n \in 0..MaxHeight : c \in [1..n -> Labels]
    BY DEF Chains
  <2>2. n \in Nat /\ n <= MaxHeight
    BY <1>0, <2>1
  <2>3. c \in Seq(Labels) /\ Len(c) = n
    BY <2>1, <2>2
  <2>. QED  BY <2>2, <2>3
<1>2. ASSUME NEW c \in Seq(Labels), Len(c) <= MaxHeight PROVE c \in Chains
  <2>1. Len(c) \in 0..MaxHeight /\ c \in [1..Len(c) -> Labels]
    BY <1>0, <1>2
  <2>. QED  BY <2>1 DEF Chains
<1>. QED  BY <1>1, <1>2

\* The lengths of chains.
LEMMA ChainLen ==
  ASSUME NEW c \in Chains
  PROVE  c \in Seq(Labels) /\ Len(c) \in Nat /\ Len(c) <= MaxHeight /\ Len(c) \in 0..MaxHeight
<1>0. MaxHeight \in Nat
  BY Bounds, Zenon
<1>1. c \in Seq(Labels) /\ Len(c) <= MaxHeight
  BY ChainSeq
<1>. QED  BY <1>0, <1>1

\* Genesis alone is a chain.
LEMMA EmptyChain == <<>> \in Chains
<1>0. MaxHeight \in Nat
  BY Bounds, Zenon
<1>1. <<>> \in Seq(Labels) /\ Len(<<>>) = 0
  OBVIOUS
<1>2. Len(<<>>) <= MaxHeight
  BY <1>0, <1>1
<1>. QED  BY <1>1, <1>2, ChainSeq, Zenon

\* The block at a height of a chain.
LEMMA CutChain ==
  ASSUME NEW c \in Chains, NEW h \in Nat, h <= Len(c)
  PROVE  /\ AtHeight(c, h) \in Chains /\ Len(AtHeight(c, h)) = h
         /\ \A i \in 1..h : AtHeight(c, h)[i] = c[i]
<1>1. c \in Seq(Labels) /\ Len(c) \in Nat /\ Len(c) <= MaxHeight /\ MaxHeight \in Nat
  BY ChainLen, Bounds
<1>2. /\ SubSeq(c, 1, h) \in Seq(Labels) /\ Len(SubSeq(c, 1, h)) = h
      /\ \A i \in 1..h : SubSeq(c, 1, h)[i] = c[i]
  BY <1>1
<1>3. h <= MaxHeight
  BY <1>1
<1>. QED  BY <1>2, <1>3, ChainSeq DEF AtHeight

\* Two chains agree at a height iff they agree on all labels up to it.
LEMMA CutsEqual ==
  ASSUME NEW c \in Chains, NEW d \in Chains, NEW h \in Nat, h <= Len(c), h <= Len(d)
  PROVE  AtHeight(c, h) = AtHeight(d, h) <=> \A i \in 1..h : c[i] = d[i]
<1>1. /\ AtHeight(c, h) \in Seq(Labels) /\ Len(AtHeight(c, h)) = h
      /\ \A i \in 1..h : AtHeight(c, h)[i] = c[i]
      /\ AtHeight(d, h) \in Seq(Labels) /\ Len(AtHeight(d, h)) = h
      /\ \A i \in 1..h : AtHeight(d, h)[i] = d[i]
  BY CutChain, ChainLen
<1>. QED  BY <1>1

\* A prefix agrees with the chain on all its positions.
LEMMA PrefixIff ==
  ASSUME NEW c \in Chains, NEW d \in Chains
  PROVE  IsPrefix(c, d) <=> Len(c) <= Len(d) /\ \A i \in 1..Len(c) : c[i] = d[i]
<1>1. Len(c) \in Nat /\ Len(d) \in Nat
  BY ChainLen
<1>2. ASSUME Len(c) <= Len(d)
      PROVE  AtHeight(c, Len(c)) = AtHeight(d, Len(c)) <=> \A i \in 1..Len(c) : c[i] = d[i]
  BY <1>1, <1>2, CutsEqual
<1>. QED  BY <1>2 DEF IsPrefix, AtHeight

\* Growing twice is growing.
LEMMA PrefixTransitive ==
  ASSUME NEW c \in Chains, NEW d \in Chains, NEW e \in Chains, IsPrefix(c, d), IsPrefix(d, e)
  PROVE  IsPrefix(c, e)
<1>1. /\ Len(c) <= Len(d) /\ \A i \in 1..Len(c) : c[i] = d[i]
      /\ Len(d) <= Len(e) /\ \A i \in 1..Len(d) : d[i] = e[i]
  BY PrefixIff
<1>2. Len(c) \in Nat /\ Len(d) \in Nat /\ Len(e) \in Nat
  BY ChainLen
<1>3. Len(c) <= Len(e) /\ \A i \in 1..Len(c) : c[i] = e[i]
  BY <1>1, <1>2
<1>. QED  BY <1>3, PrefixIff

\* Every chain extends genesis and itself.
LEMMA PrefixTrivial ==
  ASSUME NEW c \in Chains
  PROVE  IsPrefix(<<>>, c) /\ IsPrefix(c, c)
<1>1. Len(c) \in Nat /\ <<>> \in Chains /\ Len(<<>>) = 0
  BY ChainLen, EmptyChain
<1>2. IsPrefix(c, c)
  BY <1>1, PrefixIff
<1>3. IsPrefix(<<>>, c)
  BY <1>1, PrefixIff
<1>. QED  BY <1>2, <1>3

\* A block extends its parent.
LEMMA ParentPrefix ==
  ASSUME NEW b \in Chains, b # <<>>, Front(b) \in Chains
  PROVE  IsPrefix(Front(b), b)
<1>1. b \in Seq(Labels) /\ Len(b) \in Nat \ {0}
  BY ChainLen
<1>2. Len(b) - 1 \in Nat /\ Len(b) - 1 <= Len(b)
  BY <1>1
<1>3. /\ Len(AtHeight(b, Len(b) - 1)) = Len(b) - 1
      /\ \A i \in 1..(Len(b) - 1) : AtHeight(b, Len(b) - 1)[i] = b[i]
  BY <1>2, CutChain
<1>4. Front(b) = AtHeight(b, Len(b) - 1)
  BY DEF Front, AtHeight
<1>5. Len(Front(b)) <= Len(b) /\ \A i \in 1..Len(Front(b)) : Front(b)[i] = b[i]
  BY <1>2, <1>3, <1>4
<1>. QED  BY <1>5, PrefixIff

----------------------------------------------------------------------------
(***************************************************************************)
(* The engine and a batch of blocks.                                       *)
(***************************************************************************)

\* One block: the view stays one of chains, and unless the tip is reorganised
\* it stays where it is or grows by that block.
LEMMA EngineStep ==
  ASSUME NEW v \in Views, NEW b \in Chains
  PROVE  /\ on_block(v, b) \in Views
         /\ on_block(v, b).reorg \/ IsPrefix(v.tip, on_block(v, b).tip)
<1> DEFINE p == Front(b)
           w == on_block(v, b)
           mid == v.midfork \/ \E f \in v.forks : IsPrefix(p, f)
           S == {f \in v.forks \ {p} : Ancestor(f, b) = Ancestor(f, v.tip)}
<1>1. v.tip \in Chains /\ v.forks \subseteq Chains /\ v.midfork \in BOOLEAN /\ v.reorg \in BOOLEAN
  BY DEF Views
<1>2. IsPrefix(v.tip, v.tip) /\ IsPrefix(<<>>, v.tip)
  BY <1>1, PrefixTrivial
<1>3. CASE IsPrefix(b, v.tip) \/ (\E f \in v.forks : IsPrefix(b, f))
  <2>1. w = v
    BY <1>3 DEF on_block
  <2>. QED  BY <1>2, <2>1
<1>4. CASE ~(IsPrefix(b, v.tip) \/ (\E f \in v.forks : IsPrefix(b, f)))
  <2>1. w = IF ~IsPrefix(p, v.tip) /\ p \notin v.forks THEN [v EXCEPT !.midfork = mid]
            ELSE IF p = v.tip THEN [v EXCEPT !.tip = b]
            ELSE IF Work(b) > Work(v.tip)
              THEN [v EXCEPT !.tip = b, !.reorg = TRUE, !.forks = S]
            ELSE [v EXCEPT !.forks = (v.forks \ {p}) \cup {b}]
    BY <1>4 DEF on_block, Views
  <2>2. mid \in BOOLEAN /\ S \subseteq Chains /\ b # <<>>
    BY <1>1, <1>2, <1>4
  <2> DEFINE F == (v.forks \ {p}) \cup {b}
  <2>3. F \subseteq Chains
    BY <1>1
  <2>4. p = v.tip => IsPrefix(v.tip, b)
    BY <1>1, <2>2, ParentPrefix
  <2> HIDE DEF p, w, mid, S, F
  <2>5. \/ w = [v EXCEPT !.midfork = mid]
        \/ p = v.tip /\ w = [v EXCEPT !.tip = b]
        \/ w = [v EXCEPT !.tip = b, !.reorg = TRUE, !.forks = S]
        \/ w = [v EXCEPT !.forks = F]
    BY <2>1, Zenon DEF F
  <2>6. CASE w = [v EXCEPT !.midfork = mid]
    <3>1. w \in Views /\ w.tip = v.tip
      BY <2>2, <2>6 DEF Views
    <3>. QED  BY <1>2, <3>1 DEF w
  <2>7. CASE p = v.tip /\ w = [v EXCEPT !.tip = b]
    <3>1. w \in Views /\ w.tip = b
      BY <2>7 DEF Views
    <3>. QED  BY <2>4, <2>7, <3>1 DEF w
  <2>8. CASE w = [v EXCEPT !.tip = b, !.reorg = TRUE, !.forks = S]
    <3>1. w \in Views /\ w.reorg = TRUE
      BY <2>2, <2>8 DEF Views
    <3>. QED  BY <3>1 DEF w
  <2>9. CASE w = [v EXCEPT !.forks = F]
    <3>1. w \in Views /\ w.tip = v.tip
      BY <2>3, <2>9 DEF Views
    <3>. QED  BY <1>2, <3>1 DEF w
  <2>. QED  BY <2>5, <2>6, <2>7, <2>8, <2>9
<1>. QED  BY <1>3, <1>4

\* The engine takes the blocks of a batch one after the other.
LEMMA BatchUnfold ==
  ASSUME View \in Views, task.batch \in Seq(Chains)
  PROVE  \A n \in 0..Len(task.batch) :
           Batch[n] = IF n = 0 THEN View ELSE on_block(Batch[n - 1], task.batch[n])
<1> DEFINE m == Len(task.batch)
           Good(f, k) == /\ f[0] = View
                         /\ \A i \in 1..k : f[i] = on_block(f[i - 1], task.batch[i])
           E(k) == \E f \in [0..k -> Views] : Good(f, k)
<1>0. m \in Nat /\ \A i \in 1..m : task.batch[i] \in Chains
  OBVIOUS
<1>1. E(0)
  <2> DEFINE f == [i \in 0..0 |-> View]
  <2>1. f \in [0..0 -> Views] /\ f[0] = View
    OBVIOUS
  <2>2. Good(f, 0)
    BY <2>1
  <2> HIDE DEF f, Good
  <2>. QED  BY <2>1, <2>2
<1>2. ASSUME NEW k \in Nat, k + 1 <= m, E(k) PROVE E(k + 1)
  <2>1. PICK f \in [0..k -> Views] : Good(f, k)
    BY <1>2
  <2> DEFINE x == on_block(f[k], task.batch[k + 1])
             g == [i \in 0..(k + 1) |-> IF i = k + 1 THEN x ELSE f[i]]
  <2>2. x \in Views
    <3>1. f[k] \in Views /\ task.batch[k + 1] \in Chains
      BY <1>0, <1>2, <2>1
    <3>. QED  BY <3>1, EngineStep
  <2>3. \A i \in 0..(k + 1) : i = k + 1 \/ i \in 0..k
    OBVIOUS
  <2> HIDE DEF x
  <2>4. g \in [0..(k + 1) -> Views]
    BY <2>1, <2>2, <2>3
  <2>5. g[k + 1] = x /\ \A i \in 0..k : g[i] = f[i]
    OBVIOUS
  <2> HIDE DEF g
  <2>6. g[0] = View
    BY <2>1, <2>5
  <2>7. ASSUME NEW i \in 1..(k + 1) PROVE g[i] = on_block(g[i - 1], task.batch[i])
    <3>1. CASE i = k + 1
      <4>1. i - 1 = k /\ k \in 0..k
        BY <3>1
      <4>. QED  BY <2>5, <3>1, <4>1 DEF x
    <3>2. CASE i # k + 1
      <4>1. i \in 1..k /\ i - 1 \in 0..k /\ i \in 0..k
        BY <2>7, <3>2
      <4>2. f[i] = on_block(f[i - 1], task.batch[i])
        BY <2>1, <4>1
      <4>3. g[i] = f[i] /\ g[i - 1] = f[i - 1]
        BY <2>5, <4>1
      <4>. QED  BY <4>2, <4>3
    <3>. QED  BY <3>1, <3>2
  <2>. QED  BY <2>4, <2>6, <2>7
<1>3. E(m)
  <2> DEFINE S == {k \in 0..m : ~E(k)}
  <2> HIDE DEF E
  <2> SUFFICES ASSUME S # {} PROVE FALSE
    BY <1>0
  <2>1. S \in SUBSET Nat
    BY <1>0
  <2>2. PICK n \in S : \A k \in S : n <= k
    BY <2>1, LeastNumber
  <2>3. n # 0 /\ n \in 0..m /\ ~E(n)
    BY <1>1, <2>2
  <2>4. n - 1 \in Nat /\ n - 1 \in 0..m /\ (n - 1) + 1 = n /\ (n - 1) + 1 <= m
    BY <1>0, <2>3
  <2>5. n - 1 \notin S
    BY <2>2, <2>4
  <2>6. E(n - 1)
    BY <2>4, <2>5
  <2>7. E((n - 1) + 1)
    BY <1>2, <2>4, <2>6
  <2>. QED  BY <2>3, <2>4, <2>7
<1>4. PICK g \in [0..m -> Views] : Good(g, m)
  BY <1>3
<1>5. g = [n \in 0..m |-> IF n = 0 THEN View ELSE on_block(g[n - 1], task.batch[n])]
  <2>1. \A n \in 0..m : n = 0 \/ n \in 1..m
    BY <1>0
  <2>2. \A n \in 0..m : g[n] = IF n = 0 THEN View ELSE on_block(g[n - 1], task.batch[n])
    BY <1>4, <2>1
  <2>. QED  BY <2>2, <1>4
<1>6. Batch = [n \in 0..m |-> IF n = 0 THEN View ELSE on_block(Batch[n - 1], task.batch[n])]
  BY <1>5, Zenon DEF Batch
<1>. QED  BY <1>6, Zenon

\* The view after every part of a batch is one of chains.
LEMMA BatchViews ==
  ASSUME View \in Views, task.batch \in Seq(Chains)
  PROVE  \A n \in 0..Len(task.batch) : Batch[n] \in Views
<1> DEFINE m == Len(task.batch)
<1>0. m \in Nat /\ \A i \in 1..m : task.batch[i] \in Chains
  OBVIOUS
<1>7. \A n \in 0..m : Batch[n] = IF n = 0 THEN View ELSE on_block(Batch[n - 1], task.batch[n])
  BY BatchUnfold
<1> DEFINE T == {n \in 0..m : Batch[n] \notin Views}
<1> SUFFICES ASSUME T # {} PROVE FALSE
  OBVIOUS
<1>8. T \in SUBSET Nat
  BY <1>0
<1>9. PICK n \in T : \A k \in T : n <= k
  BY <1>8, LeastNumber
<1>10. n # 0 /\ n \in 0..m /\ n - 1 \in 0..m /\ n \in 1..m
  BY <1>0, <1>7, <1>9
<1>11. Batch[n - 1] \in Views
  BY <1>9, <1>10
<1>12. Batch[n] = on_block(Batch[n - 1], task.batch[n]) /\ task.batch[n] \in Chains
  BY <1>0, <1>7, <1>10
<1>13. Batch[n] \in Views
  BY <1>11, <1>12, EngineStep
<1>. QED  BY <1>9, <1>13

----------------------------------------------------------------------------
(***************************************************************************)
(* The inductive invariant.                                                *)
(***************************************************************************)

ChainsInv ==
  /\ tip \in Chains /\ forks \subseteq Chains /\ remote \in [Peers -> Chains]
  /\ offered \subseteq Offers

\* A batch never exceeds either limit, nor the height the peer told.
TaskInv ==
  /\ task \in TaskType
  /\ Len(task.batch) <= Limit /\ Len(task.batch) <= PeerBatch
  /\ task.pc = "apply" => task.next + Len(task.batch) <= Len(task.target) + 1
  /\ task.pc \in {"search", "probe"} =>
       /\ task.high <= Len(task.target) /\ task.high <= Len(task.start)
       /\ task.low <= task.high + 1
  /\ task.pc = "probe" => task.low <= task.high

\* The configured genesis block is the stored one, or the node was told to join.
Configured ==
  config.genesis \in {NoGenesis, genesis}
  \/ (config.mode = "Join" /\ \E p \in Peers : genesis = GenesisOf[p])

\* Where a node without a genesis block can be.
Fetching == {"connected", "query", "ask", "genesis"}

GenesisInv ==
  /\ phase \in {"startup", "running", "exited"}
  /\ config.mode \in {"Auto", "Bootstrap", "Join"}
  /\ genesis \in ValidGenesis \cup {NoGenesis}
  /\ phase = "exited" => task.pc = "failed"
  /\ phase = "running" => task.pc # "open"
  /\ genesis = NoGenesis => tip = <<>> /\ phase # "running"
  /\ task.pc # "open" /\ phase # "exited" =>
       \/ genesis # NoGenesis /\ Configured
       \/ genesis = NoGenesis /\ start_mode = "Join" /\ task.pc \in Fetching

\* The local chain does not move during startup and then only grows, unless
\* the history variable says it was reorganised.
StartInv ==
  /\ task.pc \in {"connect", "fallback", "info", "tip"} => phase = "running"
  /\ phase = "startup" /\ task.pc \in {"query", "ask", "genesis", "compare", "search", "probe"}
       => task.start = tip
  /\ phase = "running" /\ task.pc \in {"compare", "search", "probe"} /\ "local" \notin excused
       => IsPrefix(task.start, tip)

\* So does the chain of the peer.
TargetInv ==
  task.pc \in {"genesis", "tip", "compare", "search", "probe"} /\ "remote" \notin excused
    => IsPrefix(task.target, remote[task.peer])

\* Below low the chains agree, above high they differ.
Bracketed ==
  /\ \A h \in 0 .. task.low - 1 : Same(h)
  /\ \A h \in task.high + 1 .. Min({RemoteHeight, LocalHeight}) : ~Same(h)
  /\ task.low > 0 => task.best = task.low - 1

SearchInv ==
  /\ task.pc \in {"search", "probe"} /\ excused = {} => Bracketed
  /\ task.pc = "probe" /\ excused = {} => Mid <= Len(tip) /\ task.seen = AtHeight(tip, Mid)

IInv == ChainsInv /\ TaskInv /\ GenesisInv /\ StartInv /\ TargetInv /\ SearchInv

----------------------------------------------------------------------------
(***************************************************************************)
(* What a step owes the invariant.                                         *)
(***************************************************************************)

\* The states of the task that StartInv, TargetInv and SearchInv speak of.
Watched == {"connect", "fallback", "info", "tip", "query", "ask", "genesis", "compare",
            "search", "probe"}

\* Elsewhere they say nothing.
LEMMA Unwatched ==
  ASSUME task'.pc \notin Watched
  PROVE  StartInv' /\ TargetInv' /\ SearchInv'
BY DEF Watched, StartInv, TargetInv, SearchInv

\* The search speaks of its two states only.
LEMMA NoSearch ==
  ASSUME task'.pc # "search", task'.pc # "probe"
  PROVE  SearchInv'
BY DEF SearchInv

\* A step inside the task does not touch the genesis block.
LEMMA GenesisKept ==
  ASSUME IInv, UNCHANGED <<phase, genesis, config, tip>>,
         task.pc # "open", task.pc # "failed", task'.pc # "open",
         task.pc \in Fetching => task'.pc \in Fetching
  PROVE  GenesisInv'
<1>1. Configured' = Configured /\ start_mode' = start_mode
  BY DEF Configured, start_mode
<1>. QED  BY <1>1, Zenon DEF IInv, GenesisInv

\* Nor does it touch the chains.
LEMMA ChainsKept ==
  ASSUME IInv, UNCHANGED <<tip, forks, remote, offered>>
  PROVE  ChainsInv'
BY DEF IInv, ChainsInv

\* A failure: the process ends during startup, only the task afterwards.
LEMMA Failing ==
  ASSUME IInv, Fail, ChainsInv', UNCHANGED <<config, genesis>>,
         genesis = NoGenesis => tip' = tip
  PROVE  IInv'
<1>1. /\ task' = [task EXCEPT !.pc = "failed"]
      /\ phase' = IF phase = "startup" THEN "exited" ELSE phase
  BY DEF Fail
<1>2. TaskInv' /\ task'.pc = "failed"
  <2>1. /\ task' \in TaskType /\ task'.pc = "failed" /\ task'.batch = task.batch
    BY <1>1 DEF IInv, TaskInv, TaskType, Pcs
  <2>. QED  BY <2>1 DEF IInv, TaskInv
<1>3. GenesisInv'
  <2>1. Configured' = Configured
    BY DEF Configured
  <2>2. phase' \in {"running", "exited"} /\ (phase' = "running" => phase = "running")
    BY <1>1 DEF IInv, GenesisInv
  <2>3. phase = "running" => genesis # NoGenesis /\ Configured
    BY DEF IInv, GenesisInv
  <2>. QED  BY <1>2, <2>1, <2>2, <2>3 DEF IInv, GenesisInv
<1>4. StartInv' /\ TargetInv' /\ SearchInv'
  BY <1>2, Unwatched DEF Watched
<1>. QED  BY <1>2, <1>3, <1>4 DEF IInv

\* A plain change of the program counter outside the search.
LEMMA GotoKeeps ==
  ASSUME IInv, NEW pc \in Pcs \ {"apply", "search", "probe"}, Goto(pc)
  PROVE  TaskInv' /\ task'.pc = pc /\ task'.peer = task.peer /\ task'.target = task.target
         /\ task'.start = task.start
<1>1. /\ task' \in TaskType /\ task'.pc = pc /\ task'.batch = task.batch
      /\ task'.peer = task.peer /\ task'.target = task.target /\ task'.start = task.start
  BY DEF IInv, TaskInv, TaskType, Goto
<1>. QED  BY <1>1 DEF IInv, TaskInv

\* A success: a node that starts serves the block it has, and nothing else moves.
LEMMA Succeeding ==
  ASSUME IInv, Succeed, UNCHANGED <<config, genesis, tip, forks, remote, offered>>,
         genesis # NoGenesis /\ Configured, phase # "exited"
  PROVE  IInv' /\ task'.pc = "done"
<1>1. /\ Goto("done") /\ phase' = IF phase = "startup" THEN "running" ELSE phase
  BY DEF Succeed
<1>2. TaskInv' /\ task'.pc = "done"
  BY <1>1, GotoKeeps DEF Pcs
<1>3. Configured' = Configured /\ phase' = "running"
  BY <1>1 DEF Configured, IInv, GenesisInv
<1>4. GenesisInv'
  BY <1>2, <1>3 DEF IInv, GenesisInv
<1>5. StartInv' /\ TargetInv' /\ SearchInv'
  BY <1>2, Unwatched DEF Watched
<1>. QED  BY <1>2, <1>4, <1>5, ChainsKept DEF IInv

\* confirm_and_save: an error, or the validated block that was asked for.
LEMMA Saving ==
  ASSUME NEW g, NEW accept, NEW pc, Saves(g, accept, pc)
  PROVE  \/ Fail /\ genesis' = genesis
         \/ /\ g \in ValidGenesis /\ genesis' = g /\ Goto(pc) /\ phase' = phase
            /\ genesis # NoGenesis => genesis = g
<1>1. PICK saved \in confirm_and_save(g, accept) :
        IF saved = NoGenesis
          THEN Fail /\ UNCHANGED genesis
          ELSE genesis' = saved /\ Goto(pc) /\ UNCHANGED phase
  BY DEF Saves
<1>2. CASE saved = NoGenesis
  BY <1>1, <1>2
<1>3. CASE saved # NoGenesis
  <2>1. g \in ValidGenesis
    BY <1>1, <1>3 DEF confirm_and_save, validate_genesis
  <2>2. saved = g /\ (genesis # NoGenesis => genesis = g)
    BY <1>1, <1>3, <2>1 DEF confirm_and_save, validate_genesis, Initialized
  <2>. QED  BY <1>1, <1>3, <2>1, <2>2
<1>. QED  BY <1>2, <1>3

\* A stored genesis block is never the marker for none.
LEMMA ValidIsSome == NoGenesis \notin ValidGenesis
BY SyncAssumption, Zenon

----------------------------------------------------------------------------
(***************************************************************************)
(* Startup.                                                                *)
(***************************************************************************)

\* A block that was configured and saved settles the configuration.
LEMMA OpenStorage_Step ==
  ASSUME IInv, OpenStorage
  PROVE  IInv'
<1>1. UNCHANGED <<config, tip, forks, remote, offered, excused>> /\ task.pc = "open"
  BY Zenon DEF OpenStorage
<1>2. ChainsInv'
  BY <1>1, ChainsKept
<1>3. ASSUME Fail, genesis' = genesis PROVE IInv'
  BY <1>1, <1>2, <1>3, Failing
<1>4. ASSUME Goto("connected"), phase' = phase, genesis' \in ValidGenesis \cup {NoGenesis},
             genesis' = NoGenesis => genesis = NoGenesis,
             \/ genesis' # NoGenesis /\ config.genesis \in {NoGenesis, genesis'}
             \/ genesis' = NoGenesis /\ start_mode = "Join"
      PROVE  IInv'
  <2>1. TaskInv' /\ task'.pc = "connected"
    BY <1>4, GotoKeeps DEF Pcs
  <2>2. start_mode' = start_mode
    BY <1>1 DEF start_mode
  <2>3. phase = "startup"
    BY <1>1 DEF IInv, GenesisInv
  <2>4. GenesisInv'
    BY <1>1, <1>4, <2>1, <2>2, <2>3 DEF IInv, GenesisInv, Configured, Fetching
  <2>5. StartInv' /\ TargetInv' /\ SearchInv'
    BY <2>1, Unwatched DEF Watched
  <2>. QED  BY <1>2, <2>1, <2>4, <2>5 DEF IInv
<1>5. genesis \in ValidGenesis \cup {NoGenesis} /\ NoGenesis \notin ValidGenesis
  BY ValidIsSome DEF IInv, GenesisInv
<1>6. ASSUME Saves(config.genesis, config.accept, "connected") PROVE IInv'
  <2>1. CASE Fail /\ genesis' = genesis
    BY <1>3, <2>1
  <2>2. CASE config.genesis \in ValidGenesis /\ genesis' = config.genesis /\ Goto("connected")
             /\ phase' = phase
    BY <1>4, <1>5, <2>2
  <2>. QED  BY <1>6, <2>1, <2>2, Saving
<1>7. CASE Initialized /\ ~config.identity
  <2>1. Fail /\ genesis' = genesis
    BY <1>7, Zenon DEF OpenStorage
  <2>. QED  BY <1>3, <2>1
<1>8. CASE Initialized /\ config.identity /\ config.genesis = NoGenesis
  <2>1. Goto("connected") /\ UNCHANGED <<genesis, phase>>
    BY <1>8, Zenon DEF OpenStorage
  <2>. QED  BY <1>4, <1>5, <1>8, <2>1 DEF Initialized
<1>9. CASE Initialized /\ config.identity /\ config.genesis # NoGenesis
  <2>1. Saves(config.genesis, config.accept, "connected")
    BY <1>9, Zenon DEF OpenStorage
  <2>. QED  BY <1>6, <2>1
<1>10. CASE ~Initialized /\ start_mode = "Bootstrap"
  <2>1. IF config.genesis = NoGenesis THEN Fail /\ UNCHANGED genesis
        ELSE Saves(config.genesis, config.accept, "connected")
    BY <1>10, Zenon DEF OpenStorage
  <2>. QED  BY <1>3, <1>6, <2>1
<1>11. CASE ~Initialized /\ start_mode = "Join"
  <2>1. Goto("connected") /\ UNCHANGED <<genesis, phase>>
    BY <1>11, Zenon DEF OpenStorage
  <2>. QED  BY <1>4, <1>5, <1>11, <2>1 DEF Initialized
<1>12. start_mode \in {"Bootstrap", "Join"}
  BY DEF IInv, GenesisInv, start_mode
<1>. QED  BY <1>7, <1>8, <1>9, <1>10, <1>11, <1>12

\* A bootstrap node serves the block it saved.
LEMMA bootstrap_Step ==
  ASSUME IInv, bootstrap
  PROVE  IInv'
<1>1. /\ UNCHANGED <<config, genesis, tip, forks, remote, offered>>
      /\ task.pc = "connected" /\ start_mode = "Bootstrap" /\ Succeed
  BY Zenon DEF bootstrap, local
<1>2. genesis # NoGenesis /\ Configured /\ phase # "exited"
  BY <1>1 DEF IInv, GenesisInv
<1>. QED  BY <1>1, <1>2, Succeeding

\* A storage that cannot be read ends the task.
LEMMA StorageFails_Step ==
  ASSUME IInv, StorageFails
  PROVE  IInv'
<1>1. UNCHANGED <<config, genesis, tip, forks, remote, offered>> /\ Fail
  BY Zenon DEF StorageFails, local
<1>. QED  BY <1>1, Failing, ChainsKept

\* The search is going to start from the local tip.
LEMMA synchronize_Step ==
  ASSUME IInv, synchronize
  PROVE  IInv'
<1>1. UNCHANGED <<config, genesis, tip, forks, remote, phase, offered, excused>>
  BY Zenon DEF synchronize, local
<1>2. task.pc = "connected" /\ task' = [task EXCEPT !.pc = "query", !.start = tip]
  BY DEF synchronize
<1>3. /\ task' \in TaskType /\ task'.pc = "query" /\ task'.start = tip
      /\ task'.batch = task.batch
  BY <1>2 DEF IInv, ChainsInv, TaskInv, TaskType, Pcs
<1>4. TaskInv'
  BY <1>3 DEF IInv, TaskInv
<1>5. GenesisInv'
  BY <1>1, <1>2, <1>3, GenesisKept DEF Fetching
<1>6. StartInv' /\ TargetInv' /\ SearchInv'
  BY <1>1, <1>3, NoSearch DEF StartInv, TargetInv
<1>. QED  BY <1>1, <1>4, <1>5, <1>6, ChainsKept DEF IInv

\* The peers that advertise the service are listed.
LEMMA query_sync_peers_Step ==
  ASSUME IInv, query_sync_peers
  PROVE  IInv'
<1>1. UNCHANGED <<config, genesis, tip, forks, remote, phase, excused>>
  BY Zenon DEF query_sync_peers, local
<1>2. PICK ps \in SUBSET Peers : task' = [task EXCEPT !.pc = "ask", !.ask = ps]
  BY DEF query_sync_peers
<1>3. task.pc = "query" /\ offered' = {}
  BY DEF query_sync_peers
<1>4. /\ task' \in TaskType /\ task'.pc = "ask" /\ task'.start = task.start
      /\ task'.batch = task.batch
  BY <1>2 DEF IInv, TaskInv, TaskType, Pcs
<1>5. TaskInv'
  BY <1>4 DEF IInv, TaskInv
<1>6. GenesisInv'
  BY <1>1, <1>3, <1>4, GenesisKept DEF Fetching
<1>7. StartInv' /\ TargetInv' /\ SearchInv'
  BY <1>1, <1>3, <1>4, NoSearch DEF IInv, StartInv, TargetInv
<1>8. ChainsInv'
  BY <1>1, <1>3 DEF IInv, ChainsInv
<1>. QED  BY <1>5, <1>6, <1>7, <1>8 DEF IInv

\* One peer of the list becomes a candidate or is skipped.
LEMMA CheckPeer_Step ==
  ASSUME IInv, CheckPeer
  PROVE  IInv'
<1>1. UNCHANGED <<config, genesis, tip, forks, remote, phase, excused>> /\ task.pc = "ask"
  BY Zenon DEF CheckPeer, local
<1>2. PICK p \in task.ask :
        /\ task' = [task EXCEPT !.ask = @ \ {p}]
        /\ offered' = offered \/ offered' = offered \cup {[peer |-> p, chain |-> remote[p]]}
  BY DEF CheckPeer, Unreachable
<1>3. p \in Peers
  BY DEF IInv, TaskInv, TaskType
<1>4. /\ task' \in TaskType /\ task'.pc = "ask" /\ task'.start = task.start
      /\ task'.batch = task.batch
  BY <1>1, <1>2 DEF IInv, TaskInv, TaskType
<1>5. TaskInv'
  BY <1>4 DEF IInv, TaskInv
<1>6. GenesisInv'
  BY <1>1, <1>4, GenesisKept DEF Fetching
<1>7. StartInv' /\ TargetInv' /\ SearchInv'
  BY <1>1, <1>4, NoSearch DEF IInv, StartInv, TargetInv
<1>8. ChainsInv'
  <2>1. [peer |-> p, chain |-> remote[p]] \in Offers
    BY <1>3 DEF IInv, ChainsInv, Offers
  <2>. QED  BY <1>1, <1>2, <2>1 DEF IInv, ChainsInv
<1>. QED  BY <1>5, <1>6, <1>7, <1>8 DEF IInv

\* Nobody to ask: again, or the end of the process.
LEMMA NoCandidate_Step ==
  ASSUME IInv, NoCandidate
  PROVE  IInv'
<1>1. UNCHANGED <<config, genesis, tip, forks, remote, offered, excused>> /\ task.pc = "ask"
  BY Zenon DEF NoCandidate, local
<1>2. CASE Fail
  BY <1>1, <1>2, Failing, ChainsKept
<1>3. CASE /\ task.attempt < MaxDiscovery /\ phase' = phase
           /\ task' = [task EXCEPT !.pc = "query", !.attempt = @ + 1]
  <2>0. MaxAttempts \in Nat /\ MaxAttempts >= MaxDiscovery /\ MaxDiscovery \in Nat
    BY Attempts, Bounds, Zenon
  <2>1. task.attempt + 1 \in 1..MaxAttempts
    BY <1>3, <2>0 DEF IInv, TaskInv, TaskType
  <2>2. /\ task' \in TaskType /\ task'.pc = "query" /\ task'.start = task.start
        /\ task'.batch = task.batch
    BY <1>3, <2>1 DEF IInv, TaskInv, TaskType, Pcs
  <2>3. TaskInv'
    BY <2>2 DEF IInv, TaskInv
  <2>4. GenesisInv'
    BY <1>1, <1>3, <2>2, GenesisKept DEF Fetching
  <2>5. StartInv' /\ TargetInv' /\ SearchInv'
    BY <1>1, <1>3, <2>2, NoSearch DEF IInv, StartInv, TargetInv
  <2>. QED  BY <1>1, <2>3, <2>4, <2>5, ChainsKept DEF IInv
<1>4. task.attempt \in Nat /\ MaxDiscovery \in Nat
  BY Attempts, Bounds DEF IInv, TaskInv, TaskType
<1>. QED  BY <1>2, <1>3, <1>4 DEF NoCandidate

\* The best candidate; its chain may have been replaced since it was offered.
LEMMA PickBestPeer_Step ==
  ASSUME IInv, PickBestPeer
  PROVE  IInv'
<1>1. UNCHANGED <<config, genesis, tip, forks, remote, phase, offered>> /\ task.pc = "ask"
  BY Zenon DEF PickBestPeer, local
<1>2. PICK c \in offered :
        /\ task' = [task EXCEPT !.pc = "genesis", !.peer = c.peer, !.target = c.chain]
        /\ excused' = IF IsPrefix(c.chain, remote[c.peer]) THEN {} ELSE {"remote"}
  BY DEF PickBestPeer
<1>3. c.peer \in Peers /\ c.chain \in Chains
  BY DEF IInv, ChainsInv, Offers
<1>4. /\ task' \in TaskType /\ task'.pc = "genesis" /\ task'.start = task.start
      /\ task'.batch = task.batch /\ task'.peer = c.peer /\ task'.target = c.chain
  BY <1>2, <1>3 DEF IInv, TaskInv, TaskType, Pcs
<1>5. TaskInv'
  BY <1>4 DEF IInv, TaskInv
<1>6. GenesisInv'
  BY <1>1, <1>4, GenesisKept DEF Fetching
<1>7. StartInv' /\ SearchInv'
  BY <1>1, <1>4, NoSearch DEF IInv, StartInv
<1>8. TargetInv'
  BY <1>1, <1>2, <1>4 DEF TargetInv
<1>. QED  BY <1>1, <1>5, <1>6, <1>7, <1>8, ChainsKept DEF IInv

\* A joining node saves the genesis block of the peer, or compares its own.
LEMMA ensure_genesis_Step ==
  ASSUME IInv, ensure_genesis
  PROVE  IInv'
<1> DEFINE g == GenesisOf[task.peer]
<1>1. /\ UNCHANGED <<config, tip, forks, remote, offered, excused>>
      /\ task.pc = "genesis" /\ phase = "startup"
  BY Zenon DEF ensure_genesis
<1>2. ChainsInv'
  BY <1>1, ChainsKept
<1>3. ASSUME Fail, genesis' = genesis PROVE IInv'
  BY <1>1, <1>2, <1>3, Failing
<1>4. ASSUME Goto("compare"), phase' = phase, genesis' \in ValidGenesis, genesis' = g,
             genesis # NoGenesis => genesis' = genesis
      PROVE  IInv'
  <2>1. /\ TaskInv' /\ task'.pc = "compare" /\ task'.peer = task.peer
        /\ task'.target = task.target /\ task'.start = task.start
    BY <1>4, GotoKeeps DEF Pcs
  <2>2. Configured'
    <3>1. task.peer \in Peers
      BY DEF IInv, TaskInv, TaskType
    <3>2. CASE genesis # NoGenesis
      <4>1. Configured
        BY <1>1, <3>2 DEF IInv, GenesisInv
      <4>. QED  BY <1>1, <1>4, <3>2, <4>1 DEF Configured
    <3>3. CASE genesis = NoGenesis
      <4>1. start_mode = "Join"
        BY <1>1, <3>3 DEF IInv, GenesisInv
      <4>2. config.mode = "Join" \/ config.genesis = NoGenesis
        BY <4>1 DEF start_mode
      <4>. QED  BY <1>1, <1>4, <3>1, <4>2 DEF Configured
    <3>. QED  BY <3>2, <3>3
  <2>3. GenesisInv'
    BY <1>1, <1>4, <2>1, <2>2, ValidIsSome DEF IInv, GenesisInv
  <2>4. StartInv' /\ TargetInv' /\ SearchInv'
    BY <1>1, <1>4, <2>1, NoSearch DEF IInv, StartInv, TargetInv
  <2>. QED  BY <1>2, <2>1, <2>3, <2>4 DEF IInv
<1>5. CASE genesis = NoGenesis
  <2>1. Saves(g, TRUE, "compare")
    BY <1>5 DEF ensure_genesis, Initialized
  <2>. QED  BY <1>3, <1>4, <1>5, <2>1, Saving
<1>6. CASE genesis # NoGenesis /\ g = genesis
  <2>1. Goto("compare") /\ UNCHANGED <<genesis, phase>>
    BY <1>6 DEF ensure_genesis, Initialized
  <2>2. genesis \in ValidGenesis
    BY <1>6 DEF IInv, GenesisInv
  <2>. QED  BY <1>4, <1>6, <2>1, <2>2
<1>7. CASE genesis # NoGenesis /\ g # genesis
  <2>1. Fail /\ genesis' = genesis
    BY <1>7 DEF ensure_genesis, Initialized
  <2>. QED  BY <1>3, <2>1
<1>. QED  BY <1>5, <1>6, <1>7

----------------------------------------------------------------------------
(***************************************************************************)
(* The synchronisation of a running node, up to the comparison of tips.    *)
(***************************************************************************)

\* A running node serves, so its genesis block is settled.
LEMMA ChainTipAnnounced_Step ==
  ASSUME IInv, ChainTipAnnounced
  PROVE  IInv'
<1>1. /\ UNCHANGED <<config, genesis, tip, forks, remote, phase>>
      /\ phase = "running" /\ offered' = {} /\ excused' = {}
  BY Zenon DEF ChainTipAnnounced, local
<1>2. PICK p \in Peers : task' = [NoTask EXCEPT !.pc = "connect", !.peer = p]
  BY DEF ChainTipAnnounced
<1>3. task' = [pc |-> "connect", peer |-> p, attempt |-> 1, ask |-> {}, target |-> <<>>,
               start |-> <<>>, low |-> 0, high |-> 0, best |-> 0, seen |-> <<>>,
               next |-> 0, batch |-> <<>>]
  BY <1>2 DEF NoTask
<1>4. /\ 1 \in 1..MaxAttempts /\ 0 \in 0..MaxHeight /\ 0 \in 0..MaxHeight + 1
      /\ Limit \in Nat /\ PeerBatch \in Nat /\ MaxHeight \in Nat
  BY Attempts, Bounds
<1>5. <<>> \in Seq(Chains) /\ Len(<<>>) = 0
  OBVIOUS
<1>6. task' \in TaskType /\ task'.pc = "connect" /\ task'.batch = <<>>
  BY <1>3, <1>4, <1>5, EmptyChain DEF TaskType, Pcs
<1>7. TaskInv'
  BY <1>4, <1>5, <1>6 DEF TaskInv
<1>8. GenesisInv'
  <2>1. genesis # NoGenesis /\ Configured
    BY <1>1 DEF IInv, GenesisInv
  <2>2. Configured' = Configured
    BY <1>1 DEF Configured
  <2>. QED  BY <1>1, <1>6, <2>1, <2>2 DEF IInv, GenesisInv
<1>9. StartInv' /\ TargetInv' /\ SearchInv'
  BY <1>1, <1>6, NoSearch DEF StartInv, TargetInv
<1>10. ChainsInv'
  BY <1>1 DEF IInv, ChainsInv
<1>. QED  BY <1>7, <1>8, <1>9, <1>10 DEF IInv

\* The source peer is retried, then another one is looked for.
LEMMA connect_sync_peer_Step ==
  ASSUME IInv, connect_sync_peer
  PROVE  IInv'
<1>1. /\ UNCHANGED <<config, genesis, tip, forks, remote, phase, offered, excused>>
      /\ task.pc = "connect"
  BY Zenon DEF connect_sync_peer, local
<1>2. TaskInv' /\ task'.pc \in {"connect", "info", "fallback"}
  <2>1. CASE Goto("info") \/ Goto("fallback")
    BY <2>1, GotoKeeps DEF Pcs
  <2>2. CASE task.attempt < MaxConnects /\ task' = [task EXCEPT !.attempt = @ + 1]
    <3>0. MaxAttempts \in Nat /\ MaxAttempts >= MaxConnects /\ MaxConnects \in Nat
      BY Attempts, Bounds, Zenon
    <3>1. task.attempt + 1 \in 1..MaxAttempts
      BY <2>2, <3>0 DEF IInv, TaskInv, TaskType
    <3>2. task' \in TaskType /\ task'.pc = "connect" /\ task'.batch = task.batch
      BY <1>1, <2>2, <3>1 DEF IInv, TaskInv, TaskType
    <3>. QED  BY <3>2 DEF IInv, TaskInv
  <2>. QED  BY <2>1, <2>2 DEF connect_sync_peer
<1>3. GenesisInv'
  BY <1>1, <1>2, GenesisKept DEF Fetching
<1>4. phase = "running"
  BY <1>1 DEF IInv, StartInv
<1>5. StartInv' /\ TargetInv' /\ SearchInv'
  BY <1>1, <1>2, <1>4, NoSearch DEF StartInv, TargetInv
<1>. QED  BY <1>1, <1>2, <1>3, <1>5, ChainsKept DEF IInv

\* Any other peer will do.
LEMMA connect_fallback_sync_peer_Step ==
  ASSUME IInv, connect_fallback_sync_peer
  PROVE  IInv'
<1>1. /\ UNCHANGED <<config, genesis, tip, forks, remote, phase, offered, excused>>
      /\ task.pc = "fallback"
  BY Zenon DEF connect_fallback_sync_peer, local
<1>2. TaskInv' /\ task'.pc \in {"info", "failed"}
  <2>1. CASE Goto("failed")
    BY <2>1, GotoKeeps DEF Pcs
  <2>2. CASE \E p \in Peers \ {task.peer} : task' = [task EXCEPT !.pc = "info", !.peer = p]
    <3>1. task' \in TaskType /\ task'.pc = "info" /\ task'.batch = task.batch
      BY <2>2 DEF IInv, TaskInv, TaskType, Pcs
    <3>. QED  BY <3>1 DEF IInv, TaskInv
  <2>. QED  BY <2>1, <2>2 DEF connect_fallback_sync_peer
<1>3. GenesisInv'
  BY <1>1, <1>2, GenesisKept DEF Fetching
<1>4. phase = "running"
  BY <1>1 DEF IInv, StartInv
<1>5. StartInv' /\ TargetInv' /\ SearchInv'
  BY <1>1, <1>2, <1>4, NoSearch DEF StartInv, TargetInv
<1>. QED  BY <1>1, <1>2, <1>3, <1>5, ChainsKept DEF IInv

\* The target is what the peer holds at that moment.
LEMMA request_chain_info_Step ==
  ASSUME IInv, request_chain_info
  PROVE  IInv'
<1>1. /\ UNCHANGED <<config, genesis, tip, forks, remote, phase, excused>>
      /\ task.pc = "info"
  BY Zenon DEF request_chain_info, local
<1>2. task.peer \in Peers /\ remote[task.peer] \in Chains
  BY DEF IInv, TaskInv, TaskType, ChainsInv
<1>3. phase = "running"
  BY <1>1 DEF IInv, StartInv
<1>4. CASE Goto("failed") /\ offered' = offered
  <2>1. TaskInv' /\ task'.pc = "failed"
    BY <1>4, GotoKeeps DEF Pcs
  <2>2. GenesisInv'
    BY <1>1, <2>1, GenesisKept DEF Fetching
  <2>3. StartInv' /\ TargetInv' /\ SearchInv'
    BY <2>1, Unwatched DEF Watched
  <2>. QED  BY <1>1, <1>4, <2>1, <2>2, <2>3, ChainsKept DEF IInv
<1>5. CASE /\ task' = [task EXCEPT !.pc = "genesis", !.target = remote[task.peer]]
           /\ offered' = {[peer |-> task.peer, chain |-> remote[task.peer]]}
  <2> DEFINE c == remote[task.peer]
  <2>1. c \in Chains /\ task' = [task EXCEPT !.pc = "genesis", !.target = c]
    BY <1>2, <1>5
  <2> HIDE DEF c
  <2>2. /\ task' \in TaskType /\ task'.pc = "genesis" /\ task'.batch = task.batch
        /\ task'.peer = task.peer /\ task'.target = c
    BY <2>1 DEF IInv, TaskInv, TaskType, Pcs
  <2>3. TaskInv'
    BY <2>2 DEF IInv, TaskInv
  <2>4. GenesisInv'
    BY <1>1, <2>2, GenesisKept DEF Fetching
  <2>5. StartInv' /\ SearchInv'
    BY <1>1, <1>3, <2>2, NoSearch DEF StartInv
  <2>6. TargetInv'
    BY <1>1, <1>2, <2>2, PrefixTrivial DEF TargetInv, c
  <2>7. ChainsInv'
    BY <1>1, <1>2, <1>5 DEF IInv, ChainsInv, Offers
  <2>. QED  BY <2>3, <2>4, <2>5, <2>6, <2>7 DEF IInv
<1>. QED  BY <1>4, <1>5 DEF request_chain_info

\* A running node only compares genesis blocks.
LEMMA CompareGenesis_Step ==
  ASSUME IInv, CompareGenesis
  PROVE  IInv'
<1>1. /\ UNCHANGED <<config, genesis, tip, forks, remote, phase, offered, excused>>
      /\ task.pc = "genesis" /\ phase = "running"
  BY Zenon DEF CompareGenesis, local
<1>2. Goto("tip") \/ Goto("failed")
  BY DEF CompareGenesis
<1>3. /\ TaskInv' /\ task'.pc \in {"tip", "failed"} /\ task'.peer = task.peer
      /\ task'.target = task.target
  BY <1>2, GotoKeeps DEF Pcs
<1>4. GenesisInv'
  <2>1. genesis # NoGenesis /\ Configured
    BY <1>1 DEF IInv, GenesisInv
  <2>2. Configured' = Configured
    BY <1>1 DEF Configured
  <2>. QED  BY <1>1, <1>3, <2>1, <2>2 DEF IInv, GenesisInv
<1>5. StartInv' /\ TargetInv' /\ SearchInv'
  BY <1>1, <1>3, NoSearch DEF IInv, StartInv, TargetInv
<1>. QED  BY <1>1, <1>3, <1>4, <1>5, ChainsKept DEF IInv

\* The local side of the search is read once.
LEMMA ReadTip_Step ==
  ASSUME IInv, ReadTip
  PROVE  IInv'
<1>1. /\ UNCHANGED <<config, genesis, tip, forks, remote, phase, offered>>
      /\ task.pc = "tip" /\ excused' = excused \ {"local"}
  BY Zenon DEF ReadTip, local
<1>2. PICK pc \in {"done", "compare"} : task' = [task EXCEPT !.start = tip, !.pc = pc]
  BY DEF ReadTip
<1>3. /\ task' \in TaskType /\ task'.pc = pc /\ task'.batch = task.batch
      /\ task'.peer = task.peer /\ task'.target = task.target /\ task'.start = tip
  BY <1>2 DEF IInv, TaskInv, TaskType, Pcs, ChainsInv
<1>4. TaskInv'
  BY <1>3 DEF IInv, TaskInv
<1>5. GenesisInv'
  BY <1>1, <1>3, GenesisKept DEF Fetching
<1>6. IsPrefix(tip, tip) /\ phase = "running"
  BY <1>1, PrefixTrivial DEF IInv, ChainsInv, StartInv
<1>7. StartInv' /\ SearchInv'
  BY <1>1, <1>3, <1>6, NoSearch DEF StartInv
<1>8. TargetInv'
  BY <1>1, <1>3 DEF IInv, TargetInv
<1>. QED  BY <1>1, <1>4, <1>5, <1>7, <1>8, ChainsKept DEF IInv

----------------------------------------------------------------------------
(***************************************************************************)
(* The search for the common ancestor.                                     *)
(***************************************************************************)

\* The search ends at the height of the shorter chain.
LEMMA SearchEnd ==
  ASSUME NEW t \in TaskType
  PROVE  /\ Min({Len(t.target), Len(t.start)}) \in 0..MaxHeight
         /\ Min({Len(t.target), Len(t.start)}) <= Len(t.target)
         /\ Min({Len(t.target), Len(t.start)}) <= Len(t.start)
<1> DEFINE a == Len(t.target)
           b == Len(t.start)
<1>1. a \in 0..MaxHeight /\ b \in 0..MaxHeight /\ a \in Nat /\ b \in Nat
  BY ChainLen DEF TaskType
<1> HIDE DEF a, b
<1>2. Min({a, b}) \in {a, b} /\ Min({a, b}) <= a /\ Min({a, b}) <= b
  <2>1. a \in Int /\ b \in Int
    BY <1>1
  <2>. QED  BY <2>1, TwoMin, Zenon
<1>3. Min({a, b}) \in 0..MaxHeight
  BY <1>1, <1>2
<1>. QED  BY <1>2, <1>3, Zenon DEF a, b

\* Chains that agree at a height agree below it.
LEMMA SameBelow ==
  ASSUME IInv, NEW h \in Nat, Same(h), NEW k \in Nat, k <= h
  PROVE  Same(k)
<1> DEFINE r == remote[task.peer]
<1>1. tip \in Chains /\ r \in Chains /\ Len(tip) \in Nat /\ Len(r) \in Nat
  BY ChainLen DEF IInv, ChainsInv, TaskInv, TaskType
<1>2. h <= Len(tip) /\ h <= Len(r) /\ AtHeight(tip, h) = AtHeight(r, h)
  BY DEF Same
<1> HIDE DEF r
<1>3. \A i \in 1..h : tip[i] = r[i]
  BY <1>1, <1>2, CutsEqual
<1>4. k <= Len(tip) /\ k <= Len(r) /\ \A i \in 1..k : tip[i] = r[i]
  BY <1>1, <1>2, <1>3
<1>5. AtHeight(tip, k) = AtHeight(r, k)
  BY <1>1, <1>4, CutsEqual
<1>. QED  BY <1>4, <1>5 DEF Same, r

\* Growing does not change what a chain holds at a height.
LEMMA GrownCut ==
  ASSUME NEW c \in Chains, NEW d \in Chains, IsPrefix(c, d), NEW h \in Nat, h <= Len(c)
  PROVE  h <= Len(d) /\ AtHeight(d, h) = AtHeight(c, h)
<1>1. Len(c) <= Len(d) /\ \A i \in 1..Len(c) : c[i] = d[i]
  BY PrefixIff
<1>2. Len(c) \in Nat /\ Len(d) \in Nat
  BY ChainLen
<1>3. h <= Len(d) /\ \A i \in 1..h : c[i] = d[i]
  BY <1>1, <1>2
<1>. QED  BY <1>3, CutsEqual

\* When the task stands still and both chains only grow, the search stays
\* bracketed: below low they agree still, and above high they differ still,
\* because those heights were within both chains already.
LEMMA GrowthKeepsSearch ==
  ASSUME IInv, ChainsInv', task' = task, IsPrefix(tip, tip'),
         IsPrefix(remote[task.peer], remote'[task.peer]), excused = {},
         task.pc \in {"search", "probe"}, phase # "exited"
  PROVE  /\ Bracketed'
         /\ task.pc = "probe" => Mid' <= Len(tip') /\ task'.seen = AtHeight(tip', Mid')
<1> DEFINE r == remote[task.peer]
           s == remote'[task.peer]
           n == Min({RemoteHeight, LocalHeight})
<1>1. /\ tip \in Chains /\ tip' \in Chains /\ r \in Chains /\ s \in Chains
      /\ task \in TaskType /\ task.peer \in Peers
  BY DEF IInv, ChainsInv, TaskInv, TaskType
<1>2. /\ Len(tip) \in Nat /\ Len(tip') \in Nat /\ Len(r) \in Nat /\ Len(s) \in Nat
      /\ Len(task.target) \in Nat /\ Len(task.start) \in Nat
      /\ task.target \in Chains /\ task.start \in Chains
  BY <1>1, ChainLen DEF TaskType
<1>3. IsPrefix(task.start, tip) /\ IsPrefix(task.target, r)
  <2>1. phase \in {"startup", "running"}
    BY DEF IInv, GenesisInv
  <2>2. IsPrefix(task.start, tip)
    <3>1. CASE phase = "startup"
      BY <1>1, <3>1, PrefixTrivial DEF IInv, StartInv
    <3>2. CASE phase = "running"
      BY <3>2 DEF IInv, StartInv
    <3>. QED  BY <2>1, <3>1, <3>2
  <2>3. IsPrefix(task.target, r)
    BY DEF IInv, TargetInv
  <2>. QED  BY <2>2, <2>3
<1>4. n \in Nat /\ n <= Len(tip) /\ n <= Len(r)
  <2>1. n \in 0..MaxHeight /\ n <= Len(task.target) /\ n <= Len(task.start)
    BY <1>1, SearchEnd, Zenon DEF RemoteHeight, LocalHeight
  <2>2. Len(task.start) <= Len(tip) /\ Len(task.target) <= Len(r)
    BY <1>1, <1>2, <1>3, PrefixIff
  <2> HIDE DEF n, r
  <2>. QED  BY <1>2, <2>1, <2>2
<1>5. \A h \in Nat : h <= Len(tip) => h <= Len(tip') /\ AtHeight(tip', h) = AtHeight(tip, h)
  BY <1>1, GrownCut
<1>6. \A h \in Nat : h <= Len(r) => h <= Len(s) /\ AtHeight(s, h) = AtHeight(r, h)
  <2> HIDE DEF r, s
  <2>. QED  BY <1>1, GrownCut DEF r, s
<1>7. Bracketed
  BY DEF IInv, SearchInv
<1>8. /\ \A h \in Nat : Same(h) <=> /\ h <= Len(tip) /\ h <= Len(r)
                                    /\ AtHeight(tip, h) = AtHeight(r, h)
      /\ \A h \in Nat : Same(h)' <=> /\ h <= Len(tip') /\ h <= Len(s)
                                     /\ AtHeight(tip', h) = AtHeight(s, h)
  BY Zenon DEF Same
<1>9. Min({RemoteHeight, LocalHeight})' = n
  BY DEF RemoteHeight, LocalHeight
<1>10. task.low \in Nat /\ task.high \in Nat /\ Len(task.batch) \in Nat
  BY <1>1 DEF TaskType
<1> HIDE DEF r, s, n
<1>11. \A h \in Nat : Same(h) => Same(h)'
  BY <1>5, <1>6, <1>8, Zenon
<1>12. \A h \in Nat : h <= Len(tip) /\ h <= Len(r) /\ ~Same(h) => ~Same(h)'
  BY <1>5, <1>6, <1>8, Zenon
<1>13. \A h \in 0 .. task.low - 1 : Same(h)'
  <2>1. \A h \in 0 .. task.low - 1 : h \in Nat /\ Same(h)
    BY <1>7, <1>10 DEF Bracketed
  <2>. QED  BY <1>11, <2>1, Zenon
<1>14. \A h \in task.high + 1 .. n : ~Same(h)'
  <2>1. \A h \in task.high + 1 .. n : h \in Nat /\ h <= Len(tip) /\ h <= Len(r)
    BY <1>2, <1>4, <1>10
  <2>2. \A h \in task.high + 1 .. n : ~Same(h)
    BY <1>7, Zenon DEF Bracketed, n
  <2>. QED  BY <1>12, <2>1, <2>2, Zenon
<1>15. Bracketed'
  BY <1>7, <1>9, <1>13, <1>14, Zenon DEF Bracketed
<1>16. ASSUME task.pc = "probe"
       PROVE  Mid' <= Len(tip') /\ task'.seen = AtHeight(tip', Mid')
  <2>1. Mid <= Len(tip) /\ task.seen = AtHeight(tip, Mid)
    BY <1>16 DEF IInv, SearchInv
  <2>2. Mid \in Nat /\ Mid' = Mid
    <3>1. task.low <= task.high
      BY <1>16 DEF IInv, TaskInv
    <3>. QED  BY <1>10, <3>1 DEF Mid
  <2>. QED  BY <1>5, <2>1, <2>2
<1>. QED  BY <1>15, <1>16

\* The middle is between the bounds.
LEMMA MidBetween ==
  ASSUME task \in TaskType, task.low <= task.high
  PROVE  Mid \in Nat /\ task.low <= Mid /\ Mid <= task.high /\ Mid \in 0..MaxHeight
<1>0. MaxHeight \in Nat
  BY Bounds, Zenon
<1>1. task.low \in Nat /\ task.high \in Nat /\ task.high <= MaxHeight
  BY <1>0 DEF TaskType
<1>. QED  BY <1>0, <1>1 DEF Mid

\* The peer includes our tip, or the whole common height is searched.
LEMMA CompareTip_Step ==
  ASSUME IInv, CompareTip
  PROVE  IInv'
<1>1. /\ UNCHANGED <<config, genesis, tip, forks, remote, phase, offered, excused>>
      /\ task.pc = "compare"
  BY Zenon DEF CompareTip, local
<1>2. task \in TaskType /\ MaxHeight \in Nat
  BY Bounds, Zenon DEF IInv, TaskInv
<1>3. CASE task' = [task EXCEPT !.pc = "fetch", !.next = LocalHeight + 1]
  <2>1. LocalHeight + 1 \in 0..MaxHeight + 1
    <3>1. LocalHeight \in 0..MaxHeight
      BY <1>2, ChainLen DEF LocalHeight, TaskType
    <3>. QED  BY <1>2, <3>1
  <2>2. task' \in TaskType /\ task'.pc = "fetch" /\ task'.batch = task.batch
    BY <1>2, <1>3, <2>1 DEF TaskType, Pcs
  <2>3. TaskInv'
    BY <2>2 DEF IInv, TaskInv
  <2>4. GenesisInv'
    BY <1>1, <2>2, GenesisKept DEF Fetching
  <2>5. StartInv' /\ TargetInv' /\ SearchInv'
    BY <2>2, Unwatched DEF Watched
  <2>. QED  BY <1>1, <2>3, <2>4, <2>5, ChainsKept DEF IInv
<1>4. CASE task' = SearchFrom(task)
  <2> DEFINE n == Min({Len(task.target), Len(task.start)})
  <2>1. n \in 0..MaxHeight /\ n <= Len(task.target) /\ n <= Len(task.start)
    BY <1>2, SearchEnd, Zenon
  <2>2. task' = [task EXCEPT !.pc = "search", !.low = 0, !.best = 0, !.high = n]
    BY <1>4 DEF SearchFrom
  <2> HIDE DEF n
  <2>3. /\ task' \in TaskType /\ task'.pc = "search" /\ task'.batch = task.batch
        /\ task'.low = 0 /\ task'.high = n /\ task'.target = task.target
        /\ task'.start = task.start /\ task'.peer = task.peer
    <3>1. 0 \in 0..MaxHeight /\ 0 \in 0..MaxHeight + 1
      BY <1>2
    <3>. QED  BY <1>2, <2>1, <2>2, <3>1 DEF TaskType, Pcs
  <2>4. TaskInv'
    BY <1>2, <2>1, <2>3 DEF IInv, TaskInv
  <2>5. GenesisInv'
    BY <1>1, <2>3, GenesisKept DEF Fetching
  <2>6. StartInv' /\ TargetInv'
    BY <1>1, <2>3 DEF IInv, StartInv, TargetInv
  <2>7. SearchInv'
    <3>1. Min({RemoteHeight, LocalHeight})' = n
      BY <2>3, Zenon DEF RemoteHeight, LocalHeight, n
    <3>2. 0..(0 - 1) = {} /\ n + 1 .. n = {} /\ ~(0 > 0)
      BY <1>2, <2>1
    <3>3. Bracketed'
      BY <2>3, <3>1, <3>2, Zenon DEF Bracketed
    <3>. QED  BY <2>3, <3>3 DEF SearchInv
  <2>. QED  BY <1>1, <2>4, <2>5, <2>6, <2>7, ChainsKept DEF IInv
<1>. QED  BY <1>3, <1>4 DEF CompareTip

\* The local block is read before the peer's is requested.
LEMMA ReadLocalBlock_Step ==
  ASSUME IInv, ReadLocalBlock
  PROVE  IInv'
<1>1. /\ UNCHANGED <<config, genesis, tip, forks, remote, offered, excused>>
      /\ task.pc = "search" /\ task.low <= task.high
  BY Zenon DEF ReadLocalBlock, local
<1>2. CASE Fail
  BY <1>1, <1>2, Failing, ChainsKept
<1>3. CASE /\ Mid <= Len(tip) /\ phase' = phase
           /\ task' = [task EXCEPT !.pc = "probe", !.seen = AtHeight(tip, Mid)]
  <2> DEFINE s == AtHeight(tip, Mid)
  <2>1. Mid \in Nat
    BY <1>1, MidBetween DEF IInv, TaskInv
  <2>2. s \in Chains /\ task' = [task EXCEPT !.pc = "probe", !.seen = s]
    BY <1>3, <2>1, CutChain DEF IInv, ChainsInv
  <2> HIDE DEF s
  <2>3. /\ task' \in TaskType /\ task'.pc = "probe" /\ task'.batch = task.batch
        /\ task'.low = task.low /\ task'.high = task.high /\ task'.best = task.best
        /\ task'.target = task.target /\ task'.start = task.start /\ task'.peer = task.peer
        /\ task'.seen = s
    BY <2>2 DEF IInv, TaskInv, TaskType, Pcs
  <2>4. TaskInv'
    BY <1>1, <2>3 DEF IInv, TaskInv
  <2>5. GenesisInv'
    BY <1>1, <1>3, <2>3, GenesisKept DEF Fetching
  <2>6. StartInv' /\ TargetInv'
    BY <1>1, <1>3, <2>3 DEF IInv, StartInv, TargetInv
  <2>7. SearchInv'
    <3>1. Mid' = Mid
      BY <2>3 DEF Mid
    <3>2. Bracketed => Bracketed'
      BY <1>1, <2>3, Zenon DEF Bracketed, Same, RemoteHeight, LocalHeight
    <3>. QED  BY <1>1, <1>3, <2>3, <3>1, <3>2 DEF IInv, SearchInv, s
  <2>. QED  BY <1>1, <2>4, <2>5, <2>6, <2>7, ChainsKept DEF IInv
<1>. QED  BY <1>2, <1>3 DEF ReadLocalBlock

\* The half that cannot hold the last common block is dropped.
LEMMA ProbeRemoteBlock_Step ==
  ASSUME IInv, ProbeRemoteBlock
  PROVE  IInv'
<1> DEFINE r == remote[task.peer]
           same == AtHeight(r, Mid) = task.seen
           n == Min({Len(task.target), Len(task.start)})
<1>1. /\ UNCHANGED <<config, genesis, tip, forks, remote, phase, offered, excused>>
      /\ task.pc = "probe" /\ Mid <= Len(r)
  BY Zenon DEF ProbeRemoteBlock, local, Holds
<1>2. /\ task \in TaskType /\ MaxHeight \in Nat /\ task.low <= task.high
      /\ task.low \in Nat /\ task.high \in Nat /\ task.high <= MaxHeight
      /\ task.high <= Len(task.target) /\ task.high <= Len(task.start)
  <2>0. MaxHeight \in Nat
    BY Bounds, Zenon
  <2>. QED  BY <1>1, <2>0 DEF IInv, TaskInv, TaskType
<1>3. Mid \in Nat /\ task.low <= Mid /\ Mid <= task.high /\ Mid \in 0..MaxHeight
  BY <1>2, MidBetween
<1>4. n \in Nat
  BY <1>2, SearchEnd
<1>5. excused = {} => Bracketed /\ (same <=> Same(Mid))
  <2> SUFFICES ASSUME excused = {} PROVE Bracketed /\ (same <=> Same(Mid))
    OBVIOUS
  <2>1. Bracketed /\ Mid <= Len(tip) /\ task.seen = AtHeight(tip, Mid)
    BY <1>1 DEF IInv, SearchInv
  <2>. QED  BY <1>1, <2>1 DEF Same
<1>6. /\ Min({RemoteHeight, LocalHeight}) = n
      /\ task'.target = task.target /\ task'.start = task.start
           => Min({RemoteHeight, LocalHeight})' = n
  BY Zenon DEF RemoteHeight, LocalHeight
<1>7. \/ same /\ task' = [task EXCEPT !.pc = "search", !.best = Mid, !.low = Mid + 1]
      \/ ~same /\ task' = [task EXCEPT !.pc = "found"]
      \/ ~same /\ Mid # 0 /\ task' = [task EXCEPT !.pc = "search", !.high = Mid - 1]
  BY DEF ProbeRemoteBlock
<1> DEFINE m == Mid
<1> HIDE DEF n, same, m
<1>8. CASE same /\ task' = [task EXCEPT !.pc = "search", !.best = m, !.low = m + 1]
  <2>1. m + 1 \in 0..MaxHeight + 1 /\ m \in 0..MaxHeight
    BY <1>2, <1>3 DEF m
  <2>2. /\ task' \in TaskType /\ task'.pc = "search" /\ task'.batch = task.batch
        /\ task'.low = m + 1 /\ task'.best = m /\ task'.high = task.high
        /\ task'.target = task.target /\ task'.start = task.start /\ task'.peer = task.peer
    BY <1>2, <1>8, <2>1 DEF TaskType, Pcs
  <2>3. TaskInv'
    BY <1>2, <1>3, <2>2 DEF IInv, TaskInv, m
  <2>4. GenesisInv'
    BY <1>1, <2>2, GenesisKept DEF Fetching
  <2>5. StartInv' /\ TargetInv'
    BY <1>1, <2>2 DEF IInv, StartInv, TargetInv
  <2>6. ASSUME excused = {} PROVE Bracketed'
    <3>1. \A h : Same(h)' <=> Same(h)
      BY <1>1, <2>2, Zenon DEF Same
    <3>2. \A h \in 0..m : h \in Nat /\ h <= m
      BY <1>3 DEF m
    <3>3. \A h \in 0..m : Same(h)
      BY <1>3, <1>5, <1>8, <2>6, <3>2, SameBelow DEF m
    <3>4. m + 1 - 1 = m /\ m + 1 > 0
      BY <1>3 DEF m
    <3>5. \A h \in task.high + 1 .. n : ~Same(h)
      BY <1>5, <1>6, <2>6, Zenon DEF Bracketed
    <3>6. task'.low - 1 = m /\ task'.best = task'.low - 1 /\ task'.high = task.high
      <4>1. task'.low = m + 1 /\ task'.best = m /\ task'.high = task.high /\ m \in Nat
        BY <1>3, <2>2, Zenon DEF m
      <4>. QED  BY <4>1
    <3>7. \A h \in 0 .. task'.low - 1 : Same(h)'
      BY <3>1, <3>3, <3>6, Zenon
    <3>8. Min({RemoteHeight, LocalHeight})' = n
      BY <1>6, <2>2
    <3>9. \A h \in task'.high + 1 .. Min({RemoteHeight, LocalHeight})' : ~Same(h)'
      BY <3>1, <3>5, <3>6, <3>8, Zenon
    <3>. QED  BY <3>6, <3>7, <3>9, Zenon DEF Bracketed
  <2>7. SearchInv'
    BY <1>1, <2>2, <2>6 DEF SearchInv
  <2>. QED  BY <1>1, <2>3, <2>4, <2>5, <2>7, ChainsKept DEF IInv
<1>9. CASE task' = [task EXCEPT !.pc = "found"]
  <2>1. TaskInv' /\ task'.pc = "found"
    BY <1>9, GotoKeeps DEF Goto, Pcs
  <2>2. GenesisInv'
    BY <1>1, <2>1, GenesisKept DEF Fetching
  <2>3. StartInv' /\ TargetInv' /\ SearchInv'
    BY <2>1, Unwatched DEF Watched
  <2>. QED  BY <1>1, <2>1, <2>2, <2>3, ChainsKept DEF IInv
<1>10. CASE ~same /\ m # 0 /\ task' = [task EXCEPT !.pc = "search", !.high = m - 1]
  <2>1. m - 1 \in 0..MaxHeight
    BY <1>2, <1>3, <1>10 DEF m
  <2>2. /\ task' \in TaskType /\ task'.pc = "search" /\ task'.batch = task.batch
        /\ task'.low = task.low /\ task'.best = task.best /\ task'.high = m - 1
        /\ task'.target = task.target /\ task'.start = task.start /\ task'.peer = task.peer
    BY <1>2, <1>10, <2>1 DEF TaskType, Pcs
  <2>3. TaskInv'
    <3>1. /\ Len(task.target) \in Nat /\ Len(task.start) \in Nat
      BY <1>2, ChainLen DEF TaskType
    <3>2. m - 1 <= Len(task.target) /\ m - 1 <= Len(task.start) /\ task.low <= m - 1 + 1
      BY <1>2, <1>3, <3>1 DEF m
    <3>. QED  BY <2>2, <3>2 DEF IInv, TaskInv
  <2>4. GenesisInv'
    BY <1>1, <2>2, GenesisKept DEF Fetching
  <2>5. StartInv' /\ TargetInv'
    BY <1>1, <2>2 DEF IInv, StartInv, TargetInv
  <2>6. ASSUME excused = {} PROVE Bracketed'
    <3>1. \A h : Same(h)' <=> Same(h)
      BY <1>1, <2>2, Zenon DEF Same
    <3>2. \A h \in m - 1 + 1 .. n : h \in Nat /\ m <= h
      BY <1>3, <1>4 DEF m
    <3>3. ~Same(m)
      BY <1>5, <1>10, <2>6 DEF m
    <3>4. \A h \in m - 1 + 1 .. n : ~Same(h)
      BY <1>3, <3>2, <3>3, SameBelow DEF m
    <3>5. (\A h \in 0 .. task.low - 1 : Same(h)) /\ (task.low > 0 => task.best = task.low - 1)
      BY <1>5, <2>6, Zenon DEF Bracketed
    <3>. QED  BY <1>6, <2>2, <3>1, <3>4, <3>5, Zenon DEF Bracketed
  <2>7. SearchInv'
    BY <1>1, <2>2, <2>6 DEF SearchInv
  <2>. QED  BY <1>1, <2>3, <2>4, <2>5, <2>7, ChainsKept DEF IInv
<1>. QED  BY <1>7, <1>8, <1>9, <1>10, Zenon DEF m

\* The download starts above the last common block.
LEMMA LcaFound_Step ==
  ASSUME IInv, LcaFound
  PROVE  IInv'
<1>1. /\ UNCHANGED <<config, genesis, tip, forks, remote, phase, offered, excused>>
      /\ task.pc \in {"found", "search"}
  BY DEF LcaFound, local
<1>2. MaxHeight \in Nat
  BY Bounds, Zenon
<1>3. task.best + 1 \in 0..MaxHeight + 1
  BY <1>2 DEF IInv, TaskInv, TaskType
<1>4. task' \in TaskType /\ task'.pc = "fetch" /\ task'.batch = task.batch
  BY <1>3 DEF LcaFound, IInv, TaskInv, TaskType, Pcs
<1>5. TaskInv'
  BY <1>4 DEF IInv, TaskInv
<1>6. GenesisInv'
  BY <1>1, <1>4, GenesisKept DEF Fetching
<1>7. StartInv' /\ TargetInv' /\ SearchInv'
  BY <1>4, Unwatched DEF Watched
<1>. QED  BY <1>1, <1>5, <1>6, <1>7, ChainsKept DEF IInv

----------------------------------------------------------------------------
(***************************************************************************)
(* The download.                                                           *)
(***************************************************************************)

\* A batch ends at the height the peer told, and respects both limits.
LEMMA BatchSize ==
  ASSUME NEW h \in Nat, NEW top \in Nat, h <= top, RemoteHeight = top
  PROVE  /\ RangeEnd(h) \in Nat /\ RangeEnd(h) <= top
         /\ Received(h) \in Nat /\ Received(h) <= Limit /\ Received(h) <= PeerBatch
         /\ h + Received(h) - 1 <= RangeEnd(h)
<1>1. Limit \in Nat \ {0} /\ PeerBatch \in Nat \ {0}
  BY Bounds, Zenon
<1> DEFINE c == h + PeerBatch - 1
           e == Min({top, c})
           d == e - h + 1
           k == Min({d, Limit})
<1>2. c \in Int /\ top \in Int /\ h <= c
  BY <1>1
<1>3. e \in {top, c} /\ e <= top /\ e <= c
  <2> HIDE DEF c
  <2>. QED  BY <1>2, TwoMin, Zenon
<1> HIDE DEF e
<1>4. e \in Nat /\ h <= e /\ d \in Nat \ {0} /\ d <= PeerBatch
  BY <1>1, <1>3
<1>5. d \in Int /\ Limit \in Int
  BY <1>1, <1>4
<1>6. k \in {d, Limit} /\ k <= d /\ k <= Limit
  <2> HIDE DEF d
  <2>. QED  BY <1>5, TwoMin, Zenon
<1> HIDE DEF k
<1>7. k \in Nat /\ k <= Limit /\ k <= PeerBatch /\ h + k - 1 <= e
  BY <1>1, <1>4, <1>6
<1>8. RangeEnd(h) = e /\ Received(h) = k
  BY Zenon DEF RangeEnd, Received, e, d, c, k
<1>. QED  BY <1>3, <1>4, <1>7, <1>8

\* The blocks of a range, within both limits.
LEMMA request_blocks_by_height_range_Step ==
  ASSUME IInv, request_blocks_by_height_range
  PROVE  IInv'
<1> DEFINE r == remote[task.peer]
           k == Received(task.next)
           bs == [i \in 1..k |-> AtHeight(r, task.next + i - 1)]
<1>1. /\ UNCHANGED <<config, genesis, tip, forks, remote, phase, offered, excused>>
      /\ task.pc = "fetch" /\ task.next <= Len(task.target)
      /\ RangeEnd(task.next) <= Len(r)
      /\ task' = [task EXCEPT !.pc = "apply", !.batch = bs]
  BY Zenon DEF request_blocks_by_height_range, local, Holds, BlocksMissing, RemoteHeight
<1>2. /\ task \in TaskType /\ task.next \in Nat /\ task.target \in Chains
      /\ r \in Chains
  BY DEF IInv, ChainsInv, TaskInv, TaskType
<1>3. Len(task.target) \in Nat /\ Len(r) \in Nat
  BY <1>2, ChainLen
<1>4. /\ k \in Nat /\ k <= Limit /\ k <= PeerBatch
      /\ task.next + k - 1 <= Len(r) /\ task.next + k <= Len(task.target) + 1
  <2>1. /\ RangeEnd(task.next) \in Nat /\ RangeEnd(task.next) <= Len(task.target)
        /\ k \in Nat /\ k <= Limit /\ k <= PeerBatch
        /\ task.next + k - 1 <= RangeEnd(task.next)
    BY <1>1, <1>2, <1>3, BatchSize, Zenon DEF RemoteHeight
  <2> HIDE DEF k, r
  <2>. QED  BY <1>1, <1>2, <1>3, <2>1
<1> HIDE DEF r, k
<1>5. bs \in Seq(Chains) /\ Len(bs) = k
  <2>1. \A i \in 1..k : task.next + i - 1 \in Nat /\ task.next + i - 1 <= Len(r)
    BY <1>2, <1>3, <1>4
  <2>2. \A i \in 1..k : AtHeight(r, task.next + i - 1) \in Chains
    BY <1>2, <2>1, CutChain
  <2>. QED  BY <1>4, <2>2
<1> HIDE DEF bs
<1>6. /\ task' \in TaskType /\ task'.pc = "apply" /\ task'.batch = bs
      /\ task'.next = task.next /\ task'.target = task.target
  BY <1>1, <1>2, <1>5 DEF TaskType, Pcs
<1>7. TaskInv'
  BY <1>4, <1>5, <1>6 DEF TaskInv
<1>8. GenesisInv'
  BY <1>1, <1>6, GenesisKept DEF Fetching
<1>9. StartInv' /\ TargetInv' /\ SearchInv'
  BY <1>6, Unwatched DEF Watched
<1>. QED  BY <1>1, <1>7, <1>8, <1>9, ChainsKept DEF IInv

\* A request that is not answered ends the task.
LEMMA RequestFails_Step ==
  ASSUME IInv, RequestFails
  PROVE  IInv'
<1>1. UNCHANGED <<config, genesis, tip, forks, remote, offered>> /\ Fail
  BY Zenon DEF RequestFails, local
<1>. QED  BY <1>1, Failing, ChainsKept

\* An empty answer ends the download as if it were complete.
LEMMA EmptyBatch_Step ==
  ASSUME IInv, EmptyBatch
  PROVE  IInv'
<1>1. /\ UNCHANGED <<config, genesis, tip, forks, remote, offered>>
      /\ task.pc = "fetch" /\ Succeed
  BY Zenon DEF EmptyBatch, local
<1>2. genesis # NoGenesis /\ Configured /\ phase # "exited"
  BY <1>1 DEF IInv, GenesisInv, Fetching
<1>. QED  BY <1>1, <1>2, Succeeding

\* A node that downloads blocks has a genesis block; the engine is left with
\* chains wherever the batch ends.
LEMMA apply_blocks_Step ==
  ASSUME IInv, apply_blocks
  PROVE  IInv'
<1>1. UNCHANGED <<config, genesis, remote, offered>> /\ task.pc = "apply"
  BY Zenon DEF apply_blocks
<1>2. PICK n \in 0..Len(task.batch) :
        /\ tip' = Batch[n].tip /\ forks' = Batch[n].forks
        /\ \/ Fail
           \/ /\ task' = [task EXCEPT !.pc = "fetch", !.next = @ + Len(task.batch), !.batch = <<>>]
              /\ phase' = phase
  BY DEF apply_blocks
<1>3. /\ task \in TaskType /\ task.batch \in Seq(Chains) /\ task.target \in Chains
      /\ task.next \in Nat /\ Len(task.batch) \in Nat
  BY DEF IInv, TaskInv, TaskType
<1>4. Batch[n] \in Views
  <2>1. View \in Views
    BY DEF View, Views, IInv, ChainsInv
  <2>. QED  BY <1>3, <2>1, BatchViews
<1>5. ChainsInv'
  BY <1>1, <1>2, <1>4 DEF IInv, ChainsInv, Views
<1>6. phase # "exited" /\ genesis # NoGenesis /\ Configured
  BY <1>1 DEF IInv, GenesisInv, Fetching
<1>7. CASE Fail
  BY <1>1, <1>5, <1>6, <1>7, Failing
<1>8. CASE /\ phase' = phase
           /\ task' = [task EXCEPT !.pc = "fetch", !.next = @ + Len(task.batch), !.batch = <<>>]
  <2>1. task.next + Len(task.batch) \in 0..MaxHeight + 1
    <3>1. Len(task.target) \in Nat /\ Len(task.target) <= MaxHeight /\ MaxHeight \in Nat
      BY <1>3, ChainLen, Bounds
    <3>2. task.next + Len(task.batch) <= Len(task.target) + 1
      BY <1>1 DEF IInv, TaskInv
    <3>. QED  BY <1>3, <3>1, <3>2
  <2>2. /\ Limit \in Nat /\ PeerBatch \in Nat
        /\ <<>> \in Seq(Chains) /\ Len(<<>>) = 0
    BY Bounds
  <2>3. task' \in TaskType /\ task'.pc = "fetch" /\ task'.batch = <<>>
    BY <1>3, <1>8, <2>1, <2>2 DEF TaskType, Pcs
  <2>4. TaskInv'
    BY <2>2, <2>3 DEF TaskInv
  <2>5. Configured' = Configured
    BY <1>1 DEF Configured
  <2>6. GenesisInv'
    BY <1>1, <1>6, <1>8, <2>3, <2>5 DEF IInv, GenesisInv
  <2>7. StartInv' /\ TargetInv' /\ SearchInv'
    BY <2>3, Unwatched DEF Watched
  <2>. QED  BY <1>5, <2>4, <2>6, <2>7 DEF IInv
<1>. QED  BY <1>2, <1>7, <1>8

\* The node serves, and its genesis block is settled.
LEMMA SyncComplete_Step ==
  ASSUME IInv, SyncComplete
  PROVE  IInv'
<1>1. /\ UNCHANGED <<config, genesis, tip, forks, remote, offered>>
      /\ task.pc = "fetch" /\ Succeed
  BY Zenon DEF SyncComplete, local
<1>2. genesis # NoGenesis /\ Configured /\ phase # "exited"
  BY <1>1 DEF IInv, GenesisInv, Fetching
<1>. QED  BY <1>1, <1>2, Succeeding

\* A running node that stops already had its genesis block.
LEMMA Cancelled_Step ==
  ASSUME IInv, Cancelled
  PROVE  IInv'
<1>1. /\ UNCHANGED <<config, genesis, tip, forks, remote, offered>>
      /\ phase = "running" /\ Succeed
  BY Zenon DEF Cancelled, local
<1>2. genesis # NoGenesis /\ Configured
  BY <1>1 DEF IInv, GenesisInv
<1>. QED  BY <1>1, <1>2, Succeeding

----------------------------------------------------------------------------
(***************************************************************************)
(* Meanwhile.                                                              *)
(***************************************************************************)

\* A search below genesis alone knows nothing that a chain could disturb.
LEMMA EmptySearch ==
  ASSUME IInv, ChainsInv', task' = task, excused = {}, task.target = <<>>,
         task.pc \in {"search", "probe"}
  PROVE  Bracketed'
<1>1. /\ task \in TaskType /\ task.low \in Nat /\ task.high \in Nat /\ task.high <= 0
      /\ task.low <= task.high + 1 /\ task.peer \in Peers
  BY DEF IInv, TaskInv, TaskType
<1>2. task.high = 0 /\ task.low \in {0, 1}
  BY <1>1
<1>3. \A h \in 0 .. task.low - 1 : h = 0
  BY <1>2
<1>4. Same(0)'
  <2>1. tip' \in Chains /\ remote'[task.peer] \in Chains
    BY <1>1 DEF ChainsInv
  <2>2. Len(tip') \in Nat /\ Len(remote'[task.peer]) \in Nat
    BY <2>1, ChainLen
  <2>3. AtHeight(tip', 0) = AtHeight(remote'[task.peer], 0)
    <3>1. \A i \in 1..0 : tip'[i] = remote'[task.peer][i]
      OBVIOUS
    <3>. QED  BY <2>1, <2>2, <3>1, CutsEqual
  <2>. QED  BY <2>2, <2>3 DEF Same
<1>5. Min({RemoteHeight, LocalHeight}) <= 0 /\ Min({RemoteHeight, LocalHeight}) \in Nat
  <2>1. Len(task.target) = 0
    OBVIOUS
  <2>. QED  BY <1>1, <2>1, SearchEnd DEF RemoteHeight, LocalHeight
<1>6. Min({RemoteHeight, LocalHeight})' = Min({RemoteHeight, LocalHeight})
  BY DEF RemoteHeight, LocalHeight
<1>7. task.high + 1 .. Min({RemoteHeight, LocalHeight}) = {}
  BY <1>2, <1>5
<1>8. task.low > 0 => task.best = task.low - 1
  BY DEF IInv, SearchInv, Bracketed
<1>. QED  BY <1>3, <1>4, <1>6, <1>7, <1>8, Zenon DEF Bracketed

\* The chain of a peer grows, or is replaced and that is noted where it matters.
LEMMA RemoteMoves_Step ==
  ASSUME IInv, RemoteMoves
  PROVE  IInv'
<1>1. UNCHANGED <<config, genesis, tip, forks, phase, task, offered>>
  BY Zenon DEF RemoteMoves, local
<1>2. PICK p \in Peers, c \in Chains :
        /\ remote' = [remote EXCEPT ![p] = c]
        /\ excused' = IF p = task.peer /\ task.target # <<>> /\ ~IsPrefix(remote[p], c)
                        THEN excused \cup {"remote"} ELSE excused
  BY DEF RemoteMoves
<1>3. /\ remote \in [Peers -> Chains] /\ task.peer \in Peers /\ task.target \in Chains
  BY DEF IInv, ChainsInv, TaskInv, TaskType
<1>4. /\ remote' \in [Peers -> Chains]
      /\ remote'[task.peer] = IF p = task.peer THEN c ELSE remote[task.peer]
  BY <1>2, <1>3
<1>5. ChainsInv'
  BY <1>1, <1>4 DEF IInv, ChainsInv
<1>6. TaskInv'
  BY <1>1 DEF IInv, TaskInv
<1>7. GenesisInv'
  <2>1. Configured' = Configured /\ start_mode' = start_mode
    BY <1>1 DEF Configured, start_mode
  <2>. QED  BY <1>1, <2>1, Zenon DEF IInv, GenesisInv
<1>8. excused \subseteq excused'
  BY <1>2
<1>9. StartInv'
  BY <1>1, <1>8 DEF IInv, StartInv
<1>10. "remote" \notin excused' =>
         task.target = <<>> \/ IsPrefix(remote[task.peer], remote'[task.peer])
  BY <1>2, <1>3, <1>4, PrefixTrivial
<1>11. TargetInv'
  <2> SUFFICES ASSUME task.pc \in {"genesis", "tip", "compare", "search", "probe"},
                      "remote" \notin excused'
               PROVE  IsPrefix(task.target, remote'[task.peer])
    BY <1>1 DEF TargetInv
  <2>1. IsPrefix(task.target, remote[task.peer])
    BY <1>8 DEF IInv, TargetInv
  <2>. QED  BY <1>3, <1>4, <1>10, <2>1, PrefixTransitive, PrefixTrivial
<1>12. SearchInv'
  <2> SUFFICES ASSUME task.pc \in {"search", "probe"}, excused' = {}
               PROVE  Bracketed' /\ (task.pc = "probe" =>
                        Mid' <= Len(tip') /\ task'.seen = AtHeight(tip', Mid'))
    BY <1>1 DEF SearchInv
  <2>1. excused = {}
    BY <1>8
  <2>2. Bracketed'
    <3>1. CASE task.target = <<>>
      BY <1>1, <1>5, <2>1, <3>1, EmptySearch
    <3>2. CASE IsPrefix(remote[task.peer], remote'[task.peer])
      <4>1. IsPrefix(tip, tip') /\ phase # "exited"
        BY <1>1, PrefixTrivial DEF IInv, ChainsInv, GenesisInv
      <4>. QED  BY <1>1, <1>5, <2>1, <3>2, <4>1, GrowthKeepsSearch
    <3>. QED  BY <1>10, <3>1, <3>2
  <2>3. Mid' = Mid
    BY <1>1 DEF Mid
  <2>. QED  BY <1>1, <2>1, <2>2, <2>3 DEF IInv, SearchInv
<1>. QED  BY <1>5, <1>6, <1>7, <1>9, <1>11, <1>12 DEF IInv

\* So does the local chain of a running node.
LEMMA LocalMoves_Step ==
  ASSUME IInv, LocalMoves
  PROVE  IInv'
<1>1. /\ UNCHANGED <<config, genesis, remote, phase, task, offered>>
      /\ phase = "running"
  BY Zenon DEF LocalMoves
<1>2. PICK b \in Chains :
        /\ tip' = on_block(View, b).tip /\ forks' = on_block(View, b).forks
        /\ excused' = IF on_block(View, b).reorg THEN excused \cup {"local"} ELSE excused
  BY DEF LocalMoves
<1>3. View \in Views /\ View.tip = tip
  BY DEF View, Views, IInv, ChainsInv
<1>4. /\ on_block(View, b) \in Views
      /\ on_block(View, b).reorg \/ IsPrefix(tip, on_block(View, b).tip)
  BY <1>3, EngineStep
<1>5. ChainsInv'
  BY <1>1, <1>2, <1>4 DEF IInv, ChainsInv, Views
<1>6. /\ excused \subseteq excused'
      /\ "local" \notin excused' => IsPrefix(tip, tip')
  BY <1>2, <1>4
<1>7. TaskInv'
  BY <1>1 DEF IInv, TaskInv
<1>8. GenesisInv'
  <2>1. Configured' = Configured /\ genesis # NoGenesis
    BY <1>1 DEF Configured, IInv, GenesisInv
  <2>2. Configured
    BY <1>1, <2>1 DEF IInv, GenesisInv
  <2>. QED  BY <1>1, <2>1, <2>2 DEF IInv, GenesisInv
<1>9. StartInv'
  <2>1. ASSUME task.pc \in {"compare", "search", "probe"}, "local" \notin excused'
        PROVE  IsPrefix(task.start, tip')
    <3>1. IsPrefix(task.start, tip)
      BY <1>1, <1>6, <2>1 DEF IInv, StartInv
    <3>2. task.start \in Chains /\ tip \in Chains /\ tip' \in Chains
      BY <1>5 DEF IInv, ChainsInv, TaskInv, TaskType
    <3>. QED  BY <1>6, <2>1, <3>1, <3>2, PrefixTransitive
  <2>. QED  BY <1>1, <2>1 DEF IInv, StartInv
<1>10. TargetInv'
  BY <1>1, <1>6 DEF IInv, TargetInv
<1>11. SearchInv'
  <2> SUFFICES ASSUME task.pc \in {"search", "probe"}, excused' = {}
               PROVE  Bracketed' /\ (task.pc = "probe" =>
                        Mid' <= Len(tip') /\ task'.seen = AtHeight(tip', Mid'))
    BY <1>1 DEF SearchInv
  <2>1. excused = {} /\ IsPrefix(tip, tip')
    BY <1>6
  <2>2. IsPrefix(remote[task.peer], remote'[task.peer])
    BY <1>1, PrefixTrivial DEF IInv, ChainsInv, TaskInv, TaskType
  <2>. QED  BY <1>1, <1>5, <2>1, <2>2, GrowthKeepsSearch
<1>. QED  BY <1>5, <1>7, <1>8, <1>9, <1>10, <1>11 DEF IInv

----------------------------------------------------------------------------
(***************************************************************************)
(* The theorems.                                                           *)
(***************************************************************************)

\* Before anything is checked the task only has a place to start from.
LEMMA InitIInv ==
  ASSUME Init
  PROVE  IInv
<1> DEFINE q == CHOOSE p \in Peers : TRUE
<1>1. q \in Peers
  <2>1. Peers # {}
    BY SyncAssumption, Zenon
  <2>. QED  BY <2>1
<1>2. PICK l \in LocalStarts : config = l.config /\ genesis = l.genesis /\ tip = l.tip
  BY DEF Init
<1>3. /\ l.config.mode \in {"Auto", "Bootstrap", "Join"}
      /\ l.genesis \in ValidGenesis \cup {NoGenesis} /\ l.tip \in Chains
      /\ l.genesis = NoGenesis => l.tip = <<>>
  BY SyncAssumption, Zenon
<1> HIDE DEF q
<1>4. task = [pc |-> "open", peer |-> q, attempt |-> 1, ask |-> {}, target |-> <<>>,
              start |-> <<>>, low |-> 0, high |-> 0, best |-> 0, seen |-> <<>>,
              next |-> 0, batch |-> <<>>]
  BY DEF Init, NoTask, q
<1>5. /\ 1 \in 1..MaxAttempts /\ 0 \in 0..MaxHeight /\ 0 \in 0..MaxHeight + 1
      /\ Limit \in Nat /\ PeerBatch \in Nat
  BY Attempts, Bounds
<1>6. <<>> \in Seq(Chains) /\ Len(<<>>) = 0
  OBVIOUS
<1>7. task \in TaskType /\ task.pc = "open" /\ task.batch = <<>>
  BY <1>1, <1>4, <1>5, <1>6, EmptyChain DEF TaskType, Pcs
<1>8. TaskInv
  BY <1>5, <1>6, <1>7 DEF TaskInv
<1>9. ChainsInv
  <2>1. RemoteStarts \subseteq Chains
    BY SyncAssumption, Zenon
  <2>. QED  BY <1>2, <1>3, <2>1 DEF Init, ChainsInv
<1>10. GenesisInv
  BY <1>2, <1>3, <1>7 DEF Init, GenesisInv
<1>11. StartInv /\ TargetInv /\ SearchInv
  BY <1>7 DEF StartInv, TargetInv, SearchInv
<1>. QED  BY <1>8, <1>9, <1>10, <1>11 DEF IInv

\* A step of the synchronisation itself.
LEMMA TaskStepIInv ==
  ASSUME IInv, TaskStep
  PROVE  IInv'
BY OpenStorage_Step, bootstrap_Step, synchronize_Step, query_sync_peers_Step, CheckPeer_Step,
   NoCandidate_Step, PickBestPeer_Step, ensure_genesis_Step, connect_sync_peer_Step,
   connect_fallback_sync_peer_Step, request_chain_info_Step, CompareGenesis_Step,
   ReadTip_Step, CompareTip_Step, ReadLocalBlock_Step, ProbeRemoteBlock_Step, LcaFound_Step,
   request_blocks_by_height_range_Step, RequestFails_Step, apply_blocks_Step,
   SyncComplete_Step, StorageFails_Step, EmptyBatch_Step, Cancelled_Step, Zenon
   DEF TaskStep, LocalStep, Answer

\* Every step, or none.
LEMMA NextIInv ==
  ASSUME IInv, [Next]_vars
  PROVE  IInv'
<1>1. ASSUME UNCHANGED vars \/ Cancel PROVE IInv'
  <2>1. UNCHANGED <<config, genesis, tip, forks, remote, phase, task, offered, excused>>
    BY <1>1, Zenon DEF vars, Cancel, local
  <2>2. (\A h : Same(h)' <=> Same(h)) /\ Mid' = Mid /\ start_mode' = start_mode
    BY <2>1 DEF Same, Mid, start_mode
  <2>3. Configured' = Configured /\ Min({RemoteHeight, LocalHeight})' = Min({RemoteHeight, LocalHeight})
    BY <2>1 DEF Configured, RemoteHeight, LocalHeight
  <2>4. Bracketed => Bracketed'
    BY <2>1, <2>2, <2>3, Zenon DEF Bracketed
  <2>5. ChainsInv' /\ TaskInv'
    BY <2>1 DEF IInv, ChainsInv, TaskInv
  <2>6. GenesisInv'
    BY <2>1, <2>2, <2>3, Zenon DEF IInv, GenesisInv
  <2>7. StartInv' /\ TargetInv'
    BY <2>1 DEF IInv, StartInv, TargetInv
  <2>8. SearchInv'
    BY <2>1, <2>2, <2>4 DEF IInv, SearchInv
  <2>. QED  BY <2>5, <2>6, <2>7, <2>8 DEF IInv
<1>. QED
  BY <1>1, TaskStepIInv, ChainTipAnnounced_Step, RemoteMoves_Step, LocalMoves_Step, Zenon
     DEF Next

\* The inductive invariant holds throughout.
THEOREM Invariance == Spec => []IInv
<1>1. Init => IInv
  BY InitIInv
<1>2. IInv /\ [Next]_vars => IInv'
  BY NextIInv
<1>. QED  BY <1>1, <1>2, PTL DEF Spec

\* Every task stays well formed, and no batch is longer than the limit of
\* either side, however the peer and the local chain move (request_blocks_by_height_range
\* of the client and of the server).
THEOREM TypeCorrectness == Spec => []TypeOK
<1>1. IInv => TypeOK
  <2> SUFFICES ASSUME IInv PROVE TypeOK
    OBVIOUS
  <2>1. Len(task.batch) <= Min({Limit, PeerBatch})
    <3>1. Limit \in Int /\ PeerBatch \in Int
      BY Bounds
    <3>2. Min({Limit, PeerBatch}) \in {Limit, PeerBatch}
      BY <3>1, TwoMin
    <3>. QED  BY <3>2 DEF IInv, TaskInv
  <2>2. /\ task.peer \in Peers /\ task.attempt \in 1..MaxAttempts
        /\ task.low \in 0..MaxHeight + 1 /\ task.high \in 0..MaxHeight
        /\ task.best \in 0..MaxHeight /\ task.next \in 0..MaxHeight + 1
    BY DEF IInv, TaskInv, TaskType
  <2>. QED  BY <2>1, <2>2, Zenon DEF IInv, ChainsInv, GenesisInv, TypeOK, MaxAttempts
<1>. QED  BY <1>1, Invariance, PTL

\* A node that serves holds a validated genesis block, and the configured one
\* unless it was told to join (main, confirm_and_save, ensure_genesis).
THEOREM GenesisAgreement == Spec => []GenesisAgrees
<1>1. IInv => GenesisAgrees
  BY DEF IInv, GenesisInv, Configured, GenesisAgrees
<1>. QED  BY <1>1, Invariance, PTL

\* find_lca keeps its bounds right while both chains grow under it.
THEOREM SearchSoundness == Spec => []SearchSound
<1>1. IInv => SearchSound
  BY Zenon DEF IInv, SearchInv, Bracketed, SearchSound
<1>. QED  BY <1>1, Invariance, PTL


----------------------------------------------------------------------------
(***************************************************************************)
(* The work of chains.                                                     *)
(***************************************************************************)

\* The weight of every block of a chain.
Weights(b) == [i \in DOMAIN b |-> Weight[b[i]]]

LEMMA WorkIsTotal ==
  ASSUME NEW b \in Chains
  PROVE  /\ DOMAIN b = 1..Len(b) /\ IsFiniteSet(DOMAIN b)
         /\ \A i \in DOMAIN b : Weights(b)[i] = Weight[b[i]] /\ Weights(b)[i] \in Nat
         /\ Work(b) = Total(Weights(b), DOMAIN b)
<1> DEFINE D == DOMAIN b
           w == Weights(b)
           Step(f) == [s \in SUBSET D |-> IF s = {} THEN 0 ELSE Weight[b[Chosen(s)]] + f[Rest(s)]]
           g == CHOOSE f : f = Step(f)
<1>1. D = 1..Len(b) /\ Len(b) \in Nat /\ \A i \in D : b[i] \in Labels
  BY ChainLen
<1>2. IsFiniteSet(D) /\ D \in SUBSET D
  BY <1>1, FS_Interval
<1>3. \A i \in D : w[i] = Weight[b[i]] /\ w[i] \in Nat
  <2>1. Weight \in [Labels -> Nat \ {0}]
    BY SyncAssumption, Zenon
  <2>. QED  BY <1>1, <2>1 DEF Weights
<1>4. Work(b) = g[D]
  BY Zenon DEF Work, MapThenSumSet, MapThenFoldSet, Chosen, Rest
<1>5. \A s \in SUBSET D : s # {} => w[Chosen(s)] = Weight[b[Chosen(s)]]
  <2> SUFFICES ASSUME NEW s \in SUBSET D, s # {} PROVE w[Chosen(s)] = Weight[b[Chosen(s)]]
    OBVIOUS
  <2>1. Chosen(s) \in s
    BY RestIsLess
  <2>. QED  BY <1>3, <2>1
<1> HIDE DEF w
<1>6. \A f : Sums(f, w, D) <=> f = Step(f)
  <2> SUFFICES ASSUME NEW f PROVE Sums(f, w, D) <=> f = Step(f)
    OBVIOUS
  <2>1. \A s \in SUBSET D : (IF s = {} THEN 0 ELSE w[Chosen(s)] + f[Rest(s)])
                              = IF s = {} THEN 0 ELSE Weight[b[Chosen(s)]] + f[Rest(s)]
    BY <1>5, Zenon
  <2>2. Step(f) = [s \in SUBSET D |-> IF s = {} THEN 0 ELSE w[Chosen(s)] + f[Rest(s)]]
    BY <2>1, Zenon
  <2>. QED  BY <2>2, Zenon DEF Sums
<1> HIDE DEF D
<1>7. Sums(SumOf(w, D), w, D)
  BY <1>2, SumsExist
<1>8. g = Step(g)
  BY <1>6, <1>7, Zenon
<1> HIDE DEF g
<1>9. Sums(g, w, D)
  BY <1>6, <1>8, Zenon
<1>10. g[D] = SumOf(w, D)[D]
  BY <1>2, <1>7, <1>9, SumsAgree
<1>. QED  BY <1>1, <1>2, <1>3, <1>4, <1>10, TotalIs DEF w, D

LEMMA WorkNat ==
  ASSUME NEW b \in Chains
  PROVE  Work(b) \in Nat
BY WorkIsTotal, TotalNat

\* A longer chain has no less work.
LEMMA WorkGrows ==
  ASSUME NEW a \in Chains, NEW b \in Chains, IsPrefix(a, b)
  PROVE  Work(a) <= Work(b)
<1>1. Len(a) <= Len(b) /\ \A i \in 1..Len(a) : a[i] = b[i]
  BY PrefixIff
<1>2. Len(a) \in Nat /\ Len(b) \in Nat
  BY ChainLen
<1> DEFINE D == DOMAIN a
           E == DOMAIN b
           u == Weights(a)
           w == Weights(b)
<1>3. D = 1..Len(a) /\ E = 1..Len(b)
  BY WorkIsTotal
<1>4. D \in SUBSET E /\ \A i \in D : a[i] = b[i]
  BY <1>1, <1>2, <1>3
<1>5. /\ IsFiniteSet(D) /\ Work(a) = Total(u, D)
      /\ \A i \in D : u[i] = Weight[a[i]]
  BY WorkIsTotal
<1>6. /\ IsFiniteSet(E) /\ Work(b) = Total(w, E)
      /\ \A i \in E : w[i] = Weight[b[i]] /\ w[i] \in Nat
  BY WorkIsTotal
<1> HIDE DEF D, E, u, w
<1>7. \A i \in D : u[i] = w[i]
  BY <1>4, <1>5, <1>6
<1>8. Total(u, D) = Total(w, D)
  BY <1>5, <1>7, TotalSame
<1>9. Total(w, D) <= Total(w, E)
  BY <1>4, <1>6, TotalPart
<1>. QED  BY <1>5, <1>6, <1>8, <1>9

----------------------------------------------------------------------------
(***************************************************************************)
(* What the engine knows.                                                  *)
(***************************************************************************)

\* The blocks an engine finds: those of the tip's branch and of every fork.
Finds(v, c) == IsPrefix(c, v.tip) \/ \E f \in v.forks : IsPrefix(c, f)

Light(v) == \A f \in v.forks : Work(f) <= Work(v.tip)

\* One block whose parent is known: it is known afterwards, unless the parent is in the
\* middle of a fork; the work of the tip never drops, and nothing known is
\* forgotten without a reorganisation.
LEMMA EngineKnows ==
  ASSUME NEW v \in Views, NEW b \in Chains, Light(v)
  PROVE  /\ Light(on_block(v, b)) /\ Work(v.tip) <= Work(on_block(v, b).tip)
         /\ v.midfork => on_block(v, b).midfork
         /\ b # <<>> /\ Finds(v, Front(b)) => Finds(on_block(v, b), b) \/ on_block(v, b).midfork
         /\ on_block(v, b).reorg \/ \A c \in Chains : Finds(v, c) => Finds(on_block(v, b), c)
<1> DEFINE p == Front(b)
           w == on_block(v, b)
           mid == v.midfork \/ \E f \in v.forks : IsPrefix(p, f)
           S == {f \in v.forks \ {p} : Ancestor(f, b) = Ancestor(f, v.tip)}
           F == (v.forks \ {p}) \cup {b}
           Goal == /\ Light(w) /\ Work(v.tip) <= Work(w.tip)
                   /\ v.midfork => w.midfork
                   /\ b # <<>> /\ Finds(v, p) => Finds(w, b) \/ w.midfork
                   /\ w.reorg \/ \A c \in Chains : Finds(v, c) => Finds(w, c)
<1>1. v.tip \in Chains /\ v.forks \subseteq Chains /\ v.midfork \in BOOLEAN /\ v.reorg \in BOOLEAN
  BY DEF Views
<1>2. IsPrefix(<<>>, v.tip) /\ IsPrefix(b, b)
  BY <1>1, PrefixTrivial
<1>3. Work(b) \in Nat /\ Work(v.tip) \in Nat /\ \A f \in v.forks : Work(f) \in Nat
  BY <1>1, WorkNat
<1>4. CASE Finds(v, b)
  <2>1. w = v
    BY <1>4 DEF on_block, Finds
  <2> HIDE DEF w
  <2>. QED  BY <1>3, <1>4, <2>1 DEF w
<1>5. CASE ~Finds(v, b)
  <2>1. w = IF ~IsPrefix(p, v.tip) /\ p \notin v.forks THEN [v EXCEPT !.midfork = mid]
            ELSE IF p = v.tip THEN [v EXCEPT !.tip = b]
            ELSE IF Work(b) > Work(v.tip)
              THEN [v EXCEPT !.tip = b, !.reorg = TRUE, !.forks = S]
            ELSE [v EXCEPT !.forks = F]
    BY <1>5 DEF on_block, Finds, Views
  <2>2. b # <<>>
    BY <1>2, <1>5 DEF Finds
  <2>3. p \in Chains => IsPrefix(p, b)
    BY <2>2, ParentPrefix
  <2>4. S \subseteq v.forks /\ (p \in v.forks => p \in Chains)
    BY <1>1
  <2>5. \A f \in v.forks : Work(f) <= Work(v.tip)
    BY DEF Light
  <2> HIDE DEF p, w, mid, S, F
  <2>6. \/ ~IsPrefix(p, v.tip) /\ p \notin v.forks /\ w = [v EXCEPT !.midfork = mid]
        \/ p = v.tip /\ w = [v EXCEPT !.tip = b]
        \/ Work(b) > Work(v.tip) /\ w = [v EXCEPT !.tip = b, !.reorg = TRUE, !.forks = S]
        \/ ~(Work(b) > Work(v.tip)) /\ w = [v EXCEPT !.forks = F]
    BY <2>1, Zenon
  <2>7. CASE ~IsPrefix(p, v.tip) /\ p \notin v.forks /\ w = [v EXCEPT !.midfork = mid]
    <3>1. w.tip = v.tip /\ w.forks = v.forks /\ w.midfork = mid
      BY <2>7 DEF Views
    <3>2. Light(w) /\ Work(v.tip) <= Work(w.tip)
      BY <1>3, <3>1 DEF Light
    <3>3. \A c : Finds(w, c) <=> Finds(v, c)
      BY <3>1 DEF Finds
    <3>4. Finds(v, p) => mid
      BY <2>7 DEF Finds, mid
    <3>5. v.midfork => mid
      BY DEF mid
    <3>. QED  BY <3>1, <3>2, <3>3, <3>4, <3>5, Zenon DEF w, p
  <2>8. CASE p = v.tip /\ w = [v EXCEPT !.tip = b]
    <3>1. w.tip = b /\ w.forks = v.forks /\ w.midfork = v.midfork
      BY <2>8 DEF Views
    <3>2. IsPrefix(v.tip, b)
      BY <1>1, <2>3, <2>8
    <3>3. Work(v.tip) <= Work(b)
      BY <1>1, <3>2, WorkGrows
    <3>4. Light(w)
      BY <1>3, <2>5, <3>1, <3>3 DEF Light
    <3>5. Finds(w, b)
      BY <1>2, <3>1 DEF Finds
    <3>6. \A c \in Chains : Finds(v, c) => Finds(w, c)
      BY <1>1, <3>1, <3>2, PrefixTransitive DEF Finds
    <3>. QED  BY <3>1, <3>3, <3>4, <3>5, <3>6 DEF w, p
  <2>9. CASE Work(b) > Work(v.tip) /\ w = [v EXCEPT !.tip = b, !.reorg = TRUE, !.forks = S]
    <3>1. w.tip = b /\ w.forks = S /\ w.midfork = v.midfork /\ w.reorg = TRUE
      BY <2>9 DEF Views
    <3>2. Light(w) /\ Work(v.tip) <= Work(w.tip)
      BY <1>3, <2>4, <2>5, <2>9, <3>1 DEF Light
    <3>3. Finds(w, b)
      BY <1>2, <3>1 DEF Finds
    <3>. QED  BY <3>1, <3>2, <3>3 DEF w, p
  <2>10. CASE ~(Work(b) > Work(v.tip)) /\ w = [v EXCEPT !.forks = F]
    <3>1. w.tip = v.tip /\ w.forks = F /\ w.midfork = v.midfork
      BY <2>10 DEF Views
    <3>2. Light(w) /\ Work(v.tip) <= Work(w.tip)
      BY <1>3, <2>5, <2>10, <3>1 DEF Light, F
    <3>3. Finds(w, b)
      BY <1>2, <3>1 DEF Finds, F
    <3>4. ASSUME NEW c \in Chains, Finds(v, c) PROVE Finds(w, c)
      <4>1. CASE IsPrefix(c, v.tip)
        BY <3>1, <4>1 DEF Finds
      <4>2. ASSUME NEW f \in v.forks, IsPrefix(c, f) PROVE Finds(w, c)
        <5>1. CASE f # p
          BY <3>1, <4>2, <5>1 DEF Finds, F
        <5>2. CASE f = p
          <6>1. p \in Chains /\ IsPrefix(p, b)
            BY <1>1, <2>3, <4>2, <5>2
          <6>2. IsPrefix(c, b)
            BY <4>2, <5>2, <6>1, PrefixTransitive
          <6>. QED  BY <3>1, <6>2 DEF Finds, F
        <5>. QED  BY <5>1, <5>2
      <4>. QED  BY <3>4, <4>1, <4>2 DEF Finds
    <3>. QED  BY <3>1, <3>2, <3>3, <3>4 DEF w, p
  <2>. QED  BY <2>6, <2>7, <2>8, <2>9, <2>10
<1>. QED  BY <1>4, <1>5

----------------------------------------------------------------------------
(***************************************************************************)
(* What a synchronisation adopts: a second invariant, on top of IInv.      *)
(***************************************************************************)

\* The blocks the engine finds, and that no fork is heavier than the tip.
Known(c) == IsPrefix(c, tip) \/ \E f \in forks : IsPrefix(c, f)

ForksLight == \A f \in forks : Work(f) <= Work(tip)

\* Where the task aims at the chain it chose: no offer was heavier.
Aiming == {"genesis", "tip", "compare", "search", "probe", "found", "fetch", "apply"}

OfferInv ==
  /\ task.pc \in {"open", "connected"} => offered = {}
  /\ task.pc \in Aiming => \A o \in offered : Work(o.chain) <= Work(task.target)

\* A search that meets no common block at all starts from genesis.
FoundInv ==
  /\ task.pc \in {"search", "probe"} /\ task.low = 0 => task.best = 0
  /\ task.pc = "found" => task.best = 0

PeerChain == remote[task.peer]

\* Nothing disturbed the chains, and there is something to adopt.
Calm == excused = {} /\ task.target # <<>>

\* The peer still has the chain it told, and everything below the next block
\* to fetch is known; a batch holds the blocks of the peer's chain.
FetchInv ==
  /\ task.pc \in {"found", "fetch", "apply"} /\ "remote" \notin excused
       => IsPrefix(task.target, PeerChain)
  /\ task.pc \in {"fetch", "apply"} => task.next >= 1
  /\ task.pc \in {"fetch", "apply"} /\ Calm =>
       /\ task.next - 1 <= Len(PeerChain)
       /\ Known(AtHeight(PeerChain, task.next - 1))
  /\ task.pc = "apply" /\ Calm =>
       /\ task.next + Len(task.batch) - 1 <= Len(PeerChain)
       /\ \A i \in 1..Len(task.batch) : task.batch[i] = AtHeight(PeerChain, task.next + i - 1)

AdoptInv == ForksLight /\ OfferInv /\ FoundInv /\ FetchInv /\ SyncAdopts

\* The engine's view of the local chain.
LEMMA LocalView ==
  ASSUME IInv
  PROVE  /\ View \in Views /\ View.tip = tip /\ View.forks = forks
         /\ Light(View) <=> ForksLight
         /\ \A c : Finds(View, c) <=> Known(c)
<1>1. View \in Views /\ View.tip = tip /\ View.forks = forks
  BY DEF View, Views, IInv, ChainsInv
<1>2. Light(View) <=> ForksLight
  BY <1>1, Zenon DEF Light, ForksLight
<1>3. \A c : Finds(View, c) <=> Known(c)
  BY <1>1, Zenon DEF Finds, Known
<1>. QED  BY <1>1, <1>2, <1>3

\* The engine is left with the view v.
LEMMA LocalViewAfter ==
  ASSUME NEW v, tip' = v.tip, forks' = v.forks
  PROVE  /\ Light(v) => ForksLight'
         /\ \A c : Finds(v, c) => Known(c)'
BY Zenon DEF Light, ForksLight, Finds, Known

\* Nothing local moves.
LEMMA LocalStays ==
  ASSUME UNCHANGED <<tip, forks>>, ForksLight
  PROVE  ForksLight' /\ \A c : Known(c) => Known(c)'
BY DEF ForksLight, Known

\* A step to a state in which the task has no target, nor reports success.
LEMMA Targetless ==
  ASSUME AdoptInv, UNCHANGED <<tip, forks>>,
         task'.pc \notin Aiming \cup {"open", "connected", "done"}
  PROVE  AdoptInv'
<1>1. ForksLight'
  BY LocalStays DEF AdoptInv
<1>2. OfferInv' /\ FoundInv' /\ SyncAdopts'
  BY DEF OfferInv, FoundInv, SyncAdopts, Aiming
<1>3. FetchInv'
  BY DEF FetchInv, Aiming
<1>. QED  BY <1>1, <1>2, <1>3 DEF AdoptInv

\* A step before the search and the download, with the target kept.
LEMMA BeforeSearch ==
  ASSUME AdoptInv, UNCHANGED <<tip, forks, offered>>, task.pc \in Aiming,
         task'.target = task.target, task'.pc \in {"genesis", "tip", "compare"}
  PROVE  AdoptInv'
<1>1. ForksLight'
  BY LocalStays DEF AdoptInv
<1>2. OfferInv'
  BY DEF AdoptInv, OfferInv, Aiming
<1>3. FoundInv' /\ SyncAdopts' /\ FetchInv'
  BY DEF FoundInv, SyncAdopts, FetchInv
<1>. QED  BY <1>1, <1>2, <1>3 DEF AdoptInv

\* A failure with the local chain as it was.
LEMMA FailAdopt ==
  ASSUME IInv, AdoptInv, Fail, UNCHANGED <<tip, forks>>
  PROVE  AdoptInv'
<1>1. task'.pc = "failed"
  BY DEF Fail, IInv, TaskInv, TaskType
<1>. QED  BY <1>1, Targetless DEF Aiming

LEMMA OpenStorage_Adopt ==
  ASSUME IInv, AdoptInv, OpenStorage
  PROVE  AdoptInv'
<1>1. UNCHANGED <<tip, forks, offered>> /\ task.pc = "open"
  BY Zenon DEF OpenStorage
<1>2. Fail \/ Goto("connected")
  <2>0. start_mode \in {"Bootstrap", "Join"}
    BY DEF start_mode, IInv, GenesisInv
  <2>1. \/ Fail \/ Goto("connected") \/ Saves(config.genesis, config.accept, "connected")
    BY <2>0 DEF OpenStorage
  <2>2. Saves(config.genesis, config.accept, "connected") => Fail \/ Goto("connected")
    BY Zenon DEF Saves
  <2>. QED  BY <2>1, <2>2
<1>3. CASE Goto("connected")
  <2>1. task'.pc = "connected"
    BY <1>3, GotoKeeps DEF Pcs
  <2>2. ForksLight'
    BY <1>1, LocalStays DEF AdoptInv
  <2>. QED  BY <1>1, <2>1, <2>2 DEF AdoptInv, OfferInv, FoundInv, SyncAdopts, FetchInv, Aiming
<1>. QED  BY <1>1, <1>2, <1>3, FailAdopt

\* A success: what was offered is adopted, or the history says why not.
LEMMA SucceedAdopt ==
  ASSUME IInv, AdoptInv, Succeed, UNCHANGED <<tip, forks, offered>>,
         excused' = {} => \A o \in offered : Work(tip) >= Work(o.chain)
  PROVE  AdoptInv'
<1>1. task'.pc = "done"
  BY GotoKeeps DEF Succeed, Pcs
<1>2. ForksLight'
  BY LocalStays DEF AdoptInv
<1>3. SyncAdopts'
  BY DEF SyncAdopts
<1>. QED  BY <1>1, <1>2, <1>3 DEF AdoptInv, OfferInv, FoundInv, FetchInv, Aiming

LEMMA bootstrap_Adopt ==
  ASSUME IInv, AdoptInv, bootstrap
  PROVE  AdoptInv'
<1>1. UNCHANGED <<tip, forks, offered>> /\ task.pc = "connected" /\ Succeed
  BY Zenon DEF bootstrap, local
<1>2. offered = {}
  BY <1>1 DEF AdoptInv, OfferInv
<1>. QED  BY <1>1, <1>2, SucceedAdopt

\* The exits that report success early say so.
LEMMA EarlyExit_Adopt ==
  ASSUME IInv, AdoptInv, EmptyBatch \/ Cancelled
  PROVE  AdoptInv'
<1>1. UNCHANGED <<tip, forks, offered>> /\ Succeed
  BY Zenon DEF EmptyBatch, Cancelled, local
<1>2. excused' # {}
  BY DEF EmptyBatch, Cancelled
<1>. QED  BY <1>1, <1>2, SucceedAdopt

\* The steps that look for a peer.
LEMMA Discovery_Adopt ==
  ASSUME IInv, AdoptInv,
         synchronize \/ query_sync_peers \/ CheckPeer \/ NoCandidate \/ ChainTipAnnounced
         \/ connect_sync_peer \/ connect_fallback_sync_peer
  PROVE  AdoptInv'
<1>1. UNCHANGED <<tip, forks>>
  BY Zenon DEF synchronize, query_sync_peers, CheckPeer, NoCandidate, ChainTipAnnounced,
               connect_sync_peer, connect_fallback_sync_peer, local
<1>2. task \in TaskType
  BY DEF IInv, TaskInv
<1>3. task'.pc \in {"query", "ask", "connect", "info", "fallback", "failed"}
  <2>1. CASE synchronize
    BY <1>2, <2>1 DEF synchronize, TaskType
  <2>2. CASE query_sync_peers
    BY <1>2, <2>2 DEF query_sync_peers, TaskType
  <2>3. CASE CheckPeer
    BY <1>2, <2>3 DEF CheckPeer, TaskType
  <2>4. CASE NoCandidate
    BY <1>2, <2>4 DEF NoCandidate, Fail, TaskType
  <2>5. CASE ChainTipAnnounced
    BY <2>5 DEF ChainTipAnnounced, NoTask
  <2>6. CASE connect_sync_peer
    BY <1>2, <2>6 DEF connect_sync_peer, Goto, TaskType
  <2>7. CASE connect_fallback_sync_peer
    BY <1>2, <2>7 DEF connect_fallback_sync_peer, Goto, TaskType
  <2>. QED  BY <2>1, <2>2, <2>3, <2>4, <2>5, <2>6, <2>7
<1>. QED  BY <1>1, <1>3, Targetless DEF Aiming

\* The heaviest offer becomes the target.
LEMMA PickBestPeer_Adopt ==
  ASSUME IInv, AdoptInv, PickBestPeer
  PROVE  AdoptInv'
<1>1. UNCHANGED <<tip, forks, offered>>
  BY Zenon DEF PickBestPeer, local
<1>2. PICK c \in offered :
        /\ \A d \in offered : Work(d.chain) <= Work(c.chain)
        /\ task' = [task EXCEPT !.pc = "genesis", !.peer = c.peer, !.target = c.chain]
  BY DEF PickBestPeer
<1>3. task'.pc = "genesis" /\ task'.target = c.chain
  BY <1>2 DEF IInv, TaskInv, TaskType
<1>4. ForksLight'
  BY <1>1, LocalStays DEF AdoptInv
<1>5. OfferInv'
  BY <1>1, <1>2, <1>3 DEF OfferInv
<1>6. FoundInv' /\ SyncAdopts' /\ FetchInv'
  BY <1>3 DEF FoundInv, SyncAdopts, FetchInv
<1>. QED  BY <1>4, <1>5, <1>6 DEF AdoptInv

LEMMA ensure_genesis_Adopt ==
  ASSUME IInv, AdoptInv, ensure_genesis
  PROVE  AdoptInv'
<1>1. UNCHANGED <<tip, forks, offered>> /\ task.pc = "genesis"
  BY Zenon DEF ensure_genesis
<1>2. Fail \/ Goto("compare")
  <2> DEFINE g == GenesisOf[task.peer]
  <2>1. Fail \/ Goto("compare") \/ Saves(g, TRUE, "compare")
    BY DEF ensure_genesis
  <2>2. Saves(g, TRUE, "compare") => Fail \/ Goto("compare")
    BY Zenon DEF Saves
  <2>. QED  BY <2>1, <2>2
<1>3. CASE Goto("compare")
  <2>1. task'.pc = "compare" /\ task'.target = task.target
    BY <1>3, GotoKeeps DEF Pcs
  <2>. QED  BY <1>1, <2>1, BeforeSearch DEF Aiming
<1>. QED  BY <1>1, <1>2, <1>3, FailAdopt

\* A running node has one offer, the chain the peer has now.
LEMMA request_chain_info_Adopt ==
  ASSUME IInv, AdoptInv, request_chain_info
  PROVE  AdoptInv'
<1>1. UNCHANGED <<tip, forks>>
  BY Zenon DEF request_chain_info, local
<1>2. task.peer \in Peers /\ remote[task.peer] \in Chains
  BY DEF IInv, TaskInv, TaskType, ChainsInv
<1>3. CASE Goto("failed")
  <2>1. task'.pc = "failed"
    BY <1>3, GotoKeeps DEF Pcs
  <2>. QED  BY <1>1, <2>1, Targetless DEF Aiming
<1>4. CASE /\ task' = [task EXCEPT !.pc = "genesis", !.target = remote[task.peer]]
           /\ offered' = {[peer |-> task.peer, chain |-> remote[task.peer]]}
  <2> DEFINE c == remote[task.peer]
             q == task.peer
  <2>0. task' = [task EXCEPT !.pc = "genesis", !.target = c] /\ offered' = {[peer |-> q, chain |-> c]}
    BY <1>4
  <2>1. c \in Chains /\ Work(c) \in Nat
    BY <1>2, WorkNat
  <2> HIDE DEF c, q
  <2>2. task'.pc = "genesis" /\ task'.target = c
    BY <2>0 DEF IInv, TaskInv, TaskType
  <2>3. \A o \in offered' : o.chain = c
    BY <2>0
  <2>4. OfferInv'
    BY <2>1, <2>2, <2>3 DEF OfferInv
  <2>5. ForksLight'
    BY <1>1, LocalStays DEF AdoptInv
  <2>6. FoundInv' /\ SyncAdopts' /\ FetchInv'
    BY <2>2 DEF FoundInv, SyncAdopts, FetchInv
  <2>. QED  BY <2>4, <2>5, <2>6 DEF AdoptInv
<1>. QED  BY <1>3, <1>4 DEF request_chain_info

LEMMA CompareGenesis_Adopt ==
  ASSUME IInv, AdoptInv, CompareGenesis
  PROVE  AdoptInv'
<1>1. UNCHANGED <<tip, forks, offered>> /\ task.pc = "genesis"
  BY Zenon DEF CompareGenesis, local
<1>2. CASE Goto("tip")
  <2>1. task'.pc = "tip" /\ task'.target = task.target
    BY <1>2, GotoKeeps DEF Pcs
  <2>. QED  BY <1>1, <2>1, BeforeSearch DEF Aiming
<1>3. CASE Goto("failed")
  <2>1. task'.pc = "failed"
    BY <1>3, GotoKeeps DEF Pcs
  <2>. QED  BY <1>1, <2>1, Targetless DEF Aiming
<1>. QED  BY <1>2, <1>3 DEF CompareGenesis

\* The offers can be compared with the work of the tip.
LEMMA OfferWork ==
  ASSUME IInv
  PROVE  /\ \A o \in offered : Work(o.chain) \in Nat
         /\ Work(tip) \in Nat /\ Work(task.target) \in Nat
<1>1. \A o \in offered : o.chain \in Chains
  BY DEF IInv, ChainsInv, Offers
<1>2. tip \in Chains /\ task.target \in Chains
  BY DEF IInv, ChainsInv, TaskInv, TaskType
<1>. QED  BY <1>1, <1>2, WorkNat

\* A task whose local chain caught up meanwhile has nothing left to do.
LEMMA ReadTip_Adopt ==
  ASSUME IInv, AdoptInv, ReadTip
  PROVE  AdoptInv'
<1>1. UNCHANGED <<tip, forks, offered>> /\ task.pc = "tip"
  BY Zenon DEF ReadTip, local
<1>2. CASE /\ Work(tip) >= Work(task.target)
           /\ task' = [task EXCEPT !.start = tip, !.pc = "done"]
  <2>1. task'.pc = "done"
    BY <1>2 DEF IInv, TaskInv, TaskType
  <2>2. \A o \in offered : Work(o.chain) <= Work(task.target)
    BY <1>1 DEF AdoptInv, OfferInv, Aiming
  <2>3. \A o \in offered : Work(tip) >= Work(o.chain)
    BY <1>2, <2>2, OfferWork
  <2>4. SyncAdopts'
    BY <1>1, <2>3 DEF SyncAdopts
  <2>5. ForksLight'
    BY <1>1, LocalStays DEF AdoptInv
  <2>6. OfferInv' /\ FoundInv' /\ FetchInv'
    BY <2>1 DEF OfferInv, Aiming, FoundInv, FetchInv
  <2>. QED  BY <2>4, <2>5, <2>6 DEF AdoptInv
<1>3. CASE task' = [task EXCEPT !.start = tip, !.pc = "compare"]
  <2>1. task'.pc = "compare" /\ task'.target = task.target
    BY <1>3 DEF IInv, TaskInv, TaskType
  <2>. QED  BY <1>1, <2>1, BeforeSearch DEF Aiming
<1>. QED  BY <1>2, <1>3 DEF ReadTip

\* A step of the search.
LEMMA InSearch ==
  ASSUME AdoptInv, UNCHANGED <<tip, forks, offered>>, task.pc \in Aiming,
         task'.target = task.target, task'.pc \in {"search", "probe"},
         task'.low = 0 => task'.best = 0
  PROVE  AdoptInv'
<1>1. ForksLight'
  BY LocalStays DEF AdoptInv
<1>2. OfferInv'
  BY DEF AdoptInv, OfferInv, Aiming
<1>3. FoundInv' /\ SyncAdopts' /\ FetchInv'
  BY DEF FoundInv, SyncAdopts, FetchInv
<1>. QED  BY <1>1, <1>2, <1>3 DEF AdoptInv

\* The download starts above a block that the node knows and the peer has.
LEMMA StartFetch ==
  ASSUME IInv, AdoptInv, UNCHANGED <<tip, forks, remote, offered, excused>>,
         task.pc \in {"compare", "search", "found"},
         task'.pc = "fetch", task'.target = task.target, task'.peer = task.peer,
         NEW k \in Nat, task'.next = k + 1,
         excused = {} => k <= Len(PeerChain) /\ Known(AtHeight(PeerChain, k))
  PROVE  AdoptInv'
<1>1. ForksLight' /\ \A c : Known(c) => Known(c)'
  BY LocalStays DEF AdoptInv
<1>2. OfferInv'
  BY DEF AdoptInv, OfferInv, Aiming
<1>3. PeerChain' = PeerChain
  BY DEF PeerChain
<1>4. "remote" \notin excused => IsPrefix(task.target, PeerChain)
  BY DEF AdoptInv, FetchInv, IInv, TargetInv, PeerChain
<1>5. task'.next >= 1 /\ task'.next - 1 = k
  OBVIOUS
<1>6. excused' = {} => k <= Len(PeerChain') /\ Known(AtHeight(PeerChain, task.next - 1))'
  BY <1>3, <1>5 DEF Known
<1>7. FetchInv'
  BY <1>3, <1>4, <1>5, <1>6 DEF FetchInv, Calm
<1>8. FoundInv' /\ SyncAdopts'
  BY DEF FoundInv, SyncAdopts
<1>. QED  BY <1>1, <1>2, <1>7, <1>8 DEF AdoptInv

\* The chain of the peer, while the task has one.
LEMMA PeerHasChain ==
  ASSUME IInv
  PROVE  PeerChain \in Chains /\ Len(PeerChain) \in Nat /\ tip \in Chains /\ Len(tip) \in Nat
<1>1. PeerChain \in Chains /\ tip \in Chains
  BY DEF IInv, ChainsInv, TaskInv, TaskType, PeerChain
<1>. QED  BY <1>1, ChainLen

\* A block of a chain is a prefix of it.
LEMMA CutPrefix ==
  ASSUME NEW c \in Chains, NEW h \in Nat, h <= Len(c)
  PROVE  IsPrefix(AtHeight(c, h), c)
<1>1. /\ AtHeight(c, h) \in Chains /\ Len(AtHeight(c, h)) = h
      /\ \A i \in 1..h : AtHeight(c, h)[i] = c[i]
  BY CutChain
<1>. QED  BY <1>1, PrefixIff

LEMMA CompareTip_Adopt ==
  ASSUME IInv, AdoptInv, CompareTip
  PROVE  AdoptInv'
<1>1. UNCHANGED <<tip, forks, remote, offered, excused>> /\ task.pc = "compare"
  BY Zenon DEF CompareTip, local
<1>2. task \in TaskType /\ task.start \in Chains /\ LocalHeight \in Nat
  BY ChainLen DEF IInv, TaskInv, TaskType, LocalHeight
<1>3. CASE PeerIncludesTip /\ task' = [task EXCEPT !.pc = "fetch", !.next = LocalHeight + 1]
  <2> DEFINE k == LocalHeight
  <2>1. k \in Nat /\ task' = [task EXCEPT !.pc = "fetch", !.next = k + 1]
    BY <1>2, <1>3
  <2>2. k <= Len(PeerChain) /\ AtHeight(PeerChain, k) = task.start
    BY <1>3 DEF PeerIncludesTip, Holds, PeerChain
  <2> HIDE DEF k
  <2>3. /\ task'.pc = "fetch" /\ task'.target = task.target /\ task'.peer = task.peer
        /\ task'.next = k + 1
    BY <1>2, <2>1 DEF TaskType
  <2>4. ASSUME excused = {} PROVE IsPrefix(task.start, tip)
    <3>1. phase \in {"startup", "running"}
      BY <1>1 DEF IInv, GenesisInv
    <3>2. CASE phase = "startup"
      BY <1>1, <1>2, <3>2, PrefixTrivial DEF IInv, StartInv
    <3>3. CASE phase = "running"
      BY <1>1, <2>4, <3>3 DEF IInv, StartInv
    <3>. QED  BY <3>1, <3>2, <3>3
  <2>5. excused = {} => Known(AtHeight(PeerChain, k))
    BY <2>2, <2>4 DEF Known
  <2>. QED  BY <1>1, <2>1, <2>2, <2>3, <2>5, StartFetch
<1>4. CASE task' = SearchFrom(task)
  <2> DEFINE n == Min({Len(task.target), Len(task.start)})
  <2>1. task' = [task EXCEPT !.pc = "search", !.low = 0, !.best = 0, !.high = n]
    BY <1>4 DEF SearchFrom
  <2> HIDE DEF n
  <2>2. task'.pc = "search" /\ task'.best = 0 /\ task'.target = task.target
    BY <1>2, <2>1 DEF TaskType
  <2>. QED  BY <1>1, <2>2, InSearch DEF Aiming
<1>. QED  BY <1>3, <1>4 DEF CompareTip

LEMMA ReadLocalBlock_Adopt ==
  ASSUME IInv, AdoptInv, ReadLocalBlock
  PROVE  AdoptInv'
<1>1. UNCHANGED <<tip, forks, offered>> /\ task.pc = "search"
  BY Zenon DEF ReadLocalBlock, local
<1>2. CASE task' = [task EXCEPT !.pc = "probe", !.seen = AtHeight(tip, Mid)]
  <2> DEFINE b == AtHeight(tip, Mid)
  <2>1. task' = [task EXCEPT !.pc = "probe", !.seen = b]
    BY <1>2
  <2> HIDE DEF b
  <2>2. /\ task'.pc = "probe" /\ task'.target = task.target /\ task'.low = task.low
        /\ task'.best = task.best
    BY <2>1 DEF IInv, TaskInv, TaskType
  <2>3. task.low = 0 => task.best = 0
    BY <1>1 DEF AdoptInv, FoundInv
  <2>. QED  BY <1>1, <2>2, <2>3, InSearch DEF Aiming
<1>. QED  BY <1>1, <1>2, FailAdopt DEF ReadLocalBlock

LEMMA ProbeRemoteBlock_Adopt ==
  ASSUME IInv, AdoptInv, ProbeRemoteBlock
  PROVE  AdoptInv'
<1> DEFINE m == Mid
<1>1. UNCHANGED <<tip, forks, remote, offered, excused>> /\ task.pc = "probe"
  BY Zenon DEF ProbeRemoteBlock, local
<1>2. task \in TaskType /\ task.low <= task.high
  BY <1>1 DEF IInv, TaskInv
<1>3. m \in Nat /\ task.low <= m /\ task.low \in Nat
  BY <1>2, MidBetween DEF TaskType
<1>4. \/ task' = [task EXCEPT !.pc = "search", !.best = m, !.low = m + 1]
      \/ m = 0 /\ task' = [task EXCEPT !.pc = "found"]
      \/ task' = [task EXCEPT !.pc = "search", !.high = m - 1]
  BY Zenon DEF ProbeRemoteBlock
<1>5. task.low = 0 => task.best = 0
  BY <1>1 DEF AdoptInv, FoundInv
<1> HIDE DEF m
<1>6. CASE task' = [task EXCEPT !.pc = "search", !.best = m, !.low = m + 1]
  <2>1. task'.pc = "search" /\ task'.target = task.target /\ task'.low = m + 1
    BY <1>2, <1>6 DEF TaskType
  <2>2. task'.low # 0
    BY <1>3, <2>1
  <2>. QED  BY <1>1, <2>1, <2>2, InSearch DEF Aiming
<1>7. CASE task' = [task EXCEPT !.pc = "search", !.high = m - 1]
  <2>1. /\ task'.pc = "search" /\ task'.target = task.target /\ task'.low = task.low
        /\ task'.best = task.best
    BY <1>2, <1>7 DEF TaskType
  <2>. QED  BY <1>1, <1>5, <2>1, InSearch DEF Aiming
<1>8. CASE m = 0 /\ task' = [task EXCEPT !.pc = "found"]
  <2>1. /\ task'.pc = "found" /\ task'.target = task.target /\ task'.best = task.best
        /\ task'.peer = task.peer
    BY <1>2, <1>8 DEF TaskType
  <2>2. task'.best = 0
    BY <1>3, <1>5, <1>8, <2>1
  <2>3. "remote" \notin excused => IsPrefix(task.target, PeerChain)
    BY <1>1 DEF IInv, TargetInv, PeerChain
  <2>4. PeerChain' = PeerChain
    BY <1>1, <2>1 DEF PeerChain
  <2>5. ForksLight'
    BY <1>1, LocalStays DEF AdoptInv
  <2>6. OfferInv'
    BY <1>1, <2>1 DEF AdoptInv, OfferInv, Aiming
  <2>7. FetchInv'
    BY <1>1, <2>1, <2>3, <2>4 DEF FetchInv
  <2>8. FoundInv' /\ SyncAdopts'
    BY <2>1, <2>2 DEF FoundInv, SyncAdopts
  <2>. QED  BY <2>5, <2>6, <2>7, <2>8 DEF AdoptInv
<1>. QED  BY <1>4, <1>6, <1>7, <1>8

\* The search ends with the last common block, or with genesis.
LEMMA LcaFound_Adopt ==
  ASSUME IInv, AdoptInv, LcaFound
  PROVE  AdoptInv'
<1> DEFINE k == task.best
<1>1. UNCHANGED <<tip, forks, remote, offered, excused>>
  BY Zenon DEF LcaFound, local
<1>2. /\ task.pc = "found" \/ (task.pc = "search" /\ task.low > task.high)
      /\ task' = [task EXCEPT !.pc = "fetch", !.next = k + 1]
  BY Zenon DEF LcaFound
<1>3. task \in TaskType /\ k \in Nat /\ task.low \in Nat /\ task.high \in Nat
  BY DEF IInv, TaskInv, TaskType
<1>4. PeerChain \in Chains /\ Len(PeerChain) \in Nat /\ tip \in Chains /\ Len(tip) \in Nat
  BY PeerHasChain
<1>5. ASSUME excused = {} PROVE k <= Len(PeerChain) /\ Known(AtHeight(PeerChain, k))
  <2>1. CASE task.pc = "found"
    <3>1. k = 0
      BY <2>1 DEF AdoptInv, FoundInv
    <3>2. AtHeight(PeerChain, 0) = AtHeight(tip, 0)
      <4>1. \A i \in 1..0 : PeerChain[i] = tip[i]
        OBVIOUS
      <4>. QED  BY <1>4, <4>1, CutsEqual
    <3>3. IsPrefix(AtHeight(tip, 0), tip)
      BY <1>4, CutPrefix
    <3>. QED  BY <1>4, <3>1, <3>2, <3>3 DEF Known
  <2>2. CASE task.pc = "search" /\ task.low > task.high
    <3>1. Bracketed
      BY <1>5, <2>2 DEF IInv, SearchInv
    <3>2. task.low > 0 /\ k = task.low - 1
      BY <1>3, <2>2, <3>1 DEF Bracketed
    <3>3. k \in 0..task.low - 1
      BY <1>3, <3>2
    <3>4. Same(k)
      BY <3>1, <3>3, Zenon DEF Bracketed
    <3>5. k <= Len(tip) /\ k <= Len(PeerChain) /\ AtHeight(tip, k) = AtHeight(PeerChain, k)
      BY <3>4 DEF Same, PeerChain
    <3>6. IsPrefix(AtHeight(tip, k), tip)
      BY <1>3, <1>4, <3>5, CutPrefix
    <3>. QED  BY <3>5, <3>6 DEF Known
  <2>. QED  BY <1>2, <2>1, <2>2
<1> HIDE DEF k
<1>6. /\ task'.pc = "fetch" /\ task'.target = task.target /\ task'.peer = task.peer
      /\ task'.next = k + 1
  BY <1>2, <1>3 DEF TaskType
<1>7. task.pc \in {"compare", "search", "found"}
  BY <1>2
<1>. QED  BY <1>1, <1>3, <1>5, <1>6, <1>7, StartFetch

----------------------------------------------------------------------------
(***************************************************************************)
(* The download, and what it leaves the engine with.                       *)
(***************************************************************************)

\* The parent of a block of a chain is the block below it.
LEMMA ParentCut ==
  ASSUME NEW c \in Chains, NEW h \in Nat, h + 1 <= Len(c)
  PROVE  /\ AtHeight(c, h + 1) \in Chains /\ AtHeight(c, h + 1) # <<>>
         /\ Front(AtHeight(c, h + 1)) = AtHeight(c, h)
<1> DEFINE b == AtHeight(c, h + 1)
<1>1. Len(c) \in Nat
  BY ChainLen
<1>2. /\ b \in Chains /\ Len(b) = h + 1 /\ \A i \in 1..(h + 1) : b[i] = c[i]
  BY <1>1, CutChain
<1>3. b # <<>>
  BY <1>2
<1>4. Front(b) = AtHeight(b, h)
  <2>1. Len(b) - 1 = h
    BY <1>2
  <2>. QED  BY <2>1 DEF Front, AtHeight
<1>5. AtHeight(b, h) = AtHeight(c, h)
  <2>1. h <= Len(b) /\ h <= Len(c) /\ \A i \in 1..h : b[i] = c[i]
    BY <1>1, <1>2
  <2> HIDE DEF b
  <2>. QED  BY <1>2, <2>1, CutsEqual
<1>. QED  BY <1>2, <1>3, <1>4, <1>5

\* Through a batch no fork becomes heavier than the tip.
LEMMA BatchLight ==
  ASSUME IInv, ForksLight
  PROVE  \A n \in 0..Len(task.batch) : Batch[n] \in Views /\ Light(Batch[n])
<1> DEFINE m == Len(task.batch)
           T == {n \in 0..m : ~Light(Batch[n])}
<1>1. View \in Views /\ Light(View)
  BY LocalView
<1>2. task.batch \in Seq(Chains) /\ m \in Nat /\ \A i \in 1..m : task.batch[i] \in Chains
  BY DEF IInv, TaskInv, TaskType
<1>3. \A n \in 0..m : Batch[n] \in Views
  BY <1>1, <1>2, BatchViews
<1>4. \A n \in 0..m : Batch[n] = IF n = 0 THEN View ELSE on_block(Batch[n - 1], task.batch[n])
  BY <1>1, <1>2, BatchUnfold
<1> HIDE DEF m
<1> SUFFICES ASSUME T # {} PROVE FALSE
  BY <1>3 DEF m
<1>5. T \in SUBSET Nat
  BY <1>2
<1> HIDE DEF T
<1>6. PICK n \in T : \A k \in T : n <= k
  BY <1>5, LeastNumber
<1>7. n \in 0..m /\ ~Light(Batch[n])
  BY <1>6 DEF T
<1>8. n # 0
  BY <1>1, <1>4, <1>7
<1>9. n - 1 \in 0..m /\ n \in 1..m /\ n - 1 \notin T
  BY <1>2, <1>6, <1>7, <1>8
<1>10. Batch[n - 1] \in Views /\ Light(Batch[n - 1]) /\ task.batch[n] \in Chains
  BY <1>2, <1>3, <1>9 DEF T
<1>11. Batch[n] = on_block(Batch[n - 1], task.batch[n])
  BY <1>4, <1>7, <1>8
<1>12. Light(Batch[n])
  BY <1>10, <1>11, EngineKnows
<1>. QED  BY <1>7, <1>12

\* A batch of consecutive blocks on top of a known one: the engine knows
\* each of them when it was its turn, unless a parent was in the middle of a fork.
LEMMA BatchKnows ==
  ASSUME IInv, ForksLight, NEW c \in Chains, NEW k \in Nat,
         k + Len(task.batch) <= Len(c), Known(AtHeight(c, k)),
         \A i \in 1..Len(task.batch) : task.batch[i] = AtHeight(c, k + i)
  PROVE  \A n \in 0..Len(task.batch) : Batch[n].midfork \/ Finds(Batch[n], AtHeight(c, k + n))
<1> DEFINE m == Len(task.batch)
           Good(n) == Batch[n].midfork \/ Finds(Batch[n], AtHeight(c, k + n))
           T == {n \in 0..m : ~Good(n)}
<1>1. View \in Views /\ Finds(View, AtHeight(c, k))
  BY LocalView
<1>2. task.batch \in Seq(Chains) /\ m \in Nat
  BY DEF IInv, TaskInv, TaskType
<1>3. \A n \in 0..m : Batch[n] \in Views /\ Light(Batch[n])
  BY BatchLight
<1>4. \A n \in 0..m : Batch[n] = IF n = 0 THEN View ELSE on_block(Batch[n - 1], task.batch[n])
  BY <1>1, <1>2, BatchUnfold
<1>5. Len(c) \in Nat
  BY ChainLen
<1>6. Good(0)
  <2>1. Batch[0] = View /\ k + 0 = k
    BY <1>2, <1>4
  <2>. QED  BY <1>1, <2>1
<1>7. ASSUME NEW n \in Nat, n + 1 <= m, Good(n) PROVE Good(n + 1)
  <2> DEFINE b == AtHeight(c, (k + n) + 1)
  <2>1. n \in 0..m /\ n + 1 \in 0..m /\ n + 1 \in 1..m /\ (n + 1) - 1 = n /\ n + 1 # 0
    BY <1>2, <1>7
  <2>2. k + n \in Nat /\ (k + n) + 1 <= Len(c) /\ k + (n + 1) = (k + n) + 1
    BY <1>2, <1>5, <1>7
  <2>3. task.batch[n + 1] = b
    BY <2>1, <2>2
  <2>4. b \in Chains /\ b # <<>> /\ Front(b) = AtHeight(c, k + n)
    BY <2>2, ParentCut
  <2>5. Batch[n] \in Views /\ Light(Batch[n])
    BY <1>3, <2>1
  <2>6. Batch[n + 1] = on_block(Batch[n], b)
    BY <1>4, <2>1, <2>3
  <2> HIDE DEF b
  <2>7. Batch[n].midfork => on_block(Batch[n], b).midfork
    BY <2>4, <2>5, EngineKnows
  <2>8. Finds(Batch[n], Front(b)) => Finds(on_block(Batch[n], b), b) \/ on_block(Batch[n], b).midfork
    BY <2>4, <2>5, EngineKnows
  <2>9. Batch[n + 1].midfork \/ Finds(Batch[n + 1], b)
    BY <1>7, <2>4, <2>6, <2>7, <2>8, Zenon
  <2>. QED  BY <2>2, <2>9 DEF b
<1> HIDE DEF Good, m
<1> SUFFICES ASSUME T # {} PROVE FALSE
  BY DEF Good, m
<1>8. T \in SUBSET Nat
  BY <1>2
<1> HIDE DEF T
<1>9. PICK n \in T : \A j \in T : n <= j
  BY <1>8, LeastNumber
<1>10. n \in 0..m /\ ~Good(n) /\ n # 0
  BY <1>6, <1>9 DEF T
<1>11. n - 1 \in 0..m /\ n - 1 \notin T /\ n - 1 \in Nat /\ (n - 1) + 1 <= m /\ (n - 1) + 1 = n
  BY <1>2, <1>9, <1>10
<1>12. Good(n - 1)
  BY <1>11 DEF T
<1>13. Good((n - 1) + 1)
  BY <1>7, <1>11, <1>12
<1>. QED  BY <1>10, <1>11, <1>13

\* The batch holds the blocks of the peer's chain from the next height on.
LEMMA request_blocks_by_height_range_Adopt ==
  ASSUME IInv, AdoptInv, request_blocks_by_height_range
  PROVE  AdoptInv'
<1> DEFINE k == Received(task.next)
           bs == [i \in 1..k |-> AtHeight(PeerChain, task.next + i - 1)]
<1>1. /\ UNCHANGED <<tip, forks, remote, offered, excused>>
      /\ task.pc = "fetch" /\ task.next <= Len(task.target)
      /\ RangeEnd(task.next) <= Len(PeerChain)
      /\ task' = [task EXCEPT !.pc = "apply", !.batch = bs]
  BY Zenon DEF request_blocks_by_height_range, local, Holds, BlocksMissing, RemoteHeight, PeerChain
<1>2. /\ task \in TaskType /\ task.next \in Nat /\ task.target \in Chains
  BY DEF IInv, TaskInv, TaskType
<1>3. Len(task.target) \in Nat /\ Len(PeerChain) \in Nat
  BY <1>2, ChainLen, PeerHasChain
<1>4. k \in Nat /\ task.next + k - 1 <= Len(PeerChain)
  <2>1. /\ RangeEnd(task.next) \in Nat /\ RangeEnd(task.next) <= Len(task.target)
        /\ k \in Nat /\ task.next + k - 1 <= RangeEnd(task.next)
    BY <1>1, <1>2, <1>3, BatchSize, Zenon DEF RemoteHeight
  <2> HIDE DEF k
  <2>. QED  BY <1>1, <1>2, <1>3, <2>1
<1> HIDE DEF k
<1>5. Len(bs) = k /\ \A i \in 1..k : bs[i] = AtHeight(PeerChain, task.next + i - 1)
  BY <1>4
<1> HIDE DEF bs
<1>6. /\ task'.pc = "apply" /\ task'.batch = bs /\ task'.next = task.next
      /\ task'.target = task.target /\ task'.peer = task.peer
  BY <1>1, <1>2 DEF TaskType
<1>7. PeerChain' = PeerChain /\ Calm' = Calm
  BY <1>1, <1>6 DEF PeerChain, Calm
<1>8. ForksLight'
  BY <1>1, LocalStays DEF AdoptInv
<1>9. OfferInv'
  BY <1>1, <1>6 DEF AdoptInv, OfferInv, Aiming
<1>10. Known(AtHeight(PeerChain, task.next - 1)) => Known(AtHeight(PeerChain, task.next - 1))'
  BY <1>1, <1>6, <1>7 DEF Known
<1>11. FetchInv'
  <2>1. IsPrefix(task.target, PeerChain) \/ "remote" \in excused
    BY <1>1 DEF AdoptInv, FetchInv
  <2>2. task.next >= 1
    BY <1>1 DEF AdoptInv, FetchInv
  <2>3. Calm => task.next - 1 <= Len(PeerChain) /\ Known(AtHeight(PeerChain, task.next - 1))'
    BY <1>1, <1>10 DEF AdoptInv, FetchInv
  <2>4. /\ task'.next + Len(task'.batch) - 1 <= Len(PeerChain)
        /\ \A i \in 1..Len(task'.batch) : task'.batch[i] = AtHeight(PeerChain, task'.next + i - 1)
    BY <1>4, <1>5, <1>6
  <2>. QED  BY <1>1, <1>6, <1>7, <2>1, <2>2, <2>3, <2>4, Zenon DEF FetchInv
<1>12. FoundInv' /\ SyncAdopts'
  BY <1>6 DEF FoundInv, SyncAdopts
<1>. QED  BY <1>8, <1>9, <1>11, <1>12 DEF AdoptInv

\* Everything below the next block to fetch is known when a whole batch is applied.
LEMMA apply_blocks_Adopt ==
  ASSUME IInv, AdoptInv, apply_blocks
  PROVE  AdoptInv'
<1>1. UNCHANGED <<remote, offered>> /\ task.pc = "apply"
  BY Zenon DEF apply_blocks
<1>2. PICK n \in 0..Len(task.batch) :
        /\ tip' = Batch[n].tip /\ forks' = Batch[n].forks
        /\ \/ Fail
           \/ /\ task' = [task EXCEPT !.pc = "fetch", !.next = @ + Len(task.batch), !.batch = <<>>]
              /\ excused \subseteq excused'
              /\ excused' = {} => n = Len(task.batch) /\ ~Batch[n].midfork
  BY DEF apply_blocks
<1>3. /\ task \in TaskType /\ task.next \in Nat /\ Len(task.batch) \in Nat /\ task.next >= 1
  BY <1>1 DEF IInv, TaskInv, TaskType, AdoptInv, FetchInv
<1>4. Batch[n] \in Views /\ Light(Batch[n])
  BY BatchLight DEF AdoptInv
<1>5. ForksLight'
  BY <1>2, <1>4, LocalViewAfter
<1>6. CASE Fail
  <2>1. task'.pc = "failed"
    BY <1>3, <1>6 DEF Fail, TaskType
  <2>2. OfferInv' /\ FoundInv' /\ SyncAdopts' /\ FetchInv'
    BY <2>1 DEF OfferInv, FoundInv, SyncAdopts, FetchInv, Aiming
  <2>. QED  BY <1>5, <2>2 DEF AdoptInv
<1>7. CASE /\ task' = [task EXCEPT !.pc = "fetch", !.next = @ + Len(task.batch), !.batch = <<>>]
           /\ excused \subseteq excused'
           /\ excused' = {} => n = Len(task.batch) /\ ~Batch[n].midfork
  <2>1. excused' = {} => n = Len(task.batch) /\ n \in Nat /\ ~Batch[n].midfork
    BY <1>3, <1>7
  <2>2. /\ task'.pc = "fetch" /\ task'.next = task.next + Len(task.batch)
        /\ task'.target = task.target /\ task'.peer = task.peer
    BY <1>3, <1>7 DEF TaskType
  <2>3. PeerChain' = PeerChain /\ PeerChain \in Chains /\ Len(PeerChain) \in Nat
    BY <1>1, <2>2, PeerHasChain DEF PeerChain
  <2>4. excused \subseteq excused'
    BY <1>7
  <2>5. OfferInv'
    BY <1>1, <2>2 DEF AdoptInv, OfferInv, Aiming
  <2>6. ASSUME Calm'
        PROVE  /\ task'.next - 1 <= Len(PeerChain')
               /\ Known(AtHeight(PeerChain, task.next - 1))'
    <3> DEFINE k == task.next - 1
    <3>1. Calm /\ ~Batch[n].midfork /\ n = Len(task.batch)
      BY <2>1, <2>2, <2>4, <2>6 DEF Calm
    <3>2. /\ Known(AtHeight(PeerChain, k))
          /\ task.next + Len(task.batch) - 1 <= Len(PeerChain)
          /\ \A i \in 1..Len(task.batch) : task.batch[i] = AtHeight(PeerChain, task.next + i - 1)
      BY <1>1, <3>1 DEF AdoptInv, FetchInv
    <3>3. /\ k \in Nat /\ k + Len(task.batch) <= Len(PeerChain) /\ k + n = task'.next - 1
          /\ \A i \in 1..Len(task.batch) : task.next + i - 1 = k + i
      <4> DEFINE x == task.next
                 y == task'.next
                 l == Len(task.batch)
                 h == Len(PeerChain)
      <4>1. x \in Nat /\ x >= 1 /\ l \in Nat /\ n = l /\ h \in Nat /\ x + l - 1 <= h /\ y = x + n
        BY <1>3, <2>2, <2>3, <3>1, <3>2
      <4> HIDE DEF x, y, l, h
      <4>2. x - 1 \in Nat /\ x - 1 + l <= h /\ x - 1 + n = y - 1 /\ \A i \in 1..l : x + i - 1 = x - 1 + i
        BY <4>1
      <4>. QED  BY <4>2 DEF x, y, l, h
    <3>4. \A i \in 1..Len(task.batch) : task.batch[i] = AtHeight(PeerChain, k + i)
      BY <3>2, <3>3
    <3> HIDE DEF k
    <3>5. Finds(Batch[n], AtHeight(PeerChain, k + n))
      BY <2>3, <3>1, <3>2, <3>3, <3>4, BatchKnows DEF AdoptInv
    <3>6. Known(AtHeight(PeerChain, task.next - 1))'
      BY <1>2, <2>3, <3>3, <3>5, Zenon DEF Finds, Known
    <3>. QED  BY <2>3, <3>1, <3>3, <3>6
  <2>7. "remote" \notin excused' => IsPrefix(task.target, PeerChain)
    BY <1>1, <2>4 DEF AdoptInv, FetchInv
  <2>8. task'.next >= 1
    BY <1>3, <2>2
  <2>9. FetchInv'
    BY <2>2, <2>3, <2>6, <2>7, <2>8 DEF FetchInv
  <2>10. FoundInv' /\ SyncAdopts'
    BY <2>2 DEF FoundInv, SyncAdopts
  <2>. QED  BY <1>5, <2>5, <2>9, <2>10 DEF AdoptInv
<1>. QED  BY <1>2, <1>6, <1>7

\* When no height is missing, the chain that was chosen is known, and the tip
\* has at least its work.
LEMMA SyncComplete_Adopt ==
  ASSUME IInv, AdoptInv, SyncComplete
  PROVE  AdoptInv'
<1>1. /\ UNCHANGED <<tip, forks, remote, offered, excused>>
      /\ task.pc = "fetch" /\ ~(task.next <= Len(task.target)) /\ Succeed
  BY Zenon DEF SyncComplete, local, BlocksMissing, RemoteHeight
<1>3. task.target \in Chains /\ Len(task.target) \in Nat /\ task.next \in Nat /\ forks \subseteq Chains
  BY ChainLen DEF IInv, ChainsInv, TaskInv, TaskType
<1>4. PeerChain \in Chains /\ Len(PeerChain) \in Nat /\ tip \in Chains
  BY PeerHasChain
<1>5. \A o \in offered : Work(o.chain) <= Work(task.target)
  BY <1>1 DEF AdoptInv, OfferInv, Aiming
<1>6. ASSUME excused = {} PROVE Work(task.target) <= Work(tip)
  <2>1. CASE task.target = <<>>
    <3>1. IsPrefix(task.target, tip)
      BY <1>4, <2>1, PrefixTrivial
    <3>. QED  BY <1>3, <1>4, <3>1, WorkGrows
  <2>2. CASE task.target # <<>>
    <3> DEFINE k == task.next - 1
               b == AtHeight(PeerChain, k)
    <3>1. IsPrefix(task.target, PeerChain) /\ k <= Len(PeerChain) /\ Known(b) /\ task.next >= 1
      BY <1>1, <1>6, <2>2 DEF AdoptInv, FetchInv, Calm
    <3>2. k \in Nat /\ Len(task.target) <= k
      BY <1>1, <1>3, <3>1
    <3> HIDE DEF k
    <3>3. b \in Chains /\ Len(b) = k /\ \A i \in 1..k : b[i] = PeerChain[i]
      BY <1>4, <3>1, <3>2, CutChain
    <3>4. \A i \in 1..Len(task.target) : task.target[i] = PeerChain[i]
      BY <1>3, <1>4, <3>1, PrefixIff
    <3> HIDE DEF b
    <3>5. IsPrefix(task.target, b)
      <4>1. Len(task.target) <= Len(b) /\ \A i \in 1..Len(task.target) : task.target[i] = b[i]
        BY <1>3, <3>2, <3>3, <3>4
      <4>. QED  BY <1>3, <3>3, <4>1, PrefixIff
    <3>6. CASE IsPrefix(b, tip)
      <4>1. IsPrefix(task.target, tip)
        BY <1>3, <1>4, <3>3, <3>5, <3>6, PrefixTransitive
      <4>. QED  BY <1>3, <1>4, <4>1, WorkGrows
    <3>7. ASSUME NEW f \in forks, IsPrefix(b, f) PROVE Work(task.target) <= Work(tip)
      <4>1. f \in Chains
        BY <1>3
      <4>2. IsPrefix(task.target, f)
        BY <1>3, <3>3, <3>5, <3>7, <4>1, PrefixTransitive
      <4>3. Work(task.target) <= Work(f)
        BY <1>3, <4>1, <4>2, WorkGrows
      <4>4. Work(f) <= Work(tip)
        BY DEF AdoptInv, ForksLight
      <4>5. Work(task.target) \in Nat /\ Work(f) \in Nat /\ Work(tip) \in Nat
        BY <1>3, <1>4, <4>1, WorkNat
      <4>. QED  BY <4>3, <4>4, <4>5
    <3>. QED  BY <3>1, <3>6, <3>7 DEF Known
  <2>. QED  BY <2>1, <2>2
<1>7. excused = {} => \A o \in offered : Work(tip) >= Work(o.chain)
  BY <1>5, <1>6, OfferWork
<1>. QED  BY <1>1, <1>7, SucceedAdopt

----------------------------------------------------------------------------
(***************************************************************************)
(* Meanwhile, again.                                                       *)
(***************************************************************************)

\* What the peer has at a height stays while its chain grows; a replaced
\* chain is noted, unless there was nothing to adopt.
LEMMA RemoteMoves_Adopt ==
  ASSUME IInv, AdoptInv, RemoteMoves
  PROVE  AdoptInv'
<1>1. UNCHANGED <<tip, forks, task, offered>>
  BY Zenon DEF RemoteMoves, local
<1>2. PICK p \in Peers, c \in Chains :
        /\ remote' = [remote EXCEPT ![p] = c]
        /\ excused' = IF p = task.peer /\ task.target # <<>> /\ ~IsPrefix(remote[p], c)
                        THEN excused \cup {"remote"} ELSE excused
  BY DEF RemoteMoves
<1>3. remote \in [Peers -> Chains] /\ task.peer \in Peers /\ task.target \in Chains /\ task.next \in Nat
  BY DEF IInv, ChainsInv, TaskInv, TaskType
<1>4. /\ PeerChain' = (IF p = task.peer THEN c ELSE PeerChain)
      /\ PeerChain' \in Chains /\ PeerChain \in Chains
  BY <1>1, <1>2, <1>3 DEF PeerChain
<1>5. excused \subseteq excused'
  BY <1>2
<1>6. "remote" \notin excused' => task.target = <<>> \/ IsPrefix(PeerChain, PeerChain')
  <2>1. remote[task.peer] = PeerChain
    BY DEF PeerChain
  <2>. QED  BY <1>2, <1>4, <2>1, PrefixTrivial
<1>7. ForksLight' /\ OfferInv' /\ FoundInv'
  BY <1>1 DEF AdoptInv, ForksLight, OfferInv, FoundInv
<1>8. SyncAdopts'
  <2>1. excused' = {} => excused = {}
    BY <1>5
  <2>. QED  BY <1>1, <2>1 DEF AdoptInv, SyncAdopts
<1>9. ASSUME task.pc \in {"found", "fetch", "apply"}, "remote" \notin excused'
      PROVE  IsPrefix(task.target, PeerChain')
  <2>1. IsPrefix(task.target, PeerChain)
    BY <1>5, <1>9 DEF AdoptInv, FetchInv
  <2>. QED  BY <1>3, <1>4, <1>6, <1>9, <2>1, PrefixTransitive, PrefixTrivial
<1>10. Calm' => Calm /\ IsPrefix(PeerChain, PeerChain')
  BY <1>1, <1>5, <1>6 DEF Calm
<1>11. Len(PeerChain) \in Nat /\ Len(PeerChain') \in Nat
  BY <1>4, ChainLen
<1>12. ASSUME Calm'
       PROVE  \A h \in Nat : h <= Len(PeerChain) =>
                /\ h <= Len(PeerChain') /\ AtHeight(PeerChain', h) = AtHeight(PeerChain, h)
  <2> DEFINE r == PeerChain
             s == PeerChain'
  <2>1. r \in Chains /\ s \in Chains /\ IsPrefix(r, s)
    BY <1>4, <1>10, <1>12
  <2> HIDE DEF r, s
  <2>2. \A h \in Nat : h <= Len(r) => h <= Len(s) /\ AtHeight(s, h) = AtHeight(r, h)
    BY <2>1, GrownCut
  <2>. QED  BY <2>2 DEF r, s
<1>13. ASSUME task.pc \in {"fetch", "apply"}, Calm'
       PROVE  /\ task.next - 1 <= Len(PeerChain')
              /\ Known(AtHeight(PeerChain, task.next - 1))'
  <2> DEFINE k == task.next - 1
  <2>1. task.next >= 1 /\ k <= Len(PeerChain) /\ Known(AtHeight(PeerChain, k))
    BY <1>10, <1>13 DEF AdoptInv, FetchInv
  <2>2. k \in Nat
    BY <1>3, <2>1
  <2>3. k <= Len(PeerChain') /\ AtHeight(PeerChain', k) = AtHeight(PeerChain, k)
    BY <1>12, <1>13, <2>1, <2>2
  <2>4. Known(AtHeight(PeerChain, task.next - 1))'
    <3>1. Known(AtHeight(PeerChain', k))
      BY <2>1, <2>3
    <3>. QED  BY <1>1, <3>1 DEF Known
  <2>. QED  BY <2>3, <2>4
<1>14. ASSUME task.pc = "apply", Calm'
       PROVE  /\ task.next + Len(task.batch) - 1 <= Len(PeerChain')
              /\ \A i \in 1..Len(task.batch) :
                   task.batch[i] = AtHeight(PeerChain', task.next + i - 1)
  <2> DEFINE m == Len(task.batch)
             x == task.next
             l == Len(PeerChain)
  <2>1. /\ x + m - 1 <= l /\ x >= 1
        /\ \A i \in 1..m : task.batch[i] = AtHeight(PeerChain, x + i - 1)
    BY <1>10, <1>14 DEF AdoptInv, FetchInv
  <2>2. m \in Nat /\ x \in Nat /\ l \in Nat
    BY <1>3, <1>11 DEF IInv, TaskInv, TaskType
  <2> HIDE DEF m, x, l
  <2>3. x + m - 1 \in Nat /\ \A i \in 1..m : x + i - 1 \in Nat /\ x + i - 1 <= l
    BY <2>1, <2>2
  <2>4. x + m - 1 <= Len(PeerChain')
    BY <1>12, <1>14, <2>1, <2>3 DEF l
  <2>5. \A i \in 1..m : AtHeight(PeerChain', x + i - 1) = AtHeight(PeerChain, x + i - 1)
    BY <1>12, <1>14, <2>3 DEF l
  <2>6. \A i \in 1..m : task.batch[i] = AtHeight(PeerChain', x + i - 1)
    BY <2>1, <2>5
  <2>. QED  BY <2>4, <2>6 DEF m, x
<1>15. FetchInv'
  <2>1. task.pc \in {"fetch", "apply"} => task.next >= 1
    BY DEF AdoptInv, FetchInv
  <2>. QED  BY <1>1, <1>9, <1>13, <1>14, <2>1, Zenon DEF FetchInv
<1>. QED  BY <1>7, <1>8, <1>15 DEF AdoptInv

\* The local tip never loses work, and what was known stays known without a
\* reorganisation.
LEMMA LocalMoves_Adopt ==
  ASSUME IInv, AdoptInv, LocalMoves
  PROVE  AdoptInv'
<1>1. UNCHANGED <<remote, task, offered>>
  BY Zenon DEF LocalMoves
<1>2. PICK b \in Chains :
        /\ tip' = on_block(View, b).tip /\ forks' = on_block(View, b).forks
        /\ excused' = IF on_block(View, b).reorg THEN excused \cup {"local"} ELSE excused
  BY DEF LocalMoves
<1> DEFINE v == on_block(View, b)
<1>3. View \in Views /\ Light(View) /\ View.tip = tip /\ \A c : Finds(View, c) <=> Known(c)
  BY LocalView DEF AdoptInv
<1>4. /\ v \in Views /\ Light(v) /\ Work(tip) <= Work(v.tip)
      /\ v.reorg \/ \A c \in Chains : Finds(View, c) => Finds(v, c)
  BY <1>3, EngineStep, EngineKnows
<1>5. tip' = v.tip /\ forks' = v.forks /\ excused' = IF v.reorg THEN excused \cup {"local"} ELSE excused
  BY <1>2
<1> HIDE DEF v
<1>6. excused \subseteq excused' /\ (excused' = {} => ~v.reorg)
  BY <1>5
<1>7. ForksLight' /\ \A c : Finds(v, c) => Known(c)'
  BY <1>4, <1>5, LocalViewAfter
<1>8. OfferInv' /\ FoundInv'
  BY <1>1 DEF AdoptInv, OfferInv, FoundInv
<1>9. SyncAdopts'
  <2>1. tip' \in Chains
    BY <1>4, <1>5 DEF Views
  <2>2. Work(tip') \in Nat /\ Work(tip) \in Nat /\ \A o \in offered : Work(o.chain) \in Nat
    BY <2>1, WorkNat, OfferWork
  <2>3. Work(tip) <= Work(tip')
    BY <1>4, <1>5
  <2>4. task.pc = "done" /\ excused' = {} => \A o \in offered : Work(tip) >= Work(o.chain)
    BY <1>6 DEF AdoptInv, SyncAdopts
  <2> SUFFICES ASSUME task.pc = "done", excused' = {}, NEW o \in offered
               PROVE  Work(tip') >= Work(o.chain)
    BY <1>1 DEF SyncAdopts
  <2>5. Work(tip) >= Work(o.chain)
    BY <2>4
  <2>. QED  BY <2>2, <2>3, <2>5
<1>10. PeerChain' = PeerChain /\ PeerChain \in Chains /\ Len(PeerChain) \in Nat
  BY <1>1, PeerHasChain DEF PeerChain
<1>11. Calm' => Calm /\ ~v.reorg
  BY <1>1, <1>6 DEF Calm
<1>12. ASSUME task.pc \in {"fetch", "apply"}, Calm'
       PROVE  /\ task.next - 1 <= Len(PeerChain)
              /\ Known(AtHeight(PeerChain, task.next - 1))'
  <2> DEFINE k == task.next - 1
             c == AtHeight(PeerChain, k)
  <2>1. task.next >= 1 /\ k <= Len(PeerChain) /\ Known(c)
    BY <1>11, <1>12 DEF AdoptInv, FetchInv
  <2>2. k \in Nat
    BY <2>1 DEF IInv, TaskInv, TaskType
  <2>3. c \in Chains
    BY <1>10, <2>1, <2>2, CutChain
  <2>4. Finds(v, c)
    BY <1>3, <1>4, <1>11, <1>12, <2>1, <2>3
  <2>5. Known(AtHeight(PeerChain, task.next - 1))'
    BY <1>1, <1>5, <1>10, <2>4, Zenon DEF Finds, Known
  <2>. QED  BY <2>1, <2>5
<1>13. "remote" \notin excused' => "remote" \notin excused
  BY <1>6
<1>14. FetchInv'
  <2>1. task.pc \in {"fetch", "apply"} => task.next >= 1
    BY DEF AdoptInv, FetchInv
  <2>2. task.pc \in {"found", "fetch", "apply"} /\ "remote" \notin excused'
          => IsPrefix(task.target, PeerChain)
    BY <1>13 DEF AdoptInv, FetchInv
  <2>3. task.pc = "apply" /\ Calm' =>
          /\ task.next + Len(task.batch) - 1 <= Len(PeerChain)
          /\ \A i \in 1..Len(task.batch) : task.batch[i] = AtHeight(PeerChain, task.next + i - 1)
    BY <1>11 DEF AdoptInv, FetchInv
  <2>. QED  BY <1>1, <1>10, <1>12, <2>1, <2>2, <2>3, Zenon DEF FetchInv
<1>. QED  BY <1>7, <1>8, <1>9, <1>14 DEF AdoptInv

----------------------------------------------------------------------------
(***************************************************************************)
(* What a synchronisation that reports success has adopted.                *)
(***************************************************************************)

LEMMA InitAdopt ==
  ASSUME Init
  PROVE  AdoptInv
<1>1. task.pc = "open" /\ forks = {} /\ offered = {}
  BY DEF Init, NoTask
<1>. QED  BY <1>1 DEF AdoptInv, ForksLight, OfferInv, FoundInv, FetchInv, SyncAdopts, Aiming

\* Every step, or none.
LEMMA NextAdopt ==
  ASSUME IInv, AdoptInv, [Next]_vars
  PROVE  AdoptInv'
<1>1. ASSUME TaskStep PROVE AdoptInv'
  <2>1. RequestFails \/ StorageFails => Fail /\ UNCHANGED <<tip, forks>>
    BY Zenon DEF RequestFails, StorageFails, local
  <2>2. RequestFails \/ StorageFails => AdoptInv'
    BY <2>1, FailAdopt
  <2>. QED
    BY <1>1, <2>2, OpenStorage_Adopt, bootstrap_Adopt, Discovery_Adopt, PickBestPeer_Adopt,
       ensure_genesis_Adopt, request_chain_info_Adopt, CompareGenesis_Adopt, ReadTip_Adopt,
       CompareTip_Adopt, ReadLocalBlock_Adopt, ProbeRemoteBlock_Adopt, LcaFound_Adopt,
       request_blocks_by_height_range_Adopt, apply_blocks_Adopt, SyncComplete_Adopt,
       EarlyExit_Adopt, Zenon
       DEF TaskStep, LocalStep, Answer
<1>2. ASSUME UNCHANGED vars \/ Cancel PROVE AdoptInv'
  <2>1. UNCHANGED <<tip, forks, remote, task, offered, excused>>
    BY <1>2, Zenon DEF vars, Cancel, local
  <2>. QED  BY <2>1 DEF AdoptInv, ForksLight, OfferInv, FoundInv, FetchInv, SyncAdopts, Calm,
                        Known, PeerChain
<1>. QED
  BY <1>1, <1>2, Discovery_Adopt, RemoteMoves_Adopt, LocalMoves_Adopt, Zenon DEF Next

\* A synchronisation that reports success leaves the node with at least the work
\* of every chain it was offered, for any number of peers, any batch limits and
\* any growth of either chain while it runs (synchronize, sync_from_peer, find_lca,
\* run_ibd, apply_blocks): only a reorganisation, a branch out of the middle of a
\* fork, an empty answer or the stop of the node makes it report success early.
THEOREM SyncAdoption == Spec => []SyncAdopts
<1>1. Init => AdoptInv
  BY InitAdopt
<1>2. IInv /\ AdoptInv /\ [Next]_vars => AdoptInv'
  BY NextAdopt
<1>3. AdoptInv => SyncAdopts
  BY DEF AdoptInv
<1>. QED  BY <1>1, <1>2, <1>3, Invariance, PTL DEF Spec
=============================================================================
