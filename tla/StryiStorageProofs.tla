------------------------- MODULE StryiStorageProofs -------------------------
(***************************************************************************)
(* Proofs about StryiStorage for every set of transitions, writers and     *)
(* readers: the tables agree, a query sees one state, a failure stops the  *)
(* writers, and every step implements the in-memory backend.               *)
(***************************************************************************)
EXTENDS StryiStorage, TLAPS, FiniteSetTheorems

----------------------------------------------------------------------------
(***************************************************************************)
(* The inductive invariant.                                                *)
(***************************************************************************)

KeptType == UNION {[S -> SUBSET OutPoints] : S \in SUBSET Addresses}

UpdateType ==
  [pc : {"lock", "stage", "remove", "put", "check", "commit", "notify", "leave"},
   op : Transitions, view : StateType, kept : KeptType,
   left : Seq(OutPoints) \cup Seq(OutPoints \X Addresses),
   exit : {"none", "error", "panic"}]

QueryType ==
  [pc : {"tip", "heights", "utxos", "notify", "leave"}, snapshot : StateType,
   height : Nat, chain : Seq(Blocks), address : Addresses,
   left : SUBSET OutPoints, got : SUBSET OutPoints]

\* A state that may be committed: both tables agree and every block of the chain
\* has its body.
Sound(s) ==
  /\ s.addresses = Indexed(s.utxos)
  /\ \A i \in 1..Len(s.chain) : s.chain[i] \in s.blocks

\* The rest of a batch: what is left of the list xs.
Done(xs, left) == Len(xs) - Len(left)

Suffix(xs, left) ==
  /\ Len(left) <= Len(xs)
  /\ \A i \in 1..Len(left) : left[i] = xs[Done(xs, left) + i]

\* The utxo table after n outputs of a batch.
RemovedUpTo(utxos, removed, n) ==
  [o \in OutPoints |-> IF \E i \in 1..n : removed[i] = o THEN NoOne ELSE utxos[o]]

PutUpTo(utxos, put, n) ==
  [o \in OutPoints |->
     LET writes == {i \in 1..n : put[i][1] = o}
     IN  IF writes = {} THEN utxos[o]
         ELSE put[CHOOSE i \in writes : \A j \in writes : j <= i][2]]

\* The sets kept by a batch and the addresses table for the others list the
\* owners of the utxo table.
Listed(u) ==
  \A a \in Addresses : Membership(u, a) = Memory!get_utxos_for_address(u.view.utxos, a)

\* The checks of the transition passed against the database state s.
Prepared(u, s) ==
  /\ Memory!Tip(s.chain) = u.op.head
  /\ Memory!Canonical(s.chain, u.op.base)

Detached(u, s) == Memory!Spliced(s.chain, [u.op EXCEPT !.blocks = <<>>])

AllRemoved(u, s) == \A i \in 1..Len(u.op.removed) : s.utxos[u.op.removed[i]] # NoOne

\* What an update that holds the lock has staged over the database state s.
Unstaged(u, s) ==
  /\ u.pc \in {"lock", "stage"} => u.kept = Empty
  /\ u.pc = "stage" => u.view = s

Removing(u, s) ==
  u.pc = "remove" =>
    /\ Prepared(u, s)
    /\ u.view.chain = Detached(u, s) /\ u.view.blocks = s.blocks
    /\ u.left \in Seq(OutPoints) /\ Suffix(u.op.removed, u.left)
    /\ u.view.utxos = RemovedUpTo(s.utxos, u.op.removed, Done(u.op.removed, u.left))
    /\ \A i \in 1..Done(u.op.removed, u.left) : s.utxos[u.op.removed[i]] # NoOne
    /\ Listed(u)

Putting(u, s) ==
  u.pc = "put" =>
    /\ Prepared(u, s) /\ AllRemoved(u, s)
    /\ u.view.chain = Detached(u, s) /\ u.view.blocks = s.blocks
    /\ u.left \in Seq(OutPoints \X Addresses) /\ Suffix(u.op.put, u.left)
    /\ u.view.utxos = PutUpTo(Memory!batch_remove_utxos(s.utxos, u.op.removed), u.op.put,
                              Done(u.op.put, u.left))
    /\ Listed(u)

Result(d, s) ==
  [chain  |-> Memory!Spliced(s.chain, d),
   blocks |-> s.blocks \cup {d.blocks[i] : i \in 1..Len(d.blocks)},
   utxos  |-> Memory!batch_put_utxos(Memory!batch_remove_utxos(s.utxos, d.removed), d.put)]

Complete(u, s) ==
  u.pc \in {"check", "commit"} =>
    /\ Prepared(u, s) /\ AllRemoved(u, s)
    /\ AsMemory(u.view) = Result(u.op, s)
    /\ u.view.addresses = Indexed(u.view.utxos)

Staged(u, s) == Unstaged(u, s) /\ Removing(u, s) /\ Putting(u, s) /\ Complete(u, s)

\* What a query has read of its snapshot.
Asked(q) ==
  /\ q.pc = "tip" => q.chain = <<>> /\ q.got = {}
  /\ q.pc = "heights" => /\ q.height = Len(q.snapshot.chain) /\ q.got = {}
                         /\ Len(q.chain) <= q.height
                         /\ \A i \in 1..Len(q.chain) : q.chain[i] = q.snapshot.chain[i]
  /\ q.pc = "utxos" => /\ q.chain = q.snapshot.chain
                       /\ q.left \cup q.got
                            = Memory!get_utxos_for_address(q.snapshot.utxos, q.address)

Committed(s) == \E i \in 1..Len(log) : log[i] = s

Busy == {t \in Writers : w[t].pc # "idle"}

LogInv ==
  /\ log \in Seq(StateType) /\ Len(log) > 0
  /\ \A i \in 1..Len(log) : Sound(log[i])
  /\ Len(log) + Cardinality(Busy) <= MaxCommits + 1
  /\ disk \in 1..Len(log)

WritersInv ==
  /\ w \in [Writers -> UpdateType \cup {NoUpdate}]
  /\ \A t \in Writers : lock = t <=> w[t].pc \notin {"idle", "lock"}
  /\ lock \in Writers \cup {NoOne}
  /\ \A t \in Writers : w[t].pc # "idle" => Staged(w[t], Db)
  /\ \A t \in Writers : w[t].pc # "idle" /\ w[t].exit = "panic" => failed

ReadersInv ==
  /\ r \in [Readers -> QueryType \cup {NoQuery}]
  /\ \A t \in Readers : r[t].pc # "idle" => Committed(r[t].snapshot) /\ Asked(r[t])

FlagsInv ==
  /\ failed \in BOOLEAN /\ poisoned \in BOOLEAN /\ fault \in BOOLEAN
  /\ poisoned => failed
  /\ failed => fault
  /\ late \in Nat /\ late <= 1
  /\ late = 1 => failed /\ \A t \in Writers : w[t].pc # "commit"
  /\ handler \in {"none", "inserted", "checked"} /\ notified \in BOOLEAN
  /\ restarts \in 0..MaxRestarts

IInv == LogInv /\ WritersInv /\ ReadersInv /\ FlagsInv

----------------------------------------------------------------------------
(***************************************************************************)
(* One update: what its steps stage, whatever the other threads do.        *)
(***************************************************************************)

\* The fields of a transition.
LEMMA TransitionTyping ==
  ASSUME NEW d \in Transitions
  PROVE  /\ d.head \in Blocks /\ d.base \in Blocks /\ d.blocks \in Seq(Blocks)
         /\ d.removed \in Seq(OutPoints) /\ d.put \in Seq(OutPoints \X Addresses)
         /\ d = [head |-> d.head, base |-> d.base, blocks |-> d.blocks,
                 removed |-> d.removed, put |-> d.put]
BY TransitionsAssumption DEF Memory!TransitionType

\* The chain cut after the block that stays.
LEMMA CutTyping ==
  ASSUME NEW c \in Seq(Blocks), NEW d \in Transitions, Memory!Canonical(c, d.base)
  PROVE  /\ Memory!Spliced(c, [d EXCEPT !.blocks = <<>>]) \in Seq(Blocks)
         /\ Memory!Spliced(c, d) = Memory!Spliced(c, [d EXCEPT !.blocks = <<>>]) \o d.blocks
         /\ \A i \in 1..Len(Memory!Spliced(c, [d EXCEPT !.blocks = <<>>])) :
              \E j \in 1..Len(c) : c[j] = Memory!Spliced(c, [d EXCEPT !.blocks = <<>>])[i]
<1> DEFINE k == CHOOSE i \in 1..Len(c) : c[i] = d.base
           cut == SubSeq(c, 1, k)
<1>1. k \in 1..Len(c)
  BY DEF Memory!Canonical
<1> HIDE DEF k
<1>2. /\ cut \in Seq(Blocks) /\ Len(cut) = k
      /\ \A i \in 1..k : cut[i] = c[i]
  BY <1>1
<1>3. [d EXCEPT !.blocks = <<>>].base = d.base /\ [d EXCEPT !.blocks = <<>>].blocks = <<>>
  BY TransitionsAssumption DEF Memory!TransitionType
<1>4. /\ Memory!Spliced(c, [d EXCEPT !.blocks = <<>>]) = cut \o <<>>
      /\ Memory!Spliced(c, d) = cut \o d.blocks
  BY <1>3, Zenon DEF Memory!Spliced, k
<1> HIDE DEF cut
<1>5. cut \o <<>> = cut
  BY <1>2
<1> DEFINE without == [d EXCEPT !.blocks = <<>>]
<1>6. Memory!Spliced(c, without) = cut
  BY <1>4, <1>5
<1> HIDE DEF without
<1>7. /\ Memory!Spliced(c, without) \in Seq(Blocks)
      /\ Memory!Spliced(c, d) = Memory!Spliced(c, without) \o d.blocks
      /\ \A i \in 1..Len(Memory!Spliced(c, without)) :
           \E j \in 1..Len(c) : c[j] = Memory!Spliced(c, without)[i]
  BY <1>1, <1>2, <1>4, <1>6
<1>. QED  BY <1>7 DEF without

\* A batch starts with no set kept.
LEMMA EmptyKept ==
  Empty \in KeptType /\ \A a : a \notin DOMAIN Empty
BY DEF KeptType, Empty

\* Storing one more set in what a batch keeps changes nothing else of it.
LEMMA KeptTyping ==
  ASSUME NEW k \in KeptType, NEW a \in Addresses, NEW S \in SUBSET OutPoints
  PROVE  /\ DOMAIN k \subseteq Addresses
         /\ \A b \in DOMAIN k : k[b] \subseteq OutPoints
         /\ Keep(k, a, S) \in KeptType
         /\ DOMAIN Keep(k, a, S) = DOMAIN k \cup {a}
         /\ Keep(k, a, S)[a] = S
         /\ \A b \in DOMAIN k : b # a => Keep(k, a, S)[b] = k[b]
<1>1. PICK D \in SUBSET Addresses : k \in [D -> SUBSET OutPoints]
  BY DEF KeptType
<1>2. Keep(k, a, S) \in [D \cup {a} -> SUBSET OutPoints]
  BY <1>1 DEF Keep
<1>3. Keep(k, a, S) \in KeptType
  BY <1>2 DEF KeptType
<1>. QED  BY <1>1, <1>3 DEF Keep

\* The first element of the rest of a batch is the next one of the whole.
LEMMA SuffixStep ==
  ASSUME NEW T, NEW xs \in Seq(T), NEW left \in Seq(T), left # <<>>, Suffix(xs, left)
  PROVE  /\ Done(xs, left) \in Nat /\ Done(xs, left) + 1 <= Len(xs)
         /\ Head(left) = xs[Done(xs, left) + 1] /\ Head(left) \in T
         /\ Tail(left) \in Seq(T)
         /\ Suffix(xs, Tail(left)) /\ Done(xs, Tail(left)) = Done(xs, left) + 1
<1>1. /\ Len(left) \in Nat /\ Len(left) > 0 /\ Len(xs) \in Nat /\ Len(left) <= Len(xs)
      /\ Head(left) = left[1] /\ Head(left) \in T
  BY DEF Suffix
<1>2. /\ Tail(left) \in Seq(T) /\ Len(Tail(left)) = Len(left) - 1
      /\ \A i \in 1..(Len(left) - 1) : Tail(left)[i] = left[i + 1]
  BY <1>1
<1>3. \A i \in 1..Len(left) : left[i] = xs[Len(xs) - Len(left) + i]
  BY DEF Suffix, Done
<1>4. \A i \in 1..(Len(left) - 1) : Tail(left)[i] = xs[Len(xs) - Len(left) + (i + 1)]
  BY <1>1, <1>2, <1>3
<1>5. Suffix(xs, Tail(left))
  <2> SUFFICES ASSUME NEW i \in 1..Len(Tail(left))
               PROVE  Tail(left)[i] = xs[Done(xs, Tail(left)) + i]
    BY <1>1, <1>2 DEF Suffix
  <2>1. Done(xs, Tail(left)) + i = Len(xs) - Len(left) + (i + 1)
    BY <1>1, <1>2 DEF Done
  <2>. QED  BY <1>2, <1>4, <2>1
<1>. QED  BY <1>1, <1>2, <1>3, <1>5 DEF Done

\* apply_transition begins: the chain is cut, nothing is removed yet.
LEMMA StageStep ==
  ASSUME NEW u \in UpdateType, NEW s \in StateType, Sound(s),
         u.pc = "stage", Staged(u, s), Prepared(u, s),
         NEW v, v = [u EXCEPT !.pc = "remove", !.left = u.op.removed,
                              !.view.chain = Memory!Spliced(@, [u.op EXCEPT !.blocks = <<>>])]
  PROVE  v \in UpdateType /\ v.pc = "remove" /\ v.exit = u.exit /\ Staged(v, s)
<1> DEFINE cut == Memory!Spliced(s.chain, [u.op EXCEPT !.blocks = <<>>])
<1>1. u.view = s /\ u.kept = Empty
  BY DEF Staged, Unstaged
<1>2. cut \in Seq(Blocks)
  BY CutTyping DEF UpdateType, StateType, Prepared
<1>3. u.op.removed \in Seq(OutPoints)
  BY TransitionTyping DEF UpdateType
<1>4. v = [u EXCEPT !.pc = "remove", !.left = u.op.removed, !.view.chain = cut]
  BY <1>1
<1> HIDE DEF cut
<1>0. [s EXCEPT !.chain = cut] \in StateType
  BY <1>2 DEF StateType
<1>5. /\ v \in UpdateType /\ v.pc = "remove" /\ v.exit = u.exit
      /\ v.op = u.op /\ v.left = u.op.removed /\ v.kept = Empty
      /\ v.view.chain = cut /\ v.view.blocks = s.blocks
      /\ v.view.utxos = s.utxos /\ v.view.addresses = s.addresses
  <2>1. v = [u EXCEPT !.pc = "remove", !.left = u.op.removed, !.view = [s EXCEPT !.chain = cut]]
    BY <1>1, <1>4 DEF UpdateType
  <2>2. v \in UpdateType /\ v.view = [s EXCEPT !.chain = cut]
    BY <1>0, <1>3, <2>1 DEF UpdateType
  <2>. QED  BY <1>1, <2>1, <2>2 DEF UpdateType, StateType
<1>6. Removing(v, s)
  <2>1. Prepared(v, s)
    BY <1>5 DEF Prepared
  <2>2. v.view.chain = Detached(v, s)
    BY <1>5 DEF Detached, cut
  <2>3. Suffix(v.op.removed, v.left) /\ Done(v.op.removed, v.left) = 0
    BY <1>3, <1>5 DEF Suffix, Done
  <2>4. v.view.utxos = RemovedUpTo(s.utxos, v.op.removed, 0)
    BY <1>5 DEF RemovedUpTo, StateType
  <2>5. Listed(v)
    BY <1>5 DEF Listed, Membership, Empty, Sound, Indexed
  <2>. QED  BY <1>3, <1>5, <2>1, <2>2, <2>3, <2>4, <2>5 DEF Removing
<1>. QED  BY <1>5, <1>6 DEF Staged, Unstaged, Putting, Complete

\* The utxo table after one more removal of the batch.
LEMMA RemoveOne ==
  ASSUME NEW utxos, NEW removed, NEW n \in Nat, removed[n + 1] \in OutPoints
  PROVE  [RemovedUpTo(utxos, removed, n) EXCEPT ![removed[n + 1]] = NoOne]
           = RemovedUpTo(utxos, removed, n + 1)
<1>1. \A x \in OutPoints : (\E i \in 1..(n + 1) : removed[i] = x)
                             <=> x = removed[n + 1] \/ (\E i \in 1..n : removed[i] = x)
  OBVIOUS
<1>. QED  BY <1>1 DEF RemovedUpTo

\* The next output of the batch, its owner, and what is left of the owner's set.
NextOut(u) == Head(u.left)
NextOwner(u) == u.view.utxos[NextOut(u)]
Others(u) == Membership(u, NextOwner(u)) \ {NextOut(u)}
RemoveKept(u) == Keep(u.kept, NextOwner(u), Others(u))
RemoveView(u) == [u.view EXCEPT !.utxos[NextOut(u)] = NoOne]
AfterRemove(u) == [u EXCEPT !.left = Tail(@), !.kept = RemoveKept(u), !.view = RemoveView(u)]

\* The next output of the batch: its owner lists it, so the storage reports no
\* corruption (batch_remove_utxos).
LEMMA RemoveNext ==
  ASSUME NEW u \in UpdateType, NEW s \in StateType,
         u.pc = "remove", Staged(u, s), u.left # <<>>, NextOwner(u) # NoOne
  PROVE  /\ NextOut(u) \in OutPoints /\ NextOwner(u) \in Addresses
         /\ NextOut(u) = u.op.removed[Done(u.op.removed, u.left) + 1]
         /\ Done(u.op.removed, u.left) \in Nat
         /\ Done(u.op.removed, u.left) + 1 <= Len(u.op.removed)
         /\ Tail(u.left) \in Seq(OutPoints) /\ Suffix(u.op.removed, Tail(u.left))
         /\ Done(u.op.removed, Tail(u.left)) = Done(u.op.removed, u.left) + 1
         /\ NextOut(u) \in Membership(u, NextOwner(u)) /\ Others(u) \in SUBSET OutPoints
         /\ u.kept \in KeptType /\ RemoveKept(u) \in KeptType
<1>1. /\ Removing(u, s) /\ u.left \in Seq(OutPoints) /\ u.op.removed \in Seq(OutPoints)
      /\ Listed(u) /\ u.kept \in KeptType
  BY TransitionTyping DEF UpdateType, Staged, Removing
<1>2. /\ NextOut(u) \in OutPoints /\ NextOut(u) = u.op.removed[Done(u.op.removed, u.left) + 1]
      /\ Done(u.op.removed, u.left) \in Nat
      /\ Done(u.op.removed, u.left) + 1 <= Len(u.op.removed)
      /\ Tail(u.left) \in Seq(OutPoints) /\ Suffix(u.op.removed, Tail(u.left))
      /\ Done(u.op.removed, Tail(u.left)) = Done(u.op.removed, u.left) + 1
  BY <1>1, SuffixStep DEF Removing, NextOut
<1>3. NextOwner(u) \in Addresses
  BY <1>2 DEF UpdateType, StateType, NextOwner
<1>4. NextOut(u) \in Membership(u, NextOwner(u)) /\ Others(u) \in SUBSET OutPoints
  BY <1>1, <1>2, <1>3 DEF Listed, Memory!get_utxos_for_address, NextOwner, Others
<1>. QED  BY <1>1, <1>2, <1>3, <1>4, KeptTyping DEF RemoveKept

\* The fields of the update after one removal.
LEMMA RemoveFields ==
  ASSUME NEW u \in UpdateType, NextOut(u) \in OutPoints, Tail(u.left) \in Seq(OutPoints),
         RemoveKept(u) \in KeptType
  PROVE  /\ AfterRemove(u) \in UpdateType
         /\ AfterRemove(u).op = u.op /\ AfterRemove(u).left = Tail(u.left)
         /\ AfterRemove(u).pc = u.pc /\ AfterRemove(u).exit = u.exit
         /\ AfterRemove(u).kept = RemoveKept(u)
         /\ AfterRemove(u).view.chain = u.view.chain /\ AfterRemove(u).view.blocks = u.view.blocks
         /\ AfterRemove(u).view.addresses = u.view.addresses
         /\ AfterRemove(u).view.utxos = [u.view.utxos EXCEPT ![NextOut(u)] = NoOne]
<1>1. RemoveView(u) \in StateType
  BY DEF RemoveView, UpdateType, StateType
<1>2. /\ AfterRemove(u) \in UpdateType
      /\ AfterRemove(u).op = u.op /\ AfterRemove(u).left = Tail(u.left)
      /\ AfterRemove(u).pc = u.pc /\ AfterRemove(u).exit = u.exit
      /\ AfterRemove(u).kept = RemoveKept(u)
      /\ AfterRemove(u).view = RemoveView(u)
  BY <1>1 DEF AfterRemove, UpdateType
<1>3. /\ RemoveView(u).chain = u.view.chain /\ RemoveView(u).blocks = u.view.blocks
      /\ RemoveView(u).addresses = u.view.addresses
      /\ RemoveView(u).utxos = [u.view.utxos EXCEPT ![NextOut(u)] = NoOne]
  BY DEF RemoveView, UpdateType, StateType
<1>. QED  BY <1>2, <1>3, Zenon

\* One output is removed.
LEMMA RemoveStep ==
  ASSUME NEW u \in UpdateType, NEW s \in StateType,
         u.pc = "remove", Staged(u, s), u.left # <<>>, NextOwner(u) # NoOne
  PROVE  /\ AfterRemove(u) \in UpdateType /\ AfterRemove(u).pc = "remove"
         /\ AfterRemove(u).exit = u.exit /\ Staged(AfterRemove(u), s)
<1> DEFINE n == Done(u.op.removed, u.left)
           v == AfterRemove(u)
<1>1. Removing(u, s) /\ Listed(u)
  BY DEF Staged, Removing
<1>2. /\ NextOut(u) \in OutPoints /\ NextOut(u) = u.op.removed[n + 1]
      /\ n \in Nat /\ n + 1 <= Len(u.op.removed)
      /\ Tail(u.left) \in Seq(OutPoints)
      /\ Suffix(u.op.removed, Tail(u.left)) /\ Done(u.op.removed, Tail(u.left)) = n + 1
  BY RemoveNext
<1>3. /\ NextOwner(u) \in Addresses /\ Others(u) \in SUBSET OutPoints
      /\ u.kept \in KeptType /\ RemoveKept(u) \in KeptType
  BY RemoveNext
<1>f. /\ v \in UpdateType
      /\ v.op = u.op /\ v.left = Tail(u.left)
      /\ v.pc = u.pc /\ v.exit = u.exit
      /\ v.kept = Keep(u.kept, NextOwner(u), Others(u))
      /\ v.view.chain = u.view.chain /\ v.view.blocks = u.view.blocks
      /\ v.view.addresses = u.view.addresses
      /\ v.view.utxos = [u.view.utxos EXCEPT ![NextOut(u)] = NoOne]
  BY <1>2, <1>3, RemoveFields, Zenon DEF RemoveKept
<1> HIDE DEF n, v
<1>4. /\ Prepared(v, s) /\ v.view.chain = Detached(v, s) /\ v.view.blocks = s.blocks
      /\ v.left \in Seq(OutPoints) /\ Suffix(v.op.removed, v.left)
      /\ Done(v.op.removed, v.left) = n + 1
  BY <1>1, <1>2, <1>f DEF Removing, Prepared, Detached
<1>5. /\ u.view.utxos = RemovedUpTo(s.utxos, u.op.removed, n)
      /\ \A i \in 1..n : s.utxos[u.op.removed[i]] # NoOne
  BY <1>1 DEF Removing, n
<1>6. v.view.utxos = RemovedUpTo(s.utxos, v.op.removed, n + 1)
  BY <1>2, <1>f, <1>5, RemoveOne
<1>7. \A i \in 1..(n + 1) : s.utxos[v.op.removed[i]] # NoOne
  <2>1. s.utxos[NextOut(u)] # NoOne
    BY <1>2, <1>5 DEF RemovedUpTo, NextOwner
  <2>. QED  BY <1>2, <1>f, <1>5, <2>1
<1>8. Listed(v)
  <2> SUFFICES ASSUME NEW a \in Addresses
               PROVE  Membership(v, a) = Memory!get_utxos_for_address(v.view.utxos, a)
    BY DEF Listed
  <2>1. Membership(u, a) = Memory!get_utxos_for_address(u.view.utxos, a)
    BY <1>1 DEF Listed
  <2>2. v.kept = Keep(u.kept, NextOwner(u), Others(u)) /\ v.view.addresses = u.view.addresses
    BY <1>f
  <2>3. Membership(v, a) = IF a = NextOwner(u) THEN Others(u) ELSE Membership(u, a)
    BY <1>3, <2>2 DEF Membership, Keep
  <2>4. Memory!get_utxos_for_address(v.view.utxos, a)
          = Memory!get_utxos_for_address(u.view.utxos, a) \ {NextOut(u)}
    BY <1>2, <1>f, TransitionsAssumption
       DEF Memory!get_utxos_for_address, UpdateType, StateType
  <2>5. a # NextOwner(u) => NextOut(u) \notin Memory!get_utxos_for_address(u.view.utxos, a)
    BY DEF Memory!get_utxos_for_address, NextOwner
  <2>. QED  BY <2>1, <2>3, <2>4, <2>5 DEF Others
<1>9. Removing(v, s)
  BY <1>4, <1>6, <1>7, <1>8 DEF Removing
<1>10. v.pc = "remove"
  BY <1>f
<1>11. Staged(v, s)
  BY <1>9, <1>10 DEF Staged, Unstaged, Putting, Complete
<1>. QED  BY <1>f, <1>10, <1>11 DEF v

\* Writing one more output: of several values for a key the last one stays.
LEMMA PutOne ==
  ASSUME NEW utxos, NEW put, NEW n \in Nat, put[n + 1][1] \in OutPoints
  PROVE  [PutUpTo(utxos, put, n) EXCEPT ![put[n + 1][1]] = put[n + 1][2]]
           = PutUpTo(utxos, put, n + 1)
<1> DEFINE writes(m, o) == {i \in 1..m : put[i][1] = o}
           last(m, o) == CHOOSE i \in writes(m, o) : \A j \in writes(m, o) : j <= i
           value(m, o) == IF writes(m, o) = {} THEN utxos[o] ELSE put[last(m, o)][2]
<1>1. ASSUME NEW o \in OutPoints, o # put[n + 1][1]
      PROVE  value(n + 1, o) = value(n, o)
  <2>1. writes(n + 1, o) = writes(n, o)
    BY <1>1
  <2> DEFINE V(W) == IF W = {} THEN utxos[o]
                     ELSE put[CHOOSE i \in W : \A j \in W : j <= i][2]
  <2>2. value(n + 1, o) = V(writes(n + 1, o)) /\ value(n, o) = V(writes(n, o))
    OBVIOUS
  <2> HIDE DEF V, writes, value
  <2>. QED  BY <2>1, <2>2
<1>2. value(n + 1, put[n + 1][1]) = put[n + 1][2]
  <2> DEFINE o == put[n + 1][1]
  <2>1. n + 1 \in writes(n + 1, o) /\ \A j \in writes(n + 1, o) : j <= n + 1
    OBVIOUS
  <2>2. last(n + 1, o) \in writes(n + 1, o) /\ \A j \in writes(n + 1, o) : j <= last(n + 1, o)
    <3> DEFINE W == writes(n + 1, o)
    <3> HIDE DEF W, o
    <3>1. \E i \in W : \A j \in W : j <= i
      BY <2>1 DEF W, o
    <3>2. (CHOOSE i \in W : \A j \in W : j <= i) \in W
          /\ \A j \in W : j <= (CHOOSE i \in W : \A k \in W : k <= i)
      BY <3>1
    <3>. QED  BY <3>2 DEF W, o
  <2>3. last(n + 1, o) \in 1..(n + 1)
    BY <2>2
  <2>4. n + 1 <= last(n + 1, o)
    BY <2>1, <2>2
  <2> HIDE DEF last
  <2>5. last(n + 1, o) = n + 1
    BY <2>3, <2>4
  <2>6. writes(n + 1, o) # {}
    BY <2>1
  <2> HIDE DEF writes
  <2>. QED  BY <2>5, <2>6
<1>3. \A m : PutUpTo(utxos, put, m) = [o \in OutPoints |-> value(m, o)]
  BY DEF PutUpTo
<1> HIDE DEF value
<1>. QED  BY <1>1, <1>2, <1>3

\* The table after the whole batch is what the in-memory backend computes at once.
LEMMA PutAll ==
  ASSUME NEW utxos, NEW put
  PROVE  PutUpTo(utxos, put, Len(put)) = Memory!batch_put_utxos(utxos, put)
BY Zenon DEF PutUpTo, Memory!batch_put_utxos

\* The next output to write, its owner now and before, and the sets of both.
PutOut(u) == Head(u.left)[1]
PutOwner(u) == Head(u.left)[2]
PutPrevious(u) == u.view.utxos[PutOut(u)]
PutMoved(u) == PutPrevious(u) \notin {NoOne, PutOwner(u)}
PutOthers(u) == Membership(u, PutPrevious(u)) \ {PutOut(u)}
PutTaken(u) == IF PutMoved(u) THEN Keep(u.kept, PutPrevious(u), PutOthers(u)) ELSE u.kept
PutListed(u) == Membership(u, PutOwner(u)) \cup {PutOut(u)}
PutKept(u) == Keep(PutTaken(u), PutOwner(u), PutListed(u))
PutView(u) == [u.view EXCEPT !.utxos[PutOut(u)] = PutOwner(u)]
AfterPut(u) == [u EXCEPT !.left = Tail(@), !.kept = PutKept(u), !.view = PutView(u)]

\* The next output of the batch: a previous owner lists it, so the storage reports
\* no corruption (batch_put_utxos).
LEMMA PutNext ==
  ASSUME NEW u \in UpdateType, NEW s \in StateType,
         u.pc = "put", Staged(u, s), u.left # <<>>
  PROVE  /\ PutOut(u) \in OutPoints /\ PutOwner(u) \in Addresses
         /\ PutOut(u) = u.op.put[Done(u.op.put, u.left) + 1][1]
         /\ PutOwner(u) = u.op.put[Done(u.op.put, u.left) + 1][2]
         /\ Done(u.op.put, u.left) \in Nat
         /\ Tail(u.left) \in Seq(OutPoints \X Addresses) /\ Suffix(u.op.put, Tail(u.left))
         /\ Done(u.op.put, Tail(u.left)) = Done(u.op.put, u.left) + 1
         /\ PutMoved(u) => PutPrevious(u) \in Addresses /\ PutOthers(u) \in SUBSET OutPoints
                           /\ PutOut(u) \in Membership(u, PutPrevious(u))
         /\ PutListed(u) \in SUBSET OutPoints
         /\ u.kept \in KeptType /\ PutTaken(u) \in KeptType /\ PutKept(u) \in KeptType
<1>1. /\ Putting(u, s) /\ u.left \in Seq(OutPoints \X Addresses)
      /\ u.op.put \in Seq(OutPoints \X Addresses)
      /\ Listed(u) /\ u.kept \in KeptType
  BY TransitionTyping DEF UpdateType, Staged, Putting
<1>2. /\ Head(u.left) \in OutPoints \X Addresses
      /\ Head(u.left) = u.op.put[Done(u.op.put, u.left) + 1]
      /\ Done(u.op.put, u.left) \in Nat
      /\ Tail(u.left) \in Seq(OutPoints \X Addresses) /\ Suffix(u.op.put, Tail(u.left))
      /\ Done(u.op.put, Tail(u.left)) = Done(u.op.put, u.left) + 1
  BY <1>1, SuffixStep DEF Putting
<1>3. PutOut(u) \in OutPoints /\ PutOwner(u) \in Addresses
  BY <1>2 DEF PutOut, PutOwner
<1>4. PutListed(u) \in SUBSET OutPoints
  BY <1>1, <1>3 DEF Listed, Memory!get_utxos_for_address, PutListed
<1>5. ASSUME PutMoved(u)
      PROVE  /\ PutPrevious(u) \in Addresses /\ PutOthers(u) \in SUBSET OutPoints
             /\ PutOut(u) \in Membership(u, PutPrevious(u))
  <2>1. PutPrevious(u) \in Addresses
    BY <1>3, <1>5 DEF PutMoved, PutPrevious, UpdateType, StateType
  <2>. QED  BY <1>1, <1>3, <2>1 DEF Listed, Memory!get_utxos_for_address, PutPrevious, PutOthers
<1>6. PutTaken(u) \in KeptType
  BY <1>1, <1>5, KeptTyping DEF PutTaken
<1>7. PutKept(u) \in KeptType
  BY <1>3, <1>4, <1>6, KeptTyping DEF PutKept
<1>8. /\ PutOut(u) = u.op.put[Done(u.op.put, u.left) + 1][1]
      /\ PutOwner(u) = u.op.put[Done(u.op.put, u.left) + 1][2]
  BY <1>2 DEF PutOut, PutOwner
<1>. QED  BY <1>1, <1>2, <1>3, <1>4, <1>5, <1>6, <1>7, <1>8, Zenon

\* The fields of the update after one output.
LEMMA PutFields ==
  ASSUME NEW u \in UpdateType, PutOut(u) \in OutPoints, PutOwner(u) \in Addresses,
         Tail(u.left) \in Seq(OutPoints \X Addresses), PutKept(u) \in KeptType
  PROVE  /\ AfterPut(u) \in UpdateType
         /\ AfterPut(u).op = u.op /\ AfterPut(u).left = Tail(u.left)
         /\ AfterPut(u).pc = u.pc /\ AfterPut(u).exit = u.exit
         /\ AfterPut(u).kept = PutKept(u)
         /\ AfterPut(u).view.chain = u.view.chain /\ AfterPut(u).view.blocks = u.view.blocks
         /\ AfterPut(u).view.addresses = u.view.addresses
         /\ AfterPut(u).view.utxos = [u.view.utxos EXCEPT ![PutOut(u)] = PutOwner(u)]
<1>1. PutView(u) \in StateType
  BY DEF PutView, UpdateType, StateType
<1>2. /\ AfterPut(u) \in UpdateType
      /\ AfterPut(u).op = u.op /\ AfterPut(u).left = Tail(u.left)
      /\ AfterPut(u).pc = u.pc /\ AfterPut(u).exit = u.exit
      /\ AfterPut(u).kept = PutKept(u)
      /\ AfterPut(u).view = PutView(u)
  BY <1>1 DEF AfterPut, UpdateType
<1>3. /\ PutView(u).chain = u.view.chain /\ PutView(u).blocks = u.view.blocks
      /\ PutView(u).addresses = u.view.addresses
      /\ PutView(u).utxos = [u.view.utxos EXCEPT ![PutOut(u)] = PutOwner(u)]
  BY DEF PutView, UpdateType, StateType
<1>. QED  BY <1>2, <1>3, Zenon

\* One output is written.
LEMMA PutStep ==
  ASSUME NEW u \in UpdateType, NEW s \in StateType,
         u.pc = "put", Staged(u, s), u.left # <<>>
  PROVE  /\ AfterPut(u) \in UpdateType /\ AfterPut(u).pc = "put"
         /\ AfterPut(u).exit = u.exit /\ Staged(AfterPut(u), s)
<1> DEFINE n == Done(u.op.put, u.left)
           v == AfterPut(u)
           f == Memory!batch_remove_utxos(s.utxos, u.op.removed)
<1>1. Putting(u, s) /\ Listed(u)
  BY DEF Staged, Putting
<1>2. /\ PutOut(u) \in OutPoints /\ PutOwner(u) \in Addresses
      /\ PutOut(u) = u.op.put[n + 1][1] /\ PutOwner(u) = u.op.put[n + 1][2]
      /\ n \in Nat
      /\ Tail(u.left) \in Seq(OutPoints \X Addresses)
      /\ Suffix(u.op.put, Tail(u.left)) /\ Done(u.op.put, Tail(u.left)) = n + 1
  BY PutNext
<1>3. PutKept(u) \in KeptType
  BY PutNext
<1>f. /\ v \in UpdateType
      /\ v.op = u.op /\ v.left = Tail(u.left)
      /\ v.pc = u.pc /\ v.exit = u.exit
      /\ v.kept = PutKept(u)
      /\ v.view.chain = u.view.chain /\ v.view.blocks = u.view.blocks
      /\ v.view.addresses = u.view.addresses
      /\ v.view.utxos = [u.view.utxos EXCEPT ![PutOut(u)] = PutOwner(u)]
  BY <1>2, <1>3, PutFields, Zenon
<1> HIDE DEF n, v, f
<1>4. /\ Prepared(v, s) /\ AllRemoved(v, s)
      /\ v.view.chain = Detached(v, s) /\ v.view.blocks = s.blocks
      /\ v.left \in Seq(OutPoints \X Addresses) /\ Suffix(v.op.put, v.left)
      /\ Done(v.op.put, v.left) = n + 1
  BY <1>1, <1>2, <1>f DEF Putting, Prepared, Detached, AllRemoved
<1>5. u.view.utxos = PutUpTo(f, u.op.put, n)
  BY <1>1 DEF Putting, n, f
<1>6. v.view.utxos = PutUpTo(f, v.op.put, n + 1)
  <2>1. [PutUpTo(f, u.op.put, n) EXCEPT ![u.op.put[n + 1][1]] = u.op.put[n + 1][2]]
          = PutUpTo(f, u.op.put, n + 1)
    BY <1>2, PutOne
  <2>. QED  BY <1>2, <1>f, <1>5, <2>1
<1>8. Listed(v)
  <2> SUFFICES ASSUME NEW a \in Addresses
               PROVE  Membership(v, a) = Memory!get_utxos_for_address(v.view.utxos, a)
    BY DEF Listed
  <2>1. Membership(u, a) = Memory!get_utxos_for_address(u.view.utxos, a)
    BY <1>1 DEF Listed
  <2>2. /\ v.kept = Keep(PutTaken(u), PutOwner(u), PutListed(u))
        /\ v.view.addresses = u.view.addresses
    BY <1>f DEF PutKept
  <2>3. Membership(v, a) = IF a = PutOwner(u) THEN PutListed(u)
                           ELSE IF PutMoved(u) /\ a = PutPrevious(u) THEN PutOthers(u)
                           ELSE Membership(u, a)
    BY <2>2 DEF Membership, Keep, PutTaken
  <2>4. Memory!get_utxos_for_address(v.view.utxos, a)
          = IF a = PutOwner(u)
            THEN Memory!get_utxos_for_address(u.view.utxos, a) \cup {PutOut(u)}
            ELSE Memory!get_utxos_for_address(u.view.utxos, a) \ {PutOut(u)}
    BY <1>2, <1>f DEF Memory!get_utxos_for_address, UpdateType, StateType
  <2>5. a # PutPrevious(u) => PutOut(u) \notin Memory!get_utxos_for_address(u.view.utxos, a)
    BY DEF Memory!get_utxos_for_address, PutPrevious
  <2>6. a # PutOwner(u) /\ a = PutPrevious(u) => PutMoved(u)
    BY TransitionsAssumption DEF PutMoved
  <2>. QED  BY <2>1, <2>3, <2>4, <2>5, <2>6 DEF PutListed, PutOthers
<1>9. Putting(v, s)
  BY <1>f, <1>4, <1>6, <1>8 DEF Putting, f
<1>10. v.pc = "put"
  BY <1>f
<1>11. Staged(v, s)
  BY <1>9, <1>10 DEF Staged, Unstaged, Removing, Complete
<1>. QED  BY <1>f, <1>10, <1>11 DEF v

\* The end of a batch: the table with the changed sets written.
LEMMA WrittenTable ==
  ASSUME NEW u \in UpdateType, Listed(u)
  PROVE  /\ WriteMemberships(u) \in StateType
         /\ WriteMemberships(u).chain = u.view.chain
         /\ WriteMemberships(u).blocks = u.view.blocks
         /\ WriteMemberships(u).utxos = u.view.utxos
         /\ WriteMemberships(u).addresses = Indexed(u.view.utxos)
<1> DEFINE table == [a \in Addresses |-> IF a \in DOMAIN u.kept THEN u.kept[a]
                                           ELSE u.view.addresses[a]]
<1>1. table = Indexed(u.view.utxos)
  BY DEF Listed, Membership, Indexed
<1>2. Indexed(u.view.utxos) \in [Addresses -> SUBSET OutPoints]
  BY DEF Indexed, Memory!get_utxos_for_address
<1>3. WriteMemberships(u) = [u.view EXCEPT !.addresses = table]
  BY DEF WriteMemberships, UpdateType, StateType
<1> HIDE DEF table
<1>. QED  BY <1>1, <1>2, <1>3 DEF UpdateType, StateType

\* All outputs are removed; the outputs to write come next.
LEMMA EndRemoveStep ==
  ASSUME NEW u \in UpdateType, NEW s \in StateType,
         u.pc = "remove", Staged(u, s), u.left = <<>>,
         NEW v, v = [u EXCEPT !.pc = "put", !.left = u.op.put, !.kept = Empty,
                              !.view = WriteMemberships(u)]
  PROVE  v \in UpdateType /\ v.pc = "put" /\ v.exit = u.exit /\ Staged(v, s)
<1>1. Removing(u, s) /\ Listed(u)
  BY DEF Staged, Removing
<1>2. /\ u.op.put \in Seq(OutPoints \X Addresses) /\ u.op.removed \in Seq(OutPoints)
      /\ Empty \in KeptType
  BY TransitionTyping, EmptyKept DEF UpdateType
<1>3. /\ WriteMemberships(u) \in StateType
      /\ WriteMemberships(u).chain = u.view.chain
      /\ WriteMemberships(u).blocks = u.view.blocks
      /\ WriteMemberships(u).utxos = u.view.utxos
      /\ WriteMemberships(u).addresses = Indexed(u.view.utxos)
  BY <1>1, WrittenTable DEF UpdateType, StateType
<1>4. /\ v \in UpdateType /\ v.op = u.op /\ v.left = u.op.put /\ v.kept = Empty
      /\ v.view = WriteMemberships(u) /\ v.pc = "put" /\ v.exit = u.exit
  BY <1>2, <1>3 DEF UpdateType
<1>5. Done(u.op.removed, u.left) = Len(u.op.removed)
  BY <1>2 DEF Done, UpdateType
<1>6. /\ Prepared(v, s) /\ AllRemoved(v, s)
      /\ v.view.chain = Detached(v, s) /\ v.view.blocks = s.blocks
      /\ v.left \in Seq(OutPoints \X Addresses)
  BY <1>1, <1>2, <1>3, <1>4, <1>5, Zenon DEF Removing, Prepared, Detached, AllRemoved
<1>7. Suffix(v.op.put, v.left) /\ Done(v.op.put, v.left) = 0
  BY <1>2, <1>4 DEF Suffix, Done, UpdateType
<1>8. u.view.utxos = Memory!batch_remove_utxos(s.utxos, u.op.removed)
  BY <1>1, <1>5, Zenon DEF Removing, RemovedUpTo, Memory!batch_remove_utxos
<1>9. v.view.utxos = PutUpTo(Memory!batch_remove_utxos(s.utxos, u.op.removed), v.op.put, 0)
  <2> DEFINE f == Memory!batch_remove_utxos(s.utxos, u.op.removed)
  <2>1. f \in [OutPoints -> Addresses \cup {NoOne}]
    BY <1>8 DEF UpdateType, StateType
  <2> HIDE DEF f
  <2>2. \A p : PutUpTo(f, p, 0) = f
    BY <2>1 DEF PutUpTo
  <2>. QED  BY <1>3, <1>4, <1>8, <2>2, Zenon DEF f
<1>10. Listed(v)
  <2> SUFFICES ASSUME NEW a \in Addresses
               PROVE  Membership(v, a) = Memory!get_utxos_for_address(v.view.utxos, a)
    BY Zenon DEF Listed
  <2>1. Membership(v, a) = Indexed(u.view.utxos)[a]
    BY <1>3, <1>4, EmptyKept, Zenon DEF Membership
  <2>2. Indexed(u.view.utxos)[a] = Memory!get_utxos_for_address(u.view.utxos, a)
    BY Zenon DEF Indexed
  <2>. QED  BY <1>3, <1>4, <2>1, <2>2, Zenon
<1>11. Putting(v, s)
  BY <1>4, <1>6, <1>7, <1>9, <1>10, Zenon DEF Putting
<1>. QED  BY <1>4, <1>11, Zenon DEF Staged, Unstaged, Removing, Complete

\* All outputs are written: with the blocks and the tip the view is what the
\* in-memory backend holds after the transition.
LEMMA EndPutStep ==
  ASSUME NEW u \in UpdateType, NEW s \in StateType,
         u.pc = "put", Staged(u, s), u.left = <<>>,
         NEW v, v = [u EXCEPT !.pc = "check", !.kept = Empty,
                       !.view = [WriteMemberships(u) EXCEPT
                                   !.chain = @ \o u.op.blocks,
                                   !.blocks = @ \cup {u.op.blocks[i] : i \in 1..Len(u.op.blocks)}]]
  PROVE  v \in UpdateType /\ v.pc = "check" /\ v.exit = u.exit /\ Staged(v, s)
<1> DEFINE x == [WriteMemberships(u) EXCEPT
                   !.chain = @ \o u.op.blocks,
                   !.blocks = @ \cup {u.op.blocks[i] : i \in 1..Len(u.op.blocks)}]
<1>1. Putting(u, s) /\ Listed(u)
  BY DEF Staged, Putting
<1>2. /\ u.op.put \in Seq(OutPoints \X Addresses) /\ u.op.blocks \in Seq(Blocks)
      /\ u.op \in Transitions /\ u.view.chain \in Seq(Blocks) /\ s.chain \in Seq(Blocks)
  BY TransitionTyping DEF UpdateType, StateType
<1>3. /\ WriteMemberships(u) \in StateType
      /\ WriteMemberships(u).chain = u.view.chain
      /\ WriteMemberships(u).blocks = u.view.blocks
      /\ WriteMemberships(u).utxos = u.view.utxos
      /\ WriteMemberships(u).addresses = Indexed(u.view.utxos)
  BY <1>1, WrittenTable DEF UpdateType, StateType
<1>4. u.view.chain \o u.op.blocks \in Seq(Blocks)
  BY <1>2 DEF UpdateType, StateType
<1>5. /\ x \in StateType
      /\ x.chain = u.view.chain \o u.op.blocks
      /\ x.blocks = u.view.blocks \cup {u.op.blocks[i] : i \in 1..Len(u.op.blocks)}
      /\ x.utxos = u.view.utxos /\ x.addresses = Indexed(u.view.utxos)
  <2> DEFINE B == {u.op.blocks[i] : i \in 1..Len(u.op.blocks)}
             y == WriteMemberships(u)
  <2>1. B \subseteq Blocks
    BY <1>2
  <2>2. x = [y EXCEPT !.chain = y.chain \o u.op.blocks, !.blocks = y.blocks \cup B]
    BY <1>3 DEF StateType
  <2> HIDE DEF B, y, x
  <2>3. y.chain \o u.op.blocks \in Seq(Blocks) /\ y \in StateType
    BY <1>3, <1>4 DEF y
  <2>4. /\ x \in StateType
        /\ x.chain = y.chain \o u.op.blocks /\ x.blocks = y.blocks \cup B
        /\ x.utxos = y.utxos /\ x.addresses = y.addresses
    BY <2>1, <2>2, <2>3 DEF StateType
  <2>. QED  BY <1>3, <2>4, Zenon DEF B, y
<1>6. v = [u EXCEPT !.pc = "check", !.kept = Empty, !.view = x]
  BY DEF UpdateType
<1> HIDE DEF x
<1>7. /\ v \in UpdateType /\ v.op = u.op /\ v.view = x /\ v.pc = "check" /\ v.exit = u.exit
  BY <1>5, <1>6, EmptyKept DEF UpdateType
<1>8. Memory!Spliced(s.chain, u.op)
        = Memory!Spliced(s.chain, [u.op EXCEPT !.blocks = <<>>]) \o u.op.blocks
  BY <1>1, <1>2, CutTyping, Zenon DEF Putting, Prepared
<1>9. x.chain = Memory!Spliced(s.chain, u.op)
  BY <1>1, <1>5, <1>8, Zenon DEF Putting, Detached
<1>10. Done(u.op.put, u.left) = Len(u.op.put)
  BY <1>2 DEF Done, UpdateType
<1>11. x.utxos = Memory!batch_put_utxos(Memory!batch_remove_utxos(s.utxos, u.op.removed), u.op.put)
  BY <1>1, <1>5, <1>10, PutAll, Zenon DEF Putting
<1>12. x.blocks = s.blocks \cup {u.op.blocks[i] : i \in 1..Len(u.op.blocks)}
  BY <1>1, <1>5, Zenon DEF Putting
<1>13. AsMemory(x) = Result(u.op, s)
  BY <1>9, <1>11, <1>12, Zenon DEF AsMemory, Result
<1>14. Prepared(v, s) /\ AllRemoved(v, s)
  BY <1>1, <1>7, Zenon DEF Putting, Prepared, AllRemoved
<1>15. Complete(v, s)
  BY <1>5, <1>7, <1>13, <1>14, Zenon DEF Complete
<1>. QED  BY <1>7, <1>15, Zenon DEF Staged, Unstaged, Removing, Putting

\* A complete update may be committed.
LEMMA CompleteSound ==
  ASSUME NEW u \in UpdateType, NEW s \in StateType, Sound(s),
         u.pc = "commit", Staged(u, s)
  PROVE  Sound(u.view) /\ u.view \in StateType
<1>1. /\ u.view \in StateType /\ u.op \in Transitions /\ s.chain \in Seq(Blocks)
      /\ u.op.blocks \in Seq(Blocks)
  BY TransitionTyping DEF UpdateType, StateType
<1>2. /\ Memory!Canonical(s.chain, u.op.base)
      /\ u.view.chain = Memory!Spliced(s.chain, u.op)
      /\ u.view.blocks = s.blocks \cup {u.op.blocks[i] : i \in 1..Len(u.op.blocks)}
      /\ u.view.addresses = Indexed(u.view.utxos)
  BY DEF Staged, Complete, Prepared, AsMemory, Result
<1> DEFINE cut == Memory!Spliced(s.chain, [u.op EXCEPT !.blocks = <<>>])
<1>3. /\ cut \in Seq(Blocks) /\ u.view.chain = cut \o u.op.blocks
      /\ \A i \in 1..Len(cut) : \E j \in 1..Len(s.chain) : s.chain[j] = cut[i]
  BY <1>1, <1>2, CutTyping, Zenon
<1> HIDE DEF cut
<1>4. \A i \in 1..Len(cut) : cut[i] \in s.blocks
  BY <1>3 DEF Sound
<1>5. \A i \in 1..Len(u.view.chain) : u.view.chain[i] \in u.view.blocks
  <2> SUFFICES ASSUME NEW i \in 1..Len(cut \o u.op.blocks)
               PROVE  (cut \o u.op.blocks)[i] \in u.view.blocks
    BY <1>3
  <2>1. CASE i <= Len(cut)
    BY <1>1, <1>2, <1>3, <1>4, <2>1
  <2>2. CASE i > Len(cut)
    <3>1. i - Len(cut) \in 1..Len(u.op.blocks)
          /\ (cut \o u.op.blocks)[i] = u.op.blocks[i - Len(cut)]
      BY <1>1, <1>3, <2>2
    <3>. QED  BY <1>2, <3>1
  <2>. QED  BY <1>1, <1>3, <2>1, <2>2
<1>. QED  BY <1>1, <1>2, <1>5 DEF Sound

----------------------------------------------------------------------------
(***************************************************************************)
(* What the invariant says of one thread, and the frame of a step that     *)
(* changes one update.                                                     *)
(***************************************************************************)

\* An update in progress is not idle.
LEMMA UpdatePc ==
  \A u \in UpdateType : u.pc # "idle"
BY DEF UpdateType

\* A query in progress is not idle.
LEMMA QueryPc ==
  \A q \in QueryType : q.pc # "idle"
BY DEF QueryType

\* A thread is either idle or in an update.
LEMMA BusyUpdate ==
  ASSUME WritersInv, NEW t \in Writers
  PROVE  /\ w[t].pc # "idle" => w[t] \in UpdateType
         /\ w[t].pc = "idle" => w[t] = NoUpdate
<1>1. w[t] \in UpdateType \cup {NoUpdate}
  BY DEF WritersInv
<1>. QED  BY <1>1, UpdatePc DEF NoUpdate

\* The database is the last committed state.
LEMMA DbSound ==
  ASSUME LogInv
  PROVE  Db \in StateType /\ Sound(Db) /\ Committed(Db)
<1>1. Len(log) \in 1..Len(log) /\ log \in Seq(StateType)
  BY DEF LogInv
<1>2. log[Len(log)] \in StateType
  BY <1>1
<1>. QED  BY <1>1, <1>2, Zenon DEF LogInv, Db, Committed

\* The thread inside the lock: its update is staged over the database.
LEMMA HolderStaged ==
  ASSUME WritersInv, NEW t \in Writers, Locked(t)
  PROVE  /\ w[t] \in UpdateType /\ w[t].pc \in {"stage", "remove", "put", "check", "commit"}
         /\ Staged(w[t], Db)
         /\ w[t].exit = "panic" => failed
<1>1. w[t].pc \notin {"idle", "lock", "notify", "leave"}
  BY DEF WritersInv, Locked
<1>2. w[t] \in UpdateType
  BY <1>1, BusyUpdate
<1>3. w[t].pc \in {"stage", "remove", "put", "check", "commit"}
  BY <1>1, <1>2 DEF UpdateType
<1>. QED  BY <1>1, <1>2, <1>3, Zenon DEF WritersInv

\* A step of one update that leaves the database alone keeps the invariant when
\* what it stages fits the database.
LEMMA UpdateFrame ==
  ASSUME IInv, NEW t \in Writers, w[t].pc # "idle", NEW u \in UpdateType,
         w' = [w EXCEPT ![t] = u], Staging,
         u.pc = "lock" <=> w[t].pc = "lock",
         Staged(u, Db), u.exit = "panic" => failed', late = 1 => u.pc # "commit",
         failed' \in BOOLEAN, fault' \in BOOLEAN, failed => failed', failed' => fault'
  PROVE  IInv'
<1>1. /\ log' = log /\ disk' = disk /\ lock' = lock /\ poisoned' = poisoned
      /\ handler' = handler /\ notified' = notified /\ r' = r /\ late' = late
      /\ restarts' = restarts
  BY DEF Staging
<1>2. w \in [Writers -> UpdateType \cup {NoUpdate}]
  BY DEF IInv, WritersInv
<1>3. /\ w' \in [Writers -> UpdateType \cup {NoUpdate}]
      /\ w'[t] = u /\ \A x \in Writers : x # t => w'[x] = w[x]
  BY <1>2
<1>4. u.pc # "idle"
  BY UpdatePc
<1>5. Busy' = Busy
  BY <1>3, <1>4 DEF Busy
<1>6. LogInv'
  BY <1>1, <1>5, Zenon DEF IInv, LogInv, Sound, Indexed
<1>7. Db' = Db
  BY <1>1 DEF Db
<1>8. WritersInv'
  <2>1. \A x \in Writers : lock' = x <=> w'[x].pc \notin {"idle", "lock"}
    BY <1>1, <1>3, <1>4, Zenon DEF IInv, WritersInv
  <2>2. \A x \in Writers : w'[x].pc # "idle" => Staged(w'[x], Db')
    BY <1>3, <1>7, Zenon DEF IInv, WritersInv
  <2>3. \A x \in Writers : w'[x].pc # "idle" /\ w'[x].exit = "panic" => failed'
    BY <1>3, Zenon DEF IInv, WritersInv
  <2>4. lock' \in Writers \cup {NoOne}
    BY <1>1, Zenon DEF IInv, WritersInv
  <2>. QED  BY <1>3, <2>1, <2>2, <2>3, <2>4, Zenon DEF WritersInv
<1>9. ReadersInv'
  BY <1>1, Zenon DEF IInv, ReadersInv, Committed
<1>10. FlagsInv'
  BY <1>1, <1>3, Zenon DEF IInv, FlagsInv
<1>. QED  BY <1>6, <1>8, <1>9, <1>10 DEF IInv

\* The record that the code's assignments leave behind, in the terms above.
LEMMA RemoveForm ==
  ASSUME NEW u \in UpdateType
  PROVE  [u EXCEPT !.left = Tail(@),
                   !.kept = Keep(@, u.view.utxos[Head(u.left)],
                                 Membership(u, u.view.utxos[Head(u.left)]) \ {Head(u.left)}),
                   !.view.utxos[Head(u.left)] = NoOne] = AfterRemove(u)
BY DEF UpdateType, StateType, AfterRemove, RemoveKept, RemoveView, NextOut, NextOwner, Others

\* The same for one output that is written.
LEMMA PutForm ==
  ASSUME NEW u \in UpdateType
  PROVE  [u EXCEPT !.left = Tail(@), !.kept = PutKept(u),
                   !.view.utxos[PutOut(u)] = PutOwner(u)] = AfterPut(u)
BY DEF UpdateType, StateType, AfterPut, PutView

----------------------------------------------------------------------------
(***************************************************************************)
(* The steps of a writer keep the invariant.                               *)
(***************************************************************************)

\* How an update ends, and the update that ends so.
Exits(pc, exit) == pc \in {"notify", "leave"} /\ exit \in {"none", "error", "panic"}
Ending(u, pc, exit) == [u EXCEPT !.pc = pc, !.exit = exit]

\* An update that leaves has nothing staged that is still to be committed.
LEMMA Leaving ==
  ASSUME NEW u \in UpdateType, NEW pc, NEW exit, Exits(pc, exit), NEW s
  PROVE  /\ Ending(u, pc, exit) \in UpdateType
         /\ Ending(u, pc, exit).pc = pc
         /\ Ending(u, pc, exit).exit = exit
         /\ Staged(Ending(u, pc, exit), s)
<1> DEFINE v == Ending(u, pc, exit)
<1>1. v \in UpdateType /\ v.pc = pc /\ v.exit = exit
  BY DEF UpdateType, Exits, Ending
<1> HIDE DEF v
<1>2. Staged(v, s)
  BY <1>1, Zenon DEF Staged, Unstaged, Removing, Putting, Complete, Exits
<1>. QED  BY <1>1, <1>2 DEF v

\* An update that ends keeps the invariant, with or without a failure.
LEMMA EndingKeeps ==
  ASSUME IInv, NEW t \in Writers, w[t].pc \notin {"idle", "lock"},
         NEW pc, NEW exit, Exits(pc, exit),
         w' = [w EXCEPT ![t] = Ending(w[t], pc, exit)], Staging,
         failed' \in BOOLEAN, fault' \in BOOLEAN, failed => failed', failed' => fault',
         exit = "panic" => failed'
  PROVE  IInv'
<1> DEFINE v == Ending(w[t], pc, exit)
<1>1. w[t] \in UpdateType
  BY BusyUpdate DEF IInv
<1>2. v \in UpdateType /\ v.pc = pc /\ v.exit = exit /\ Staged(v, Db)
  BY <1>1, Leaving
<1>3. w' = [w EXCEPT ![t] = v]
  OBVIOUS
<1> HIDE DEF v
<1>4. v.pc # "lock" /\ v.pc # "commit" /\ w[t].pc # "idle" /\ w[t].pc # "lock"
  BY <1>2 DEF Exits
<1>. QED  BY <1>2, <1>3, <1>4, UpdateFrame, Zenon

\* An error that is not fatal.
LEMMA RefusedKeeps ==
  ASSUME IInv, NEW t \in Writers, w[t].pc \notin {"idle", "lock"}, Refused(t)
  PROVE  IInv'
<1>1. /\ w' = [w EXCEPT ![t] = Ending(w[t], "leave", "error")]
      /\ failed' = failed /\ fault' = fault /\ Staging
  BY DEF Refused, Goes, Ending
<1>2. /\ failed' \in BOOLEAN /\ fault' \in BOOLEAN
      /\ failed => failed'
      /\ failed' => fault'
  BY <1>1, Zenon DEF IInv, FlagsInv
<1>3. Exits("leave", "error") /\ "error" # "panic"
  BY DEF Exits
<1>. QED  BY <1>1, <1>2, <1>3, EndingKeeps, Zenon

\* A fault: the failure flag is set before the thread leaves.
LEMMA FailureKeeps ==
  ASSUME IInv, NEW t \in Writers, w[t].pc \notin {"idle", "lock"},
         NEW exit \in {"error", "panic"}, WriterFails(t, exit), fault' = TRUE, Staging
  PROVE  IInv'
<1>1. w \in [Writers -> UpdateType \cup {NoUpdate}]
  BY DEF IInv, WritersInv
<1>2. w' = [w EXCEPT ![t] = Ending(w[t], AfterMark, exit)] /\ failed' = TRUE
  BY <1>1 DEF WriterFails, mark_failed, Ending
<1>3. Exits(AfterMark, exit)
  BY DEF Exits, AfterMark
<1>. QED  BY <1>2, <1>3, EndingKeeps, Zenon

\* A step inside the lock that neither refuses nor fails.
LEMMA GoesKeeps ==
  ASSUME IInv, NEW t \in Writers, Locked(t), NEW u \in UpdateType, Goes(t, u),
         u.pc \in {"stage", "remove", "put", "check", "commit"}, u.exit = w[t].exit,
         u.pc = "commit" => ~failed, Staged(u, Db)
  PROVE  IInv'
<1>1. w' = [w EXCEPT ![t] = u] /\ failed' = failed /\ fault' = fault /\ Staging
  BY DEF Goes
<1>2. /\ w[t].pc \in {"stage", "remove", "put", "check", "commit"}
      /\ w[t].exit = "panic" => failed
  BY HolderStaged DEF IInv
<1>3. /\ failed' \in BOOLEAN /\ fault' \in BOOLEAN
      /\ failed => failed'
      /\ failed' => fault'
      /\ u.exit = "panic" => failed'
      /\ late = 1 => u.pc # "commit"
  BY <1>1, <1>2, Zenon DEF IInv, FlagsInv
<1>4. u.pc # "lock" /\ w[t].pc # "idle" /\ w[t].pc # "lock"
  BY <1>2
<1>. QED  BY <1>1, <1>3, <1>4, UpdateFrame, Zenon

\* apply_transition checks the tip and begins.
LEMMA StageKeeps ==
  ASSUME IInv, NEW t \in Writers, Stage(t)
  PROVE  IInv'
<1> DEFINE u == w[t]
           v == [u EXCEPT !.pc = "remove", !.left = u.op.removed,
                          !.view.chain = Memory!Spliced(@, [u.op EXCEPT !.blocks = <<>>])]
<1>1. Locked(t) /\ u.pc = "stage"
  BY DEF Stage
<1>2. u \in UpdateType /\ Staged(u, Db) /\ Db \in StateType /\ Sound(Db)
  BY <1>1, HolderStaged, DbSound DEF IInv
<1>3. CASE ~is_failed /\ Memory!Tip(u.view.chain) = u.op.head /\ Memory!Canonical(u.view.chain, u.op.base)
  <2>1. Goes(t, v)
    BY <1>3 DEF Stage
  <2>2. Prepared(u, Db)
    BY <1>1, <1>2, <1>3 DEF Staged, Unstaged, Prepared
  <2>3. v \in UpdateType /\ v.pc = "remove" /\ v.exit = u.exit /\ Staged(v, Db)
    BY <1>1, <1>2, <2>2, StageStep, Zenon
  <2> HIDE DEF v
  <2>. QED  BY <1>1, <2>1, <2>3, GoesKeeps
<1>4. CASE ~(~is_failed /\ Memory!Tip(u.view.chain) = u.op.head /\ Memory!Canonical(u.view.chain, u.op.base))
  <2>1. Refused(t)
    BY <1>4 DEF Stage
  <2>. QED  BY <1>1, <2>1, RefusedKeeps
<1>. QED  BY <1>3, <1>4, Zenon

\* One output is removed; a disagreement of the tables is out of reach.
LEMMA RemoveKeeps ==
  ASSUME IInv, NEW t \in Writers, RemoveUtxo(t)
  PROVE  IInv'
<1> DEFINE u == w[t]
<1>1. Locked(t) /\ u.pc = "remove" /\ u.left # <<>>
  BY DEF RemoveUtxo
<1>2. u \in UpdateType /\ Staged(u, Db) /\ Db \in StateType
  BY <1>1, HolderStaged, DbSound DEF IInv
<1>3. CASE is_failed \/ NextOwner(u) = NoOne
  <2>1. Refused(t)
    BY <1>3 DEF RemoveUtxo, NextOwner, NextOut
  <2>. QED  BY <1>1, <2>1, RefusedKeeps
<1>4. CASE ~(is_failed \/ NextOwner(u) = NoOne)
  <2>1. NextOut(u) \in Membership(u, NextOwner(u))
    BY <1>1, <1>2, <1>4, RemoveNext
  <2>2. Goes(t, [u EXCEPT !.left = Tail(@),
                   !.kept = Keep(@, u.view.utxos[Head(u.left)],
                                 Membership(u, u.view.utxos[Head(u.left)]) \ {Head(u.left)}),
                   !.view.utxos[Head(u.left)] = NoOne])
    BY <1>4, <2>1, Zenon DEF RemoveUtxo, NextOwner, NextOut
  <2>3. Goes(t, AfterRemove(u))
    BY <1>2, <2>2, RemoveForm, Zenon
  <2>4. /\ AfterRemove(u) \in UpdateType /\ AfterRemove(u).pc = "remove"
        /\ AfterRemove(u).exit = u.exit /\ Staged(AfterRemove(u), Db)
    BY <1>1, <1>2, <1>4, RemoveStep
  <2>. QED  BY <1>1, <2>3, <2>4, GoesKeeps
<1>. QED  BY <1>3, <1>4, Zenon

\* One output is written; the same holds for the previous owner's set.
LEMMA PutKeeps ==
  ASSUME IInv, NEW t \in Writers, PutUtxo(t)
  PROVE  IInv'
<1> DEFINE u == w[t]
<1>1. Locked(t) /\ u.pc = "put" /\ u.left # <<>>
  BY DEF PutUtxo
<1>2. u \in UpdateType /\ Staged(u, Db) /\ Db \in StateType
  BY <1>1, HolderStaged, DbSound DEF IInv
<1>3. CASE is_failed
  <2>1. Refused(t)
    BY <1>3 DEF PutUtxo
  <2>. QED  BY <1>1, <2>1, RefusedKeeps
<1>4. CASE ~is_failed
  <2>1. PutMoved(u) => PutOut(u) \in Membership(u, PutPrevious(u))
    BY <1>1, <1>2, PutNext
  <2>2. Goes(t, [u EXCEPT !.left = Tail(@), !.kept = PutKept(u),
                          !.view.utxos[PutOut(u)] = PutOwner(u)])
    BY <1>4, <2>1, Zenon DEF PutUtxo, PutMoved, PutPrevious, PutOut, PutOwner, PutKept,
                             PutTaken, PutOthers, PutListed
  <2>3. Goes(t, AfterPut(u))
    BY <1>2, <2>2, PutForm, Zenon
  <2>4. /\ AfterPut(u) \in UpdateType /\ AfterPut(u).pc = "put"
        /\ AfterPut(u).exit = u.exit /\ Staged(AfterPut(u), Db)
    BY <1>1, <1>2, PutStep
  <2>. QED  BY <1>1, <2>3, <2>4, GoesKeeps
<1>. QED  BY <1>3, <1>4, Zenon

\* The ends of the two batches.
LEMMA EndsKeep ==
  ASSUME IInv, NEW t \in Writers, EndRemove(t) \/ EndPut(t)
  PROVE  IInv'
<1> DEFINE u == w[t]
<1>1. CASE EndRemove(t)
  <2> DEFINE v == [u EXCEPT !.pc = "put", !.left = u.op.put, !.kept = Empty,
                            !.view = WriteMemberships(u)]
  <2>1. Locked(t) /\ u.pc = "remove" /\ u.left = <<>> /\ Goes(t, v)
    BY <1>1 DEF EndRemove
  <2>2. u \in UpdateType /\ Staged(u, Db) /\ Db \in StateType
    BY <2>1, HolderStaged, DbSound DEF IInv
  <2>3. v \in UpdateType /\ v.pc = "put" /\ v.exit = u.exit /\ Staged(v, Db)
    BY <2>1, <2>2, EndRemoveStep, Zenon
  <2> HIDE DEF v
  <2>. QED  BY <2>1, <2>3, GoesKeeps
<1>2. CASE EndPut(t)
  <2> DEFINE v == [u EXCEPT !.pc = "check", !.kept = Empty,
                     !.view = [WriteMemberships(u) EXCEPT
                                 !.chain = @ \o u.op.blocks,
                                 !.blocks = @ \cup {u.op.blocks[i] : i \in 1..Len(u.op.blocks)}]]
  <2>1. Locked(t) /\ u.pc = "put" /\ u.left = <<>> /\ Goes(t, v)
    BY <1>2 DEF EndPut
  <2>2. u \in UpdateType /\ Staged(u, Db) /\ Db \in StateType
    BY <2>1, HolderStaged, DbSound DEF IInv
  <2>3. v \in UpdateType /\ v.pc = "check" /\ v.exit = u.exit /\ Staged(v, Db)
    BY <2>1, <2>2, EndPutStep, Zenon
  <2> HIDE DEF v
  <2>. QED  BY <2>1, <2>3, GoesKeeps
<1>. QED  BY <1>1, <1>2

\* The last check of the flag before the commit.
LEMMA CheckKeeps ==
  ASSUME IInv, NEW t \in Writers, CheckHealth(t)
  PROVE  IInv'
<1> DEFINE u == w[t]
           v == [u EXCEPT !.pc = "commit"]
<1>1. Locked(t) /\ u.pc = "check"
  BY DEF CheckHealth
<1>2. u \in UpdateType /\ Staged(u, Db)
  BY <1>1, HolderStaged DEF IInv
<1>3. CASE is_failed
  <2>1. Refused(t)
    BY <1>3 DEF CheckHealth
  <2>. QED  BY <1>1, <2>1, RefusedKeeps
<1>4. CASE ~is_failed
  <2>1. Goes(t, v)
    BY <1>4 DEF CheckHealth
  <2>2. /\ v \in UpdateType /\ v.pc = "commit" /\ v.exit = u.exit
        /\ v.op = u.op /\ v.view = u.view
    BY <1>2 DEF UpdateType
  <2> HIDE DEF v
  <2>3. Staged(v, Db)
    BY <1>1, <1>2, <2>2, Zenon DEF Staged, Unstaged, Removing, Putting, Complete, Prepared, AllRemoved
  <2>4. ~failed
    BY <1>4 DEF is_failed
  <2>. QED  BY <1>1, <2>1, <2>2, <2>3, <2>4, GoesKeeps
<1>. QED  BY <1>3, <1>4, Zenon

\* A fault of the backend, or a panic of the closure.
LEMMA FaultsKeep ==
  ASSUME IInv, NEW t \in Writers, BackendFails(t) \/ Panic(t)
  PROVE  IInv'
<1>1. Locked(t)
  BY DEF BackendFails, Panic
<1>2. w[t].pc \notin {"idle", "lock"}
  BY <1>1, HolderStaged DEF IInv
<1>3. PICK exit \in {"error", "panic"} : WriterFails(t, exit) /\ fault' = TRUE /\ Staging
  BY DEF BackendFails, Panic
<1>. QED  BY <1>2, <1>3, FailureKeeps

\* The writers that are in an update are finitely many; one more or one less
\* counts as one.
LEMMA BusyCount ==
  ASSUME WritersInv, NEW t \in Writers
  PROVE  /\ Cardinality(Busy) \in Nat
         /\ (w[t].pc = "idle" => Cardinality(Busy \cup {t}) = Cardinality(Busy) + 1)
         /\ (w[t].pc # "idle" => Cardinality(Busy \ {t}) = Cardinality(Busy) - 1)
<1>1. IsFiniteSet(Busy)
  BY TransitionsAssumption, FS_Subset DEF Busy
<1>2. t \in Busy <=> w[t].pc # "idle"
  BY DEF Busy
<1>3. Cardinality(Busy) \in Nat
  BY <1>1, FS_CardinalityType
<1>4. ASSUME t \notin Busy PROVE Cardinality(Busy \cup {t}) = Cardinality(Busy) + 1
  BY <1>1, <1>4, FS_AddElement
<1>5. ASSUME t \in Busy PROVE Cardinality(Busy \ {t}) = Cardinality(Busy) - 1
  BY <1>1, <1>5, FS_RemoveElement
<1>. QED  BY <1>2, <1>3, <1>4, <1>5, Zenon

\* An update that waits for the lock has nothing staged.
LEMMA WaitingStaged ==
  ASSUME NEW u, NEW s, u.pc = "lock"
  PROVE  Staged(u, s) <=> u.kept = Empty
BY Zenon DEF Staged, Unstaged, Removing, Putting, Complete

\* An update ends while no other thread is inside the lock: the writers that
\* remain wait for it, whatever the database is now.
LEMMA UpdateEnds ==
  ASSUME IInv, NEW t \in Writers, w[t].pc # "idle", lock \in {t, NoOne}, lock' = NoOne,
         w' = [w EXCEPT ![t] = NoUpdate], failed => failed'
  PROVE  /\ WritersInv'
         /\ Cardinality(Busy) \in Nat /\ Cardinality(Busy') = Cardinality(Busy) - 1
         /\ \A x \in Writers : w'[x].pc \in {"idle", "lock"}
<1>1. w \in [Writers -> UpdateType \cup {NoUpdate}] /\ WritersInv
  BY DEF IInv, WritersInv
<1>2. /\ w' \in [Writers -> UpdateType \cup {NoUpdate}]
      /\ w'[t] = NoUpdate /\ \A x \in Writers : x # t => w'[x] = w[x]
  BY <1>1
<1>3. w'[t].pc = "idle"
  BY <1>2 DEF NoUpdate
<1>4. \A x \in Writers : x # t => w[x].pc \in {"idle", "lock"}
  BY <1>1, TransitionsAssumption DEF WritersInv
<1>5. \A x \in Writers : w'[x].pc \in {"idle", "lock"}
  BY <1>2, <1>3, <1>4
<1>6. Busy' = Busy \ {t}
  BY <1>2, <1>3 DEF Busy
<1>7. \A x \in Writers : lock' = x <=> w'[x].pc \notin {"idle", "lock"}
  BY <1>5, TransitionsAssumption
<1>8. ASSUME NEW x \in Writers, w'[x].pc # "idle"
      PROVE  Staged(w'[x], Db') /\ (w'[x].exit = "panic" => failed')
  <2>1. x # t /\ w'[x] = w[x] /\ w[x].pc = "lock" /\ w[x].pc # "idle"
    BY <1>2, <1>3, <1>5, <1>8
  <2>2. Staged(w[x], Db)
    BY <1>1, <2>1, Zenon DEF WritersInv
  <2>3. Staged(w[x], Db')
    BY <2>1, <2>2, WaitingStaged, Zenon
  <2>. QED  BY <1>1, <2>1, <2>3, Zenon DEF WritersInv
<1>9. WritersInv'
  BY <1>2, <1>7, <1>8, Zenon DEF WritersInv
<1>. QED  BY <1>1, <1>5, <1>6, <1>9, BusyCount, Zenon

\* A refused lock and the end of an update that rolled back.
LEMMA LeaveKeeps ==
  ASSUME IInv, NEW t \in Writers, LockRefused(t) \/ Leave(t)
  PROVE  IInv'
<1>1. /\ log' = log /\ disk' = disk /\ handler' = handler /\ notified' = notified
      /\ r' = r /\ fault' = fault /\ late' = late /\ restarts' = restarts
      /\ lock' = NoOne /\ w' = [w EXCEPT ![t] = NoUpdate]
      /\ w[t].pc \in {"lock", "leave"}
  BY DEF LockRefused, Leave
<1>2. w[t].pc # "idle" /\ lock \in {t, NoOne}
  BY <1>1 DEF IInv, WritersInv, LockRefused, Leave
<1>3. failed' \in BOOLEAN /\ poisoned' \in BOOLEAN /\ (poisoned' => failed')
      /\ (failed => failed') /\ (failed' => fault)
  <2>1. CASE LockRefused(t)
    <3>1. failed' = (failed \/ poisoned) /\ poisoned' = poisoned
      BY <2>1 DEF LockRefused
    <3>. QED  BY <3>1 DEF IInv, FlagsInv
  <2>2. CASE Leave(t)
    <3>1. failed' = failed /\ poisoned' = (poisoned \/ w[t].exit = "panic")
      BY <2>2 DEF Leave
    <3>2. w[t].exit = "panic" => failed
      BY <1>2 DEF IInv, WritersInv
    <3>. QED  BY <3>1, <3>2 DEF IInv, FlagsInv
  <2>. QED  BY <2>1, <2>2
<1>4. /\ WritersInv' /\ Cardinality(Busy) \in Nat /\ Cardinality(Busy') = Cardinality(Busy) - 1
      /\ \A x \in Writers : w'[x].pc \in {"idle", "lock"}
  BY <1>1, <1>2, <1>3, UpdateEnds, Zenon
<1>5. LogInv'
  <2>1. Len(log) + Cardinality(Busy) <= MaxCommits + 1 /\ log \in Seq(StateType) /\ MaxCommits \in Nat
    BY TransitionsAssumption DEF IInv, LogInv
  <2>2. Len(log') + Cardinality(Busy') <= MaxCommits + 1
    BY <1>1, <1>4, <2>1
  <2>. QED  BY <1>1, <2>2, Zenon DEF IInv, LogInv, Sound, Indexed
<1>6. ReadersInv'
  BY <1>1, Zenon DEF IInv, ReadersInv, Committed
<1>7. FlagsInv'
  <2>1. \A x \in Writers : w'[x].pc # "commit"
    BY <1>4
  <2>. QED  BY <1>1, <1>3, <2>1, Zenon DEF IInv, FlagsInv
<1>. QED  BY <1>4, <1>5, <1>6, <1>7 DEF IInv

\* The commit: the staged state is sound, and only one thread can be past its
\* last check when the flag is set.
LEMMA CommitKeeps ==
  ASSUME IInv, NEW t \in Writers, Commit(t)
  PROVE  IInv'
<1> DEFINE v == w[t].view
<1>1. /\ Locked(t) /\ w[t].pc = "commit" /\ log' = Append(log, v)
      /\ late' = (IF failed THEN late + 1 ELSE late)
      /\ lock' = NoOne /\ w' = [w EXCEPT ![t] = NoUpdate]
      /\ disk' = disk /\ failed' = failed /\ poisoned' = poisoned /\ handler' = handler
      /\ notified' = notified /\ r' = r /\ fault' = fault /\ restarts' = restarts
  BY DEF Commit
<1>2. w[t] \in UpdateType /\ Staged(w[t], Db) /\ Db \in StateType /\ Sound(Db)
  BY <1>1, HolderStaged, DbSound DEF IInv
<1>3. v \in StateType /\ Sound(v)
  BY <1>1, <1>2, CompleteSound
<1> HIDE DEF v
<1>4. /\ log \in Seq(StateType) /\ Len(log) > 0 /\ disk \in 1..Len(log)
      /\ Len(log) + Cardinality(Busy) <= MaxCommits + 1 /\ MaxCommits \in Nat
      /\ \A i \in 1..Len(log) : Sound(log[i])
  BY TransitionsAssumption DEF IInv, LogInv
<1>5. /\ log' \in Seq(StateType) /\ Len(log') = Len(log) + 1
      /\ log'[Len(log) + 1] = v
      /\ \A i \in 1..Len(log) : log'[i] = log[i]
  BY <1>1, <1>3, <1>4
<1>6. w[t].pc # "idle" /\ lock \in {t, NoOne}
  BY <1>1 DEF Locked
<1>7. /\ WritersInv' /\ Cardinality(Busy) \in Nat /\ Cardinality(Busy') = Cardinality(Busy) - 1
      /\ \A x \in Writers : w'[x].pc \in {"idle", "lock"}
  BY <1>1, <1>6, UpdateEnds, Zenon
<1>8. LogInv'
  <2>1. \A i \in 1..Len(log') : Sound(log'[i])
    BY <1>3, <1>4, <1>5
  <2>2. Len(log') + Cardinality(Busy') <= MaxCommits + 1 /\ Len(log') > 0 /\ disk' \in 1..Len(log')
    BY <1>1, <1>4, <1>5, <1>7
  <2>. QED  BY <1>5, <2>1, <2>2, Zenon DEF LogInv, Sound, Indexed
<1>9. ReadersInv'
  <2>1. \A i \in 1..Len(log) : i \in 1..Len(log')
    BY <1>4, <1>5
  <2>2. \A s : Committed(s) => Committed(s)'
    BY <1>5, <2>1, Zenon DEF Committed
  <2>. QED  BY <1>1, <2>2, Zenon DEF IInv, ReadersInv
<1>10. FlagsInv'
  <2>1. \A x \in Writers : w'[x].pc # "commit"
    BY <1>7
  <2>2. late \in Nat /\ late <= 1 /\ (late = 1 => failed) /\ late # 1
    BY <1>1 DEF IInv, FlagsInv
  <2>3. late' \in Nat /\ late' <= 1 /\ (late' = 1 => failed)
    BY <1>1, <2>2
  <2>. QED  BY <1>1, <2>1, <2>3, Zenon DEF IInv, FlagsInv
<1>. QED  BY <1>7, <1>8, <1>9, <1>10 DEF IInv

\* The lock is taken: the update starts from the database as it is now.
LEMMA LockKeeps ==
  ASSUME IInv, NEW t \in Writers, Lock(t)
  PROVE  IInv'
<1> DEFINE u == w[t]
           v == [u EXCEPT !.pc = "stage", !.view = Db]
<1>1. /\ u.pc = "lock" /\ lock = NoOne /\ lock' = t
      /\ log' = log /\ disk' = disk /\ failed' = failed /\ poisoned' = poisoned
      /\ handler' = handler /\ notified' = notified /\ r' = r /\ fault' = fault
      /\ late' = late /\ restarts' = restarts
  BY DEF Lock
<1>2. w \in [Writers -> UpdateType \cup {NoUpdate}] /\ WritersInv
  BY DEF IInv, WritersInv
<1>3. w' = [w EXCEPT ![t] = v]
  BY <1>2 DEF Lock
<1>4. u \in UpdateType /\ Staged(u, Db) /\ (u.exit = "panic" => failed)
  BY <1>1, <1>2, BusyUpdate DEF WritersInv
<1>5. u.kept = Empty
  BY <1>1, <1>4, WaitingStaged
<1>6. Db \in StateType
  BY DbSound DEF IInv
<1>7. v \in UpdateType /\ v.pc = "stage" /\ v.view = Db /\ v.kept = Empty /\ v.exit = u.exit
  BY <1>4, <1>5, <1>6 DEF UpdateType
<1> HIDE DEF v
<1>8. Staged(v, Db)
  BY <1>7, Zenon DEF Staged, Unstaged, Removing, Putting, Complete
<1>9. /\ w' \in [Writers -> UpdateType \cup {NoUpdate}]
      /\ w'[t] = v /\ \A x \in Writers : x # t => w'[x] = w[x]
  BY <1>2, <1>3, <1>7
<1>10. Busy' = Busy
  BY <1>1, <1>7, <1>9 DEF Busy
<1>11. LogInv'
  BY <1>1, <1>10, Zenon DEF IInv, LogInv, Sound, Indexed
<1>12. Db' = Db
  BY <1>1 DEF Db
<1>13. WritersInv'
  <2>1. \A x \in Writers : lock' = x <=> w'[x].pc \notin {"idle", "lock"}
    BY <1>1, <1>2, <1>7, <1>9, TransitionsAssumption DEF WritersInv
  <2>2. \A x \in Writers : w'[x].pc # "idle" => Staged(w'[x], Db')
    BY <1>2, <1>8, <1>9, <1>12, Zenon DEF WritersInv
  <2>3. \A x \in Writers : w'[x].pc # "idle" /\ w'[x].exit = "panic" => failed'
    BY <1>1, <1>2, <1>4, <1>7, <1>9, Zenon DEF WritersInv
  <2>. QED  BY <1>1, <1>9, <2>1, <2>2, <2>3, Zenon DEF WritersInv
<1>14. ReadersInv'
  BY <1>1, Zenon DEF IInv, ReadersInv, Committed
<1>15. FlagsInv'
  <2>1. v.pc # "commit"
    BY <1>7
  <2>. QED  BY <1>1, <1>9, <2>1, Zenon DEF IInv, FlagsInv
<1>. QED  BY <1>11, <1>13, <1>14, <1>15 DEF IInv

\* A call of apply_transition begins.
LEMMA BeginKeeps ==
  ASSUME IInv, NEW t \in Writers, NEW d \in Transitions, Begin(t, d)
  PROVE  IInv'
<1> DEFINE v == [pc |-> "lock", op |-> d, view |-> Genesis, kept |-> Empty, left |-> <<>>,
                 exit |-> "none"]
<1>1. /\ w[t].pc = "idle" /\ w' = [w EXCEPT ![t] = v]
      /\ Len(log) + Cardinality(Busy) <= MaxCommits
      /\ log' = log /\ disk' = disk /\ failed' = failed /\ poisoned' = poisoned
      /\ handler' = handler /\ notified' = notified /\ r' = r /\ fault' = fault
      /\ late' = late /\ restarts' = restarts /\ lock' = lock
  BY DEF Begin, Staging, Busy
<1>2. w \in [Writers -> UpdateType \cup {NoUpdate}] /\ WritersInv
  BY DEF IInv, WritersInv
<1>3. Genesis \in StateType
  BY TransitionsAssumption DEF Genesis, StateType, Indexed, Memory!get_utxos_for_address
<1>4. v \in UpdateType /\ v.pc = "lock" /\ v.kept = Empty /\ v.exit = "none"
  BY <1>3, EmptyKept DEF UpdateType
<1> HIDE DEF v
<1>5. Staged(v, Db)
  BY <1>4, WaitingStaged
<1>6. /\ w' \in [Writers -> UpdateType \cup {NoUpdate}]
      /\ w'[t] = v /\ \A x \in Writers : x # t => w'[x] = w[x]
  BY <1>1, <1>2, <1>4
<1>7. Busy' = Busy \cup {t}
  BY <1>4, <1>6 DEF Busy
<1>8. LogInv'
  <2>1. Cardinality(Busy') = Cardinality(Busy) + 1 /\ Cardinality(Busy) \in Nat
    BY <1>1, <1>2, <1>7, BusyCount
  <2>2. log \in Seq(StateType) /\ MaxCommits \in Nat
    BY TransitionsAssumption DEF IInv, LogInv
  <2>3. Len(log') + Cardinality(Busy') <= MaxCommits + 1
    BY <1>1, <2>1, <2>2
  <2>. QED  BY <1>1, <2>3, Zenon DEF IInv, LogInv, Sound, Indexed
<1>9. Db' = Db
  BY <1>1 DEF Db
<1>10. WritersInv'
  <2>1. \A x \in Writers : lock' = x <=> w'[x].pc \notin {"idle", "lock"}
    BY <1>1, <1>2, <1>4, <1>6, TransitionsAssumption DEF WritersInv
  <2>2. \A x \in Writers : w'[x].pc # "idle" => Staged(w'[x], Db')
    BY <1>2, <1>5, <1>6, <1>9, Zenon DEF WritersInv
  <2>3. \A x \in Writers : w'[x].pc # "idle" /\ w'[x].exit = "panic" => failed'
    BY <1>1, <1>2, <1>4, <1>6 DEF WritersInv
  <2>4. lock' \in Writers \cup {NoOne}
    BY <1>1, <1>2, Zenon DEF WritersInv
  <2>. QED  BY <1>6, <2>1, <2>2, <2>3, <2>4, Zenon DEF WritersInv
<1>11. ReadersInv'
  BY <1>1, Zenon DEF IInv, ReadersInv, Committed
<1>12. FlagsInv'
  <2>1. v.pc # "commit"
    BY <1>4
  <2>. QED  BY <1>1, <1>6, <2>1, Zenon DEF IInv, FlagsInv
<1>. QED  BY <1>8, <1>10, <1>11, <1>12 DEF IInv

\* The failure handler runs in the thread that set the flag.
LEMMA NotifyKeeps ==
  ASSUME IInv, NEW t \in Writers, NotifyWriter(t)
  PROVE  IInv'
<1> DEFINE u == w[t]
           v == [u EXCEPT !.pc = "leave"]
<1>1. /\ u.pc = "notify" /\ notified' = (notified \/ handler # "none")
      /\ log' = log /\ disk' = disk /\ failed' = failed /\ poisoned' = poisoned
      /\ handler' = handler /\ r' = r /\ fault' = fault
      /\ late' = late /\ restarts' = restarts /\ lock' = lock
  BY DEF NotifyWriter, Notified
<1>2. w \in [Writers -> UpdateType \cup {NoUpdate}] /\ WritersInv
  BY DEF IInv, WritersInv
<1>3. w' = [w EXCEPT ![t] = v]
  BY <1>2 DEF NotifyWriter
<1>4. u \in UpdateType /\ (u.exit = "panic" => failed)
  BY <1>1, <1>2, BusyUpdate DEF WritersInv
<1>5. v \in UpdateType /\ v.pc = "leave" /\ v.exit = u.exit
  BY <1>4 DEF UpdateType
<1> HIDE DEF v
<1>6. Staged(v, Db)
  BY <1>5, Zenon DEF Staged, Unstaged, Removing, Putting, Complete
<1>7. /\ w' \in [Writers -> UpdateType \cup {NoUpdate}]
      /\ w'[t] = v /\ \A x \in Writers : x # t => w'[x] = w[x]
  BY <1>2, <1>3, <1>5
<1>8. Busy' = Busy
  BY <1>1, <1>5, <1>7 DEF Busy
<1>9. LogInv'
  BY <1>1, <1>8, Zenon DEF IInv, LogInv, Sound, Indexed
<1>10. Db' = Db
  BY <1>1 DEF Db
<1>11. WritersInv'
  <2>1. \A x \in Writers : lock' = x <=> w'[x].pc \notin {"idle", "lock"}
    BY <1>1, <1>2, <1>5, <1>7 DEF WritersInv
  <2>2. \A x \in Writers : w'[x].pc # "idle" => Staged(w'[x], Db')
    BY <1>2, <1>6, <1>7, <1>10, Zenon DEF WritersInv
  <2>3. \A x \in Writers : w'[x].pc # "idle" /\ w'[x].exit = "panic" => failed'
    BY <1>1, <1>2, <1>4, <1>5, <1>7, Zenon DEF WritersInv
  <2>4. lock' \in Writers \cup {NoOne}
    BY <1>1, <1>2, Zenon DEF WritersInv
  <2>. QED  BY <1>7, <2>1, <2>2, <2>3, <2>4, Zenon DEF WritersInv
<1>12. ReadersInv'
  BY <1>1, Zenon DEF IInv, ReadersInv, Committed
<1>13. FlagsInv'
  <2>1. v.pc # "commit" /\ notified' \in BOOLEAN
    BY <1>1, <1>5 DEF IInv, FlagsInv
  <2>. QED  BY <1>1, <1>7, <2>1, Zenon DEF IInv, FlagsInv
<1>. QED  BY <1>9, <1>11, <1>12, <1>13 DEF IInv

----------------------------------------------------------------------------
(***************************************************************************)
(* The steps of a reader keep the invariant.                               *)
(***************************************************************************)

\* A step of one query keeps the invariant when what the query has read is what
\* its snapshot holds.
LEMMA QueryFrame ==
  ASSUME IInv, NEW t \in Readers, NEW q, q \in QueryType \/ q = NoQuery,
         r' = [r EXCEPT ![t] = q],
         q.pc # "idle" => Committed(q.snapshot) /\ Asked(q),
         UNCHANGED <<log, disk, lock, poisoned, handler, w, late, restarts>>,
         notified' \in BOOLEAN,
         failed' \in BOOLEAN, fault' \in BOOLEAN, failed => failed', failed' => fault'
  PROVE  IInv'
<1>1. /\ log' = log /\ disk' = disk /\ lock' = lock /\ poisoned' = poisoned
      /\ handler' = handler /\ w' = w /\ late' = late /\ restarts' = restarts
  OBVIOUS
<1>2. r \in [Readers -> QueryType \cup {NoQuery}]
  BY DEF IInv, ReadersInv
<1>3. /\ r' \in [Readers -> QueryType \cup {NoQuery}]
      /\ r'[t] = q /\ \A x \in Readers : x # t => r'[x] = r[x]
  BY <1>2
<1>4. LogInv'
  BY <1>1, Zenon DEF IInv, LogInv, Sound, Indexed, Busy
<1>5. WritersInv'
  BY <1>1, Zenon DEF IInv, WritersInv, Db
<1>6. ReadersInv'
  <2>1. ASSUME NEW x \in Readers, r'[x].pc # "idle"
        PROVE  (\E i \in 1..Len(log) : log[i] = r'[x].snapshot) /\ Asked(r'[x])
    <3>1. CASE x = t
      BY <1>3, <2>1, <3>1, Zenon DEF Committed
    <3>2. CASE x # t
      BY <1>3, <2>1, <3>2, Zenon DEF IInv, ReadersInv, Committed
    <3>. QED  BY <3>1, <3>2
  <2>2. \A x \in Readers : r'[x].pc # "idle" => Committed(r[x].snapshot)' /\ Asked(r[x])'
    BY <1>1, <2>1 DEF Committed
  <2>. QED  BY <1>3, <2>2, Zenon DEF ReadersInv
<1>7. FlagsInv'
  BY <1>1 DEF IInv, FlagsInv
<1>. QED  BY <1>4, <1>5, <1>6, <1>7 DEF IInv

\* A query in progress reads a sound committed state.
LEMMA QuerySound ==
  ASSUME IInv, NEW t \in Readers, r[t].pc # "idle"
  PROVE  /\ r[t] \in QueryType /\ Asked(r[t]) /\ Committed(r[t].snapshot)
         /\ Sound(r[t].snapshot) /\ r[t].snapshot \in StateType
<1>1. r[t] \in QueryType \cup {NoQuery} /\ Committed(r[t].snapshot) /\ Asked(r[t])
  BY DEF IInv, ReadersInv
<1>2. r[t] \in QueryType
  BY <1>1 DEF NoQuery
<1>3. Sound(r[t].snapshot)
  BY <1>1, Zenon DEF Committed, IInv, LogInv
<1>4. r[t].snapshot \in StateType
  BY <1>2 DEF QueryType
<1>. QED  BY <1>1, <1>2, <1>3, <1>4

\* A step that ends the query, or starts or continues it without a failure.
LEMMA ReadsKeeps ==
  ASSUME IInv, NEW t \in Readers, NEW q, Reads(t, q),
         q = NoQuery \/ (q \in QueryType /\ Committed(q.snapshot) /\ Asked(q))
  PROVE  IInv'
<1>1. /\ r' = [r EXCEPT ![t] = q] /\ failed' = failed /\ fault' = fault /\ notified' = notified
      /\ UNCHANGED <<log, disk, lock, poisoned, handler, w, late, restarts>>
  BY DEF Reads, Reading
<1>2. q.pc # "idle" => Committed(q.snapshot) /\ Asked(q)
  BY DEF NoQuery
<1>3. /\ failed' \in BOOLEAN /\ fault' \in BOOLEAN /\ notified' \in BOOLEAN
      /\ failed => failed'
      /\ failed' => fault'
  BY <1>1, Zenon DEF IInv, FlagsInv
<1>. QED  BY <1>1, <1>2, <1>3, QueryFrame, Zenon

\* A query begins with a snapshot of the database.
LEMMA ReadKeeps ==
  ASSUME IInv, NEW t \in Readers, NEW a \in Addresses, Read(t, a)
  PROVE  IInv'
<1> DEFINE q == [pc |-> "tip", snapshot |-> Db, height |-> 0, chain |-> <<>>,
                 address |-> a, left |-> {}, got |-> {}]
<1>1. Reads(t, q)
  BY DEF Read
<1>2. Db \in StateType /\ Committed(Db)
  BY DbSound DEF IInv
<1>3. q \in QueryType /\ q.snapshot = Db /\ q.pc = "tip" /\ q.chain = <<>> /\ q.got = {}
  BY <1>2 DEF QueryType
<1> HIDE DEF q
<1>4. Asked(q)
  BY <1>3 DEF Asked
<1>. QED  BY <1>1, <1>2, <1>3, <1>4, ReadsKeeps

\* The height of the tip is the one of the snapshot.
LEMMA TipKeeps ==
  ASSUME IInv, NEW t \in Readers, chain_state(t)
  PROVE  IInv'
<1> DEFINE q == r[t]
           n == Len(q.snapshot.chain)
           v == [q EXCEPT !.pc = "heights", !.height = n]
<1>1. q.pc = "tip" /\ Reads(t, v)
  BY DEF chain_state, Source
<1>2. q \in QueryType /\ Asked(q) /\ Committed(q.snapshot) /\ q.snapshot \in StateType
  BY <1>1, QuerySound
<1>3. q.chain = <<>> /\ q.got = {} /\ n \in Nat /\ Len(q.chain) = 0
  BY <1>1, <1>2 DEF Asked, StateType
<1> HIDE DEF n
<1>4. /\ v \in QueryType /\ v.snapshot = q.snapshot /\ v.pc = "heights" /\ v.height = n
      /\ v.chain = q.chain /\ v.got = q.got
  BY <1>2, <1>3 DEF QueryType
<1> HIDE DEF v
<1>5. Asked(v)
  BY <1>3, <1>4 DEF Asked, n
<1>. QED  BY <1>1, <1>2, <1>4, <1>5, ReadsKeeps

\* The next block: the snapshot has it, and its body.
LEMMA BlockKeeps ==
  ASSUME IInv, NEW t \in Readers, get_block_by_height(t)
  PROVE  IInv'
<1> DEFINE q == r[t]
           h == Len(q.chain) + 1
           b == q.snapshot.chain[h]
           v == [q EXCEPT !.chain = Append(@, b)]
<1>1. q.pc = "heights" /\ h <= q.height
  BY DEF get_block_by_height
<1>2. /\ q \in QueryType /\ Asked(q) /\ Committed(q.snapshot) /\ q.snapshot \in StateType
      /\ Sound(q.snapshot)
  BY <1>1, QuerySound
<1>3. /\ q.chain \in Seq(Blocks) /\ q.snapshot.chain \in Seq(Blocks) /\ q.height = Len(q.snapshot.chain)
      /\ q.got = {} /\ \A i \in 1..Len(q.chain) : q.chain[i] = q.snapshot.chain[i]
  BY <1>1, <1>2 DEF Asked, QueryType, StateType
<1>4. h \in 1..Len(q.snapshot.chain) /\ ~(h > Len(q.snapshot.chain))
  BY <1>1, <1>3
<1>5. b \in q.snapshot.blocks /\ b \in Blocks
  BY <1>2, <1>3, <1>4 DEF Sound
<1>6. Reads(t, v)
  BY <1>4, <1>5, Zenon DEF get_block_by_height, Source
<1> HIDE DEF b
<1>7. /\ Append(q.chain, b) \in Seq(Blocks) /\ Len(Append(q.chain, b)) = h
      /\ \A i \in 1..Len(q.chain) : Append(q.chain, b)[i] = q.chain[i]
      /\ Append(q.chain, b)[h] = b
  BY <1>3, <1>5
<1> DEFINE c == Append(q.chain, b)
<1>8. v = [q EXCEPT !.chain = c]
  BY <1>2 DEF QueryType
<1> HIDE DEF c, v
<1>9. /\ v \in QueryType /\ v.snapshot = q.snapshot /\ v.pc = "heights" /\ v.height = q.height
      /\ v.chain = c /\ v.got = q.got
  BY <1>1, <1>2, <1>7, <1>8 DEF QueryType, c
<1>10. \A i \in 1..Len(c) : c[i] = q.snapshot.chain[i]
  <2> SUFFICES ASSUME NEW i \in 1..Len(c) PROVE c[i] = q.snapshot.chain[i]
    OBVIOUS
  <2>1. CASE i = h
    BY <1>7, <2>1 DEF b, c
  <2>2. CASE i # h
    <3>1. i \in 1..Len(q.chain)
      BY <1>3, <1>7, <2>2 DEF c
    <3>. QED  BY <1>3, <1>7, <3>1 DEF c
  <2>. QED  BY <2>1, <2>2
<1>11. Asked(v)
  <2>1. Len(c) <= q.height
    BY <1>1, <1>7 DEF c
  <2>. QED  BY <1>3, <1>9, <1>10, <2>1 DEF Asked
<1>. QED  BY <1>2, <1>6, <1>9, <1>11, ReadsKeeps

\* All blocks are read: the chain is the one of the snapshot, and the outputs to
\* fetch are those the snapshot lists for the address.
LEMMA AddressKeeps ==
  ASSUME IInv, NEW t \in Readers, ReadAddress(t)
  PROVE  IInv'
<1> DEFINE q == r[t]
           S == q.snapshot.addresses[q.address]
           v == [q EXCEPT !.pc = "utxos", !.left = S]
<1>1. q.pc = "heights" /\ Len(q.chain) = q.height /\ Reads(t, v)
  BY DEF ReadAddress, Source
<1>2. /\ q \in QueryType /\ Asked(q) /\ Committed(q.snapshot) /\ q.snapshot \in StateType
      /\ Sound(q.snapshot)
  BY <1>1, QuerySound
<1>3. /\ q.chain \in Seq(Blocks) /\ q.snapshot.chain \in Seq(Blocks)
      /\ Len(q.chain) = Len(q.snapshot.chain)
      /\ q.got = {} /\ \A i \in 1..Len(q.chain) : q.chain[i] = q.snapshot.chain[i]
      /\ q.address \in Addresses
  BY <1>1, <1>2 DEF Asked, QueryType, StateType
<1>4. q.chain = q.snapshot.chain
  BY <1>3
<1>5. S = Memory!get_utxos_for_address(q.snapshot.utxos, q.address)
  BY <1>2, <1>3 DEF Sound, Indexed
<1>6. S \in SUBSET OutPoints
  BY <1>5 DEF Memory!get_utxos_for_address
<1> HIDE DEF S
<1>7. /\ v \in QueryType /\ v.snapshot = q.snapshot /\ v.pc = "utxos"
      /\ v.chain = q.chain /\ v.got = q.got /\ v.left = S /\ v.address = q.address
  BY <1>2, <1>6 DEF QueryType
<1> HIDE DEF v
<1>8. Asked(v)
  BY <1>3, <1>4, <1>5, <1>7 DEF Asked
<1>. QED  BY <1>1, <1>2, <1>7, <1>8, ReadsKeeps

\* One output of the address: the snapshot has it, with that owner.
LEMMA OutputKeeps ==
  ASSUME IInv, NEW t \in Readers, NEW o, get_utxo(t, o)
  PROVE  IInv'
<1> DEFINE q == r[t]
           v == [q EXCEPT !.left = @ \ {o}, !.got = @ \cup {o}]
<1>1. q.pc = "utxos" /\ o \in q.left
  BY DEF get_utxo
<1>2. /\ q \in QueryType /\ Asked(q) /\ Committed(q.snapshot)
  BY <1>1, QuerySound
<1>3. q.left \cup q.got = Memory!get_utxos_for_address(q.snapshot.utxos, q.address)
  BY <1>1, <1>2 DEF Asked
<1>4. q.snapshot.utxos[o] = q.address
  BY <1>1, <1>3 DEF Memory!get_utxos_for_address
<1>5. Reads(t, v)
  BY <1>4, Zenon DEF get_utxo, Source
<1>6. /\ v \in QueryType /\ v.snapshot = q.snapshot /\ v.pc = "utxos"
      /\ v.chain = q.chain /\ v.got = q.got \cup {o} /\ v.left = q.left \ {o}
      /\ v.address = q.address
  BY <1>1, <1>2 DEF QueryType
<1> HIDE DEF v
<1>7. v.left \cup v.got = q.left \cup q.got
  BY <1>1, <1>6
<1>8. v.chain = v.snapshot.chain
  BY <1>1, <1>2, <1>6 DEF Asked
<1>9. Asked(v)
  BY <1>3, <1>6, <1>7, <1>8 DEF Asked
<1>. QED  BY <1>2, <1>5, <1>6, <1>9, ReadsKeeps

\* A query ends, refused or answered.
LEMMA QueryEndKeeps ==
  ASSUME IInv, NEW t \in Readers, ReadRefused(t) \/ Release(t)
  PROVE  IInv'
<1>1. Reads(t, NoQuery)
  BY DEF ReadRefused, Release
<1>. QED  BY <1>1, ReadsKeeps

\* A fault of the backend during a read.
LEMMA ReadFaultKeeps ==
  ASSUME IInv, NEW t \in Readers, ReadFails(t)
  PROVE  IInv'
<1> DEFINE q == r[t]
           v == [q EXCEPT !.pc = AfterMark]
<1>1. /\ q.pc \in {"tip", "heights", "utxos"} /\ failed' = TRUE /\ fault' = TRUE
      /\ notified' = notified
      /\ UNCHANGED <<log, disk, lock, poisoned, handler, w, late, restarts>>
  BY DEF ReadFails, ReaderFails, mark_failed, Reading
<1>2. r \in [Readers -> QueryType \cup {NoQuery}]
  BY DEF IInv, ReadersInv
<1>3. r' = [r EXCEPT ![t] = v]
  BY <1>2 DEF ReadFails, ReaderFails
<1>4. q \in QueryType /\ Committed(q.snapshot)
  BY <1>1, QuerySound
<1>5. AfterMark \in {"notify", "leave"}
  BY DEF AfterMark
<1>6. v \in QueryType /\ v.pc = AfterMark /\ v.snapshot = q.snapshot
  BY <1>4, <1>5 DEF QueryType
<1> HIDE DEF v
<1>7. Asked(v)
  BY <1>5, <1>6 DEF Asked
<1>8. notified' \in BOOLEAN
  BY <1>1 DEF IInv, FlagsInv
<1>. QED  BY <1>1, <1>3, <1>4, <1>6, <1>7, <1>8, QueryFrame

\* The failure handler runs in a reader.
LEMMA ReaderNotifies ==
  ASSUME IInv, NEW t \in Readers, NotifyReader(t)
  PROVE  IInv'
<1>1. /\ r' = [r EXCEPT ![t] = NoQuery] /\ failed' = failed /\ fault' = fault
      /\ notified' = (notified \/ handler # "none")
      /\ UNCHANGED <<log, disk, lock, poisoned, handler, w, late, restarts>>
  BY DEF NotifyReader, Notified
<1>2. /\ failed' \in BOOLEAN /\ fault' \in BOOLEAN
      /\ failed => failed'
      /\ failed' => fault'
      /\ notified' \in BOOLEAN
  BY <1>1 DEF IInv, FlagsInv
<1>3. NoQuery.pc = "idle"
  BY DEF NoQuery
<1>. QED  BY <1>1, <1>2, <1>3, QueryFrame

----------------------------------------------------------------------------
(***************************************************************************)
(* The failure handler, the end of the process, and all steps together.    *)
(***************************************************************************)

\* A step of the operating system or of the registration of the handler.
LEMMA OutsideFrame ==
  ASSUME IInv, UNCHANGED <<log, failed, lock, poisoned, w, r, fault, late, restarts>>,
         disk' \in 1..Len(log), handler' \in {"none", "inserted", "checked"},
         notified' \in BOOLEAN
  PROVE  IInv'
<1>1. /\ log' = log /\ failed' = failed /\ lock' = lock /\ poisoned' = poisoned
      /\ w' = w /\ r' = r /\ fault' = fault /\ late' = late /\ restarts' = restarts
  OBVIOUS
<1>2. LogInv'
  BY <1>1, Zenon DEF IInv, LogInv, Sound, Indexed, Busy
<1>3. WritersInv'
  <2>1. Db' = Db
    BY <1>1 DEF Db
  <2>. QED  BY <1>1, <2>1 DEF IInv, WritersInv
<1>4. ReadersInv'
  BY <1>1, Zenon DEF IInv, ReadersInv, Committed
<1>5. FlagsInv'
  BY <1>1 DEF IInv, FlagsInv
<1>. QED  BY <1>2, <1>3, <1>4, <1>5 DEF IInv

\* The registration of the handler and the write-back of the log.
LEMMA OutsideKeeps ==
  ASSUME IInv, InsertHandler \/ CheckHandler \/ WriteBack
  PROVE  IInv'
<1>1. /\ UNCHANGED <<log, failed, lock, poisoned, w, r, fault, late, restarts>>
      /\ handler' \in {"none", "inserted", "checked"} /\ notified' \in BOOLEAN
  BY DEF InsertHandler, CheckHandler, WriteBack, IInv, FlagsInv, is_failed
<1>2. disk \in 1..Len(log) /\ Len(log) \in Nat
  BY DEF IInv, LogInv
<1>3. disk' \in 1..Len(log)
  BY <1>2 DEF InsertHandler, CheckHandler, WriteBack
<1>. QED  BY <1>1, <1>3, OutsideFrame

\* No writer is in an update: nothing is staged.
LEMMA IdleWriters ==
  w = [t \in Writers |-> NoUpdate] /\ lock = NoOne
    => WritersInv /\ Cardinality(Busy) = 0
<1> SUFFICES ASSUME w = [t \in Writers |-> NoUpdate], lock = NoOne
             PROVE  WritersInv /\ Cardinality(Busy) = 0
  OBVIOUS
<1>1. \A t \in Writers : w[t].pc = "idle"
  BY DEF NoUpdate
<1>2. Busy = {}
  BY <1>1 DEF Busy
<1>3. WritersInv
  <2>1. w \in [Writers -> UpdateType \cup {NoUpdate}]
    OBVIOUS
  <2>2. \A t \in Writers : lock = t <=> w[t].pc \notin {"idle", "lock"}
    BY <1>1, TransitionsAssumption
  <2>. QED  BY <1>1, <2>1, <2>2 DEF WritersInv
<1>. QED  BY <1>1, <1>2, <1>3, FS_EmptySet

\* No reader is in a query.
LEMMA IdleReaders ==
  r = [t \in Readers |-> NoQuery] => ReadersInv
<1> SUFFICES ASSUME r = [t \in Readers |-> NoQuery]
             PROVE  ReadersInv
  OBVIOUS
<1>1. \A t \in Readers : r[t].pc = "idle"
  BY DEF NoQuery
<1>. QED  BY <1>1 DEF ReadersInv

\* The initial states.
LEMMA InitInv ==
  ASSUME Init
  PROVE  IInv
<1>1. /\ log = <<Genesis>> /\ disk = 1 /\ failed = FALSE /\ lock = NoOne /\ poisoned = FALSE
      /\ handler = "none" /\ notified = FALSE
      /\ w = [t \in Writers |-> NoUpdate] /\ r = [t \in Readers |-> NoQuery]
      /\ fault = FALSE /\ late = 0 /\ restarts = 0
  BY DEF Init
<1>2. WritersInv /\ Cardinality(Busy) = 0 /\ ReadersInv
  BY <1>1, IdleWriters, IdleReaders
<1>3. Genesis \in StateType
  BY TransitionsAssumption DEF Genesis, StateType, Indexed, Memory!get_utxos_for_address
<1>4. Sound(Genesis)
  <2>1. /\ Genesis.addresses = Indexed(Genesis.utxos) /\ Genesis.chain = <<GenesisBlock>>
        /\ Genesis.blocks = {GenesisBlock}
    BY DEF Genesis
  <2>. QED  BY <2>1 DEF Sound
<1>5. /\ log \in Seq(StateType) /\ Len(log) = 1 /\ log[1] = Genesis
  BY <1>1, <1>3
<1>6. LogInv
  BY <1>1, <1>2, <1>4, <1>5, TransitionsAssumption DEF LogInv
<1>7. FlagsInv
  <2>1. MaxRestarts \in Nat
    BY TransitionsAssumption, Zenon
  <2>2. late \in Nat /\ late <= 1 /\ late # 1 /\ restarts \in 0..MaxRestarts
    BY <1>1, <2>1
  <2>. QED  BY <1>1, <2>2, Zenon DEF FlagsInv
<1>. QED  BY <1>2, <1>6, <1>7 DEF IInv

\* The process ends and the database is opened again.
LEMMA ReopenedKeeps ==
  ASSUME IInv, NEW kept \in 1..Len(log), Reopened(kept)
  PROVE  IInv'
<1>1. /\ restarts < MaxRestarts /\ restarts' = restarts + 1
      /\ log' = SubSeq(log, 1, kept) /\ disk' = kept
      /\ failed' = FALSE /\ lock' = NoOne /\ poisoned' = FALSE
      /\ handler' = "none" /\ notified' = FALSE
      /\ w' = [t \in Writers |-> NoUpdate] /\ r' = [t \in Readers |-> NoQuery]
      /\ fault' = FALSE /\ late' = 0
  BY DEF Reopened
<1>2. /\ log \in Seq(StateType) /\ \A i \in 1..Len(log) : Sound(log[i])
      /\ Len(log) + Cardinality(Busy) <= MaxCommits + 1
      /\ kept \in Nat /\ kept > 0 /\ kept <= Len(log)
  BY DEF IInv, LogInv
<1>3. /\ log' \in Seq(StateType) /\ Len(log') = kept
      /\ \A i \in 1..kept : log'[i] = log[i]
  BY <1>1, <1>2
<1>4. WritersInv' /\ (Cardinality(Busy) = 0)' /\ ReadersInv'
  <2>1. (w = [t \in Writers |-> NoUpdate] /\ lock = NoOne)'
    BY <1>1
  <2>2. (r = [t \in Readers |-> NoQuery])'
    BY <1>1
  <2>. QED  BY <2>1, <2>2, IdleWriters, IdleReaders, PTL
<1>5. Cardinality(Busy) \in Nat
  BY TransitionsAssumption, FS_Subset, FS_CardinalityType DEF Busy
<1>6. LogInv'
  <2>1. \A i \in 1..Len(log') : Sound(log'[i])
    BY <1>2, <1>3
  <2>2. Len(log') + Cardinality(Busy') <= MaxCommits + 1
    BY <1>2, <1>3, <1>4, <1>5, TransitionsAssumption
  <2>. QED  BY <1>1, <1>2, <1>3, <2>1, <2>2 DEF LogInv
<1>7. FlagsInv'
  <2>0. MaxRestarts \in Nat
    BY TransitionsAssumption, Zenon
  <2>1. restarts' \in 0..MaxRestarts
    BY <1>1, <2>0 DEF IInv, FlagsInv
  <2>2. late' \in Nat /\ late' <= 1 /\ late' # 1
    BY <1>1
  <2>. QED  BY <1>1, <2>1, <2>2, Zenon DEF FlagsInv
<1>. QED  BY <1>4, <1>6, <1>7 DEF IInv

\* Every step keeps the invariant.
LEMMA NextInv ==
  ASSUME IInv, [Next]_vars
  PROVE  IInv'
<1>1. ASSUME NEW t \in Writers, Update(t) PROVE IInv'
  BY <1>1, LockKeeps, LeaveKeeps, StageKeeps, RemoveKeeps, EndsKeep, PutKeeps, CheckKeeps,
     CommitKeeps, NotifyKeeps DEF Update
<1>2. ASSUME NEW t \in Writers, BackendFails(t) \/ Panic(t) \/ (\E d \in Transitions : Begin(t, d))
      PROVE  IInv'
  BY <1>2, FaultsKeep, BeginKeeps
<1>3. ASSUME NEW t \in Readers, Query(t) PROVE IInv'
  BY <1>3, QueryEndKeeps, TipKeeps, BlockKeeps, AddressKeeps, OutputKeeps, ReaderNotifies DEF Query
<1>4. ASSUME NEW t \in Readers, ReadFails(t) \/ (\E a \in Addresses : Read(t, a)) PROVE IInv'
  BY <1>4, ReadFaultKeeps, ReadKeeps
<1>5. CASE InsertHandler \/ CheckHandler \/ WriteBack
  BY <1>5, OutsideKeeps
<1>6. CASE ProcessDies \/ PowerFails
  <2>1. disk \in 1..Len(log) /\ Len(log) \in Nat /\ Len(log) > 0
    BY DEF IInv, LogInv
  <2>2. \E kept \in 1..Len(log) : Reopened(kept)
    BY <1>6, <2>1 DEF ProcessDies, PowerFails
  <2>. QED  BY <2>2, ReopenedKeeps
<1>7. CASE UNCHANGED vars
  <2>1. UNCHANGED <<log, failed, lock, poisoned, w, r, fault, late, restarts>>
        /\ disk' = disk /\ handler' = handler /\ notified' = notified
    BY <1>7 DEF vars
  <2>2. disk \in 1..Len(log) /\ handler \in {"none", "inserted", "checked"} /\ notified \in BOOLEAN
    BY DEF IInv, LogInv, FlagsInv
  <2>. QED  BY <2>1, <2>2, OutsideFrame, Zenon
<1>. QED  BY <1>1, <1>2, <1>3, <1>4, <1>5, <1>6, <1>7, Zenon DEF Next

\* The invariant holds in every state of every behaviour.
THEOREM Invariance == Spec => []IInv
<1>1. Init => IInv
  BY InitInv
<1>2. IInv /\ [Next]_vars => IInv'
  BY NextInv
<1>. QED  BY <1>1, <1>2, PTL DEF Spec

----------------------------------------------------------------------------
(***************************************************************************)
(* The theorems.                                                           *)
(***************************************************************************)

\* The record of one thread has its type.
LEMMA ThreadTypes ==
  ASSUME IInv
  PROVE  /\ \A t \in Writers : UpdateOK(w[t])
         /\ \A t \in Readers : QueryOK(r[t])
<1>1. ASSUME NEW t \in Writers PROVE UpdateOK(w[t])
  <2>1. CASE w[t].pc = "idle"
    BY <2>1, BusyUpdate DEF IInv, UpdateOK
  <2>2. CASE w[t].pc # "idle"
    <3>1. w[t] \in UpdateType
      BY <2>2, BusyUpdate DEF IInv
    <3>2. DOMAIN w[t].kept \subseteq Addresses
      <4>1. w[t].kept \in KeptType
        BY <3>1 DEF UpdateType
      <4>. QED  BY <4>1 DEF KeptType
    <3>. QED  BY <3>1, <3>2 DEF UpdateType, UpdateOK
  <2>. QED  BY <2>1, <2>2
<1>2. ASSUME NEW t \in Readers PROVE QueryOK(r[t])
  <2>1. r[t] \in QueryType \cup {NoQuery}
    BY DEF IInv, ReadersInv
  <2>. QED  BY <2>1 DEF QueryType, QueryOK
<1>. QED  BY <1>1, <1>2

\* Type correctness: among the rest, the lock is held exactly by the writer that
\* is past it, and the bound on the commits is kept by Begin's guard alone.
THEOREM TypeCorrectness == Spec => []TypeOK
<1>1. IInv => TypeOK
  <2> SUFFICES ASSUME IInv PROVE TypeOK
    OBVIOUS
  <2>1. Len(log) \in 1..(MaxCommits + 1) /\ (\A i \in 1..Len(log) : log[i] \in StateType)
        /\ disk \in 1..Len(log)
    <3>1. Cardinality(Busy) \in Nat
      BY TransitionsAssumption, FS_Subset, FS_CardinalityType DEF Busy
    <3>2. MaxCommits \in Nat
      BY TransitionsAssumption, Zenon
    <3>3. /\ log \in Seq(StateType) /\ Len(log) > 0
          /\ Len(log) + Cardinality(Busy) <= MaxCommits + 1 /\ disk \in 1..Len(log)
      BY DEF IInv, LogInv
    <3>. QED  BY <3>1, <3>2, <3>3
  <2>2. \A t \in Writers : UpdateOK(w[t]) /\ (lock = t <=> w[t].pc \notin {"idle", "lock"})
    BY ThreadTypes, Zenon DEF IInv, WritersInv
  <2>3. \A t \in Readers : QueryOK(r[t])
    BY ThreadTypes
  <2>. QED  BY <2>1, <2>2, <2>3, Zenon DEF TypeOK, IInv, WritersInv, FlagsInv
<1>. QED  BY <1>1, Invariance, PTL

\* In every committed state the addresses table is the index of the utxo table,
\* for every set of transitions and every interleaving of the batches.
THEOREM IndexExactness == Spec => []AddressIndexExact
<1>1. IInv => AddressIndexExact
  BY DEF IInv, LogInv, Sound, AddressIndexExact
<1>. QED  BY <1>1, Invariance, PTL

\* The storage never reports a corruption of its own making: it fails only after
\* a fault of the backend or a panic.
THEOREM FailsOnlyAfterFault == Spec => []HealthyUnlessFault
<1>1. IInv => HealthyUnlessFault
  BY DEF IInv, FlagsInv, HealthyUnlessFault, is_failed
<1>. QED  BY <1>1, Invariance, PTL

\* A finished query saw one committed state.
THEOREM SnapshotIsolation == Spec => []ReadsOneState
<1>1. IInv => ReadsOneState
  <2> SUFFICES ASSUME IInv, NEW t \in Readers, Answered(t)
               PROVE  \E i \in 1..Len(log) :
                        /\ log[i].chain = r[t].chain
                        /\ Memory!get_utxos_for_address(log[i].utxos, r[t].address) = r[t].got
    BY DEF ReadsOneState
  <2>1. r[t].pc = "utxos" /\ r[t].left = {}
    BY DEF Answered
  <2>2. Asked(r[t]) /\ Committed(r[t].snapshot)
    BY <2>1, QuerySound
  <2>3. /\ r[t].chain = r[t].snapshot.chain
        /\ r[t].got = Memory!get_utxos_for_address(r[t].snapshot.utxos, r[t].address)
    BY <2>1, <2>2 DEF Asked
  <2>. QED  BY <2>2, <2>3, Zenon DEF Committed
<1>. QED  BY <1>1, Invariance, PTL

\* At most one transition is committed after the failure flag is set.
THEOREM FailureStopsWriters == Spec => []StopsWriting
<1>1. IInv => StopsWriting
  BY DEF IInv, FlagsInv, StopsWriting
<1>. QED  BY <1>1, Invariance, PTL

\* Only a commit and a power failure change the database.
LEMMA DatabaseSteps ==
  ASSUME IInv, [Next]_vars, ~PowerFails
  PROVE  log' = log \/ \E t \in Writers : Commit(t)
<1>1. ASSUME NEW t \in Writers, Update(t), ~Commit(t) PROVE log' = log
  BY <1>1 DEF Update, Lock, LockRefused, Stage, RemoveUtxo, EndRemove, PutUtxo, EndPut, CheckHealth,
              NotifyWriter, Leave, Refused, Corrupt, Goes, Staging
<1>2. ASSUME NEW t \in Writers, BackendFails(t) \/ Panic(t) \/ (\E d \in Transitions : Begin(t, d))
      PROVE  log' = log
  BY <1>2 DEF BackendFails, Panic, Begin, Staging
<1>3. ASSUME NEW t \in Readers, Query(t) PROVE log' = log
  BY <1>3 DEF Query, ReadRefused, chain_state, get_block_by_height, ReadAddress, get_utxo,
              Release, NotifyReader, Reads, Reading
<1>4. ASSUME NEW t \in Readers, ReadFails(t) \/ (\E a \in Addresses : Read(t, a)) PROVE log' = log
  BY <1>4 DEF ReadFails, Read, Reads, Reading
<1>5. CASE InsertHandler \/ CheckHandler \/ WriteBack
  BY <1>5 DEF InsertHandler, CheckHandler, WriteBack
<1>6. CASE ProcessDies
  <2>1. log' = SubSeq(log, 1, Len(log)) /\ log \in Seq(StateType)
    BY <1>6 DEF ProcessDies, Reopened, IInv, LogInv
  <2>. QED  BY <2>1
<1>7. CASE UNCHANGED vars
  BY <1>7 DEF vars
<1>. QED  BY <1>1, <1>2, <1>3, <1>4, <1>5, <1>6, <1>7, Zenon DEF Next

\* A commit is one transition of the in-memory backend.
LEMMA CommitImplements ==
  ASSUME IInv, NEW t \in Writers, Commit(t)
  PROVE  Memory!Next
<1> DEFINE u == w[t]
           d == u.op
<1>1. Locked(t) /\ u.pc = "commit" /\ log' = Append(log, u.view)
  BY DEF Commit
<1>2. u \in UpdateType /\ Staged(u, Db)
  BY <1>1, HolderStaged DEF IInv
<1>3. /\ Memory!Tip(Db.chain) = d.head /\ Memory!Canonical(Db.chain, d.base)
      /\ \A i \in 1..Len(d.removed) : Db.utxos[d.removed[i]] # NoOne
      /\ AsMemory(u.view) = Result(d, Db)
  BY <1>1, <1>2 DEF Staged, Complete, Prepared, AllRemoved
<1>4. d \in Transitions
  BY <1>2 DEF UpdateType
<1>5. Db' = u.view
  <2>1. log \in Seq(StateType) /\ u.view \in StateType
    BY <1>2 DEF IInv, LogInv, UpdateType
  <2>2. Len(log') = Len(log) + 1 /\ log'[Len(log) + 1] = u.view
    BY <1>1, <2>1
  <2>. QED  BY <2>2 DEF Db
<1>6. /\ AsMemory(Db).chain = Db.chain /\ AsMemory(Db).blocks = Db.blocks
      /\ AsMemory(Db).utxos = Db.utxos
  BY DEF AsMemory
<1>7. AsMemory(Db)' = AsMemory(u.view)
  BY <1>5 DEF AsMemory
<1>8. Memory!apply_transition(d)
  BY <1>3, <1>6, <1>7, Zenon DEF Memory!apply_transition, Result
<1>. QED  BY <1>4, <1>8 DEF Memory!Next

\* The RocksDB backend implements the in-memory one: every step but a power
\* failure is one of its transitions or leaves its state alone.
THEOREM BackendRefinement == Spec => ImplementsMemory
<1>1. IInv /\ [Next]_vars => [~PowerFails => Memory!Next \/ UNCHANGED AsMemory(Db)]_vars
  <2> SUFFICES ASSUME IInv, [Next]_vars, ~PowerFails
               PROVE  Memory!Next \/ UNCHANGED AsMemory(Db)
    OBVIOUS
  <2>1. CASE log' = log
    BY <2>1 DEF Db, AsMemory
  <2>2. CASE \E t \in Writers : Commit(t)
    BY <2>2, CommitImplements
  <2>. QED  BY <2>1, <2>2, DatabaseSteps
<1>. QED  BY <1>1, Invariance, PTL DEF Spec, ImplementsMemory
=============================================================================
