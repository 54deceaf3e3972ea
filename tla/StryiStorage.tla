---------------------------- MODULE StryiStorage ----------------------------
(***************************************************************************)
(* The RocksDB backend of the chain.  Threads that call update stage their *)
(* writes in a transaction under one writer lock; threads that read hold a *)
(* snapshot.  Every unspent output is also listed under its owner in the   *)
(* addresses table, whose sets a batch reads once, changes locally and     *)
(* writes at its end.  A disagreement between the two tables, a backend    *)
(* error, a failed commit or a panic stops the storage for good and calls  *)
(* the failure handler.  Commits are not synced: a crash of the process    *)
(* loses none, a power failure any suffix that is not on disk yet.         *)
(***************************************************************************)
EXTENDS Naturals, Sequences, FiniteSets

CONSTANTS
  Blocks,        \* block hashes
  OutPoints,     \* keys of the utxo table
  Addresses,     \* keys of the addresses table
  NoOne,         \* the owner of an output that is not unspent
  Transitions,   \* what apply_transition is called with
  GenesisBlock,  \* the first canonical block
  GenesisOwner,  \* the allocations of the genesis block
  Writers,       \* threads that call apply_transition
  Readers,       \* threads that hold a snapshot
  MaxCommits,    \* bound on the committed transitions
  MaxRestarts    \* bound on the ends of the process

VARIABLES
  log,       \* the committed states; the last one is the database
  disk,      \* how many of them would survive a power failure
  failed,    \* StorageInner.failed
  lock,      \* the holder of StorageInner.writer
  poisoned,  \* a holder of the lock panicked
  handler,   \* set_failure_handler: none, inserted, then checked
  notified,  \* the failure handler has run
  w,         \* the update that each writer is in
  r,         \* the query that each reader is in
  fault,     \* history: something failed outside of this code
  late,      \* history: commits that followed the failure
  restarts   \* ends of the process so far

vars == <<log, disk, failed, lock, poisoned, handler, notified, w, r, fault, late, restarts>>

Db == log[Len(log)]

\* What the in-memory backend would hold.
AsMemory(s) == [chain |-> s.chain, blocks |-> s.blocks, utxos |-> s.utxos]

Memory == INSTANCE MemoryStorage WITH data <- AsMemory(Db)

ASSUME TransitionsAssumption ==
  /\ NoOne \notin Addresses \cup Writers
  /\ GenesisBlock \in Blocks
  /\ GenesisOwner \in [OutPoints -> Addresses \cup {NoOne}]
  /\ \A d \in Transitions : d \in Memory!TransitionType
  /\ IsFiniteSet(Writers)
  /\ MaxCommits \in Nat /\ MaxRestarts \in Nat

\* Mutant: only the poison of the lock is looked at.
is_poisoned == poisoned

is_failed == failed \/ poisoned

Empty == [a \in {} |-> {}]

Indexed(utxos) == [a \in Addresses |-> Memory!get_utxos_for_address(utxos, a)]

Genesis ==
  [chain |-> <<GenesisBlock>>, blocks |-> {GenesisBlock},
   utxos |-> GenesisOwner, addresses |-> Indexed(GenesisOwner)]

NoUpdate == [pc |-> "idle"]
NoQuery == [pc |-> "idle"]

\* The database with its genesis, as open_database and stage_genesis leave it.
Init ==
  /\ log = <<Genesis>> /\ disk = 1
  /\ failed = FALSE /\ lock = NoOne /\ poisoned = FALSE
  /\ handler = "none" /\ notified = FALSE
  /\ w = [t \in Writers |-> NoUpdate]
  /\ r = [t \in Readers |-> NoQuery]
  /\ fault = FALSE /\ late = 0 /\ restarts = 0
-----------------------------------------------------------------------------
(* Failure *)

\* mark_failed: only the thread whose swap set the flag goes on to the handler.
AfterMark == IF failed THEN "leave" ELSE "notify"

mark_failed == failed' = TRUE

WriterFails(t, exit) ==
  /\ mark_failed
  /\ w' = [w EXCEPT ![t] = [@ EXCEPT !.pc = AfterMark, !.exit = exit]]

ReaderFails(t) ==
  /\ mark_failed
  /\ r' = [r EXCEPT ![t] = [@ EXCEPT !.pc = AfterMark]]

Notified == notified' = (notified \/ handler # "none")

NotifyWriter(t) ==
  /\ w[t].pc = "notify"
  /\ Notified
  /\ w' = [w EXCEPT ![t].pc = "leave"]
  /\ UNCHANGED <<log, disk, failed, lock, poisoned, handler, r, fault, late, restarts>>

NotifyReader(t) ==
  /\ r[t].pc = "notify"
  /\ Notified
  /\ r' = [r EXCEPT ![t] = NoQuery]
  /\ UNCHANGED <<log, disk, failed, lock, poisoned, handler, w, fault, late, restarts>>

\* set_failure_handler: the handler is in its place before the flag is read.
InsertHandler ==
  /\ handler = "none"
  /\ handler' = "inserted"
  /\ UNCHANGED <<log, disk, failed, lock, poisoned, notified, w, r, fault, late, restarts>>

\* Mutant: a failure that came before the registration is not looked for.
CheckNothing ==
  /\ handler = "inserted"
  /\ handler' = "checked"
  /\ UNCHANGED <<log, disk, failed, lock, poisoned, notified, w, r, fault, late, restarts>>

CheckHandler ==
  /\ handler = "inserted"
  /\ handler' = "checked"
  /\ notified' = (notified \/ is_failed)
  /\ UNCHANGED <<log, disk, failed, lock, poisoned, w, r, fault, late, restarts>>
-----------------------------------------------------------------------------
(* update *)

Locked(t) == lock = t /\ w[t].pc \notin {"notify", "leave"}

\* Every step inside the lock touches only the update of its own thread.
Staging == UNCHANGED <<log, disk, lock, poisoned, handler, notified, r, late, restarts>>

Goes(t, u) ==
  /\ w' = [w EXCEPT ![t] = u]
  /\ UNCHANGED <<failed, fault>>
  /\ Staging

\* An error that is not fatal rolls the transaction back.
Refused(t) == Goes(t, [w[t] EXCEPT !.pc = "leave", !.exit = "error"])

\* raw_get refuses once the storage has failed, report_corruption makes it fail.
Corrupt(t) == WriterFails(t, "error") /\ UNCHANGED fault /\ Staging

Begin(t, d) ==
  /\ w[t].pc = "idle"
  /\ ~is_failed
  /\ Len(log) + Cardinality({u \in Writers : w[u].pc # "idle"}) <= MaxCommits
  /\ w' = [w EXCEPT ![t] =
       [pc |-> "lock", op |-> d, view |-> Genesis, kept |-> Empty, left |-> <<>>, exit |-> "none"]]
  /\ UNCHANGED <<failed, fault>> /\ Staging

Lock(t) ==
  /\ w[t].pc = "lock" /\ lock = NoOne
  /\ ~is_failed
  /\ lock' = t
  /\ w' = [w EXCEPT ![t] = [@ EXCEPT !.pc = "stage", !.view = Db]]
  /\ UNCHANGED <<log, disk, failed, poisoned, handler, notified, r, fault, late, restarts>>

LockRefused(t) ==
  /\ w[t].pc = "lock" /\ lock = NoOne
  /\ is_failed
  /\ failed' = (failed \/ poisoned)
  /\ w' = [w EXCEPT ![t] = NoUpdate]
  /\ UNCHANGED <<log, disk, lock, poisoned, handler, notified, r, fault, late, restarts>>

\* Mutant: the tip may have moved since the transition was prepared.
StageAnyTip(t) ==
  LET u == w[t] IN
  /\ Locked(t) /\ u.pc = "stage"
  /\ IF ~is_failed /\ Memory!Canonical(u.view.chain, u.op.base)
     THEN Goes(t, [u EXCEPT !.pc = "remove", !.left = u.op.removed,
                            !.view.chain = Memory!Spliced(@, [u.op EXCEPT !.blocks = <<>>])])
     ELSE Refused(t)

\* Append and Reorganize both name the tip they were prepared on.
Stage(t) ==
  LET u == w[t] IN
  /\ Locked(t) /\ u.pc = "stage"
  /\ IF ~is_failed /\ Memory!Tip(u.view.chain) = u.op.head /\ Memory!Canonical(u.view.chain, u.op.base)
     THEN Goes(t, [u EXCEPT !.pc = "remove", !.left = u.op.removed,
                            !.view.chain = Memory!Spliced(@, [u.op EXCEPT !.blocks = <<>>])])
     ELSE Refused(t)

\* Mutant: the set is read from the table again for every output.
MembershipReread(u, a) == u.view.addresses[a]

Membership(u, a) == IF a \in DOMAIN u.kept THEN u.kept[a] ELSE u.view.addresses[a]

Keep(kept, a, S) == [b \in DOMAIN kept \cup {a} |-> IF b = a THEN S ELSE kept[b]]

RemoveUtxo(t) ==
  LET u == w[t]
      o == Head(u.left)
      owner == u.view.utxos[o]
  IN
  /\ Locked(t) /\ u.pc = "remove" /\ u.left # <<>>
  /\ IF is_failed \/ owner = NoOne THEN Refused(t)
     ELSE IF o \notin Membership(u, owner) THEN Corrupt(t)
     ELSE Goes(t, [u EXCEPT !.left = Tail(@),
                            !.kept = Keep(@, owner, Membership(u, owner) \ {o}),
                            !.view.utxos[o] = NoOne])

PutUtxo(t) ==
  LET u == w[t]
      o == Head(u.left)[1]
      owner == Head(u.left)[2]
      previous == u.view.utxos[o]
      moved == previous \notin {NoOne, owner}
      kept == IF moved THEN Keep(u.kept, previous, Membership(u, previous) \ {o}) ELSE u.kept
  IN
  /\ Locked(t) /\ u.pc = "put" /\ u.left # <<>>
  /\ IF is_failed THEN Refused(t)
     ELSE IF moved /\ o \notin Membership(u, previous) THEN Corrupt(t)
     ELSE Goes(t, [u EXCEPT !.left = Tail(@),
                            !.kept = Keep(kept, owner, Membership(u, owner) \cup {o}),
                            !.view.utxos[o] = owner])

\* The end of a batch writes the sets that it changed.
WriteMemberships(u) ==
  [u.view EXCEPT !.addresses =
     [a \in Addresses |-> IF a \in DOMAIN u.kept THEN u.kept[a] ELSE @[a]]]

EndRemove(t) ==
  LET u == w[t] IN
  /\ Locked(t) /\ u.pc = "remove" /\ u.left = <<>>
  /\ Goes(t, [u EXCEPT !.pc = "put", !.left = u.op.put, !.kept = Empty,
                       !.view = WriteMemberships(u)])

\* After the outputs, put_block for every block and put_chain_state.
EndPut(t) ==
  LET u == w[t] IN
  /\ Locked(t) /\ u.pc = "put" /\ u.left = <<>>
  /\ Goes(t, [u EXCEPT !.pc = "check", !.kept = Empty,
                       !.view = [WriteMemberships(u) EXCEPT
                                   !.chain = @ \o u.op.blocks,
                                   !.blocks = @ \cup {u.op.blocks[i] : i \in 1..Len(u.op.blocks)}]])

\* The last look at the flag; another thread may set it before the commit.
CheckHealth(t) ==
  /\ Locked(t) /\ w[t].pc = "check"
  /\ IF is_failed THEN Refused(t) ELSE Goes(t, [w[t] EXCEPT !.pc = "commit"])

Commit(t) ==
  /\ Locked(t) /\ w[t].pc = "commit"
  /\ log' = Append(log, w[t].view)
  /\ late' = IF failed THEN late + 1 ELSE late
  /\ lock' = NoOne
  /\ w' = [w EXCEPT ![t] = NoUpdate]
  /\ UNCHANGED <<disk, failed, poisoned, handler, notified, r, fault, restarts>>

\* The backend fails a read, a write or the commit, or a value does not decode.
BackendFails(t) ==
  /\ Locked(t) /\ w[t].pc # "check"
  /\ WriterFails(t, "error")
  /\ fault' = TRUE
  /\ Staging

\* Mutant: a panic only poisons the lock.
PanicUnmarked(t) ==
  /\ Locked(t) /\ w[t].pc \in {"stage", "remove", "put"}
  /\ w' = [w EXCEPT ![t] = [@ EXCEPT !.pc = "leave", !.exit = "panic"]]
  /\ fault' = TRUE
  /\ UNCHANGED failed
  /\ Staging

\* catch_unwind marks the failure, resume_unwind then poisons the lock.
Panic(t) ==
  /\ Locked(t) /\ w[t].pc \in {"stage", "remove", "put"}
  /\ WriterFails(t, "panic")
  /\ fault' = TRUE
  /\ Staging

Leave(t) ==
  /\ w[t].pc = "leave"
  /\ lock' = NoOne
  /\ poisoned' = (poisoned \/ w[t].exit = "panic")
  /\ w' = [w EXCEPT ![t] = NoUpdate]
  /\ UNCHANGED <<log, disk, failed, handler, notified, r, fault, late, restarts>>
-----------------------------------------------------------------------------
(* Reading *)

\* Mutant: the tables are read as they are now.
SourceLive(t) == Db

\* Every table is read through the snapshot that the view borrows.
Source(t) == r[t].snapshot

Reading == UNCHANGED <<log, disk, lock, poisoned, handler, notified, w, late, restarts>>

Reads(t, q) ==
  /\ r' = [r EXCEPT ![t] = q]
  /\ UNCHANGED <<failed, fault>>
  /\ Reading

Read(t, a) ==
  /\ r[t].pc = "idle"
  /\ ~is_failed
  /\ Reads(t, [pc |-> "tip", snapshot |-> Db, height |-> 0, chain |-> <<>>,
               address |-> a, left |-> {}, got |-> {}])

\* A read of a failed storage is an error, and the query ends with it.
ReadRefused(t) ==
  /\ r[t].pc \in {"tip", "heights", "utxos"}
  /\ is_failed
  /\ Reads(t, NoQuery)

chain_state(t) ==
  /\ r[t].pc = "tip" /\ ~is_failed
  /\ Reads(t, [r[t] EXCEPT !.pc = "heights", !.height = Len(Source(t).chain)])

\* blocks_range up to the tip: the hash of a height, then the body of the hash.
get_block_by_height(t) ==
  LET q == r[t]
      h == Len(q.chain) + 1
  IN
  /\ q.pc = "heights" /\ h <= q.height /\ ~is_failed
  /\ IF h > Len(Source(t).chain) THEN Reads(t, NoQuery)
     ELSE IF Source(t).chain[h] \notin Source(t).blocks
     THEN ReaderFails(t) /\ UNCHANGED fault /\ Reading
     ELSE Reads(t, [q EXCEPT !.chain = Append(@, Source(t).chain[h])])

\* Mutant: the outputs are read through a second snapshot.
ReadAddressAfresh(t) ==
  /\ r[t].pc = "heights" /\ Len(r[t].chain) = r[t].height /\ ~is_failed
  /\ Reads(t, [r[t] EXCEPT !.pc = "utxos", !.snapshot = Db, !.left = Db.addresses[r[t].address]])

ReadAddress(t) ==
  /\ r[t].pc = "heights" /\ Len(r[t].chain) = r[t].height /\ ~is_failed
  /\ Reads(t, [r[t] EXCEPT !.pc = "utxos", !.left = Source(t).addresses[r[t].address]])

\* A listed output that is absent or has another owner is a corruption.
get_utxo(t, o) ==
  /\ r[t].pc = "utxos" /\ o \in r[t].left /\ ~is_failed
  /\ IF Source(t).utxos[o] # r[t].address
     THEN ReaderFails(t) /\ UNCHANGED fault /\ Reading
     ELSE Reads(t, [r[t] EXCEPT !.left = @ \ {o}, !.got = @ \cup {o}])

Answered(t) == r[t].pc = "utxos" /\ r[t].left = {}

\* The closure that holds the view returns, and its snapshot is dropped.
Release(t) ==
  /\ Answered(t) \/ r[t].pc = "leave"
  /\ Reads(t, NoQuery)

ReadFails(t) ==
  /\ r[t].pc \in {"tip", "heights", "utxos"} /\ ~is_failed
  /\ ReaderFails(t)
  /\ fault' = TRUE
  /\ Reading
-----------------------------------------------------------------------------
(* The end of the process *)

Reopened(kept) ==
  /\ restarts < MaxRestarts
  /\ restarts' = restarts + 1
  /\ log' = SubSeq(log, 1, kept) /\ disk' = kept
  /\ failed' = FALSE /\ lock' = NoOne /\ poisoned' = FALSE
  /\ handler' = "none" /\ notified' = FALSE
  /\ w' = [t \in Writers |-> NoUpdate] /\ r' = [t \in Readers |-> NoQuery]
  /\ fault' = FALSE /\ late' = 0

\* The operating system still has the write-ahead log of a process that died.
ProcessDies == Reopened(Len(log))

PowerFails == \E kept \in disk..(Len(log) - 1) : Reopened(kept)

\* The operating system writes the log out in its own time.
WriteBack ==
  /\ disk < Len(log)
  /\ disk' = disk + 1
  /\ UNCHANGED <<log, failed, lock, poisoned, handler, notified, w, r, fault, late, restarts>>
-----------------------------------------------------------------------------
Update(t) ==
  \/ Lock(t) \/ LockRefused(t) \/ Stage(t)
  \/ RemoveUtxo(t) \/ EndRemove(t) \/ PutUtxo(t) \/ EndPut(t)
  \/ CheckHealth(t) \/ Commit(t) \/ NotifyWriter(t) \/ Leave(t)

\* A client of one read view. It makes the calls that the program's readers make,
\* the tip, the heights below it and one address, in a row: no handler makes all
\* of them, and each of them makes a part.
Query(t) ==
  \/ ReadRefused(t) \/ chain_state(t) \/ get_block_by_height(t)
  \/ ReadAddress(t) \/ (\E o \in OutPoints : get_utxo(t, o))
  \/ Release(t) \/ NotifyReader(t)

Next ==
  \/ \E t \in Writers :
       Update(t) \/ BackendFails(t) \/ Panic(t) \/ (\E d \in Transitions : Begin(t, d))
  \/ \E t \in Readers :
       Query(t) \/ ReadFails(t) \/ (\E a \in Addresses : Read(t, a))
  \/ InsertHandler \/ CheckHandler
  \/ ProcessDies \/ PowerFails \/ WriteBack

\* A thread that is inside a call goes on with it.
Fairness ==
  /\ \A t \in Writers : WF_vars(NotifyWriter(t))
  /\ \A t \in Readers : WF_vars(NotifyReader(t))
  /\ WF_vars(CheckHandler)

Spec == Init /\ [][Next]_vars /\ Fairness
-----------------------------------------------------------------------------
(* Properties *)

StateType ==
  [chain : Seq(Blocks), blocks : SUBSET Blocks,
   utxos : [OutPoints -> Addresses \cup {NoOne}], addresses : [Addresses -> SUBSET OutPoints]]

UpdateOK(u) ==
  \/ u = NoUpdate
  \/ /\ u.pc \in {"lock", "stage", "remove", "put", "check", "commit", "notify", "leave"}
     /\ u.op \in Transitions
     /\ u.view \in StateType
     /\ DOMAIN u.kept \subseteq Addresses
     /\ u.exit \in {"none", "error", "panic"}

QueryOK(q) ==
  \/ q = NoQuery
  \/ /\ q.pc \in {"tip", "heights", "utxos", "notify", "leave"}
     /\ q.snapshot \in StateType
     /\ q.address \in Addresses
     /\ q.left \in SUBSET OutPoints /\ q.got \in SUBSET OutPoints

\* Type invariant: the lock is held exactly by the writer that is past it, and
\* a poisoned lock implies the failure flag (update marks before it unwinds).
TypeOK ==
  /\ Len(log) \in 1..(MaxCommits + 1) /\ \A i \in 1..Len(log) : log[i] \in StateType
  /\ disk \in 1..Len(log)
  /\ failed \in BOOLEAN /\ poisoned \in BOOLEAN /\ (poisoned => failed)
  /\ \A t \in Writers : UpdateOK(w[t]) /\ (lock = t <=> w[t].pc \notin {"idle", "lock"})
  /\ lock \in Writers \cup {NoOne}
  /\ \A t \in Readers : QueryOK(r[t])
  /\ handler \in {"none", "inserted", "checked"} /\ notified \in BOOLEAN
  /\ fault \in BOOLEAN /\ late \in Nat /\ restarts \in 0..MaxRestarts

\* In every committed state the addresses table lists an output under an
\* address exactly when the utxo table says the address owns it, although a
\* batch writes the one table at once and the other at its end.
AddressIndexExact == \A i \in 1..Len(log) : log[i].addresses = Indexed(log[i].utxos)

\* report_corruption stops the node for good; it is never reached by the
\* storage's own interleavings, only after a fault of the backend or a panic.
HealthyUnlessFault == is_failed => fault

\* A finished query saw one committed state: the blocks of all its heights and
\* the outputs of its address belong together, whatever was committed meanwhile.
ReadsOneState ==
  \A t \in Readers : Answered(t) =>
    \E i \in 1..Len(log) :
      /\ log[i].chain = r[t].chain
      /\ Memory!get_utxos_for_address(log[i].utxos, r[t].address) = r[t].got

\* A failure stops the writers: at most the one transition that was past its
\* last check of the flag is still committed.
StopsWriting == late <= 1

\* Every step is one transition of the in-memory backend or leaves its state
\* alone; only a power failure takes committed transitions back.
ImplementsMemory == [][~PowerFails => Memory!Next \/ UNCHANGED AsMemory(Db)]_vars

\* A registered failure handler runs when the storage has failed, in whatever
\* order the registration and the failure meet.
FailureHeard == (failed /\ handler # "none") ~> (notified \/ ~failed)

\* "Transitions commit all updated records in a single transaction with WAL
\* fsync": a committed transition is never lost.
CommitsSurvive == [][Len(log') >= Len(log)]_vars
=============================================================================
