--------------------------- MODULE MemoryStorage ---------------------------
(***************************************************************************)
(* The storage contract as the in-memory backend of stryi_core keeps it: a *)
(* view of the chain and of its unspent outputs, replaced as a whole by a  *)
(* transition that succeeds.  There is no address index: the outputs of an *)
(* address are found by looking at every output.  The tests of the node    *)
(* run on this backend; StryiStorage shows that the RocksDB backend does   *)
(* nothing else.                                                           *)
(***************************************************************************)
EXTENDS Naturals, Sequences

CONSTANTS
  Blocks,        \* block hashes
  OutPoints,     \* keys of the UTXO table
  Addresses,     \* owners of outputs
  NoOne,         \* the owner of an output that is not unspent
  Transitions,   \* what apply_transition is called with
  GenesisBlock,  \* the first canonical block
  GenesisOwner   \* the allocations of the genesis block

VARIABLE data    \* MemoryView: chain (heights), blocks (bodies), utxos

\* An Append has base = head; a Reorganize replaces the blocks after base.
\* Its removed and put outputs were computed by the fork overlay.
TransitionType ==
  [head : Blocks, base : Blocks, blocks : Seq(Blocks),
   removed : Seq(OutPoints), put : Seq(OutPoints \X Addresses)]

Tip(chain) == chain[Len(chain)]

Canonical(chain, b) == \E i \in 1..Len(chain) : chain[i] = b

\* detach_to_ancestor, and put_block for every block of the transition.
Spliced(chain, d) ==
  SubSeq(chain, 1, CHOOSE i \in 1..Len(chain) : chain[i] = d.base) \o d.blocks

batch_remove_utxos(utxos, removed) ==
  [o \in OutPoints |-> IF \E i \in 1..Len(removed) : removed[i] = o THEN NoOne ELSE utxos[o]]

\* HashMap::extend: of several values for a key the last one stays.
batch_put_utxos(utxos, put) ==
  [o \in OutPoints |->
     LET writes == {i \in 1..Len(put) : put[i][1] = o}
     IN  IF writes = {} THEN utxos[o]
         ELSE put[CHOOSE i \in writes : \A j \in writes : j <= i][2]]

get_utxos_for_address(utxos, a) == {o \in OutPoints : utxos[o] = a}

Init ==
  data = [chain |-> <<GenesisBlock>>, blocks |-> {GenesisBlock}, utxos |-> GenesisOwner]

\* update: the pending copy replaces the view only when every check passed.
apply_transition(d) ==
  /\ Tip(data.chain) = d.head
  /\ Canonical(data.chain, d.base)
  /\ \A i \in 1..Len(d.removed) : data.utxos[d.removed[i]] # NoOne
  /\ data' = [chain  |-> Spliced(data.chain, d),
              blocks |-> data.blocks \cup {d.blocks[i] : i \in 1..Len(d.blocks)},
              utxos  |-> batch_put_utxos(batch_remove_utxos(data.utxos, d.removed), d.put)]

Next == \E d \in Transitions : apply_transition(d)

Spec == Init /\ [][Next]_data
=============================================================================
