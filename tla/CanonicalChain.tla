--------------------------- MODULE CanonicalChain ---------------------------
(***************************************************************************)
(* What the consensus engine promises to the rest of the node: a valid     *)
(* chain that only ever moves to one with more work, together with the     *)
(* unspent outputs of exactly that chain.  Both change in one step.        *)
(***************************************************************************)
EXTENDS BlockTree

VARIABLES chain,    \* height -> block, 0..n
          ledger    \* unspent outpoints

Best(c) == CHOOSE b \in {c[h] : h \in DOMAIN c} :
             \A h \in DOMAIN c : BranchWork[c[h]] <= BranchWork[b]

Init == /\ chain = [h \in {} |-> Genesis]
        /\ ledger = {}

SaveGenesis == /\ DOMAIN chain = {}
               /\ chain' = [h \in {0} |-> Genesis]
               /\ ledger' = LedgerAt[Genesis]

\* Append and reorganization: any suffix may be replaced.
Advance == /\ DOMAIN chain # {}
           /\ IsValidChain(chain')
           /\ BranchWork[Best(chain')] > BranchWork[Best(chain)]
           /\ ledger' = LedgerAt[Best(chain')]

Next == SaveGenesis \/ Advance

Spec == Init /\ [][Next]_<<chain, ledger>>
=============================================================================
