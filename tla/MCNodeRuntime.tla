--------------------------- MODULE MCNodeRuntime ---------------------------
(* t1 and t2 spend a coin each; t3 spends the output of t1.                  *)
EXTENDS NodeRuntime

MCInputs == [t \in Txs |-> CASE t = "t1" -> {"c1"} [] t = "t2" -> {"c2"} [] t = "t3" -> {"t1"}]
\* Other nodes gossip an empty block and announce a branch of two blocks, the
\* first of which confirms t1.
MCNetBlocks == {<<Label("net", {})>>}
MCNetTips == {<<Label("net", {"t1"}), Label("net", {})>>}
=============================================================================
