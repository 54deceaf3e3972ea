-------------------------- MODULE MCConsensusEngine --------------------------
(***************************************************************************)
(* Small block trees for ConsensusEngine.                                  *)
(*                                                                         *)
(*   g --- a1 --- a2 --- a3          a2 and b1 hold the same payment p1,   *)
(*    \      \--- s2,x2,y2,h2,w3     a1 and b1 the same coinbase           *)
(*     \-- b1 --- b2 --- b3, d3      transaction, and so do b2 and c2      *)
(*           \--- c2 --- c3                                                *)
(*                                                                         *)
(* Blocks at heights 1 and 2 have the initial threshold and so equal work; *)
(* a3 outweighs b3, which outweighs a2.                                    *)
(***************************************************************************)
EXTENDS ConsensusEngine

Entry(p, h, w, cb, pay) == [parent |-> p, height |-> h, work |-> w, coinbase |-> cb, payments |-> pay]

Tree == [
  g  |-> Entry("g", 0, 0, "alloc", {}),
  a1 |-> Entry("g", 1, 2, "cb1", {}),
  a2 |-> Entry("a1", 2, 2, "cbA2", {"p1"}),
  a3 |-> Entry("a2", 3, 3, "cbA3", {}),
  b1 |-> Entry("g", 1, 2, "cb1", {"p1"}),
  b2 |-> Entry("b1", 2, 2, "cbB2", {"p2"}),
  b3 |-> Entry("b2", 3, 1, "cbB3", {}),
  c2 |-> Entry("b1", 2, 2, "cbB2", {}),
  c3 |-> Entry("c2", 3, 3, "cbC3", {"p2"}),
  s2 |-> Entry("a1", 2, 2, "cbS2", {"n0"}),         \* n0 has no inputs
  x2 |-> Entry("a1", 2, 2, "cbA2", {"p1", "p3"}),  \* p3 spends an output of p1
  y2 |-> Entry("a1", 2, 2, "cbBig", {}),           \* coinbase above the subsidy
  w3 |-> Entry("a1", 3, 2, "cbW3", {}),            \* height does not follow
  d3 |-> Entry("b2", 3, 1, "cbB3", {}),            \* threshold of another anchor
  h2 |-> Entry("a1", 2, 2, "cbS2", {}),            \* hash above the threshold
  e3 |-> Entry("a2", 3, 3, "cbA3", {"p1"}),        \* p1 is already in a2
  u1 |-> Entry("g", 1, 2, "cb1", {"n0"}),
  u2 |-> Entry("u1", 2, 2, "cbU2", {"n0"}),        \* n0 is already in u1
  v2 |-> Entry("u1", 2, 2, "cbV2", {}),
  z  |-> Entry("g", 1, 2, "cb1", {})]              \* genesis marker at height 1

MCParent   == [b \in Blocks |-> Tree[b].parent]
MCHeight   == [b \in Blocks |-> Tree[b].height]
MCWork     == [b \in Blocks |-> Tree[b].work]
MCCoinbase == [b \in Blocks |-> Tree[b].coinbase]
MCPayments == [b \in Blocks |-> Tree[b].payments]
MCAnchor   == [b \in Blocks |-> CASE b \in {"b2", "b3", "c2", "c3"} -> "b1"
                               [] b \in {"u2", "v2"} -> "u1"
                               [] OTHER -> "a1"]

Spends == [p1 |-> {"gA"}, p2 |-> {"c1"}, p3 |-> {"q1"}]
Makes  == [alloc |-> {"gA"}, cb1 |-> {"c1"}, cbA2 |-> {"cA2"}, cbA3 |-> {"cA3"},
           cbB2 |-> {"cB2"}, cbB3 |-> {"cB3"}, cbC3 |-> {"cC3"}, cbS2 |-> {"cS2"}, cbBig |-> {"big"},
           cbW3 |-> {"cW3"}, cbU2 |-> {"cU2"}, cbV2 |-> {"cV2"}, n0 |-> {"o0"},
           p1 |-> {"q1"}, p2 |-> {"q2"}, p3 |-> {"q3"}]

MCInputs  == [t \in DOMAIN Makes |-> IF t \in DOMAIN Spends THEN Spends[t] ELSE {}]
MCOutputs == Makes
MCValue   == [gA |-> 3, c1 |-> 2, cA2 |-> 2, cA3 |-> 1, cB2 |-> 1, cB3 |-> 1, cC3 |-> 1, cS2 |-> 1,
              cW3 |-> 1, cU2 |-> 1, cV2 |-> 1, o0 |-> 0, big |-> 2, q1 |-> 2, q2 |-> 2, q3 |-> 1]
MCOwner   == [o \in DOMAIN MCValue |-> IF o = "gA" THEN "user" ELSE "miner"]
MCAuthor  == [t \in DOMAIN Spends |-> IF t = "p1" THEN "user" ELSE "miner"]

----------------------------------------------------------------------------
\* Reference functions, computed along the tree.

MCBranchWork == [b \in Blocks |->
  LET W[x \in Blocks] == IF x = "g" THEN 0 ELSE W[Tree[x].parent] + Tree[x].work IN W[b]]

MCFirstOf == [b \in Blocks |->
  LET F[x \in Blocks] == IF Tree[x].parent = "g" THEN x ELSE F[Tree[x].parent] IN F[b]]

MCLedgerAt == [b \in Blocks |->
  LET L[x \in Blocks] == IF x = "g" THEN apply_block(x, {})
                                    ELSE apply_block(x, L[Tree[x].parent]) IN L[b]]

MCValidBlocks ==
  LET V[x \in Blocks] == \/ x = "g"
                         \/ /\ V[Tree[x].parent]
                            /\ Tree[x].height = Tree[Tree[x].parent].height + 1
                            /\ x \notin Misshapen \cup BadBlocks
                            /\ Tree[x].parent # "g" => MCAnchor[x] = MCFirstOf[Tree[x].parent]
                            /\ validate_transactions(x, MCLedgerAt[Tree[x].parent])
  IN  {b \in Blocks : V[b]}

----------------------------------------------------------------------------
\* Trees used by the runs.
FullTree     == DOMAIN Tree \ {"c2", "c3", "u1", "u2", "v2"}
RepeatTree   == {"g", "u1", "u2", "v2"}
MidForkTree  == {"g", "a1", "a2", "b1", "b2", "c2", "c3"}
=============================================================================
