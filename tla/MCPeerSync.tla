----------------------------- MODULE MCPeerSync -----------------------------
(* A block is worth 1 or 2, so that the heavier chain may be the shorter one. *)
(* The peer "q" may be reached but has another genesis block.  The last six   *)
(* starts end before the node serves, or save what a peer or the operator     *)
(* gives them.                                                                *)
EXTENDS PeerSync

MCWeight == [l \in Labels |-> IF l = "a" THEN 1 ELSE 2]
MCGenesisOf == [p \in Peers |-> IF p = "q" THEN "g2" ELSE "g"]

Config(mode, g, identity, accept) ==
  [mode |-> mode, genesis |-> g, identity |-> identity, accept |-> accept]
Empty(c) == [config |-> c, genesis |-> NoGenesis, tip |-> <<>>]
Stored(c) == [config |-> c, genesis |-> "g", tip |-> <<"a", "a">>]

MCLocalStarts ==
  {Stored(Config("Auto", NoGenesis, TRUE, FALSE)),
   Stored(Config("Auto", "g", TRUE, FALSE)),
   Stored(Config("Auto", "g2", TRUE, FALSE)),
   Stored(Config("Join", "g", FALSE, FALSE)),
   Empty(Config("Bootstrap", NoGenesis, TRUE, FALSE)),
   Empty(Config("Bootstrap", "g3", TRUE, FALSE)),
   Empty(Config("Bootstrap", "bad", TRUE, FALSE)),
   Empty(Config("Join", "g3", TRUE, FALSE))}
MCRemoteStarts == {<<"a", "b">>, <<"b", "a", "a">>}
=============================================================================
