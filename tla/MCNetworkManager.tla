-------------------------- MODULE MCNetworkManager --------------------------
(* Two nodes that may be connected twice; "m" offers a service.              *)
EXTENDS NetworkManager

MCEnds == [l \in Links |-> {"n", "m"}]
MCOwner == [s \in Services |-> "m"]
=============================================================================
