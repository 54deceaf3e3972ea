----------------------------- MODULE MCMempool -----------------------------
(* Two funding outputs.  a splits the first, b and c spend one half each; r  *)
(* replaces a by fee, q spends both funding outputs and so conflicts with    *)
(* two transactions, e spends the second output, f spends it and pays no     *)
(* fee, x is signed by the wrong account, y is a coinbase, and the outputs   *)
(* of w add up to more than 64 bits hold.                                    *)
EXTENDS Mempool

MCOutpoints == {"o1", "o2", "a1", "a2", "b1", "c1", "e1", "f1", "q1", "r1", "w1", "w2", "x1"}
MCInputs == [a |-> <<"o1">>, b |-> <<"a1">>, c |-> <<"a2">>, e |-> <<"o2">>, f |-> <<"o2">>,
             q |-> <<"o2", "o1">>, r |-> <<"o1">>, w |-> <<"o2">>, x |-> <<"o2">>, y |-> <<>>]
MCOutputs == [a |-> {"a1", "a2"}, b |-> {"b1"}, c |-> {"c1"}, e |-> {"e1"}, f |-> {"f1"},
              q |-> {"q1"}, r |-> {"r1"}, w |-> {"w1", "w2"}, x |-> {"x1"}, y |-> {}]

MCIns  == Restrict(MCInputs, Txs)
MCOuts == Restrict(MCOutputs, Txs)
MCValue == [o \in MCOutpoints |->
              CASE o = "o1" -> 40 [] o = "o2" -> 40 [] o \in {"a1", "a2"} -> 19
                [] o = "b1" -> 17 [] o = "c1" -> 14 [] o = "e1" -> 37
                [] o = "f1" -> 40 [] o \in {"w1", "w2"} -> 66
                [] o = "q1" -> 4 [] o = "r1" -> 33 [] o = "x1" -> 30]
MCOwner == [o \in MCOutpoints |-> "alice"]
MCSigner == [t \in Txs |-> IF t = "x" THEN "bob" ELSE "alice"]
MCSize == [t \in Txs |-> IF t = "q" THEN 2 ELSE 1]

\* The ledger before and after a block that confirms a.
MCLedgers == {{"o1", "o2"}, {"a1", "a2", "o2"}}
MCBlocks == {{"a"}}
=============================================================================
