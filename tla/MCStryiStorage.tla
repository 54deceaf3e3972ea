--------------------------- MODULE MCStryiStorage ---------------------------
EXTENDS StryiStorage, TLC

CONSTANTS g, a, b, c, o1, o2, o3, x, y

MCGenesisOwner == (o1 :> x) @@ (o2 :> x) @@ (o3 :> NoOne)

\* Two competing children of g, one on top of the first, and the branch of b
\* and c that replaces a.
MCTransitions == {
  [head |-> g, base |-> g, blocks |-> <<a>>, removed |-> <<o1, o2>>, put |-> <<<<o3, y>>>>],
  [head |-> g, base |-> g, blocks |-> <<b>>, removed |-> <<o1>>, put |-> <<<<o3, y>>>>],
  [head |-> a, base |-> g, blocks |-> <<b, c>>, removed |-> <<>>,
   put |-> <<<<o2, x>>, <<o3, y>>>>],
  [head |-> b, base |-> b, blocks |-> <<c>>, removed |-> <<o3>>, put |-> <<<<o1, x>>>>] }
=============================================================================
