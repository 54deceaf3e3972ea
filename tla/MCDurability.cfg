SPECIFICATION Spec
CONSTANTS
  g = g  a = a  b = b  c = c
  o1 = o1  o2 = o2  o3 = o3
  x = x  y = y
  NoOne = NoOne
  Blocks = {g, a, b, c}
  OutPoints = {o1, o2, o3}
  Addresses = {x, y}
  Writers = {w1, w2}
  Readers = {r1}
  GenesisBlock = g
  GenesisOwner <- MCGenesisOwner
  Transitions <- MCTransitions
  MaxCommits = 2
  MaxRestarts = 1
PROPERTY CommitsSurvive
CHECK_DEADLOCK FALSE
