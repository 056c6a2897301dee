SPECIFICATION Spec
CONSTANTS
  n1 = n1
  n2 = n2
  n3 = n3
  run = run
  build = build
  Graphs <- MCGraphs
  Roots <- MCRoots
CHECK_DEADLOCK FALSE
INVARIANTS ClosuresExact
PROPERTIES AllClosed
