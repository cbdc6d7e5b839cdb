SPECIFICATION Spec
CONSTANTS
  l1 = l1
  l2 = l2
  p1 = p1
  p2 = p2
  Lifecycles = {l1, l2}
  Procs = {p1, p2}
  NoProc = NoProc
  NoLifecycle = NoLifecycle
SYMMETRY Symmetry
INVARIANTS
  ChainContiguous
  ReleasedByHandoff
  RemovedOnce
  UnfinishedIsNamed
CHECK_DEADLOCK FALSE
