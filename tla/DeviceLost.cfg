SPECIFICATION Spec
CONSTANTS
  Nodes = {k1, k2, k3, k4}
  Names = {n1, n2, n3}
  NULL = null
  Lists = {"device"}
INVARIANT DevicesAreFound
\* a process that dereferences NULL stops
CHECK_DEADLOCK FALSE
