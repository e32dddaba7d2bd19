CONSTANTS
  Conns = {c1, c2}
  Workspaces = {v1, v2}
  Keys = {k1, k2, k3, k4}
  Notes = {n1}
  Patches = {p1}
  Sessions = {s1}
  Approvals = {a1, a2}
  None = None
  MaxEvents = 4
SPECIFICATION Spec
SYMMETRY Symmetry
INVARIANTS AuditChainValid HeadIsLastEvent CommitsApproved IndexedIsRecorded
PROPERTIES ImplementsEventLog
CHECK_DEADLOCK FALSE
