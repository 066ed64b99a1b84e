CONSTANTS
  v1 = v1
  v2 = v2
  g1 = g1
  g2 = g2
  s1 = s1
  Val = {v1, v2}
  Const = {c1}
  Gpr = {g1, g2}
  Fpr = {f1}
  Slot = {s1}
  Local = {s1}
  MaxFrame = 3
  MaxOps = 2
  MaxRange = 2
  None = None
SPECIFICATION Spec
SYMMETRY Symmetric
INVARIANTS RecoveryExact RecordsMatchMachine SlotsAccounted
