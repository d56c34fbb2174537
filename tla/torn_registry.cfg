SPECIFICATION Spec
CONSTANTS
  Writers = {w1, w2}
  Inodes = {i1, i2, i3}
  Old = i1
  None = None
INVARIANT NeverTorn
CHECK_DEADLOCK FALSE
