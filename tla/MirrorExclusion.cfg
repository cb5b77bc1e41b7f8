SPECIFICATION Spec
CONSTANTS
  Syncers = {s1, s2}
  Deleters = {d1}
  Inodes = {i1, i2, i3, i4}
  None = None
  Faults = {}
SYMMETRY KindSymmetry
INVARIANT
  Exclusion
