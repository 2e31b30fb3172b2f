SPECIFICATION Spec
CONSTANTS
  r1 = r1
  r2 = r2
  w = w
  h = h
  e1 = e1
  e2 = e2
  Ints = {r1, r2, w}
  Roots = {h}
  EpOf <- MCEpOf
  InDir = {r1, r2}
  NumSlots = 2
  Grace = 1
  RtModes = {TRUE}
INVARIANT RetiredOnce
