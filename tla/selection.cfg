SPECIFICATION Spec
CONSTANTS
  d1 = d1
  d2 = d2
  own = own
  s1 = s1
  s2 = s2
  Dirs = {d1, d2}
  UserNames = {own}
  Sessions = {s1, s2}
  Annotated = {s2}
  NoDir = NoDir
  MaxBoxes = 3
  MaxEvents = 2
SYMMETRY Symmetric
INVARIANTS TypeOK OpensUnlessMoved LogExplains
