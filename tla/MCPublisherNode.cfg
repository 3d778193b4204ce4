SPECIFICATION Spec
CHECK_DEADLOCK FALSE
SYMMETRY Symmetry
CONSTANTS
  Blocks = {b1, b2}
  NoBlock = NoBlock
  Subs = {s1, s2}
  MaxUid = 2
  MaxFrames = 2
INVARIANTS
  TypeOK
  ReadSeesItsImage
PROPERTIES
  BlocksKeepTheirPromise
