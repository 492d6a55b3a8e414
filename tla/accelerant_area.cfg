\* The same accelerant: areas outlive their mappings.
SPECIFICATION Spec
CONSTANTS
  b1 = b1  b2 = b2  b3 = b3  m1 = m1
  Ids = {b1, b2, b3}
  Modes = {m1}
  None = None
INVARIANT AreaFollowsMapping
