SPECIFICATION Spec
CONSTANTS
  Char = {a, b, star}
  Star = star
  MaxLen = 2
INVARIANTS
  NoStrayNodes
  SearchByKeys
PROPERTY ImplementsKeySet
