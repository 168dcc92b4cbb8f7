CONSTANTS
  i1 = i1
  i2 = i2
  i3 = i3
  Items = {i1, i2, i3, i4}
  i4 = i4
  NULL = NULL
  Strings <- MCStrings
  Lower <- MCLower
  Kinds = {"Object"}
  Texts = {"temp"}
  Keys = {"temp"}
  MaxStrings = 2
  MaxRefs = 1
SPECIFICATION Spec
INVARIANTS Linked Accounted StringsOwned
PROPERTIES ImplementsForest
SYMMETRY Symmetry
