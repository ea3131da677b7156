CONSTANTS
  Hashes = {h1}
  Keys = {k1, k2, k3}
  Values = {v1, v2}
  AnyDelete = TRUE
  Reentrant = FALSE
  MaxComputing = 1
SPECIFICATION HashSpec
CONSTRAINTS MCComputing MCEntries
SYMMETRY MCSymmetry
INVARIANT GetFindsPresent
