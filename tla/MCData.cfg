CONSTANTS
  a = a  b = b  c1 = c1  c2 = c2  Void = Void
  Hashes = {h1, h2}  Keys = {k1, k2, k3}  Values = {v1, v2}  AnyDelete = FALSE  Reentrant = FALSE
  Atoms <- AtomsV
  SelectCapacity = 3
  MaxObjects = 3
SPECIFICATION DataSpec
CONSTRAINT Bounded
SYMMETRY Alike
CHECK_DEADLOCK FALSE
INVARIANTS
  IndexesAgree
  HashesAnswer
  WhatIsKeptIsTrue
PROPERTIES
  BehavesAsOrderedHash
  OnlySharersChange
