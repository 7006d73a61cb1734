SPECIFICATION Spec
CONSTANTS
  a = a
  b = b
  q = q
  x = x
  y = y
  dm = dm
  m = m
  st = st
  k = k
  f = f
  h = h
  Val = {a, b, q, x, y, dm}
  ObjName = {m, st, k, f, h}
  Fields <- MCFields
  MaxFieldLimit = 2
  NonPointer = {k, f, h}
  Opaque = {k}
  NodeOrder <- MCNodeOrder
  Programs <- MCPrograms

INVARIANTS EdgesOnReps NothingSkipped CyclesFound DirectSolved MemorySolved
PROPERTIES NeverForgets Refines Terminates
