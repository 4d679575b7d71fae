SPECIFICATION Spec
CONSTANTS
  u1 = u1
  u2 = u2
  am = am
  bm = bm
  f = f
  m = m
  g = g
  w1 = w1
  w2 = w2
  Uris = {u1, u2}
  Fqns = {am, bm, f}
  Names = {m, g}
  NameOf <- MCNameOf
  Members = {am, bm}
  Declarations <- MCDeclarations
  Writers = {w1}
  ClashLimit = 1
  None = None
INVARIANTS RemovedLeavesNoNames
