SPECIFICATION Spec
CONSTANTS
  t1 = t1
  t2 = t2
  core = core
  user = user
  lib1 = lib1
  lib2 = lib2
  src1 = src1
  src2 = src2
  path = path
  c1 = c1
  Toolboxes = {t1, t2}
  Names = {core, user}
  CoreNames = {core}
  Shipped = {lib1, lib2}
  Authored = {src1, src2}
  Paths = {}
  Scopes <- Every
  Clients = {c1}
  ScopeOf <- ScopeBoth
  MaxRow = 4
  Null = Null
SYMMETRY Symmetric
INVARIANTS IdentityUnlessDeleted ResultUnlessDeleted
PROPERTIES GuardedUnlessDeleted
