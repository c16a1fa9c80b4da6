\* three servers and the migration, a few operations, two failures
SPECIFICATION Spec
CONSTANTS
  n1 = n1
  n2 = n2
  l1 = l1
  l2 = l2
  Names <- MCNames
  Legacy <- MCLegacy
  NameOf <- MCNameOf
  Terms = {t1, t2}
  Servers = {s1, s2, s3}
  Cli = Cli
  MaxOps = 3
  MaxFaults = 2
SYMMETRY Interchangeable
INVARIANTS
  WholeImports
  OneIdPerName
  MovedWhenSaved
\* every operation may have ended
CHECK_DEADLOCK FALSE
