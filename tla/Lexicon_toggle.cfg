\* one server, whose toggle falls back
SPECIFICATION Spec
CONSTANTS
  n1 = n1
  n2 = n2
  l1 = l1
  l2 = l2
  Names <- MCNames
  Legacy <- MCLegacy
  NameOf <- MCNameOf
  Terms = {t1, t2}
  Servers = {s1}
  Cli = Cli
  MaxOps = 3
  MaxFaults = 1
PROPERTIES
  ToggleKeepsRows
CHECK_DEADLOCK FALSE
