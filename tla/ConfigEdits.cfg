\* Two processes and two commands, on a new store and on one that was in use.
CONSTANTS
  hn = hn
  zz = zz
  cidr = cidr
  t1 = t1
  bad = bad
  route = route
  here = here
  there = there
  p1 = p1
  p2 = p2
  None = None
  Port = {0, 22, 23}
  Address = {cidr}
  Province = {hn}
  City = {zz}
  ProvinceOf <- MCProvinceOf
  Label = {route}
  Term = {t1, bad}
  BadTerm = {bad}
  Listen = {here, there}
  DefaultListen = here
  DefaultPort = 22
  Process = {p1, p2}
  Lived <- MCLived
  MaxCommands = 2
SYMMETRY Symmetry
SPECIFICATION Spec
INVARIANTS
  NeverLocked
  RegionsInForce
PROPERTIES
  EditIsAtomic
  Atomic
CHECK_DEADLOCK FALSE
