\* A session of two edits, with another process and any save or load failing.
CONSTANTS
  hn = hn
  zz = zz
  cidr = cidr
  cidr2 = cidr2
  t1 = t1
  route = route
  here = here
  None = None
  Port = {0, 22}
  Address = {cidr}
  Province = {hn}
  City = {zz}
  ProvinceOf <- MCProvinceOf
  Label = {route}
  Term = {t1}
  BadTerm = {}
  Listen = {here}
  DefaultListen = here
  Host = {h1, h2}
  Setting = {v1, v2}
  Lived <- MCLived
  MaxEdits = 2
  MaxWrites = 1
SPECIFICATION TuiSpec
INVARIANTS
  ShownIsStored
  SelectionInForce
PROPERTIES
  ScreenWritesItsOwn
CHECK_DEADLOCK FALSE
