\* A list of two addresses: the cursor outlives the row it was on.
CONSTANTS
  hn = hn
  zz = zz
  cidr = cidr
  cidr2 = cidr2
  t1 = t1
  route = route
  here = here
  None = None
  Port = {0, 22}
  Address = {cidr, cidr2}
  Province = {hn}
  City = {zz}
  ProvinceOf <- MCProvinceOf
  Label = {route}
  Term = {t1}
  BadTerm = {}
  Listen = {here}
  DefaultListen = here
  Host = {h1, h2}
  Setting = {v1, v2}
  Lived <- MCLists
  MaxEdits = 2
  MaxWrites = 1
SPECIFICATION TuiSpec
INVARIANTS
  KeysKeepSession
CHECK_DEADLOCK FALSE
