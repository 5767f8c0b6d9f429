SPECIFICATION EarlySpec
CONSTANTS
  Writers = {w1, w2}
  Readers = {r1, r2}
  Ids = {i1, i2, i3}
  NoId = NoId
  Servers = {s1, s2}
  Clients = {c1}
  Objects = {o1, o2, o3}
  Nobody = Nobody
  Callers = {h1, h2, h3}
  MaxClock = 3
  None = None
SYMMETRY EarlySymmetry
INVARIANTS
  EarlyTypeOK
  ToldIsRead
  ReadIsGone
  NameHasServer
  NameKept
  PromiseKept
  CleanUnlessRaced
  GrantOpenable
  GrantsApart
PROPERTIES
  FaultsExplained
