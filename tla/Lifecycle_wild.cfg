SPECIFICATION Spec
CONSTANTS
  u1 = u1
  u2 = u2
  a1 = a1
  a2 = a2
  t1 = t1
  t2 = t2
  t3 = t3
  s1 = s1
  s2 = s2
  r1 = r1
  r2 = r2
  x1 = x1
  Users = {u1, u2}
  Agents = {a1, a2}
  Tids = {t1, t3}
  Subs = {s1}
  Streams = {x1}
  AgentUser <- MCAgentUser
  SubOf <- MCSubOf
  UserOf <- MCUserOf
  OwnerOf <- MCOwnerOf
  RouteOf <- MCRouteOf
  PortOf <- MCPortOf
  IdSpace = 8
  NoTunnel = NoTunnel
  NoAgent = NoAgent
  NoEntry = NoEntry
  StoresFail = TRUE
  Reqs = {r1}
  Ops = {"create", "delete", "pause", "resume"}
  MaxTunnels = 2
  Overlap = TRUE
  MayDrop = TRUE
  Serial = FALSE
  MaxRestarts = 0
  PreRecorded = {t1}
INVARIANTS
  TypeOK
  RoutedToOwner
PROPERTIES
  RowsEndByDeadlineOrDelete
  OrphansByLateBinds
