SPECIFICATION Spec
CONSTANTS
  u1 = u1
  u2 = u2
  a1 = a1
  a2 = a2
  t1 = t1
  t2 = t2
  t3 = t3
  s1 = s1
  s2 = s2
  r1 = r1
  r2 = r2
  x1 = x1
  Users = {u1}
  Agents = {a1, a2}
  Tids = {t1, t2}
  Subs = {s1, s2}
  Streams = {}
  AgentUser <- MCAgentUser
  SubOf <- MCSubOf
  UserOf <- MCUserOf
  OwnerOf <- MCOwnerOf
  RouteOf <- MCRouteOf
  PortOf <- MCPortOf
  IdSpace = 8
  NoTunnel = NoTunnel
  NoAgent = NoAgent
  NoEntry = NoEntry
  StoresFail = FALSE
  Reqs = {r1, r2}
  Ops = {"create", "delete", "pause", "resume"}
  MaxTunnels = 2
  Overlap = FALSE
  MayDrop = TRUE
  Serial = TRUE
  MaxRestarts = 1
  PreRecorded = {t1}
INVARIANTS
  ServedWhileUp
  HandedBack
  PausedNotServed
  DeletedGone
  DeleteDeactivates
SYMMETRY MCSymmetry
