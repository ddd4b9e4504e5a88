SPECIFICATION HubSpec
CONSTANTS
  u1 = u1
  u2 = u2
  a1 = a1
  a2 = a2
  a3 = a3
  t1 = t1
  t2 = t2
  s1 = s1
  s2 = s2
  x1 = x1
  x2 = x2
  Users = {u1, u2}
  Agents = {a1, a2, a3}
  Tids = {t1, t2}
  Subs = {s1, s2}
  Streams = {x1, x2}
  AgentUser <- MCAgentUser
  SubOf <- MCSubOf
  UserOf <- MCUserOf
  OwnerOf <- MCOwnerOf
  RouteOf <- MCRouteOf
  IdSpace = 4
  NoTunnel = NoTunnel
  NoAgent = NoAgent
INVARIANTS
  HubInv
  LiveStreamsReachable
