-------------------------------- MODULE MCHub --------------------------------
(* TunnelHub on a small instance: two connections of one user, one of      *)
(* another, a subdomain each, two public connections.                      *)
EXTENDS TunnelHub

CONSTANTS u1, u2, a1, a2, a3, t1, t2, s1, s2, x1, x2

MCAgentUser == [a \in Agents |-> IF a = a3 THEN u2 ELSE u1]
MCSubOf == [t \in Tids |-> IF t = t1 THEN s1 ELSE s2]
MCUserOf == [t \in Tids |-> IF t = t1 THEN u1 ELSE u2]
MCOwnerOf == [s \in Subs |-> IF s = s1 THEN u1 ELSE u2]
MCRouteOf == [x \in Streams |-> s1]
=============================================================================
