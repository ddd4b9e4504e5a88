----------------------------- MODULE MCLifecycle -----------------------------
(* TunnelLifecycle on a small instance: one user, or two that contend for  *)
(* a subdomain; up to two agent connections and three tunnels.             *)
EXTENDS TunnelLifecycle, TLC

CONSTANTS u1, u2, a1, a2, t1, t2, t3, s1, s2, r1, r2, x1

\* Everything belongs to u1, unless there are two users: then the second
\* agent and the third tunnel are those of u2.
MCAgentUser == [a \in Agents |-> IF a = a2 /\ u2 \in Users THEN u2 ELSE u1]
MCUserOf == [t \in Tids |-> IF t = t3 /\ u2 \in Users THEN u2 ELSE u1]
MCOwnerOf == [s \in Subs |-> u1]
MCRouteOf == [x \in Streams |-> s1]
\* t1 and t3 want the same subdomain; every tunnel exposes its own port.
MCSubOf == [t \in Tids |-> IF t = t2 THEN s2 ELSE s1]
MCPortOf == [t \in Tids |-> CASE t = t1 -> 1 [] t = t2 -> 2 [] t = t3 -> 3]

\* Sound for safety: with one user, connections differ in nothing, nor do calls.
MCSymmetry == Permutations(Agents) \cup Permutations(Reqs)
=============================================================================
