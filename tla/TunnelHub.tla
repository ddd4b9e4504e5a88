------------------------------ MODULE TunnelHub ------------------------------
(***************************************************************************)
(* The in-memory registry of the control plane (internal/tunnel/hub.go):   *)
(* which agents are connected, which subdomain each of them serves, and    *)
(* which proxied streams run over which agent.  Every action below is one  *)
(* critical section of the code, under Hub.mu or Agent.mu; who calls them, *)
(* and in which order, is the business of TunnelLifecycle.                 *)
(***************************************************************************)
EXTENDS Naturals, FiniteSets

CONSTANTS
    Users,      \* account ids
    Agents,     \* agent connections; the code never reuses an id (UnixNano)
    Tids,       \* tunnel ids
    Subs,       \* subdomains
    Streams,    \* proxied public connections
    AgentUser,  \* [Agents -> Users]: the user the agent's token names
    SubOf,      \* [Tids -> Subs]
    UserOf,     \* [Tids -> Users]
    OwnerOf,    \* [Subs -> Users]: the user whose tunnels may be bound there
    RouteOf,    \* [Streams -> Subs]: the subdomain a connection asks for
    IdSpace,    \* stream ids are uint32: 2^32 in the code
    NoTunnel,   \* an absent entry of Hub.tunnels
    NoAgent     \* AgentID = "" and Stream.agent = nil

\* What a bound tunnel is: Tunnel.Entry, and the streams it carries.
Tunnel == [id : Tids, agent : Agents, streams : SUBSET Streams]

ASSUME HubConstants ==
    /\ AgentUser \in [Agents -> Users]
    /\ SubOf \in [Tids -> Subs]
    /\ UserOf \in [Tids -> Users]
    /\ OwnerOf \in [Subs -> Users]
    /\ RouteOf \in [Streams -> Subs]
    /\ IdSpace \in Nat \ {0}
    /\ NoAgent \notin Agents
    /\ NoTunnel \notin Tunnel

VARIABLES
    agents,       \* Hub.agents: connections that can be routed to
    tunnels,      \* Hub.tunnels: subdomain -> bound tunnel
    byAgent,      \* Hub.byAgent (a missing key reads as the empty set)
    byUser,       \* Hub.byUser
    closed,       \* agents whose Close has run
    agentStreams, \* Agent.streams
    nextID,       \* Agent.nextID
    sid,          \* Stream.id, 0 until AllocStream
    carrier,      \* Stream.agent
    done          \* streams whose Finish has run

registry == <<agents, tunnels, byAgent, byUser>>
streamVars == <<closed, agentStreams, nextID, sid, carrier, done>>
hubVars == <<registry, streamVars>>

NewTunnel(e) == [id |-> e.id, agent |-> e.agent, streams |-> {}]

HubTypeOK ==
    /\ agents \subseteq Agents
    /\ tunnels \in [Subs -> Tunnel \cup {NoTunnel}]
    /\ byAgent \in [Agents -> SUBSET Subs]
    /\ byUser \in [Users -> SUBSET Subs]
    /\ closed \subseteq Agents
    /\ agentStreams \in [Agents -> SUBSET Streams]
    /\ nextID \in [Agents -> 0 .. IdSpace - 1]
    /\ sid \in [Streams -> 0 .. IdSpace - 1]
    /\ carrier \in [Streams -> Agents \cup {NoAgent}]
    /\ done \subseteq Streams

RegistryInit ==
    /\ agents = {}
    /\ tunnels = [s \in Subs |-> NoTunnel]
    /\ byAgent = [a \in Agents |-> {}]
    /\ byUser = [u \in Users |-> {}]

HubInit ==
    /\ RegistryInit
    /\ closed = {}
    /\ agentStreams = [a \in Agents |-> {}]
    /\ nextID = [a \in Agents |-> 0]
    /\ sid = [x \in Streams |-> 0]
    /\ carrier = [x \in Streams |-> NoAgent]
    /\ done = {}

-----------------------------------------------------------------------------
(* What a slip would turn some of the operators below into.  Nothing here  *)
(* uses these; put in the place of the real ones they show which property  *)
(* notices.                                                                *)

\* UnregisterAgent that leaves its tunnels bound.
ForgetAgent(a) ==
    /\ agents' = agents \ {a}
    /\ byAgent' = [byAgent EXCEPT ![a] = {}]
    /\ UNCHANGED <<tunnels, byUser, streamVars>>

\* RegisterTunnel that leaves the agent's index alone.
RegisterUncharged(a, e) ==
    /\ tunnels' = [tunnels EXCEPT ![SubOf[e.id]] = NewTunnel(e)]
    /\ byUser' = [byUser EXCEPT ![AgentUser[a]] = @ \cup {SubOf[e.id]}]
    /\ UNCHANGED <<agents, byAgent, streamVars>>

\* A counter read and not advanced.
SameNumber(n) == n

\* AgentByUser that takes the first agent it meets.
AnyAgents(u) == agents

-----------------------------------------------------------------------------
(* The registry, under Hub.mu.                                             *)

\* Entries carry what the cache says: the tunnel and the agent that claimed
\* it last, which need not be the agent being registered.
Entry == [id : Tids, agent : Agents]

SubsOf(es) == {SubOf[e.id] : e \in es}

RegisterAgent(a, es) ==
    /\ agents' = agents \cup {a}
    /\ tunnels' = [s \in Subs |->
                     IF s \in SubsOf(es)
                     THEN NewTunnel(CHOOSE e \in es : SubOf[e.id] = s)
                     ELSE tunnels[s]]
    /\ byUser' = [byUser EXCEPT ![AgentUser[a]] = @ \cup SubsOf(es)]
    /\ byAgent' = [byAgent EXCEPT ![a] = SubsOf(es)]
    /\ UNCHANGED streamVars

\* Every tunnel the agent ever bound goes, whoever it is bound to by now.
UnregisterAgent(a) ==
    /\ agents' = agents \ {a}
    /\ tunnels' = [s \in Subs |->
                     IF s \in byAgent[a] THEN NoTunnel ELSE tunnels[s]]
    /\ byUser' = [byUser EXCEPT ![AgentUser[a]] = @ \ byAgent[a]]
    /\ byAgent' = [byAgent EXCEPT ![a] = {}]
    /\ UNCHANGED streamVars

RegisterTunnel(a, e) ==
    /\ tunnels' = [tunnels EXCEPT ![SubOf[e.id]] = NewTunnel(e)]
    /\ byAgent' = [byAgent EXCEPT ![a] = @ \cup {SubOf[e.id]}]
    /\ byUser' = [byUser EXCEPT ![AgentUser[a]] = @ \cup {SubOf[e.id]}]
    /\ UNCHANGED <<agents, streamVars>>

\* The locked part of Expire and ExpireIdle, for the tunnel the caller holds:
\* the entry goes even if it has been bound anew since the caller read it.
DropTunnel(s, t) ==
    /\ tunnels' = [tunnels EXCEPT ![s] = NoTunnel]
    /\ byAgent' = IF t.agent \in agents
                  THEN [byAgent EXCEPT ![t.agent] = @ \ {s}]
                  ELSE byAgent
    /\ byUser' = [byUser EXCEPT ![UserOf[t.id]] = @ \ {s}]
    /\ UNCHANGED <<agents, streamVars>>

\* AgentByUser answers with any of these.
LiveAgentsOf(u) == {a \in agents : AgentUser[a] = u}

-----------------------------------------------------------------------------
(* Streams, under Agent.mu and Hub.mu.  Both stream maps are keyed by the  *)
(* stream's number, so a stream displaces, and its removal removes,        *)
(* whatever stream has that number.                                        *)

WithoutIds(X, ids) == {y \in X : sid[y] \notin ids}

NextNumber(n) == (n + 1) % IdSpace

AllocStream(a, x) ==
    LET id == NextNumber(nextID[a]) IN
    /\ nextID' = [nextID EXCEPT ![a] = id]
    /\ sid' = [sid EXCEPT ![x] = id]
    /\ carrier' = [carrier EXCEPT ![x] = a]
    /\ agentStreams' = [agentStreams EXCEPT ![a] = WithoutIds(@, {id}) \cup {x}]
    /\ UNCHANGED <<registry, closed, done>>

\* With no tunnel bound there is no record: the stream runs on unswept.
AddStream(x) ==
    LET s == RouteOf[x] IN
    /\ tunnels' = IF tunnels[s] = NoTunnel
                  THEN tunnels
                  ELSE [tunnels EXCEPT ![s].streams =
                          WithoutIds(@, {sid[x]}) \cup {x}]
    /\ UNCHANGED <<agents, byAgent, byUser, streamVars>>

\* Finish takes effect once per stream.  WriteHook's RemoveStream looks the
\* tunnel up by subdomain, so it hits whatever tunnel is bound there now.
Finishing(X) ==
    LET F == X \ done
        hooked(s) == {sid[x] : x \in {z \in F : RouteOf[z] = s}}
    IN
    /\ done' = done \cup F
    /\ tunnels' = [s \in Subs |->
                     IF tunnels[s] = NoTunnel
                     THEN NoTunnel
                     ELSE [tunnels[s] EXCEPT !.streams =
                             WithoutIds(@, hooked(s))]]
    /\ UNCHANGED <<agents, byAgent, byUser, nextID, sid, carrier>>

Finish(X) ==
    LET carried(a) == {sid[x] : x \in {z \in X \ done : carrier[z] = a}} IN
    /\ Finishing(X)
    /\ agentStreams' = [a \in Agents |->
                          WithoutIds(agentStreams[a], carried(a))]
    /\ UNCHANGED closed

\* Agent.Close takes the whole stream map and finishes what was in it.  That
\* it finishes them after unlocking cannot be seen from here: no frame is
\* dispatched any more, and a stream finished by its proxy stays finished.
CloseAgent(a) ==
    /\ closed' = closed \cup {a}
    /\ Finishing(agentStreams[a])
    /\ agentStreams' = [agentStreams EXCEPT ![a] = {}]

\* The process dies: the registry and every stream are memory only.
Restart ==
    /\ agents' = {}
    /\ tunnels' = [s \in Subs |-> NoTunnel]
    /\ byAgent' = [a \in Agents |-> {}]
    /\ byUser' = [u \in Users |-> {}]
    /\ closed' = closed \cup agents
    /\ agentStreams' = [a \in Agents |-> {}]
    /\ done' = {x \in Streams : carrier[x] # NoAgent}
    /\ UNCHANGED <<nextID, sid, carrier>>

-----------------------------------------------------------------------------
(* The registry under its callers.  An agent registers once; a stream is   *)
(* given its agent before it is recorded or finished; what the callers     *)
(* hold may be stale, and tunnels of several users may want a subdomain.   *)

SharedNext ==
    \/ \E a \in Agents :
         /\ a \notin agents /\ byAgent[a] = {}
         /\ \E es \in SUBSET Entry : RegisterAgent(a, es)
    \/ \E a \in agents : UnregisterAgent(a)
    \/ \E a \in Agents, id \in Tids :
         RegisterTunnel(a, [id |-> id, agent |-> a])
    \/ \E id \in Tids, a \in Agents :
         DropTunnel(SubOf[id], [id |-> id, agent |-> a])
    \/ \E a \in Agents, x \in Streams :
         carrier[x] = NoAgent /\ AllocStream(a, x)
    \/ \E x \in Streams : carrier[x] # NoAgent /\ AddStream(x)
    \/ \E X \in SUBSET {x \in Streams : carrier[x] # NoAgent} : Finish(X)
    \/ \E a \in Agents : CloseAgent(a)
    \/ Restart

SharedSpec == HubInit /\ [][SharedNext]_hubVars

\* The same where the tunnels that want a subdomain are all of one user: what
\* is bound is bound for the subdomain's owner, by an agent of that user.
Rightful == {id \in Tids : UserOf[id] = OwnerOf[SubOf[id]]}

EntriesFor(a) ==
    {es \in SUBSET Entry :
        \A e \in es : /\ e.id \in Rightful
                      /\ UserOf[e.id] = AgentUser[a]
                      /\ \A f \in es : SubOf[e.id] = SubOf[f.id] => e = f}

HubNext ==
    \/ \E a \in Agents :
         /\ a \notin agents /\ byAgent[a] = {}
         /\ \E es \in EntriesFor(a) : RegisterAgent(a, es)
    \/ \E a \in agents : UnregisterAgent(a)
    \/ \E a \in Agents, id \in Rightful :
         /\ UserOf[id] = AgentUser[a]
         /\ RegisterTunnel(a, [id |-> id, agent |-> a])
    \/ \E id \in Rightful, a \in Agents :
         DropTunnel(SubOf[id], [id |-> id, agent |-> a])
    \/ \E a \in Agents, x \in Streams :
         carrier[x] = NoAgent /\ AllocStream(a, x)
    \/ \E x \in Streams : carrier[x] # NoAgent /\ AddStream(x)
    \/ \E X \in SUBSET {x \in Streams : carrier[x] # NoAgent} : Finish(X)
    \/ \E a \in Agents : CloseAgent(a)
    \/ Restart

HubSpec == HubInit /\ [][HubNext]_hubVars

-----------------------------------------------------------------------------
(* Invariants.                                                             *)

\* A bound tunnel is bound under its own subdomain.
BoundInPlace ==
    \A s \in Subs : tunnels[s] # NoTunnel => SubOf[tunnels[s].id] = s

\* Every bound tunnel is charged to some connection, which need not be the one
\* that serves it, and may have ended before it was charged.
AgentIndexCovers ==
    \A s \in Subs : tunnels[s] # NoTunnel => \E a \in Agents : s \in byAgent[a]

\* A bound tunnel that the disconnect of no connected agent would unbind.
Orphan(s) == tunnels[s] # NoTunnel /\ \A a \in agents : s \notin byAgent[a]

\* The only way to one: RegisterTunnel with an agent that is not registered.
OrphansByLateRegister ==
    [][\A s \in Subs :
         ~Orphan(s) /\ Orphan(s)' =>
            \E a \in Agents \ agents, id \in Tids :
                /\ SubOf[id] = s
                /\ RegisterTunnel(a, [id |-> id, agent |-> a])]_hubVars

\* Only streams that run over some agent are recorded with a tunnel, or
\* finished (Finish is armed after AllocStream).
StreamsCarried ==
    /\ \A s \in Subs : tunnels[s] # NoTunnel =>
         \A x \in tunnels[s].streams : carrier[x] # NoAgent
    /\ \A x \in done : carrier[x] # NoAgent

\* A stream in an agent's map runs over that agent and has not finished, so
\* that no frame is dispatched to a dead stream for ever.
AgentStreamsLive ==
    \A a \in Agents : \A x \in agentStreams[a] :
        carrier[x] = a /\ x \notin done

\* What the registry keeps to whoever the tunnels belong to.
SharedInv ==
    /\ HubTypeOK
    /\ BoundInPlace
    /\ AgentIndexCovers
    /\ StreamsCarried
    /\ AgentStreamsLive

\* What is bound is bound for the owner of the subdomain.
BoundRightfully ==
    \A s \in Subs : tunnels[s] # NoTunnel => UserOf[tunnels[s].id] = OwnerOf[s]

\* An agent is only ever charged with its own user's subdomains, so that
\* unregistering it cannot unbind someone else's tunnel.
AgentIndexOwned ==
    \A a \in Agents : \A s \in byAgent[a] : OwnerOf[s] = AgentUser[a]

\* Hub.byUser is exactly the inverse of Hub.tunnels, through every order of
\* binds, takeovers, stale drops and disconnects: what a user is shown as
\* bound (SnapshotByUser) is what the proxy can route to.
UserIndexExact ==
    \A u \in Users :
        byUser[u] = {s \in Subs : /\ tunnels[s] # NoTunnel
                                 /\ UserOf[tunnels[s].id] = u}

\* What it keeps to where a subdomain has one owner.
OwnerInv ==
    /\ BoundRightfully
    /\ AgentIndexOwned
    /\ UserIndexExact

\* The inductive invariant of the registry: what the proofs carry along.
HubInv == SharedInv /\ OwnerInv

\* As long as the numbers of a connection have not wrapped around, a stream
\* that has not finished is in its agent's map, where frames and Close find
\* it: no removal by number ever hits another stream (hub.go, agent_io.go).
LiveStreamsReachable ==
    \A x \in Streams :
        carrier[x] # NoAgent /\ x \notin done => x \in agentStreams[carrier[x]]

\* Why: an agent's numbers count its streams up from 1, so that no two
\* streams of a connection share one.
Carried(a) == {x \in Streams : carrier[x] = a}

NumbersCountUp ==
    /\ \A a \in Agents : nextID[a] = Cardinality(Carried(a))
    /\ \A x \in Streams :
         carrier[x] # NoAgent => sid[x] \in 1 .. nextID[carrier[x]]
    /\ \A x, y \in Streams :
         carrier[x] # NoAgent /\ carrier[x] = carrier[y] /\ sid[x] = sid[y]
           => x = y

=============================================================================
