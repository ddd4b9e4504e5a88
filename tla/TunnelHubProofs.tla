--------------------------- MODULE TunnelHubProofs ---------------------------
(***************************************************************************)
(* The registry keeps its invariants for every set of users, agents,       *)
(* subdomains and streams, whatever the order of its operations.           *)
(*                                                                         *)
(* There is one lemma per operation; each shows the parts of HubInv that   *)
(* the operation can disturb one by one, the type part first.              *)
(***************************************************************************)
EXTENDS TunnelHub, FiniteSetTheorems, TLAPS

-----------------------------------------------------------------------------
(* Facts the operations share.                                             *)

\* What NewTunnel makes of a cache entry.
LEMMA NewTunnelType ==
    ASSUME NEW e \in Entry
    PROVE  /\ NewTunnel(e) \in Tunnel
           /\ NewTunnel(e) # NoTunnel
           /\ NewTunnel(e).id = e.id
           /\ NewTunnel(e).agent = e.agent
           /\ NewTunnel(e).streams = {}
BY HubConstants DEF NewTunnel, Tunnel, Entry

\* The steps on streams leave the registry bound as it was.
LEMMA SameBindings ==
    ASSUME SharedInv, UNCHANGED <<agents, byAgent, byUser>>,
           \A s \in Subs : \/ tunnels'[s] = NoTunnel /\ tunnels[s] = NoTunnel
                           \/ /\ tunnels'[s] # NoTunnel /\ tunnels[s] # NoTunnel
                              /\ tunnels'[s].id = tunnels[s].id
    PROVE  /\ BoundInPlace' /\ AgentIndexCovers'
           /\ OwnerInv => OwnerInv'
BY DEF SharedInv, BoundInPlace, BoundRightfully, AgentIndexOwned,
       UserIndexExact, AgentIndexCovers, OwnerInv

\* Taking streams out of a tunnel, or putting one in, keeps its binding.
LEMMA StreamsOnly ==
    ASSUME NEW t \in Tunnel, NEW X \in SUBSET Streams
    PROVE  /\ [t EXCEPT !.streams = X] \in Tunnel
           /\ [t EXCEPT !.streams = X] # NoTunnel
           /\ [t EXCEPT !.streams = X].id = t.id
           /\ [t EXCEPT !.streams = X].streams = X
BY HubConstants DEF Tunnel

\* An operation on the registry binds without streams, or not at all, and
\* does not touch the streams.
LEMMA SameStreams ==
    ASSUME SharedInv, UNCHANGED streamVars,
           \A s \in Subs : \/ tunnels'[s] = tunnels[s]
                           \/ tunnels'[s] = NoTunnel
                           \/ tunnels'[s].streams = {}
    PROVE  StreamsCarried' /\ AgentStreamsLive'
BY DEF SharedInv, StreamsCarried, AgentStreamsLive, streamVars

-----------------------------------------------------------------------------
(* The operations, whoever the tunnels belong to.                          *)

\* A connecting agent takes over every subdomain among its entries.
LEMMA RegisterAgentShared ==
    ASSUME SharedInv,
           NEW a \in Agents, byAgent[a] = {},
           NEW es \in SUBSET Entry,
           RegisterAgent(a, es)
    PROVE  SharedInv'
<1> DEFINE u == AgentUser[a]
           S == SubsOf(es)
           pick(s) == CHOOSE e \in es : SubOf[e.id] = s
<1> USE HubConstants
<1>1. S \subseteq Subs
  BY DEF SubsOf, Entry
<1>2. \A s \in S : pick(s) \in es /\ SubOf[pick(s).id] = s
  BY DEF SubsOf
<1>3. \A s \in S : /\ NewTunnel(pick(s)) \in Tunnel
                   /\ NewTunnel(pick(s)) # NoTunnel
                   /\ SubOf[NewTunnel(pick(s)).id] = s
                   /\ NewTunnel(pick(s)).streams = {}
  BY <1>2, NewTunnelType
<1>4. /\ tunnels' \in [Subs -> Tunnel \cup {NoTunnel}]
      /\ \A s \in Subs : tunnels'[s] = IF s \in S THEN NewTunnel(pick(s))
                                                  ELSE tunnels[s]
  BY <1>3 DEF RegisterAgent, SharedInv, HubTypeOK
<1>5. /\ byAgent' = [byAgent EXCEPT ![a] = S]
      /\ byUser' = [byUser EXCEPT ![u] = @ \cup S]
      /\ agents' = agents \cup {a}
      /\ UNCHANGED streamVars
  BY DEF RegisterAgent
<1>6. u \in Users
  OBVIOUS
<1> HIDE DEF S, pick, u
<1>7. HubTypeOK'
  BY <1>1, <1>4, <1>5, <1>6 DEF SharedInv, HubTypeOK, streamVars
<1>8. BoundInPlace'
  BY <1>3, <1>4 DEF SharedInv, BoundInPlace
<1>9. AgentIndexCovers'
  <2> SUFFICES ASSUME NEW s \in Subs, tunnels'[s] # NoTunnel
               PROVE  \E b \in Agents : s \in byAgent'[b]
    BY DEF AgentIndexCovers
  <2>1. byAgent'[a] = S /\ \A b \in Agents \ {a} : byAgent'[b] = byAgent[b]
    BY <1>5 DEF SharedInv, HubTypeOK
  <2>2. CASE s \in S
    BY <2>1, <2>2
  <2>3. CASE s \notin S
    BY <1>4, <2>1, <2>3 DEF SharedInv, AgentIndexCovers
  <2> QED
    BY <2>2, <2>3
<1> QED
  BY <1>3, <1>4, <1>5, <1>7, <1>8, <1>9, SameStreams DEF SharedInv

\* A disconnect unbinds what the agent is charged with, and nothing else.
LEMMA UnregisterAgentShared ==
    ASSUME SharedInv, NEW a \in Agents, UnregisterAgent(a)
    PROVE  SharedInv'
<1> USE HubConstants
<1> DEFINE u == AgentUser[a]
           S == byAgent[a]
<1>1. u \in Users /\ S \subseteq Subs
  BY DEF SharedInv, HubTypeOK
<1>2. /\ \A s \in Subs : tunnels'[s] = IF s \in S THEN NoTunnel ELSE tunnels[s]
      /\ tunnels' \in [Subs -> Tunnel \cup {NoTunnel}]
      /\ byUser' = [byUser EXCEPT ![u] = @ \ S]
      /\ byAgent' = [byAgent EXCEPT ![a] = {}]
      /\ agents' = agents \ {a}
      /\ UNCHANGED streamVars
  BY DEF UnregisterAgent, SharedInv, HubTypeOK
<1> HIDE DEF u
<1>3. HubTypeOK'
  BY <1>1, <1>2 DEF SharedInv, HubTypeOK, streamVars
<1>4. BoundInPlace'
  BY <1>2 DEF SharedInv, BoundInPlace
<1>5. AgentIndexCovers'
  <2> SUFFICES ASSUME NEW s \in Subs, tunnels'[s] # NoTunnel
               PROVE  \E b \in Agents : s \in byAgent'[b]
    BY DEF AgentIndexCovers
  <2>1. s \notin S /\ tunnels[s] # NoTunnel
    BY <1>2
  <2>2. PICK b \in Agents : s \in byAgent[b]
    BY <2>1 DEF SharedInv, AgentIndexCovers
  <2>3. b # a
    BY <2>1, <2>2
  <2> QED
    BY <1>2, <2>2, <2>3 DEF SharedInv, HubTypeOK
<1> QED
  BY <1>2, <1>3, <1>4, <1>5, SameStreams DEF SharedInv

\* A tunnel is bound, or taken over.
LEMMA RegisterTunnelShared ==
    ASSUME SharedInv, NEW a \in Agents, NEW id \in Tids,
           RegisterTunnel(a, [id |-> id, agent |-> a])
    PROVE  SharedInv'
<1> USE HubConstants
<1> DEFINE t == NewTunnel([id |-> id, agent |-> a])
           sub == SubOf[id]
           u == AgentUser[a]
<1>1. t \in Tunnel /\ t.id = id /\ t # NoTunnel /\ t.streams = {}
  BY NewTunnelType DEF Entry
<1>2. sub \in Subs /\ u \in Users /\ SubOf[id] = sub
  OBVIOUS
<1>3. /\ tunnels' = [tunnels EXCEPT ![sub] = t]
      /\ byAgent' = [byAgent EXCEPT ![a] = @ \cup {sub}]
      /\ byUser' = [byUser EXCEPT ![u] = @ \cup {sub}]
      /\ agents' = agents
      /\ UNCHANGED streamVars
  BY DEF RegisterTunnel
<1> HIDE DEF t, sub, u
<1>4. HubTypeOK'
  BY <1>1, <1>2, <1>3 DEF SharedInv, HubTypeOK, streamVars
<1>5. BoundInPlace'
  BY <1>1, <1>2, <1>3 DEF SharedInv, HubTypeOK, BoundInPlace
<1>6. AgentIndexCovers'
  BY <1>2, <1>3 DEF SharedInv, HubTypeOK, AgentIndexCovers
<1>7. \A s \in Subs : tunnels'[s] = tunnels[s] \/ tunnels'[s].streams = {}
  BY <1>1, <1>2, <1>3 DEF SharedInv, HubTypeOK
<1> QED
  BY <1>3, <1>4, <1>5, <1>6, <1>7, SameStreams DEF SharedInv

\* Expire and ExpireIdle, with whatever tunnel the caller still holds.
LEMMA DropTunnelShared ==
    ASSUME SharedInv, NEW id \in Tids, NEW a \in Agents,
           DropTunnel(SubOf[id], [id |-> id, agent |-> a])
    PROVE  SharedInv'
<1> USE HubConstants
<1> DEFINE sub == SubOf[id]
           u == UserOf[id]
<1>1. sub \in Subs /\ u \in Users
  OBVIOUS
<1>2. /\ tunnels' = [tunnels EXCEPT ![sub] = NoTunnel]
      /\ byAgent' \in {byAgent, [byAgent EXCEPT ![a] = @ \ {sub}]}
      /\ byUser' = [byUser EXCEPT ![u] = @ \ {sub}]
      /\ agents' = agents
      /\ UNCHANGED streamVars
  BY DEF DropTunnel
<1> HIDE DEF sub, u
<1>3. HubTypeOK'
  BY <1>1, <1>2 DEF SharedInv, HubTypeOK, streamVars
<1>4. BoundInPlace'
  BY <1>1, <1>2 DEF SharedInv, HubTypeOK, BoundInPlace
<1>5. AgentIndexCovers'
  <2> SUFFICES ASSUME NEW s \in Subs, tunnels'[s] # NoTunnel
               PROVE  \E b \in Agents : s \in byAgent'[b]
    BY DEF AgentIndexCovers
  <2>1. s # sub /\ tunnels[s] # NoTunnel
    BY <1>1, <1>2 DEF SharedInv, HubTypeOK
  <2>2. PICK b \in Agents : s \in byAgent[b]
    BY <2>1 DEF SharedInv, AgentIndexCovers
  <2> QED
    BY <1>2, <2>1, <2>2 DEF SharedInv, HubTypeOK
<1>6. \A s \in Subs : tunnels'[s] = tunnels[s] \/ tunnels'[s] = NoTunnel
  BY <1>1, <1>2 DEF SharedInv, HubTypeOK
<1> QED
  BY <1>2, <1>3, <1>4, <1>5, <1>6, SameStreams DEF SharedInv

\* A new stream takes the next number of its agent.
LEMMA AllocStreamShared ==
    ASSUME SharedInv, NEW a \in Agents, NEW x \in Streams, carrier[x] = NoAgent,
           AllocStream(a, x)
    PROVE  SharedInv' /\ (OwnerInv => OwnerInv')
<1> USE HubConstants
<1> DEFINE n == NextNumber(nextID[a])
<1>1. n \in 0 .. IdSpace - 1
  BY DEF SharedInv, HubTypeOK, NextNumber
<1>2. /\ nextID' = [nextID EXCEPT ![a] = n]
      /\ sid' = [sid EXCEPT ![x] = n]
      /\ carrier' = [carrier EXCEPT ![x] = a]
      /\ agentStreams' = [agentStreams EXCEPT ![a] = WithoutIds(@, {n}) \cup {x}]
      /\ UNCHANGED <<registry, closed, done>>
  BY DEF AllocStream
<1> HIDE DEF n
<1>3. HubTypeOK'
  BY <1>1, <1>2 DEF SharedInv, HubTypeOK, WithoutIds, registry
<1>4. x \notin done
  BY DEF SharedInv, StreamsCarried
<1>5. AgentStreamsLive'
  BY <1>2, <1>4 DEF SharedInv, HubTypeOK, AgentStreamsLive, WithoutIds
<1>6. StreamsCarried'
  <2>1. \A y \in Streams : carrier[y] # NoAgent => carrier'[y] # NoAgent
    BY <1>2 DEF SharedInv, HubTypeOK
  <2>2. \A s \in Subs : tunnels[s] # NoTunnel => tunnels[s].streams \subseteq Streams
    BY DEF SharedInv, HubTypeOK, Tunnel
  <2>3. done \subseteq Streams
    BY DEF SharedInv, HubTypeOK
  <2> QED
    BY <1>2, <2>1, <2>2, <2>3 DEF SharedInv, StreamsCarried, registry
<1>7. BoundInPlace' /\ AgentIndexCovers' /\ (OwnerInv => OwnerInv')
  BY <1>2, SameBindings DEF registry
<1> QED
  BY <1>3, <1>5, <1>6, <1>7 DEF SharedInv

\* A stream is recorded with the tunnel bound to its subdomain, if any.
LEMMA AddStreamShared ==
    ASSUME SharedInv, NEW x \in Streams, carrier[x] # NoAgent, AddStream(x)
    PROVE  SharedInv' /\ (OwnerInv => OwnerInv')
<1> USE HubConstants
<1> DEFINE s == RouteOf[x]
           t == tunnels[s]
           X == WithoutIds(t.streams, {sid[x]}) \cup {x}
<1>1. s \in Subs
  OBVIOUS
<1>2. UNCHANGED <<agents, byAgent, byUser, streamVars>>
  BY DEF AddStream
<1>3. CASE t = NoTunnel
  <2>1. tunnels' = tunnels
    BY <1>3 DEF AddStream
  <2>2. /\ BoundInPlace' /\ AgentIndexCovers'
        /\ OwnerInv => OwnerInv'
    BY <1>2, <2>1, SameBindings
  <2> QED
    BY <1>2, <2>1, <2>2, SameStreams DEF SharedInv, HubTypeOK, streamVars
<1>4. CASE t # NoTunnel
  <2>1. t \in Tunnel /\ X \in SUBSET Streams
    BY <1>1, <1>4 DEF SharedInv, HubTypeOK, Tunnel, WithoutIds
  <2>2. tunnels' = [tunnels EXCEPT ![s] = [t EXCEPT !.streams = X]]
    BY <1>1, <1>4 DEF AddStream, SharedInv, HubTypeOK
  <2>3. /\ [t EXCEPT !.streams = X] \in Tunnel
        /\ [t EXCEPT !.streams = X] # NoTunnel
        /\ [t EXCEPT !.streams = X].id = t.id
        /\ [t EXCEPT !.streams = X].streams = X
    BY <2>1, StreamsOnly
  <2>4. \A y \in X : carrier[y] # NoAgent
    BY <1>1, <1>4 DEF SharedInv, StreamsCarried, WithoutIds
  <2> HIDE DEF X
  <2>5. /\ tunnels' \in [Subs -> Tunnel \cup {NoTunnel}]
        /\ \A r \in Subs : tunnels'[r] = IF r = s THEN [t EXCEPT !.streams = X]
                                                  ELSE tunnels[r]
    BY <1>1, <2>2, <2>3 DEF SharedInv, HubTypeOK
  <2>6. BoundInPlace' /\ AgentIndexCovers' /\ (OwnerInv => OwnerInv')
    BY <1>2, <1>4, <2>3, <2>5, SameBindings
  <2>7. StreamsCarried' /\ AgentStreamsLive'
    BY <1>2, <2>3, <2>4, <2>5
    DEF SharedInv, StreamsCarried, AgentStreamsLive, streamVars
  <2> QED
    BY <1>2, <2>5, <2>6, <2>7 DEF SharedInv, HubTypeOK, streamVars
<1> QED
  BY <1>3, <1>4

\* The part Finish and Close share: streams end, and leave the tunnels.
LEMMA FinishingShared ==
    ASSUME SharedInv, NEW X \in SUBSET Streams, \A x \in X : carrier[x] # NoAgent,
           Finishing(X)
    PROVE  /\ tunnels' \in [Subs -> Tunnel \cup {NoTunnel}]
           /\ done' = done \cup X
           /\ BoundInPlace' /\ AgentIndexCovers' /\ StreamsCarried'
           /\ OwnerInv => OwnerInv'
<1> USE HubConstants
<1> DEFINE gone(s) == {sid[x] : x \in {z \in X \ done : RouteOf[z] = s}}
           rest(s) == WithoutIds(tunnels[s].streams, gone(s))
<1>1. \A s \in Subs : tunnels'[s] = IF tunnels[s] = NoTunnel
                                    THEN NoTunnel
                                    ELSE [tunnels[s] EXCEPT !.streams = rest(s)]
  BY DEF Finishing
<1>2. \A s \in Subs : tunnels[s] # NoTunnel =>
        /\ [tunnels[s] EXCEPT !.streams = rest(s)] \in Tunnel
        /\ [tunnels[s] EXCEPT !.streams = rest(s)] # NoTunnel
        /\ [tunnels[s] EXCEPT !.streams = rest(s)].id = tunnels[s].id
        /\ [tunnels[s] EXCEPT !.streams = rest(s)].streams = rest(s)
        /\ rest(s) \subseteq tunnels[s].streams
  <2> SUFFICES ASSUME NEW s \in Subs, tunnels[s] # NoTunnel
               PROVE  /\ [tunnels[s] EXCEPT !.streams = rest(s)] \in Tunnel
                      /\ [tunnels[s] EXCEPT !.streams = rest(s)] # NoTunnel
                      /\ [tunnels[s] EXCEPT !.streams = rest(s)].id = tunnels[s].id
                      /\ [tunnels[s] EXCEPT !.streams = rest(s)].streams = rest(s)
                      /\ rest(s) \subseteq tunnels[s].streams
    OBVIOUS
  <2>1. /\ tunnels[s] \in Tunnel
        /\ rest(s) \in SUBSET Streams
        /\ rest(s) \subseteq tunnels[s].streams
    BY DEF SharedInv, HubTypeOK, Tunnel, WithoutIds
  <2> HIDE DEF rest
  <2> QED
    BY <2>1, StreamsOnly
<1> HIDE DEF rest
<1>3. tunnels' \in [Subs -> Tunnel \cup {NoTunnel}]
  <2>1. tunnels' = [s \in Subs |-> tunnels'[s]]
    BY DEF Finishing
  <2>2. \A s \in Subs : tunnels'[s] \in Tunnel \cup {NoTunnel}
    BY <1>1, <1>2
  <2> QED
    BY <2>1, <2>2, Zenon
<1>4. UNCHANGED <<agents, byAgent, byUser, carrier>> /\ done' = done \cup X
  BY DEF Finishing
<1>5. StreamsCarried'
  <2>1. \A s \in Subs : tunnels'[s] # NoTunnel =>
          tunnels[s] # NoTunnel /\ tunnels'[s].streams \subseteq tunnels[s].streams
    BY <1>1, <1>2
  <2> QED
    BY <1>4, <2>1 DEF SharedInv, StreamsCarried
<1> QED
  BY <1>1, <1>2, <1>3, <1>4, <1>5, SameBindings

\* Streams that were carried finish.
LEMMA FinishShared ==
    ASSUME SharedInv, NEW X \in SUBSET Streams, \A x \in X : carrier[x] # NoAgent,
           Finish(X)
    PROVE  SharedInv' /\ (OwnerInv => OwnerInv')
<1> USE HubConstants
<1> DEFINE gone(a) == {sid[x] : x \in {z \in X \ done : carrier[z] = a}}
<1>1. Finishing(X) /\ UNCHANGED <<nextID, sid, carrier, closed, agents,
                                  byAgent, byUser>>
  BY DEF Finish, Finishing
<1>2. agentStreams' = [a \in Agents |-> WithoutIds(agentStreams[a], gone(a))]
  BY DEF Finish
<1>3. \A a \in Agents : /\ agentStreams'[a] \subseteq agentStreams[a]
                        /\ \A x \in agentStreams'[a] : sid[x] \notin gone(a)
  BY <1>2 DEF WithoutIds
<1>4. done' = done \cup X
  BY <1>1, FinishingShared
<1>5. HubTypeOK'
  BY <1>1, <1>2, <1>3, <1>4, FinishingShared DEF SharedInv, HubTypeOK
<1>6. AgentStreamsLive'
  BY <1>1, <1>3, <1>4 DEF SharedInv, HubTypeOK, AgentStreamsLive
<1> QED
  BY <1>1, <1>5, <1>6, FinishingShared DEF SharedInv

\* A connection ends, and all its streams with it.
LEMMA CloseAgentShared ==
    ASSUME SharedInv, NEW a \in Agents, CloseAgent(a)
    PROVE  SharedInv' /\ (OwnerInv => OwnerInv')
<1> USE HubConstants
<1> DEFINE X == agentStreams[a]
<1>1. X \in SUBSET Streams /\ \A x \in X : carrier[x] = a /\ carrier[x] # NoAgent
  BY DEF SharedInv, HubTypeOK, AgentStreamsLive
<1>2. /\ Finishing(X)
      /\ UNCHANGED <<nextID, sid, carrier, agents, byAgent, byUser>>
      /\ closed' = closed \cup {a}
      /\ agentStreams' = [agentStreams EXCEPT ![a] = {}]
  BY DEF CloseAgent, Finishing
<1> HIDE DEF X
<1>3. done' = done \cup X
  BY <1>1, <1>2, FinishingShared
<1>4. HubTypeOK'
  BY <1>1, <1>2, <1>3, FinishingShared DEF SharedInv, HubTypeOK
<1>5. AgentStreamsLive'
  <2> SUFFICES ASSUME NEW b \in Agents, NEW x \in agentStreams'[b]
               PROVE  carrier'[x] = b /\ x \notin done'
    BY DEF AgentStreamsLive
  <2>1. b # a /\ x \in agentStreams[b]
    BY <1>2 DEF SharedInv, HubTypeOK
  <2> QED
    BY <1>1, <1>2, <1>3, <2>1 DEF SharedInv, AgentStreamsLive
<1> QED
  BY <1>1, <1>2, <1>4, <1>5, FinishingShared DEF SharedInv

\* A restart leaves an empty registry.
LEMMA RestartShared ==
    ASSUME SharedInv, Restart
    PROVE  SharedInv' /\ OwnerInv'
BY HubConstants
DEF Restart, SharedInv, OwnerInv, HubTypeOK, BoundInPlace, BoundRightfully,
    AgentIndexOwned, UserIndexExact, AgentIndexCovers, StreamsCarried,
    AgentStreamsLive

\* Every step of the registry keeps what does not depend on the owners, and
\* no step takes a stream's agent away.
LEMMA NextShared ==
    ASSUME SharedInv, [SharedNext]_hubVars
    PROVE  /\ SharedInv'
           /\ \A x \in Streams : carrier[x] # NoAgent => carrier'[x] = carrier[x]
<1> DEFINE Keep == \A x \in Streams : carrier[x] # NoAgent => carrier'[x] = carrier[x]
<1>1. ASSUME NEW a \in Agents, byAgent[a] = {}, NEW es \in SUBSET Entry,
             RegisterAgent(a, es)
      PROVE  SharedInv' /\ Keep
  BY <1>1, RegisterAgentShared DEF RegisterAgent, streamVars
<1>2. ASSUME NEW a \in agents, UnregisterAgent(a) PROVE SharedInv' /\ Keep
  <2>1. a \in Agents
    BY DEF SharedInv, HubTypeOK
  <2> QED
    BY <1>2, <2>1, UnregisterAgentShared DEF UnregisterAgent, streamVars
<1>3. ASSUME NEW a \in Agents, NEW id \in Tids,
             RegisterTunnel(a, [id |-> id, agent |-> a])
      PROVE  SharedInv' /\ Keep
  BY <1>3, RegisterTunnelShared DEF RegisterTunnel, streamVars
<1>4. ASSUME NEW id \in Tids, NEW a \in Agents,
             DropTunnel(SubOf[id], [id |-> id, agent |-> a])
      PROVE  SharedInv' /\ Keep
  BY <1>4, DropTunnelShared DEF DropTunnel, streamVars
<1>5. ASSUME NEW a \in Agents, NEW x \in Streams, carrier[x] = NoAgent,
             AllocStream(a, x)
      PROVE  SharedInv' /\ Keep
  BY <1>5, AllocStreamShared DEF AllocStream, SharedInv, HubTypeOK
<1>6. ASSUME NEW x \in Streams, carrier[x] # NoAgent, AddStream(x)
      PROVE  SharedInv' /\ Keep
  BY <1>6, AddStreamShared DEF AddStream, streamVars
<1>7. ASSUME NEW X \in SUBSET {x \in Streams : carrier[x] # NoAgent}, Finish(X)
      PROVE  SharedInv' /\ Keep
  <2>1. X \in SUBSET Streams /\ \A x \in X : carrier[x] # NoAgent
    OBVIOUS
  <2> QED
    BY <1>7, <2>1, FinishShared DEF Finish, Finishing
<1>8. ASSUME NEW a \in Agents, CloseAgent(a) PROVE SharedInv' /\ Keep
  BY <1>8, CloseAgentShared DEF CloseAgent, Finishing
<1>9. CASE Restart
  BY <1>9, RestartShared DEF Restart
<1>10. CASE UNCHANGED hubVars
  BY <1>10
  DEF hubVars, registry, streamVars, SharedInv, HubTypeOK, BoundInPlace,
      AgentIndexCovers, StreamsCarried, AgentStreamsLive
<1> QED
  BY <1>1, <1>2, <1>3, <1>4, <1>5, <1>6, <1>7, <1>8, <1>9, <1>10 DEF SharedNext

-----------------------------------------------------------------------------
(* The owners of the subdomains.                                           *)

\* An empty registry satisfies the invariants.
LEMMA InitInv == HubInit => HubInv
BY HubConstants
DEF HubInit, RegistryInit, HubInv, SharedInv, OwnerInv, HubTypeOK, BoundInPlace,
    BoundRightfully, AgentIndexOwned, UserIndexExact, AgentIndexCovers,
    StreamsCarried, AgentStreamsLive

\* An agent that connects takes over subdomains of its own user.
LEMMA RegisterAgentOwners ==
    ASSUME HubInv, NEW a \in Agents, NEW es \in EntriesFor(a),
           RegisterAgent(a, es)
    PROVE  OwnerInv'
<1> DEFINE u == AgentUser[a]
           S == SubsOf(es)
           pick(s) == CHOOSE e \in es : SubOf[e.id] = s
<1> USE HubConstants
<1>1. es \subseteq Entry
  BY DEF EntriesFor
<1>2. \A e \in es : /\ SubOf[e.id] \in Subs
                    /\ UserOf[e.id] = u /\ OwnerOf[SubOf[e.id]] = u
  BY <1>1 DEF Entry, EntriesFor, Rightful
<1>3. S \subseteq Subs /\ \A s \in S : OwnerOf[s] = u
  BY <1>2 DEF SubsOf
<1>4. \A s \in S : pick(s) \in es /\ SubOf[pick(s).id] = s
  BY DEF SubsOf
<1>5. \A s \in S : /\ NewTunnel(pick(s)) # NoTunnel
                   /\ UserOf[NewTunnel(pick(s)).id] = u
  BY <1>1, <1>2, <1>4, NewTunnelType
<1>6. \A s \in Subs : tunnels'[s] = IF s \in S THEN NewTunnel(pick(s))
                                               ELSE tunnels[s]
  BY DEF RegisterAgent
<1>7. /\ byAgent' = [byAgent EXCEPT ![a] = S]
      /\ byUser' = [byUser EXCEPT ![u] = @ \cup S]
  BY DEF RegisterAgent
<1>8. u \in Users
  OBVIOUS
<1>9. HubTypeOK
  BY DEF HubInv, SharedInv
<1> HIDE DEF S, pick, u
<1>10. BoundRightfully'
  BY <1>3, <1>5, <1>6 DEF HubInv, OwnerInv, BoundRightfully
<1>11. AgentIndexOwned'
  BY <1>3, <1>7, <1>8, <1>9 DEF HubInv, OwnerInv, HubTypeOK, AgentIndexOwned, u
<1>12. UserIndexExact'
  <2> SUFFICES ASSUME NEW v \in Users
               PROVE  byUser'[v] = {s \in Subs : /\ tunnels'[s] # NoTunnel
                                                 /\ UserOf[tunnels'[s].id] = v}
    BY DEF UserIndexExact
  <2>1. byUser[v] = {s \in Subs : tunnels[s] # NoTunnel /\ OwnerOf[s] = v}
    BY DEF HubInv, OwnerInv, UserIndexExact, BoundRightfully
  <2>2. byUser'[v] = IF v = u THEN byUser[v] \cup S ELSE byUser[v]
    BY <1>7, <1>8, <1>9 DEF HubTypeOK
  <2>3. byUser'[v] = {s \in Subs : tunnels'[s] # NoTunnel /\ OwnerOf[s] = v}
    BY <1>3, <1>5, <1>6, <2>1, <2>2
  <2> QED
    BY <1>10, <2>3 DEF BoundRightfully
<1> QED
  BY <1>10, <1>11, <1>12 DEF OwnerInv

\* A disconnect frees what its user's index has.
LEMMA UnregisterAgentOwners ==
    ASSUME HubInv, NEW a \in Agents, UnregisterAgent(a)
    PROVE  OwnerInv'
<1> USE HubConstants
<1> DEFINE u == AgentUser[a]
           S == byAgent[a]
<1>1. HubTypeOK
  BY DEF HubInv, SharedInv
<1>2. u \in Users /\ S \subseteq Subs /\ \A s \in S : OwnerOf[s] = u
  BY <1>1 DEF HubInv, OwnerInv, HubTypeOK, AgentIndexOwned
<1>3. /\ \A s \in Subs : tunnels'[s] = IF s \in S THEN NoTunnel ELSE tunnels[s]
      /\ byUser' = [byUser EXCEPT ![u] = @ \ S]
      /\ byAgent' = [byAgent EXCEPT ![a] = {}]
  BY DEF UnregisterAgent
<1> HIDE DEF u
<1>4. BoundRightfully'
  BY <1>3 DEF HubInv, OwnerInv, BoundRightfully
<1>5. AgentIndexOwned'
  BY <1>1, <1>3 DEF HubInv, OwnerInv, HubTypeOK, AgentIndexOwned
<1>6. UserIndexExact'
  <2> SUFFICES ASSUME NEW v \in Users
               PROVE  byUser'[v] = {s \in Subs : /\ tunnels'[s] # NoTunnel
                                                 /\ UserOf[tunnels'[s].id] = v}
    BY DEF UserIndexExact
  <2>1. byUser[v] = {s \in Subs : tunnels[s] # NoTunnel /\ OwnerOf[s] = v}
    BY DEF HubInv, OwnerInv, UserIndexExact, BoundRightfully
  <2>2. byUser'[v] = IF v = u THEN byUser[v] \ S ELSE byUser[v]
    BY <1>1, <1>2, <1>3 DEF HubTypeOK
  <2>3. byUser'[v] = {s \in Subs : tunnels'[s] # NoTunnel /\ OwnerOf[s] = v}
    BY <1>2, <1>3, <2>1, <2>2
  <2> QED
    BY <1>4, <2>3 DEF BoundRightfully
<1> QED
  BY <1>4, <1>5, <1>6 DEF OwnerInv

\* A tunnel of the agent's user is bound, or taken over.
LEMMA RegisterTunnelOwners ==
    ASSUME HubInv, NEW a \in Agents, NEW id \in Rightful,
           UserOf[id] = AgentUser[a],
           RegisterTunnel(a, [id |-> id, agent |-> a])
    PROVE  OwnerInv'
<1> USE HubConstants
<1> DEFINE t == NewTunnel([id |-> id, agent |-> a])
           sub == SubOf[id]
           u == AgentUser[a]
<1>1. t.id = id /\ t # NoTunnel
  BY NewTunnelType DEF Entry, Rightful
<1>2. /\ sub \in Subs /\ u \in Users
      /\ OwnerOf[sub] = u /\ UserOf[id] = u
  BY DEF Rightful
<1>3. /\ tunnels' = [tunnels EXCEPT ![sub] = t]
      /\ byAgent' = [byAgent EXCEPT ![a] = @ \cup {sub}]
      /\ byUser' = [byUser EXCEPT ![u] = @ \cup {sub}]
  BY DEF RegisterTunnel
<1>4. HubTypeOK
  BY DEF HubInv, SharedInv
<1> HIDE DEF t, sub, u
<1>5. BoundRightfully'
  BY <1>1, <1>2, <1>3, <1>4 DEF HubInv, OwnerInv, HubTypeOK, BoundRightfully
<1>6. AgentIndexOwned'
  BY <1>2, <1>3, <1>4 DEF HubInv, OwnerInv, HubTypeOK, AgentIndexOwned, u
<1>7. UserIndexExact'
  BY <1>1, <1>2, <1>3, <1>4
  DEF HubInv, OwnerInv, HubTypeOK, UserIndexExact, BoundRightfully
<1> QED
  BY <1>5, <1>6, <1>7 DEF OwnerInv

\* A tunnel that goes leaves the index of its own user.
LEMMA DropTunnelOwners ==
    ASSUME HubInv, NEW id \in Rightful, NEW a \in Agents,
           DropTunnel(SubOf[id], [id |-> id, agent |-> a])
    PROVE  OwnerInv'
<1> USE HubConstants
<1> DEFINE sub == SubOf[id]
           u == UserOf[id]
<1>1. sub \in Subs /\ u \in Users /\ OwnerOf[sub] = u
  BY DEF Rightful
<1>2. /\ tunnels' = [tunnels EXCEPT ![sub] = NoTunnel]
      /\ byAgent' \in {byAgent, [byAgent EXCEPT ![a] = @ \ {sub}]}
      /\ byUser' = [byUser EXCEPT ![u] = @ \ {sub}]
  BY DEF DropTunnel
<1>3. HubTypeOK
  BY DEF HubInv, SharedInv
<1> HIDE DEF sub, u
<1>4. BoundRightfully'
  BY <1>1, <1>2, <1>3 DEF HubInv, OwnerInv, HubTypeOK, BoundRightfully
<1>5. AgentIndexOwned'
  <2>1. \A b \in Agents : byAgent'[b] \subseteq byAgent[b]
    BY <1>2, <1>3 DEF HubTypeOK
  <2> QED
    BY <2>1 DEF HubInv, OwnerInv, AgentIndexOwned
<1>6. UserIndexExact'
  BY <1>1, <1>2, <1>3
  DEF HubInv, OwnerInv, HubTypeOK, UserIndexExact, BoundRightfully
<1> QED
  BY <1>4, <1>5, <1>6 DEF OwnerInv

\* A step that keeps to the owners is a step of the registry.
LEMMA RightfulIsShared ==
    ASSUME HubNext
    PROVE  SharedNext
<1>1. \A a \in Agents : EntriesFor(a) \subseteq SUBSET Entry
  BY DEF EntriesFor
<1>2. Rightful \subseteq Tids
  BY DEF Rightful
<1> QED
  BY <1>1, <1>2 DEF HubNext, SharedNext

\* Every step that keeps to the owners keeps their invariant.
LEMMA NextInv == HubInv /\ [HubNext]_hubVars => HubInv'
<1> SUFFICES ASSUME HubInv, [HubNext]_hubVars PROVE HubInv'
  OBVIOUS
<1>1. SharedInv /\ OwnerInv
  BY DEF HubInv
<1>2. SharedInv'
  BY <1>1, RightfulIsShared, NextShared
<1> SUFFICES OwnerInv'
  BY <1>2 DEF HubInv
<1>3. ASSUME NEW a \in Agents, NEW es \in EntriesFor(a), RegisterAgent(a, es)
      PROVE  OwnerInv'
  BY <1>3, RegisterAgentOwners
<1>4. ASSUME NEW a \in agents, UnregisterAgent(a) PROVE OwnerInv'
  <2>1. a \in Agents
    BY <1>1 DEF SharedInv, HubTypeOK
  <2> QED
    BY <1>4, <2>1, UnregisterAgentOwners
<1>5. ASSUME NEW a \in Agents, NEW id \in Rightful, UserOf[id] = AgentUser[a],
             RegisterTunnel(a, [id |-> id, agent |-> a])
      PROVE  OwnerInv'
  BY <1>5, RegisterTunnelOwners
<1>6. ASSUME NEW id \in Rightful, NEW a \in Agents,
             DropTunnel(SubOf[id], [id |-> id, agent |-> a])
      PROVE  OwnerInv'
  BY <1>6, DropTunnelOwners
<1>7. ASSUME NEW a \in Agents, NEW x \in Streams, carrier[x] = NoAgent,
             AllocStream(a, x)
      PROVE  OwnerInv'
  BY <1>1, <1>7, AllocStreamShared
<1>8. ASSUME NEW x \in Streams, carrier[x] # NoAgent, AddStream(x) PROVE OwnerInv'
  BY <1>1, <1>8, AddStreamShared
<1>9. ASSUME NEW X \in SUBSET {x \in Streams : carrier[x] # NoAgent}, Finish(X)
      PROVE  OwnerInv'
  <2>1. X \in SUBSET Streams /\ \A x \in X : carrier[x] # NoAgent
    OBVIOUS
  <2> QED
    BY <1>1, <1>9, <2>1, FinishShared
<1>10. ASSUME NEW a \in Agents, CloseAgent(a) PROVE OwnerInv'
  BY <1>1, <1>10, CloseAgentShared
<1>11. CASE Restart
  BY <1>1, <1>11, RestartShared
<1>12. CASE UNCHANGED hubVars
  BY <1>1, <1>12
  DEF hubVars, registry, OwnerInv, BoundRightfully, AgentIndexOwned,
      UserIndexExact
<1> QED
  BY <1>3, <1>4, <1>5, <1>6, <1>7, <1>8, <1>9, <1>10, <1>11, <1>12 DEF HubNext

-----------------------------------------------------------------------------
(* What the registry keeps to.                                             *)

\* Whoever calls it in whatever order, and whoever the tunnels belong to:
\* a bound tunnel is bound under its own subdomain and charged to some
\* connection, and an agent's map has only its own live streams.
THEOREM SharedInvariant == SharedSpec => []SharedInv
<1>1. HubInit => SharedInv
  BY InitInv DEF HubInv
<1>2. SharedInv /\ [SharedNext]_hubVars => SharedInv'
  BY NextShared
<1> QED
  BY <1>1, <1>2, PTL DEF SharedSpec

\* Where a subdomain is wanted by one user, the indexes are right as well.
THEOREM HubInvariant == HubSpec => []HubInv
<1>1. HubInit => HubInv
  BY InitInv
<1>2. HubInv /\ [HubNext]_hubVars => HubInv'
  BY NextInv
<1> QED
  BY <1>1, <1>2, PTL DEF HubSpec

\* The index of a user's bound tunnels is never wrong (SnapshotByUser).
THEOREM UserIndexAlwaysExact == HubSpec => []UserIndexExact
<1>1. HubInv => UserIndexExact
  BY DEF HubInv, OwnerInv
<1> QED
  BY <1>1, HubInvariant, PTL

-----------------------------------------------------------------------------
(* Where orphans come from: no operation but one makes a bound tunnel that *)
(* no connected agent's disconnect would unbind.                           *)

\* The steps that bind nothing and charge nothing differently.
LEMMA StreamStepNoOrphan ==
    ASSUME UNCHANGED <<agents, byAgent>>, NEW s \in Subs,
           tunnels'[s] # NoTunnel => tunnels[s] # NoTunnel, Orphan(s)'
    PROVE  Orphan(s)
BY DEF Orphan

LEMMA FinishingNoOrphan ==
    ASSUME NEW X, Finishing(X), NEW s \in Subs, Orphan(s)'
    PROVE  Orphan(s)
<1>1. tunnels'[s] # NoTunnel => tunnels[s] # NoTunnel
  BY DEF Finishing
<1> QED
  BY <1>1, StreamStepNoOrphan DEF Finishing

LEMMA RegisterAgentNoOrphan ==
    ASSUME SharedInv, NEW a \in Agents, byAgent[a] = {}, NEW es,
           RegisterAgent(a, es), NEW s \in Subs, Orphan(s)'
    PROVE  Orphan(s)
<1>1. agents' = agents \cup {a} /\ byAgent' = [byAgent EXCEPT ![a] = SubsOf(es)]
  BY DEF RegisterAgent
<1>2. s \notin SubsOf(es)
  BY <1>1 DEF Orphan, SharedInv, HubTypeOK
<1>3. tunnels'[s] = tunnels[s]
  BY <1>2 DEF RegisterAgent
<1> QED
  BY <1>1, <1>3 DEF Orphan, SharedInv, HubTypeOK

LEMMA UnregisterAgentNoOrphan ==
    ASSUME SharedInv, NEW a \in Agents, UnregisterAgent(a),
           NEW s \in Subs, Orphan(s)'
    PROVE  Orphan(s)
<1>1. s \notin byAgent[a] /\ tunnels'[s] = tunnels[s]
  BY DEF UnregisterAgent, Orphan
<1>2. agents' = agents \ {a} /\ \A b \in agents' : byAgent'[b] = byAgent[b]
  BY DEF UnregisterAgent, SharedInv, HubTypeOK
<1> QED
  BY <1>1, <1>2 DEF Orphan

LEMMA DropTunnelNoOrphan ==
    ASSUME SharedInv, NEW d \in Subs, NEW t, DropTunnel(d, t),
           NEW s \in Subs, Orphan(s)'
    PROVE  Orphan(s)
<1>1. s # d /\ tunnels'[s] = tunnels[s]
  BY DEF DropTunnel, Orphan, SharedInv, HubTypeOK
<1>2. agents' = agents /\ \A b \in agents : s \in byAgent[b] => s \in byAgent'[b]
  BY <1>1 DEF DropTunnel, SharedInv, HubTypeOK
<1> QED
  BY <1>1, <1>2 DEF Orphan

\* The operation that may: the agent it charges must have gone.
LEMMA RegisterTunnelOrphan ==
    ASSUME SharedInv, NEW a \in Agents, NEW e, SubOf[e.id] \in Subs,
           RegisterTunnel(a, e), NEW s \in Subs, ~Orphan(s), Orphan(s)'
    PROVE  SubOf[e.id] = s /\ a \notin agents
<1>1. /\ agents' = agents
      /\ byAgent' = [byAgent EXCEPT ![a] = @ \cup {SubOf[e.id]}]
      /\ tunnels' = [tunnels EXCEPT ![SubOf[e.id]] = NewTunnel(e)]
  BY DEF RegisterTunnel
<1>2. \A b \in agents : s \in byAgent[b] => s \in byAgent'[b]
  BY <1>1 DEF SharedInv, HubTypeOK
<1>3. SubOf[e.id] = s
  BY <1>1, <1>2 DEF Orphan, SharedInv, HubTypeOK
<1> QED
  BY <1>1, <1>3 DEF Orphan, SharedInv, HubTypeOK

\* A disconnect leaves no orphan, nor does any drop, takeover, finished stream
\* or restart: a tunnel becomes one only when it is bound to an agent that is
\* not, or no longer, registered.
THEOREM OrphansOnlyByLateRegister == SharedSpec => OrphansByLateRegister
<1> DEFINE Late(s) == \E a \in Agents \ agents, id \in Tids :
                        /\ SubOf[id] = s
                        /\ RegisterTunnel(a, [id |-> id, agent |-> a])
<1>1. ASSUME SharedInv, SharedNext, NEW s \in Subs, ~Orphan(s), Orphan(s)'
      PROVE  Late(s)
  <2>1. ASSUME NEW a \in Agents, byAgent[a] = {}, NEW es \in SUBSET Entry,
               RegisterAgent(a, es)
        PROVE  FALSE
    BY <1>1, <2>1, RegisterAgentNoOrphan
  <2>2. ASSUME NEW a \in agents, UnregisterAgent(a) PROVE FALSE
    BY <1>1, <2>2, UnregisterAgentNoOrphan DEF SharedInv, HubTypeOK
  <2>3. ASSUME NEW a \in Agents, NEW id \in Tids,
               RegisterTunnel(a, [id |-> id, agent |-> a])
        PROVE  Late(s)
    <3>1. SubOf[[id |-> id, agent |-> a].id] \in Subs
      BY HubConstants
    <3> QED
      BY <1>1, <2>3, <3>1, RegisterTunnelOrphan
  <2>4. ASSUME NEW id \in Tids, NEW a \in Agents,
               DropTunnel(SubOf[id], [id |-> id, agent |-> a])
        PROVE  FALSE
    BY <1>1, <2>4, DropTunnelNoOrphan, HubConstants
  <2>5. ASSUME NEW a \in Agents, NEW x \in Streams, AllocStream(a, x) PROVE FALSE
    BY <1>1, <2>5, StreamStepNoOrphan DEF AllocStream, registry
  <2>6. ASSUME NEW x \in Streams, AddStream(x) PROVE FALSE
    <3>1. tunnels'[s] # NoTunnel => tunnels[s] # NoTunnel
      BY <1>1, <2>6 DEF AddStream, SharedInv, HubTypeOK
    <3> QED
      BY <1>1, <2>6, <3>1, StreamStepNoOrphan DEF AddStream
  <2>7. ASSUME NEW X \in SUBSET {x \in Streams : carrier[x] # NoAgent}, Finish(X)
        PROVE  FALSE
    BY <1>1, <2>7, FinishingNoOrphan DEF Finish
  <2>8. ASSUME NEW a \in Agents, CloseAgent(a) PROVE FALSE
    BY <1>1, <2>8, FinishingNoOrphan DEF CloseAgent
  <2>9. CASE Restart
    BY <1>1, <2>9 DEF Restart, Orphan
  <2> QED
    BY <1>1, <2>1, <2>2, <2>3, <2>4, <2>5, <2>6, <2>7, <2>8, <2>9 DEF SharedNext
<1>2. SharedInv /\ [SharedNext]_hubVars =>
        [\A s \in Subs : ~Orphan(s) /\ Orphan(s)' => Late(s)]_hubVars
  BY <1>1
<1> QED
  BY <1>2, SharedInvariant, PTL DEF SharedSpec, OrphansByLateRegister

-----------------------------------------------------------------------------
(* Streams stay reachable while the numbers of a connection last: fewer    *)
(* streams than there are numbers.                                         *)

FewStreams == IsFiniteSet(Streams) /\ Cardinality(Streams) < IdSpace

StreamInv == SharedInv /\ NumbersCountUp /\ LiveStreamsReachable

\* Before any stream exists.
LEMMA InitStreamInv == HubInit => StreamInv
<1> SUFFICES ASSUME HubInit PROVE StreamInv
  OBVIOUS
<1>1. \A a \in Agents : Carried(a) = {}
  BY HubConstants DEF HubInit, Carried
<1>2. NumbersCountUp /\ LiveStreamsReachable
  BY <1>1, FS_EmptySet, HubConstants
  DEF HubInit, NumbersCountUp, LiveStreamsReachable
<1> QED
  BY <1>2, InitInv DEF StreamInv, HubInv

\* Only AllocStream gives out numbers.
LEMMA SameNumbers ==
    ASSUME NumbersCountUp, UNCHANGED <<nextID, sid, carrier>>
    PROVE  NumbersCountUp'
<1>1. \A a \in Agents : Carried(a)' = Carried(a)
  BY DEF Carried
<1> QED
  BY <1>1 DEF NumbersCountUp

\* The number a stream is given is the count of its agent's streams, and it
\* has not wrapped around.
LEMMA AllocNumber ==
    ASSUME FewStreams, StreamInv,
           NEW a \in Agents, NEW x \in Streams, carrier[x] = NoAgent
    PROVE  /\ NextNumber(nextID[a]) = nextID[a] + 1
           /\ IsFiniteSet(Carried(a))
           /\ x \notin Carried(a)
           /\ nextID[a] \in Nat
<1> USE HubConstants
<1>1. x \notin Carried(a)
  BY DEF Carried
<1>2. Carried(a) \subseteq Streams \ {x}
  BY <1>1 DEF Carried
<1>3. /\ IsFiniteSet(Streams \ {x})
      /\ Cardinality(Streams \ {x}) = Cardinality(Streams) - 1
  BY FS_RemoveElement DEF FewStreams
<1>4. /\ IsFiniteSet(Carried(a))
      /\ Cardinality(Carried(a)) <= Cardinality(Streams \ {x})
  BY <1>2, <1>3, FS_Subset
<1>5. /\ nextID[a] = Cardinality(Carried(a))
      /\ nextID[a] \in 0 .. IdSpace - 1
  BY DEF StreamInv, NumbersCountUp, SharedInv, HubTypeOK
<1>6. Cardinality(Streams) \in Nat
  BY FS_CardinalityType DEF FewStreams
<1>7. nextID[a] + 1 \in 0 .. IdSpace - 1
  BY <1>3, <1>4, <1>5, <1>6 DEF FewStreams
<1>8. NextNumber(nextID[a]) = nextID[a] + 1
  BY <1>7 DEF NextNumber
<1> QED
  BY <1>1, <1>4, <1>5, <1>8

\* A new stream gets a number of its own, and displaces none.
LEMMA AllocStreamReachable ==
    ASSUME FewStreams, StreamInv,
           NEW a \in Agents, NEW x \in Streams, carrier[x] = NoAgent,
           AllocStream(a, x)
    PROVE  NumbersCountUp' /\ LiveStreamsReachable'
<1> USE HubConstants
<1> DEFINE n == nextID[a] + 1
<1>1. /\ NextNumber(nextID[a]) = n /\ n \in Nat
      /\ IsFiniteSet(Carried(a)) /\ x \notin Carried(a)
  BY AllocNumber
<1>2. /\ nextID' = [nextID EXCEPT ![a] = n]
      /\ sid' = [sid EXCEPT ![x] = n]
      /\ carrier' = [carrier EXCEPT ![x] = a]
      /\ agentStreams' = [agentStreams EXCEPT ![a] = WithoutIds(@, {n}) \cup {x}]
      /\ done' = done
  BY <1>1 DEF AllocStream
<1>3. HubTypeOK
  BY DEF StreamInv, SharedInv
<1>4. \A y \in Streams \ {x} : carrier[y] = a => sid[y] \in 1 .. nextID[a]
  BY DEF StreamInv, NumbersCountUp
<1>5. \A b \in Agents : nextID'[b] = Cardinality(Carried(b)')
  <2> TAKE b \in Agents
  <2>1. CASE b = a
    <3>1. Carried(a)' = Carried(a) \cup {x}
      BY <1>2, <1>3 DEF Carried, HubTypeOK
    <3>2. Cardinality(Carried(a) \cup {x}) = Cardinality(Carried(a)) + 1
      BY <1>1, FS_AddElement
    <3> QED
      BY <1>2, <1>3, <2>1, <3>1, <3>2 DEF HubTypeOK, StreamInv, NumbersCountUp
  <2>2. CASE b # a
    <3>1. Carried(b)' = Carried(b)
      BY <1>2, <1>3, <2>2 DEF Carried, HubTypeOK
    <3> QED
      BY <1>2, <1>3, <2>2, <3>1 DEF HubTypeOK, StreamInv, NumbersCountUp
  <2> QED
    BY <2>1, <2>2
<1>6. \A y \in Streams :
        carrier'[y] # NoAgent => sid'[y] \in 1 .. nextID'[carrier'[y]]
  <2> SUFFICES ASSUME NEW y \in Streams, carrier'[y] # NoAgent
               PROVE  sid'[y] \in 1 .. nextID'[carrier'[y]]
    OBVIOUS
  <2>1. CASE y = x
    BY <1>1, <1>2, <1>3, <2>1 DEF HubTypeOK
  <2>2. CASE y # x
    <3>1. carrier'[y] = carrier[y] /\ sid'[y] = sid[y] /\ carrier[y] \in Agents
      BY <1>2, <1>3, <2>2 DEF HubTypeOK
    <3>2. sid[y] \in 1 .. nextID[carrier[y]]
      BY <3>1 DEF StreamInv, NumbersCountUp
    <3>3. nextID[carrier[y]] \in Nat /\ nextID'[carrier[y]] >= nextID[carrier[y]]
      BY <1>2, <1>3, <3>1 DEF HubTypeOK
    <3> QED
      BY <1>2, <1>3, <3>1, <3>2, <3>3 DEF HubTypeOK
  <2> QED
    BY <2>1, <2>2
<1>7. \A y, z \in Streams :
        carrier'[y] # NoAgent /\ carrier'[y] = carrier'[z] /\ sid'[y] = sid'[z]
          => y = z
  <2> SUFFICES ASSUME NEW y \in Streams, NEW z \in Streams,
                      carrier'[y] # NoAgent, carrier'[y] = carrier'[z],
                      sid'[y] = sid'[z], y # z
               PROVE  FALSE
    OBVIOUS
  <2>1. \A w \in Streams \ {x} : carrier'[w] = carrier[w] /\ sid'[w] = sid[w]
    BY <1>2, <1>3 DEF HubTypeOK
  <2>2. carrier'[x] = a /\ sid'[x] = n
    BY <1>2, <1>3 DEF HubTypeOK
  <2>3. \A w \in Streams \ {x} : carrier'[w] = a => sid'[w] # n
    BY <1>1, <1>3, <1>4, <2>1 DEF HubTypeOK
  <2>4. y # x /\ z # x
    BY <2>2, <2>3
  <2> QED
    BY <2>1, <2>4 DEF StreamInv, NumbersCountUp
<1>8. NumbersCountUp'
  BY <1>5, <1>6, <1>7 DEF NumbersCountUp
<1>9. LiveStreamsReachable'
  <2> SUFFICES ASSUME NEW y \in Streams, carrier'[y] # NoAgent, y \notin done'
               PROVE  y \in agentStreams'[carrier'[y]]
    BY DEF LiveStreamsReachable
  <2>1. CASE y = x
    BY <1>2, <1>3, <2>1 DEF HubTypeOK
  <2>2. CASE y # x
    <3>1. carrier'[y] = carrier[y] /\ y \in agentStreams[carrier[y]]
          /\ carrier[y] \in Agents
      BY <1>2, <1>3, <2>2 DEF HubTypeOK, StreamInv, LiveStreamsReachable
    <3>2. carrier[y] = a => sid[y] # n
      BY <1>1, <1>3, <1>4, <2>2 DEF HubTypeOK
    <3> QED
      BY <1>2, <1>3, <3>1, <3>2 DEF HubTypeOK, WithoutIds
  <2> QED
    BY <2>1, <2>2
<1> QED
  BY <1>8, <1>9

\* What Finish takes out of an agent's map are the streams it finishes: a
\* number never stands for another stream.
LEMMA FinishReachable ==
    ASSUME StreamInv,
           NEW X \in SUBSET Streams, \A x \in X : carrier[x] # NoAgent,
           Finish(X)
    PROVE  LiveStreamsReachable'
<1> USE HubConstants
<1> DEFINE gone(a) == {sid[x] : x \in {z \in X \ done : carrier[z] = a}}
<1>1. agentStreams' = [a \in Agents |-> WithoutIds(agentStreams[a], gone(a))]
  BY DEF Finish
<1>2. done' = done \cup X /\ UNCHANGED <<carrier, sid>>
  BY DEF Finish, Finishing
<1> SUFFICES ASSUME NEW y \in Streams, carrier'[y] # NoAgent, y \notin done'
             PROVE  y \in agentStreams'[carrier'[y]]
  BY DEF LiveStreamsReachable
<1> DEFINE b == carrier[y]
<1>3. b \in Agents /\ y \in agentStreams[b]
  BY <1>2 DEF StreamInv, SharedInv, HubTypeOK, LiveStreamsReachable
<1>4. sid[y] \notin gone(b)
  BY <1>2, <1>3 DEF StreamInv, NumbersCountUp
<1>5. y \in WithoutIds(agentStreams[b], gone(b))
  BY <1>3, <1>4 DEF WithoutIds
<1> QED
  BY <1>1, <1>2, <1>3, <1>5

\* Close empties one agent's map and finishes all that was in it.
LEMMA CloseReachable ==
    ASSUME StreamInv, NEW a \in Agents, CloseAgent(a)
    PROVE  LiveStreamsReachable'
<1> USE HubConstants
<1>1. /\ agentStreams' = [agentStreams EXCEPT ![a] = {}]
      /\ carrier' = carrier
      /\ done' = done \cup (agentStreams[a] \ done)
  BY DEF CloseAgent, Finishing
<1> QED
  BY <1>1 DEF StreamInv, SharedInv, HubTypeOK, LiveStreamsReachable

\* Every step keeps the streams reachable.
LEMMA NextStreamInv ==
    ASSUME FewStreams, StreamInv, [SharedNext]_hubVars
    PROVE  StreamInv'
<1>1. SharedInv'
  BY NextShared DEF StreamInv
<1> SUFFICES NumbersCountUp' /\ LiveStreamsReachable'
  BY <1>1 DEF StreamInv
<1>2. ASSUME UNCHANGED streamVars
      PROVE  NumbersCountUp' /\ LiveStreamsReachable'
  BY <1>2, SameNumbers DEF streamVars, StreamInv, LiveStreamsReachable
<1>3. CASE \/ \E a \in Agents : \E es \in SUBSET Entry : RegisterAgent(a, es)
           \/ \E a \in agents : UnregisterAgent(a)
           \/ \E a \in Agents, id \in Tids :
                RegisterTunnel(a, [id |-> id, agent |-> a])
           \/ \E id \in Tids, a \in Agents :
                DropTunnel(SubOf[id], [id |-> id, agent |-> a])
           \/ \E x \in Streams : AddStream(x)
           \/ UNCHANGED hubVars
  BY <1>2, <1>3
  DEF RegisterAgent, UnregisterAgent, RegisterTunnel, DropTunnel, AddStream,
      hubVars, streamVars
<1>4. ASSUME NEW a \in Agents, NEW x \in Streams, carrier[x] = NoAgent,
             AllocStream(a, x)
      PROVE  NumbersCountUp' /\ LiveStreamsReachable'
  BY <1>1, <1>4, AllocStreamReachable
<1>5. ASSUME NEW X \in SUBSET {x \in Streams : carrier[x] # NoAgent}, Finish(X)
      PROVE  NumbersCountUp' /\ LiveStreamsReachable'
  <2>1. X \in SUBSET Streams /\ \A x \in X : carrier[x] # NoAgent
    OBVIOUS
  <2>2. UNCHANGED <<nextID, sid, carrier>>
    BY <1>5 DEF Finish, Finishing
  <2> QED
    BY <1>5, <2>1, <2>2, SameNumbers, FinishReachable DEF StreamInv
<1>6. ASSUME NEW a \in Agents, CloseAgent(a)
      PROVE  NumbersCountUp' /\ LiveStreamsReachable'
  <2>1. UNCHANGED <<nextID, sid, carrier>>
    BY <1>6 DEF CloseAgent, Finishing
  <2> QED
    BY <1>6, <2>1, SameNumbers, CloseReachable DEF StreamInv
<1>7. CASE Restart
  <2>1. UNCHANGED <<nextID, sid, carrier>>
        /\ done' = {x \in Streams : carrier[x] # NoAgent}
    BY <1>7 DEF Restart
  <2>2. LiveStreamsReachable'
    BY <2>1 DEF LiveStreamsReachable
  <2> QED
    BY <2>1, <2>2, SameNumbers DEF StreamInv
<1> QED
  BY <1>3, <1>4, <1>5, <1>6, <1>7 DEF SharedNext

\* With fewer streams than numbers, a stream that runs can always be reached
\* through its agent, by frames and by Close.
THEOREM StreamsAlwaysReachable ==
    ASSUME FewStreams
    PROVE  SharedSpec => []LiveStreamsReachable
<1>1. HubInit => StreamInv
  BY InitStreamInv
<1>2. StreamInv /\ [SharedNext]_hubVars => StreamInv'
  BY NextStreamInv
<1>3. StreamInv => LiveStreamsReachable
  BY DEF StreamInv
<1> QED
  BY <1>1, <1>2, <1>3, PTL DEF SharedSpec

=============================================================================
