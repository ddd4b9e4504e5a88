------------------------ MODULE TunnelLifecycleProofs ------------------------
(***************************************************************************)
(* The lifecycle uses the registry as it is meant to be used, for every    *)
(* set of agents, calls, tunnels and connections, with stores that fail,   *)
(* handlers that act on what has gone stale, and restarts; and whatever    *)
(* interleaving of them, a row ends by its deadline or by its own delete.  *)
(*                                                                         *)
(* The inductive invariant says what each process may believe at each of   *)
(* its steps.  A step of one process disturbs the others only through the  *)
(* few facts the frame lemmas name, so that the lemma of a step only has   *)
(* to show that its own process goes on well.                              *)
(***************************************************************************)
EXTENDS TunnelLifecycle, TunnelHubProofs

\* A subdomain is wanted by the tunnels of one user: so it is with random
\* subdomains, and with the custom ones of users that do not contend.
OneOwner == \A id \in Tids : UserOf[id] = OwnerOf[SubOf[id]]

\* A tunnel of user u wants subdomain s.
Wants(u, s) == \E id \in Tids : SubOf[id] = s /\ UserOf[id] = u

\* A step uses the registry as its theorems ask; the one about the owners
\* asks for more.
HubStep ==
    /\ [SharedNext]_hubVars
    /\ OneOwner => [HubNext]_hubVars

-----------------------------------------------------------------------------
(* The inductive invariant.                                                *)

\* A key holds an entry of its own subdomain, and a user's set has subdomains
\* that the user's tunnels want.
CacheInv ==
    /\ key \in [Subs -> CacheEntry \cup {NoEntry}]
    /\ hold \in [Subs -> {"idle", "deadline"}]
    /\ mine \in [Users -> SUBSET Subs]
    /\ \A s \in Subs : key[s] # NoEntry => SubOf[key[s].id] = s
    /\ \A u \in Users : \A s \in mine[u] : Wants(u, s)

\* The UNIQUE subdomain.
TableInv ==
    /\ row \in [Tids -> Row]
    /\ late \subseteq Tids
    /\ \A i, j \in Tids : /\ row[i].status # "none"
                          /\ row[j].status # "none"
                          /\ SubOf[i] = SubOf[j]
                          => i = j

Waiting == {"off", "claim", "list"}
Serving == {"up", "closing", "gone", "rearm"}

\* What agent a has collected when it registers are entries of subdomains its
\* own user wants, one for each.
ConnGood(a, c) ==
    /\ c \in ConnState
    /\ c.pc = "off" => c.got = {}
    /\ c.pc = "claim" => c.todo \subseteq Tids /\ c.got = {}
    /\ c.pc = "list" =>
         /\ c.todo \subseteq Subs
         /\ \A s \in c.todo : Wants(AgentUser[a], s)
         /\ \A e \in c.got : /\ Wants(AgentUser[a], SubOf[e.id])
                             /\ SubOf[e.id] \notin c.todo
         /\ \A e, f \in c.got : SubOf[e.id] = SubOf[f.id] => e = f
    /\ c.pc \in {"gone", "rearm"} => c.todo \subseteq Subs
    /\ c.pc = "rearm" => c.entry \in CacheEntry

ConnInv ==
    /\ conn \in [Agents -> ConnState]
    /\ \A a \in Agents : ConnGood(a, conn[a])

\* An agent registers once, and is charged with nothing before it does.
Registered ==
    \A a \in Agents :
        /\ a \in agents <=> conn[a].pc \in Serving
        /\ conn[a].pc \in Waiting => byAgent[a] = {}

Creating  == {"dup", "name", "put", "record"}
Binding   == {"bindput", "register"}
Unbinding == {"lookup", "drop"}

\* What a call holds, however stale, is about the subdomain it was asked for.
OfSub(q, id) == id \in Tids /\ SubOf[id] = SubOf[q.id]

ReqGood(q) ==
    /\ q \in ReqState
    /\ q.op # "none" => q.id \in Tids
    /\ q.pc \in Creating => q.op = "create"
    /\ q.pc \in Binding \cup {"bind"} => q.op \in {"create", "resume"}
    /\ q.pc = "peek" => q.op \in {"pause", "resume"}
    /\ q.pc \in Unbinding => q.op \in {"pause", "delete"}
    /\ q.pc = "remove" => q.op \in {"create", "pause", "delete"}
    /\ q.pc = "reput" => q.op \in {"pause", "resume"}
    /\ q.pc \in {"expire", "deactivate"} => q.op = "delete"
    /\ q.pc \notin {"free", "done", "peek", "deactivate"} =>
         q.entry \in CacheEntry /\ OfSub(q, q.entry.id)
    /\ q.pc = "deactivate" /\ q.entry # NoEntry => OfSub(q, q.entry.id)
    /\ q.bound # NoTunnel => OfSub(q, q.bound.id)
    /\ q.pc \in {"drop", "expire"} => q.bound # NoTunnel
    /\ q.pc \in Binding => /\ q.entry.agent \in Agents
                           /\ AgentUser[q.entry.agent] = UserOf[q.id]

ReqInv ==
    /\ req \in [Reqs -> ReqState]
    /\ \A r \in Reqs : ReqGood(req[r])

\* The agent a call binds to has registered, though it may be gone since.
BindsRegistered ==
    \A r \in Reqs : req[r].pc \in Binding =>
        conn[req[r].entry.agent].pc \notin Waiting

\* A delete is of a tunnel that has its row.
DeletesRecorded ==
    \A r \in Reqs : req[r].op = "delete" => row[req[r].id].status # "none"

SweepGood(w) ==
    /\ w \in SweepState
    /\ w.pc \in {"close", "drop", "remove"} => w.bound \in Tunnel

\* The tunnels of the snapshot whose streams the sweeper may still close.
ToClose(w) == w.todo \cup (IF w.pc = "close" THEN {w.bound} ELSE {})

\* The streams of the snapshot were carried when it was taken.
SweepCarried ==
    \A t \in ToClose(sweep) : \A x \in t.streams : carrier[x] # NoAgent

\* A connection gets its agent when its stream is allocated, once.
RouteInv ==
    /\ route \in [Streams -> RouteState]
    /\ \A x \in Streams :
         /\ route[x].pc \in {"new", "lookup", "alloc"} => carrier[x] = NoAgent
         /\ route[x].pc \in {"add", "relay"} => carrier[x] # NoAgent
         /\ route[x].pc = "alloc" => route[x].agent \in Agents

LifecycleInv ==
    /\ SharedInv
    /\ CacheInv
    /\ TableInv
    /\ ConnInv
    /\ Registered
    /\ ReqInv
    /\ BindsRegistered
    /\ DeletesRecorded
    /\ SweepGood(sweep)
    /\ SweepCarried
    /\ RouteInv
    /\ restarts \in 0 .. MaxRestarts

-----------------------------------------------------------------------------
(* How the registry is used.                                               *)

\* A step that keeps to the owners.
LEMMA UsesRightly ==
    ASSUME HubNext
    PROVE  HubStep
BY RightfulIsShared DEF HubStep

-----------------------------------------------------------------------------
(* The stores.                                                             *)

\* A put, with any entry.
LEMMA PutInv ==
    ASSUME CacheInv, NEW e \in CacheEntry,
           NEW ttl \in {"idle", "deadline"}, PutTunnel(e, ttl)
    PROVE  CacheInv'
<1> USE HubConstants
<1>1. CASE e.id \in late
  BY <1>1 DEF PutTunnel, cacheVars, CacheInv
<1>2. CASE e.id \notin late
  <2>1. PICK s \in Subs, u \in Users : /\ s = SubOf[e.id] /\ u = UserOf[e.id]
                                      /\ Wants(u, s)
    BY DEF CacheEntry, Wants
  <2>2. /\ key' = [key EXCEPT ![s] = e]
        /\ hold' = [hold EXCEPT ![s] = ttl]
        /\ mine' = [mine EXCEPT ![u] = @ \cup {s}]
    BY <1>2, <2>1 DEF PutTunnel
  <2> QED
    BY <2>1, <2>2 DEF CacheInv
<1> QED
  BY <1>1, <1>2

\* A hit that slides the key.
LEMMA SlideInv ==
    ASSUME CacheInv, NEW s \in Subs, Slide(s)
    PROVE  CacheInv'
BY DEF CacheInv, Slide

\* A removal, whoever's entry is there.
LEMMA RemoveInv ==
    ASSUME CacheInv, NEW id \in Tids, RemoveTunnel(id)
    PROVE  CacheInv'
<1> USE HubConstants
<1>1. PICK s \in Subs, u \in Users : s = SubOf[id] /\ u = UserOf[id]
  OBVIOUS
<1>2. /\ key' = [key EXCEPT ![s] = NoEntry]
      /\ hold' = [hold EXCEPT ![s] = "idle"]
      /\ mine' = [mine EXCEPT ![u] = @ \ {s}]
  BY <1>1 DEF RemoveTunnel
<1> QED
  BY <1>1, <1>2 DEF CacheInv

\* The cache goes on as it was.
LEMMA SameCache ==
    ASSUME CacheInv, UNCHANGED cacheVars
    PROVE  CacheInv'
BY DEF CacheInv, cacheVars

\* The table goes on as it was.
LEMMA SameTable ==
    ASSUME TableInv, UNCHANGED <<row, late>>
    PROVE  /\ TableInv'
           /\ \A id \in Tids : row[id].status # "none" => row'[id].status # "none"
BY DEF TableInv

\* A row that is there is deactivated, and stays.
LEMMA DeactivateInv ==
    ASSUME TableInv, NEW ids, DeactivateTunnels(ids), UNCHANGED late
    PROVE  /\ TableInv'
           /\ \A id \in Tids : row[id].status # "none" => row'[id].status # "none"
<1>1. \A id \in Tids :
        /\ row'[id] \in Row
        /\ row[id].status # "none" <=> row'[id].status # "none"
  <2> SUFFICES ASSUME NEW id \in Tids
               PROVE  /\ row'[id] \in Row
                      /\ row[id].status # "none" <=> row'[id].status # "none"
    OBVIOUS
  <2>1. PICK w \in Row : w = row[id]
    BY DEF TableInv
  <2>2. CASE id \in ids /\ w.status # "none"
    <3>1. row'[id] = [w EXCEPT !.status = "inactive"]
      BY <2>1, <2>2 DEF DeactivateTunnels
    <3> QED
      BY <2>1, <2>2, <3>1 DEF Row
  <2>3. CASE ~(id \in ids /\ w.status # "none")
    BY <2>1, <2>3 DEF DeactivateTunnels
  <2> QED
    BY <2>2, <2>3
<1>2. row' = [id \in Tids |-> row'[id]]
  BY DEF DeactivateTunnels
<1>3. row' \in [Tids -> Row]
  BY <1>1, <1>2
<1> QED
  BY <1>1, <1>3 DEF TableInv

-----------------------------------------------------------------------------
(* The frame: what a step of one process owes to the others.               *)

\* A step of connection a, which becomes c.
LEMMA ConnFrame ==
    ASSUME LifecycleInv, HubStep,
           NEW a \in Agents, NEW c,
           conn' = [conn EXCEPT ![a] = c], ConnGood(a, c),
           a \in agents' <=> c.pc \in Serving,
           c.pc \in Waiting => conn[a].pc \in Waiting /\ byAgent'[a] = {},
           \A b \in Agents \ {a} : /\ b \in agents' <=> b \in agents
                                   /\ byAgent[b] = {} => byAgent'[b] = {},
           CacheInv',
           UNCHANGED <<carrier, row, late, req, sweep, route, restarts>>
    PROVE  LifecycleInv'
<1>1. SharedInv'
  BY NextShared DEF LifecycleInv, HubStep
<1>2. TableInv'
  BY SameTable DEF LifecycleInv
<1>3. conn'[a] = c /\ \A b \in Agents \ {a} : conn'[b] = conn[b]
  BY DEF LifecycleInv, ConnInv
<1>4. ConnInv'
  BY <1>3 DEF LifecycleInv, ConnInv, ConnGood
<1>5. Registered'
  BY <1>3 DEF LifecycleInv, Registered
<1>6. ReqInv' /\ DeletesRecorded'
  BY DEF LifecycleInv, ReqInv, DeletesRecorded
<1>7. BindsRegistered'
  BY <1>3 DEF LifecycleInv, ReqInv, ReqGood, BindsRegistered
<1>8. SweepGood(sweep') /\ SweepCarried' /\ RouteInv'
      /\ restarts' \in 0 .. MaxRestarts
  BY DEF LifecycleInv, SweepCarried, ToClose, RouteInv
<1> QED
  BY <1>1, <1>2, <1>4, <1>5, <1>6, <1>7, <1>8 DEF LifecycleInv

\* A step of call r, which becomes q.
LEMMA ReqFrame ==
    ASSUME LifecycleInv, HubStep,
           NEW r \in Reqs, NEW q,
           req' = [req EXCEPT ![r] = q], ReqGood(q),
           q.pc \in Binding => conn[q.entry.agent].pc \notin Waiting,
           q.op = "delete" => row'[q.id].status # "none",
           \A b \in Agents : conn[b].pc \in Waiting => byAgent'[b] = {},
           CacheInv', TableInv',
           \A id \in Tids : row[id].status # "none" => row'[id].status # "none",
           UNCHANGED <<agents, carrier, conn, sweep, route, restarts>>
    PROVE  LifecycleInv'
<1>1. SharedInv'
  BY NextShared DEF LifecycleInv, HubStep
<1>2. req'[r] = q /\ \A p \in Reqs \ {r} : req'[p] = req[p]
  BY DEF LifecycleInv, ReqInv
<1>3. ConnInv' /\ Registered'
  BY DEF LifecycleInv, ConnInv, Registered
<1>4. ReqInv'
  BY <1>2 DEF LifecycleInv, ReqInv, ReqGood
<1>5. BindsRegistered'
  BY <1>2 DEF LifecycleInv, BindsRegistered
<1>6. DeletesRecorded'
  BY <1>2 DEF LifecycleInv, ReqInv, ReqGood, DeletesRecorded
<1>7. SweepGood(sweep') /\ SweepCarried' /\ RouteInv'
      /\ restarts' \in 0 .. MaxRestarts
  BY DEF LifecycleInv, SweepCarried, ToClose, RouteInv
<1> QED
  BY <1>1, <1>3, <1>4, <1>5, <1>6, <1>7 DEF LifecycleInv

\* A step of the sweeper.
LEMMA SweepFrame ==
    ASSUME LifecycleInv, HubStep,
           SweepGood(sweep'), SweepCarried',
           \A b \in Agents : byAgent[b] = {} => byAgent'[b] = {},
           CacheInv', TableInv',
           \A id \in Tids : row[id].status # "none" => row'[id].status # "none",
           UNCHANGED <<agents, carrier, conn, req, route, restarts>>
    PROVE  LifecycleInv'
<1>1. SharedInv'
  BY NextShared DEF LifecycleInv, HubStep
<1>2. ConnInv' /\ Registered'
  BY DEF LifecycleInv, ConnInv, Registered
<1>3. ReqInv' /\ BindsRegistered'
  BY DEF LifecycleInv, ReqInv, BindsRegistered
<1>4. DeletesRecorded'
  BY DEF LifecycleInv, ReqInv, ReqGood, DeletesRecorded
<1>5. RouteInv' /\ restarts' \in 0 .. MaxRestarts
  BY DEF LifecycleInv, RouteInv
<1> QED
  BY <1>1, <1>2, <1>3, <1>4, <1>5 DEF LifecycleInv

\* A step of a public connection.
LEMMA RouteFrame ==
    ASSUME LifecycleInv, HubStep, RouteInv', CacheInv',
           UNCHANGED <<agents, byAgent, conn, req, sweep, row, late, restarts>>
    PROVE  LifecycleInv'
<1>1. /\ SharedInv'
      /\ \A x \in Streams : carrier[x] # NoAgent => carrier'[x] = carrier[x]
  BY NextShared DEF LifecycleInv, HubStep
<1>2. TableInv'
  BY SameTable DEF LifecycleInv
<1>3. ConnInv' /\ Registered'
  BY DEF LifecycleInv, ConnInv, Registered
<1>4. ReqInv' /\ BindsRegistered' /\ DeletesRecorded'
  BY DEF LifecycleInv, ReqInv, BindsRegistered, DeletesRecorded
<1>5. SweepGood(sweep') /\ restarts' \in 0 .. MaxRestarts
  BY DEF LifecycleInv
<1>6. SweepCarried'
  <2>1. \A t \in ToClose(sweep) : t.streams \subseteq Streams
    <3>1. ToClose(sweep) \subseteq Tunnel
      BY DEF LifecycleInv, SweepGood, SweepState, ToClose
    <3> QED
      BY <3>1 DEF Tunnel
  <2> QED
    BY <1>1, <2>1 DEF LifecycleInv, SweepCarried, ToClose
<1> QED
  BY <1>1, <1>2, <1>3, <1>4, <1>5, <1>6 DEF LifecycleInv

\* Of a step that leaves the registry alone.
LEMMA SameHub ==
    ASSUME UNCHANGED hubVars
    PROVE  /\ HubStep
           /\ UNCHANGED <<agents, byAgent, carrier>>
BY DEF HubStep, hubVars, registry, streamVars

-----------------------------------------------------------------------------
(* The start.                                                              *)

LEMMA InitLifecycleInv ==
    ASSUME Init
    PROVE  LifecycleInv
<1> USE HubConstants, LifecycleConstants
<1>1. SharedInv
  BY InitInv DEF Init, HubInv
<1>2. PICK keyed \in SUBSET PreRecorded :
        key = [s \in Subs |->
                 IF \E id \in keyed : SubOf[id] = s
                 THEN [id |-> CHOOSE id \in keyed : SubOf[id] = s,
                       agent |-> NoAgent, enabled |-> TRUE]
                 ELSE NoEntry]
  BY DEF Init
<1>3. \A s \in Subs : \/ key[s] = NoEntry
                      \/ /\ key[s] \in CacheEntry
                         /\ SubOf[key[s].id] = s
  BY <1>2 DEF CacheEntry
<1>4. CacheInv
  <2>1. key \in [Subs -> CacheEntry \cup {NoEntry}]
    BY <1>2, <1>3
  <2> QED
    BY <1>3, <2>1 DEF Init, CacheInv, CacheEntry, Wants
<1>5. TableInv
  BY DEF Init, TableInv, Row
<1>6. ConnInv /\ Registered
  BY DEF Init, HubInit, RegistryInit, ConnInv, ConnGood, ConnState, IdleConn,
         Registered, Serving, Waiting
<1>7. ReqInv /\ BindsRegistered /\ DeletesRecorded
  BY DEF Init, ReqInv, ReqGood, ReqState, IdleReq, BindsRegistered,
         DeletesRecorded, Creating, Binding, Unbinding
<1>8. SweepGood(sweep) /\ SweepCarried
  BY DEF Init, SweepGood, SweepState, IdleSweep, SweepCarried, ToClose
<1>9. RouteInv /\ restarts \in 0 .. MaxRestarts
  BY DEF Init, HubInit, RouteInv, RouteState, IdleRoute
<1> QED
  BY <1>1, <1>4, <1>5, <1>6, <1>7, <1>8, <1>9 DEF LifecycleInv

-----------------------------------------------------------------------------
(* The agent connections.                                                  *)

LEMMA ConnectInv ==
    ASSUME LifecycleInv, NEW a \in Agents, Connect(a)
    PROVE  LifecycleInv' /\ HubStep
<1>1. PICK c : /\ c \in ConnState /\ c = conn[a] /\ ConnGood(a, c)
               /\ c.pc = "off" /\ byAgent[a] = {} /\ a \notin agents
  BY DEF LifecycleInv, ConnInv, Registered, Connect, Waiting, Serving
<1>2. PICK ids \in SUBSET Tids :
        conn' = [conn EXCEPT ![a].pc = "claim", ![a].todo = ids]
  BY DEF Connect, ActiveTunnelsForUser
<1>3. conn' = [conn EXCEPT ![a] = [c EXCEPT !.pc = "claim", !.todo = ids]]
  BY <1>1, <1>2 DEF LifecycleInv, ConnInv
<1>4. /\ UNCHANGED <<hubVars, cacheVars>>
      /\ UNCHANGED <<row, late, req, sweep, route, restarts>>
  BY DEF Connect, storeVars
<1>5. ConnGood(a, [c EXCEPT !.pc = "claim", !.todo = ids])
  BY <1>1 DEF ConnGood, ConnState
<1> QED
  BY <1>1, <1>3, <1>4, <1>5, ConnFrame, SameHub, SameCache
  DEF LifecycleInv, Waiting, Serving, ConnState

LEMMA ClaimInv ==
    ASSUME LifecycleInv, NEW a \in Agents, Claim(a)
    PROVE  LifecycleInv' /\ HubStep
<1>1. PICK c : /\ c \in ConnState /\ c = conn[a] /\ ConnGood(a, c)
               /\ c.pc = "claim" /\ byAgent[a] = {} /\ a \notin agents
  BY DEF LifecycleInv, ConnInv, Registered, Claim, Waiting, Serving
<1>2. PICK id \in c.todo :
        /\ Ignoring(PutTunnel([id |-> id, agent |-> a, enabled |-> TRUE],
                              "idle"),
                    UNCHANGED cacheVars)
        /\ conn' = [conn EXCEPT ![a].todo = @ \ {id}]
  BY <1>1 DEF Claim
<1>3. conn' = [conn EXCEPT ![a] = [c EXCEPT !.todo = @ \ {id}]]
  BY <1>1, <1>2 DEF LifecycleInv, ConnInv
<1>4. /\ UNCHANGED hubVars
      /\ UNCHANGED <<row, late, req, sweep, route, restarts>>
  BY DEF Claim
<1>5. ConnGood(a, [c EXCEPT !.todo = @ \ {id}])
  BY <1>1 DEF ConnGood, ConnState
<1>6. CacheInv'
  <2>1. [id |-> id, agent |-> a, enabled |-> TRUE] \in CacheEntry
    BY <1>1, <1>2 DEF CacheEntry, ConnGood
  <2> QED
    BY <1>2, <2>1, PutInv, SameCache DEF Ignoring, LifecycleInv
<1> QED
  BY <1>1, <1>3, <1>4, <1>5, <1>6, ConnFrame, SameHub
  DEF LifecycleInv, Waiting, Serving, ConnState

\* The user's set has subdomains of the user.
LEMMA ListTunnelsInv ==
    ASSUME LifecycleInv, NEW a \in Agents, ListTunnels(a)
    PROVE  LifecycleInv' /\ HubStep
<1>1. PICK c : /\ c \in ConnState /\ c = conn[a] /\ ConnGood(a, c)
               /\ c.pc = "claim" /\ byAgent[a] = {} /\ a \notin agents
  BY DEF LifecycleInv, ConnInv, Registered, ListTunnels, Waiting, Serving
<1>2. PICK subs :
        /\ subs = mine[AgentUser[a]] \/ subs = {}
        /\ conn' = [conn EXCEPT ![a].pc = "list", ![a].todo = subs]
  BY DEF ListTunnels
<1>3. conn' = [conn EXCEPT ![a] = [c EXCEPT !.pc = "list", !.todo = subs]]
  BY <1>1, <1>2 DEF LifecycleInv, ConnInv
<1>4. /\ UNCHANGED <<hubVars, cacheVars>>
      /\ UNCHANGED <<row, late, req, sweep, route, restarts>>
  BY DEF ListTunnels, storeVars
<1>5. subs \subseteq Subs /\ \A s \in subs : Wants(AgentUser[a], s)
  BY <1>2, HubConstants DEF LifecycleInv, CacheInv
<1>6. ConnGood(a, [c EXCEPT !.pc = "list", !.todo = subs])
  BY <1>1, <1>5 DEF ConnGood, ConnState
<1> QED
  BY <1>1, <1>3, <1>4, <1>6, ConnFrame, SameHub, SameCache
  DEF LifecycleInv, Waiting, Serving, ConnState

\* What is collected is one entry for the subdomain read.
LEMMA ReadEntryInv ==
    ASSUME LifecycleInv, NEW a \in Agents, ReadEntry(a)
    PROVE  LifecycleInv' /\ HubStep
<1> USE HubConstants
<1>1. PICK c : /\ c \in ConnState /\ c = conn[a] /\ ConnGood(a, c)
               /\ c.pc = "list" /\ byAgent[a] = {} /\ a \notin agents
  BY DEF LifecycleInv, ConnInv, Registered, ReadEntry, Waiting, Serving
<1>2. PICK s \in c.todo :
        /\ Slide(s) \/ UNCHANGED cacheVars
        /\ \/ conn' = [conn EXCEPT
                         ![a].todo = @ \ {s},
                         ![a].got = @ \cup {e \in Found(s) : e.agent # NoAgent}]
           \/ conn' = [conn EXCEPT ![a].todo = @ \ {s}]
  BY <1>1 DEF ReadEntry, Ignoring
<1>3. PICK new :
        /\ new = {} \/ new = {e \in Found(s) : e.agent # NoAgent}
        /\ \/ conn' = [conn EXCEPT ![a] = [c EXCEPT !.todo = @ \ {s},
                                                   !.got = @ \cup new]]
           \/ new = {} /\ conn' = [conn EXCEPT ![a] = [c EXCEPT !.todo = @ \ {s}]]
  BY <1>1, <1>2 DEF LifecycleInv, ConnInv
<1>4. /\ UNCHANGED hubVars
      /\ UNCHANGED <<row, late, req, sweep, route, restarts>>
  BY DEF ReadEntry
<1>5. s \in Subs /\ Wants(AgentUser[a], s)
  BY <1>1, <1>2 DEF ConnGood
<1>6. /\ new \subseteq Entry
      /\ \A e \in new : SubOf[e.id] = s
      /\ \A e, f \in new : e = f
  <2>1. CASE key[s] = NoEntry
    BY <1>3, <2>1 DEF Found
  <2>2. CASE key[s] # NoEntry
    <3>1. PICK k \in CacheEntry : k = key[s] /\ SubOf[k.id] = s
      BY <1>5, <2>2 DEF LifecycleInv, CacheInv
    <3>2. \A e \in new : e = [id |-> k.id, agent |-> k.agent] /\ e.agent # NoAgent
      BY <1>3, <2>2, <3>1 DEF Found
    <3>3. \A e \in new : e \in Entry /\ e.id = k.id
      BY <3>2 DEF Entry, CacheEntry
    <3> QED
      BY <3>1, <3>2, <3>3
  <2> QED
    BY <2>1, <2>2
<1>7. PICK d \in ConnState :
        /\ conn' = [conn EXCEPT ![a] = d]
        /\ d.pc = "list" /\ d.todo = c.todo \ {s} /\ d.got = c.got \cup new
  <2>1. CASE conn' = [conn EXCEPT ![a] = [c EXCEPT !.todo = @ \ {s},
                                                   !.got = @ \cup new]]
    <3>1. PICK d : d = [c EXCEPT !.todo = @ \ {s}, !.got = @ \cup new]
      OBVIOUS
    <3>2. /\ d \in ConnState /\ d.pc = "list"
          /\ d.todo = c.todo \ {s} /\ d.got = c.got \cup new
      BY <1>1, <1>6, <3>1 DEF ConnState
    <3> QED
      BY <2>1, <3>1, <3>2
  <2>2. CASE new = {} /\ conn' = [conn EXCEPT ![a] = [c EXCEPT !.todo = @ \ {s}]]
    <3>1. PICK d : d = [c EXCEPT !.todo = @ \ {s}]
      OBVIOUS
    <3>2. /\ d \in ConnState /\ d.pc = "list"
          /\ d.todo = c.todo \ {s} /\ d.got = c.got \cup new
      BY <1>1, <2>2, <3>1 DEF ConnState
    <3> QED
      BY <2>2, <3>1, <3>2
  <2> QED
    BY <1>3, <2>1, <2>2
<1>8. ConnGood(a, d)
  <2>1. \A e \in c.got : /\ SubOf[e.id] \notin c.todo
                         /\ Wants(AgentUser[a], SubOf[e.id])
    BY <1>1 DEF ConnGood
  <2>2. \A e, f \in d.got : SubOf[e.id] = SubOf[f.id] => e = f
    BY <1>1, <1>6, <1>7, <2>1 DEF ConnGood
  <2>3. \A e \in d.got : /\ Wants(AgentUser[a], SubOf[e.id])
                         /\ SubOf[e.id] \notin d.todo
    BY <1>5, <1>6, <1>7, <2>1
  <2>4. d.todo \subseteq Subs /\ \A z \in d.todo : Wants(AgentUser[a], z)
    BY <1>1, <1>7 DEF ConnGood
  <2> QED
    BY <1>7, <2>2, <2>3, <2>4 DEF ConnGood
<1>9. CacheInv'
  BY <1>2, <1>5, SlideInv, SameCache DEF LifecycleInv
<1> QED
  BY <1>1, <1>4, <1>7, <1>8, <1>9, ConnFrame, SameHub
  DEF LifecycleInv, Waiting, Serving, ConnState

\* The agent registers once, for what its own user wants.
LEMMA GoLiveInv ==
    ASSUME LifecycleInv, NEW a \in Agents, GoLive(a)
    PROVE  LifecycleInv' /\ HubStep
<1> USE HubConstants
<1>1. PICK c : /\ c \in ConnState /\ c = conn[a] /\ ConnGood(a, c)
               /\ c.pc = "list" /\ byAgent[a] = {} /\ a \notin agents
  BY DEF LifecycleInv, ConnInv, Registered, GoLive, Waiting, Serving
<1>2. RegisterAgent(a, c.got)
  BY <1>1 DEF GoLive
<1>3. c.got \in SUBSET Entry
  BY <1>1 DEF ConnState
<1>4. HubStep
  <2>1. SharedNext
    BY <1>1, <1>2, <1>3 DEF SharedNext
  <2>2. ASSUME OneOwner PROVE HubNext
    <3>1. \A e \in c.got : e.id \in Rightful /\ UserOf[e.id] = AgentUser[a]
      BY <1>1, <1>3, <2>2 DEF ConnGood, Wants, OneOwner, Entry, Rightful
    <3>2. c.got \in EntriesFor(a)
      BY <1>1, <1>3, <3>1 DEF ConnGood, EntriesFor
    <3> QED
      BY <1>1, <1>2, <3>2 DEF HubNext
  <2> QED
    BY <2>1, <2>2 DEF HubStep
<1>5. /\ agents' = agents \cup {a}
      /\ \A b \in Agents \ {a} : byAgent'[b] = byAgent[b]
      /\ carrier' = carrier
  BY <1>2 DEF RegisterAgent, streamVars, LifecycleInv, SharedInv, HubTypeOK
<1>6. /\ conn' = [conn EXCEPT ![a] = IdleConn("up")]
      /\ UNCHANGED cacheVars
      /\ UNCHANGED <<row, late, req, sweep, route, restarts>>
  BY DEF GoLive, Goto, storeVars
<1>7. ConnGood(a, IdleConn("up")) /\ IdleConn("up").pc = "up"
  BY DEF ConnGood, ConnState, IdleConn
<1> QED
  BY <1>4, <1>5, <1>6, <1>7, ConnFrame, SameCache
  DEF LifecycleInv, Waiting, Serving

\* What an agent that serves is.
LEMMA ServingIsRegistered ==
    ASSUME LifecycleInv, NEW a \in Agents, conn[a].pc \in Serving
    PROVE  a \in agents /\ conn[a] \in ConnState /\ ConnGood(a, conn[a])
BY DEF LifecycleInv, ConnInv, Registered

LEMMA DisconnectInv ==
    ASSUME LifecycleInv, NEW a \in Agents, Disconnect(a)
    PROVE  LifecycleInv' /\ HubStep
<1>1. a \in agents
  BY ServingIsRegistered DEF Disconnect, Serving
<1>2. HubStep
  BY UsesRightly DEF Disconnect, HubNext
<1>3. UNCHANGED <<agents, byAgent, carrier>>
  BY DEF Disconnect, CloseAgent, Finishing
<1>4. /\ conn' = [conn EXCEPT ![a] = IdleConn("closing")]
      /\ UNCHANGED cacheVars
      /\ UNCHANGED <<row, late, req, sweep, route, restarts>>
  BY DEF Disconnect, Goto, storeVars
<1>5. ConnGood(a, IdleConn("closing")) /\ IdleConn("closing").pc = "closing"
  BY DEF ConnGood, ConnState, IdleConn
<1> QED
  BY <1>1, <1>2, <1>3, <1>4, <1>5, ConnFrame, SameCache
  DEF LifecycleInv, Waiting, Serving

LEMMA GoneListInv ==
    ASSUME LifecycleInv, NEW a \in Agents, GoneList(a)
    PROVE  LifecycleInv' /\ HubStep
<1>1. PICK c : /\ c \in ConnState /\ c = conn[a] /\ ConnGood(a, c)
               /\ c.pc = "closing" /\ a \in agents
  BY ServingIsRegistered DEF GoneList, Serving
<1>2. PICK subs \in SUBSET Subs :
        conn' = [conn EXCEPT ![a] = [c EXCEPT !.pc = "gone", !.todo = subs]]
  BY <1>1 DEF GoneList, LifecycleInv, ConnInv, SharedInv, HubTypeOK
<1>3. /\ UNCHANGED <<hubVars, cacheVars>>
      /\ UNCHANGED <<row, late, req, sweep, route, restarts>>
  BY DEF GoneList, storeVars
<1>4. ConnGood(a, [c EXCEPT !.pc = "gone", !.todo = subs])
  BY <1>1 DEF ConnGood, ConnState
<1> QED
  BY <1>1, <1>2, <1>3, <1>4, ConnFrame, SameHub, SameCache
  DEF LifecycleInv, Waiting, Serving, ConnState

\* The streams of a bound tunnel have an agent, so that they may finish.
LEMMA FinishBound ==
    ASSUME LifecycleInv, NEW s \in Subs,
           NEW X, X = IF tunnels[s] = NoTunnel THEN {} ELSE tunnels[s].streams,
           Finish(X)
    PROVE  HubStep /\ UNCHANGED <<agents, byAgent, carrier>>
<1>1. X \in SUBSET {x \in Streams : carrier[x] # NoAgent}
  BY DEF LifecycleInv, StreamsCarried, SharedInv, HubTypeOK, Tunnel
<1> QED
  BY <1>1, UsesRightly DEF HubNext, Finish, Finishing

LEMMA GoneReadInv ==
    ASSUME LifecycleInv, NEW a \in Agents, GoneRead(a)
    PROVE  LifecycleInv' /\ HubStep
<1>1. PICK c : /\ c \in ConnState /\ c = conn[a] /\ ConnGood(a, c)
               /\ c.pc = "gone" /\ a \in agents
  BY ServingIsRegistered DEF GoneRead, Serving
<1>2. PICK s \in c.todo :
        /\ Finish(IF tunnels[s] = NoTunnel THEN {} ELSE tunnels[s].streams)
        /\ \/ /\ key[s] # NoEntry
              /\ conn' = [conn EXCEPT ![a].todo = @ \ {s},
                                      ![a].pc = "rearm",
                                      ![a].entry = key[s]]
           \/ conn' = [conn EXCEPT ![a].todo = @ \ {s}]
  BY <1>1 DEF GoneRead
<1>3. s \in Subs
  BY <1>1 DEF ConnGood
<1>4. HubStep /\ UNCHANGED <<agents, byAgent, carrier>>
  BY <1>2, <1>3, FinishBound
<1>5. /\ UNCHANGED cacheVars
      /\ UNCHANGED <<row, late, req, sweep, route, restarts>>
  BY DEF GoneRead, storeVars
<1>6. PICK d : /\ conn' = [conn EXCEPT ![a] = d]
               /\ ConnGood(a, d) /\ d.pc \in Serving
  <2>1. CASE conn' = [conn EXCEPT ![a].todo = @ \ {s}]
    <3>1. conn' = [conn EXCEPT ![a] = [c EXCEPT !.todo = @ \ {s}]]
      BY <1>1, <2>1 DEF LifecycleInv, ConnInv
    <3>2. /\ ConnGood(a, [c EXCEPT !.todo = @ \ {s}])
          /\ [c EXCEPT !.todo = @ \ {s}].pc \in Serving
      BY <1>1 DEF ConnGood, ConnState, Serving
    <3> QED
      BY <3>1, <3>2
  <2>2. CASE /\ key[s] # NoEntry
             /\ conn' = [conn EXCEPT ![a].todo = @ \ {s},
                                     ![a].pc = "rearm",
                                     ![a].entry = key[s]]
    <3>1. PICK k \in CacheEntry : k = key[s]
      BY <1>3, <2>2 DEF LifecycleInv, CacheInv
    <3>2. conn' = [conn EXCEPT ![a] = [c EXCEPT !.todo = @ \ {s}, !.pc = "rearm",
                                                !.entry = k]]
      BY <1>1, <2>2, <3>1 DEF LifecycleInv, ConnInv
    <3>3. /\ ConnGood(a, [c EXCEPT !.todo = @ \ {s}, !.pc = "rearm", !.entry = k])
          /\ [c EXCEPT !.todo = @ \ {s}, !.pc = "rearm", !.entry = k].pc \in Serving
      BY <1>1, <3>1 DEF ConnGood, ConnState, Serving
    <3> QED
      BY <3>2, <3>3
  <2> QED
    BY <1>2, <2>1, <2>2
<1>7. a \in agents' <=> d.pc \in Serving
  BY <1>1, <1>4, <1>6
<1>8. d.pc \notin Waiting
  BY <1>6 DEF Waiting, Serving
<1> QED
  BY <1>4, <1>5, <1>6, <1>7, <1>8, ConnFrame, SameCache DEF LifecycleInv

LEMMA GoneRearmInv ==
    ASSUME LifecycleInv, NEW a \in Agents, GoneRearm(a)
    PROVE  LifecycleInv' /\ HubStep
<1>1. PICK c : /\ c \in ConnState /\ c = conn[a] /\ ConnGood(a, c)
               /\ c.pc = "rearm" /\ a \in agents
  BY ServingIsRegistered DEF GoneRearm, Serving
<1>2. conn' = [conn EXCEPT ![a] = [c EXCEPT !.pc = "gone", !.entry = NoEntry]]
  BY <1>1 DEF GoneRearm, LifecycleInv, ConnInv
<1>3. /\ UNCHANGED hubVars
      /\ UNCHANGED <<row, late, req, sweep, route, restarts>>
  BY DEF GoneRearm
<1>4. ConnGood(a, [c EXCEPT !.pc = "gone", !.entry = NoEntry])
  BY <1>1 DEF ConnGood, ConnState
<1>5. CacheInv'
  <2>1. [c.entry EXCEPT !.agent = NoAgent] \in CacheEntry
    BY <1>1 DEF ConnGood, CacheEntry
  <2>2. Ignoring(PutTunnel([c.entry EXCEPT !.agent = NoAgent], "deadline"),
                 UNCHANGED cacheVars)
    BY <1>1 DEF GoneRearm
  <2> QED
    BY <2>1, <2>2, PutInv, SameCache DEF Ignoring, LifecycleInv
<1> QED
  BY <1>1, <1>2, <1>3, <1>4, <1>5, ConnFrame, SameHub
  DEF LifecycleInv, Waiting, Serving, ConnState

LEMMA GoneUnregisterInv ==
    ASSUME LifecycleInv, NEW a \in Agents, GoneUnregister(a)
    PROVE  LifecycleInv' /\ HubStep
<1>1. a \in agents
  BY ServingIsRegistered DEF GoneUnregister, Serving
<1>2. HubStep
  BY <1>1, UsesRightly DEF GoneUnregister, HubNext
<1>3. /\ agents' = agents \ {a}
      /\ \A b \in Agents \ {a} : byAgent'[b] = byAgent[b]
      /\ carrier' = carrier
  BY DEF GoneUnregister, UnregisterAgent, streamVars, LifecycleInv, SharedInv,
         HubTypeOK
<1>4. /\ conn' = [conn EXCEPT ![a] = IdleConn("dead")]
      /\ UNCHANGED cacheVars
      /\ UNCHANGED <<row, late, req, sweep, route, restarts>>
  BY DEF GoneUnregister, Goto, storeVars
<1>5. ConnGood(a, IdleConn("dead")) /\ IdleConn("dead").pc = "dead"
  BY DEF ConnGood, ConnState, IdleConn
<1> QED
  BY <1>2, <1>3, <1>4, <1>5, ConnFrame, SameCache
  DEF LifecycleInv, Waiting, Serving

-----------------------------------------------------------------------------
(* The API calls.                                                          *)

\* A call as the invariant knows it.
LEMMA ReqIs ==
    ASSUME LifecycleInv, NEW r \in Reqs
    PROVE  /\ req[r] \in ReqState /\ ReqGood(req[r])
           /\ req[r].op = "delete" =>
                req[r].id \in Tids /\ row[req[r].id].status # "none"
BY DEF LifecycleInv, ReqInv, DeletesRecorded, ReqGood

\* A call that goes on with what it was asked for.
LEMMA ReqGoesOn ==
    ASSUME LifecycleInv, HubStep,
           NEW r \in Reqs, NEW q,
           req' = [req EXCEPT ![r] = q], ReqGood(q),
           q.op = req[r].op, q.id = req[r].id, q.pc \notin Binding,
           \A b \in Agents : byAgent[b] = {} => byAgent'[b] = {},
           CacheInv', TableInv',
           \A id \in Tids : row[id].status # "none" => row'[id].status # "none",
           UNCHANGED <<agents, carrier, conn, sweep, route, restarts>>
    PROVE  LifecycleInv'
<1>1. q.op = "delete" => row'[q.id].status # "none"
  BY ReqIs
<1>2. \A b \in Agents : conn[b].pc \in Waiting => byAgent'[b] = {}
  BY DEF LifecycleInv, Registered
<1> QED
  BY <1>1, <1>2, ReqFrame

\* A call that has answered holds nothing.
LEMMA RepliedGood ==
    ASSUME NEW q \in ReqState, q.pc = "done", q.bound = NoTunnel,
           q.op # "none" => q.id \in Tids
    PROVE  ReqGood(q) /\ q.pc \notin Binding
BY DEF ReqGood, Creating, Binding, Unbinding

LEMMA ReplyGood ==
    ASSUME LifecycleInv, NEW r \in Reqs, NEW ok \in BOOLEAN, Reply(r, ok)
    PROVE  \E q : /\ req' = [req EXCEPT ![r] = q]
                  /\ ReqGood(q) /\ q.pc \notin Binding
                  /\ q.op = req[r].op /\ q.id = req[r].id
<1>1. PICK p \in ReqState : p = req[r] /\ (p.op # "none" => p.id \in Tids)
  BY ReqIs DEF ReqGood
<1>2. PICK q : /\ q = [IdleReq("done") EXCEPT !.op = p.op, !.id = p.id, !.ok = ok]
               /\ req' = [req EXCEPT ![r] = q]
  BY <1>1 DEF Reply
<1>3. /\ q \in ReqState /\ q.pc = "done" /\ q.bound = NoTunnel
      /\ q.op = p.op /\ q.id = p.id
  BY <1>1, <1>2 DEF IdleReq, ReqState
<1>4. ReqGood(q) /\ q.pc \notin Binding
  BY <1>1, <1>3, RepliedGood
<1> QED
  BY <1>1, <1>2, <1>3, <1>4

LEMMA RefusedGood ==
    ASSUME NEW r \in Reqs, NEW op \in Ops, NEW id \in Tids, Refused(r, op, id)
    PROVE  \E q : /\ req' = [req EXCEPT ![r] = q]
                  /\ ReqGood(q) /\ q.pc \notin Binding
                  /\ q.op = op /\ q.id = id
<1>1. PICK q : /\ q = [IdleReq("done") EXCEPT !.op = op, !.id = id]
               /\ req' = [req EXCEPT ![r] = q]
  BY DEF Refused
<1>2. /\ q \in ReqState /\ q.pc = "done" /\ q.bound = NoTunnel
      /\ q.op = op /\ q.id = id
  BY <1>1 DEF IdleReq, ReqState
<1>3. ReqGood(q) /\ q.pc \notin Binding
  BY <1>2, RepliedGood
<1> QED
  BY <1>1, <1>2, <1>3

\* A call that begins: with a peek, or with an entry of its subdomain.
LEMMA BegunGood ==
    ASSUME NEW r \in Reqs, NEW op \in Ops, NEW id \in Tids, NEW e, NEW pc,
           \/ /\ pc \in {"dup", "lookup"} /\ e \in CacheEntry
              /\ SubOf[e.id] = SubOf[id]
              /\ op = IF pc = "dup" THEN "create" ELSE "delete"
           \/ pc = "peek" /\ e = NoEntry /\ op \in {"pause", "resume"}
           \/ pc = "deactivate" /\ e = NoEntry /\ op = "delete",
           Begin(r, op, id, pc, e)
    PROVE  \E q : /\ req' = [req EXCEPT ![r] = q]
                  /\ ReqGood(q) /\ q.pc \notin Binding
                  /\ q.op = op /\ q.id = id
<1>1. PICK q : /\ q = [IdleReq(pc) EXCEPT !.op = op, !.id = id, !.entry = e]
               /\ req' = [req EXCEPT ![r] = q]
  BY DEF Begin
<1>2. /\ q \in ReqState /\ q.pc = pc /\ q.op = op /\ q.id = id /\ q.entry = e
      /\ q.bound = NoTunnel
  BY <1>1 DEF IdleReq, ReqState
<1>3. ReqGood(q) /\ q.pc \notin Binding
  BY <1>2 DEF ReqGood, Creating, Binding, Unbinding, OfSub, CacheEntry
<1> QED
  BY <1>1, <1>2, <1>3

LEMMA CreateCountInv ==
    ASSUME LifecycleInv, NEW r \in Reqs, NEW id \in Tids, CreateCount(r, id)
    PROVE  LifecycleInv' /\ HubStep
<1>1. "create" \in Ops
  BY DEF CreateCount, MayStart
<1>2. PICK q : /\ req' = [req EXCEPT ![r] = q]
               /\ ReqGood(q) /\ q.pc \notin Binding
               /\ q.op = "create" /\ q.id = id
  <2>1. PICK e : e = [id |-> id, agent |-> NoAgent, enabled |-> TRUE]
    OBVIOUS
  <2>2. e \in CacheEntry /\ e.id = id
    BY <2>1 DEF CacheEntry
  <2>3. Begin(r, "create", id, "dup", e) \/ Refused(r, "create", id)
    BY <2>1 DEF CreateCount
  <2>4. CASE Begin(r, "create", id, "dup", e)
    BY <1>1, <2>2, <2>4, BegunGood
  <2>5. CASE Refused(r, "create", id)
    BY <1>1, <2>5, RefusedGood
  <2> QED
    BY <2>3, <2>4, <2>5
<1>3. UNCHANGED <<hubVars, cacheVars, row, late, conn, sweep, route, restarts>>
  BY DEF CreateCount, NoChange, storeVars
<1>4. \A b \in Agents : conn[b].pc \in Waiting => byAgent'[b] = {}
  BY <1>3, SameHub DEF LifecycleInv, Registered
<1> QED
  BY <1>2, <1>3, <1>4, ReqFrame, SameHub, SameCache, SameTable DEF LifecycleInv

\* A step that leaves the registry and the table alone.
LEMMA ReqQuiet ==
    ASSUME LifecycleInv, NEW r \in Reqs, NEW q,
           req' = [req EXCEPT ![r] = q], ReqGood(q),
           q.op = req[r].op, q.id = req[r].id, q.pc \notin Binding, CacheInv',
           UNCHANGED <<hubVars, row, late, conn, sweep, route, restarts>>
    PROVE  LifecycleInv' /\ HubStep
<1>1. UNCHANGED <<agents, byAgent, carrier>> /\ HubStep
  BY SameHub
<1> QED
  BY <1>1, ReqGoesOn, SameTable DEF LifecycleInv

\* One that only moves on, or answers.
LEMMA StepIs ==
    ASSUME LifecycleInv, NEW r \in Reqs, NEW pc, Step(r, pc)
    PROVE  req' = [req EXCEPT ![r] = [req[r] EXCEPT !.pc = pc]]
BY DEF Step, LifecycleInv, ReqInv

LEMMA CreateDupInv ==
    ASSUME LifecycleInv, NEW r \in Reqs, CreateDup(r)
    PROVE  LifecycleInv' /\ HubStep
<1>1. PICK p \in ReqState : p = req[r] /\ ReqGood(p) /\ p.pc = "dup"
  BY ReqIs DEF CreateDup
<1>2. PICK q : /\ req' = [req EXCEPT ![r] = q]
               /\ ReqGood(q) /\ q.pc \notin Binding
               /\ q.op = p.op /\ q.id = p.id
  <2>1. CASE Step(r, "name")
    <3>1. PICK q : q = [p EXCEPT !.pc = "name"] /\ req' = [req EXCEPT ![r] = q]
      BY <1>1, <2>1, StepIs
    <3>2. ReqGood(q) /\ q.pc \notin Binding /\ q.op = p.op /\ q.id = p.id
      BY <1>1, <3>1 DEF ReqGood, ReqState, Creating, Binding, Unbinding, OfSub
    <3> QED
      BY <3>1, <3>2
  <2>2. CASE Reply(r, FALSE)
    BY <1>1, <2>2, ReplyGood
  <2> QED
    BY <2>1, <2>2 DEF CreateDup
<1>3. UNCHANGED <<hubVars, cacheVars, row, late, conn, sweep, route, restarts>>
  BY DEF CreateDup, NoChange, storeVars
<1> QED
  BY <1>1, <1>2, <1>3, ReqQuiet, SameCache DEF LifecycleInv

LEMMA CreateNameInv ==
    ASSUME LifecycleInv, NEW r \in Reqs, CreateName(r)
    PROVE  LifecycleInv' /\ HubStep
<1> USE HubConstants
<1>1. PICK p \in ReqState : p = req[r] /\ ReqGood(p) /\ p.pc = "name"
  BY ReqIs DEF CreateName
<1>2. PICK q : /\ req' = [req EXCEPT ![r] = q]
               /\ ReqGood(q) /\ q.pc \notin Binding
               /\ q.op = p.op /\ q.id = p.id
  <2>1. CASE Step(r, "put")
    <3>1. PICK q : q = [p EXCEPT !.pc = "put"] /\ req' = [req EXCEPT ![r] = q]
      BY <1>1, <2>1, StepIs
    <3>2. ReqGood(q) /\ q.pc \notin Binding /\ q.op = p.op /\ q.id = p.id
      BY <1>1, <3>1 DEF ReqGood, ReqState, Creating, Binding, Unbinding, OfSub
    <3> QED
      BY <3>1, <3>2
  <2>2. CASE Reply(r, FALSE)
    BY <1>1, <2>2, ReplyGood
  <2> QED
    BY <2>1, <2>2 DEF CreateName
<1>3. CacheInv'
  <2>1. Sub(r) \in Subs
    BY <1>1 DEF Sub, ReqGood, Creating
  <2> QED
    BY <2>1, SlideInv, SameCache DEF CreateName, LifecycleInv
<1>4. UNCHANGED <<hubVars, row, late, conn, sweep, route, restarts>>
  BY DEF CreateName
<1> QED
  BY <1>1, <1>2, <1>3, <1>4, ReqQuiet

LEMMA CreatePutInv ==
    ASSUME LifecycleInv, NEW r \in Reqs, CreatePut(r)
    PROVE  LifecycleInv' /\ HubStep
<1>1. PICK p \in ReqState : p = req[r] /\ ReqGood(p) /\ p.pc = "put"
  BY ReqIs DEF CreatePut
<1>2. PICK q : /\ req' = [req EXCEPT ![r] = q]
               /\ ReqGood(q) /\ q.pc \notin Binding
               /\ q.op = p.op /\ q.id = p.id
  <2>1. CASE Step(r, "record")
    <3>1. PICK q : q = [p EXCEPT !.pc = "record"] /\ req' = [req EXCEPT ![r] = q]
      BY <1>1, <2>1, StepIs
    <3>2. ReqGood(q) /\ q.pc \notin Binding /\ q.op = p.op /\ q.id = p.id
      BY <1>1, <3>1 DEF ReqGood, ReqState, Creating, Binding, Unbinding, OfSub
    <3> QED
      BY <3>1, <3>2
  <2>2. CASE Reply(r, FALSE)
    BY <1>1, <2>2, ReplyGood
  <2> QED
    BY <2>1, <2>2 DEF CreatePut
<1>3. CacheInv'
  <2>1. req[r].entry \in CacheEntry
    BY <1>1 DEF ReqGood
  <2> QED
    BY <2>1, PutInv, SameCache DEF CreatePut, LifecycleInv
<1>4. UNCHANGED <<hubVars, row, late, conn, sweep, route, restarts>>
  BY DEF CreatePut
<1> QED
  BY <1>1, <1>2, <1>3, <1>4, ReqQuiet

\* The row is new, and so is its subdomain.
LEMMA CreateRecordInv ==
    ASSUME LifecycleInv, NEW r \in Reqs, CreateRecord(r)
    PROVE  LifecycleInv' /\ HubStep
<1>1. PICK p \in ReqState : /\ p = req[r] /\ ReqGood(p) /\ p.pc = "record"
                            /\ p.op = "create" /\ p.id \in Tids
  BY ReqIs DEF CreateRecord, ReqGood, Creating
<1>2. PICK q : q = [p EXCEPT !.pc = "bind"] /\ req' = [req EXCEPT ![r] = q]
  BY <1>1, StepIs DEF CreateRecord
<1>3. ReqGood(q) /\ q.pc \notin Binding /\ q.op = p.op /\ q.id = p.id
  BY <1>1, <1>2 DEF ReqGood, ReqState, Creating, Binding, Unbinding, OfSub
<1>4. /\ UNCHANGED <<hubVars, cacheVars>>
      /\ UNCHANGED <<late, conn, sweep, route, restarts>>
  BY DEF CreateRecord
<1>5. /\ row' = [row EXCEPT ![p.id] = [status |-> "active", enabled |-> TRUE]]
      /\ \A i \in Tids : SubOf[i] = SubOf[p.id] => row[i].status = "none"
  BY <1>1 DEF CreateRecord, RecordTunnel, SubdomainTaken, Sub
<1>6. /\ row' \in [Tids -> Row]
      /\ row'[p.id].status = "active"
      /\ \A i \in Tids \ {p.id} : row'[i] = row[i]
  BY <1>1, <1>5 DEF LifecycleInv, TableInv, Row
<1>7. /\ TableInv'
      /\ \A i \in Tids : row[i].status # "none" => row'[i].status # "none"
  BY <1>4, <1>5, <1>6 DEF LifecycleInv, TableInv
<1>8. UNCHANGED <<agents, byAgent, carrier>> /\ HubStep
  BY <1>4, SameHub
<1> QED
  BY <1>1, <1>2, <1>3, <1>4, <1>7, <1>8, ReqGoesOn, SameCache DEF LifecycleInv

LEMMA CreateFailsInv ==
    ASSUME LifecycleInv, NEW r \in Reqs, CreateFails(r)
    PROVE  LifecycleInv' /\ HubStep
<1>1. PICK p \in ReqState : p = req[r] /\ ReqGood(p) /\ p.pc = "record"
  BY ReqIs DEF CreateFails
<1>2. PICK q : q = [p EXCEPT !.pc = "remove"] /\ req' = [req EXCEPT ![r] = q]
  BY <1>1, StepIs DEF CreateFails
<1>3. ReqGood(q) /\ q.pc \notin Binding /\ q.op = p.op /\ q.id = p.id
  BY <1>1, <1>2 DEF ReqGood, ReqState, Creating, Binding, Unbinding, OfSub
<1>4. UNCHANGED <<hubVars, cacheVars, row, late, conn, sweep, route, restarts>>
  BY DEF CreateFails, NoChange, storeVars
<1> QED
  BY <1>1, <1>2, <1>3, <1>4, ReqQuiet, SameCache DEF LifecycleInv

\* The agent a call finds has registered and is of the tunnel's user.
LEMMA BindInv ==
    ASSUME LifecycleInv, NEW r \in Reqs, Bind(r)
    PROVE  LifecycleInv' /\ HubStep
<1>1. PICK p \in ReqState : /\ p = req[r] /\ ReqGood(p) /\ p.pc = "bind"
                            /\ p.op \in {"create", "resume"} /\ p.id \in Tids
                            /\ p.entry \in CacheEntry
  BY ReqIs DEF Bind, ReqGood
<1>2. /\ UNCHANGED <<hubVars, cacheVars>>
      /\ UNCHANGED <<row, late, conn, sweep, route, restarts>>
  BY DEF Bind, storeVars
<1>3. ASSUME NEW q, req' = [req EXCEPT ![r] = q], ReqGood(q),
             q.pc \notin Binding, q.op = p.op, q.id = p.id
      PROVE  LifecycleInv' /\ HubStep
  BY <1>1, <1>2, <1>3, ReqQuiet, SameCache DEF LifecycleInv
<1>4. CASE Step(r, "reput") /\ p.op = "resume"
  <2>1. PICK q : q = [p EXCEPT !.pc = "reput"] /\ req' = [req EXCEPT ![r] = q]
    BY <1>1, <1>4, StepIs
  <2>2. ReqGood(q) /\ q.pc \notin Binding /\ q.op = p.op /\ q.id = p.id
    BY <1>1, <1>4, <2>1
    DEF ReqGood, ReqState, Creating, Binding, Unbinding, OfSub
  <2> QED
    BY <1>3, <2>1, <2>2
<1>5. CASE Reply(r, TRUE)
  <2>1. PICK q : /\ req' = [req EXCEPT ![r] = q]
                 /\ ReqGood(q) /\ q.pc \notin Binding
                 /\ q.op = p.op /\ q.id = p.id
    BY <1>1, <1>5, ReplyGood
  <2> QED
    BY <1>3, <2>1
<1>6. ASSUME NEW a \in LiveAgentsOf(UserOf[p.id]),
             req' = [req EXCEPT ![r].pc = "bindput", ![r].entry.agent = a]
      PROVE  LifecycleInv' /\ HubStep
  <2>1. a \in agents /\ a \in Agents /\ AgentUser[a] = UserOf[p.id]
    BY <1>6 DEF LiveAgentsOf, LifecycleInv, SharedInv, HubTypeOK
  <2>2. conn[a].pc \notin Waiting
    BY <2>1 DEF LifecycleInv, Registered, Waiting, Serving
  <2>3. PICK e : e = [p.entry EXCEPT !.agent = a]
    OBVIOUS
  <2>4. e \in CacheEntry /\ e.agent = a /\ e.id = p.entry.id
    BY <1>1, <2>1, <2>3 DEF CacheEntry
  <2>5. PICK q : /\ q = [p EXCEPT !.pc = "bindput", !.entry = e]
                 /\ req' = [req EXCEPT ![r] = q]
    <3>1. req \in [Reqs -> ReqState]
      BY DEF LifecycleInv, ReqInv
    <3>2. req' = [req EXCEPT ![r] = [p EXCEPT !.pc = "bindput",
                                              !.entry.agent = a]]
      BY <1>1, <1>6, <3>1
    <3>3. [p EXCEPT !.pc = "bindput", !.entry.agent = a]
            = [p EXCEPT !.pc = "bindput", !.entry = e]
      BY <1>1, <2>3 DEF ReqState
    <3> QED
      BY <3>2, <3>3
  <2>6. /\ q \in ReqState /\ q.pc = "bindput" /\ q.entry = e
        /\ q.op = p.op /\ q.id = p.id /\ q.bound = p.bound
    BY <1>1, <2>4, <2>5 DEF ReqState
  <2>7. ReqGood(q)
    BY <1>1, <2>1, <2>4, <2>6 DEF ReqGood, Creating, Binding, Unbinding, OfSub
  <2>8. q.op # "delete"
    BY <1>1, <2>6
  <2>9. conn[q.entry.agent].pc \notin Waiting
    BY <2>2, <2>4, <2>6
  <2>10. /\ HubStep /\ UNCHANGED <<agents, byAgent, carrier>>
         /\ \A b \in Agents : conn[b].pc \in Waiting => byAgent'[b] = {}
    BY <1>2, SameHub DEF LifecycleInv, Registered
  <2> QED
    BY <1>2, <2>5, <2>7, <2>8, <2>9, <2>10, ReqFrame, SameCache, SameTable
    DEF LifecycleInv
<1> QED
  BY <1>1, <1>4, <1>5, <1>6 DEF Bind

LEMMA BindPutInv ==
    ASSUME LifecycleInv, NEW r \in Reqs, BindPut(r)
    PROVE  LifecycleInv' /\ HubStep
<1>1. PICK p \in ReqState : /\ p = req[r] /\ ReqGood(p) /\ p.pc = "bindput"
                            /\ p.op \in {"create", "resume"}
                            /\ p.entry \in CacheEntry
                            /\ conn[p.entry.agent].pc \notin Waiting
  BY ReqIs DEF BindPut, ReqGood, Binding, LifecycleInv, BindsRegistered
<1>2. UNCHANGED <<hubVars, row, late, conn, sweep, route, restarts>>
  BY DEF BindPut
<1>3. CacheInv'
  BY <1>1, PutInv, SameCache DEF BindPut, LifecycleInv
<1>4. CASE Reply(r, TRUE)
  <2>1. PICK q : /\ req' = [req EXCEPT ![r] = q]
                 /\ ReqGood(q) /\ q.pc \notin Binding
                 /\ q.op = p.op /\ q.id = p.id
    BY <1>1, <1>4, ReplyGood
  <2> QED
    BY <1>1, <1>2, <1>3, <2>1, ReqQuiet
<1>5. CASE Step(r, "register")
  <2>1. PICK q : q = [p EXCEPT !.pc = "register"] /\ req' = [req EXCEPT ![r] = q]
    BY <1>1, <1>5, StepIs
  <2>2. ReqGood(q) /\ q.op # "delete" /\ q.entry = p.entry
    BY <1>1, <2>1 DEF ReqGood, ReqState, Creating, Binding, Unbinding, OfSub
  <2>3. /\ HubStep /\ UNCHANGED <<agents, byAgent, carrier>>
        /\ \A b \in Agents : conn[b].pc \in Waiting => byAgent'[b] = {}
    BY <1>2, SameHub DEF LifecycleInv, Registered
  <2> QED
    BY <1>1, <1>2, <1>3, <2>1, <2>2, <2>3, ReqFrame, SameTable DEF LifecycleInv
<1> QED
  BY <1>4, <1>5 DEF BindPut

\* The agent is charged with the tunnel, even one that has gone since.
LEMMA BindRegisterInv ==
    ASSUME LifecycleInv, NEW r \in Reqs, BindRegister(r)
    PROVE  LifecycleInv' /\ HubStep
<1> USE HubConstants
<1>1. PICK p \in ReqState :
        /\ p = req[r] /\ ReqGood(p) /\ p.pc = "register"
        /\ p.op \in {"create", "resume"} /\ p.id \in Tids
        /\ p.entry \in CacheEntry /\ OfSub(p, p.entry.id)
        /\ p.entry.agent \in Agents /\ AgentUser[p.entry.agent] = UserOf[p.id]
        /\ conn[p.entry.agent].pc \notin Waiting
  BY ReqIs DEF BindRegister, ReqGood, Binding, LifecycleInv, BindsRegistered
<1>2. PICK a \in Agents, id \in Tids : a = p.entry.agent /\ id = p.entry.id
  BY <1>1 DEF CacheEntry
<1>3. RegisterTunnel(a, [id |-> id, agent |-> a])
  BY <1>1, <1>2 DEF BindRegister
<1>4. OneOwner => id \in Rightful /\ UserOf[id] = AgentUser[a]
  BY <1>1, <1>2 DEF Rightful, OneOwner, OfSub
<1>5. HubStep
  BY <1>3, <1>4 DEF HubStep, SharedNext, HubNext
<1>6. /\ \A b \in Agents \ {a} : byAgent'[b] = byAgent[b]
      /\ UNCHANGED <<agents, carrier>>
  BY <1>3 DEF RegisterTunnel, streamVars, LifecycleInv, SharedInv, HubTypeOK
<1>7. /\ UNCHANGED <<cacheVars, row, late>>
      /\ UNCHANGED <<conn, sweep, route, restarts>>
  BY DEF BindRegister, storeVars
<1>8. PICK q : /\ req' = [req EXCEPT ![r] = q]
               /\ ReqGood(q) /\ q.pc \notin Binding
               /\ q.op = p.op /\ q.id = p.id
  BY <1>1, ReplyGood DEF BindRegister
<1>9. \A b \in Agents : conn[b].pc \in Waiting => byAgent'[b] = {}
  BY <1>1, <1>2, <1>6 DEF LifecycleInv, Registered
<1> QED
  BY <1>1, <1>5, <1>6, <1>7, <1>8, <1>9, ReqFrame, SameCache, SameTable
  DEF LifecycleInv

\* A delete is asked for a tunnel that has a row, and takes what the key of
\* its subdomain holds.
LEMMA DeleteReadInv ==
    ASSUME LifecycleInv, NEW r \in Reqs, NEW id \in Tids, DeleteRead(r, id)
    PROVE  LifecycleInv' /\ HubStep
<1> USE HubConstants
<1>1. "delete" \in Ops /\ row[id].status # "none"
  BY DEF DeleteRead, MayStart
<1>2. PICK s, e : s \in Subs /\ s = SubOf[id] /\ e = key[s]
  OBVIOUS
<1>3. PICK q : /\ req' = [req EXCEPT ![r] = q]
               /\ ReqGood(q) /\ q.pc \notin Binding
               /\ q.op = "delete" /\ q.id = id
  <2>1. CASE e # NoEntry /\ Begin(r, "delete", id, "lookup", e)
    <3>1. e \in CacheEntry /\ SubOf[e.id] = SubOf[id]
      BY <1>2, <2>1 DEF LifecycleInv, CacheInv
    <3> QED
      BY <1>1, <2>1, <3>1, BegunGood
  <2>2. CASE Begin(r, "delete", id, "deactivate", NoEntry)
    BY <1>1, <2>2, BegunGood
  <2>3. CASE Refused(r, "delete", id)
    BY <1>1, <2>3, RefusedGood
  <2> QED
    BY <1>2, <2>1, <2>2, <2>3 DEF DeleteRead
<1>4. CacheInv'
  BY <1>2, SlideInv, SameCache DEF DeleteRead, Ignoring, LifecycleInv
<1>5. UNCHANGED <<hubVars, row, late, conn, sweep, route, restarts>>
  BY DEF DeleteRead
<1>6. /\ HubStep /\ UNCHANGED <<agents, byAgent, carrier>>
      /\ \A b \in Agents : conn[b].pc \in Waiting => byAgent'[b] = {}
  BY <1>5, SameHub DEF LifecycleInv, Registered
<1> QED
  BY <1>1, <1>3, <1>4, <1>5, <1>6, ReqFrame, SameTable DEF LifecycleInv

LEMMA SetEnabledInv ==
    ASSUME LifecycleInv, NEW r \in Reqs, NEW id \in Tids, NEW op \in Ops,
           SetEnabled(r, id, op)
    PROVE  LifecycleInv' /\ HubStep
<1>1. op \in {"pause", "resume"}
  BY DEF SetEnabled
<1>2. PICK q : /\ req' = [req EXCEPT ![r] = q]
               /\ ReqGood(q) /\ q.pc \notin Binding
               /\ q.op = op /\ q.id = id
  BY <1>1, BegunGood, RefusedGood DEF SetEnabled
<1>3. UNCHANGED <<hubVars, cacheVars, late, conn, sweep, route, restarts>>
  BY DEF SetEnabled
<1>4. /\ TableInv'
      /\ \A i \in Tids : row[i].status # "none" => row'[i].status # "none"
  <2>1. CASE row' = row
    BY <1>3, <2>1, SameTable DEF LifecycleInv
  <2>2. CASE SetTunnelEnabled(id, op = "resume")
    <3>1. PICK on \in BOOLEAN : row' = [row EXCEPT ![id].enabled = on]
      BY <2>2 DEF SetTunnelEnabled
    <3>2. /\ row' \in [Tids -> Row]
          /\ \A i \in Tids : row'[i].status = row[i].status
      BY <3>1 DEF LifecycleInv, TableInv, Row
    <3> QED
      BY <1>3, <3>2 DEF LifecycleInv, TableInv
  <2> QED
    BY <2>1, <2>2 DEF SetEnabled
<1>5. /\ HubStep /\ UNCHANGED <<agents, byAgent, carrier>>
      /\ \A b \in Agents : conn[b].pc \in Waiting => byAgent'[b] = {}
  BY <1>3, SameHub DEF LifecycleInv, Registered
<1> QED
  BY <1>1, <1>2, <1>3, <1>4, <1>5, ReqFrame, SameCache DEF LifecycleInv

LEMMA PeekEntryInv ==
    ASSUME LifecycleInv, NEW r \in Reqs, PeekEntry(r)
    PROVE  LifecycleInv' /\ HubStep
<1> USE HubConstants
<1>1. PICK p \in ReqState : /\ p = req[r] /\ ReqGood(p) /\ p.pc = "peek"
                            /\ p.op \in {"pause", "resume"} /\ p.id \in Tids
  BY ReqIs DEF PeekEntry, ReqGood
<1>2. UNCHANGED <<hubVars, cacheVars, row, late, conn, sweep, route, restarts>>
  BY DEF PeekEntry, NoChange, storeVars
<1>3. ASSUME NEW q, req' = [req EXCEPT ![r] = q], ReqGood(q),
             q.pc \notin Binding, q.op = p.op, q.id = p.id
      PROVE  LifecycleInv' /\ HubStep
  BY <1>1, <1>2, <1>3, ReqQuiet, SameCache DEF LifecycleInv
<1>4. PICK s, e : s \in Subs /\ s = Sub(r) /\ s = SubOf[p.id] /\ e = key[s]
  BY <1>1 DEF Sub
<1>5. CASE Reply(r, TRUE)
  <2>1. PICK q : /\ req' = [req EXCEPT ![r] = q]
                 /\ ReqGood(q) /\ q.pc \notin Binding
                 /\ q.op = p.op /\ q.id = p.id
    BY <1>1, <1>5, ReplyGood
  <2> QED
    BY <1>3, <2>1
<1>6. ASSUME NEW f, NEW pc, e # NoEntry,
             \/ pc = "lookup" /\ p.op = "pause"
                /\ f = [e EXCEPT !.enabled = FALSE, !.agent = NoAgent]
             \/ pc = "bind" /\ p.op = "resume" /\ f = [e EXCEPT !.enabled = TRUE],
             req' = [req EXCEPT ![r].pc = pc, ![r].entry = f]
      PROVE  LifecycleInv' /\ HubStep
  <2>1. e \in CacheEntry /\ SubOf[e.id] = SubOf[p.id]
    BY <1>4, <1>6 DEF LifecycleInv, CacheInv
  <2>2. f \in CacheEntry /\ f.id = e.id
    BY <1>6, <2>1 DEF CacheEntry
  <2>3. req' = [req EXCEPT ![r] = [p EXCEPT !.pc = pc, !.entry = f]]
    BY <1>1, <1>6 DEF LifecycleInv, ReqInv
  <2>4. PICK q : q = [p EXCEPT !.pc = pc, !.entry = f]
    OBVIOUS
  <2>5. /\ q \in ReqState /\ q.pc = pc /\ q.entry = f
        /\ q.op = p.op /\ q.id = p.id /\ q.bound = p.bound
    BY <1>1, <1>6, <2>2, <2>4 DEF ReqState
  <2>6. ReqGood(q) /\ q.pc \notin Binding
    BY <1>1, <1>6, <2>1, <2>2, <2>5
    DEF ReqGood, Creating, Binding, Unbinding, OfSub, CacheEntry
  <2> QED
    BY <1>3, <2>3, <2>4, <2>5, <2>6
<1> QED
  BY <1>1, <1>4, <1>5, <1>6 DEF PeekEntry

\* What is unbound is bound under the subdomain of the call.
LEMMA LookupInv ==
    ASSUME LifecycleInv, NEW r \in Reqs, Lookup(r)
    PROVE  LifecycleInv' /\ HubStep
<1> USE HubConstants
<1>1. PICK p \in ReqState : /\ p = req[r] /\ ReqGood(p) /\ p.pc = "lookup"
                            /\ p.op \in {"pause", "delete"} /\ p.id \in Tids
  BY ReqIs DEF Lookup, ReqGood, Unbinding
<1>2. PICK s, t : s \in Subs /\ s = Sub(r) /\ s = SubOf[p.id] /\ t = tunnels[s]
  BY <1>1 DEF Sub
<1>3. /\ UNCHANGED <<cacheVars, row, late>>
      /\ UNCHANGED <<conn, sweep, route, restarts>>
  BY DEF Lookup, storeVars
<1>4. CASE /\ t = NoTunnel
           /\ Step(r, IF p.op = "pause" THEN "reput" ELSE "remove")
           /\ UNCHANGED hubVars
  <2>1. PICK pc : pc = IF p.op = "pause" THEN "reput" ELSE "remove"
    OBVIOUS
  <2>2. PICK q : q = [p EXCEPT !.pc = pc] /\ req' = [req EXCEPT ![r] = q]
    BY <1>1, <1>4, <2>1, StepIs
  <2>3. ReqGood(q) /\ q.pc \notin Binding /\ q.op = p.op /\ q.id = p.id
    BY <1>1, <2>1, <2>2
    DEF ReqGood, ReqState, Creating, Binding, Unbinding, OfSub
  <2> QED
    BY <1>1, <1>3, <1>4, <2>2, <2>3, ReqQuiet, SameCache DEF LifecycleInv
<1>5. CASE /\ t # NoTunnel
           /\ Finish(t.streams)
           /\ req' = [req EXCEPT ![r].pc = "drop", ![r].bound = t]
  <2>1. HubStep /\ UNCHANGED <<agents, byAgent, carrier>>
    BY <1>2, <1>5, FinishBound
  <2>2. t \in Tunnel /\ t.id \in Tids /\ SubOf[t.id] = s
    BY <1>2, <1>5
    DEF LifecycleInv, SharedInv, HubTypeOK, BoundInPlace, Tunnel
  <2>3. req' = [req EXCEPT ![r] = [p EXCEPT !.pc = "drop", !.bound = t]]
    BY <1>1, <1>5 DEF LifecycleInv, ReqInv
  <2>4. PICK q : q = [p EXCEPT !.pc = "drop", !.bound = t]
    OBVIOUS
  <2>5. /\ q \in ReqState /\ q.pc = "drop" /\ q.entry = p.entry
        /\ q.op = p.op /\ q.id = p.id /\ q.bound = t
    BY <1>1, <2>2, <2>4 DEF ReqState
  <2>6. ReqGood(q) /\ q.pc \notin Binding
    BY <1>1, <1>2, <1>5, <2>2, <2>5
    DEF ReqGood, Creating, Binding, Unbinding, OfSub
  <2> QED
    BY <1>1, <1>3, <2>1, <2>3, <2>4, <2>5, <2>6, ReqGoesOn, SameCache, SameTable
    DEF LifecycleInv
<1> QED
  BY <1>1, <1>2, <1>4, <1>5 DEF Lookup

\* A tunnel is unbound as the registry expects it, however stale.
LEMMA DropKept ==
    ASSUME LifecycleInv, NEW t \in Tunnel, DropTunnel(SubOf[t.id], t)
    PROVE  /\ HubStep /\ UNCHANGED <<agents, carrier>>
           /\ \A b \in Agents : byAgent[b] = {} => byAgent'[b] = {}
<1> USE HubConstants
<1>1. PICK id \in Tids, a \in Agents : id = t.id /\ a = t.agent
  BY DEF Tunnel
<1>2. DropTunnel(SubOf[id], [id |-> id, agent |-> a])
  BY <1>1 DEF DropTunnel
<1>3. HubStep
  BY <1>2 DEF HubStep, SharedNext, HubNext, Rightful, OneOwner
<1>4. UNCHANGED <<agents, carrier>>
  BY DEF DropTunnel, streamVars
<1>5. byAgent' \in {byAgent, [byAgent EXCEPT ![a] = @ \ {SubOf[id]}]}
  BY <1>2 DEF DropTunnel
<1>6. byAgent \in [Agents -> SUBSET Subs]
  BY DEF LifecycleInv, SharedInv, HubTypeOK
<1>7. \A b \in Agents : byAgent[b] = {} => byAgent'[b] = {}
  BY <1>5, <1>6
<1> QED
  BY <1>3, <1>4, <1>7

LEMMA DropInv ==
    ASSUME LifecycleInv, NEW r \in Reqs, Drop(r)
    PROVE  LifecycleInv' /\ HubStep
<1>1. PICK p \in ReqState : /\ p = req[r] /\ ReqGood(p) /\ p.pc = "drop"
                            /\ p.bound \in Tunnel /\ OfSub(p, p.bound.id)
  BY ReqIs DEF Drop, ReqGood, ReqState
<1>2. DropTunnel(SubOf[p.bound.id], p.bound)
  BY <1>1 DEF Drop, Sub, OfSub
<1>3. /\ HubStep /\ UNCHANGED <<agents, carrier>>
      /\ \A b \in Agents : byAgent[b] = {} => byAgent'[b] = {}
  BY <1>1, <1>2, DropKept
<1>4. PICK q : q = [p EXCEPT !.pc = "remove"] /\ req' = [req EXCEPT ![r] = q]
  BY <1>1, StepIs DEF Drop
<1>5. ReqGood(q) /\ q.pc \notin Binding /\ q.op = p.op /\ q.id = p.id
  BY <1>1, <1>4 DEF ReqGood, ReqState, Creating, Binding, Unbinding, OfSub
<1>6. /\ UNCHANGED <<cacheVars, row, late>>
      /\ UNCHANGED <<conn, sweep, route, restarts>>
  BY DEF Drop, storeVars
<1> QED
  BY <1>1, <1>3, <1>4, <1>5, <1>6, ReqGoesOn, SameCache, SameTable
  DEF LifecycleInv

LEMMA RemoveStepInv ==
    ASSUME LifecycleInv, NEW r \in Reqs, Remove(r)
    PROVE  LifecycleInv' /\ HubStep
<1>1. PICK p \in ReqState : /\ p = req[r] /\ ReqGood(p) /\ p.pc = "remove"
                            /\ p.op \in {"create", "pause", "delete"}
                            /\ p.id \in Tids
  BY ReqIs DEF Remove, ReqGood
<1>2. PICK id \in Tids : Ignoring(RemoveTunnel(id), UNCHANGED cacheVars)
  <2>1. /\ p.entry.id \in Tids
        /\ p.bound # NoTunnel => p.bound.id \in Tids
    BY <1>1 DEF ReqGood, OfSub
  <2> QED
    BY <1>1, <2>1 DEF Remove
<1>3. CacheInv'
  BY <1>2, RemoveInv, SameCache DEF Ignoring, LifecycleInv
<1>4. UNCHANGED <<hubVars, row, late, conn, sweep, route, restarts>>
  BY DEF Remove
<1>5. CASE p.op = "create" /\ Reply(r, FALSE)
  <2>1. PICK q : /\ req' = [req EXCEPT ![r] = q]
                 /\ ReqGood(q) /\ q.pc \notin Binding
                 /\ q.op = p.op /\ q.id = p.id
    BY <1>1, <1>5, ReplyGood
  <2> QED
    BY <1>1, <1>3, <1>4, <2>1, ReqQuiet
<1>6. ASSUME NEW pc, Step(r, pc),
             \/ p.op = "pause" /\ pc = "reput"
             \/ p.op = "delete" /\ p.bound # NoTunnel /\ pc = "expire"
             \/ p.op = "delete" /\ pc = "deactivate"
      PROVE  LifecycleInv' /\ HubStep
  <2>1. PICK q : q = [p EXCEPT !.pc = pc] /\ req' = [req EXCEPT ![r] = q]
    BY <1>1, <1>6, StepIs
  <2>2. ReqGood(q) /\ q.pc \notin Binding /\ q.op = p.op /\ q.id = p.id
    BY <1>1, <1>6, <2>1
    DEF ReqGood, ReqState, Creating, Binding, Unbinding, OfSub
  <2> QED
    BY <1>1, <1>3, <1>4, <2>1, <2>2, ReqQuiet
<1>7. \/ p.op = "create" /\ Reply(r, FALSE)
      \/ p.op = "pause" /\ Step(r, "reput")
      \/ p.op = "delete" /\ p.bound # NoTunnel /\ Step(r, "expire")
      \/ p.op = "delete" /\ Step(r, "deactivate")
  BY <1>1 DEF Remove
<1> QED
  BY <1>5, <1>6, <1>7

LEMMA ReputInv ==
    ASSUME LifecycleInv, NEW r \in Reqs, Reput(r)
    PROVE  LifecycleInv' /\ HubStep
<1>1. PICK p \in ReqState : /\ p = req[r] /\ ReqGood(p) /\ p.pc = "reput"
                            /\ p.entry \in CacheEntry
  BY ReqIs DEF Reput, ReqGood
<1>2. PICK ttl \in {"idle", "deadline"} :
        Ignoring(PutTunnel(p.entry, ttl), UNCHANGED cacheVars)
  BY <1>1 DEF Reput
<1>3. CacheInv'
  BY <1>1, <1>2, PutInv, SameCache DEF Ignoring, LifecycleInv
<1>4. PICK q : /\ req' = [req EXCEPT ![r] = q]
               /\ ReqGood(q) /\ q.pc \notin Binding
               /\ q.op = p.op /\ q.id = p.id
  BY <1>1, ReplyGood DEF Reput
<1>5. UNCHANGED <<hubVars, row, late, conn, sweep, route, restarts>>
  BY DEF Reput
<1> QED
  BY <1>1, <1>3, <1>4, <1>5, ReqQuiet

\* A deactivated row stays.
LEMMA ReqDeactivates ==
    ASSUME LifecycleInv, NEW r \in Reqs, NEW q, NEW ids,
           req' = [req EXCEPT ![r] = q], ReqGood(q),
           q.op = req[r].op, q.id = req[r].id, q.pc \notin Binding,
           DeactivateTunnels(ids) \/ UNCHANGED row,
           UNCHANGED <<hubVars, cacheVars, late, conn, sweep, route, restarts>>
    PROVE  LifecycleInv' /\ HubStep
<1>1. /\ TableInv'
      /\ \A i \in Tids : row[i].status # "none" => row'[i].status # "none"
  BY DeactivateInv, SameTable DEF LifecycleInv
<1>2. /\ HubStep /\ UNCHANGED <<agents, byAgent, carrier>>
  BY SameHub
<1> QED
  BY <1>1, <1>2, ReqGoesOn, SameCache DEF LifecycleInv

LEMMA ExpireRowInv ==
    ASSUME LifecycleInv, NEW r \in Reqs, ExpireRow(r)
    PROVE  LifecycleInv' /\ HubStep
<1>1. PICK p \in ReqState : p = req[r] /\ ReqGood(p) /\ p.pc = "expire"
  BY ReqIs DEF ExpireRow
<1>2. PICK q : q = [p EXCEPT !.pc = "deactivate"] /\ req' = [req EXCEPT ![r] = q]
  BY <1>1, StepIs DEF ExpireRow
<1>3. ReqGood(q) /\ q.pc \notin Binding /\ q.op = p.op /\ q.id = p.id
  BY <1>1, <1>2 DEF ReqGood, ReqState, Creating, Binding, Unbinding, OfSub
<1>4. DeactivateTunnels({p.bound.id}) \/ UNCHANGED row
  BY <1>1 DEF ExpireRow, Ignoring
<1>5. UNCHANGED <<hubVars, cacheVars, late, conn, sweep, route, restarts>>
  BY DEF ExpireRow
<1> QED
  BY <1>1, <1>2, <1>3, <1>4, <1>5, ReqDeactivates

LEMMA DeactivateStepInv ==
    ASSUME LifecycleInv, NEW r \in Reqs, Deactivate(r)
    PROVE  LifecycleInv' /\ HubStep
<1>1. PICK id : DeactivateTunnels({id}) \/ UNCHANGED row
  BY DEF Deactivate, Ignoring
<1>2. PICK q : /\ req' = [req EXCEPT ![r] = q]
               /\ ReqGood(q) /\ q.pc \notin Binding
               /\ q.op = req[r].op /\ q.id = req[r].id
  BY ReplyGood DEF Deactivate
<1>3. UNCHANGED <<hubVars, cacheVars, late, conn, sweep, route, restarts>>
  BY DEF Deactivate
<1> QED
  BY <1>1, <1>2, <1>3, ReqDeactivates

-----------------------------------------------------------------------------
(* The sweeper.                                                            *)

LEMMA SweepStaleInv ==
    ASSUME LifecycleInv, SweepStale
    PROVE  LifecycleInv' /\ HubStep
<1>1. PICK w \in SweepState : w = sweep /\ SweepGood(w) /\ w.pc = "idle"
  BY DEF SweepStale, LifecycleInv, SweepGood
<1>2. PICK v : v = [w EXCEPT !.pc = "snapshot"] /\ sweep' = v
  BY <1>1 DEF SweepStale
<1>3. SweepGood(v) /\ ToClose(v) = w.todo
  BY <1>1, <1>2 DEF SweepGood, SweepState, ToClose
<1>4. UNCHANGED <<hubVars, cacheVars, late, conn, req, route, restarts>>
  BY DEF SweepStale
<1>5. /\ TableInv'
      /\ \A i \in Tids : row[i].status # "none" => row'[i].status # "none"
  BY <1>4, DeactivateInv, SameTable DEF SweepStale, Ignoring, LifecycleInv
<1>6. HubStep /\ UNCHANGED <<agents, byAgent, carrier>>
  BY <1>4, SameHub
<1>7. SweepCarried'
  BY <1>1, <1>2, <1>3, <1>6 DEF LifecycleInv, SweepCarried, ToClose
<1> QED
  BY <1>2, <1>3, <1>4, <1>5, <1>6, <1>7, SweepFrame, SameCache DEF LifecycleInv

\* A step of the sweeper that leaves the table alone.
LEMMA SweepQuiet ==
    ASSUME LifecycleInv, HubStep, SweepGood(sweep'),
           \A t \in ToClose(sweep') : \A x \in t.streams : carrier[x] # NoAgent,
           \A b \in Agents : byAgent[b] = {} => byAgent'[b] = {}, CacheInv',
           UNCHANGED <<agents, carrier, row, late, conn, req, route, restarts>>
    PROVE  LifecycleInv'
<1>1. SweepCarried'
  BY DEF SweepCarried, ToClose
<1> QED
  BY <1>1, SweepFrame, SameTable DEF LifecycleInv

LEMMA SweepSnapshotInv ==
    ASSUME LifecycleInv, SweepSnapshot
    PROVE  LifecycleInv' /\ HubStep
<1>1. PICK w \in SweepState : w = sweep
  BY DEF LifecycleInv, SweepGood
<1>2. PICK T : T = {tunnels[s] : s \in Subs} \ {NoTunnel}
  OBVIOUS
<1>3. PICK v : v = [w EXCEPT !.pc = "check", !.todo = T] /\ sweep' = v
  BY <1>1, <1>2 DEF SweepSnapshot
<1>4. T \subseteq Tunnel
  BY <1>2 DEF LifecycleInv, SharedInv, HubTypeOK
<1>5. SweepGood(v) /\ ToClose(v) = T
  BY <1>1, <1>3, <1>4 DEF SweepGood, SweepState, ToClose
<1>6. \A t \in T : \A x \in t.streams : carrier[x] # NoAgent
  BY <1>2 DEF LifecycleInv, SharedInv, StreamsCarried
<1>7. UNCHANGED <<hubVars, cacheVars, row, late, conn, req, route, restarts>>
  BY DEF SweepSnapshot, storeVars
<1>8. HubStep /\ UNCHANGED <<agents, byAgent, carrier>>
  BY <1>7, SameHub
<1> QED
  BY <1>3, <1>5, <1>6, <1>7, <1>8, SweepQuiet, SameCache DEF LifecycleInv

LEMMA SweepCheckInv ==
    ASSUME LifecycleInv, SweepCheck
    PROVE  LifecycleInv' /\ HubStep
<1>1. PICK w \in SweepState : w = sweep /\ SweepGood(w) /\ w.pc = "check"
  BY DEF SweepCheck, LifecycleInv, SweepGood
<1>2. PICK t \in w.todo :
        \/ sweep' = [w EXCEPT !.todo = @ \ {t}]
        \/ sweep' = [pc |-> "close", todo |-> w.todo \ {t}, bound |-> t]
  BY <1>1 DEF SweepCheck
<1>3. UNCHANGED <<hubVars, cacheVars, row, late, conn, req, route, restarts>>
  BY DEF SweepCheck, storeVars
<1>4. t \in Tunnel /\ \A z \in w.todo : \A x \in z.streams : carrier[x] # NoAgent
  BY <1>1, <1>2 DEF SweepState, LifecycleInv, SweepCarried, ToClose
<1>5. HubStep /\ UNCHANGED <<agents, byAgent, carrier>>
  BY <1>3, SameHub
<1>6. SweepGood(sweep') /\ ToClose(sweep') \subseteq w.todo
  <2>1. CASE sweep' = [w EXCEPT !.todo = @ \ {t}]
    <3>1. PICK v : v = [w EXCEPT !.todo = @ \ {t}] /\ sweep' = v
      BY <2>1
    <3>2. SweepGood(v) /\ ToClose(v) \subseteq w.todo
      BY <1>1, <3>1 DEF SweepGood, SweepState, ToClose
    <3> QED
      BY <3>1, <3>2
  <2>2. CASE sweep' = [pc |-> "close", todo |-> w.todo \ {t}, bound |-> t]
    BY <1>1, <1>2, <1>4, <2>2 DEF SweepGood, SweepState, ToClose
  <2> QED
    BY <1>2, <2>1, <2>2
<1> QED
  BY <1>3, <1>4, <1>5, <1>6, SweepQuiet, SameCache DEF LifecycleInv

\* The streams of the snapshot finish, wherever the tunnel is by now.
LEMMA SweepCloseInv ==
    ASSUME LifecycleInv, SweepClose
    PROVE  LifecycleInv' /\ HubStep
<1>1. PICK w \in SweepState : /\ w = sweep /\ SweepGood(w) /\ w.pc = "close"
                              /\ w.bound \in Tunnel
  BY DEF SweepClose, LifecycleInv, SweepGood
<1>2. \A t \in w.todo \cup {w.bound} : \A x \in t.streams : carrier[x] # NoAgent
  BY <1>1 DEF LifecycleInv, SweepCarried, ToClose
<1>3. w.bound.streams \in SUBSET {x \in Streams : carrier[x] # NoAgent}
  BY <1>1, <1>2 DEF Tunnel
<1>4. HubStep /\ UNCHANGED <<agents, byAgent, carrier>>
  BY <1>1, <1>3, UsesRightly DEF SweepClose, HubNext, Finish, Finishing
<1>5. PICK v : v = [w EXCEPT !.pc = "drop"] /\ sweep' = v
  BY <1>1 DEF SweepClose
<1>6. SweepGood(v) /\ ToClose(v) = w.todo
  BY <1>1, <1>5 DEF SweepGood, SweepState, ToClose
<1>7. UNCHANGED <<cacheVars, row, late>> /\ UNCHANGED <<conn, req, route, restarts>>
  BY DEF SweepClose, storeVars
<1> QED
  BY <1>2, <1>4, <1>5, <1>6, <1>7, SweepQuiet, SameCache DEF LifecycleInv

LEMMA SweepDropInv ==
    ASSUME LifecycleInv, SweepDrop
    PROVE  LifecycleInv' /\ HubStep
<1>1. PICK w \in SweepState : /\ w = sweep /\ SweepGood(w) /\ w.pc = "drop"
                              /\ w.bound \in Tunnel
  BY DEF SweepDrop, LifecycleInv, SweepGood
<1>2. /\ HubStep /\ UNCHANGED <<agents, carrier>>
      /\ \A b \in Agents : byAgent[b] = {} => byAgent'[b] = {}
  BY <1>1, DropKept DEF SweepDrop
<1>3. PICK v : v = [w EXCEPT !.pc = "remove"] /\ sweep' = v
  BY <1>1 DEF SweepDrop
<1>4. SweepGood(v) /\ ToClose(v) = w.todo
  BY <1>1, <1>3 DEF SweepGood, SweepState, ToClose
<1>5. UNCHANGED <<cacheVars, row, late>> /\ UNCHANGED <<conn, req, route, restarts>>
  BY DEF SweepDrop, storeVars
<1>6. \A t \in w.todo : \A x \in t.streams : carrier[x] # NoAgent
  BY <1>1 DEF LifecycleInv, SweepCarried, ToClose
<1> QED
  BY <1>2, <1>3, <1>4, <1>5, <1>6, SweepQuiet, SameCache DEF LifecycleInv

LEMMA SweepRemoveInv ==
    ASSUME LifecycleInv, SweepRemove
    PROVE  LifecycleInv' /\ HubStep
<1>1. PICK w \in SweepState : /\ w = sweep /\ SweepGood(w) /\ w.pc = "remove"
                              /\ w.bound \in Tunnel
  BY DEF SweepRemove, LifecycleInv, SweepGood
<1>2. CacheInv'
  BY <1>1, RemoveInv, SameCache DEF SweepRemove, Ignoring, LifecycleInv, Tunnel
<1>3. PICK v : v = [w EXCEPT !.pc = "check", !.bound = NoTunnel] /\ sweep' = v
  BY <1>1 DEF SweepRemove
<1>4. SweepGood(v) /\ ToClose(v) = w.todo
  BY <1>1, <1>3 DEF SweepGood, SweepState, ToClose
<1>5. UNCHANGED <<hubVars, row, late, conn, req, route, restarts>>
  BY DEF SweepRemove
<1>6. HubStep /\ UNCHANGED <<agents, byAgent, carrier>>
  BY <1>5, SameHub
<1>7. \A t \in w.todo : \A x \in t.streams : carrier[x] # NoAgent
  BY <1>1 DEF LifecycleInv, SweepCarried, ToClose
<1> QED
  BY <1>2, <1>3, <1>4, <1>5, <1>6, <1>7, SweepQuiet

LEMMA SweepDoneInv ==
    ASSUME LifecycleInv, SweepDone
    PROVE  LifecycleInv' /\ HubStep
<1>1. UNCHANGED <<hubVars, cacheVars, row, late, conn, req, route, restarts>>
  BY DEF SweepDone, storeVars
<1>2. HubStep /\ UNCHANGED <<agents, byAgent, carrier>>
  BY <1>1, SameHub
<1>3. SweepGood(sweep') /\ ToClose(sweep') = {}
  BY DEF SweepDone, IdleSweep, SweepGood, SweepState, ToClose
<1> QED
  BY <1>1, <1>2, <1>3, SweepQuiet, SameCache DEF LifecycleInv

-----------------------------------------------------------------------------
(* The public connections.                                                 *)

LEMMA RouteOver ==
    IdleRoute("end") \in RouteState /\ IdleRoute("end").pc = "end"
BY DEF IdleRoute, RouteState

LEMMA RouteReadInv ==
    ASSUME LifecycleInv, NEW x \in Streams, RouteRead(x)
    PROVE  LifecycleInv' /\ HubStep
<1> USE HubConstants
<1>1. PICK s, e : s \in Subs /\ s = RouteOf[x] /\ e = key[s]
  OBVIOUS
<1>2. route[x].pc = "new" /\ carrier[x] = NoAgent
  BY DEF RouteRead, LifecycleInv, RouteInv
<1>3. PICK g \in RouteState : /\ route' = [route EXCEPT ![x] = g]
                              /\ g.pc \in {"lookup", "end"}
  <2>1. CASE e # NoEntry /\ e.enabled
             /\ route' = [route EXCEPT ![x] = [pc |-> "lookup", agent |-> e.agent]]
    <3>1. e.agent \in Agents \cup {NoAgent}
      BY <1>1, <2>1 DEF LifecycleInv, CacheInv, CacheEntry
    <3>2. PICK g : g = [pc |-> "lookup", agent |-> e.agent]
      OBVIOUS
    <3>3. g \in RouteState /\ g.pc = "lookup"
      BY <3>1, <3>2 DEF RouteState
    <3> QED
      BY <2>1, <3>2, <3>3
  <2>2. CASE route' = [route EXCEPT ![x] = IdleRoute("end")]
    BY <2>2, RouteOver
  <2> QED
    BY <1>1, <2>1, <2>2 DEF RouteRead
<1>4. CacheInv'
  BY SlideInv, SameCache DEF RouteRead, Ignoring, LifecycleInv
<1>5. UNCHANGED <<hubVars, row, late, conn, req, sweep, restarts>>
  BY DEF RouteRead
<1>6. HubStep /\ UNCHANGED <<agents, byAgent, carrier>>
  BY <1>5, SameHub
<1>7. RouteInv'
  BY <1>2, <1>3, <1>6 DEF LifecycleInv, RouteInv
<1> QED
  BY <1>4, <1>5, <1>6, <1>7, RouteFrame

LEMMA RouteLookupInv ==
    ASSUME LifecycleInv, NEW x \in Streams, RouteLookup(x)
    PROVE  LifecycleInv' /\ HubStep
<1>1. PICK g \in RouteState : g = route[x] /\ g.pc = "lookup"
                              /\ carrier[x] = NoAgent
  BY DEF RouteLookup, LifecycleInv, RouteInv
<1>2. PICK h \in RouteState : /\ route' = [route EXCEPT ![x] = h]
                              /\ \/ h.pc = "alloc" /\ h.agent \in Agents
                                 \/ h.pc = "end"
  <2>1. CASE g.agent \in agents /\ route' = [route EXCEPT ![x].pc = "alloc"]
    <3>1. PICK h : h = [g EXCEPT !.pc = "alloc"]
      OBVIOUS
    <3>2. h \in RouteState /\ h.pc = "alloc" /\ h.agent \in Agents
      BY <1>1, <2>1, <3>1 DEF RouteState, LifecycleInv, SharedInv, HubTypeOK
    <3>3. route' = [route EXCEPT ![x] = h]
      BY <1>1, <2>1, <3>1 DEF LifecycleInv, RouteInv
    <3> QED
      BY <3>2, <3>3
  <2>2. CASE route' = [route EXCEPT ![x] = IdleRoute("end")]
    BY <2>2, RouteOver
  <2> QED
    BY <1>1, <2>1, <2>2 DEF RouteLookup
<1>3. UNCHANGED <<hubVars, cacheVars, row, late, conn, req, sweep, restarts>>
  BY DEF RouteLookup, storeVars
<1>4. HubStep /\ UNCHANGED <<agents, byAgent, carrier>>
  BY <1>3, SameHub
<1>5. RouteInv'
  BY <1>1, <1>2, <1>4 DEF LifecycleInv, RouteInv
<1> QED
  BY <1>3, <1>4, <1>5, RouteFrame, SameCache DEF LifecycleInv

\* A stream is allocated once.
LEMMA RouteAllocInv ==
    ASSUME LifecycleInv, NEW x \in Streams, RouteAlloc(x)
    PROVE  LifecycleInv' /\ HubStep
<1> USE HubConstants
<1>1. PICK a \in Agents : a = route[x].agent /\ carrier[x] = NoAgent
  BY DEF RouteAlloc, LifecycleInv, RouteInv
<1>2. AllocStream(a, x)
  BY <1>1 DEF RouteAlloc
<1>3. HubStep
  BY <1>1, <1>2, UsesRightly DEF HubNext
<1>4. carrier' = [carrier EXCEPT ![x] = a] /\ UNCHANGED <<agents, byAgent>>
  BY <1>2 DEF AllocStream, registry
<1>5. /\ UNCHANGED <<cacheVars, row, late>>
      /\ UNCHANGED <<conn, req, sweep, restarts>>
      /\ route' = [route EXCEPT ![x].pc = "add"]
  BY DEF RouteAlloc, storeVars
<1>6. RouteInv'
  <2>1. /\ route' \in [Streams -> RouteState] /\ route'[x].pc = "add"
        /\ \A y \in Streams \ {x} : route'[y] = route[y]
    BY <1>5 DEF LifecycleInv, RouteInv, RouteState
  <2>2. /\ carrier'[x] # NoAgent
        /\ \A y \in Streams \ {x} : carrier'[y] = carrier[y]
    BY <1>4 DEF LifecycleInv, SharedInv, HubTypeOK
  <2> QED
    BY <2>1, <2>2 DEF LifecycleInv, RouteInv
<1> QED
  BY <1>3, <1>4, <1>5, <1>6, RouteFrame, SameCache DEF LifecycleInv

LEMMA RouteAddInv ==
    ASSUME LifecycleInv, NEW x \in Streams, RouteAdd(x)
    PROVE  LifecycleInv' /\ HubStep
<1>1. carrier[x] # NoAgent
  BY DEF RouteAdd, LifecycleInv, RouteInv
<1>2. HubStep
  BY <1>1, UsesRightly DEF RouteAdd, HubNext
<1>3. UNCHANGED <<agents, byAgent, carrier>>
  BY DEF RouteAdd, AddStream, streamVars
<1>4. /\ UNCHANGED <<cacheVars, row, late>>
      /\ UNCHANGED <<conn, req, sweep, restarts>>
      /\ route' = [route EXCEPT ![x].pc = "relay"]
  BY DEF RouteAdd, storeVars
<1>5. /\ route' \in [Streams -> RouteState] /\ route'[x].pc = "relay"
      /\ \A y \in Streams \ {x} : route'[y] = route[y]
  BY <1>4 DEF LifecycleInv, RouteInv, RouteState
<1>6. RouteInv'
  BY <1>1, <1>3, <1>5 DEF LifecycleInv, RouteInv
<1> QED
  BY <1>2, <1>3, <1>4, <1>6, RouteFrame, SameCache DEF LifecycleInv

LEMMA RouteEndInv ==
    ASSUME LifecycleInv, NEW x \in Streams, RouteEnd(x)
    PROVE  LifecycleInv' /\ HubStep
<1>1. {x} \in SUBSET {y \in Streams : carrier[y] # NoAgent}
  BY DEF RouteEnd, LifecycleInv, RouteInv
<1>2. HubStep
  BY <1>1, UsesRightly DEF RouteEnd, HubNext
<1>3. UNCHANGED <<agents, byAgent, carrier>>
  BY DEF RouteEnd, Finish, Finishing
<1>4. /\ UNCHANGED <<cacheVars, row, late>>
      /\ UNCHANGED <<conn, req, sweep, restarts>>
      /\ route' = [route EXCEPT ![x] = IdleRoute("end")]
  BY DEF RouteEnd, storeVars
<1>5. RouteInv'
  BY <1>3, <1>4, RouteOver DEF LifecycleInv, RouteInv
<1> QED
  BY <1>2, <1>3, <1>4, <1>5, RouteFrame, SameCache DEF LifecycleInv

-----------------------------------------------------------------------------
(* The environment.                                                        *)

\* Time takes keys and sets away, and ends lives.
LEMMA TimePassesInv ==
    ASSUME LifecycleInv, TimePasses
    PROVE  LifecycleInv' /\ HubStep
<1>1. UNCHANGED hubVars /\ UNCHANGED <<conn, req, sweep, route, restarts>>
  BY DEF TimePasses, procVars
<1>2. HubStep /\ UNCHANGED <<agents, byAgent, carrier>>
  BY <1>1, SameHub
<1>3. SharedInv'
  BY <1>2, NextShared DEF LifecycleInv, HubStep
<1>4. CacheInv' /\ row' = row /\ late' \subseteq Tids
  <2>1. ASSUME NEW s \in Subs, KeyIdles(s)
        PROVE  CacheInv' /\ row' = row /\ late' \subseteq Tids
    BY <2>1 DEF KeyIdles, LifecycleInv, CacheInv, TableInv
  <2>2. ASSUME NEW u \in Users, SetLapses(u)
        PROVE  CacheInv' /\ row' = row /\ late' \subseteq Tids
    BY <2>2 DEF SetLapses, LifecycleInv, CacheInv, TableInv
  <2>3. ASSUME NEW id \in Tids, DeadlinePasses(id)
        PROVE  CacheInv' /\ row' = row /\ late' \subseteq Tids
    <3>1. PICK dies :
            /\ key' = [s \in Subs |-> IF s \in dies THEN NoEntry ELSE key[s]]
            /\ hold' = [s \in Subs |-> IF s \in dies THEN "idle" ELSE hold[s]]
      BY <2>3 DEF DeadlinePasses
    <3>2. UNCHANGED <<mine, row>> /\ late' = late \cup {id}
      BY <2>3 DEF DeadlinePasses
    <3> QED
      BY <3>1, <3>2 DEF LifecycleInv, CacheInv, TableInv
  <2> QED
    BY <2>1, <2>2, <2>3 DEF TimePasses
<1>5. TableInv' /\ DeletesRecorded'
  BY <1>1, <1>4 DEF LifecycleInv, TableInv, DeletesRecorded
<1>6. ConnInv' /\ Registered' /\ ReqInv' /\ BindsRegistered'
  BY <1>1, <1>2
  DEF LifecycleInv, ConnInv, Registered, ReqInv, BindsRegistered
<1>7. SweepGood(sweep') /\ SweepCarried' /\ RouteInv'
      /\ restarts' \in 0 .. MaxRestarts
  BY <1>1, <1>2 DEF LifecycleInv, SweepCarried, ToClose, RouteInv
<1> QED
  BY <1>2, <1>3, <1>4, <1>5, <1>6, <1>7 DEF LifecycleInv

\* A restart ends every process of the server, and keeps the stores.
LEMMA ServerRestartsInv ==
    ASSUME LifecycleInv, ServerRestarts
    PROVE  LifecycleInv' /\ HubStep
<1> USE HubConstants
<1>1. Restart /\ HubStep
  BY UsesRightly DEF ServerRestarts, HubNext
<1>2. SharedInv'
  BY <1>1, NextShared DEF LifecycleInv, HubStep
<1>3. CacheInv' /\ TableInv' /\ row' = row
  BY SameCache, SameTable DEF ServerRestarts, storeVars, LifecycleInv
<1>4. agents' = {} /\ byAgent' = [a \in Agents |-> {}] /\ carrier' = carrier
  BY <1>1 DEF Restart
<1>5. ConnInv' /\ Registered'
  <2>1. conn' = [a \in Agents |->
                   IF conn[a].pc = "off" THEN conn[a] ELSE IdleConn("dead")]
    BY DEF ServerRestarts
  <2>2. \A a \in Agents : /\ ConnGood(a, conn'[a])
                          /\ conn'[a].pc \in {"off", "dead"}
    <3>1. \A a \in Agents : ConnGood(a, conn[a])
      BY DEF LifecycleInv, ConnInv
    <3>2. \A a \in Agents : ConnGood(a, IdleConn("dead"))
      BY DEF ConnGood, ConnState, IdleConn
    <3>3. IdleConn("dead").pc = "dead"
      BY DEF IdleConn
    <3> QED
      BY <2>1, <3>1, <3>2, <3>3
  <2>3. ConnInv'
    BY <2>1, <2>2 DEF ConnInv, ConnGood
  <2> QED
    BY <1>4, <2>2, <2>3 DEF Registered, Serving
<1>6. \A r \in Reqs : /\ ReqGood(req'[r]) /\ req'[r].pc \in {"free", "done"}
                      /\ req'[r].op = req[r].op /\ req'[r].id = req[r].id
  <2> SUFFICES ASSUME NEW r \in Reqs
               PROVE  /\ ReqGood(req'[r]) /\ req'[r].pc \in {"free", "done"}
                      /\ req'[r].op = req[r].op /\ req'[r].id = req[r].id
    OBVIOUS
  <2>1. PICK p \in ReqState : /\ p = req[r] /\ ReqGood(p)
                              /\ p.op # "none" => p.id \in Tids
    BY ReqIs DEF ReqGood
  <2>2. req'[r] = IF p.pc \in {"free", "done"} THEN p
                  ELSE [IdleReq("done") EXCEPT !.op = p.op, !.id = p.id]
    BY <2>1 DEF ServerRestarts
  <2>3. CASE p.pc \in {"free", "done"}
    BY <2>1, <2>2, <2>3
  <2>4. CASE p.pc \notin {"free", "done"}
    <3>1. PICK q : q = [IdleReq("done") EXCEPT !.op = p.op, !.id = p.id]
      OBVIOUS
    <3>2. /\ q \in ReqState /\ q.pc = "done" /\ q.bound = NoTunnel
          /\ q.op = p.op /\ q.id = p.id
      BY <2>1, <3>1 DEF IdleReq, ReqState
    <3>3. ReqGood(q)
      BY <2>1, <3>2, RepliedGood
    <3> QED
      BY <2>1, <2>2, <2>4, <3>1, <3>2, <3>3
  <2> QED
    BY <2>3, <2>4
<1>7. ReqInv' /\ BindsRegistered'
  <2>1. req' = [r \in Reqs |-> req'[r]]
    BY DEF ServerRestarts
  <2>2. req' \in [Reqs -> ReqState]
    BY <1>6, <2>1 DEF ReqGood
  <2> QED
    BY <1>6, <2>2 DEF ReqInv, BindsRegistered, Binding
<1>8. DeletesRecorded'
  BY <1>3, <1>6 DEF LifecycleInv, DeletesRecorded
<1>9. SweepGood(sweep') /\ SweepCarried'
  BY DEF ServerRestarts, IdleSweep, SweepGood, SweepState, SweepCarried, ToClose
<1>10. RouteInv'
  <2>1. route' = [x \in Streams |->
                    IF route[x].pc = "new" THEN route[x] ELSE IdleRoute("end")]
    BY DEF ServerRestarts
  <2> QED
    BY <1>4, <2>1, RouteOver DEF LifecycleInv, RouteInv
<1>11. restarts' \in 0 .. MaxRestarts
  <2>1. MaxRestarts \in Nat
    BY LifecycleConstants
  <2>2. restarts \in 0 .. MaxRestarts
    BY DEF LifecycleInv
  <2>3. restarts < MaxRestarts /\ restarts' = restarts + 1
    BY DEF ServerRestarts
  <2> QED
    BY <2>1, <2>2, <2>3
<1> QED
  BY <1>1, <1>2, <1>3, <1>5, <1>7, <1>8, <1>9, <1>10, <1>11 DEF LifecycleInv

-----------------------------------------------------------------------------
(* Every step.                                                             *)

\* Every step keeps the invariant, and uses the registry as it is meant to be.
LEMMA NextLifecycleInv ==
    ASSUME LifecycleInv, [Next]_vars
    PROVE  LifecycleInv' /\ HubStep
<1>1. CASE UNCHANGED vars
  BY <1>1, RouteFrame, SameHub, SameCache
  DEF vars, storeVars, procVars, LifecycleInv, RouteInv, hubVars, registry,
      streamVars
<1>2. ASSUME NEW a \in Agents, Connect(a) \/ ConnSteps(a) \/ Disconnect(a)
      PROVE  LifecycleInv' /\ HubStep
  BY <1>2, ConnectInv, ClaimInv, ListTunnelsInv, ReadEntryInv, GoLiveInv,
     GoneListInv, GoneReadInv, GoneRearmInv, GoneUnregisterInv, DisconnectInv
  DEF ConnSteps
<1>3. ASSUME NEW r \in Reqs, ReqStart(r)
      PROVE  LifecycleInv' /\ HubStep
  BY <1>3, CreateCountInv, DeleteReadInv, SetEnabledInv DEF ReqStart
<1>4. ASSUME NEW r \in Reqs, ReqSteps(r)
      PROVE  LifecycleInv' /\ HubStep
  BY <1>4, CreateDupInv, CreateNameInv, CreatePutInv, CreateRecordInv,
     CreateFailsInv, BindInv, BindPutInv, BindRegisterInv, PeekEntryInv,
     LookupInv, DropInv, RemoveStepInv, ReputInv, ExpireRowInv,
     DeactivateStepInv
  DEF ReqSteps
<1>5. ASSUME NEW x \in Streams, RouteSteps(x) \/ RouteEnd(x)
      PROVE  LifecycleInv' /\ HubStep
  BY <1>5, RouteReadInv, RouteLookupInv, RouteAllocInv, RouteAddInv,
     RouteEndInv
  DEF RouteSteps
<1>6. CASE SweepSteps
  BY <1>6, SweepStaleInv, SweepSnapshotInv, SweepCheckInv, SweepCloseInv,
     SweepDropInv, SweepRemoveInv, SweepDoneInv
  DEF SweepSteps
<1> QED
  BY <1>1, <1>2, <1>3, <1>4, <1>5, <1>6, TimePassesInv, ServerRestartsInv
  DEF Next

THEOREM LifecycleInvariant == Spec => []LifecycleInv
<1>1. Init => LifecycleInv
  BY InitLifecycleInv
<1>2. LifecycleInv /\ [Next]_vars => LifecycleInv'
  BY NextLifecycleInv
<1> QED
  BY <1>1, <1>2, PTL DEF Spec

\* The types: no handler meets a state it does not know, and no step asks
\* for the tunnel, the agent or the entry that is not there.
THEOREM LifecycleTyped == Spec => []TypeOK
<1>1. LifecycleInv => TypeOK
  BY DEF LifecycleInv, SharedInv, CacheInv, TableInv, ConnInv, ReqInv, SweepGood,
         RouteInv, TypeOK, StoreTypeOK
<1> QED
  BY <1>1, LifecycleInvariant, PTL

\* The handlers, the sweeper and the proxy use the registry as it asks its
\* callers to, whoever the tunnels belong to.
THEOREM LifecycleSharesHub == Spec => SharedSpec
<1>1. Init => HubInit
  BY DEF Init
<1>2. LifecycleInv /\ [Next]_vars => [SharedNext]_hubVars
  BY NextLifecycleInv DEF HubStep
<1> QED
  BY <1>1, <1>2, LifecycleInvariant, PTL DEF Spec, SharedSpec

\* With fewer public connections than stream numbers, one that is being
\* relayed is always reached through its agent, by frames and by Close.
THEOREM LifecycleReaches ==
    ASSUME FewStreams
    PROVE  Spec => []LiveStreamsReachable
BY LifecycleSharesHub, StreamsAlwaysReachable, PTL

\* Where users do not contend for a subdomain, the owners are kept to as well.
THEOREM LifecycleUsesHub ==
    ASSUME OneOwner
    PROVE  Spec => HubSpec
<1>1. Init => HubInit
  BY DEF Init
<1>2. LifecycleInv /\ [Next]_vars => [HubNext]_hubVars
  BY NextLifecycleInv DEF HubStep
<1> QED
  BY <1>1, <1>2, LifecycleInvariant, PTL DEF Spec, HubSpec

\* So that a user is shown exactly the tunnels the proxy can route to.
THEOREM LifecycleIndexExact ==
    ASSUME OneOwner
    PROVE  Spec => []UserIndexExact
BY LifecycleUsesHub, UserIndexAlwaysExact, PTL

-----------------------------------------------------------------------------
(* Orphans: tunnels that no connected agent's disconnect would unbind.     *)

\* The bind that a call is about to make of the agent it found earlier.
LateBind(s) ==
    \E r \in Reqs :
        /\ req[r].pc = "register"
        /\ SubOf[req[r].entry.id] = s
        /\ req[r].entry.agent \notin agents

LEMMA SameHubNoOrphan ==
    ASSUME UNCHANGED hubVars, NEW s \in Subs, Orphan(s)'
    PROVE  Orphan(s)
BY DEF hubVars, registry, Orphan

LEMMA ConnNoOrphan ==
    ASSUME LifecycleInv, NEW a \in Agents,
           Connect(a) \/ ConnSteps(a) \/ Disconnect(a),
           NEW s \in Subs, Orphan(s)'
    PROVE  Orphan(s)
<1>1. CASE GoLive(a)
  <2>1. byAgent[a] = {}
    BY <1>1 DEF GoLive, LifecycleInv, Registered, Waiting
  <2> QED
    BY <1>1, <2>1, RegisterAgentNoOrphan DEF GoLive, LifecycleInv
<1>2. CASE Disconnect(a)
  BY <1>2, FinishingNoOrphan DEF Disconnect, CloseAgent
<1>3. CASE GoneRead(a)
  BY <1>3, FinishingNoOrphan DEF GoneRead, Finish
<1>4. CASE GoneUnregister(a)
  BY <1>4, UnregisterAgentNoOrphan DEF GoneUnregister, LifecycleInv
<1>5. CASE \/ Connect(a) \/ Claim(a) \/ ListTunnels(a) \/ ReadEntry(a)
           \/ GoneList(a) \/ GoneRearm(a)
  BY <1>5, SameHubNoOrphan
  DEF Connect, Claim, ListTunnels, ReadEntry, GoneList, GoneRearm
<1> QED
  BY <1>1, <1>2, <1>3, <1>4, <1>5 DEF ConnSteps

LEMMA ReqNoOrphan ==
    ASSUME LifecycleInv, NEW r \in Reqs, ReqStart(r) \/ ReqSteps(r),
           NEW s \in Subs, ~Orphan(s), Orphan(s)'
    PROVE  LateBind(s)
<1>1. CASE BindRegister(r)
  <2>1. /\ req[r].pc = "register"
        /\ RegisterTunnel(req[r].entry.agent,
                          [id |-> req[r].entry.id, agent |-> req[r].entry.agent])
    BY <1>1 DEF BindRegister
  <2>2. req[r].entry.agent \in Agents /\ req[r].entry.id \in Tids
    BY <2>1, ReqIs DEF ReqGood, Binding, OfSub
  <2>3. /\ [id |-> req[r].entry.id, agent |-> req[r].entry.agent].id
             = req[r].entry.id
        /\ SubOf[req[r].entry.id] \in Subs
    BY <2>2, HubConstants
  <2> QED
    BY <2>1, <2>2, <2>3, RegisterTunnelOrphan DEF LifecycleInv, LateBind
<1>2. CASE Lookup(r)
  <2>1. UNCHANGED hubVars \/ Finishing(tunnels[Sub(r)].streams)
    BY <1>2 DEF Lookup, Finish
  <2> QED
    BY <2>1, FinishingNoOrphan, SameHubNoOrphan
<1>3. CASE Drop(r)
  <2>1. Sub(r) \in Subs
    BY <1>3, ReqIs, HubConstants DEF Drop, ReqGood, Unbinding, Sub
  <2> QED
    BY <1>3, <2>1, DropTunnelNoOrphan DEF Drop, LifecycleInv
<1>4. CASE \/ ReqStart(r) \/ CreateDup(r) \/ CreateName(r) \/ CreatePut(r)
           \/ CreateRecord(r) \/ CreateFails(r) \/ Bind(r) \/ BindPut(r)
           \/ PeekEntry(r) \/ Remove(r) \/ Reput(r) \/ ExpireRow(r)
           \/ Deactivate(r)
  BY <1>4, SameHubNoOrphan
  DEF ReqStart, CreateCount, DeleteRead, SetEnabled, CreateDup, CreateName,
      CreatePut, CreateRecord, CreateFails, Bind, BindPut, PeekEntry, Remove,
      Reput, ExpireRow, Deactivate, NoChange
<1> QED
  BY <1>1, <1>2, <1>3, <1>4 DEF ReqSteps

LEMMA RouteNoOrphan ==
    ASSUME LifecycleInv, NEW x \in Streams, RouteSteps(x) \/ RouteEnd(x),
           NEW s \in Subs, Orphan(s)'
    PROVE  Orphan(s)
<1>1. CASE RouteAlloc(x)
  BY <1>1, StreamStepNoOrphan DEF RouteAlloc, AllocStream, registry
<1>2. CASE RouteAdd(x)
  <2>1. tunnels'[s] # NoTunnel => tunnels[s] # NoTunnel
    BY <1>2 DEF RouteAdd, AddStream, LifecycleInv, SharedInv, HubTypeOK
  <2> QED
    BY <1>2, <2>1, StreamStepNoOrphan DEF RouteAdd, AddStream
<1>3. CASE RouteEnd(x)
  BY <1>3, FinishingNoOrphan DEF RouteEnd, Finish
<1>4. CASE RouteRead(x) \/ RouteLookup(x)
  BY <1>4, SameHubNoOrphan DEF RouteRead, RouteLookup
<1> QED
  BY <1>1, <1>2, <1>3, <1>4 DEF RouteSteps

LEMMA SweepNoOrphan ==
    ASSUME LifecycleInv, SweepSteps, NEW s \in Subs, Orphan(s)'
    PROVE  Orphan(s)
<1>1. CASE SweepClose
  BY <1>1, FinishingNoOrphan DEF SweepClose, Finish
<1>2. CASE SweepDrop
  <2>1. SubOf[sweep.bound.id] \in Subs
    BY <1>2, HubConstants DEF SweepDrop, LifecycleInv, SweepGood, Tunnel
  <2> QED
    BY <1>2, <2>1, DropTunnelNoOrphan DEF SweepDrop, LifecycleInv
<1>3. CASE SweepStale \/ SweepSnapshot \/ SweepCheck \/ SweepRemove \/ SweepDone
  BY <1>3, SameHubNoOrphan
  DEF SweepStale, SweepSnapshot, SweepCheck, SweepRemove, SweepDone
<1> QED
  BY <1>1, <1>2, <1>3 DEF SweepSteps

\* Of all the steps of handlers, connections, proxy, sweeper, stores and
\* restarts only a bind that lost its agent on the way makes an orphan.
THEOREM OrphansFromLateBindsOnly == Spec => OrphansByLateBinds
<1>1. ASSUME LifecycleInv, Next, NEW s \in Subs, ~Orphan(s), Orphan(s)'
      PROVE  LateBind(s)
  <2>1. CASE TimePasses
    BY <1>1, <2>1, SameHubNoOrphan DEF TimePasses
  <2>2. CASE ServerRestarts
    BY <1>1, <2>2 DEF ServerRestarts, Restart, Orphan
  <2> QED
    BY <1>1, <2>1, <2>2, ConnNoOrphan, ReqNoOrphan, RouteNoOrphan,
       SweepNoOrphan
    DEF Next
<1>2. LifecycleInv /\ [Next]_vars =>
        [\A s \in Subs :
           ~Orphan(s) /\ Orphan(s)' =>
              \E r \in Reqs :
                  /\ req[r].pc = "register"
                  /\ SubOf[req[r].entry.id] = s
                  /\ req[r].entry.agent \notin agents]_vars
  BY <1>1 DEF LateBind
<1> QED
  BY <1>2, LifecycleInvariant, PTL DEF Spec, OrphansByLateBinds

-----------------------------------------------------------------------------
(* Rows end by their deadline, or by a delete of their own.                *)

\* An active row of the subdomain of a delete is the row of that delete.
LEMMA OwnRow ==
    ASSUME LifecycleInv, NEW r \in Reqs, req[r].op = "delete",
           NEW id \in Tids, IsActive(id), OfSub(req[r], id)
    PROVE  req[r].id = id
<1>1. req[r].id \in Tids /\ row[req[r].id].status # "none"
  BY ReqIs
<1> QED
  BY <1>1 DEF LifecycleInv, TableInv, OfSub, IsActive

\* A row that a deactivation ends is among those it was given.
LEMMA EndedByIds ==
    ASSUME LifecycleInv, NEW ids, DeactivateTunnels(ids),
           NEW id \in Tids, ~IsActive(id)', IsActive(id)
    PROVE  id \in ids
BY DEF DeactivateTunnels, IsActive

LEMMA RowsEnd ==
    ASSUME LifecycleInv, Next, NEW id \in Tids, IsActive(id), ~IsActive(id)'
    PROVE  \/ id \in late
           \/ \E r \in Reqs : req[r].op = "delete" /\ req[r].id = id
<1>1. row' # row
  BY DEF IsActive
<1>2. ASSUME NEW r \in Reqs, CreateRecord(r) PROVE FALSE
  BY <1>2 DEF CreateRecord, RecordTunnel, IsActive, LifecycleInv, TableInv
<1>3. ASSUME NEW r \in Reqs, NEW i \in Tids, NEW op, SetEnabled(r, i, op)
      PROVE  FALSE
  <2>1. PICK on : row' = [row EXCEPT ![i].enabled = on]
    BY <1>1, <1>3 DEF SetEnabled, SetTunnelEnabled
  <2> QED
    BY <2>1 DEF IsActive, LifecycleInv, TableInv, Row
<1>4. ASSUME NEW r \in Reqs, ExpireRow(r)
      PROVE  req[r].op = "delete" /\ req[r].id = id
  <2>1. /\ req[r].op = "delete" /\ OfSub(req[r], req[r].bound.id)
    BY <1>4, ReqIs DEF ExpireRow, ReqGood
  <2>2. id = req[r].bound.id
    BY <1>1, <1>4, EndedByIds DEF ExpireRow, Ignoring
  <2> QED
    BY <2>1, <2>2, OwnRow
<1>5. ASSUME NEW r \in Reqs, Deactivate(r)
      PROVE  req[r].op = "delete" /\ req[r].id = id
  <2>1. /\ req[r].op = "delete"
        /\ req[r].entry # NoEntry => OfSub(req[r], req[r].entry.id)
    BY <1>5, ReqIs DEF Deactivate, ReqGood
  <2>2. PICK i : /\ i = IF req[r].entry = NoEntry THEN req[r].id
                                                 ELSE req[r].entry.id
                 /\ DeactivateTunnels({i})
    BY <1>1, <1>5 DEF Deactivate, Ignoring
  <2>3. id = i
    BY <2>2, EndedByIds
  <2> QED
    BY <2>1, <2>2, <2>3, OwnRow
<1>6. CASE SweepStale
  BY <1>1, <1>6, EndedByIds DEF SweepStale, Ignoring
<1>7. ASSUME NEW a \in Agents, Connect(a) \/ ConnSteps(a) \/ Disconnect(a)
      PROVE  FALSE
  BY <1>1, <1>7
  DEF ConnSteps, Connect, Claim, ListTunnels, ReadEntry, GoLive, GoneList,
      GoneRead, GoneRearm, GoneUnregister, Disconnect, storeVars
<1>8. ASSUME NEW r \in Reqs, ReqStart(r) PROVE FALSE
  BY <1>1, <1>3, <1>8
  DEF ReqStart, CreateCount, DeleteRead, NoChange, storeVars
<1>9. ASSUME NEW r \in Reqs, ReqSteps(r)
      PROVE  req[r].op = "delete" /\ req[r].id = id
  BY <1>1, <1>2, <1>4, <1>5, <1>9
  DEF ReqSteps, CreateDup, CreateName, CreatePut, CreateFails, Bind, BindPut,
      BindRegister, PeekEntry, Lookup, Drop, Remove, Reput, NoChange, storeVars
<1>10. ASSUME NEW x \in Streams, RouteSteps(x) \/ RouteEnd(x) PROVE FALSE
  BY <1>1, <1>10
  DEF RouteSteps, RouteRead, RouteLookup, RouteAlloc, RouteAdd, RouteEnd,
      storeVars
<1>11. CASE SweepSteps
  BY <1>1, <1>6, <1>11
  DEF SweepSteps, SweepSnapshot, SweepCheck, SweepClose, SweepDrop,
      SweepRemove, SweepDone, storeVars
<1>12. CASE TimePasses
  BY <1>1, <1>12 DEF TimePasses, KeyIdles, SetLapses, DeadlinePasses
<1>13. CASE ServerRestarts
  BY <1>1, <1>13 DEF ServerRestarts, storeVars
<1> QED
  BY <1>7, <1>8, <1>9, <1>10, <1>11, <1>12, <1>13 DEF Next

\* Idle expiry, disconnects and the delete of another tunnel spare a row,
\* whatever key or tunnel a handler has been left holding.
THEOREM RowsEndRightly == Spec => RowsEndByDeadlineOrDelete
<1>1. LifecycleInv /\ [Next]_vars =>
        [\A id \in Tids :
           IsActive(id) /\ ~IsActive(id)' =>
              \/ id \in late
              \/ \E r \in Reqs : req[r].op = "delete" /\ req[r].id = id]_vars
  BY RowsEnd
<1> QED
  BY <1>1, LifecycleInvariant, PTL DEF Spec, RowsEndByDeadlineOrDelete

-----------------------------------------------------------------------------
(* Deletes that answer "deleted", in any interleaving.                     *)

\* The answer of a delete that succeeded.
Deleted(q) == q.pc = "done" /\ q.op = "delete" /\ q.ok

\* What the two ways for a handler to move on make of its call.
LEMMA StepMakes ==
    ASSUME LifecycleInv, NEW r \in Reqs, NEW pc, Step(r, pc)
    PROVE  /\ req'[r].pc = pc /\ req'[r].op = req[r].op
           /\ \A p \in Reqs \ {r} : req'[p] = req[p]
<1>1. PICK q \in ReqState : q = req[r]
  BY ReqIs
<1>2. PICK v : v = [q EXCEPT !.pc = pc] /\ req' = [req EXCEPT ![r] = v]
  BY <1>1, StepIs
<1>3. v.pc = pc /\ v.op = q.op
  BY <1>1, <1>2 DEF ReqState
<1> QED
  BY <1>1, <1>2, <1>3 DEF LifecycleInv, ReqInv

LEMMA ReplyMakes ==
    ASSUME LifecycleInv, NEW r \in Reqs, NEW ok, Reply(r, ok)
    PROVE  /\ req'[r].pc = "done" /\ req'[r].op = req[r].op
           /\ req'[r].id = req[r].id
           /\ \A p \in Reqs \ {r} : req'[p] = req[p]
BY DEF Reply, IdleReq, LifecycleInv, ReqInv

\* A call that starts has not deleted anything yet.
LEMMA StartNotDeleted ==
    ASSUME LifecycleInv, NEW r \in Reqs, ReqStart(r)
    PROVE  /\ ~Deleted(req[r])'
           /\ \A p \in Reqs \ {r} : req'[p] = req[p]
<1>1. ASSUME NEW op, NEW id, Refused(r, op, id)
      PROVE  /\ ~Deleted(req[r])'
             /\ \A p \in Reqs \ {r} : req'[p] = req[p]
  BY <1>1 DEF Refused, IdleReq, Deleted, LifecycleInv, ReqInv
<1>2. ASSUME NEW op, NEW id, NEW e, NEW pc, pc # "done", Begin(r, op, id, pc, e)
      PROVE  /\ ~Deleted(req[r])'
             /\ \A p \in Reqs \ {r} : req'[p] = req[p]
  BY <1>2 DEF Begin, IdleReq, Deleted, LifecycleInv, ReqInv
<1>3. ASSUME NEW id \in Tids, CreateCount(r, id)
      PROVE  /\ ~Deleted(req[r])'
             /\ \A p \in Reqs \ {r} : req'[p] = req[p]
  BY <1>1, <1>2, <1>3 DEF CreateCount
<1>4. ASSUME NEW id \in Tids, DeleteRead(r, id)
      PROVE  /\ ~Deleted(req[r])'
             /\ \A p \in Reqs \ {r} : req'[p] = req[p]
  BY <1>1, <1>2, <1>4 DEF DeleteRead
<1>5. ASSUME NEW id \in Tids, NEW op \in Ops, SetEnabled(r, id, op)
      PROVE  /\ ~Deleted(req[r])'
             /\ \A p \in Reqs \ {r} : req'[p] = req[p]
  BY <1>1, <1>2, <1>5 DEF SetEnabled
<1> QED
  BY <1>3, <1>4, <1>5 DEF ReqStart

\* A handler leaves the other calls alone, and answers "deleted" from
\* Deactivate only.
LEMMA HandlerDeletes ==
    ASSUME LifecycleInv, NEW r \in Reqs, ReqSteps(r)
    PROVE  /\ Deleted(req[r])' => Deactivate(r) /\ Reply(r, TRUE)
           /\ \A p \in Reqs \ {r} : req'[p] = req[p]
<1>1. PICK q \in ReqState : q = req[r] /\ ReqGood(q)
  BY ReqIs
<1>2. CASE \/ CreateDup(r) \/ CreateName(r) \/ CreatePut(r) \/ CreateRecord(r)
           \/ CreateFails(r) \/ BindPut(r) \/ BindRegister(r) \/ Reput(r)
  <2>1. q.op # "delete"
    BY <1>1, <1>2
    DEF CreateDup, CreateName, CreatePut, CreateRecord, CreateFails, BindPut,
        BindRegister, Reput, ReqGood, Creating, Binding
  <2>2. \/ \E pc : Step(r, pc)
        \/ \E ok : Reply(r, ok)
    BY <1>2
    DEF CreateDup, CreateName, CreatePut, CreateRecord, CreateFails, BindPut,
        BindRegister, Reput
  <2> QED
    BY <1>1, <2>1, <2>2, StepMakes, ReplyMakes DEF Deleted
<1>3. CASE Bind(r)
  <2>1. q.op # "delete"
    BY <1>1, <1>3 DEF Bind, ReqGood
  <2>2. CASE \E pc : Step(r, pc)
    BY <1>1, <2>1, <2>2, StepMakes DEF Deleted
  <2>3. CASE \E ok : Reply(r, ok)
    BY <1>1, <2>1, <2>3, ReplyMakes DEF Deleted
  <2>4. ASSUME NEW a \in Agents,
               req' = [req EXCEPT ![r].pc = "bindput", ![r].entry.agent = a]
        PROVE  /\ ~Deleted(req[r])'
               /\ \A p \in Reqs \ {r} : req'[p] = req[p]
    <3>1. PICK v : /\ v = [q EXCEPT !.pc = "bindput", !.entry.agent = a]
                   /\ req' = [req EXCEPT ![r] = v]
      BY <1>1, <2>4 DEF LifecycleInv, ReqInv
    <3>2. v.pc = "bindput"
      BY <1>1, <3>1 DEF ReqState
    <3> QED
      BY <3>1, <3>2 DEF Deleted, LifecycleInv, ReqInv
  <2> QED
    BY <1>3, <2>2, <2>3, <2>4 DEF Bind, LiveAgentsOf, LifecycleInv, SharedInv,
                                  HubTypeOK
<1>4. CASE PeekEntry(r)
  <2>1. q.op # "delete"
    BY <1>1, <1>4 DEF PeekEntry, ReqGood
  <2>2. CASE Reply(r, TRUE)
    BY <1>1, <2>1, <2>2, ReplyMakes DEF Deleted
  <2>3. ASSUME NEW pc \in {"lookup", "bind"}, NEW e,
               req' = [req EXCEPT ![r].pc = pc, ![r].entry = e]
        PROVE  /\ ~Deleted(req[r])'
               /\ \A p \in Reqs \ {r} : req'[p] = req[p]
    <3>1. PICK v : /\ v = [q EXCEPT !.pc = pc, !.entry = e]
                   /\ req' = [req EXCEPT ![r] = v]
      BY <1>1, <2>3 DEF LifecycleInv, ReqInv
    <3>2. v.pc = pc
      BY <1>1, <3>1 DEF ReqState
    <3> QED
      BY <2>3, <3>1, <3>2 DEF Deleted, LifecycleInv, ReqInv
  <2> QED
    BY <1>4, <2>2, <2>3 DEF PeekEntry
<1>5. CASE Lookup(r)
  <2>1. CASE \E pc \in {"reput", "remove"} : Step(r, pc)
    BY <2>1, StepMakes DEF Deleted
  <2>2. ASSUME NEW t, req' = [req EXCEPT ![r].pc = "drop", ![r].bound = t]
        PROVE  /\ ~Deleted(req[r])'
               /\ \A p \in Reqs \ {r} : req'[p] = req[p]
    <3>1. PICK v : /\ v = [q EXCEPT !.pc = "drop", !.bound = t]
                   /\ req' = [req EXCEPT ![r] = v]
      BY <1>1, <2>2 DEF LifecycleInv, ReqInv
    <3>2. v.pc = "drop"
      BY <1>1, <3>1 DEF ReqState
    <3> QED
      BY <3>1, <3>2 DEF Deleted, LifecycleInv, ReqInv
  <2> QED
    BY <1>5, <2>1, <2>2 DEF Lookup
<1>6. CASE Drop(r) \/ ExpireRow(r)
  BY <1>6, StepMakes DEF Drop, ExpireRow, Deleted
<1>7. CASE Remove(r)
  <2>1. \/ \E pc \in {"reput", "expire", "deactivate"} : Step(r, pc)
        \/ q.op = "create" /\ Reply(r, FALSE)
    BY <1>1, <1>7 DEF Remove, ReqGood
  <2> QED
    BY <1>1, <2>1, StepMakes, ReplyMakes DEF Deleted
<1>8. CASE Deactivate(r)
  <2>1. Reply(r, TRUE) \/ Reply(r, FALSE)
    BY <1>8 DEF Deactivate
  <2>2. CASE Reply(r, FALSE)
    BY <2>2, ReplyMakes DEF Reply, IdleReq, Deleted, LifecycleInv, ReqInv
  <2> QED
    BY <1>8, <2>1, <2>2, ReplyMakes
<1> QED
  BY <1>2, <1>3, <1>4, <1>5, <1>6, <1>7, <1>8 DEF ReqSteps

\* A row that has ended stays so: its subdomain is taken for good.
LEMMA EndedStays ==
    ASSUME LifecycleInv, Next, NEW id \in Tids, row[id].status = "inactive"
    PROVE  row'[id].status = "inactive"
<1>1. row \in [Tids -> Row]
  BY DEF LifecycleInv, TableInv
<1>2. ASSUME NEW r \in Reqs, CreateRecord(r) PROVE row'[id] = row[id]
  <2>1. req[r].id \in Tids /\ req[r].id # id
    BY <1>2, ReqIs DEF CreateRecord, SubdomainTaken, ReqGood, Creating, Sub
  <2> QED
    BY <1>1, <1>2, <2>1 DEF CreateRecord, RecordTunnel
<1>3. ASSUME NEW i \in Tids, NEW on \in BOOLEAN, SetTunnelEnabled(i, on)
      PROVE  row'[id].status = "inactive"
  <2>1. PICK w \in Row : w = row[i]
    BY <1>1
  <2>2. PICK v : v = [w EXCEPT !.enabled = on] /\ row' = [row EXCEPT ![i] = v]
    BY <1>3, <2>1 DEF SetTunnelEnabled
  <2>3. v.status = w.status
    BY <2>1, <2>2 DEF Row
  <2> QED
    BY <1>1, <2>1, <2>2, <2>3
<1>4. ASSUME NEW ids, DeactivateTunnels(ids) PROVE row'[id].status = "inactive"
  <2>1. PICK w \in Row : w = row[id]
    BY <1>1
  <2>2. row'[id] = w \/ row'[id] = [w EXCEPT !.status = "inactive"]
    BY <1>4, <2>1 DEF DeactivateTunnels
  <2> QED
    BY <2>1, <2>2 DEF Row
<1>5. ASSUME NEW a \in Agents, Connect(a) \/ ConnSteps(a) \/ Disconnect(a)
      PROVE  row' = row
  BY <1>5
  DEF ConnSteps, Connect, Claim, ListTunnels, ReadEntry, GoLive, GoneList,
      GoneRead, GoneRearm, GoneUnregister, Disconnect, storeVars
<1>6. ASSUME NEW r \in Reqs, ReqStart(r)
      PROVE  row'[id].status = "inactive"
  BY <1>3, <1>6 DEF ReqStart, CreateCount, DeleteRead, SetEnabled, NoChange,
                    storeVars
<1>7. ASSUME NEW r \in Reqs, ReqSteps(r)
      PROVE  row'[id].status = "inactive"
  <2>1. CASE ExpireRow(r) \/ Deactivate(r)
    BY <1>4, <2>1 DEF ExpireRow, Deactivate, Ignoring
  <2> QED
    BY <1>2, <1>7, <2>1
    DEF ReqSteps, CreateDup, CreateName, CreatePut, CreateFails, Bind, BindPut,
        BindRegister, PeekEntry, Lookup, Drop, Remove, Reput, NoChange,
        storeVars
<1>8. ASSUME NEW x \in Streams, RouteSteps(x) \/ RouteEnd(x) PROVE row' = row
  BY <1>8
  DEF RouteSteps, RouteRead, RouteLookup, RouteAlloc, RouteAdd, RouteEnd,
      storeVars
<1>9. CASE SweepSteps
  <2>1. CASE SweepStale
    BY <1>4, <2>1 DEF SweepStale, Ignoring
  <2> QED
    BY <1>9, <2>1
    DEF SweepSteps, SweepSnapshot, SweepCheck, SweepClose, SweepDrop,
        SweepRemove, SweepDone, storeVars
<1>10. CASE TimePasses
  BY <1>10 DEF TimePasses, KeyIdles, SetLapses, DeadlinePasses
<1>11. CASE ServerRestarts
  BY <1>11 DEF ServerRestarts, storeVars
<1> QED
  BY <1>5, <1>6, <1>7, <1>8, <1>9, <1>10, <1>11 DEF Next

\* Where stores do not fail and every tunnel has a subdomain of its own.
OwnSubdomains == \A i, j \in Tids : SubOf[i] = SubOf[j] => i = j

LEMMA DeletesEndTheirRow ==
    ASSUME ~StoresFail, OwnSubdomains, LifecycleInv, NEW r \in Reqs,
           Deactivate(r)
    PROVE  row'[req[r].id].status = "inactive"
<1>1. /\ req[r].op = "delete" /\ req[r].id \in Tids
      /\ row[req[r].id].status # "none"
      /\ req[r].entry # NoEntry => OfSub(req[r], req[r].entry.id)
  BY ReqIs DEF Deactivate, ReqGood
<1>2. req[r].entry # NoEntry => req[r].entry.id = req[r].id
  BY <1>1 DEF OwnSubdomains, OfSub
<1>3. DeactivateTunnels({req[r].id})
  BY <1>2 DEF Deactivate, Ignoring
<1>4. PICK w \in Row : w = row[req[r].id]
  BY <1>1 DEF LifecycleInv, TableInv
<1>5. row'[req[r].id] = [w EXCEPT !.status = "inactive"]
  BY <1>1, <1>3, <1>4 DEF DeactivateTunnels
<1> QED
  BY <1>4, <1>5 DEF Row

\* Whatever runs beside it, other calls on the tunnel, a connecting agent, a
\* disconnect, the sweeper or a restart, a delete that says so has ended the
\* row it was asked for, and nothing brings the row back.
THEOREM DeletesDeactivate ==
    ASSUME ~StoresFail, OwnSubdomains
    PROVE  Spec => []DeleteDeactivates
<1> DEFINE Ended(q) == Deleted(q) => row[q.id].status = "inactive"
           AllEnded == \A r \in Reqs : Ended(req[r])
<1>1. Init => AllEnded
  BY DEF Init, IdleReq, Deleted
<1>2. ASSUME LifecycleInv, AllEnded, Next, NEW r \in Reqs
      PROVE  Ended(req[r])'
  <2>1. CASE req'[r] = req[r]
    <3>1. Deleted(req[r]) => req[r].id \in Tids
      BY <1>2, ReqIs DEF Deleted
    <3>2. row[req[r].id].status = "inactive" /\ req[r].id \in Tids
            => row'[req[r].id].status = "inactive"
      BY <1>2, EndedStays
    <3> QED
      BY <1>2, <2>1, <3>1, <3>2 DEF Deleted
  <2>2. CASE Deactivate(r) /\ Reply(r, TRUE)
    BY <1>2, <2>2, DeletesEndTheirRow, ReplyMakes
  <2>3. CASE ~Deleted(req[r])'
    BY <2>3
  <2>4. ASSUME NEW p \in Reqs, ReqStart(p) \/ ReqSteps(p)
        PROVE  Ended(req[r])'
    BY <1>2, <2>1, <2>2, <2>3, <2>4, StartNotDeleted, HandlerDeletes
  <2>5. CASE ServerRestarts
    <3>1. req'[r] = req[r] \/ \E op, id : req'[r] = [IdleReq("done") EXCEPT !.op = op, !.id = id]
      BY <2>5 DEF ServerRestarts
    <3> QED
      BY <2>1, <2>3, <3>1 DEF IdleReq, Deleted
  <2>6. CASE UNCHANGED req
    BY <2>1, <2>6
  <2>7. \/ UNCHANGED req \/ ServerRestarts
        \/ \E p \in Reqs : ReqStart(p) \/ ReqSteps(p)
    BY <1>2
    DEF Next, ConnSteps, Connect, Claim, ListTunnels, ReadEntry, GoLive,
        GoneList, GoneRead, GoneRearm, GoneUnregister, Disconnect, RouteSteps,
        RouteRead, RouteLookup, RouteAlloc, RouteAdd, RouteEnd, SweepSteps,
        SweepStale, SweepSnapshot, SweepCheck, SweepClose, SweepDrop,
        SweepRemove, SweepDone, TimePasses, procVars
  <2> QED
    BY <2>4, <2>5, <2>6, <2>7
<1>3. LifecycleInv /\ AllEnded /\ [Next]_vars => AllEnded'
  BY <1>2 DEF vars, storeVars, procVars, Deleted
<1>4. AllEnded => DeleteDeactivates
  BY DEF DeleteDeactivates, Deleted
<1> HIDE DEF AllEnded
<1> QED
  BY <1>1, <1>3, <1>4, LifecycleInvariant, PTL DEF Spec

=============================================================================
