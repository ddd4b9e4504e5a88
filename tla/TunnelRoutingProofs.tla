------------------------- MODULE TunnelRoutingProofs -------------------------
(***************************************************************************)
(* Where a subdomain leads is to an agent of a user who owns a tunnel      *)
(* there: for every set of agents, calls, tunnels and users, several of    *)
(* whom may want the same subdomain, with calls and connections that       *)
(* overlap, stores that fail, and restarts.                                *)
(*                                                                         *)
(* What a handler has read may be stale when it acts on it, so that the    *)
(* invariant says the same of what the handlers hold.  It can, because a   *)
(* row once recorded is never forgotten: who owned a tunnel still does.    *)
(***************************************************************************)
EXTENDS TunnelLifecycleProofs

-----------------------------------------------------------------------------
(* The inductive invariant.                                                *)

MayServe(a, s) == a = NoAgent \/ Owns(a, s)

KeysServe ==
    \A s \in Subs : key[s] # NoEntry => MayServe(key[s].agent, s)

BoundServe ==
    \A s \in Subs : tunnels[s] # NoTunnel => Owns(tunnels[s].agent, s)

CarriersServe == \A x \in Streams : MayServe(carrier[x], RouteOf[x])

\* What a connection is about to put and to bind.
ConnServes(a, c) ==
    /\ c.pc = "claim" =>
         \A id \in c.todo : /\ UserOf[id] = AgentUser[a]
                            /\ row[id].status # "none"
    /\ \A e \in c.got : Owns(e.agent, SubOf[e.id])

ConnsServe == \A a \in Agents : ConnServes(a, conn[a])

\* What a call is, and that it is for a tunnel with a row when it looks for an
\* agent of the user.
ReqServes(q) ==
    /\ q.pc \notin {"free", "done", "peek", "deactivate"} =>
         MayServe(q.entry.agent, SubOf[q.entry.id])
    /\ \/ q.pc \in Binding \cup {"bind"}
       \/ q.op = "resume" /\ q.pc # "done"
       => row[q.id].status # "none"

ReqsServe == \A r \in Reqs : ReqServes(req[r])

\* The agent a public connection has read from the key.
RoutesServe == \A x \in Streams : MayServe(route[x].agent, RouteOf[x])

RoutingInv ==
    /\ KeysServe
    /\ BoundServe
    /\ CarriersServe
    /\ ConnsServe
    /\ ReqsServe
    /\ RoutesServe

-----------------------------------------------------------------------------
(* Facts the steps share.                                                  *)

LEMMA StateTypes ==
    ASSUME LifecycleInv
    PROVE  /\ key \in [Subs -> CacheEntry \cup {NoEntry}]
           /\ row \in [Tids -> Row]
           /\ tunnels \in [Subs -> Tunnel \cup {NoTunnel}]
           /\ carrier \in [Streams -> Agents \cup {NoAgent}]
           /\ conn \in [Agents -> ConnState]
           /\ req \in [Reqs -> ReqState]
           /\ route \in [Streams -> RouteState]
BY DEF LifecycleInv, SharedInv, HubTypeOK, CacheInv, TableInv, ConnInv, ReqInv,
       RouteInv

\* No row is forgotten.
RowsKept ==
    \A id \in Tids : row[id].status # "none" => row'[id].status # "none"

LEMMA StillServes ==
    ASSUME RowsKept, NEW a, NEW s, MayServe(a, s)
    PROVE  MayServe(a, s)'
BY DEF RowsKept, MayServe, Owns

LEMMA StillOwns ==
    ASSUME RowsKept, NEW a, NEW s, Owns(a, s)
    PROVE  Owns(a, s)'
BY DEF RowsKept, Owns

LEMMA DeactivateKeeps ==
    ASSUME LifecycleInv, NEW ids, DeactivateTunnels(ids)
    PROVE  RowsKept
BY StateTypes DEF DeactivateTunnels, RowsKept, Row

LEMMA RowsStay ==
    ASSUME LifecycleInv, [Next]_vars
    PROVE  RowsKept
<1>1. CASE row' = row
  BY <1>1 DEF RowsKept
<1>2. CASE row' # row
  <2>1. ASSUME NEW r \in Reqs, CreateRecord(r) PROVE RowsKept
    BY <2>1, StateTypes DEF CreateRecord, RecordTunnel, RowsKept
  <2>2. ASSUME NEW r \in Reqs, NEW i \in Tids, NEW op, SetEnabled(r, i, op)
        PROVE  RowsKept
    <3>1. PICK on : row' = [row EXCEPT ![i].enabled = on]
      BY <1>2, <2>2 DEF SetEnabled, SetTunnelEnabled
    <3> QED
      BY <3>1, StateTypes DEF Row, RowsKept
  <2>3. ASSUME NEW r \in Reqs, ExpireRow(r) \/ Deactivate(r) PROVE RowsKept
    BY <1>2, <2>3, DeactivateKeeps DEF ExpireRow, Deactivate, Ignoring
  <2>4. CASE SweepSteps
    BY <1>2, <2>4, DeactivateKeeps
    DEF SweepSteps, SweepStale, SweepSnapshot, SweepCheck, SweepClose, SweepDrop,
        SweepRemove, SweepDone, Ignoring, storeVars
  <2>5. ASSUME NEW a \in Agents, Connect(a) \/ ConnSteps(a) \/ Disconnect(a)
        PROVE  FALSE
    BY <1>2, <2>5
    DEF ConnSteps, Connect, Claim, ListTunnels, ReadEntry, GoLive, GoneList,
        GoneRead, GoneRearm, GoneUnregister, Disconnect, storeVars
  <2>6. ASSUME NEW r \in Reqs, ReqStart(r) PROVE RowsKept
    BY <1>2, <2>2, <2>6
    DEF ReqStart, CreateCount, DeleteRead, NoChange, storeVars
  <2>7. ASSUME NEW r \in Reqs, ReqSteps(r) PROVE RowsKept
    BY <1>2, <2>1, <2>3, <2>7
    DEF ReqSteps, CreateDup, CreateName, CreatePut, CreateFails, Bind, BindPut,
        BindRegister, PeekEntry, Lookup, Drop, Remove, Reput, NoChange,
        storeVars
  <2>8. ASSUME NEW x \in Streams, RouteSteps(x) \/ RouteEnd(x) PROVE FALSE
    BY <1>2, <2>8
    DEF RouteSteps, RouteRead, RouteLookup, RouteAlloc, RouteAdd, RouteEnd,
        storeVars
  <2>9. ~TimePasses /\ ~ServerRestarts /\ ~(UNCHANGED vars)
    BY <1>2 DEF TimePasses, KeyIdles, SetLapses, DeadlinePasses,
                ServerRestarts, vars, storeVars
  <2> QED
    BY <2>4, <2>5, <2>6, <2>7, <2>8, <2>9 DEF Next
<1> QED
  BY <1>1, <1>2

-----------------------------------------------------------------------------
(* The keys.                                                               *)

LEMMA FewerKeysServe ==
    ASSUME KeysServe, RowsKept, \A s \in Subs : key'[s] = key[s] \/ key'[s] = NoEntry
    PROVE  KeysServe'
BY StillServes DEF KeysServe

LEMMA PutServes ==
    ASSUME LifecycleInv, KeysServe, RowsKept, NEW e \in CacheEntry, NEW ttl,
           MayServe(e.agent, SubOf[e.id]), PutTunnel(e, ttl)
    PROVE  KeysServe'
<1> USE HubConstants
<1>1. CASE UNCHANGED cacheVars
  BY <1>1, FewerKeysServe DEF cacheVars
<1>2. CASE key' = [key EXCEPT ![SubOf[e.id]] = e]
  <2>1. \A s \in Subs : key'[s] = IF s = SubOf[e.id] THEN e ELSE key[s]
    BY <1>2, StateTypes
  <2> QED
    BY <2>1, StillServes DEF KeysServe
<1> QED
  BY <1>1, <1>2 DEF PutTunnel

LEMMA ConnKeys ==
    ASSUME LifecycleInv, RoutingInv, RowsKept,
           NEW a \in Agents, Connect(a) \/ ConnSteps(a) \/ Disconnect(a)
    PROVE  KeysServe'
<1> USE HubConstants
<1>1. CASE key' = key
  BY <1>1, FewerKeysServe DEF RoutingInv
<1>2. CASE key' # key
  <2>1. CASE Claim(a)
    <3>1. PICK id \in conn[a].todo : 
            /\ conn[a].pc = "claim"
            /\ PutTunnel([id |-> id, agent |-> a, enabled |-> TRUE], "idle")
      BY <1>2, <2>1 DEF Claim, Ignoring, cacheVars
    <3>2. /\ id \in Tids /\ UserOf[id] = AgentUser[a]
          /\ row[id].status # "none"
      BY <3>1 DEF RoutingInv, ConnsServe, ConnServes, LifecycleInv, ConnInv, ConnGood
    <3>3. MayServe(a, SubOf[id])
      BY <3>2 DEF MayServe, Owns
    <3> DEFINE e == [id |-> id, agent |-> a, enabled |-> TRUE]
    <3>4. e \in CacheEntry /\ MayServe(e.agent, SubOf[e.id])
      BY <3>2, <3>3 DEF CacheEntry
    <3> QED
      BY <3>1, <3>4, PutServes DEF RoutingInv
  <2>2. CASE GoneRearm(a)
    <3> DEFINE e == [conn[a].entry EXCEPT !.agent = NoAgent]
    <3>1. PutTunnel(e, "deadline") /\ conn[a].entry \in CacheEntry
      BY <1>2, <2>2 DEF GoneRearm, Ignoring, cacheVars, LifecycleInv, ConnInv, ConnGood
    <3>2. e \in CacheEntry /\ MayServe(e.agent, SubOf[e.id])
      BY <3>1 DEF CacheEntry, MayServe
    <3> QED
      BY <3>1, <3>2, PutServes DEF RoutingInv
  <2>3. CASE /\ ~Claim(a) /\ ~GoneRearm(a)
    BY <1>2, <2>3
    DEF ConnSteps, Connect, ListTunnels, ReadEntry, Slide, Ignoring, GoLive,
        GoneList, GoneRead, GoneUnregister, Disconnect, storeVars, cacheVars
  <2> QED
    BY <2>1, <2>2, <2>3
<1> QED
  BY <1>1, <1>2

\* What a call puts is what it holds.
LEMMA CallKeys ==
    ASSUME LifecycleInv, RoutingInv, RowsKept,
           NEW r \in Reqs, ReqStart(r) \/ ReqSteps(r)
    PROVE  KeysServe'
<1>1. CASE key' = key
  BY <1>1, FewerKeysServe DEF RoutingInv
<1>2. CASE key' # key
  <2>1. CASE CreatePut(r) \/ BindPut(r) \/ Reput(r)
    <3>1. PICK e, ttl : e = req[r].entry /\ PutTunnel(e, ttl)
                        /\ req[r].pc \in {"put", "bindput", "reput"}
      BY <1>2, <2>1 DEF CreatePut, BindPut, Reput, Ignoring, cacheVars
    <3>2. e \in CacheEntry
      BY <3>1, ReqIs DEF ReqGood
    <3> QED
      BY <3>1, <3>2, PutServes DEF RoutingInv, ReqsServe, ReqServes
  <2>2. CASE Remove(r)
    <3>1. \A s \in Subs : key'[s] = key[s] \/ key'[s] = NoEntry
      BY <1>2, <2>2, StateTypes DEF Remove, RemoveTunnel, Ignoring, cacheVars
    <3> QED
      BY <3>1, FewerKeysServe DEF RoutingInv
  <2>3. CASE ~CreatePut(r) /\ ~BindPut(r) /\ ~Reput(r) /\ ~Remove(r)
    <3>1. ~ReqStart(r)
      BY <1>2 DEF ReqStart, CreateCount, DeleteRead, SetEnabled, Slide, Ignoring,
                  NoChange, storeVars, cacheVars
    <3> QED
      BY <1>2, <2>3, <3>1
      DEF ReqSteps, CreateDup, CreateName, CreateRecord, CreateFails, Bind,
          BindRegister, PeekEntry, Lookup, Drop, ExpireRow, Deactivate, Slide,
          NoChange, storeVars, cacheVars
  <2> QED
    BY <2>1, <2>2, <2>3
<1> QED
  BY <1>1, <1>2

LEMMA KeysStay ==
    ASSUME LifecycleInv, RoutingInv, RowsKept, [Next]_vars
    PROVE  KeysServe'
<1>1. CASE SweepSteps
  <2>1. \A s \in Subs : key'[s] = key[s] \/ key'[s] = NoEntry
    BY <1>1, StateTypes
    DEF SweepSteps, SweepStale, SweepSnapshot, SweepCheck, SweepClose, SweepDrop,
        SweepRemove, SweepDone, RemoveTunnel, Ignoring, storeVars, cacheVars
  <2> QED
    BY <2>1, FewerKeysServe DEF RoutingInv
<1>2. CASE TimePasses
  <2>1. \A s \in Subs : key'[s] = key[s] \/ key'[s] = NoEntry
    BY <1>2, StateTypes DEF TimePasses, KeyIdles, SetLapses, DeadlinePasses
  <2> QED
    BY <2>1, FewerKeysServe DEF RoutingInv
<1>3. CASE key' = key
  BY <1>3, FewerKeysServe DEF RoutingInv
<1>4. ASSUME NEW x \in Streams, RouteSteps(x) \/ RouteEnd(x) PROVE key' = key
  BY <1>4
  DEF RouteSteps, RouteRead, RouteLookup, RouteAlloc, RouteAdd, RouteEnd,
      Slide, Ignoring, storeVars, cacheVars
<1>5. ServerRestarts \/ UNCHANGED vars => key' = key
  BY DEF ServerRestarts, vars, storeVars, cacheVars
<1> QED
  BY <1>1, <1>2, <1>3, <1>4, <1>5, ConnKeys, CallKeys DEF Next

-----------------------------------------------------------------------------
(* The registry.                                                           *)

\* Tunnels go, or keep their agent.
LEMMA FewerBoundServe ==
    ASSUME BoundServe, RowsKept,
           \A s \in Subs : \/ tunnels'[s] = NoTunnel
                           \/ /\ tunnels[s] # NoTunnel
                              /\ tunnels'[s].agent = tunnels[s].agent
    PROVE  BoundServe'
BY StillOwns DEF BoundServe

LEMMA StreamsKeepAgents ==
    ASSUME LifecycleInv, RoutingInv, RowsKept,
           \/ UNCHANGED tunnels
           \/ \E X : Finishing(X)
           \/ \E x : AddStream(x)
    PROVE  BoundServe'
<1>1. ASSUME NEW s \in Subs
      PROVE  \/ tunnels'[s] = NoTunnel
             \/ /\ tunnels[s] # NoTunnel
                /\ tunnels'[s].agent = tunnels[s].agent
  <2>1. tunnels \in [Subs -> Tunnel \cup {NoTunnel}]
    BY StateTypes
  <2>2. CASE UNCHANGED tunnels
    BY <2>2
  <2>3. CASE \E X : Finishing(X)
    BY <2>1, <2>3 DEF Finishing, Tunnel
  <2>4. ASSUME NEW x, AddStream(x)
        PROVE  \/ tunnels'[s] = NoTunnel
               \/ /\ tunnels[s] # NoTunnel
                  /\ tunnels'[s].agent = tunnels[s].agent
    <3>1. PICK t \in Tunnel \cup {NoTunnel} : t = tunnels[s]
      BY <2>1
    <3>2. CASE tunnels' = tunnels
      BY <3>2
    <3>3. CASE /\ tunnels[RouteOf[x]] # NoTunnel
               /\ tunnels' = [tunnels EXCEPT ![RouteOf[x]].streams =
                                WithoutIds(@, {sid[x]}) \cup {x}]
      BY <2>1, <3>1, <3>3 DEF Tunnel
    <3> QED
      BY <2>4, <3>2, <3>3 DEF AddStream
  <2> QED
    BY <2>2, <2>3, <2>4
<1> QED
  BY <1>1, FewerBoundServe DEF RoutingInv

LEMMA UnboundServe ==
    ASSUME LifecycleInv, RoutingInv, RowsKept,
           \/ \E a : UnregisterAgent(a)
           \/ \E s, t : DropTunnel(s, t)
           \/ Restart
    PROVE  BoundServe'
<1>1. \A s \in Subs : tunnels'[s] = NoTunnel \/ tunnels'[s] = tunnels[s]
  BY StateTypes DEF UnregisterAgent, DropTunnel, Restart
<1> QED
  BY <1>1, FewerBoundServe DEF RoutingInv

LEMMA GoLiveBound ==
    ASSUME LifecycleInv, RoutingInv, RowsKept, NEW a \in Agents, GoLive(a)
    PROVE  BoundServe'
<1>1. PICK G : G = conn[a].got /\ RegisterAgent(a, G)
  BY DEF GoLive
<1>2. \A e \in G : Owns(e.agent, SubOf[e.id])'
  BY <1>1, StillOwns DEF RoutingInv, ConnsServe, ConnServes
<1>3. ASSUME NEW s \in Subs, tunnels'[s] # NoTunnel
      PROVE  \E b : b = tunnels'[s].agent /\ Owns(b, s)'
  <2>1. CASE s \in SubsOf(G)
    <3>1. PICK e \in G : SubOf[e.id] = s /\ tunnels'[s] = NewTunnel(e)
      BY <1>1, <2>1 DEF RegisterAgent, SubsOf
    <3> QED
      BY <1>2, <3>1 DEF NewTunnel
  <2>2. CASE s \notin SubsOf(G)
    <3>1. tunnels'[s] = tunnels[s]
      BY <1>1, <2>2 DEF RegisterAgent
    <3> QED
      BY <1>3, <3>1, StillOwns DEF RoutingInv, BoundServe
  <2> QED
    BY <2>1, <2>2
<1> QED
  BY <1>3 DEF BoundServe, Owns

LEMMA BindRegisterBound ==
    ASSUME LifecycleInv, RoutingInv, RowsKept, NEW r \in Reqs, BindRegister(r)
    PROVE  BoundServe'
<1> USE HubConstants
<1>1. PICK e : /\ e = [id |-> req[r].entry.id, agent |-> req[r].entry.agent]
               /\ RegisterTunnel(req[r].entry.agent, e)
               /\ req[r].pc = "register"
  BY DEF BindRegister
<1>2. e.agent \in Agents /\ MayServe(e.agent, SubOf[e.id])
  BY <1>1, ReqIs DEF ReqGood, Binding, RoutingInv, ReqsServe, ReqServes
<1>3. Owns(e.agent, SubOf[e.id])'
  BY <1>2, StillOwns DEF MayServe
<1>4. \A s \in Subs : tunnels'[s] = IF s = SubOf[e.id] THEN NewTunnel(e)
                                                      ELSE tunnels[s]
  BY <1>1, StateTypes DEF RegisterTunnel
<1> QED
  BY <1>3, <1>4, StillOwns DEF BoundServe, RoutingInv, NewTunnel

LEMMA BoundStay ==
    ASSUME LifecycleInv, RoutingInv, RowsKept, [Next]_vars
    PROVE  BoundServe'
<1>1. ASSUME NEW a \in Agents, Connect(a) \/ ConnSteps(a) \/ Disconnect(a)
      PROVE  BoundServe'
  <2>1. CASE GoLive(a)
    BY <2>1, GoLiveBound
  <2>2. CASE GoneUnregister(a)
    BY <2>2, UnboundServe DEF GoneUnregister
  <2>3. CASE GoneRead(a) \/ Disconnect(a)
    BY <2>3, StreamsKeepAgents DEF GoneRead, Finish, Disconnect, CloseAgent
  <2>4. CASE ~GoLive(a) /\ ~GoneUnregister(a) /\ ~GoneRead(a) /\ ~Disconnect(a)
    <3>1. UNCHANGED tunnels
      BY <1>1, <2>4
      DEF ConnSteps, Connect, Claim, ListTunnels, ReadEntry, GoneList,
          GoneRearm, hubVars, registry
    <3> QED
      BY <3>1, StreamsKeepAgents
  <2> QED
    BY <2>1, <2>2, <2>3, <2>4
<1>2. ASSUME NEW r \in Reqs, ReqStart(r) \/ ReqSteps(r) PROVE BoundServe'
  <2>1. CASE BindRegister(r)
    BY <2>1, BindRegisterBound
  <2>2. CASE Drop(r)
    BY <2>2, UnboundServe DEF Drop
  <2>3. CASE Lookup(r)
    BY <2>3, StreamsKeepAgents DEF Lookup, Finish, hubVars, registry
  <2>4. CASE ~BindRegister(r) /\ ~Drop(r) /\ ~Lookup(r)
    <3>1. UNCHANGED tunnels
      BY <1>2, <2>4
      DEF ReqStart, CreateCount, DeleteRead, SetEnabled,
          ReqSteps, CreateDup, CreateName, CreatePut, CreateRecord,
          CreateFails, Bind, BindPut, PeekEntry, Remove, Reput, ExpireRow,
          Deactivate, NoChange, hubVars, registry
    <3> QED
      BY <3>1, StreamsKeepAgents
  <2> QED
    BY <2>1, <2>2, <2>3, <2>4
<1>3. ASSUME NEW x \in Streams, RouteSteps(x) \/ RouteEnd(x) PROVE BoundServe'
  <2>1. UNCHANGED tunnels \/ (\E X : Finishing(X)) \/ AddStream(x)
    BY <1>3
    DEF RouteSteps, RouteRead, RouteLookup, RouteAlloc, RouteAdd, RouteEnd,
        AllocStream, Finish, hubVars, registry
  <2> QED
    BY <2>1, StreamsKeepAgents
<1>4. CASE SweepSteps
  <2>1. \/ UNCHANGED tunnels
        \/ \E X : Finishing(X)
        \/ \E s, t : DropTunnel(s, t)
    BY <1>4
    DEF SweepSteps, SweepStale, SweepSnapshot, SweepCheck, SweepClose, SweepDrop,
        SweepRemove, SweepDone, Finish, hubVars, registry
  <2> QED
    BY <2>1, StreamsKeepAgents, UnboundServe
<1>5. CASE ServerRestarts
  BY <1>5, UnboundServe DEF ServerRestarts
<1>6. TimePasses \/ UNCHANGED vars => UNCHANGED tunnels
  BY DEF TimePasses, vars, hubVars, registry
<1> QED
  BY <1>1, <1>2, <1>3, <1>4, <1>5, <1>6, StreamsKeepAgents DEF Next

-----------------------------------------------------------------------------
(* The public connections.                                                 *)

LEMMA SameCarriersServe ==
    ASSUME RoutingInv, RowsKept, UNCHANGED carrier
    PROVE  CarriersServe'
BY StillServes DEF RoutingInv, CarriersServe

LEMMA CarriersStay ==
    ASSUME LifecycleInv, RoutingInv, RowsKept, [Next]_vars
    PROVE  CarriersServe'
<1>1. ASSUME NEW x \in Streams, RouteAlloc(x) PROVE CarriersServe'
  <2>1. carrier' = [carrier EXCEPT ![x] = route[x].agent]
    BY <1>1 DEF RouteAlloc, AllocStream
  <2>2. \A y \in Streams : carrier'[y] = IF y = x THEN route[x].agent ELSE carrier[y]
    BY <2>1, StateTypes
  <2> QED
    BY <2>2, StillServes DEF RoutingInv, CarriersServe, RoutesServe
<1>2. ASSUME NEW x \in Streams, RouteSteps(x) \/ RouteEnd(x)
      PROVE  CarriersServe'
  BY <1>1, <1>2, SameCarriersServe
  DEF RouteSteps, RouteRead, RouteLookup, RouteAdd, RouteEnd, AddStream,
      Finish, Finishing, hubVars, streamVars
<1>3. ASSUME NEW a \in Agents, Connect(a) \/ ConnSteps(a) \/ Disconnect(a)
      PROVE  UNCHANGED carrier
  BY <1>3
  DEF ConnSteps, Connect, Claim, ListTunnels, ReadEntry, GoLive, GoneList,
      GoneRead, GoneRearm, GoneUnregister, Disconnect, RegisterAgent,
      UnregisterAgent, CloseAgent, Finish, Finishing, hubVars, streamVars
<1>4. ASSUME NEW r \in Reqs, ReqStart(r) \/ ReqSteps(r)
      PROVE  UNCHANGED carrier
  BY <1>4
  DEF ReqStart, CreateCount, DeleteRead, SetEnabled,
      ReqSteps, CreateDup, CreateName, CreatePut, CreateRecord,
      CreateFails, Bind, BindPut, BindRegister, PeekEntry, Lookup, Drop,
      Remove, Reput, ExpireRow, Deactivate, NoChange, RegisterTunnel,
      DropTunnel, Finish, Finishing, hubVars, streamVars
<1>5. SweepSteps => UNCHANGED carrier
  BY DEF SweepSteps, SweepStale, SweepSnapshot, SweepCheck, SweepClose, SweepDrop,
         SweepRemove, SweepDone, DropTunnel, Finish, Finishing, hubVars,
         streamVars
<1>6. TimePasses \/ ServerRestarts \/ UNCHANGED vars => UNCHANGED carrier
  BY DEF TimePasses, ServerRestarts, Restart, vars, hubVars, streamVars
<1> QED
  BY <1>2, <1>3, <1>4, <1>5, <1>6, SameCarriersServe DEF Next

LEMMA SameRoutesServe ==
    ASSUME RoutingInv, RowsKept, UNCHANGED route
    PROVE  RoutesServe'
BY StillServes DEF RoutingInv, RoutesServe

\* A step of connection x.
LEMMA RouteServes ==
    ASSUME LifecycleInv, RoutingInv, RowsKept, NEW x \in Streams,
           NEW p, MayServe(p.agent, RouteOf[x]),
           route' = [route EXCEPT ![x] = p]
    PROVE  RoutesServe'
<1>1. \A y \in Streams : route'[y] = IF y = x THEN p ELSE route[y]
  BY StateTypes
<1> QED
  BY <1>1, StillServes DEF RoutingInv, RoutesServe

LEMMA RoutesStay ==
    ASSUME LifecycleInv, RoutingInv, RowsKept, [Next]_vars
    PROVE  RoutesServe'
<1> USE HubConstants
<1>1. ASSUME NEW x \in Streams, RouteSteps(x) \/ RouteEnd(x)
      PROVE  RoutesServe'
  <2>1. \A pc : MayServe(IdleRoute(pc).agent, RouteOf[x])
    BY DEF IdleRoute, MayServe
  <2>2. PICK p \in RouteState : p = route[x] /\ MayServe(p.agent, RouteOf[x])
    BY StateTypes DEF RoutingInv, RoutesServe
  <2>3. \A pc : [p EXCEPT !.pc = pc].agent = p.agent
    BY <2>2 DEF RouteState
  <2>4. CASE route' = [route EXCEPT ![x] = IdleRoute("end")]
    BY <2>1, <2>4, RouteServes
  <2>5. ASSUME NEW pc, route' = [route EXCEPT ![x].pc = pc] PROVE RoutesServe'
    <3>1. route' = [route EXCEPT ![x] = [p EXCEPT !.pc = pc]]
      BY <2>2, <2>5
    <3> QED
      BY <2>2, <2>3, <3>1, RouteServes
  <2>6. CASE RouteRead(x)
    <3>1. ASSUME key[RouteOf[x]] # NoEntry,
                 route' = [route EXCEPT
                             ![x] = [pc |-> "lookup",
                                     agent |-> key[RouteOf[x]].agent]]
          PROVE  RoutesServe'
      BY <3>1, RouteServes DEF RoutingInv, KeysServe
    <3> QED
      BY <2>4, <2>6, <3>1 DEF RouteRead
  <2> QED
    BY <1>1, <2>4, <2>5, <2>6
    DEF RouteSteps, RouteLookup, RouteAlloc, RouteAdd, RouteEnd
<1>2. CASE ServerRestarts
  <2>1. \A x \in Streams : route'[x] = route[x] \/ route'[x].agent = NoAgent
    BY <1>2 DEF ServerRestarts, IdleRoute
  <2>2. \A x \in Streams : MayServe(route[x].agent, RouteOf[x])'
    BY <2>1, StillServes DEF RoutingInv, RoutesServe, MayServe
  <2> QED
    BY <2>2 DEF RoutesServe
<1>3. ASSUME NEW a \in Agents, Connect(a) \/ ConnSteps(a) \/ Disconnect(a)
      PROVE  UNCHANGED route
  BY <1>3
  DEF ConnSteps, Connect, Claim, ListTunnels, ReadEntry, GoLive, GoneList,
      GoneRead, GoneRearm, GoneUnregister, Disconnect
<1>4. ASSUME NEW r \in Reqs, ReqStart(r) \/ ReqSteps(r)
      PROVE  UNCHANGED route
  BY <1>4
  DEF ReqStart, CreateCount, DeleteRead, SetEnabled,
      ReqSteps, CreateDup, CreateName, CreatePut, CreateRecord,
      CreateFails, Bind, BindPut, BindRegister, PeekEntry, Lookup, Drop,
      Remove, Reput, ExpireRow, Deactivate, NoChange
<1>5. SweepSteps => UNCHANGED route
  BY DEF SweepSteps, SweepStale, SweepSnapshot, SweepCheck, SweepClose, SweepDrop,
         SweepRemove, SweepDone
<1>6. TimePasses \/ UNCHANGED vars => UNCHANGED route
  BY DEF TimePasses, vars, procVars
<1> QED
  BY <1>1, <1>2, <1>3, <1>4, <1>5, <1>6, SameRoutesServe DEF Next

-----------------------------------------------------------------------------
(* The agent connections.                                                  *)

\* A step of connection a.
LEMMA ConnStepServes ==
    ASSUME LifecycleInv, RoutingInv, RowsKept, NEW a \in Agents,
           \A b \in Agents \ {a} : conn'[b] = conn[b],
           conn'[a].pc = "claim" =>
               \A id \in conn'[a].todo : /\ id \in Tids
                                        /\ UserOf[id] = AgentUser[a]
                                        /\ row[id].status # "none",
           \A e \in conn'[a].got : Owns(e.agent, SubOf[e.id])
    PROVE  ConnsServe'
<1>1. \A id \in conn'[a].todo :
        conn'[a].pc = "claim" =>
            UserOf[id] = AgentUser[a] /\ row'[id].status # "none"
  BY DEF RowsKept
<1>2. \A e \in conn'[a].got : Owns(e.agent, SubOf[e.id])'
  BY StillOwns
<1>3. ASSUME NEW b \in Agents \ {a} PROVE ConnServes(b, conn[b])'
  <2>1. ConnServes(b, conn[b]) /\ ConnGood(b, conn[b]) /\ conn'[b] = conn[b]
    BY DEF RoutingInv, ConnsServe, LifecycleInv, ConnInv
  <2>2. \A e \in conn[b].got : Owns(e.agent, SubOf[e.id])'
    BY <2>1, StillOwns DEF ConnServes
  <2>3. conn[b].pc = "claim" =>
          \A id \in conn[b].todo : /\ UserOf[id] = AgentUser[b]
                                   /\ row'[id].status # "none"
    BY <2>1 DEF ConnServes, ConnGood, RowsKept
  <2> QED
    BY <2>1, <2>2, <2>3 DEF ConnServes
<1>4. ConnServes(a, conn[a])'
  BY <1>1, <1>2 DEF ConnServes
<1> QED
  BY <1>3, <1>4 DEF ConnsServe

LEMMA ConnsStepOn ==
    ASSUME LifecycleInv, RoutingInv, RowsKept,
           NEW a \in Agents, Connect(a) \/ ConnSteps(a) \/ Disconnect(a)
    PROVE  ConnsServe'
<1>1. PICK c \in ConnState : /\ c = conn[a] /\ ConnGood(a, c) /\ ConnServes(a, c)
                             /\ conn \in [Agents -> ConnState]
  BY StateTypes DEF LifecycleInv, ConnInv, RoutingInv, ConnsServe
<1>2. \A e \in c.got : Owns(e.agent, SubOf[e.id])
  BY <1>1 DEF ConnServes
<1>3. CASE Connect(a)
  <2>1. PICK T : /\ T \subseteq ActiveTunnelsForUser(AgentUser[a])
                 /\ conn' = [conn EXCEPT ![a].pc = "claim", ![a].todo = T]
    <3>1. PICK rows \in {ActiveTunnelsForUser(AgentUser[a])}
                         \cup (IF StoresFail THEN {{}} ELSE {}) :
            conn' = [conn EXCEPT ![a].pc = "claim",
                                 ![a].todo = {id \in rows : row[id].enabled}]
      BY <1>3 DEF Connect
    <3>2. rows \subseteq ActiveTunnelsForUser(AgentUser[a])
      OBVIOUS
    <3> QED
      BY <3>1, <3>2
  <2>2. /\ conn'[a].todo = T /\ conn'[a].got = c.got
        /\ \A b \in Agents \ {a} : conn'[b] = conn[b]
    BY <1>1, <2>1 DEF ConnState
  <2>3. \A id \in T : /\ id \in Tids /\ UserOf[id] = AgentUser[a]
                      /\ row[id].status # "none"
    BY <2>1 DEF ActiveTunnelsForUser, IsActive
  <2> QED
    BY <1>2, <2>2, <2>3, ConnStepServes
<1>4. CASE Claim(a)
  <2>1. PICK id : conn' = [conn EXCEPT ![a].todo = @ \ {id}] /\ c.pc = "claim"
    BY <1>1, <1>4 DEF Claim
  <2>2. /\ conn'[a].todo \subseteq c.todo /\ conn'[a].got = c.got
        /\ \A b \in Agents \ {a} : conn'[b] = conn[b]
    BY <1>1, <2>1 DEF ConnState
  <2>3. \A i \in c.todo : /\ i \in Tids /\ UserOf[i] = AgentUser[a]
                          /\ row[i].status # "none"
    BY <1>1, <2>1 DEF ConnServes, ConnGood
  <2> QED
    BY <1>2, <2>2, <2>3, ConnStepServes
<1>5. CASE ListTunnels(a) \/ GoneList(a) \/ GoneRead(a) \/ GoneRearm(a)
  <2>1. /\ conn'[a].pc # "claim" /\ conn'[a].got = c.got
        /\ \A b \in Agents \ {a} : conn'[b] = conn[b]
    <3>1. CASE ListTunnels(a)
      BY <1>1, <3>1 DEF ListTunnels, ConnState
    <3>2. CASE GoneList(a)
      BY <1>1, <3>2 DEF GoneList, ConnState
    <3>3. CASE GoneRead(a)
      <4>1. PICK s \in c.todo :
              \/ conn' = [conn EXCEPT ![a].todo = @ \ {s},
                                      ![a].pc = "rearm",
                                      ![a].entry = key[s]]
              \/ conn' = [conn EXCEPT ![a].todo = @ \ {s}] /\ c.pc = "gone"
        BY <1>1, <3>3 DEF GoneRead
      <4> QED
        BY <1>1, <4>1 DEF ConnState
    <3>4. CASE GoneRearm(a)
      BY <1>1, <3>4 DEF GoneRearm, ConnState
    <3> QED
      BY <1>5, <3>1, <3>2, <3>3, <3>4
  <2> QED
    BY <1>2, <2>1, ConnStepServes
<1>6. CASE GoLive(a) \/ Disconnect(a) \/ GoneUnregister(a)
  <2>1. /\ conn'[a].pc # "claim" /\ conn'[a].got = {}
        /\ \A b \in Agents \ {a} : conn'[b] = conn[b]
    BY <1>1, <1>6 DEF GoLive, Disconnect, GoneUnregister, Goto, IdleConn
  <2> QED
    BY <2>1, ConnStepServes
<1>7. CASE ReadEntry(a)
  <2>1. PICK s, new :
          /\ c.pc = "list" /\ s \in c.todo
          /\ new \subseteq {e \in Found(s) : e.agent # NoAgent}
          /\ \/ conn' = [conn EXCEPT ![a].todo = @ \ {s}, ![a].got = @ \cup new]
             \/ conn' = [conn EXCEPT ![a].todo = @ \ {s}]
    BY <1>1, <1>7 DEF ReadEntry
  <2>2. /\ conn'[a].pc # "claim" /\ conn'[a].got \subseteq c.got \cup new
        /\ \A b \in Agents \ {a} : conn'[b] = conn[b]
    BY <1>1, <2>1 DEF ConnState
  <2>3. ASSUME NEW e \in new PROVE Owns(e.agent, SubOf[e.id])
    <3>1. s \in Subs
      BY <1>1, <2>1 DEF ConnGood
    <3>2. key[s] # NoEntry /\ e.id = key[s].id /\ e.agent = key[s].agent
      BY <2>1 DEF Found
    <3>3. SubOf[e.id] = s /\ e.agent # NoAgent
      BY <2>1, <3>1, <3>2 DEF LifecycleInv, CacheInv
    <3> QED
      BY <3>1, <3>2, <3>3 DEF RoutingInv, KeysServe, MayServe
  <2> QED
    BY <1>2, <2>2, <2>3, ConnStepServes
<1> QED
  BY <1>3, <1>4, <1>5, <1>6, <1>7 DEF ConnSteps

LEMMA ConnsStay ==
    ASSUME LifecycleInv, RoutingInv, RowsKept, [Next]_vars
    PROVE  ConnsServe'
<1>1. ASSUME \A a \in Agents : conn'[a] = conn[a] \/ conn'[a] = IdleConn("dead")
      PROVE  ConnsServe'
  <2>1. ASSUME NEW a \in Agents PROVE ConnServes(a, conn[a])'
    <3>1. ConnServes(a, conn[a]) /\ ConnGood(a, conn[a])
      BY DEF RoutingInv, ConnsServe, LifecycleInv, ConnInv
    <3>2. CASE conn'[a] = conn[a]
      <4>1. \A e \in conn[a].got : Owns(e.agent, SubOf[e.id])'
        BY <3>1, StillOwns DEF ConnServes
      <4> QED
        BY <3>1, <3>2, <4>1 DEF ConnServes, ConnGood, RowsKept
    <3>3. CASE conn'[a] = IdleConn("dead")
      BY <3>3 DEF ConnServes, IdleConn
    <3> QED
      BY <1>1, <3>2, <3>3
  <2> QED
    BY <2>1 DEF ConnsServe
<1>2. ASSUME NEW r \in Reqs, ReqStart(r) \/ ReqSteps(r)
      PROVE  UNCHANGED conn
  BY <1>2
  DEF ReqStart, CreateCount, DeleteRead, SetEnabled,
      ReqSteps, CreateDup, CreateName, CreatePut, CreateRecord,
      CreateFails, Bind, BindPut, BindRegister, PeekEntry, Lookup, Drop,
      Remove, Reput, ExpireRow, Deactivate, NoChange
<1>3. ASSUME NEW x \in Streams, RouteSteps(x) \/ RouteEnd(x)
      PROVE  UNCHANGED conn
  BY <1>3
  DEF RouteSteps, RouteRead, RouteLookup, RouteAlloc, RouteAdd, RouteEnd
<1>4. SweepSteps => UNCHANGED conn
  BY DEF SweepSteps, SweepStale, SweepSnapshot, SweepCheck, SweepClose, SweepDrop,
         SweepRemove, SweepDone
<1>5. TimePasses \/ UNCHANGED vars => UNCHANGED conn
  BY DEF TimePasses, vars, procVars
<1>6. ServerRestarts =>
        \A a \in Agents : conn'[a] = conn[a] \/ conn'[a] = IdleConn("dead")
  BY DEF ServerRestarts
<1> QED
  BY <1>1, <1>2, <1>3, <1>4, <1>5, <1>6, ConnsStepOn DEF Next

-----------------------------------------------------------------------------
(* The API calls.                                                          *)

Empty == {"free", "done", "peek", "deactivate"}

\* A step of call r.
LEMMA CallServes ==
    ASSUME LifecycleInv, RoutingInv, RowsKept, NEW r \in Reqs,
           \A p \in Reqs \ {r} : req'[p] = req[p],
           req'[r].pc \notin Empty =>
               MayServe(req'[r].entry.agent, SubOf[req'[r].entry.id]),
           \/ req'[r].pc \in Binding \cup {"bind"}
           \/ req'[r].op = "resume" /\ req'[r].pc # "done"
           => row'[req'[r].id].status # "none"
    PROVE  ReqsServe'
<1>1. PICK q : q = req'[r]
  OBVIOUS
<1>2. ReqServes(req[r])'
  <2>1. q.pc \notin Empty => MayServe(q.entry.agent, SubOf[q.entry.id])'
    BY <1>1, StillServes
  <2> QED
    BY <1>1, <2>1 DEF ReqServes, Empty
<1>3. ASSUME NEW p \in Reqs \ {r} PROVE ReqServes(req[p])'
  <2>1. ReqServes(req[p]) /\ ReqGood(req[p]) /\ req'[p] = req[p]
    BY ReqIs DEF RoutingInv, ReqsServe
  <2>2. req[p].pc \notin Empty =>
          MayServe(req[p].entry.agent, SubOf[req[p].entry.id])'
    BY <2>1, StillServes DEF ReqServes, Empty
  <2>3. req[p].op # "none" => req[p].id \in Tids
    BY <2>1 DEF ReqGood
  <2>4. \/ req[p].pc \in Binding \cup {"bind"}
        \/ req[p].op = "resume" /\ req[p].pc # "done"
        => row'[req[p].id].status # "none"
    BY <2>1, <2>3 DEF ReqServes, ReqGood, RowsKept
  <2> QED
    BY <2>1, <2>2, <2>4 DEF ReqServes, Empty
<1> QED
  BY <1>2, <1>3 DEF ReqsServe

\* A call that answers holds nothing.
LEMMA AnswerServes ==
    ASSUME LifecycleInv, RoutingInv, RowsKept, NEW r \in Reqs,
           \/ \E ok : Reply(r, ok)
           \/ \E op, id : Refused(r, op, id)
    PROVE  ReqsServe'
<1>1. /\ req'[r].pc = "done"
      /\ \A p \in Reqs \ {r} : req'[p] = req[p]
  BY StateTypes DEF Reply, Refused, IdleReq
<1> QED
  BY <1>1, CallServes DEF Empty, Binding

\* A call that goes on with what it has.
LEMMA StepServes ==
    ASSUME LifecycleInv, RoutingInv, RowsKept, NEW r \in Reqs, NEW pc, Step(r, pc),
           req[r].pc \notin Empty \/ pc = "deactivate",
           pc \in Binding \cup {"bind"} => row'[req[r].id].status # "none",
           req[r].pc # "done"
    PROVE  ReqsServe'
<1>1. PICK q \in ReqState : /\ q = req[r] /\ ReqServes(q) /\ ReqGood(q)
                            /\ req \in [Reqs -> ReqState]
  BY ReqIs, StateTypes DEF RoutingInv, ReqsServe
<1>2. /\ req'[r].pc = pc /\ req'[r].entry = q.entry
      /\ req'[r].op = q.op /\ req'[r].id = q.id
      /\ \A p \in Reqs \ {r} : req'[p] = req[p]
  BY <1>1 DEF Step, ReqState
<1>3. q.op = "resume" => row'[q.id].status # "none"
  BY <1>1 DEF ReqServes, ReqGood, RowsKept
<1>4. req'[r].pc \notin Empty =>
        MayServe(req'[r].entry.agent, SubOf[req'[r].entry.id])
  BY <1>1, <1>2 DEF ReqServes, Empty
<1> QED
  BY <1>1, <1>2, <1>3, <1>4, CallServes

\* A call that begins.
LEMMA BeginServes ==
    ASSUME LifecycleInv, RoutingInv, RowsKept, NEW r \in Reqs, NEW id \in Tids,
           NEW op, NEW pc, NEW e, Begin(r, op, id, pc, e),
           pc \in Empty \/ MayServe(e.agent, SubOf[e.id]),
           pc \notin Binding \cup {"bind"},
           op = "resume" => row'[id].status # "none"
    PROVE  ReqsServe'
<1>1. /\ req'[r].pc = pc /\ req'[r].entry = e
      /\ req'[r].op = op /\ req'[r].id = id
      /\ \A p \in Reqs \ {r} : req'[p] = req[p]
  BY StateTypes DEF Begin, IdleReq
<1> QED
  BY <1>1, CallServes

LEMMA StartServes ==
    ASSUME LifecycleInv, RoutingInv, RowsKept, NEW r \in Reqs, ReqStart(r)
    PROVE  ReqsServe'
<1> USE HubConstants
<1>1. ASSUME NEW id \in Tids, CreateCount(r, id) PROVE ReqsServe'
  <2> DEFINE e == [id |-> id, agent |-> NoAgent, enabled |-> TRUE]
  <2>1. CASE Begin(r, "create", id, "dup", e)
    <3>1. MayServe(e.agent, SubOf[e.id])
      BY DEF MayServe
    <3> HIDE DEF e
    <3> QED
      BY <2>1, <3>1, BeginServes DEF Binding
  <2> QED
    BY <1>1, <2>1, AnswerServes DEF CreateCount
<1>2. ASSUME NEW id \in Tids, DeleteRead(r, id) PROVE ReqsServe'
  <2>1. PICK e : e = key[SubOf[id]]
    OBVIOUS
  <2>2. CASE e # NoEntry /\ Begin(r, "delete", id, "lookup", e)
    <3>1. e.id \in Tids /\ SubOf[e.id] = SubOf[id]
      BY <2>1, <2>2, StateTypes DEF LifecycleInv, CacheInv, CacheEntry
    <3>2. MayServe(e.agent, SubOf[e.id])
      BY <2>1, <2>2, <3>1 DEF RoutingInv, KeysServe
    <3> QED
      BY <2>2, <3>2, BeginServes DEF Binding
  <2>3. CASE Begin(r, "delete", id, "deactivate", NoEntry)
    BY <2>3, BeginServes DEF Binding, Empty
  <2> QED
    BY <1>2, <2>1, <2>2, <2>3, AnswerServes DEF DeleteRead
<1>3. ASSUME NEW id \in Tids, NEW op, SetEnabled(r, id, op) PROVE ReqsServe'
  <2>1. CASE Begin(r, op, id, "peek", NoEntry)
    <3>1. row'[id].status # "none"
      BY <1>3 DEF SetEnabled, RowsKept
    <3> QED
      BY <2>1, <3>1, BeginServes DEF Binding, Empty
  <2> QED
    BY <1>3, <2>1, AnswerServes DEF SetEnabled
<1> QED
  BY <1>1, <1>2, <1>3 DEF ReqStart

LEMMA BindServes ==
    ASSUME LifecycleInv, RoutingInv, RowsKept, NEW r \in Reqs, Bind(r)
    PROVE  ReqsServe'
<1> USE HubConstants
<1>1. PICK q \in ReqState : /\ q = req[r] /\ ReqServes(q) /\ ReqGood(q)
                            /\ q.pc = "bind" /\ req \in [Reqs -> ReqState]
  BY ReqIs, StateTypes DEF Bind, RoutingInv, ReqsServe
<1>2. /\ q.id \in Tids /\ row[q.id].status # "none"
      /\ q.entry \in CacheEntry /\ OfSub(q, q.entry.id)
  BY <1>1 DEF ReqGood, ReqServes
<1>3. CASE \/ \E ok : Reply(r, ok)
           \/ Step(r, "reput")
  BY <1>1, <1>3, AnswerServes, StepServes DEF Binding, Empty
<1>4. ASSUME NEW a \in LiveAgentsOf(UserOf[q.id]),
             req' = [req EXCEPT ![r].pc = "bindput", ![r].entry.agent = a]
      PROVE  ReqsServe'
  <2>1. PICK e \in CacheEntry : e = q.entry
    BY <1>2
  <2>2. req' = [req EXCEPT ![r] = [q EXCEPT !.pc = "bindput",
                                           !.entry = [e EXCEPT !.agent = a]]]
    BY <1>1, <1>4, <2>1
  <2>3. /\ req'[r].pc = "bindput" /\ req'[r].entry = [e EXCEPT !.agent = a]
        /\ req'[r].id = q.id
        /\ \A p \in Reqs \ {r} : req'[p] = req[p]
    BY <1>1, <2>2 DEF ReqState
  <2>4. req'[r].entry.agent = a /\ SubOf[req'[r].entry.id] = SubOf[q.id]
    BY <1>2, <2>1, <2>3 DEF CacheEntry, OfSub
  <2>5. MayServe(a, SubOf[q.id])
    BY <1>2, <1>4 DEF LiveAgentsOf, MayServe, Owns
  <2>6. row'[q.id].status # "none"
    BY <1>2 DEF RowsKept
  <2> QED
    BY <2>3, <2>4, <2>5, <2>6, CallServes
<1> QED
  BY <1>1, <1>3, <1>4 DEF Bind

LEMMA PeekServes ==
    ASSUME LifecycleInv, RoutingInv, RowsKept, NEW r \in Reqs, PeekEntry(r)
    PROVE  ReqsServe'
<1> USE HubConstants
<1>1. PICK q \in ReqState : /\ q = req[r] /\ ReqServes(q) /\ ReqGood(q)
                            /\ q.pc = "peek" /\ req \in [Reqs -> ReqState]
  BY ReqIs, StateTypes DEF PeekEntry, RoutingInv, ReqsServe
<1>2. q.id \in Tids
  BY <1>1 DEF ReqGood
<1>3. PICK e : e = key[SubOf[q.id]]
  OBVIOUS
<1>4. CASE Reply(r, TRUE)
  BY <1>4, AnswerServes
<1>5. CASE e # NoEntry /\ ~Reply(r, TRUE)
  <2>1. e \in CacheEntry /\ SubOf[e.id] = SubOf[q.id]
    BY <1>2, <1>3, <1>5, StateTypes DEF LifecycleInv, CacheInv
  <2>2. MayServe(e.agent, SubOf[e.id])
    BY <1>2, <1>3, <1>5, <2>1 DEF RoutingInv, KeysServe
  <2>3. q.op = "resume" => row'[q.id].status # "none"
    BY <1>1, <1>2 DEF ReqServes, RowsKept
  <2>4. ASSUME NEW f, MayServe(f.agent, SubOf[f.id]),
               NEW pc, \/ pc = "lookup" /\ q.op = "pause"
                       \/ pc = "bind" /\ q.op = "resume",
               req' = [req EXCEPT ![r].pc = pc, ![r].entry = f]
        PROVE  ReqsServe'
    <3>1. /\ req'[r].pc = pc /\ req'[r].entry = f
          /\ req'[r].op = q.op /\ req'[r].id = q.id
          /\ \A p \in Reqs \ {r} : req'[p] = req[p]
      BY <1>1, <2>4 DEF ReqState
    <3> QED
      BY <2>3, <2>4, <3>1, CallServes DEF Binding
  <2>5. CASE q.op = "pause"
    <3>1. PICK f : f = [e EXCEPT !.enabled = FALSE, !.agent = NoAgent]
      OBVIOUS
    <3>2. MayServe(f.agent, SubOf[f.id])
      BY <2>1, <3>1 DEF CacheEntry, MayServe
    <3>3. req' = [req EXCEPT ![r].pc = "lookup", ![r].entry = f]
      BY <1>1, <1>3, <1>5, <2>5, <3>1 DEF PeekEntry, Sub
    <3> QED
      BY <2>4, <2>5, <3>2, <3>3
  <2>6. CASE q.op = "resume"
    <3>1. PICK f : f = [e EXCEPT !.enabled = TRUE]
      OBVIOUS
    <3>2. MayServe(f.agent, SubOf[f.id])
      BY <2>1, <2>2, <3>1 DEF CacheEntry
    <3>3. req' = [req EXCEPT ![r].pc = "bind", ![r].entry = f]
      BY <1>1, <1>3, <1>5, <2>6, <3>1 DEF PeekEntry, Sub
    <3> QED
      BY <2>4, <2>6, <3>2, <3>3
  <2> QED
    BY <1>1, <2>5, <2>6 DEF ReqGood
<1> QED
  BY <1>1, <1>3, <1>4, <1>5 DEF PeekEntry, Sub

LEMMA LookupServes ==
    ASSUME LifecycleInv, RoutingInv, RowsKept, NEW r \in Reqs, Lookup(r)
    PROVE  ReqsServe'
<1>1. PICK q \in ReqState : /\ q = req[r] /\ ReqServes(q) /\ ReqGood(q)
                            /\ q.pc = "lookup" /\ req \in [Reqs -> ReqState]
  BY ReqIs, StateTypes DEF Lookup, RoutingInv, ReqsServe
<1>2. ASSUME NEW pc \in {"reput", "remove"}, Step(r, pc) PROVE ReqsServe'
  BY <1>1, <1>2, StepServes DEF Empty, Binding
<1>3. ASSUME NEW t, req' = [req EXCEPT ![r].pc = "drop", ![r].bound = t]
      PROVE  ReqsServe'
  <2>1. /\ req'[r].pc = "drop" /\ req'[r].entry = q.entry
        /\ req'[r].op = q.op /\ req'[r].id = q.id
        /\ \A p \in Reqs \ {r} : req'[p] = req[p]
    BY <1>1, <1>3 DEF ReqState
  <2>2. MayServe(q.entry.agent, SubOf[q.entry.id]) /\ q.op # "resume"
    BY <1>1 DEF ReqServes, ReqGood, Unbinding
  <2> QED
    BY <2>1, <2>2, CallServes DEF Binding
<1> QED
  BY <1>2, <1>3 DEF Lookup

LEMMA StepsServe ==
    ASSUME LifecycleInv, RoutingInv, RowsKept, NEW r \in Reqs, ReqSteps(r)
    PROVE  ReqsServe'
<1>1. CASE CreateRecord(r)
  <2>1. req[r].op = "create" /\ req[r].id \in Tids
    BY <1>1, ReqIs DEF CreateRecord, ReqGood, Creating
  <2>2. row'[req[r].id].status # "none"
    BY <1>1, <2>1, StateTypes DEF CreateRecord, RecordTunnel
  <2> QED
    BY <1>1, <2>2, StepServes DEF CreateRecord, Empty
<1>2. CASE Bind(r) \/ PeekEntry(r) \/ Lookup(r)
  BY <1>2, BindServes, PeekServes, LookupServes
<1>3. CASE BindPut(r)
  <2>1. CASE Step(r, "register")
    <3>1. row'[req[r].id].status # "none"
      BY <1>3, ReqIs DEF BindPut, ReqGood, Binding, RoutingInv, ReqsServe,
                         ReqServes, RowsKept
    <3> QED
      BY <1>3, <2>1, <3>1, StepServes DEF BindPut, Empty
  <2> QED
    BY <1>3, <2>1, AnswerServes DEF BindPut
<1>4. CASE CreateDup(r) \/ CreateName(r) \/ CreatePut(r) \/ CreateFails(r)
  BY <1>4, StepServes, AnswerServes
  DEF CreateDup, CreateName, CreatePut, CreateFails, Empty, Binding
<1>5. CASE BindRegister(r) \/ Reput(r) \/ Deactivate(r)
  BY <1>5, AnswerServes DEF BindRegister, Reput, Deactivate
<1>6. CASE Drop(r) \/ Remove(r) \/ ExpireRow(r)
  <2>1. \/ \E ok : Reply(r, ok)
        \/ /\ req[r].pc \in {"drop", "remove", "expire"}
           /\ \E pc \in {"remove", "reput", "expire", "deactivate"} : Step(r, pc)
    <3>1. req[r].pc = "remove" => req[r].op \in {"create", "pause", "delete"}
      BY ReqIs DEF ReqGood
    <3> QED
      BY <1>6, <3>1 DEF Drop, Remove, ExpireRow
  <2> QED
    BY <2>1, StepServes, AnswerServes DEF Empty, Binding
<1> QED
  BY <1>1, <1>2, <1>3, <1>4, <1>5, <1>6 DEF ReqSteps

LEMMA ReqsStay ==
    ASSUME LifecycleInv, RoutingInv, RowsKept, [Next]_vars
    PROVE  ReqsServe'
<1>1. CASE ServerRestarts
  <2>1. ASSUME NEW r \in Reqs PROVE ReqServes(req[r])'
    <3>1. /\ \/ req'[r].pc = "done"
             \/ req'[r] = req[r] /\ req[r].pc = "free"
          /\ UNCHANGED row
      BY <1>1 DEF ServerRestarts, IdleReq, storeVars
    <3> QED
      BY <3>1 DEF ReqServes, Binding, RoutingInv, ReqsServe
  <2> QED
    BY <2>1 DEF ReqsServe
<1>2. CASE UNCHANGED req
  <2>1. ASSUME NEW r \in Reqs PROVE ReqsServe'
    BY <1>2, <2>1, ReqIs, CallServes
    DEF Empty, RoutingInv, ReqsServe, ReqServes, ReqGood, RowsKept
  <2> QED
    BY <2>1 DEF ReqsServe
<1>3. ASSUME NEW a \in Agents, Connect(a) \/ ConnSteps(a) \/ Disconnect(a)
      PROVE  UNCHANGED req
  BY <1>3
  DEF ConnSteps, Connect, Claim, ListTunnels, ReadEntry, GoLive, GoneList,
      GoneRead, GoneRearm, GoneUnregister, Disconnect
<1>4. ASSUME NEW x \in Streams, RouteSteps(x) \/ RouteEnd(x)
      PROVE  UNCHANGED req
  BY <1>4
  DEF RouteSteps, RouteRead, RouteLookup, RouteAlloc, RouteAdd, RouteEnd
<1>5. SweepSteps => UNCHANGED req
  BY DEF SweepSteps, SweepStale, SweepSnapshot, SweepCheck, SweepClose, SweepDrop,
         SweepRemove, SweepDone
<1>6. TimePasses \/ UNCHANGED vars => UNCHANGED req
  BY DEF TimePasses, vars, procVars
<1> QED
  BY <1>1, <1>2, <1>3, <1>4, <1>5, <1>6, StartServes, StepsServe DEF Next

-----------------------------------------------------------------------------
(* The theorem.                                                            *)

LEMMA InitRouting ==
    ASSUME Init
    PROVE  RoutingInv
<1> USE HubConstants
<1>1. KeysServe
  BY DEF Init, KeysServe, MayServe
<1>2. BoundServe /\ CarriersServe
  BY DEF Init, HubInit, RegistryInit, BoundServe, CarriersServe, MayServe
<1>3. ConnsServe /\ ReqsServe /\ RoutesServe
  BY DEF Init, IdleConn, IdleReq, IdleRoute, ConnsServe, ConnServes, ReqsServe,
         ReqServes, Binding, RoutesServe, MayServe
<1> QED
  BY <1>1, <1>2, <1>3 DEF RoutingInv

\* Every key, every bound tunnel and every public connection leads to an agent
\* of a user who owns a tunnel at the subdomain, whoever else asks for it, and
\* whatever a handler still holds.
THEOREM RoutedRightly == Spec => []RoutedToOwner
<1>1. Init => RoutingInv
  BY InitRouting
<1>2. LifecycleInv /\ RoutingInv /\ [Next]_vars => RoutingInv'
  BY RowsStay, KeysStay, BoundStay, CarriersStay, ConnsStay, ReqsStay,
     RoutesStay DEF RoutingInv
<1>3. RoutingInv => RoutedToOwner
  BY DEF RoutingInv, KeysServe, BoundServe, CarriersServe, MayServe,
         RoutedToOwner
<1> QED
  BY <1>1, <1>2, <1>3, LifecycleInvariant, PTL DEF Spec

=============================================================================
