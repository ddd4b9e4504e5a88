--------------------------- MODULE TunnelLifecycle ---------------------------
(***************************************************************************)
(* The life of a tunnel: the API handlers, the agent connections, the idle *)
(* sweeper and the public proxy, each a process of the control plane, over *)
(* the registry (TunnelHub) and the shared stores (TunnelStore).  One step *)
(* is one critical section, one cache pipeline or one SQL statement: what  *)
(* a handler read may be stale by the time it acts on it.                  *)
(***************************************************************************)
EXTENDS TunnelStore

CONSTANTS
    Reqs,         \* API calls
    Ops,          \* the operations the calls may ask for
    MaxTunnels,   \* Cfg.MaxTunnelsPerUser
    Overlap,      \* a user's agents may be connected at the same time
    MayDrop,      \* an agent's connection may break
    Serial,       \* no API call, connect, disconnect or restart overlaps another
    MaxRestarts,  \* bound: restarts of the control plane
    PreRecorded,  \* tunnels that exist at the start
    PortOf        \* [Tids -> Nat]: protocol and port the tunnel exposes

ASSUME LifecycleConstants ==
    /\ Ops \subseteq {"create", "delete", "pause", "resume"}
    /\ MaxTunnels \in Nat
    /\ {Overlap, MayDrop, Serial} \subseteq BOOLEAN
    /\ MaxRestarts \in Nat
    /\ PreRecorded \subseteq Tids
    /\ \A i, j \in PreRecorded : SubOf[i] = SubOf[j] => i = j
    /\ PortOf \in [Tids -> Nat]

VARIABLES
    conn,     \* handleAgentWS and AgentGone, per agent connection
    req,      \* the tunnel handlers, per API call
    sweep,    \* sweepOnce
    route,    \* serveHTTP and handleTCP, per public connection
    restarts

procVars == <<conn, req, sweep, route, restarts>>
vars == <<hubVars, storeVars, procVars>>

ConnState == [pc : {"off", "claim", "list", "up", "closing", "gone",
                    "rearm", "dead"},
              todo : SUBSET (Tids \cup Subs),
              got : SUBSET Entry,
              entry : CacheEntry \cup {NoEntry}]

ReqState == [pc : {"free", "dup", "name", "put", "record", "peek", "lookup",
                   "drop", "remove", "reput", "bind", "bindput", "register",
                   "expire", "deactivate", "done"},
             op : Ops \cup {"none"},
             id : Tids \cup {NoEntry},
             entry : CacheEntry \cup {NoEntry},
             bound : Tunnel \cup {NoTunnel},
             ok : BOOLEAN]

SweepState == [pc : {"idle", "snapshot", "check", "close", "drop", "remove"},
               todo : SUBSET Tunnel,
               bound : Tunnel \cup {NoTunnel}]

RouteState == [pc : {"new", "lookup", "alloc", "add", "relay", "end"},
               agent : Agents \cup {NoAgent}]

TypeOK ==
    /\ HubTypeOK
    /\ StoreTypeOK
    /\ conn \in [Agents -> ConnState]
    /\ req \in [Reqs -> ReqState]
    /\ sweep \in SweepState
    /\ route \in [Streams -> RouteState]
    /\ restarts \in 0 .. MaxRestarts

IdleConn(pc) == [pc |-> pc, todo |-> {}, got |-> {}, entry |-> NoEntry]

IdleReq(pc) == [pc |-> pc, op |-> "none", id |-> NoEntry, entry |-> NoEntry,
                bound |-> NoTunnel, ok |-> FALSE]

IdleSweep == [pc |-> "idle", todo |-> {}, bound |-> NoTunnel]

IdleRoute(pc) == [pc |-> pc, agent |-> NoAgent]

\* At the start no agent is connected yet.  The tunnels that exist are
\* enabled, and their keys have idled out or still wait for an agent.
Init ==
    /\ HubInit
    /\ \E keyed \in SUBSET PreRecorded :
         key = [s \in Subs |->
                  IF \E id \in keyed : SubOf[id] = s
                  THEN [id |-> CHOOSE id \in keyed : SubOf[id] = s,
                        agent |-> NoAgent, enabled |-> TRUE]
                  ELSE NoEntry]
    /\ hold = [s \in Subs |-> "idle"]
    /\ mine = [u \in Users |->
                 {s \in Subs : key[s] # NoEntry /\ UserOf[key[s].id] = u}]
    /\ row = [id \in Tids |->
                [status |-> IF id \in PreRecorded THEN "active" ELSE "none",
                 enabled |-> TRUE]]
    /\ late = {}
    /\ conn = [a \in Agents |-> IdleConn("off")]
    /\ req = [r \in Reqs |-> IdleReq("free")]
    /\ sweep = IdleSweep
    /\ route = [x \in Streams |-> IdleRoute("new")]
    /\ restarts = 0

-----------------------------------------------------------------------------
(* An agent connection: handleAgentWS claims the user's tunnels, registers *)
(* and serves until the socket fails; AgentGone then hands them back.      *)

Goto(a, pc) == conn' = [conn EXCEPT ![a] = IdleConn(pc)]

OthersGone(a) ==
    \A b \in Agents \ {a} :
        AgentUser[b] = AgentUser[a] => conn[b].pc \in {"off", "dead"}

\* No handler that changes a tunnel is under way.
Calm ==
    /\ \A r \in Reqs : req[r].pc \in {"free", "done"}
    /\ \A a \in Agents : conn[a].pc \in {"off", "up", "dead"}

\* agentClaimTunnels without its check of Enabled.
ConnectPaused(a) ==
    /\ conn[a].pc = "off"
    /\ Overlap \/ OthersGone(a)
    /\ Serial => Calm
    /\ conn' = [conn EXCEPT
                  ![a].pc = "claim",
                  ![a].todo = ActiveTunnelsForUser(AgentUser[a])]
    /\ UNCHANGED <<hubVars, storeVars, req, sweep, route, restarts>>

\* dbActiveTunnels, none on an error, and the Enabled filter of
\* agentClaimTunnels.
Connect(a) ==
    /\ conn[a].pc = "off"
    /\ Overlap \/ OthersGone(a)
    /\ Serial => Calm
    /\ \E rows \in {ActiveTunnelsForUser(AgentUser[a])}
                     \cup (IF StoresFail THEN {{}} ELSE {}) :
         conn' = [conn EXCEPT
                    ![a].pc = "claim",
                    ![a].todo = {id \in rows : row[id].enabled}]
    /\ UNCHANGED <<hubVars, storeVars, req, sweep, route, restarts>>

Claim(a) ==
    /\ conn[a].pc = "claim"
    /\ \E id \in conn[a].todo :
         /\ Ignoring(PutTunnel([id |-> id, agent |-> a, enabled |-> TRUE],
                               "idle"),
                     UNCHANGED cacheVars)
         /\ conn' = [conn EXCEPT ![a].todo = @ \ {id}]
    /\ UNCHANGED <<hubVars, row, late, req, sweep, route, restarts>>

\* agentTunnelEntries: the members of the user's set, then GetTunnel on each.
ListTunnels(a) ==
    /\ conn[a].pc = "claim" /\ conn[a].todo = {}
    /\ \E subs \in {mine[AgentUser[a]]} \cup (IF StoresFail THEN {{}} ELSE {}) :
         conn' = [conn EXCEPT ![a].pc = "list", ![a].todo = subs]
    /\ UNCHANGED <<hubVars, storeVars, req, sweep, route, restarts>>

Found(s) == IF key[s] = NoEntry THEN {}
            ELSE {[id |-> key[s].id, agent |-> key[s].agent]}

\* agentTunnelEntries without its check of AgentID.
ReadAnyEntry(a) ==
    /\ conn[a].pc = "list"
    /\ \E s \in conn[a].todo :
         /\ Slide(s)
         /\ conn' = [conn EXCEPT ![a].todo = @ \ {s},
                                 ![a].got = @ \cup Found(s)]
    /\ UNCHANGED <<hubVars, row, late, req, sweep, route, restarts>>

ReadEntry(a) ==
    /\ conn[a].pc = "list"
    /\ \E s \in conn[a].todo :
         \/ /\ Ignoring(Slide(s), UNCHANGED cacheVars)
            /\ conn' = [conn EXCEPT
                          ![a].todo = @ \ {s},
                          ![a].got = @ \cup {e \in Found(s) : e.agent # NoAgent}]
         \/ /\ StoresFail /\ UNCHANGED cacheVars
            /\ conn' = [conn EXCEPT ![a].todo = @ \ {s}]
    /\ UNCHANGED <<hubVars, row, late, req, sweep, route, restarts>>

GoLive(a) ==
    /\ conn[a].pc = "list" /\ conn[a].todo = {}
    /\ RegisterAgent(a, conn[a].got)
    /\ Goto(a, "up")
    /\ UNCHANGED <<storeVars, req, sweep, route, restarts>>

Disconnect(a) ==
    /\ MayDrop
    /\ Serial => Calm
    /\ conn[a].pc = "up"
    /\ CloseAgent(a)
    /\ Goto(a, "closing")
    /\ UNCHANGED <<storeVars, req, sweep, route, restarts>>

GoneList(a) ==
    /\ conn[a].pc = "closing"
    /\ conn' = [conn EXCEPT ![a].pc = "gone", ![a].todo = byAgent[a]]
    /\ UNCHANGED <<hubVars, storeVars, req, sweep, route, restarts>>

\* Closes the streams of whatever tunnel is bound there, then peeks the key.
GoneRead(a) ==
    /\ conn[a].pc = "gone"
    /\ \E s \in conn[a].todo :
         /\ Finish(IF tunnels[s] = NoTunnel THEN {} ELSE tunnels[s].streams)
         /\ \/ /\ key[s] # NoEntry
               /\ conn' = [conn EXCEPT ![a].todo = @ \ {s},
                                       ![a].pc = "rearm",
                                       ![a].entry = key[s]]
            \/ /\ key[s] = NoEntry \/ StoresFail
               /\ conn' = [conn EXCEPT ![a].todo = @ \ {s}]
    /\ UNCHANGED <<storeVars, req, sweep, route, restarts>>

\* A re-armed key that still names the agent.
RearmSame(a) ==
    /\ conn[a].pc = "rearm"
    /\ PutTunnel(conn[a].entry, "deadline")
    /\ conn' = [conn EXCEPT ![a].pc = "gone", ![a].entry = NoEntry]
    /\ UNCHANGED <<hubVars, row, late, req, sweep, route, restarts>>

\* A TTL of 0 asks for the rest of the tunnel's life.
GoneRearm(a) ==
    /\ conn[a].pc = "rearm"
    /\ Ignoring(PutTunnel([conn[a].entry EXCEPT !.agent = NoAgent], "deadline"),
                UNCHANGED cacheVars)
    /\ conn' = [conn EXCEPT ![a].pc = "gone", ![a].entry = NoEntry]
    /\ UNCHANGED <<hubVars, row, late, req, sweep, route, restarts>>

GoneUnregister(a) ==
    /\ conn[a].pc = "gone" /\ conn[a].todo = {}
    /\ UnregisterAgent(a)
    /\ Goto(a, "dead")
    /\ UNCHANGED <<storeVars, req, sweep, route, restarts>>

ConnSteps(a) ==
    \/ Claim(a) \/ ListTunnels(a) \/ ReadEntry(a) \/ GoLive(a)
    \/ GoneList(a) \/ GoneRead(a) \/ GoneRearm(a) \/ GoneUnregister(a)

-----------------------------------------------------------------------------
(* The API handlers.                                                       *)

Sub(r) == SubOf[req[r].id]

MayStart(r, op) ==
    /\ req[r].pc = "free"
    /\ op \in Ops
    /\ Serial => Calm

Begin(r, op, id, pc, e) ==
    req' = [req EXCEPT ![r] = [IdleReq(pc) EXCEPT
                                 !.op = op, !.id = id, !.entry = e]]

Step(r, pc) == req' = [req EXCEPT ![r].pc = pc]

Reply(r, ok) ==
    req' = [req EXCEPT ![r] = [IdleReq("done") EXCEPT
                                 !.op = req[r].op, !.id = req[r].id, !.ok = ok]]

NoChange == UNCHANGED <<hubVars, storeVars, conn, sweep, route, restarts>>

\* A call that is refused, or fails, before it has changed anything.
Refused(r, op, id) ==
    req' = [req EXCEPT ![r] = [IdleReq("done") EXCEPT !.op = op, !.id = id]]

\* What CountLiveTunnels may answer: it skips a key it cannot look up.
Counted(u) == IF StoresFail THEN 0 .. CountLiveTunnels(u)
                            ELSE {CountLiveTunnels(u)}

\* The quota.  A tunnel's id is new, so no two calls create the same one; a
\* random subdomain is one that CreateName finds free.  The reads that
\* CountLiveTunnels and userHasLiveTunnel make are taken at one moment.
CreateCount(r, id) ==
    /\ MayStart(r, "create")
    /\ row[id].status = "none" /\ \A q \in Reqs : req[q].id # id
    /\ \/ \E n \in Counted(UserOf[id]) :
            /\ n < MaxTunnels
            /\ Begin(r, "create", id, "dup",
                     [id |-> id, agent |-> NoAgent, enabled |-> TRUE])
       \/ /\ CountLiveTunnels(UserOf[id]) >= MaxTunnels \/ StoresFail
          /\ Refused(r, "create", id)
    /\ NoChange

\* userHasLiveTunnel skips a key it cannot read.
CreateDup(r) ==
    LET same == {s \in LiveMembers(UserOf[req[r].id]) :
                   PortOf[key[s].id] = PortOf[req[r].id]} IN
    /\ req[r].pc = "dup"
    /\ \/ (same = {} \/ StoresFail) /\ Step(r, "name")
       \/ (same # {} \/ StoresFail) /\ Reply(r, FALSE)
    /\ NoChange

\* GetTunnel on the subdomain: a hit slides the key it finds.
CreateName(r) ==
    /\ req[r].pc = "name"
    /\ \/ key[Sub(r)] = NoEntry /\ Step(r, "put") /\ UNCHANGED cacheVars
       \/ key[Sub(r)] # NoEntry /\ Reply(r, FALSE) /\ Slide(Sub(r))
       \/ StoresFail /\ Reply(r, FALSE) /\ UNCHANGED cacheVars
    /\ UNCHANGED <<hubVars, row, late, conn, sweep, route, restarts>>

CreatePut(r) ==
    /\ req[r].pc = "put"
    /\ \/ PutTunnel(req[r].entry, "idle") /\ Step(r, "record")
       \/ StoresFail /\ Reply(r, FALSE) /\ UNCHANGED cacheVars
    /\ UNCHANGED <<hubVars, row, late, conn, sweep, route, restarts>>

CreateRecord(r) ==
    /\ req[r].pc = "record"
    /\ ~SubdomainTaken(Sub(r))
    /\ RecordTunnel(req[r].id)
    /\ Step(r, "bind")
    /\ UNCHANGED <<hubVars, cacheVars, late, conn, sweep, route, restarts>>

\* The UNIQUE constraint, or the database is away: roll the key back.
CreateFails(r) ==
    /\ req[r].pc = "record"
    /\ SubdomainTaken(Sub(r)) \/ StoresFail
    /\ Step(r, "remove")
    /\ NoChange

\* AgentByUser, for a new or a resumed tunnel.
Bind(r) ==
    /\ req[r].pc = "bind"
    /\ LET live == LiveAgentsOf(UserOf[req[r].id]) IN
       \/ \E a \in live :
            req' = [req EXCEPT ![r].pc = "bindput", ![r].entry.agent = a]
       \/ live = {} /\ req[r].op = "create" /\ Reply(r, TRUE)
       \/ live = {} /\ req[r].op = "resume" /\ Step(r, "reput")
    /\ UNCHANGED <<hubVars, storeVars, conn, sweep, route, restarts>>

BindPut(r) ==
    /\ req[r].pc = "bindput"
    /\ \/ PutTunnel(req[r].entry, "idle") /\ Step(r, "register")
       \/ StoresFail /\ Reply(r, TRUE) /\ UNCHANGED cacheVars
    /\ UNCHANGED <<hubVars, row, late, conn, sweep, route, restarts>>

\* A bind that reaches the cache and not the hub.
BindUnregistered(r) ==
    /\ req[r].pc = "register"
    /\ Reply(r, TRUE)
    /\ NoChange

BindRegister(r) ==
    /\ req[r].pc = "register"
    /\ RegisterTunnel(req[r].entry.agent,
                      [id |-> req[r].entry.id, agent |-> req[r].entry.agent])
    /\ Reply(r, TRUE)
    /\ UNCHANGED <<storeVars, conn, sweep, route, restarts>>

\* GetTunnel on the subdomain decides between the full teardown and the row;
\* an error counts as a miss.  A key another user has put there is refused.
DeleteRead(r, id) ==
    LET e == key[SubOf[id]] IN
    /\ MayStart(r, "delete")
    /\ row[id].status # "none"
    /\ \/ /\ e # NoEntry /\ Ignoring(Slide(SubOf[id]), UNCHANGED cacheVars)
          /\ IF UserOf[e.id] = UserOf[id]
             THEN Begin(r, "delete", id, "lookup", e)
             ELSE Refused(r, "delete", id)
       \/ /\ e = NoEntry \/ StoresFail
          /\ UNCHANGED cacheVars
          /\ Begin(r, "delete", id, "deactivate", NoEntry)
       \/ StoresFail /\ UNCHANGED cacheVars /\ Refused(r, "delete", id)
    /\ UNCHANGED <<hubVars, row, late, conn, sweep, route, restarts>>

SetEnabled(r, id, op) ==
    /\ op \in {"pause", "resume"}
    /\ MayStart(r, op)
    /\ row[id].status # "none"
    /\ \/ SetTunnelEnabled(id, op = "resume") /\ Begin(r, op, id, "peek", NoEntry)
       \/ StoresFail /\ UNCHANGED row /\ Refused(r, op, id)
    /\ UNCHANGED <<hubVars, cacheVars, late, conn, sweep, route, restarts>>

\* The entry to put back is the one in the cache, changed; an error counts as
\* a miss.
PeekEntry(r) ==
    LET e == key[Sub(r)] IN
    /\ req[r].pc = "peek"
    /\ \/ (e = NoEntry \/ StoresFail) /\ Reply(r, TRUE)
       \/ /\ e # NoEntry /\ req[r].op = "pause"
          /\ req' = [req EXCEPT ![r].pc = "lookup",
                                ![r].entry = [e EXCEPT !.enabled = FALSE,
                                                       !.agent = NoAgent]]
       \/ /\ e # NoEntry /\ req[r].op = "resume"
          /\ req' = [req EXCEPT ![r].pc = "bind",
                                ![r].entry = [e EXCEPT !.enabled = TRUE]]
    /\ NoChange

\* A bound tunnel goes through Expire or ExpireIdle: streams, registry, key.
Lookup(r) ==
    LET t == tunnels[Sub(r)] IN
    /\ req[r].pc = "lookup"
    /\ \/ /\ t = NoTunnel
          /\ Step(r, IF req[r].op = "pause" THEN "reput" ELSE "remove")
          /\ UNCHANGED hubVars
       \/ /\ t # NoTunnel
          /\ Finish(t.streams)
          /\ req' = [req EXCEPT ![r].pc = "drop", ![r].bound = t]
    /\ UNCHANGED <<storeVars, conn, sweep, route, restarts>>

Drop(r) ==
    /\ req[r].pc = "drop"
    /\ DropTunnel(Sub(r), req[r].bound)
    /\ Step(r, "remove")
    /\ UNCHANGED <<storeVars, conn, sweep, route, restarts>>

\* The end of Expire and ExpireIdle, which remove the entry of the tunnel they
\* were given; of a delete that found nothing bound; and of a failed create.
Remove(r) ==
    LET id == IF req[r].bound # NoTunnel THEN req[r].bound.id
                                         ELSE req[r].entry.id
    IN
    /\ req[r].pc = "remove"
    /\ Ignoring(RemoveTunnel(id), UNCHANGED cacheVars)
    /\ CASE req[r].op = "create" -> Reply(r, FALSE)
         [] req[r].op = "pause"  -> Step(r, "reput")
         [] req[r].op = "delete" ->
              Step(r, IF req[r].bound # NoTunnel THEN "expire" ELSE "deactivate")
    /\ UNCHANGED <<hubVars, row, late, conn, sweep, route, restarts>>

\* A paused tunnel is kept until its deadline; one resumed with no agent
\* connected gets the idle window.
Reput(r) ==
    /\ req[r].pc = "reput"
    /\ Ignoring(PutTunnel(req[r].entry,
                          IF req[r].op = "pause" THEN "deadline" ELSE "idle"),
                UNCHANGED cacheVars)
    /\ Reply(r, TRUE)
    /\ UNCHANGED <<hubVars, row, late, conn, sweep, route, restarts>>

\* Expire ends with the row of the tunnel it was given.
ExpireRow(r) ==
    /\ req[r].pc = "expire"
    /\ Ignoring(DeactivateTunnels({req[r].bound.id}), UNCHANGED row)
    /\ Step(r, "deactivate")
    /\ UNCHANGED <<hubVars, cacheVars, late, conn, sweep, route, restarts>>

\* A delete that leaves the row when it found no key.
DeactivateKeyed(r) ==
    /\ req[r].pc = "deactivate"
    /\ IF req[r].entry = NoEntry
       THEN UNCHANGED row
       ELSE DeactivateTunnels({req[r].entry.id})
    /\ Reply(r, TRUE)
    /\ UNCHANGED <<hubVars, cacheVars, late, conn, sweep, route, restarts>>

\* With a key, the id comes from the key and not from the request; without,
\* the row is read once more, and a failure of that is "not found".
Deactivate(r) ==
    LET id == IF req[r].entry = NoEntry THEN req[r].id ELSE req[r].entry.id IN
    /\ req[r].pc = "deactivate"
    /\ \/ /\ Ignoring(DeactivateTunnels({id}), UNCHANGED row)
          /\ Reply(r, TRUE)
       \/ /\ StoresFail /\ req[r].entry = NoEntry
          /\ UNCHANGED row
          /\ Reply(r, FALSE)
    /\ UNCHANGED <<hubVars, cacheVars, late, conn, sweep, route, restarts>>

ReqStart(r) ==
    \E id \in Tids :
        \/ CreateCount(r, id) \/ DeleteRead(r, id)
        \/ \E op \in Ops : SetEnabled(r, id, op)

ReqSteps(r) ==
    \/ CreateDup(r) \/ CreateName(r) \/ CreatePut(r)
    \/ CreateRecord(r) \/ CreateFails(r)
    \/ Bind(r) \/ BindPut(r) \/ BindRegister(r)
    \/ PeekEntry(r) \/ Lookup(r) \/ Drop(r) \/ Remove(r) \/ Reput(r)
    \/ ExpireRow(r) \/ Deactivate(r)

-----------------------------------------------------------------------------
(* The sweeper: sweepOnce, once a minute, works from a snapshot.           *)

SweepStale ==
    /\ sweep.pc = "idle"
    /\ Ignoring(DeactivateTunnels({id \in late : IsActive(id)}), UNCHANGED row)
    /\ sweep' = [sweep EXCEPT !.pc = "snapshot"]
    /\ UNCHANGED <<hubVars, cacheVars, late, conn, req, route, restarts>>

SweepSnapshot ==
    /\ sweep.pc = "snapshot"
    /\ sweep' = [sweep EXCEPT
                   !.pc = "check",
                   !.todo = {tunnels[s] : s \in Subs} \ {NoTunnel}]
    /\ UNCHANGED <<hubVars, storeVars, conn, req, route, restarts>>

\* The key may come back, and the tunnel be bound anew, before the next steps.
SweepCheck ==
    /\ sweep.pc = "check"
    /\ \E t \in sweep.todo :
         \/ /\ key[SubOf[t.id]] # NoEntry \/ StoresFail
            /\ sweep' = [sweep EXCEPT !.todo = @ \ {t}]
         \/ /\ key[SubOf[t.id]] = NoEntry
            /\ sweep' = [pc |-> "close", todo |-> sweep.todo \ {t}, bound |-> t]
    /\ UNCHANGED <<hubVars, storeVars, conn, req, route, restarts>>

\* ExpireIdle: a CLOSE for every stream the snapshot has, then its Finish.
SweepClose ==
    /\ sweep.pc = "close"
    /\ Finish(sweep.bound.streams)
    /\ sweep' = [sweep EXCEPT !.pc = "drop"]
    /\ UNCHANGED <<storeVars, conn, req, route, restarts>>

\* ExpireIdle that forgets the hub.
SweepDropNothing ==
    /\ sweep.pc = "drop"
    /\ sweep' = [sweep EXCEPT !.pc = "remove"]
    /\ UNCHANGED <<hubVars, storeVars, conn, req, route, restarts>>

SweepDrop ==
    /\ sweep.pc = "drop"
    /\ DropTunnel(SubOf[sweep.bound.id], sweep.bound)
    /\ sweep' = [sweep EXCEPT !.pc = "remove"]
    /\ UNCHANGED <<storeVars, conn, req, route, restarts>>

\* Expire in the place of ExpireIdle.
SweepRemoveRow ==
    /\ sweep.pc = "remove"
    /\ RemoveTunnel(sweep.bound.id)
    /\ DeactivateTunnels({sweep.bound.id})
    /\ sweep' = [sweep EXCEPT !.pc = "check", !.bound = NoTunnel]
    /\ UNCHANGED <<hubVars, late, conn, req, route, restarts>>

SweepRemove ==
    /\ sweep.pc = "remove"
    /\ Ignoring(RemoveTunnel(sweep.bound.id), UNCHANGED cacheVars)
    /\ sweep' = [sweep EXCEPT !.pc = "check", !.bound = NoTunnel]
    /\ UNCHANGED <<hubVars, row, late, conn, req, route, restarts>>

SweepDone ==
    /\ sweep.pc = "check" /\ sweep.todo = {}
    /\ sweep' = IdleSweep
    /\ UNCHANGED <<hubVars, storeVars, conn, req, route, restarts>>

SweepSteps ==
    \/ SweepStale \/ SweepSnapshot \/ SweepCheck \/ SweepClose \/ SweepDrop
    \/ SweepRemove \/ SweepDone

\* Enqueue may keep the sweeper for as long as the agent's write queue is full
\* and the agent has not been closed, for ever if nothing empties it.
SweepWaits ==
    sweep.pc = "close" /\ \E x \in sweep.bound.streams : carrier[x] \notin closed

-----------------------------------------------------------------------------
(* The public proxy, HTTP or TCP: routes on the key, then on the registry, *)
(* then opens a stream over the agent the key named.                       *)

RouteRead(x) ==
    LET e == key[RouteOf[x]] IN
    /\ route[x].pc = "new"
    /\ \/ /\ Ignoring(Slide(RouteOf[x]), UNCHANGED cacheVars)
          /\ route' = [route EXCEPT
                         ![x] = IF e # NoEntry /\ e.enabled
                                THEN [pc |-> "lookup", agent |-> e.agent]
                                ELSE IdleRoute("end")]
       \/ /\ StoresFail /\ UNCHANGED cacheVars
          /\ route' = [route EXCEPT ![x] = IdleRoute("end")]
    /\ UNCHANGED <<hubVars, row, late, conn, req, sweep, restarts>>

\* It may end here in any case: the tunnel speaks the other protocol, or the
\* connection cannot be hijacked.
RouteLookup(x) ==
    /\ route[x].pc = "lookup"
    /\ \/ /\ tunnels[RouteOf[x]] # NoTunnel /\ route[x].agent \in agents
          /\ route' = [route EXCEPT ![x].pc = "alloc"]
       \/ route' = [route EXCEPT ![x] = IdleRoute("end")]
    /\ UNCHANGED <<hubVars, storeVars, conn, req, sweep, restarts>>

RouteAlloc(x) ==
    /\ route[x].pc = "alloc"
    /\ AllocStream(route[x].agent, x)
    /\ route' = [route EXCEPT ![x].pc = "add"]
    /\ UNCHANGED <<storeVars, conn, req, sweep, restarts>>

RouteAdd(x) ==
    /\ route[x].pc = "add"
    /\ AddStream(x)
    /\ route' = [route EXCEPT ![x].pc = "relay"]
    /\ UNCHANGED <<storeVars, conn, req, sweep, restarts>>

\* The relay ends, for a reason of the two ends or because it was finished.
RouteEnd(x) ==
    /\ route[x].pc = "relay"
    /\ Finish({x})
    /\ route' = [route EXCEPT ![x] = IdleRoute("end")]
    /\ UNCHANGED <<storeVars, conn, req, sweep, restarts>>

RouteSteps(x) == RouteRead(x) \/ RouteLookup(x) \/ RouteAlloc(x) \/ RouteAdd(x)

-----------------------------------------------------------------------------
(* The environment.                                                        *)

\* A claim is over long before the windows it opens, so that the user's set
\* does not lapse between the put and the list.
Claiming(u) ==
    \E a \in Agents : AgentUser[a] = u /\ conn[a].pc \in {"claim", "list"}

TimePasses ==
    /\ \/ \E s \in Subs : KeyIdles(s)
       \/ \E u \in Users : ~Claiming(u) /\ SetLapses(u)
       \/ \E id \in Tids : DeadlinePasses(id)
    /\ UNCHANGED <<hubVars, procVars>>

\* The process restarts: handlers, sockets and the registry are gone, the
\* keys (with the ids of dead agents) and the rows are not.
ServerRestarts ==
    /\ restarts < MaxRestarts
    /\ Serial => Calm
    /\ restarts' = restarts + 1
    /\ Restart
    /\ conn' = [a \in Agents |->
                  IF conn[a].pc = "off" THEN conn[a] ELSE IdleConn("dead")]
    /\ req' = [r \in Reqs |->
                 IF req[r].pc \in {"free", "done"}
                 THEN req[r]
                 ELSE [IdleReq("done") EXCEPT !.op = req[r].op, !.id = req[r].id]]
    /\ sweep' = IdleSweep
    /\ route' = [x \in Streams |->
                   IF route[x].pc = "new" THEN route[x] ELSE IdleRoute("end")]
    /\ UNCHANGED storeVars

Next ==
    \/ \E a \in Agents : Connect(a) \/ ConnSteps(a) \/ Disconnect(a)
    \/ \E r \in Reqs : ReqStart(r) \/ ReqSteps(r)
    \/ \E x \in Streams : RouteSteps(x) \/ RouteEnd(x)
    \/ SweepSteps
    \/ TimePasses
    \/ ServerRestarts

\* The sweeper runs on where nothing keeps it.  Handlers, which write to the
\* same queues, callers, sockets and time do as they like.
Fairness == WF_vars(SweepSteps /\ ~SweepWaits)

Spec == Init /\ [][Next]_vars

FairSpec == Spec /\ Fairness

-----------------------------------------------------------------------------
(* What holds of the lifecycle.                                            *)

\* While the user's agent is connected, an enabled tunnel that has not idled
\* out is served: its key and the registry name the same connected agent
\* (sweep.go:125, "immediately re-claimable when any agent (re)connects").
ServedWhileUp ==
    Calm /\ sweep.pc = "idle" =>
        \A id \in Tids :
            LET s == SubOf[id] IN
            /\ IsActive(id) /\ row[id].enabled
            /\ key[s] # NoEntry
            /\ LiveAgentsOf(UserOf[id]) # {}
            => /\ key[s].agent \in agents
               /\ tunnels[s] # NoTunnel
               /\ tunnels[s].agent = key[s].agent

\* After a disconnect nothing in the cache names the agent, so that no
\* request is routed to it (AgentGone re-arms the keys "without an agent").
\* A key left by an unfinished sweep is on its way out, unless a resume peeks
\* it there: that one puts back the agent it found.
HandedBack ==
    \A a \in Agents, s \in Subs :
        /\ conn[a].pc = "dead" /\ restarts = 0 /\ sweep.pc = "idle"
        /\ key[s] # NoEntry
        /\ \A r \in Reqs : req[r].op = "resume" => Sub(r) # s
        => key[s].agent # a

\* A paused tunnel is neither bound nor routed (agent_ws.go:57, "never routed
\* or marked bound until the user resumes them").  One that had idled out
\* when it was paused may still be bound, unreachable, until the next sweep.
PausedNotServed ==
    Calm => \A id \in Tids :
        LET s == SubOf[id] IN
        IsActive(id) /\ ~row[id].enabled /\ key[s] # NoEntry =>
            tunnels[s] = NoTunnel /\ ~key[s].enabled

\* A deleted tunnel leaves no key behind: nothing routes to it, nothing
\* counts against the quota.  (Bound without a key, it waits for the sweep.)
DeletedGone ==
    Calm => \A id \in Tids :
        LET s == SubOf[id] IN
        row[id].status = "inactive" /\ key[s] # NoEntry =>
            key[s].id # id

\* A delete that answers "deleted" has deactivated the row it was asked for.
DeleteDeactivates ==
    \A r \in Reqs :
        req[r].pc = "done" /\ req[r].op = "delete" /\ req[r].ok =>
            row[req[r].id].status = "inactive"

\* Idle expiry and disconnects spare the row: only the hard deadline or an
\* explicit delete of this tunnel ends it (sweep.go:21-24).
RowsEndByDeadlineOrDelete ==
    [][\A id \in Tids :
         IsActive(id) /\ ~IsActive(id)' =>
            \/ id \in late
            \/ \E r \in Reqs : req[r].op = "delete" /\ req[r].id = id]_vars

\* Agent a is of a user who has, or had, a tunnel at subdomain s.
Owns(a, s) ==
    \E id \in Tids :
        /\ SubOf[id] = s /\ UserOf[id] = AgentUser[a]
        /\ row[id].status # "none"

\* Wherever a subdomain leads, by its key, by the registry or by a connection
\* that was let through, it is to an agent of a user who owns a tunnel there,
\* with two users' calls for the subdomain at once: AgentByUser, the claim and
\* the entries a handler puts back never name a stranger's agent.
RoutedToOwner ==
    /\ \A s \in Subs :
         key[s] # NoEntry /\ key[s].agent # NoAgent => Owns(key[s].agent, s)
    /\ \A s \in Subs : tunnels[s] # NoTunnel => Owns(tunnels[s].agent, s)
    /\ \A x \in Streams : carrier[x] # NoAgent => Owns(carrier[x], RouteOf[x])

\* A tunnel becomes an orphan of the hub, bound with no connected agent whose
\* disconnect would unbind it, in one way only: a bind (tryBindTunnel) found the
\* agent, and the agent was unregistered before the bind reached the hub.
OrphansByLateBinds ==
    [][\A s \in Subs :
         ~Orphan(s) /\ Orphan(s)' =>
            \E r \in Reqs :
                /\ req[r].pc = "register"
                /\ SubOf[req[r].entry.id] = s
                /\ req[r].entry.agent \notin agents]_vars

\* What idles out is unbound in the end: the registry does not keep tunnels
\* that no request can reach (sweepOnce), unless the sweeper waits for ever on
\* the write queue of an agent that is not closed (sweep.go:73, hub.go:69).
DarkTunnelsSwept ==
    []<>~SweepWaits =>
        \A s \in Subs :
            tunnels[s] # NoTunnel /\ key[s] = NoEntry
                ~> tunnels[s] = NoTunnel \/ key[s] # NoEntry

=============================================================================
