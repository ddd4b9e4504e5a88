------------------------------ MODULE EventFeed ------------------------------
(***************************************************************************)
(* The change feed: the broker (events/broker.go), the stream handler and  *)
(* the publishers (api/stream.go), and the desktop client that reads it    *)
(* (stream_events in client.rs, start_refresh and the optimistic updates   *)
(* in app.rs).  One user, one desktop client, other clients of the user    *)
(* that call the API.                                                      *)
(*                                                                         *)
(* A list is what it says of each tunnel: "none" (not listed) or one of    *)
(* two states, "on" and "off", which stand for the flags of an item        *)
(* (enabled, bound).  It changes with the calls of the API and with the    *)
(* agents, which publish, and with time, which does not.  Counters are     *)
(* left out: a stats frame takes a place in a buffer and changes no list.  *)
(* The payload the handler has taken and not yet written counts as on the  *)
(* wire.                                                                   *)
(***************************************************************************)
EXTENDS Naturals, Sequences, FiniteSets

CONSTANTS
    Tunnels,          \* ids
    Requests,         \* calls of the API in progress
    Conns,            \* streams
    NoConn,
    Capacity,         \* of a subscriber's channel, 64 in broker.go
    WireRoom,         \* frames the network holds before a write blocks
    MaxCalls,         \* bound: calls, the hub's publishes and lapses
    MaxFaults         \* bound: faults

ASSUME FeedAssumption ==
    /\ Tunnels # {}
    /\ NoConn \notin Conns
    /\ Capacity \in Nat \ {0}
    /\ WireRoom \in Nat \ {0}
    /\ MaxCalls \in Nat
    /\ MaxFaults \in Nat

VARIABLES
    truth,            \* the user's tunnels, see Listed
    req,              \* the handlers of the API, see NoRequest
    conn,             \* the streams, see NoStream
    subs,             \* Broker.subs of the user
    client,           \* the stream the client reads
    shown,            \* state.tunnels
    asleep,           \* the client does not run
    calls, faults,    \* count to their bounds
    \* history
    version,          \* changes of truth
    last,             \* that of the last list queued for the client's stream
    gap,              \* why that is not the newest, see Gaps
    ghost             \* an answer left an item that is not the server's

history == <<version, last, gap, ghost>>
vars == <<truth, req, conn, subs, client, shown, asleep, calls, faults, history>>

Lists == [Tunnels -> {"none", "on", "off"}]
Kinds == {"create", "on", "off", "delete"}
Gaps == {"missed", "dropped", "overtaken", "unbuilt", "misread", "lapsed"}

\* tunnelList(): the active rows before their deadline ("new" has no row yet,
\* "gone" is deleted or too old), each with the agent its key names.
Listed == [t \in Tunnels |-> IF truth[t] \in {"on", "off"} THEN truth[t]
                                                          ELSE "none"]
Empty == [t \in Tunnels |-> "none"]

\* tunnelList() while keys cannot be read: their tunnels count as unbound.
Misreadings ==
    {list \in Lists \ {Listed} :
        \A t \in Tunnels : \/ list[t] = Listed[t]
                           \/ list[t] = "off" /\ Listed[t] = "on"}

ListFrame(list) == [kind |-> "list", list |-> list]
SnapshotFrame(list) == [kind |-> "snapshot", list |-> list]
StatsFrame == [kind |-> "stats", list |-> Empty]

SomeTunnel == CHOOSE t \in Tunnels : TRUE

\* A call of the API: its handler, and the answer the client has to read.
NoRequest ==
    [pc |-> "free", mine |-> FALSE, kind |-> "create", tunnel |-> SomeTunnel,
     list |-> Empty, ver |-> 0, sound |-> TRUE,
     due |-> "none"]

\* A stream: its handler, whether its connection is up, its channel and
\* whether that is open, the frames on their way.
NoStream ==
    [handler |-> "free", alive |-> FALSE, open |-> FALSE,
     buffer |-> <<>>, wire |-> <<>>]

Init ==
    /\ truth \in [Tunnels -> {"new", "on"}]
    /\ req = [r \in Requests |-> NoRequest]
    /\ conn = [c \in Conns |-> NoStream]
    /\ subs = {}
    /\ client = NoConn
    /\ shown = Empty
    /\ asleep = FALSE
    /\ calls = 0
    /\ faults = 0
    /\ version = 0
    /\ last = 0
    /\ gap = {}
    /\ ghost = FALSE

-----------------------------------------------------------------------------
(* The broker.                                                             *)

HasRoom(s) == Len(s.buffer) < Capacity

\* The publisher waits until every subscriber has room.
DeliverWaiting(frame) ==
    /\ \A c \in subs : HasRoom(conn[c])
    /\ conn' = [c \in Conns |->
                  IF c \in subs
                  THEN [conn[c] EXCEPT !.buffer = Append(@, frame)]
                  ELSE conn[c]]

\* Publish(): every subscriber whose channel has room gets the payload.
Deliver(frame) ==
    conn' = [c \in Conns |->
               IF c \in subs /\ HasRoom(conn[c])
               THEN [conn[c] EXCEPT !.buffer = Append(@, frame)]
               ELSE conn[c]]

-----------------------------------------------------------------------------
(* The API: a handler changes the rows, answers, then publishes the list.  *)

\* What a call is made for: a toggle flips what the caller sees.
MayCall(kind, t, seen) ==
    IF kind = "create"
    THEN truth[t] = "new" /\ \A r \in Requests :
            req[r].pc = "sent" => req[r].tunnel # t
    ELSE seen[t] \notin {"none", kind}

\* A call is made: the first slot that is free.  The client toggles what it
\* shows at once (toggle_tunnel).
Call(r) ==
    /\ calls < MaxCalls
    /\ req[r] = NoRequest
    /\ r = CHOOSE q \in Requests : req[q] = NoRequest
    /\ \E t \in Tunnels, kind \in Kinds, mine \in BOOLEAN :
          /\ MayCall(kind, t, IF mine THEN shown ELSE Listed)
          /\ mine => ~asleep /\ kind # "delete"
          /\ req' = [req EXCEPT ![r].pc = "sent", ![r].tunnel = t,
                                ![r].kind = kind, ![r].mine = mine]
          /\ shown' = IF mine /\ kind \in {"on", "off"}
                      THEN [shown EXCEPT ![t] = kind] ELSE shown
    /\ calls' = calls + 1
    /\ UNCHANGED <<truth, conn, subs, client, asleep, faults, history>>

\* A tunnel after a call: the handler toggles a row that is no longer listed
\* as it does any other.
Outcome(kind, was) == CASE kind = "create" -> "on"
                        [] kind = "delete" -> "gone"
                        [] was = "gone"    -> "gone"
                        [] OTHER           -> kind

\* The handler is done with the rows.
Change(r) ==
    LET t == req[r].tunnel
        kind == req[r].kind
    IN  /\ req[r].pc = "sent"
        /\ truth' = [truth EXCEPT ![t] = Outcome(kind, @)]
        /\ version' = version + 1
        /\ req' = [req EXCEPT ![r].pc = "done",
                              ![r].kind = IF req[r].mine THEN @
                                                         ELSE NoRequest.kind]
        /\ UNCHANGED <<conn, subs, client, shown, asleep, calls, faults,
                       last, gap, ghost>>

\* An answer on its way is kept when the client acts on it: a tunnel created,
\* a toggle refused.  The rest are toasts.
Answered(r, how) ==
    IF req[r].mine /\ (how = "ok" <=> req[r].kind = "create")
    THEN [req[r] EXCEPT !.due = how] ELSE req[r]

\* What is left of a call once its handler has returned.
Returned(q) ==
    IF q.due = "none" THEN NoRequest
    ELSE [q EXCEPT !.pc = "free", !.list = Empty, !.ver = 0, !.sound = TRUE]

Fault == faults < MaxFaults /\ faults' = faults + 1

\* The handler writes an error: a quota that is full, a store that failed.
Refuse(r) ==
    /\ req[r].pc = "sent"
    /\ Fault
    /\ req' = [req EXCEPT ![r] = Returned(Answered(r, "err"))]
    /\ UNCHANGED <<truth, conn, subs, client, shown, asleep, calls, history>>

\* notify(): the hub publishes for the sweeper and for the agents, of rows
\* ExpireStale() marked and of tunnels whose state is what it was, too.
Notify(r) ==
    /\ calls < MaxCalls
    /\ req[r] = NoRequest
    /\ r = CHOOSE q \in Requests : req[q] = NoRequest
    /\ req' = [req EXCEPT ![r].pc = "done"]
    /\ calls' = calls + 1
    /\ UNCHANGED <<truth, conn, subs, client, shown, asleep, faults, history>>

\* The handler of the client's stream is in one of these states.
Streaming(states) == client # NoConn /\ conn[client].handler \in states

\* Time passes, and nothing is published: a row is past its deadline, or the
\* key that names its agent expires.
Lapse(t) ==
    /\ calls < MaxCalls
    /\ calls' = calls + 1
    /\ \/ truth[t] = "on" /\ truth' = [truth EXCEPT ![t] = "off"]
       \/ truth[t] \in {"on", "off"} /\ truth' = [truth EXCEPT ![t] = "gone"]
    /\ version' = version + 1
    /\ gap' = IF Streaming({"snapped", "loop"}) THEN gap \cup {"lapsed"} ELSE gap
    /\ UNCHANGED <<req, conn, subs, client, shown, asleep, faults, last, ghost>>

\* publishUserList(), once the client is answered: the list it read.
Read(r, list, sound) ==
    req' = [req EXCEPT ![r] = [Answered(r, "ok") EXCEPT
                                 !.pc = "read", !.list = list,
                                 !.ver = version, !.sound = sound]]

\* The list is read ...
ReadList(r) ==
    /\ req[r].pc = "done"
    /\ \/ Read(r, Listed, TRUE) /\ UNCHANGED faults
       \/ Fault /\ \E list \in Misreadings : Read(r, list, FALSE)
    /\ UNCHANGED <<truth, conn, subs, client, shown, asleep, calls, history>>

\* ... or cannot be: nothing is published.
ReadFails(r) ==
    /\ req[r].pc = "done"
    /\ Fault
    /\ req' = [req EXCEPT ![r] = Returned(Answered(r, "ok"))]
    /\ gap' = IF Streaming({"snapped", "loop"}) /\ last < version
              THEN gap \cup {"unbuilt"} ELSE gap
    /\ UNCHANGED <<truth, conn, subs, client, shown, asleep, calls, version,
                   last, ghost>>

\* History: what publishing a list of version ver, well read or not, does to
\* the client's stream.
Heard == Streaming({"loop"}) /\ client \in subs /\ HasRoom(conn[client])

GapAfter(ver, sound) ==
    CASE Heard /\ ~sound -> gap \cup {"misread"}
      [] Heard /\ sound /\ ver = version -> {}
      [] Heard /\ sound /\ ver < last -> gap \cup {"overtaken"}
      [] Streaming({"loop"}) /\ ~Heard /\ ver > last -> gap \cup {"dropped"}
      [] Streaming({"snapped"}) /\ ver > last -> gap \cup {"missed"}
      [] OTHER -> gap

\* ... and published: others may have published a newer one meanwhile.
PublishList(r) ==
    LET ver == req[r].ver
    IN  /\ req[r].pc = "read"
        /\ Deliver(ListFrame(req[r].list))
        /\ req' = [req EXCEPT ![r] = Returned(@)]
        /\ gap' = GapAfter(ver, req[r].sound)
        /\ last' = IF Heard /\ ver > last THEN ver ELSE last
        /\ UNCHANGED <<truth, subs, client, shown, asleep, calls, faults,
                       version, ghost>>

\* RunStatsBroadcast(), at a tick: nothing for a user nobody listens for.
Stats ==
    /\ subs # {}
    /\ Deliver(StatsFrame)
    /\ UNCHANGED <<truth, req, subs, client, shown, asleep, calls, faults,
                   history>>

-----------------------------------------------------------------------------
(* handleEventStream()                                                     *)

\* The snapshot is read and written.  It is skipped when it cannot be read, as
\* when the client is gone; when the write fails the handler returns.
Snapshot(c) ==
    /\ conn[c].handler = "open"
    /\ \/ /\ conn[c].alive
          /\ conn' = [conn EXCEPT ![c].handler = "snapped",
                                  ![c].wire = <<SnapshotFrame(Listed)>>]
          /\ last' = version
          /\ UNCHANGED <<gap, faults>>
       \/ /\ conn[c].alive
          /\ Fault
          /\ \E list \in Misreadings :
                conn' = [conn EXCEPT ![c].handler = "snapped",
                                     ![c].wire = <<SnapshotFrame(list)>>]
          /\ last' = version
          /\ gap' = {"misread"}
       \/ /\ conn[c].alive => faults < MaxFaults
          /\ faults' = IF conn[c].alive THEN faults + 1 ELSE faults
          /\ conn' = [conn EXCEPT ![c].handler = "snapped"]
          /\ gap' = IF client = c THEN {"unbuilt"} ELSE gap
          /\ UNCHANGED last
       \/ /\ ~conn[c].alive
          /\ conn' = [conn EXCEPT ![c] = NoStream]
          /\ UNCHANGED <<gap, last, faults>>
    /\ UNCHANGED <<truth, req, subs, client, shown, asleep, calls, version,
                   ghost>>

\* Subscribe(), after the snapshot.
Subscribe(c) ==
    /\ conn[c].handler = "snapped"
    /\ conn' = [conn EXCEPT ![c].handler = "loop", ![c].open = TRUE]
    /\ subs' = subs \cup {c}
    /\ UNCHANGED <<truth, req, client, shown, asleep, calls, faults, history>>

\* The loop writes a payload.
Forward(c) ==
    /\ conn[c].handler = "loop"
    /\ conn[c].alive
    /\ conn[c].buffer # <<>>
    /\ Len(conn[c].wire) < WireRoom
    /\ conn' = [conn EXCEPT ![c].buffer = Tail(@),
                            ![c].wire = Append(@, Head(conn[c].buffer))]
    /\ UNCHANGED <<truth, req, subs, client, shown, asleep, calls, faults,
                   history>>

\* No look at the context and no heartbeat: a payload must fail to be written.
GoneOnWrite(c) == ~conn[c].alive /\ conn[c].buffer # <<>>

\* The context is done, or the write of a payload or of a heartbeat fails.
Gone(c) == ~conn[c].alive

\* cancel() that closes the channel before it leaves the map.
LeaveClosing(c) ==
    /\ conn' = [conn EXCEPT ![c].handler = "left", ![c].open = FALSE]
    /\ UNCHANGED subs

\* cancel(): the channel leaves the map, with the lock ...
Leave(c) ==
    /\ conn' = [conn EXCEPT ![c].handler = "left"]
    /\ subs' = subs \ {c}

HandlerEnds(c) ==
    /\ conn[c].handler = "loop"
    /\ Gone(c)
    /\ Leave(c)
    /\ UNCHANGED <<truth, req, client, shown, asleep, calls, faults, history>>

\* ... and is closed without it.
CloseChannel(c) ==
    /\ conn[c].handler = "left"
    /\ conn' = [conn EXCEPT ![c] = [NoStream EXCEPT !.wire = conn[c].wire]]
    /\ subs' = subs \ {c}
    /\ UNCHANGED <<truth, req, client, shown, asleep, calls, faults, history>>

-----------------------------------------------------------------------------
(* The desktop client.                                                     *)


MayConnect == client = NoConn

\* Streams are interchangeable: the first that is free is taken.
FirstFree(c) ==
    /\ conn[c] = NoStream
    /\ c = CHOOSE d \in Conns : conn[d] = NoStream

\* start_refresh(): after the backoff the next stream is opened.
Connect(c) ==
    /\ ~asleep
    /\ MayConnect
    /\ FirstFree(c)
    /\ conn' = [conn EXCEPT ![c].handler = "open", ![c].alive = TRUE]
    /\ client' = c
    /\ gap' = {}
    /\ last' = 0
    /\ UNCHANGED <<truth, req, subs, shown, asleep, calls, faults, version,
                   ghost>>

\* Only "list" frames are taken for the list.
ShowsListOnly(frame) == frame.kind = "list"

\* "snapshot" and "list" frames replace the list.
Shows(frame) == frame.kind \in {"snapshot", "list"}

Receive(c) ==
    /\ client = c
    /\ ~asleep
    /\ conn[c].wire # <<>>
    /\ LET frame == Head(conn[c].wire)
       IN  IF Shows(frame)
           THEN shown' = frame.list /\ ghost' = FALSE
           ELSE UNCHANGED <<shown, ghost>>
    /\ conn' = [conn EXCEPT ![c].wire = Tail(@)]
    /\ UNCHANGED <<truth, req, subs, client, asleep, calls, faults, version,
                   last, gap>>

\* The stream ends or fails: what was on its way is lost.
Lose(c) ==
    /\ client = c
    /\ ~asleep
    /\ ~conn[c].alive
    /\ client' = NoConn
    /\ conn' = [conn EXCEPT ![c].wire = <<>>]
    /\ last' = 0
    /\ gap' = {}
    /\ UNCHANGED <<truth, req, subs, shown, asleep, calls, faults, version,
                   ghost>>

\* The answer of a call.  An optimistic item is added unless the list has its
\* id; a toggle that failed is taken back.
Optimistic(q) ==
    LET t == q.tunnel
        flipped == IF q.kind = "on" THEN "off" ELSE "on"
    IN  CASE q.due = "ok" /\ q.kind = "create" /\ shown[t] = "none" -> "on"
          [] q.due = "err" /\ q.kind \in {"on", "off"} /\ shown[t] # "none" ->
                flipped
          [] OTHER -> shown[t]

ReadAnswer(r) ==
    LET t == req[r].tunnel
    IN  /\ req[r].due # "none"
        /\ ~asleep
        /\ shown' = [shown EXCEPT ![t] = Optimistic(req[r])]
        /\ ghost' = (ghost \/ (shown'[t] # shown[t] /\ shown'[t] # Listed[t]))
        /\ req' = [req EXCEPT ![r] =
                     IF @.pc = "free" THEN NoRequest ELSE [@ EXCEPT !.due = "none"]]
        /\ UNCHANGED <<truth, conn, subs, client, asleep, calls, faults,
                       version, last, gap>>

-----------------------------------------------------------------------------
(* Faults.                                                                 *)

\* A connection goes down; neither end knows yet.
Break(c) ==
    /\ Fault
    /\ conn[c].alive
    /\ conn' = [conn EXCEPT ![c].alive = FALSE]
    /\ UNCHANGED <<truth, req, subs, client, shown, asleep, calls, history>>

\* The client is suspended, and runs again or not.
Suspend ==
    /\ Fault
    /\ asleep' = ~asleep
    /\ UNCHANGED <<truth, req, conn, subs, client, shown, calls, history>>

\* The control plane restarts: its handlers, channels and subscribers are
\* gone, and a call that had no answer fails at the client.
Restart ==
    /\ Fault
    /\ subs # {}
    /\ subs' = {}
    /\ conn' = [c \in Conns |-> [NoStream EXCEPT !.wire = conn[c].wire]]
    /\ req' = [r \in Requests |->
                 Returned(IF req[r].pc \in {"sent", "done"}
                          THEN Answered(r, "err") ELSE req[r])]
    /\ UNCHANGED <<truth, client, shown, asleep, calls, history>>

-----------------------------------------------------------------------------
Serve(r) == \/ Change(r) \/ Refuse(r)
            \/ ReadList(r) \/ ReadFails(r) \/ PublishList(r)

Handle(c) == \/ Snapshot(c) \/ Subscribe(c) \/ Forward(c)
             \/ HandlerEnds(c) \/ CloseChannel(c)

Next ==
    \/ \E r \in Requests : Call(r) \/ Notify(r) \/ Serve(r) \/ ReadAnswer(r)
    \/ \E t \in Tunnels : Lapse(t)
    \/ \E c \in Conns : Handle(c) \/ Connect(c) \/ Receive(c) \/ Lose(c)
                           \/ Break(c)
    \/ Stats \/ Suspend \/ Restart

\* Handlers run, sockets and heartbeats fail in the end, a client that runs
\* reads and reconnects.  Nobody must call, notify, tick, break or wake up.
Fairness ==
    /\ \A r \in Requests : WF_vars(Serve(r)) /\ WF_vars(ReadAnswer(r))
    /\ \A c \in Conns : WF_vars(Handle(c)) /\ WF_vars(Receive(c) \/ Lose(c))
    /\ WF_vars(\E c \in Conns : Connect(c))

Spec == Init /\ [][Next]_vars /\ Fairness

-----------------------------------------------------------------------------
(* Properties.                                                             *)

\* Publish never sends on a closed channel, which would panic: what is in the
\* map is open, whenever a stream ends.
PublishSafe == \A c \in subs : conn[c].open /\ conn[c].handler = "loop"

\* Nothing is on its way: no call, no frame, no answer.
Quiet ==
    /\ \A r \in Requests : req[r] = NoRequest
    /\ client # NoConn
    /\ conn[client].handler = "loop" /\ conn[client].alive
    /\ conn[client].buffer = <<>> /\ conn[client].wire = <<>>

\* "Connected GUIs stay current without polling": when nothing is on its way
\* the client shows the list of the server, but for the seven ways to miss one:
\* a list published between the snapshot and the subscription, dropped at a
\* full channel, overtaken by a publisher that read later, not built, built
\* while keys could not be read, a list that time alone has changed since, or
\* an optimistic item the answer of a call left behind.
UpToDate ==
    Quiet /\ gap = {} /\ ~ghost => shown = Listed

\* "A slow client drops messages rather than blocking a tunnel operation":
\* every call ends, whatever its subscribers do.
OperationsFinish ==
    \A r \in Requests : req[r].pc # "free" ~> req[r].pc = "free"

\* The subscription of a stream that is gone ends, silent or not.
SubscriptionsEnd ==
    \A c \in Conns : (c \in subs /\ ~conn[c].alive) ~> c \notin subs


=============================================================================
