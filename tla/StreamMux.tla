------------------------------ MODULE StreamMux ------------------------------
(***************************************************************************)
(* The data plane of one agent connection: public connections relayed over *)
(* one WebSocket.  On the proxy's side each stream has a handler (serveHTTP *)
(* or handleTCP) and a pump (pumpAgentToClient), and the connection has a  *)
(* read loop (agent_io.go).  On the agent's side (agent.rs) one session    *)
(* handles the frames, and each stream has a writer and a reader task in   *)
(* front of the local service.  All queues but the agent's outbound one    *)
(* are bounded, and whoever meets a full one waits.                        *)
(*                                                                         *)
(* Payloads are counted, not spelled out: every path is a FIFO.  A write   *)
(* to a public client that reads never blocks for ever.                    *)
(***************************************************************************)
EXTENDS Naturals, Sequences, FiniteSets

CONSTANTS
    Streams,
    Http,         \* plain requests, by serveHTTP; handleTCP has the others
    Chunks,       \* bound: chunks either end sends after the request's head
    InCap,        \* Stream.In: 64
    QueueCap,     \* Agent.writeCh: 1024
    InboundCap,   \* StreamHandle.inbound: 64
    MaxStreams,   \* OCTOPORT_MAX_STREAMS_PER_AGENT
    MaxConns,     \* bound: public connections
    MaxEvents,    \* bound: pings, sweeps and the break of the socket, together
    Nobody        \* no stream

ASSUME MuxConstants ==
    /\ Http \subseteq Streams
    /\ {Chunks, InCap, QueueCap, InboundCap, MaxStreams, MaxConns}
         \subseteq Nat \ {0}
    /\ MaxEvents \in Nat
    /\ Nobody \notin Streams

VARIABLES
    client,    \* the public connection: what is left to read from it and what
               \* has been written to it
    handler,   \* serveHTTP, handleTCP
    pump,      \* pumpAgentToClient, and how it ended
    in,        \* Stream.In
    reg,       \* Agent.streams
    fin,       \* streams whose Finish has run; it closes the public connection
    closed,    \* Agent.closed
    sweeper,   \* the stream a sweep has sent CLOSE for and will finish next
    swept,     \* the streams closed by a sweep, a pause or a delete
    down,      \* writeCh, and the socket towards the agent
    up,        \* the agent's outbound channel, and the socket towards the proxy
    broken,    \* the socket is down
    pings,
    handles,   \* Session.streams
    inbound,   \* StreamHandle.inbound
    writer,    \* the task that writes to the local service
    service,   \* the local service's end of the stream
    reader     \* the task that reads from the local service

proxyVars == <<handler, pump, in, reg, fin, closed, sweeper, swept>>
agentVars == <<handles, inbound, writer, service, reader>>
wireVars == <<down, up, broken, pings>>
vars == <<client, proxyVars, agentVars, wireVars>>

StreamFrame == {"OPEN", "DATA", "CLOSE", "ERROR"}
Events == pings + Cardinality(swept) + (IF broken THEN 1 ELSE 0)

Frame == [type : StreamFrame, stream : Streams]
           \cup [type : {"PING", "PONG"}, stream : {Nobody}]

F(type, x) == [type |-> type, stream |-> x]

TypeOK ==
    /\ client \in [Streams -> [left : 0 .. Chunks, eof : BOOLEAN,
                               gone : BOOLEAN, got : 0 .. Chunks,
                               got502 : BOOLEAN]]
    /\ handler \in [Streams -> {"new", "open", "head", "relay", "close",
                                "wait", "finish", "drain", "done"}]
    /\ pump \in [Streams -> {"off", "run", "eof", "err", "cut"}]
    /\ \A x \in Streams :
         /\ in[x] \in Seq(Frame) /\ Len(in[x]) <= InCap
         /\ inbound[x] \in 0 .. InboundCap
    /\ reg \subseteq Streams /\ fin \subseteq Streams
    /\ swept \subseteq Streams /\ handles \subseteq Streams
    /\ closed \in BOOLEAN /\ broken \in BOOLEAN
    /\ sweeper \in Streams \cup {Nobody}
    /\ down \in Seq(Frame) /\ Len(down) <= QueueCap
    /\ up \in Seq(Frame)
    /\ pings \in 0 .. MaxEvents
    /\ Cardinality(handles) <= MaxStreams
    /\ writer \in [Streams -> {"off", "run", "hold", "shut"}]
    /\ service \in [Streams -> [state : {"none", "open", "closed", "reset"},
                                got : 0 .. Chunks + 1, sent : 0 .. Chunks]]
    /\ reader \in [Streams -> [state : {"off", "run", "done", "stopped"},
                               read : 0 .. Chunks]]

Init ==
    /\ client = [x \in Streams |-> [left |-> Chunks, eof |-> FALSE,
                                    gone |-> FALSE, got |-> 0,
                                    got502 |-> FALSE]]
    /\ handler = [x \in Streams |-> "new"]
    /\ pump = [x \in Streams |-> "off"]
    /\ in = [x \in Streams |-> <<>>]
    /\ reg = {} /\ fin = {} /\ swept = {} /\ handles = {}
    /\ closed = FALSE /\ broken = FALSE
    /\ sweeper = Nobody
    /\ down = <<>> /\ up = <<>>
    /\ pings = 0
    /\ inbound = [x \in Streams |-> 0]
    /\ writer = [x \in Streams |-> "off"]
    /\ service = [x \in Streams |-> [state |-> "none", got |-> 0, sent |-> 0]]
    /\ reader = [x \in Streams |-> [state |-> "off", read |-> 0]]

-----------------------------------------------------------------------------
(* The public client.                                                      *)

\* It shuts its sending side once it has sent everything, or leaves at once.
ClientShuts(x) ==
    /\ handler[x] # "new" /\ client[x].left = 0 /\ ~client[x].eof
    /\ client' = [client EXCEPT ![x].eof = TRUE]
    /\ UNCHANGED <<proxyVars, agentVars, wireVars>>

ClientLeaves(x) ==
    /\ handler[x] # "new" /\ ~client[x].gone
    /\ client' = [client EXCEPT ![x].gone = TRUE, ![x].eof = TRUE]
    /\ UNCHANGED <<proxyVars, agentVars, wireVars>>

-----------------------------------------------------------------------------
(* The proxy's side.                                                       *)

\* A queue without a bound.
EnqueueNow(f) == down' = Append(down, f)

\* A send that does not look at Agent.closed.
EnqueueWaits(f) == Len(down) < QueueCap /\ down' = Append(down, f)

\* Waits for room in the queue, unless the agent is closed: then the frame is
\* dropped, which no caller looks at.
Enqueue(f) ==
    \/ ~closed /\ Len(down) < QueueCap /\ down' = Append(down, f)
    \/ closed /\ UNCHANGED down

Goto(x, pc) == handler' = [handler EXCEPT ![x] = pc]

Ended(x) == pump[x] \in {"eof", "err", "cut"}

\* The tunnel and its agent were found a while ago: the agent may have been
\* closed since.
Alloc(x) ==
    /\ handler[x] = "new"
    /\ Cardinality({y \in Streams : handler[y] # "new"}) < MaxConns
    /\ reg' = reg \cup {x}
    /\ Goto(x, "open")
    /\ UNCHANGED <<client, pump, in, fin, closed, sweeper, swept, agentVars,
                   wireVars>>

\* handleTCP starts its pump here, serveHTTP after the request.
SendOpen(x) ==
    /\ handler[x] = "open"
    /\ Enqueue(F("OPEN", x))
    /\ Goto(x, "head")
    /\ pump' = IF x \in Http THEN pump ELSE [pump EXCEPT ![x] = "run"]
    /\ UNCHANGED <<client, in, reg, fin, closed, sweeper, swept, agentVars, up,
                   broken, pings>>

\* The request that was read before the hijack, or the bytes peeked for the
\* route: sent even if the stream has been finished meanwhile.
SendHead(x) ==
    /\ handler[x] = "head"
    /\ Enqueue(F("DATA", x))
    /\ Goto(x, "relay")
    /\ pump' = [pump EXCEPT ![x] = IF @ = "off" THEN "run" ELSE @]
    /\ UNCHANGED <<client, in, reg, fin, closed, sweeper, swept, agentVars, up, broken,
                   pings>>

\* serveHTTP's pump trips the read deadline when it ends.
Tripped(x) == x \in Http /\ Ended(x)

\* serveHTTP reads through a buffer, which a closed connection or a deadline
\* does not empty.
RelayData(x) ==
    /\ handler[x] = "relay"
    /\ client[x].left > 0 /\ (x \in Http \/ x \notin fin)
    /\ Enqueue(F("DATA", x))
    /\ client' = [client EXCEPT ![x].left = @ - 1]
    /\ UNCHANGED <<proxyVars, agentVars, up, broken, pings>>

\* A relay whose reader the pump does not wake.
RelayEndPatient(x) ==
    /\ handler[x] = "relay"
    /\ client[x].eof \/ client[x].gone \/ x \in fin
    /\ Goto(x, "close")
    /\ UNCHANGED <<client, pump, in, reg, fin, closed, sweeper, swept, agentVars,
                   wireVars>>

RelayEnd(x) ==
    /\ handler[x] = "relay"
    /\ client[x].eof \/ client[x].gone \/ x \in fin \/ Tripped(x)
    /\ Goto(x, "close")
    /\ UNCHANGED <<client, pump, in, reg, fin, closed, sweeper, swept, agentVars,
                   wireVars>>

\* A handler that goes without its last frame.
CloseSilently(x) ==
    /\ handler[x] = "close"
    /\ Goto(x, IF x \in Http THEN "wait" ELSE "finish")
    /\ UNCHANGED <<client, pump, in, reg, fin, closed, sweeper, swept, agentVars,
                   wireVars>>

SendClose(x) ==
    /\ handler[x] = "close"
    /\ Enqueue(F("CLOSE", x))
    /\ Goto(x, IF x \in Http THEN "wait" ELSE "finish")
    /\ UNCHANGED <<client, pump, in, reg, fin, closed, sweeper, swept, agentVars,
                   up, broken, pings>>

\* Finish takes effect once: the stream leaves the map and WriteHook closes
\* the public connection.
Finish(X) ==
    /\ fin' = fin \cup X
    /\ reg' = reg \ X

\* No 502 at the end.
AwaitOnly(x) ==
    /\ handler[x] = "wait" /\ Ended(x)
    /\ Finish({x})
    /\ Goto(x, "done")
    /\ UNCHANGED <<client, pump, in, closed, sweeper, swept, agentVars, wireVars>>

\* <-responded, then the 502 if nothing was written: lost on a connection that
\* WriteHook has closed.
AwaitResponse(x) ==
    /\ handler[x] = "wait" /\ Ended(x)
    /\ client' = [client EXCEPT ![x].got502 =
                    client[x].got = 0 /\ x \notin fin]
    /\ Finish({x})
    /\ Goto(x, "done")
    /\ UNCHANGED <<pump, in, closed, sweeper, swept, agentVars, wireVars>>

HandlerFinishes(x) ==
    /\ handler[x] = "finish"
    /\ Finish({x})
    /\ Goto(x, "drain")
    /\ UNCHANGED <<client, pump, in, closed, sweeper, swept, agentVars, wireVars>>

\* handleTCP waits for its pump last.
Drained(x) ==
    /\ handler[x] = "drain" /\ Ended(x)
    /\ Goto(x, "done")
    /\ UNCHANGED <<client, pump, in, reg, fin, closed, sweeper, swept, agentVars,
                   wireVars>>

PumpEnds(x, how) == pump' = [pump EXCEPT ![x] = how]

\* The select of pumpAgentToClient: of a frame and a finished stream that are
\* both there it takes either.  A client that has left may not be noticed at
\* the first write.
PumpFrame(x) ==
    LET f == Head(in[x]) IN
    /\ pump[x] = "run" /\ in[x] # <<>>
    /\ in' = [in EXCEPT ![x] = Tail(@)]
    /\ \/ /\ f.type = "DATA" /\ x \notin fin
          /\ client' = [client EXCEPT ![x].got = @ + 1]
          /\ UNCHANGED pump
       \/ /\ f.type = "DATA" /\ (x \in fin \/ client[x].gone)
          /\ PumpEnds(x, "cut")
          /\ UNCHANGED client
       \/ f.type = "CLOSE" /\ PumpEnds(x, "eof") /\ UNCHANGED client
       \/ f.type = "ERROR" /\ PumpEnds(x, "err") /\ UNCHANGED client
    /\ UNCHANGED <<handler, reg, fin, closed, sweeper, swept, agentVars, wireVars>>

PumpCut(x) ==
    /\ pump[x] = "run" /\ x \in fin
    /\ PumpEnds(x, "cut")
    /\ UNCHANGED <<client, handler, in, reg, fin, closed, sweeper, swept,
                   agentVars, wireVars>>

\* A CLOSE that cuts off what is buffered.
DispatchAhead ==
    LET f == Head(up) IN
    /\ up # <<>> /\ f.type \in {"DATA", "CLOSE", "ERROR"}
    /\ \/ /\ f.stream \in reg /\ (f.type = "CLOSE" \/ Len(in[f.stream]) < InCap)
          /\ in' = [in EXCEPT ![f.stream] =
                      IF f.type = "CLOSE" THEN <<f>> ELSE Append(@, f)]
       \/ f.stream \notin reg /\ UNCHANGED in
    /\ up' = Tail(up)
    /\ UNCHANGED <<client, handler, pump, reg, fin, closed, sweeper, swept,
                   agentVars, down, broken, pings>>

\* ReadLoop: a frame for a stream whose queue is full keeps every other frame
\* of the connection waiting, until there is room or the stream is finished.
Dispatch ==
    LET f == Head(up) IN
    /\ up # <<>> /\ f.type \in {"DATA", "CLOSE", "ERROR"}
    /\ \/ /\ f.stream \in reg /\ Len(in[f.stream]) < InCap
          /\ in' = [in EXCEPT ![f.stream] = Append(@, f)]
       \/ f.stream \notin reg /\ UNCHANGED in
    /\ up' = Tail(up)
    /\ UNCHANGED <<client, handler, pump, reg, fin, closed, sweeper, swept,
                   agentVars, down, broken, pings>>

DispatchPing ==
    /\ up # <<>> /\ Head(up).type = "PING"
    /\ Enqueue(F("PONG", Nobody))
    /\ up' = Tail(up)
    /\ UNCHANGED <<client, proxyVars, agentVars, broken, pings>>

\* The read fails: Agent.Close finishes every stream, and leaves an ERROR in
\* its queue if there is room.
CloseAgent ==
    /\ broken /\ up = <<>> /\ ~closed
    /\ closed' = TRUE
    /\ Finish(reg)
    /\ in' = [x \in Streams |-> IF x \in reg /\ Len(in[x]) < InCap
                                THEN Append(in[x], F("ERROR", x))
                                ELSE in[x]]
    /\ UNCHANGED <<client, handler, pump, sweeper, swept, agentVars, wireVars>>

\* Expire, ExpireIdle and AgentGone: CLOSE, then Finish.
SweepClose(x) ==
    /\ sweeper = Nobody /\ Events < MaxEvents
    /\ x \in reg \ swept
    /\ Enqueue(F("CLOSE", x))
    /\ sweeper' = x
    /\ swept' = swept \cup {x}
    /\ UNCHANGED <<client, handler, pump, in, reg, fin, closed, agentVars, up,
                   broken, pings>>

SweepFinish ==
    /\ sweeper # Nobody
    /\ Finish({sweeper})
    /\ sweeper' = Nobody
    /\ UNCHANGED <<client, handler, pump, in, closed, swept, agentVars, wireVars>>

-----------------------------------------------------------------------------
(* The agent's side.  What its tasks send goes through one unbounded       *)
(* channel, so that none of them ever waits for the socket.                *)

\* An outbound channel of one frame.
EmitBounded(fs) ==
    \/ ~broken /\ (fs = <<>> \/ up = <<>>) /\ up' = up \o fs
    \/ broken /\ UNCHANGED up

Emit(fs) == up' = IF broken THEN up ELSE up \o fs

Live(x) == x \in handles

\* The session is busy until the local service is dialled, so that a dial is
\* one step with the frame that asks for it.
HandleOpen ==
    LET x == Head(down).stream IN
    /\ ~broken /\ down # <<>> /\ Head(down).type = "OPEN"
    /\ down' = Tail(down)
    /\ \/ /\ Cardinality(handles) < MaxStreams
          /\ handles' = handles \cup {x}
          /\ writer' = [writer EXCEPT ![x] = "run"]
          /\ service' = [service EXCEPT ![x].state = "open"]
          /\ reader' = [reader EXCEPT ![x].state = "run"]
          /\ UNCHANGED up
       \/ /\ Emit(<<F("ERROR", x)>>)
          /\ UNCHANGED <<handles, writer, service, reader>>
    /\ UNCHANGED <<client, proxyVars, inbound, broken, pings>>

\* A full queue makes the session wait; a task that is over answers with an
\* ERROR, except to a send that was already waiting.
HandleData ==
    LET x == Head(down).stream IN
    /\ ~broken /\ down # <<>> /\ Head(down).type = "DATA"
    /\ down' = Tail(down)
    /\ \/ ~Live(x) /\ UNCHANGED <<handles, inbound, up>>
       \/ /\ Live(x) /\ writer[x] # "shut" /\ inbound[x] < InboundCap
          /\ inbound' = [inbound EXCEPT ![x] = @ + 1]
          /\ UNCHANGED <<handles, up>>
       \/ /\ Live(x) /\ writer[x] = "shut"
          /\ handles' = handles \ {x}
          /\ \/ Emit(<<F("ERROR", x)>>)
             \/ inbound[x] = InboundCap /\ UNCHANGED up
          /\ UNCHANGED inbound
    /\ UNCHANGED <<client, proxyVars, writer, service, reader, broken, pings>>

HandleClose ==
    /\ ~broken /\ down # <<>> /\ Head(down).type \in {"CLOSE", "PONG"}
    /\ down' = Tail(down)
    /\ handles' = handles \ {Head(down).stream}
    /\ UNCHANGED <<client, proxyVars, inbound, writer, service, reader, up,
                   broken, pings>>

Ping ==
    /\ ~broken /\ Events < MaxEvents
    /\ pings' = pings + 1
    /\ up' = Append(up, F("PING", Nobody))
    /\ UNCHANGED <<client, proxyVars, agentVars, down, broken>>

\* run returns, and with it go the session and the senders it held.
SessionEnds ==
    /\ broken /\ handles # {}
    /\ handles' = {}
    /\ UNCHANGED <<client, proxyVars, inbound, writer, service, reader,
                   wireVars>>

\* A write to a service that has closed gets lost, and has the connection
\* reset; one to a connection that is reset fails, sooner or later.
WriteLocal(x) ==
    /\ writer[x] = "run" /\ inbound[x] > 0
    /\ inbound' = [inbound EXCEPT ![x] = @ - 1]
    /\ \/ /\ service[x].state = "open"
          /\ service' = [service EXCEPT ![x].got = @ + 1]
          /\ UNCHANGED <<writer, up>>
       \/ /\ service[x].state \in {"closed", "reset"}
          /\ service' = [service EXCEPT ![x].state = "reset"]
          /\ UNCHANGED <<writer, up>>
       \/ /\ service[x].state = "reset"
          /\ writer' = [writer EXCEPT ![x] = "hold"]
          /\ Emit(<<F("ERROR", x)>>)
          /\ UNCHANGED service
    /\ UNCHANGED <<client, proxyVars, handles, reader, down, broken, pings>>

\* A writer that stops as soon as its stream is closed.
WriterHurries(x) ==
    /\ writer[x] = "run" /\ ~Live(x)
    /\ writer' = [writer EXCEPT ![x] = "hold"]
    /\ UNCHANGED <<client, proxyVars, handles, inbound, service, reader,
                   wireVars>>

\* recv answers None: the handle is gone and the queue is drained.
WriterEnds(x) ==
    /\ writer[x] = "run" /\ ~Live(x) /\ inbound[x] = 0
    /\ writer' = [writer EXCEPT ![x] = "hold"]
    /\ UNCHANGED <<client, proxyVars, handles, inbound, service, reader,
                   wireVars>>

\* The FIN waits for response_started: the reader has read a chunk, or is over.
WriterShuts(x) ==
    /\ writer[x] = "hold"
    /\ reader[x].read > 0 \/ reader[x].state \in {"done", "stopped"}
    /\ writer' = [writer EXCEPT ![x] = "shut"]
    /\ UNCHANGED <<client, proxyVars, handles, inbound, service, reader,
                   wireVars>>

\* The service answers as it likes, and closes when it likes: both its
\* directions, with nothing unread.
LocalSends(x) ==
    /\ service[x].state = "open" /\ service[x].sent < Chunks
    /\ service' = [service EXCEPT ![x].sent = @ + 1]
    /\ UNCHANGED <<client, proxyVars, handles, inbound, writer, reader,
                   wireVars>>

LocalCloses(x) ==
    /\ service[x].state = "open"
    /\ service' = [service EXCEPT ![x].state = "closed"]
    /\ UNCHANGED <<client, proxyVars, handles, inbound, writer, reader,
                   wireVars>>

\* It breaks down, or closes with something unread.
LocalResets(x) ==
    /\ service[x].state = "open"
    /\ service' = [service EXCEPT ![x].state = "reset"]
    /\ UNCHANGED <<client, proxyVars, handles, inbound, writer, reader,
                   wireVars>>

\* Once the session is gone nobody takes the chunk, and the reader stops.
ReadLocal(x) ==
    /\ reader[x].state = "run" /\ reader[x].read < service[x].sent
    /\ reader' = [reader EXCEPT
                    ![x] = [state |-> IF broken THEN "stopped" ELSE "run",
                            read |-> @.read + 1]]
    /\ Emit(<<F("DATA", x)>>)
    /\ UNCHANGED <<client, proxyVars, handles, inbound, writer, service, down,
                   broken, pings>>

\* Ok(0) comes after all the service has sent; an error of a connection that
\* is reset comes at once, or later.
AtEnd(x) ==
    \/ service[x].state = "closed" /\ reader[x].read = service[x].sent
    \/ service[x].state = "reset"

\* A reader that reports its end as an error.
ReaderEndsAsError(x) ==
    /\ reader[x].state = "run" /\ AtEnd(x)
    /\ reader' = [reader EXCEPT ![x].state = "done"]
    /\ Emit(<<F("ERROR", x)>>)
    /\ UNCHANGED <<client, proxyVars, handles, inbound, writer, service, down,
                   broken, pings>>

ReaderEnds(x) ==
    /\ reader[x].state = "run" /\ AtEnd(x)
    /\ reader' = [reader EXCEPT ![x].state = "done"]
    /\ Emit(<<F("CLOSE", x)>>)
    /\ UNCHANGED <<client, proxyVars, handles, inbound, writer, service, down,
                   broken, pings>>

\* What the proxy has not received by then is lost.
Break ==
    /\ ~broken /\ Events < MaxEvents
    /\ broken' = TRUE
    /\ \E n \in 0 .. Len(up) : up' = SubSeq(up, 1, n)
    /\ UNCHANGED <<client, proxyVars, agentVars, down, pings>>

-----------------------------------------------------------------------------

HandlerSteps(x) ==
    \/ SendOpen(x) \/ SendHead(x) \/ RelayData(x) \/ RelayEnd(x)
    \/ SendClose(x) \/ AwaitResponse(x) \/ HandlerFinishes(x) \/ Drained(x)

PumpSteps(x) == PumpFrame(x) \/ PumpCut(x)

ReadLoop == Dispatch \/ DispatchPing \/ CloseAgent

Session == HandleOpen \/ HandleData \/ HandleClose \/ SessionEnds

WriterSteps(x) == WriteLocal(x) \/ WriterEnds(x) \/ WriterShuts(x)

ReaderSteps(x) == ReadLocal(x) \/ ReaderEnds(x)

LocalSteps(x) == LocalSends(x) \/ LocalCloses(x) \/ LocalResets(x)

Next ==
    \/ \E x \in Streams :
         \/ ClientShuts(x) \/ ClientLeaves(x)
         \/ Alloc(x) \/ HandlerSteps(x) \/ PumpSteps(x)
         \/ SweepClose(x)
         \/ WriterSteps(x) \/ ReaderSteps(x) \/ LocalSteps(x)
    \/ ReadLoop \/ SweepFinish \/ Session \/ Ping \/ Break

Spec == Init /\ [][Next]_vars

\* Goroutines and tasks run on; clients, services, sweeps and the network do as
\* they like.
FairSpec ==
    /\ Spec
    /\ \A x \in Streams :
         /\ WF_vars(HandlerSteps(x)) /\ WF_vars(PumpSteps(x))
         /\ WF_vars(WriterSteps(x)) /\ WF_vars(ReaderSteps(x))
    /\ WF_vars(ReadLoop) /\ WF_vars(Session) /\ WF_vars(SweepFinish)

-----------------------------------------------------------------------------
(* What holds of the relay.                                                *)

Early == {"new", "open", "head"}

\* The handler has sent its CLOSE.
Later == {"wait", "finish", "drain", "done"}

\* What the handler has sent to the service: the head, and what it relayed.
Relayed(x) ==
    (IF handler[x] \in Early THEN 0 ELSE 1) + (Chunks - client[x].left)

\* The OPEN is not out yet, or on its way.
Waiting(x) ==
    \/ handler[x] \in {"new", "open"}
    \/ \E i \in 1 .. Len(down) : down[i].type = "OPEN" /\ down[i].stream = x

\* What either end sees of a stream.
Requests ==
    [x \in Streams |->
        [sent |-> Relayed(x), got |-> service[x].got,
         shut |-> handler[x] \in Later,
         end |-> IF writer[x] = "shut" THEN "eof" ELSE "open"]]

Responses ==
    [x \in Streams |->
        [sent |-> service[x].sent, got |-> client[x].got,
         shut |-> service[x].state \in {"closed", "reset"},
         end |-> IF pump[x] = "eof" THEN "eof"
                 ELSE IF Ended(x) THEN "cut" ELSE "open"]]

Fates ==
    [x \in Streams |->
        IF service[x].state # "none" THEN "reached"
        ELSE IF Waiting(x) THEN "waiting" ELSE "refused"]

Gone == {x \in Streams : client[x].gone}

Torn == IF broken THEN Streams ELSE swept

Resets == {x \in Streams : service[x].state = "reset"}

R == INSTANCE Relay WITH request <- Requests, response <- Responses,
                         fate <- Fates, away <- Gone, torn <- Torn,
                         reset <- Resets

\* To either end a stream is a connection of its own: the frames, the queues
\* and the pumps of both sides implement Relay.
ImplementsRelay == R!Spec

\* A response that ends with the service's CLOSE has arrived whole, unless the
\* service reset the connection: "a fast CLOSE frame can never cut off buffered
\* response bytes" (agent_io.go:74).
CleanEndIsWhole ==
    \A x \in Streams :
        pump[x] = "eof" /\ service[x].state # "reset" =>
            client[x].got = service[x].sent

\* The service sees the end of the request only after all of it, however far
\* the proxy's CLOSE ran ahead of the local writes.
RequestBeforeFin ==
    \A x \in Streams :
        /\ writer[x] = "shut" /\ service[x].state = "open" /\ x \notin swept /\ ~broken
        => handler[x] \in Later /\ service[x].got = Relayed(x)

\* A stream the proxy is done with does not use up a slot of the agent: the
\* handles go with the proxy's CLOSE, whoever ended the stream.
SlotsReturned ==
    \A x \in Streams :
        /\ handler[x] = "done" /\ ~broken
        /\ \A i \in DOMAIN down : down[i].stream # x
        => x \notin handles

\* Unless the stream was torn down under it, an HTTP client that stays gets an
\* answer, a 502 at least.
Answered ==
    \A x \in Http :
        /\ handler[x] = "done" /\ pump[x] # "cut" /\ ~client[x].gone
        /\ x \notin swept /\ ~closed
        => client[x].got > 0 \/ client[x].got502

\* On a connection that stays up nobody waits for ever to send: the read loop
\* waits for the pumps and for room towards the agent, the agent's session for
\* the local writers, and neither for the other, as the agent's own outbound
\* channel takes everything.
QueuesDrain ==
    \A x \in Streams :
        handler[x] \in {"open", "head", "close"} ~>
            handler[x] \notin {"open", "head", "close"} \/ broken

\* An HTTP exchange is over when the local service has closed.
HttpEndsWithService ==
    \A x \in Http :
        service[x].state \in {"closed", "reset"} ~> handler[x] = "done" \/ broken

\* Whoever finishes a stream, a sweep or the end of the agent, its handler
\* returns in the end, unless the agent is never closed (ReadLoopExits).
FinishedEnds ==
    \A x \in Streams :
        x \in fin ~> handler[x] = "done" \/ (broken /\ ~closed)

\* agent_io.go:31: ReadLoop "exits on socket error or context cancellation, then
\* tears the agent down."
ReadLoopExits == broken ~> closed

=============================================================================
