-------------------------- MODULE EventFeedProofs --------------------------
(***************************************************************************)
(* Publish never meets a closed channel, and a client with nothing on its  *)
(* way to it shows the server's list unless a named gap was met, for any   *)
(* numbers of tunnels, calls and streams and any capacities.               *)
(***************************************************************************)
EXTENDS EventFeed, TLAPS

Frame == [kind : {"snapshot", "list", "stats"}, list : Lists]

Stream == [handler : {"free", "open", "snapped", "loop", "left"},
           alive : BOOLEAN, open : BOOLEAN,
           buffer : Seq(Frame), wire : Seq(Frame)]

Request == [pc : {"free", "sent", "done", "read"}, mine : BOOLEAN,
            kind : Kinds, tunnel : Tunnels, list : Lists, ver : Nat,
            sound : BOOLEAN, due : {"none", "ok", "err"}]

\* What the handlers hand to each other has its shape.
Shape ==
    /\ truth \in [Tunnels -> {"new", "on", "off", "gone"}]
    /\ req \in [Requests -> Request]
    /\ conn \in [Conns -> Stream]
    /\ subs \subseteq Conns
    /\ version \in Nat

FeedInv == Shape /\ PublishSafe

-----------------------------------------------------------------------------
(* The parts of a step.                                                    *)

LEMMA ListedShape ==
    ASSUME Shape
    PROVE  Listed \in Lists
BY DEF Shape, Listed, Lists

LEMMA MisreadShape ==
    ASSUME NEW list \in Misreadings
    PROVE  list \in Lists
BY DEF Misreadings

LEMMA EmptyShape == Empty \in Lists
BY DEF Empty, Lists

LEMMA NoRequestShape == NoRequest \in Request
<1>1. SomeTunnel \in Tunnels
  BY FeedAssumption DEF SomeTunnel, FeedAssumption
<1> QED
  BY <1>1, EmptyShape DEF NoRequest, Request, Kinds

LEMMA NoStreamShape == NoStream \in Stream
BY DEF NoStream, Stream

LEMMA ReturnedShape ==
    ASSUME NEW q \in Request
    PROVE  Returned(q) \in Request
BY NoRequestShape, EmptyShape DEF Returned, Request

LEMMA AnsweredShape ==
    ASSUME Shape, NEW r \in Requests, NEW how \in {"ok", "err"}
    PROVE  Answered(r, how) \in Request
<1>1. req[r] \in Request
  BY DEF Shape
<1>2. [req[r] EXCEPT !.due = how] \in Request
  BY <1>1 DEF Request
<1> QED
  BY <1>1, <1>2 DEF Answered

\* A publish adds to channels and ends none.
LEMMA DeliverKeeps ==
    ASSUME FeedInv, NEW frame \in Frame, Deliver(frame), subs' = subs
    PROVE  conn' \in [Conns -> Stream] /\ PublishSafe'
<1>1. conn' \in [Conns -> Stream]
  <2>1. \A c \in Conns :
            [conn[c] EXCEPT !.buffer = Append(@, frame)] \in Stream
    <3> SUFFICES ASSUME NEW c \in Conns
                 PROVE  [conn[c] EXCEPT !.buffer = Append(@, frame)] \in Stream
      OBVIOUS
    <3>1. conn[c] \in Stream
      BY DEF FeedInv, Shape
    <3>2. Append(conn[c].buffer, frame) \in Seq(Frame)
      BY <3>1 DEF Stream
    <3> QED
      BY <3>1, <3>2 DEF Stream
  <2> QED
    BY <2>1 DEF FeedInv, Shape, Deliver
<1>2. \A c \in Conns : /\ conn'[c].open = conn[c].open
                       /\ conn'[c].handler = conn[c].handler
  BY DEF FeedInv, Shape, Deliver, Stream
<1> QED
  BY <1>1, <1>2 DEF FeedInv, Shape, PublishSafe

-----------------------------------------------------------------------------
(* One step per action.                                                    *)

\* The calls leave the streams alone until they publish.
LEMMA CallsKeep ==
    ASSUME FeedInv, NEW r \in Requests,
           Call(r) \/ Notify(r) \/ Change(r) \/ Refuse(r) \/ ReadList(r)
             \/ ReadFails(r) \/ ReadAnswer(r)
    PROVE  FeedInv'
<1> USE DEF FeedInv
<1>1. conn' = conn /\ subs' = subs
  BY DEF Call, Notify, Change, Refuse, ReadList, ReadFails, ReadAnswer, history
<1>2. PublishSafe' /\ conn' \in [Conns -> Stream] /\ subs' \subseteq Conns
  BY <1>1 DEF PublishSafe, Shape
<1>3. CASE Call(r)
  <2>1. PICK t \in Tunnels, kind \in Kinds, mine \in BOOLEAN :
            req' = [req EXCEPT ![r].pc = "sent", ![r].tunnel = t,
                               ![r].kind = kind, ![r].mine = mine]
    BY <1>3 DEF Call
  <2>2. req[r] \in Request
    BY DEF Shape
  <2>3. [[[[req[r] EXCEPT !.pc = "sent"] EXCEPT !.tunnel = t]
            EXCEPT !.kind = kind] EXCEPT !.mine = mine] \in Request
    BY <2>2 DEF Request
  <2>4. req' \in [Requests -> Request]
    BY <2>1, <2>3 DEF Shape
  <2> QED
    BY <1>2, <1>3, <2>4 DEF Call, Shape, history
<1>4. CASE Change(r)
  <2>1. \A was : Outcome(req[r].kind, was) \in {"on", "off", "gone"}
    BY DEF Shape, Request, Kinds, Outcome
  <2>2. truth' \in [Tunnels -> {"new", "on", "off", "gone"}]
    BY <1>4, <2>1 DEF Change, Shape
  <2>3. req' \in [Requests -> Request]
    <3> DEFINE kept == IF req[r].mine THEN req[r].kind ELSE NoRequest.kind
    <3>1. req[r] \in Request /\ NoRequest \in Request
      BY NoRequestShape DEF Shape
    <3>2. kept \in Kinds
      BY <3>1 DEF Request
    <3> HIDE DEF kept
    <3>3. [[req[r] EXCEPT !.pc = "done"] EXCEPT !.kind = kept] \in Request
      BY <3>1, <3>2 DEF Request
    <3>4. req' = [req EXCEPT ![r] =
                    [[req[r] EXCEPT !.pc = "done"] EXCEPT !.kind = kept]]
      BY <1>4 DEF Change, kept, Shape
    <3> QED
      BY <3>3, <3>4 DEF Shape
  <2> QED
    BY <1>2, <1>4, <2>2, <2>3 DEF Change, Shape
<1>5. CASE Refuse(r)
  <2>1. req' \in [Requests -> Request]
    BY <1>5, AnsweredShape, ReturnedShape DEF Refuse, Shape
  <2> QED
    BY <1>2, <1>5, <2>1 DEF Refuse, Shape, history
<1>6. CASE ReadList(r)
  <2>1. Answered(r, "ok") \in Request
    BY AnsweredShape
  <2>2. PICK list \in Lists, sound \in BOOLEAN : Read(r, list, sound)
    BY <1>6, ListedShape, MisreadShape DEF ReadList
  <2>3. req' \in [Requests -> Request]
    BY <2>1, <2>2 DEF Read, Shape, Request
  <2> QED
    BY <1>2, <1>6, <2>3 DEF ReadList, Shape, history
<1>7. CASE ReadFails(r)
  <2>1. req' \in [Requests -> Request]
    BY <1>7, AnsweredShape, ReturnedShape DEF ReadFails, Shape
  <2> QED
    BY <1>2, <1>7, <2>1 DEF ReadFails, Shape
<1>8. CASE ReadAnswer(r)
  <2>1. req' \in [Requests -> Request]
    BY <1>8, NoRequestShape DEF ReadAnswer, Shape, Request
  <2> QED
    BY <1>2, <1>8, <2>1 DEF ReadAnswer, Shape
<1>9. CASE Notify(r)
  <2>1. req' \in [Requests -> Request]
    BY <1>9 DEF Notify, Shape, Request
  <2> QED
    BY <1>2, <1>9, <2>1 DEF Notify, Shape, history
<1> QED
  BY <1>3, <1>4, <1>5, <1>6, <1>7, <1>8, <1>9

LEMMA LapseKeeps ==
    ASSUME FeedInv, NEW t \in Tunnels, Lapse(t)
    PROVE  FeedInv'
BY DEF FeedInv, Lapse, Shape, PublishSafe

LEMMA PublishKeeps ==
    ASSUME FeedInv, NEW r \in Requests, PublishList(r)
    PROVE  FeedInv'
<1>1. ListFrame(req[r].list) \in Frame
  BY DEF FeedInv, Shape, Request, ListFrame, Frame
<1>2. conn' \in [Conns -> Stream] /\ PublishSafe'
  BY <1>1, DeliverKeeps DEF PublishList
<1>3. req' \in [Requests -> Request]
  BY ReturnedShape DEF PublishList, FeedInv, Shape
<1> QED
  BY <1>2, <1>3 DEF FeedInv, Shape, PublishList

LEMMA StatsKeeps ==
    ASSUME FeedInv, Stats
    PROVE  FeedInv'
<1>1. StatsFrame \in Frame
  BY EmptyShape DEF StatsFrame, Frame
<1>2. conn' \in [Conns -> Stream] /\ PublishSafe'
  BY <1>1, DeliverKeeps DEF Stats
<1> QED
  BY <1>2 DEF FeedInv, Shape, Stats, history

\* A stream that is not subscribed changes, or one that is keeps its channel.
LEMMA HandlerKeeps ==
    ASSUME FeedInv, NEW c \in Conns, Handle(c)
    PROVE  FeedInv'
<1> USE DEF FeedInv
<1>1. CASE Snapshot(c)
  <2>1. \A list \in Lists : SnapshotFrame(list) \in Frame
    BY DEF SnapshotFrame, Frame
  <2>2. conn' \in [Conns -> Stream]
    <3>1. conn[c] \in Stream
      BY DEF Shape
    <3>2. /\ \A frame \in Frame :
                [[conn[c] EXCEPT !.handler = "snapped"] EXCEPT !.wire = <<frame>>]
                    \in Stream
          /\ [conn[c] EXCEPT !.handler = "snapped"] \in Stream
      <4>1. \A frame \in Frame : <<frame>> \in Seq(Frame)
        OBVIOUS
      <4> QED
        BY <3>1, <4>1 DEF Stream
    <3>3. \/ \E frame \in Frame :
                conn' = [conn EXCEPT ![c] =
                           [[conn[c] EXCEPT !.handler = "snapped"]
                                        EXCEPT !.wire = <<frame>>]]
          \/ conn' = [conn EXCEPT ![c] = [conn[c] EXCEPT !.handler = "snapped"]]
          \/ conn' = [conn EXCEPT ![c] = NoStream]
      BY <1>1, <2>1, ListedShape, MisreadShape DEF Snapshot, Shape
    <3> QED
      BY <3>2, <3>3, NoStreamShape DEF Shape
  <2>3. c \notin subs
    BY <1>1 DEF Snapshot, PublishSafe
  <2>4. \A d \in Conns \ {c} : conn'[d] = conn[d]
    BY <1>1 DEF Snapshot, Shape
  <2> QED
    BY <1>1, <2>2, <2>3, <2>4 DEF Snapshot, Shape, PublishSafe
<1>2. CASE Subscribe(c)
  <2>1. conn' \in [Conns -> Stream]
    BY <1>2 DEF Subscribe, Shape, Stream
  <2>2. conn'[c].open /\ conn'[c].handler = "loop"
    BY <1>2 DEF Subscribe, Shape, Stream
  <2>3. \A d \in Conns \ {c} : conn'[d] = conn[d]
    BY <1>2 DEF Subscribe, Shape
  <2> QED
    BY <1>2, <2>1, <2>2, <2>3 DEF Subscribe, Shape, PublishSafe, history
<1>3. CASE Forward(c)
  <2>1. Head(conn[c].buffer) \in Frame /\ Tail(conn[c].buffer) \in Seq(Frame)
    BY <1>3 DEF Forward, Shape, Stream
  <2>2. conn' \in [Conns -> Stream]
    BY <1>3, <2>1 DEF Forward, Shape, Stream
  <2>3. \A d \in Conns : /\ conn'[d].open = conn[d].open
                         /\ conn'[d].handler = conn[d].handler
    BY <1>3 DEF Forward, Shape, Stream
  <2> QED
    BY <1>3, <2>2, <2>3 DEF Forward, Shape, PublishSafe, history
<1>4. CASE HandlerEnds(c)
  <2>1. conn' \in [Conns -> Stream]
    BY <1>4 DEF HandlerEnds, Leave, Shape, Stream
  <2>2. \A d \in Conns \ {c} : conn'[d] = conn[d]
    BY <1>4 DEF HandlerEnds, Leave, Shape
  <2> QED
    BY <1>4, <2>1, <2>2 DEF HandlerEnds, Leave, Shape, PublishSafe, history
<1>5. CASE CloseChannel(c)
  <2>1. conn' \in [Conns -> Stream]
    BY <1>5, NoStreamShape DEF CloseChannel, Shape, Stream
  <2>2. \A d \in Conns \ {c} : conn'[d] = conn[d]
    BY <1>5 DEF CloseChannel, Shape
  <2> QED
    BY <1>5, <2>1, <2>2 DEF CloseChannel, Shape, PublishSafe, history
<1> QED
  BY <1>1, <1>2, <1>3, <1>4, <1>5 DEF Handle

LEMMA ClientKeeps ==
    ASSUME FeedInv, NEW c \in Conns,
           Connect(c) \/ Receive(c) \/ Lose(c) \/ Break(c)
    PROVE  FeedInv'
<1> USE DEF FeedInv
<1>1. CASE Connect(c)
  <2>1. conn' \in [Conns -> Stream]
    BY <1>1 DEF Connect, Shape, Stream
  <2>2. c \notin subs
    BY <1>1 DEF Connect, FirstFree, NoStream, PublishSafe
  <2>3. \A d \in Conns \ {c} : conn'[d] = conn[d]
    BY <1>1 DEF Connect, Shape
  <2> QED
    BY <1>1, <2>1, <2>2, <2>3 DEF Connect, Shape, PublishSafe
<1>2. CASE Receive(c) \/ Lose(c) \/ Break(c)
  <2>1. conn[c] \in Stream
    BY DEF Shape
  <2>2. PICK w \in Seq(Frame), b \in BOOLEAN :
            conn' = [conn EXCEPT ![c] = [[conn[c] EXCEPT !.wire = w]
                                           EXCEPT !.alive = b]]
    <3>1. CASE Receive(c)
      <4>1. Tail(conn[c].wire) \in Seq(Frame)
        BY <2>1, <3>1 DEF Receive, Stream
      <4>2. [[conn[c] EXCEPT !.wire = Tail(@)] EXCEPT !.alive = conn[c].alive]
              = [conn[c] EXCEPT !.wire = Tail(@)]
        BY <2>1 DEF Stream
      <4> QED
        BY <2>1, <3>1, <4>1, <4>2 DEF Receive, Stream
    <3>2. CASE Lose(c)
      <4>1. [[conn[c] EXCEPT !.wire = <<>>] EXCEPT !.alive = conn[c].alive]
              = [conn[c] EXCEPT !.wire = <<>>]
        BY <2>1 DEF Stream
      <4> QED
        <5>1. <<>> \in Seq(Frame) /\ conn[c].alive \in BOOLEAN
          BY <2>1 DEF Stream
        <5> QED
          BY <3>2, <4>1, <5>1 DEF Lose
    <3>3. CASE Break(c)
      <4>1. [[conn[c] EXCEPT !.wire = conn[c].wire]
                EXCEPT !.alive = FALSE]
              = [conn[c] EXCEPT !.alive = FALSE]
        BY <2>1 DEF Stream
      <4> QED
        BY <2>1, <3>3, <4>1 DEF Break, Stream
    <3> QED
      BY <1>2, <3>1, <3>2, <3>3
  <2>3. conn' \in [Conns -> Stream]
    BY <2>1, <2>2 DEF Shape, Stream
  <2>4. \A d \in Conns : /\ conn'[d].open = conn[d].open
                         /\ conn'[d].handler = conn[d].handler
    BY <2>1, <2>2 DEF Shape, Stream
  <2>5. UNCHANGED <<truth, req, subs, version>>
    BY <1>2 DEF Receive, Lose, Break, history
  <2> QED
    BY <2>3, <2>4, <2>5 DEF Shape, PublishSafe
<1> QED
  BY <1>1, <1>2

LEMMA RestartKeeps ==
    ASSUME FeedInv, Restart
    PROVE  FeedInv'
<1> USE DEF FeedInv
<1>1. conn' \in [Conns -> Stream]
  BY NoStreamShape DEF Restart, Shape, Stream
<1>2. req' \in [Requests -> Request]
  BY AnsweredShape, ReturnedShape DEF Restart, Shape
<1> QED
  BY <1>1, <1>2 DEF Restart, Shape, PublishSafe, history

-----------------------------------------------------------------------------
LEMMA FeedInitially == Init => FeedInv
<1> SUFFICES ASSUME Init PROVE FeedInv
  OBVIOUS
<1> QED
  BY NoRequestShape, NoStreamShape DEF Init, FeedInv, Shape, PublishSafe

LEMMA FeedInductive == FeedInv /\ [Next]_vars => FeedInv'
<1> SUFFICES ASSUME FeedInv, [Next]_vars PROVE FeedInv'
  OBVIOUS
<1>1. CASE \E r \in Requests : Call(r) \/ Notify(r) \/ Serve(r) \/ ReadAnswer(r)
  BY <1>1, CallsKeep, PublishKeeps DEF Serve
<1>2. CASE \E c \in Conns : Handle(c) \/ Connect(c) \/ Receive(c) \/ Lose(c)
                              \/ Break(c)
  BY <1>2, HandlerKeeps, ClientKeeps
<1>3. CASE Stats
  BY <1>3, StatsKeeps
<1>4. CASE Suspend
  BY <1>4 DEF Suspend, FeedInv, Shape, PublishSafe, history
<1>5. CASE Restart
  BY <1>5, RestartKeeps
<1>6. CASE UNCHANGED vars
  BY <1>6 DEF vars, history, FeedInv, Shape, PublishSafe
<1>7. CASE \E t \in Tunnels : Lapse(t)
  BY <1>7, LapseKeeps
<1> QED
  BY <1>1, <1>2, <1>3, <1>4, <1>5, <1>6, <1>7 DEF Next

\* Whatever streams, clients and handlers do, Publish sends on open channels
\* only: the broker's map never holds one that is closed (broker.go:34-48).
THEOREM PublishAlwaysSafe == Spec => []PublishSafe
<1>1. FeedInv => PublishSafe
  BY DEF FeedInv
<1> QED
  BY <1>1, FeedInitially, FeedInductive, PTL DEF Spec

-----------------------------------------------------------------------------
(* What the client shows.  On its way to the client is what the channel    *)
(* and the wire of its stream hold; the last list among it is the one that *)
(* will be shown.  UpToDate holds because that list is the server's as     *)
(* soon as the stream was given the newest version, and because a version  *)
(* it was not given yet is still to be published by some call.             *)

\* The last list in s, if there is one, is this one.
Final(s, list) ==
    \A i \in 1 .. Len(s) :
        /\ Shows(s[i])
        /\ \A j \in (i + 1) .. Len(s) : ~Shows(s[j])
        => s[i].list = list

Blank(s) == \A i \in 1 .. Len(s) : ~Shows(s[i])

On == Streaming({"snapped", "loop"})

View ==
    /\ client \in Conns \cup {NoConn}
    /\ shown \in Lists
    /\ last \in Nat /\ last <= version

\* No other stream than the client's is up; it starts empty.
OneStream ==
    \A c \in Conns : /\ conn[c].alive => client = c
                     /\ conn[c].handler = "open" => conn[c].buffer = <<>>

\* A list that was well read at the newest version is the server's.
Reads ==
    \A r \in Requests : req[r].pc = "read" =>
        /\ req[r].ver <= version
        /\ req[r].ver = version /\ req[r].sound => req[r].list = Listed

\* The answers the client has to act on.
Dues ==
    \A r \in Requests :
        /\ req[r].due # "none" => req[r].pc \in {"free", "read"} /\ req[r].mine
        /\ req[r].due = "err" => /\ req[r].pc = "free"
                                 /\ req[r].kind \in {"on", "off"}
        /\ req[r].due = "ok" => req[r].kind = "create"
        /\ req[r].pc \in {"sent", "done"} /\ req[r].mine
               => req[r].kind # "delete"

Pending(r) ==
    req[r].pc = "done" \/ (req[r].pc = "read" /\ req[r].ver = version)

\* What the stream was not given is still to come.
Queued ==
    On /\ gap = {} /\ last # version => \E r \in Requests : Pending(r)

\* A toggle of the client that has no answer yet made t what it shows.
Owed(r, t) ==
    /\ req[r].mine /\ req[r].tunnel = t /\ req[r].kind = shown[t]
    /\ req[r].pc = "sent" \/ req[r].due = "err"

Settled ==
    \A t \in Tunnels : shown[t] = Listed[t] \/ \E r \in Requests : Owed(r, t)

\* What the stream was given last is what the client will show.
Matches ==
    On /\ gap = {} /\ last = version =>
        /\ Final(conn[client].buffer, Listed)
        /\ Blank(conn[client].buffer) => Final(conn[client].wire, Listed)
        /\ Blank(conn[client].buffer) /\ Blank(conn[client].wire) /\ ~ghost
               => Settled

Up == View /\ OneStream /\ Reads /\ Dues /\ Queued /\ Matches

UpInv == FeedInv /\ Up

LEMMA FinalAppended ==
    ASSUME NEW s \in Seq(Frame), NEW e \in Frame, NEW list
    PROVE  /\ Shows(e) => /\ ~Blank(Append(s, e))
                          /\ e.list = list => Final(Append(s, e), list)
           /\ ~Shows(e) => /\ Final(s, list) => Final(Append(s, e), list)
                           /\ Blank(s) <=> Blank(Append(s, e))
<1> DEFINE z == Append(s, e)
<1>1. /\ z \in Seq(Frame) /\ Len(z) = Len(s) + 1 /\ z[Len(s) + 1] = e
      /\ \A i \in 1 .. Len(s) : z[i] = s[i]
      /\ Len(s) \in Nat
  OBVIOUS
<1> HIDE DEF z
<1>2. ASSUME Shows(e) PROVE ~Blank(z)
  BY <1>1, <1>2 DEF Blank
<1>3. ASSUME Shows(e), e.list = list PROVE Final(z, list)
  <2> SUFFICES ASSUME NEW i \in 1 .. Len(z), Shows(z[i]),
                      \A j \in (i + 1) .. Len(z) : ~Shows(z[j])
               PROVE  z[i].list = list
    BY DEF Final
  <2>1. i = Len(z)
    BY <1>1, <1>3
  <2> QED
    BY <1>1, <1>3, <2>1
<1>4. ASSUME ~Shows(e), Final(s, list) PROVE Final(z, list)
  <2> SUFFICES ASSUME NEW i \in 1 .. Len(z), Shows(z[i]),
                      \A j \in (i + 1) .. Len(z) : ~Shows(z[j])
               PROVE  z[i].list = list
    BY DEF Final
  <2>1. i \in 1 .. Len(s) /\ z[i] = s[i]
    BY <1>1, <1>4
  <2>2. \A j \in (i + 1) .. Len(s) : ~Shows(s[j])
    BY <1>1
  <2> QED
    BY <1>4, <2>1, <2>2 DEF Final
<1>5. ASSUME ~Shows(e) PROVE Blank(s) <=> Blank(z)
  BY <1>1, <1>5 DEF Blank
<1> QED
  BY <1>2, <1>3, <1>4, <1>5 DEF z

LEMMA FinalTaken ==
    ASSUME NEW s \in Seq(Frame), s # <<>>, NEW list, Final(s, list)
    PROVE  /\ Final(Tail(s), list)
           /\ Blank(Tail(s)) /\ Shows(Head(s)) => Head(s).list = list
           /\ ~Shows(Head(s)) => (Blank(s) <=> Blank(Tail(s)))
           /\ Blank(s) => Blank(Tail(s))
           /\ Shows(Head(s)) => ~Blank(s)
<1> DEFINE z == Tail(s)
<1>1. /\ Len(s) \in Nat /\ Len(s) >= 1 /\ Len(z) = Len(s) - 1
      /\ \A i \in 1 .. Len(z) : z[i] = s[i + 1]
      /\ Head(s) = s[1]
  OBVIOUS
<1> HIDE DEF z
<1>2. Final(z, list)
  <2> SUFFICES ASSUME NEW i \in 1 .. Len(z), Shows(z[i]),
                      \A j \in (i + 1) .. Len(z) : ~Shows(z[j])
               PROVE  z[i].list = list
    BY DEF Final
  <2>1. i + 1 \in 1 .. Len(s) /\ z[i] = s[i + 1]
    BY <1>1
  <2>2. ASSUME NEW j \in (i + 2) .. Len(s) PROVE ~Shows(s[j])
    <3>1. j - 1 \in (i + 1) .. Len(z) /\ j - 1 \in 1 .. Len(z)
      BY <1>1
    <3>2. z[j - 1] = s[j - 1 + 1] /\ j - 1 + 1 = j
      BY <1>1, <3>1
    <3> QED
      BY <3>1, <3>2
  <2> QED
    BY <2>1, <2>2 DEF Final
<1>3. ASSUME NEW i \in 2 .. Len(s) PROVE i - 1 \in 1 .. Len(z) /\ s[i] = z[i - 1]
  <2>1. i - 1 \in 1 .. Len(z) /\ i - 1 + 1 = i
    BY <1>1
  <2> QED
    BY <1>1, <2>1
<1>4. ASSUME Blank(z), Shows(s[1]) PROVE s[1].list = list
  BY <1>1, <1>3, <1>4 DEF Final, Blank
<1>5. ASSUME ~Shows(s[1]) PROVE Blank(s) <=> Blank(z)
  <2>1. \A i \in 1 .. Len(s) : i = 1 \/ i \in 2 .. Len(s)
    BY <1>1
  <2>2. \A i \in 1 .. Len(z) : i + 1 \in 1 .. Len(s)
    BY <1>1
  <2> QED
    BY <1>1, <1>3, <1>5, <2>1, <2>2 DEF Blank
<1>6. Shows(s[1]) => ~Blank(s)
  BY <1>1 DEF Blank
<1>7. Blank(s) => Blank(z)
  BY <1>5, <1>6
<1> QED
  BY <1>1, <1>2, <1>4, <1>5, <1>6, <1>7 DEF z

-----------------------------------------------------------------------------
(* The calls.                                                              *)

LEMMA ListedSame == ASSUME UNCHANGED truth PROVE Listed' = Listed
BY DEF Listed

\* A step that leaves the streams alone leaves what is on its way alone.
LEMMA WaySame ==
    ASSUME UNCHANGED <<conn, client>>
    PROVE  /\ On' = On
           /\ OneStream => OneStream'
           /\ conn[client]' = conn[client]
BY DEF On, Streaming, OneStream

LEMMA CallUp ==
    ASSUME UpInv, NEW r \in Requests, Call(r)
    PROVE  Up'
<1> USE DEF UpInv, Up, FeedInv
<1>1. /\ UNCHANGED <<truth, conn, client, version, last, gap, ghost>>
      /\ req[r] = NoRequest
  BY DEF Call, history
<1>2. Listed' = Listed /\ On' = On /\ OneStream' /\ conn[client]' = conn[client]
  BY <1>1, ListedSame, WaySame
<1>3. PICK t \in Tunnels, kind \in Kinds, mine \in BOOLEAN :
        /\ MayCall(kind, t, IF mine THEN shown ELSE Listed)
        /\ mine => ~asleep /\ kind # "delete"
        /\ req' = [req EXCEPT ![r].pc = "sent", ![r].tunnel = t,
                              ![r].kind = kind, ![r].mine = mine]
        /\ shown' = IF mine /\ kind \in {"on", "off"}
                    THEN [shown EXCEPT ![t] = kind] ELSE shown
  BY DEF Call
<1>4. /\ req'[r].pc = "sent" /\ req'[r].due = "none" /\ req'[r].tunnel = t
      /\ req'[r].kind = kind /\ req'[r].mine = mine
      /\ \A q \in Requests \ {r} : req'[q] = req[q]
  <2>1. req' = [req EXCEPT ![r] =
                  [[[[NoRequest EXCEPT !.pc = "sent"] EXCEPT !.tunnel = t]
                      EXCEPT !.kind = kind] EXCEPT !.mine = mine]]
    BY <1>1, <1>3 DEF Shape
  <2> QED
    BY <2>1 DEF Shape, NoRequest
<1>5. View'
  BY <1>1, <1>3 DEF View, Lists
<1>6. Reads' /\ Dues'
  <2>1. mine => kind # "delete"
    BY <1>3, Zenon
  <2>2. /\ req'[r].mine => req'[r].kind # "delete"
        /\ req'[r].pc = "sent" /\ req'[r].due = "none"
    BY <1>4, <2>1
  <2>3. Reads'
    BY <1>1, <1>2, <1>4 DEF Reads
  <2> QED
    BY <1>4, <2>2, <2>3 DEF Dues
<1>7. Queued'
  <2>1. \A q \in Requests : Pending(q) => Pending(q)'
    BY <1>1, <1>4 DEF Pending, NoRequest
  <2> QED
    BY <1>1, <1>2, <2>1 DEF Queued
<1>8. ASSUME Settled PROVE Settled'
  <2> SUFFICES ASSUME NEW u \in Tunnels
               PROVE  shown'[u] = Listed[u] \/ \E q \in Requests : Owed(q, u)'
    BY <1>2 DEF Settled
  <2>1. CASE shown'[u] = shown[u]
    <3>1. \A q \in Requests : Owed(q, u) => q # r
      BY <1>1 DEF Owed, NoRequest
    <3>2. \A q \in Requests \ {r} : Owed(q, u) => Owed(q, u)'
      BY <1>4, <2>1 DEF Owed
    <3> QED
      BY <1>8, <2>1, <3>1, <3>2 DEF Settled
  <2>2. CASE shown'[u] # shown[u]
    <3>1. u = t /\ mine /\ shown'[u] = kind
      BY <1>3, <2>2 DEF View, Lists
    <3>2. Owed(r, u)'
      BY <1>4, <3>1 DEF Owed
    <3> QED
      BY <3>2
  <2> QED
    BY <2>1, <2>2
<1>9. Matches'
  BY <1>1, <1>2, <1>8 DEF Matches
<1> QED
  BY <1>2, <1>5, <1>6, <1>7, <1>9

\* The hub has a list published: no row changed.
LEMMA NotifyUp ==
    ASSUME UpInv, NEW r \in Requests, Notify(r)
    PROVE  Up'
<1> USE DEF UpInv, Up, FeedInv
<1>1. /\ UNCHANGED <<truth, conn, client, shown, version, last, gap, ghost>>
      /\ req[r] = NoRequest
      /\ req' = [req EXCEPT ![r] = [NoRequest EXCEPT !.pc = "done"]]
  BY DEF Notify, history, Shape
<1>2. Listed' = Listed /\ On' = On /\ OneStream' /\ conn[client]' = conn[client]
  BY <1>1, ListedSame, WaySame
<1>3. /\ req'[r].pc = "done" /\ req'[r].due = "none" /\ ~req'[r].mine
      /\ \A q \in Requests \ {r} : req'[q] = req[q]
  BY <1>1 DEF Shape, NoRequest
<1>4. View' /\ Reads' /\ Dues'
  BY <1>1, <1>2, <1>3 DEF View, Reads, Dues
<1>5. Queued'
  BY <1>3 DEF Queued, Pending
<1>6. \A q \in Requests, t \in Tunnels : Owed(q, t) => Owed(q, t)'
  BY <1>1, <1>3 DEF Owed, NoRequest
<1>7. Matches'
  BY <1>1, <1>2, <1>6 DEF Matches, Settled
<1> QED
  BY <1>2, <1>4, <1>5, <1>7

\* Time changes the list: the stream of the client has met a gap.
LEMMA LapseUp ==
    ASSUME UpInv, FeedInv', NEW t \in Tunnels, Lapse(t)
    PROVE  Up'
<1> USE DEF UpInv, Up, FeedInv
<1>1. /\ UNCHANGED <<req, conn, client, shown, last, ghost>>
      /\ version' = version + 1
      /\ On => gap' # {}
  BY DEF Lapse, On
<1>2. On' = On /\ OneStream'
  BY <1>1, WaySame
<1>3. View' /\ Reads' /\ Dues'
  BY <1>1 DEF View, Reads, Dues, Shape, Request
<1>4. Queued' /\ Matches'
  BY <1>1, <1>2 DEF Queued, Matches
<1> QED
  BY <1>2, <1>3, <1>4

\* The rows change: what is on its way is old, and its successor is pending.
LEMMA ChangeUp ==
    ASSUME UpInv, FeedInv', NEW r \in Requests, Change(r)
    PROVE  Up'
<1> USE DEF UpInv, Up, FeedInv
<1>1. /\ UNCHANGED <<conn, client, shown, last, gap, ghost>>
      /\ version' = version + 1 /\ req[r].pc = "sent"
  BY DEF Change
<1>2. On' = On /\ OneStream'
  BY <1>1, WaySame
<1>3. /\ req'[r].pc = "done" /\ req'[r].due = req[r].due
      /\ req[r].mine => req'[r].kind = req[r].kind /\ req'[r].mine
      /\ ~req[r].mine => ~req'[r].mine
      /\ \A q \in Requests \ {r} : req'[q] = req[q]
  BY DEF Change, Shape, Request
<1>4. View' /\ last # version'
  BY <1>1 DEF View, Shape
<1>5. Reads'
  BY <1>1, <1>3 DEF Reads, Shape, Request
<1>6. Dues'
  <2>1. req[r].due = "none" /\ (req[r].mine => req[r].kind # "delete")
    BY <1>1 DEF Dues
  <2>2. req[r].mine \in BOOLEAN /\ req'[r].mine \in BOOLEAN
    BY DEF Shape, Request
  <2>3. req'[r].mine => req'[r].kind # "delete"
    BY <1>3, <2>1, <2>2
  <2> QED
    BY <1>3, <2>1, <2>3 DEF Dues
<1>7. Queued'
  BY <1>3 DEF Queued, Pending
<1>8. Matches'
  BY <1>1, <1>4 DEF Matches
<1> QED
  BY <1>2, <1>4, <1>5, <1>6, <1>7, <1>8

\* A call that is refused was not pending; a toggle of the client's remains
\* owed until its answer is read.
LEMMA RefuseUp ==
    ASSUME UpInv, NEW r \in Requests, Refuse(r)
    PROVE  Up'
<1> USE DEF UpInv, Up, FeedInv
<1>1. /\ UNCHANGED <<truth, conn, client, shown, version, last, gap, ghost>>
      /\ req[r].pc = "sent"
      /\ req' = [req EXCEPT ![r] = Returned(Answered(r, "err"))]
  BY DEF Refuse, history
<1>2. Listed' = Listed /\ On' = On /\ OneStream' /\ conn[client]' = conn[client]
  BY <1>1, ListedSame, WaySame
<1>3. req[r] \in Request /\ req[r].due = "none"
  BY <1>1 DEF Shape, Dues
<1>4. /\ req'[r].pc = "free"
      /\ \/ /\ req[r].mine /\ req[r].kind # "create"
            /\ req'[r].due = "err" /\ req'[r].mine
            /\ req'[r].kind = req[r].kind /\ req'[r].tunnel = req[r].tunnel
         \/ /\ ~req[r].mine \/ req[r].kind = "create"
            /\ req'[r].due = "none"
      /\ \A q \in Requests \ {r} : req'[q] = req[q]
  BY <1>1, <1>3 DEF Shape, Request, Returned, Answered, NoRequest
<1>5. View'
  BY <1>1 DEF View
<1>6. Reads'
  BY <1>1, <1>2, <1>4 DEF Reads
<1>7. Queued'
  BY <1>1, <1>2, <1>4 DEF Queued, Pending
<1>8. Dues'
  BY <1>1, <1>3, <1>4 DEF Dues, Request, Kinds
<1>9. \A q \in Requests, t \in Tunnels : Owed(q, t) => Owed(q, t)'
  BY <1>1, <1>3, <1>4 DEF Owed, View, Lists
<1>10. Matches'
  BY <1>1, <1>2, <1>9 DEF Matches, Settled
<1> QED
  BY <1>2, <1>5, <1>6, <1>7, <1>8, <1>10

\* The list of the newest version is read: what was pending still is.
LEMMA ReadListUp ==
    ASSUME UpInv, FeedInv', NEW r \in Requests, ReadList(r)
    PROVE  Up'
<1> USE DEF UpInv, Up, FeedInv
<1>1. /\ UNCHANGED <<truth, conn, client, shown, version, last, gap, ghost>>
      /\ req[r].pc = "done" /\ req[r] \in Request /\ req[r].due = "none"
  BY DEF ReadList, history, Shape, Dues
<1>2. Listed' = Listed /\ On' = On /\ OneStream' /\ conn[client]' = conn[client]
  BY <1>1, ListedSame, WaySame
<1>3. /\ req'[r].pc = "read" /\ req'[r].ver = version
      /\ req'[r].sound => req'[r].list = Listed
      /\ \/ req'[r].due = "none"
         \/ /\ req'[r].due = "ok" /\ req'[r].mine /\ req'[r].kind = "create"
      /\ \A q \in Requests \ {r} : req'[q] = req[q]
  <2> DEFINE a == Answered(r, "ok")
  <2>1. a \in Request /\ (a.due = "none" \/ (a.due = "ok" /\ a.mine /\ a.kind = "create"))
    BY <1>1 DEF Answered, Request
  <2> HIDE DEF a
  <2>2. PICK list \in Lists, sound \in BOOLEAN :
            /\ sound => list = Listed
            /\ req' = [req EXCEPT ![r] = [[[[a EXCEPT !.pc = "read"]
                                                EXCEPT !.list = list]
                                                EXCEPT !.ver = version]
                                                EXCEPT !.sound = sound]]
    BY ListedShape, MisreadShape DEF ReadList, Read, a, Shape
  <2> QED
    BY <2>1, <2>2 DEF Shape, Request
<1>4. View' /\ Reads' /\ Dues'
  BY <1>1, <1>2, <1>3 DEF View, Reads, Dues, Shape
<1>5. Queued'
  BY <1>1, <1>2, <1>3 DEF Queued, Pending
<1>6. \A q \in Requests, t \in Tunnels : Owed(q, t) => Owed(q, t)'
  BY <1>1, <1>3 DEF Owed
<1>7. Matches'
  BY <1>1, <1>2, <1>6 DEF Matches, Settled
<1> QED
  BY <1>2, <1>4, <1>5, <1>7

LEMMA ReadFailsUp ==
    ASSUME UpInv, NEW r \in Requests, ReadFails(r)
    PROVE  Up'
<1> USE DEF UpInv, Up, FeedInv
<1>1. /\ UNCHANGED <<truth, conn, client, shown, version, last, ghost>>
      /\ req[r].pc = "done" /\ req[r] \in Request /\ req[r].due = "none"
      /\ gap' = IF On /\ last < version THEN gap \cup {"unbuilt"} ELSE gap
      /\ req' = [req EXCEPT ![r] = Returned(Answered(r, "ok"))]
  BY DEF ReadFails, Shape, Dues, On
<1>2. Listed' = Listed /\ On' = On /\ OneStream' /\ conn[client]' = conn[client]
  BY <1>1, ListedSame, WaySame
<1>3. /\ req'[r].pc = "free"
      /\ \/ req'[r].due = "none"
         \/ /\ req'[r].due = "ok" /\ req'[r].mine /\ req'[r].kind = "create"
      /\ \A q \in Requests \ {r} : req'[q] = req[q]
  BY <1>1 DEF Shape, Request, Returned, Answered, NoRequest
<1>4. View' /\ Reads' /\ Dues'
  BY <1>1, <1>2, <1>3 DEF View, Reads, Dues, Shape
<1>5. Queued'
  <2>1. On /\ last # version => gap' # {}
    BY <1>1 DEF View, Shape
  <2> QED
    BY <1>1, <1>2, <2>1 DEF Queued
<1>6. \A q \in Requests, t \in Tunnels : Owed(q, t) => Owed(q, t)'
  BY <1>1, <1>3 DEF Owed
<1>7. last = version => gap' = gap
  BY <1>1 DEF View, Shape
<1>8. Matches'
  BY <1>1, <1>2, <1>6, <1>7 DEF Matches, Settled
<1> QED
  BY <1>2, <1>4, <1>5, <1>8

\* An answer: what it makes of an item is the server's or counts as a ghost.
LEMMA ReadAnswerUp ==
    ASSUME UpInv, NEW r \in Requests, ReadAnswer(r)
    PROVE  Up'
<1> USE DEF UpInv, Up, FeedInv
<1> DEFINE t == req[r].tunnel
<1>1. /\ UNCHANGED <<truth, conn, client, version, last, gap>>
      /\ req[r].due # "none" /\ req[r] \in Request
      /\ shown' = [shown EXCEPT ![t] = Optimistic(req[r])]
      /\ ghost' = (ghost \/ (shown'[t] # shown[t] /\ shown'[t] # Listed[t]))
      /\ req' = [req EXCEPT ![r] =
                   IF req[r].pc = "free" THEN NoRequest
                   ELSE [req[r] EXCEPT !.due = "none"]]
  BY DEF ReadAnswer, Shape
<1>2. Listed' = Listed /\ On' = On /\ OneStream' /\ conn[client]' = conn[client]
  BY <1>1, ListedSame, WaySame
<1>3. /\ req'[r].due = "none"
      /\ \/ req'[r].pc = "free" /\ req[r].pc = "free"
         \/ /\ req'[r].pc = req[r].pc /\ req'[r].ver = req[r].ver
            /\ req'[r].list = req[r].list /\ req[r].pc = "read"
      /\ \A q \in Requests \ {r} : req'[q] = req[q]
  BY <1>1 DEF Shape, Request, NoRequest, Dues
<1>4. Optimistic(req[r]) \in {"none", "on", "off"} /\ t \in Tunnels
  BY <1>1 DEF Optimistic, Request, View, Lists
<1>5. View'
  BY <1>1, <1>4 DEF View, Lists
<1>6. Reads' /\ Dues'
  BY <1>1, <1>2, <1>3 DEF Reads, Dues
<1>7. Queued'
  BY <1>1, <1>2, <1>3 DEF Queued, Pending
<1>8. ASSUME Settled, ~ghost' PROVE Settled'
  <2> SUFFICES ASSUME NEW u \in Tunnels
               PROVE  shown'[u] = Listed[u] \/ \E q \in Requests : Owed(q, u)'
    BY <1>2 DEF Settled
  <2>1. \A q \in Requests \ {r} : shown'[u] = shown[u] /\ Owed(q, u)
                                      => Owed(q, u)'
    BY <1>3 DEF Owed
  <2>2. CASE shown'[u] # shown[u]
    <3>1. u = t
      BY <1>1, <2>2 DEF View, Lists
    <3> QED
      BY <1>1, <1>8, <2>2, <3>1
  <2>3. CASE shown'[u] = shown[u] /\ Owed(r, u)
    <3>1. u = t /\ req[r].kind = shown[t] /\ req[r].due = "err"
          /\ req[r].kind \in {"on", "off"}
      BY <1>1, <2>3 DEF Owed, Dues
    <3>2. Optimistic(req[r]) # shown[t]
      BY <3>1 DEF Optimistic
    <3>3. shown'[t] = Optimistic(req[r])
      BY <1>1, <1>4 DEF View, Lists
    <3> QED
      BY <2>3, <3>1, <3>2, <3>3
  <2>4. CASE shown'[u] = shown[u] /\ ~Owed(r, u)
    BY <1>8, <2>1, <2>4 DEF Settled
  <2> QED
    BY <2>2, <2>3, <2>4
<1>9. ~ghost' => ~ghost
  BY <1>1
<1>10. Matches'
  BY <1>1, <1>2, <1>8, <1>9 DEF Matches
<1> QED
  BY <1>2, <1>5, <1>6, <1>7, <1>10

-----------------------------------------------------------------------------
(* Publishing.                                                             *)

\* What Deliver does to the stream of the client.
LEMMA DeliveredToClient ==
    ASSUME UpInv, NEW frame \in Frame, Deliver(frame), On,
           UNCHANGED <<client, subs>>
    PROVE  /\ On' /\ client \in Conns
           /\ conn'[client].wire = conn[client].wire
           /\ conn'[client].buffer =
                 IF Heard THEN Append(conn[client].buffer, frame)
                          ELSE conn[client].buffer
<1> USE DEF UpInv, Up, FeedInv
<1>1. client \in Conns /\ conn[client] \in Stream
  BY DEF On, Streaming, View, Shape
<1>2. Heard <=> client \in subs /\ HasRoom(conn[client])
  BY <1>1 DEF Heard, Streaming, PublishSafe, On
<1>3. conn'[client] = IF Heard
                      THEN [conn[client] EXCEPT !.buffer = Append(@, frame)]
                      ELSE conn[client]
  BY <1>1, <1>2 DEF Deliver
<1> QED
  BY <1>1, <1>3 DEF Stream, On, Streaming

LEMMA DeliverStreams ==
    ASSUME UpInv, NEW frame \in Frame, Deliver(frame), UNCHANGED client
    PROVE  OneStream' /\ (On' => On)
<1> USE DEF UpInv, Up, FeedInv
<1>1. \A c \in Conns : /\ conn'[c].alive = conn[c].alive
                       /\ conn'[c].handler = conn[c].handler
                       /\ c \notin subs => conn'[c] = conn[c]
  BY DEF Deliver, Shape, Stream
<1>2. OneStream'
  BY <1>1 DEF OneStream, PublishSafe
<1>3. On' => On
  BY <1>1 DEF On, Streaming, View
<1> QED
  BY <1>2, <1>3

LEMMA PublishUp ==
    ASSUME UpInv, FeedInv', NEW r \in Requests, PublishList(r)
    PROVE  Up'
<1> USE DEF UpInv, Up, FeedInv
<1> DEFINE ver == req[r].ver
           frame == ListFrame(req[r].list)
<1>1. /\ UNCHANGED <<truth, subs, client, shown, version, ghost>>
      /\ Deliver(frame) /\ frame \in Frame /\ Shows(frame)
      /\ req[r].pc = "read" /\ req[r] \in Request
      /\ req' = [req EXCEPT ![r] = Returned(req[r])]
      /\ gap' = GapAfter(ver, req[r].sound)
      /\ last' = IF Heard /\ ver > last THEN ver ELSE last
  BY DEF PublishList, Shape, Request, ListFrame, Frame, Shows
<1>2. /\ ver \in Nat /\ ver <= version
      /\ ver = version /\ req[r].sound => req[r].list = Listed
  BY <1>1 DEF Reads, Request
<1>3. Listed' = Listed /\ OneStream' /\ (On' => On)
  BY <1>1, ListedSame, DeliverStreams
<1>4. /\ req'[r].pc = "free"
      /\ \/ req'[r].due = "none"
         \/ /\ req'[r].due = req[r].due
            /\ req'[r].mine = req[r].mine /\ req'[r].kind = req[r].kind
      /\ \A q \in Requests \ {r} : req'[q] = req[q]
  BY <1>1 DEF Shape, Request, Returned, NoRequest
<1>5. View'
  BY <1>1, <1>2 DEF View
<1>6. Reads' /\ Dues'
  BY <1>1, <1>3, <1>4 DEF Reads, Dues
<1>7. ASSUME On, gap' = {}
      PROVE  /\ Heard => req[r].sound
             /\ (Heard /\ ver = version) \/ gap = {}
  BY <1>1, <1>7 DEF GapAfter
<1>8. Queued'
  <2> SUFFICES ASSUME On', gap' = {}, last' # version
               PROVE  \E q \in Requests : Pending(q)'
    BY <1>1 DEF Queued
  <2>1. ~(Heard /\ ver = version)
    BY <1>1, <1>2 DEF View
  <2>2. On /\ gap = {}
    BY <1>3, <1>7, <2>1
  <2>3. last # version
    BY <1>1, <1>2 DEF View
  <2>4. ver # version
    <3> SUFFICES ASSUME ver = version PROVE FALSE
      OBVIOUS
    <3>1. ~Heard /\ ver > last
      BY <2>1, <2>3, <1>2 DEF View
    <3>2. Streaming({"loop"}) \/ Streaming({"snapped"})
      BY <2>2 DEF On, Streaming
    <3>3. gap' # {}
      BY <1>1, <3>1, <3>2 DEF GapAfter
    <3> QED
      BY <3>3
  <2>5. PICK q \in Requests : Pending(q)
    BY <2>2, <2>3 DEF Queued
  <2>6. q # r
    BY <1>1, <2>4, <2>5 DEF Pending
  <2> QED
    BY <1>1, <1>4, <2>5, <2>6 DEF Pending
<1>9. Matches'
  <2> SUFFICES ASSUME On', gap' = {}, last' = version
               PROVE  /\ Final(conn'[client].buffer, Listed)
                      /\ Blank(conn'[client].buffer)
                            => Final(conn'[client].wire, Listed)
                      /\ /\ Blank(conn'[client].buffer)
                         /\ Blank(conn'[client].wire) /\ ~ghost
                         => Settled'
    BY <1>1, <1>3 DEF Matches
  <2>1. /\ On /\ client \in Conns
        /\ conn'[client].wire = conn[client].wire
        /\ conn'[client].buffer = IF Heard
                                  THEN Append(conn[client].buffer, frame)
                                  ELSE conn[client].buffer
    BY <1>1, <1>3, DeliveredToClient
  <2>2. conn[client].buffer \in Seq(Frame)
    BY <2>1 DEF Shape, Stream
  <2>3. CASE Heard
    <3>1. ver = version /\ req[r].sound
      <4>0. req[r].sound
        BY <1>7, <2>1, <2>3
      <4> SUFFICES ASSUME ver # version PROVE FALSE
        BY <4>0
      <4>1. ver < last
        BY <1>1, <1>2 DEF View, Shape
      <4>2. gap' = gap \cup {"overtaken"}
        BY <1>1, <2>3, <4>0, <4>1 DEF GapAfter
      <4> QED
        BY <4>2
    <3>2. frame.list = Listed
      BY <1>2, <3>1 DEF ListFrame
    <3> QED
      BY <1>1, <2>1, <2>2, <2>3, <3>2, FinalAppended
  <2>4. CASE ~Heard
    <3>1. gap = {} /\ last = version
      BY <1>1, <1>7, <2>1, <2>4
    <3>2. \A q \in Requests, t \in Tunnels : Owed(q, t) => Owed(q, t)'
      BY <1>1, <1>4 DEF Owed, Dues
    <3>3. Settled => Settled'
      BY <1>1, <1>3, <3>2 DEF Settled
    <3> QED
      BY <2>1, <2>4, <3>1, <3>3 DEF Matches
  <2> QED
    BY <2>3, <2>4
<1> QED
  BY <1>3, <1>5, <1>6, <1>8, <1>9

LEMMA StatsUp ==
    ASSUME UpInv, Stats
    PROVE  Up'
<1> USE DEF UpInv, Up, FeedInv
<1>1. /\ UNCHANGED <<truth, req, subs, client, shown, version, last, gap, ghost>>
      /\ Deliver(StatsFrame) /\ StatsFrame \in Frame /\ ~Shows(StatsFrame)
  BY EmptyShape DEF Stats, history, StatsFrame, Frame, Shows
<1>2. Listed' = Listed /\ OneStream' /\ (On' => On)
  BY <1>1, ListedSame, DeliverStreams
<1>3. View' /\ Reads' /\ Dues' /\ Queued'
  BY <1>1, <1>2 DEF View, Reads, Dues, Queued, Pending
<1>4. Settled => Settled'
  BY <1>1, <1>2 DEF Settled, Owed
<1>5. Matches'
  <2> SUFFICES ASSUME On', gap = {}, last = version
               PROVE  /\ Final(conn'[client].buffer, Listed)
                      /\ Blank(conn'[client].buffer)
                            => Final(conn'[client].wire, Listed)
                      /\ /\ Blank(conn'[client].buffer)
                         /\ Blank(conn'[client].wire) /\ ~ghost
                         => Settled'
    BY <1>1, <1>2 DEF Matches
  <2>1. /\ On /\ client \in Conns
        /\ conn'[client].wire = conn[client].wire
        /\ conn'[client].buffer = IF Heard
                                  THEN Append(conn[client].buffer, StatsFrame)
                                  ELSE conn[client].buffer
    BY <1>1, <1>2, DeliveredToClient
  <2>2. conn[client].buffer \in Seq(Frame)
    BY <2>1 DEF Shape, Stream
  <2>3. /\ Final(conn[client].buffer, Listed)
        /\ Blank(conn[client].buffer) => Final(conn[client].wire, Listed)
        /\ Blank(conn[client].buffer) /\ Blank(conn[client].wire) /\ ~ghost
               => Settled
    BY <2>1 DEF Matches
  <2> QED
    BY <1>1, <1>4, <2>1, <2>2, <2>3, FinalAppended
<1> QED
  BY <1>2, <1>3, <1>5

-----------------------------------------------------------------------------
(* The streams.                                                            *)

\* A stream that is not the client's changes: nothing on its way to it does.
LEMMA OtherStream ==
    ASSUME UpInv, NEW c \in Conns, c # client,
           \A d \in Conns \ {c} : conn'[d] = conn[d],
           conn'[c].alive => conn[c].alive,
           conn'[c].handler = "open" => conn'[c].buffer = <<>>,
           UNCHANGED <<truth, req, client, shown, version, last, gap, ghost>>
    PROVE  Up'
<1> USE DEF UpInv, Up, FeedInv
<1>1. Listed' = Listed
  BY ListedSame
<1>2. client # NoConn => conn'[client] = conn[client]
  BY DEF View
<1>3. On' = On
  BY <1>2 DEF On, Streaming
<1>4. OneStream'
  BY DEF OneStream
<1>5. Queued' /\ View' /\ Reads' /\ Dues'
  BY <1>1, <1>3 DEF Queued, View, Reads, Dues, Pending
<1>6. Settled => Settled'
  BY <1>1 DEF Settled, Owed
<1>7. Matches'
  BY <1>1, <1>2, <1>3, <1>6 DEF Matches, On, Streaming
<1> QED
  BY <1>4, <1>5, <1>7

\* A step after which the client has no list on its way.
LEMMA StreamEnds ==
    ASSUME UpInv, ~On', OneStream', View',
           UNCHANGED <<truth, req, version>>
    PROVE  Up'
<1> USE DEF UpInv, Up, FeedInv
<1>1. Reads' /\ Dues'
  BY ListedSame DEF Reads, Dues
<1>2. Queued' /\ Matches'
  BY DEF Queued, Matches
<1> QED
  BY <1>1, <1>2

LEMMA SnapshotUp ==
    ASSUME UpInv, NEW c \in Conns, Snapshot(c)
    PROVE  Up'
<1> USE DEF UpInv, Up, FeedInv
<1>1. /\ UNCHANGED <<truth, req, subs, client, shown, version, ghost>>
      /\ conn[c].handler = "open" /\ conn[c] \in Stream
      /\ conn[c].buffer = <<>>
      /\ \A d \in Conns \ {c} : conn'[d] = conn[d]
  BY DEF Snapshot, Shape, OneStream
<1>2. Listed' = Listed
  BY <1>1, ListedSame
<1> DEFINE frame == SnapshotFrame(Listed)
<1>3. CASE /\ conn[c].alive
           /\ conn' = [conn EXCEPT ![c].handler = "snapped", ![c].wire = <<frame>>]
           /\ last' = version /\ UNCHANGED gap
  <2>1. client = c
    BY <1>3 DEF OneStream
  <2>2. /\ conn'[c].handler = "snapped" /\ conn'[c].wire = <<frame>>
        /\ conn'[c].buffer = <<>> /\ conn'[c].alive
    BY <1>1, <1>3 DEF Stream, Shape
  <2>3. Shows(frame) /\ frame.list = Listed
    BY DEF Shows, SnapshotFrame
  <2> HIDE DEF frame
  <2>4. Final(<<>>, Listed) /\ Final(<<frame>>, Listed) /\ ~Blank(<<frame>>)
    BY <2>3 DEF Final, Blank
  <2>5. View' /\ Reads' /\ Dues'
    BY <1>1, <1>2, <1>3 DEF View, Reads, Dues, Shape
  <2>6. OneStream'
    BY <1>1, <2>1, <2>2 DEF OneStream
  <2>7. Queued'
    BY <1>1, <1>3 DEF Queued
  <2>8. Matches'
    BY <1>1, <1>2, <2>1, <2>2, <2>4 DEF Matches
  <2> QED
    BY <2>5, <2>6, <2>7, <2>8
<1>4. CASE /\ conn' = [conn EXCEPT ![c].handler = "snapped"]
           /\ gap' = (IF client = c THEN {"unbuilt"} ELSE gap)
           /\ UNCHANGED last
  <2>1. conn'[c] = [conn[c] EXCEPT !.handler = "snapped"]
    BY <1>4 DEF Shape
  <2>2. conn'[c].alive = conn[c].alive /\ conn'[c].handler = "snapped"
    BY <1>1, <2>1 DEF Stream
  <2>3. CASE client # c
    BY <1>1, <1>4, <2>2, <2>3, OtherStream
  <2>4. CASE client = c
    <3>1. View' /\ Reads' /\ Dues'
      BY <1>1, <1>2, <1>4 DEF View, Reads, Dues
    <3>2. OneStream'
      BY <1>1, <2>2 DEF OneStream
    <3>3. Queued' /\ Matches'
      BY <1>4, <2>4 DEF Queued, Matches
    <3> QED
      BY <3>1, <3>2, <3>3
  <2> QED
    BY <2>3, <2>4
<1>5. CASE conn' = [conn EXCEPT ![c] = NoStream] /\ UNCHANGED <<gap, last>>
  <2>1. conn'[c] = NoStream
    BY <1>5 DEF Shape
  <2>2. CASE client # c
    BY <1>1, <1>5, <2>1, <2>2, OtherStream DEF NoStream
  <2>3. CASE client = c
    <3>1. ~On' /\ OneStream' /\ View'
      BY <1>1, <1>5, <2>1, <2>3
      DEF On, Streaming, OneStream, View, NoStream
    <3> QED
      BY <1>1, <3>1, StreamEnds
  <2> QED
    BY <2>2, <2>3
<1>6. CASE /\ conn[c].alive /\ last' = version /\ gap' = {"misread"}
           /\ \E list \in Misreadings :
                conn' = [conn EXCEPT ![c].handler = "snapped",
                                     ![c].wire = <<SnapshotFrame(list)>>]
  <2>1. client = c
    BY <1>6 DEF OneStream
  <2>2. conn'[c].handler = "snapped" /\ conn'[c].alive
    BY <1>1, <1>6 DEF Stream, Shape
  <2>3. View' /\ Reads' /\ Dues'
    BY <1>1, <1>2, <1>6 DEF View, Reads, Dues, Shape
  <2>4. OneStream'
    BY <1>1, <2>1, <2>2 DEF OneStream
  <2>5. Queued' /\ Matches'
    BY <1>6 DEF Queued, Matches
  <2> QED
    BY <2>3, <2>4, <2>5
<1> QED
  BY <1>3, <1>4, <1>5, <1>6 DEF Snapshot, frame

LEMMA SubscribeUp ==
    ASSUME UpInv, NEW c \in Conns, Subscribe(c)
    PROVE  Up'
<1> USE DEF UpInv, Up, FeedInv
<1>1. /\ UNCHANGED <<truth, req, client, shown, version, last, gap, ghost>>
      /\ conn[c].handler = "snapped" /\ conn[c] \in Stream
      /\ conn' = [conn EXCEPT ![c] = [[conn[c] EXCEPT !.handler = "loop"]
                                         EXCEPT !.open = TRUE]]
  BY DEF Subscribe, history, Shape
<1>2. /\ conn'[c].handler = "loop" /\ conn'[c].alive = conn[c].alive
      /\ conn'[c].buffer = conn[c].buffer /\ conn'[c].wire = conn[c].wire
      /\ \A d \in Conns \ {c} : conn'[d] = conn[d]
  BY <1>1 DEF Shape, Stream
<1>3. CASE client # c
  BY <1>1, <1>2, <1>3, OtherStream
<1>4. CASE client = c
  <2>1. Listed' = Listed /\ OneStream' /\ View' /\ Reads' /\ Dues'
    BY <1>1, <1>2, ListedSame DEF OneStream, View, Reads, Dues
  <2>2. On' => On
    BY <1>1, <1>4 DEF On, Streaming
  <2>3. Queued'
    BY <1>1, <2>2 DEF Queued, Pending
  <2>4. Settled => Settled'
    BY <1>1, <2>1 DEF Settled, Owed
  <2>5. Matches'
    BY <1>1, <1>2, <1>4, <2>1, <2>2, <2>4 DEF Matches
  <2> QED
    BY <2>1, <2>3, <2>5
<1> QED
  BY <1>3, <1>4

\* A payload goes from the channel to the wire: the order remains.
LEMMA ForwardUp ==
    ASSUME UpInv, NEW c \in Conns, Forward(c)
    PROVE  Up'
<1> USE DEF UpInv, Up, FeedInv
<1> DEFINE b == conn[c].buffer
           w == conn[c].wire
<1>1. /\ UNCHANGED <<truth, req, client, shown, version, last, gap, ghost>>
      /\ conn[c].handler = "loop" /\ conn[c] \in Stream /\ conn[c].alive
      /\ b # <<>>
      /\ conn' = [conn EXCEPT ![c] = [[conn[c] EXCEPT !.buffer = Tail(b)]
                                 EXCEPT !.wire = Append(w, Head(b))]]
  BY DEF Forward, history, Shape
<1>2. /\ conn'[c].handler = "loop" /\ conn'[c].alive
      /\ conn'[c].buffer = Tail(b) /\ conn'[c].wire = Append(w, Head(b))
      /\ \A d \in Conns \ {c} : conn'[d] = conn[d]
  BY <1>1 DEF Shape, Stream
<1>3. client = c
  BY <1>1 DEF OneStream
<1>4. Listed' = Listed /\ OneStream' /\ View' /\ Reads' /\ Dues'
  BY <1>1, <1>2, <1>3, ListedSame DEF OneStream, View, Reads, Dues
<1>5. On
  BY <1>1, <1>3, FeedAssumption DEF On, Streaming, FeedAssumption
<1>6. Queued'
  BY <1>1, <1>5 DEF Queued, Pending
<1>7. Settled => Settled'
  BY <1>1, <1>4 DEF Settled, Owed
<1>8. b \in Seq(Frame) /\ w \in Seq(Frame) /\ Head(b) \in Frame
  BY <1>1 DEF Stream
<1>9. Matches'
  <2> SUFFICES ASSUME gap = {}, last = version
               PROVE  /\ Final(Tail(b), Listed)
                      /\ Blank(Tail(b)) => Final(Append(w, Head(b)), Listed)
                      /\ /\ Blank(Tail(b)) /\ Blank(Append(w, Head(b)))
                         /\ ~ghost
                         => Settled
    BY <1>1, <1>2, <1>3, <1>4, <1>7 DEF Matches
  <2>1. /\ Final(b, Listed)
        /\ Blank(b) => Final(w, Listed)
        /\ Blank(b) /\ Blank(w) /\ ~ghost => Settled
    BY <1>3, <1>5 DEF Matches
  <2> HIDE DEF b, w
  <2>2. /\ Final(Tail(b), Listed)
        /\ Blank(Tail(b)) /\ Shows(Head(b)) => Head(b).list = Listed
        /\ ~Shows(Head(b)) => (Blank(b) <=> Blank(Tail(b)))
    BY <1>1, <1>8, <2>1, FinalTaken
  <2>3. /\ Shows(Head(b)) => ~Blank(Append(w, Head(b)))
        /\ Shows(Head(b)) /\ Head(b).list = Listed
               => Final(Append(w, Head(b)), Listed)
        /\ ~Shows(Head(b)) =>
               /\ Final(w, Listed) => Final(Append(w, Head(b)), Listed)
               /\ Blank(w) <=> Blank(Append(w, Head(b)))
    BY <1>8, FinalAppended
  <2> QED
    BY <2>1, <2>2, <2>3
<1> QED
  BY <1>4, <1>6, <1>9

\* The end of a handler, in two halves: the client's stream is over with the
\* first.
LEMMA EndsUp ==
    ASSUME UpInv, NEW c \in Conns, HandlerEnds(c) \/ CloseChannel(c)
    PROVE  Up'
<1> USE DEF UpInv, Up, FeedInv
<1>1. /\ UNCHANGED <<truth, req, client, shown, version, last, gap, ghost>>
      /\ \A d \in Conns \ {c} : conn'[d] = conn[d]
      /\ conn[c] \in Stream
  BY DEF HandlerEnds, CloseChannel, Leave, history, Shape
<1>2. /\ conn'[c].alive => conn[c].alive
      /\ conn'[c].handler \in {"left", "free"}
  <2>1. CASE HandlerEnds(c)
    <3>1. conn'[c] = [conn[c] EXCEPT !.handler = "left"]
      BY <2>1 DEF HandlerEnds, Leave, Shape
    <3> QED
      BY <1>1, <3>1 DEF Stream
  <2>2. CASE CloseChannel(c)
    <3>1. conn'[c] = [NoStream EXCEPT !.wire = conn[c].wire]
      BY <2>2 DEF CloseChannel, Shape
    <3> QED
      BY <3>1 DEF NoStream
  <2> QED
    BY <2>1, <2>2
<1>3. CASE client # c
  BY <1>1, <1>2, <1>3, OtherStream
<1>4. CASE client = c
  <2>1. ~On' /\ OneStream' /\ View'
    BY <1>1, <1>2, <1>4 DEF On, Streaming, OneStream, View
  <2> QED
    BY <1>1, <2>1, StreamEnds
<1> QED
  BY <1>3, <1>4

-----------------------------------------------------------------------------
(* The client, and faults.                                                 *)

LEMMA ConnectUp ==
    ASSUME UpInv, NEW c \in Conns, Connect(c)
    PROVE  Up'
<1> USE DEF UpInv, Up, FeedInv
<1>1. /\ UNCHANGED <<truth, req, shown, version>>
      /\ client = NoConn /\ client' = c /\ last' = 0
      /\ conn[c] = NoStream
      /\ \A d \in Conns \ {c} : conn'[d] = conn[d]
      /\ conn' = [conn EXCEPT ![c] = [[conn[c] EXCEPT !.handler = "open"]
                                         EXCEPT !.alive = TRUE]]
  BY DEF Connect, MayConnect, FirstFree, Shape
<1>2. conn'[c].handler = "open" /\ conn'[c].buffer = <<>>
  BY <1>1 DEF Shape, NoStream
<1>3. ~On'
  BY <1>1, <1>2 DEF On, Streaming
<1>4. OneStream'
  BY <1>1, <1>2, FeedAssumption DEF OneStream, FeedAssumption
<1>5. View'
  BY <1>1 DEF View, Shape
<1> QED
  BY <1>1, <1>3, <1>4, <1>5, StreamEnds

LEMMA ReceiveUp ==
    ASSUME UpInv, FeedInv', NEW c \in Conns, Receive(c)
    PROVE  Up'
<1> USE DEF UpInv, Up, FeedInv
<1> DEFINE b == conn[c].buffer
           w == conn[c].wire
<1>1. /\ UNCHANGED <<truth, req, client, version, last, gap>>
      /\ client = c /\ conn[c] \in Stream /\ w # <<>>
      /\ IF Shows(Head(w)) THEN shown' = Head(w).list /\ ghost' = FALSE
                           ELSE UNCHANGED <<shown, ghost>>
      /\ conn' = [conn EXCEPT ![c] = [conn[c] EXCEPT !.wire = Tail(w)]]
  BY DEF Receive, Shape
<1>2. /\ conn'[c].handler = conn[c].handler /\ conn'[c].alive = conn[c].alive
      /\ conn'[c].buffer = b /\ conn'[c].wire = Tail(w)
      /\ \A d \in Conns \ {c} : conn'[d] = conn[d]
  BY <1>1 DEF Shape, Stream
<1>3. w \in Seq(Frame) /\ Head(w) \in Frame
  BY <1>1 DEF Stream
<1>4. View'
  BY <1>1, <1>3 DEF View, Frame
<1>5. Listed' = Listed /\ OneStream' /\ Reads' /\ Dues' /\ On' = On
  BY <1>1, <1>2, ListedSame DEF OneStream, Reads, Dues, On, Streaming
<1>6. Queued'
  BY <1>1, <1>5 DEF Queued, Pending
<1>7. Matches'
  <2> SUFFICES ASSUME On, gap = {}, last = version
               PROVE  /\ Final(b, Listed)
                      /\ Blank(b) => Final(Tail(w), Listed)
                      /\ Blank(b) /\ Blank(Tail(w)) /\ ~ghost' => Settled'
    BY <1>1, <1>2, <1>5 DEF Matches
  <2>1. /\ Final(b, Listed)
        /\ Blank(b) => Final(w, Listed)
        /\ Blank(b) /\ Blank(w) /\ ~ghost => Settled
    BY <1>1 DEF Matches
  <2> HIDE DEF b, w
  <2>2. Final(w, Listed) =>
            /\ Final(Tail(w), Listed)
            /\ Blank(Tail(w)) /\ Shows(Head(w)) => Head(w).list = Listed
            /\ ~Shows(Head(w)) => (Blank(w) <=> Blank(Tail(w)))
    BY <1>1, <1>3, FinalTaken
  <2>3. ASSUME Blank(b), Blank(Tail(w)), ~ghost' PROVE Settled'
    <3>1. CASE Shows(Head(w))
      <4>1. shown' = Listed
        BY <1>1, <2>1, <2>2, <2>3, <3>1
      <4> QED
        BY <1>5, <4>1 DEF Settled
    <3>2. CASE ~Shows(Head(w))
      <4>1. Settled
        BY <1>1, <2>1, <2>2, <2>3, <3>2
      <4> QED
        BY <1>1, <1>5, <3>2, <4>1 DEF Settled, Owed
    <3> QED
      BY <3>1, <3>2
  <2> QED
    BY <2>1, <2>2, <2>3
<1> QED
  BY <1>4, <1>5, <1>6, <1>7

LEMMA LoseUp ==
    ASSUME UpInv, NEW c \in Conns, Lose(c)
    PROVE  Up'
<1> USE DEF UpInv, Up, FeedInv
<1>1. /\ UNCHANGED <<truth, req, shown, version>>
      /\ client = c /\ client' = NoConn /\ last' = 0 /\ ~conn[c].alive
      /\ conn[c] \in Stream
      /\ conn' = [conn EXCEPT ![c] = [conn[c] EXCEPT !.wire = <<>>]]
  BY DEF Lose, Shape
<1>2. /\ \A d \in Conns \ {c} : conn'[d] = conn[d]
      /\ conn'[c].alive = conn[c].alive /\ conn'[c].buffer = conn[c].buffer
      /\ conn'[c].handler = conn[c].handler
  BY <1>1 DEF Shape, Stream
<1>3. ~On' /\ OneStream' /\ View'
  BY <1>1, <1>2 DEF On, Streaming, OneStream, View, Shape
<1> QED
  BY <1>1, <1>3, StreamEnds

LEMMA BreakUp ==
    ASSUME UpInv, NEW c \in Conns, Break(c)
    PROVE  Up'
<1> USE DEF UpInv, Up, FeedInv
<1>1. /\ UNCHANGED <<truth, req, client, shown, version, last, gap, ghost>>
      /\ client = c /\ conn[c] \in Stream
      /\ conn' = [conn EXCEPT ![c] = [conn[c] EXCEPT !.alive = FALSE]]
  BY DEF Break, history, Shape, OneStream
<1>2. /\ \A d \in Conns \ {c} : conn'[d] = conn[d]
      /\ ~conn'[c].alive /\ conn'[c].buffer = conn[c].buffer
      /\ conn'[c].handler = conn[c].handler /\ conn'[c].wire = conn[c].wire
  BY <1>1 DEF Shape, Stream
<1>3. /\ Listed' = Listed /\ OneStream' /\ View' /\ Reads' /\ Dues'
      /\ On' = On
  BY <1>1, <1>2, ListedSame DEF OneStream, View, Reads, Dues, On, Streaming
<1>4. Queued'
  BY <1>1, <1>3 DEF Queued, Pending
<1>5. Settled => Settled'
  BY <1>1, <1>3 DEF Settled, Owed
<1>6. Matches'
  BY <1>1, <1>2, <1>3, <1>5 DEF Matches
<1> QED
  BY <1>3, <1>4, <1>6

LEMMA RestartUp ==
    ASSUME UpInv, Restart
    PROVE  Up'
<1> USE DEF UpInv, Up, FeedInv
<1>1. /\ UNCHANGED <<truth, client, shown, version, last, gap, ghost>>
      /\ conn' = [c \in Conns |-> [NoStream EXCEPT !.wire = conn[c].wire]]
  BY DEF Restart, history
<1>2. \A c \in Conns : ~conn'[c].alive /\ conn'[c].handler = "free"
  BY <1>1 DEF NoStream
<1>3. ~On' /\ OneStream' /\ View'
  BY <1>1, <1>2 DEF On, Streaming, OneStream, View
<1>4. ASSUME NEW r \in Requests
      PROVE  /\ req'[r].pc = "free"
             /\ \/ req'[r].due = "none"
                \/ req'[r].mine /\ req'[r].due = "ok" /\ req'[r].kind = "create"
                \/ /\ req'[r].mine /\ req'[r].due = "err"
                   /\ req'[r].kind \in {"on", "off"}
  <2> DEFINE q == IF req[r].pc \in {"sent", "done"}
                  THEN Answered(r, "err") ELSE req[r]
  <2>1. req[r] \in Request /\ req'[r] = Returned(q)
    BY DEF Restart, Shape
  <2>2. /\ q \in Request
        /\ \/ q.due = "none"
           \/ q.mine /\ q.due = "ok" /\ q.kind = "create"
           \/ q.mine /\ q.due = "err" /\ q.kind \in {"on", "off"}
    <3>1. CASE req[r].pc \in {"sent", "done"}
      <4>1. /\ req[r].due = "none" /\ req[r].kind \in Kinds
            /\ req[r].mine => req[r].kind # "delete"
        BY <2>1, <3>1 DEF Dues, Request
      <4> QED
        BY <2>1, <3>1, <4>1 DEF Answered, Request, Kinds
    <3>2. CASE req[r].pc \notin {"sent", "done"}
      BY <2>1, <3>2 DEF Request, Dues
    <3> QED
      BY <3>1, <3>2
  <2> HIDE DEF q
  <2> QED
    BY <2>1, <2>2 DEF Returned, NoRequest, Request
<1>5. Reads' /\ Dues'
  BY <1>4 DEF Reads, Dues
<1>6. Queued' /\ Matches'
  BY <1>3 DEF Queued, Matches
<1> QED
  BY <1>3, <1>5, <1>6

LEMMA SuspendUp ==
    ASSUME UpInv, UNCHANGED <<truth, req, conn, subs, client, shown, history>>
    PROVE  Up'
<1> USE DEF UpInv, Up, history
<1>1. Listed' = Listed /\ On' = On /\ OneStream'
  BY ListedSame, WaySame
<1>2. View' /\ Reads' /\ Dues' /\ Queued'
  BY <1>1 DEF View, Reads, Dues, Queued, Pending
<1>3. Settled => Settled'
  BY <1>1 DEF Settled, Owed
<1>4. Matches'
  BY <1>1, <1>3 DEF Matches
<1> QED
  BY <1>1, <1>2, <1>4

-----------------------------------------------------------------------------
LEMMA UpInitially == Init => UpInv
<1> SUFFICES ASSUME Init PROVE UpInv
  OBVIOUS
<1>1. FeedInv
  BY FeedInitially
<1>2. View /\ Reads /\ Dues /\ OneStream
  BY EmptyShape DEF Init, View, Reads, Dues, OneStream, NoRequest, NoStream
<1>3. Queued /\ Matches
  BY DEF Init, Queued, Matches, On, Streaming
<1> QED
  BY <1>1, <1>2, <1>3 DEF UpInv, Up

LEMMA UpInductive == UpInv /\ [Next]_vars => UpInv'
<1> SUFFICES ASSUME UpInv, [Next]_vars PROVE UpInv'
  OBVIOUS
<1>1. FeedInv'
  BY FeedInductive DEF UpInv
<1>2. CASE \E r \in Requests : Call(r) \/ Notify(r) \/ Serve(r) \/ ReadAnswer(r)
  BY <1>1, <1>2, CallUp, NotifyUp, ChangeUp, RefuseUp, ReadListUp, ReadFailsUp,
     PublishUp, ReadAnswerUp DEF Serve, UpInv
<1>3. CASE \E c \in Conns : Handle(c) \/ Connect(c) \/ Receive(c) \/ Lose(c)
                              \/ Break(c)
  BY <1>1, <1>3, SnapshotUp, SubscribeUp, ForwardUp, EndsUp, ConnectUp,
     ReceiveUp, LoseUp, BreakUp DEF Handle, UpInv
<1>4. CASE Stats
  BY <1>1, <1>4, StatsUp DEF UpInv
<1>5. CASE Suspend
  BY <1>1, <1>5, SuspendUp DEF Suspend, UpInv
<1>6. CASE Restart
  BY <1>1, <1>6, RestartUp DEF UpInv
<1>7. CASE UNCHANGED vars
  BY <1>1, <1>7, SuspendUp DEF vars, UpInv
<1>8. CASE \E t \in Tunnels : Lapse(t)
  BY <1>1, <1>8, LapseUp DEF UpInv
<1> QED
  BY <1>2, <1>3, <1>4, <1>5, <1>6, <1>7, <1>8 DEF Next

\* When nothing is on its way, the client shows the server's list, or one of
\* the seven gaps of the code has been met since it connected.  No other order
\* of calls, lists, losses, reconnects and restarts leaves it stale.
THEOREM AlwaysUpToDate == Spec => []UpToDate
<1>1. UpInv => UpToDate
  <2> SUFFICES ASSUME UpInv, Quiet, gap = {}, ~ghost
               PROVE  shown = Listed
    BY DEF UpToDate
  <2> USE DEF UpInv, Up
  <2>1. /\ On /\ conn[client].buffer = <<>> /\ conn[client].wire = <<>>
        /\ \A r \in Requests : ~Pending(r)
        /\ \A r \in Requests, t \in Tunnels : ~Owed(r, t)
    BY DEF Quiet, On, Streaming, Pending, Owed, NoRequest
  <2>2. last = version
    BY <2>1 DEF Queued
  <2>3. Blank(<<>>)
    BY DEF Blank
  <2>4. Settled
    BY <2>1, <2>2, <2>3 DEF Matches
  <2>5. \A t \in Tunnels : shown[t] = Listed[t]
    BY <2>1, <2>4 DEF Settled
  <2>6. shown \in Lists /\ Listed \in Lists
    BY ListedShape DEF View, FeedInv
  <2> QED
    BY <2>5, <2>6 DEF Lists
<1> QED
  BY <1>1, UpInitially, UpInductive, PTL DEF Spec

=============================================================================
