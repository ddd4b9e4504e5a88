---------------------------- MODULE ChartEngine ----------------------------
(***************************************************************************)
(* The charts of the desktop client.  Rust (app.rs) keeps the numbers and  *)
(* pushes a batch of payloads every 50 ms; Dioxus inserts, replaces and    *)
(* removes the containers; shadcn_init.js keeps a React root for every     *)
(* container, and draws.  The three meet in one webview only, and nobody   *)
(* waits for anybody: a push can arrive before its chart is there, a       *)
(* container can be replaced under its root, and a chart whose container   *)
(* has no box yet cannot be drawn at all.                                  *)
(*                                                                         *)
(* A payload is its version: 1 is the placeholder in the data attributes   *)
(* of the container (chart_div_html), the later ones are Rust's.  What is  *)
(* in a container is a picture: version, box and theme it was drawn for.   *)
(***************************************************************************)
EXTENDS ChartBuild

CONSTANTS
    Ids,              \* the charts, by the id of their container
    Nodes,            \* DOM nodes that are containers while they are live
    NoNode,
    Sizes,            \* the boxes measure() accepts; 0 is one it refuses
    Themes,
    MaxVersion,       \* bound: payloads Rust makes
    MaxEvents,        \* bound: what the user and the window do
    ForceEvery,       \* CHART_FORCE_EVERY, 40 in the code
    KindOf,           \* the kind of a chart (its data-name)
    Values            \* the values of every version, for every kind

ASSUME ChartAssumption ==
    /\ NoNode \notin Nodes
    /\ Sizes \subseteq Nat \ {0}
    /\ MaxVersion \in Nat /\ MaxVersion >= 2
    /\ MaxEvents \in Nat
    /\ ForceEvery \in Nat \ {0}
    /\ KindOf \in [Ids -> Kinds]

VARIABLES
    \* the page, as Dioxus and the window leave it
    live,             \* the node of a chart whose view is open, or NoNode
    box,              \* what measure() finds for a node
    theme,            \* the data-theme of the document
    events,           \* counts to MaxEvents
    \* the push loop of app.rs
    truth,            \* the payload Rust would make now
    last,             \* last_json: the versions sent last, 0 for charts not sent
    unforced,         \* since_forced
    \* shadcn_init.js
    lib,              \* recharts.js has been evaluated
    loaded,           \* shadcn_init.js has been evaluated
    boots,            \* the boot timers still to fire
    pending,          \* pending, with the placeholder for "none yet"
    charts,           \* charts: the record of a mounted chart
    syncDue,          \* the debounce timer of the mutation observer runs
    retryDue,         \* retryTimer runs
    repaintDue,       \* the debounce timers of theme and resize that run
    seen,             \* the box the resize observer reported last
    \* React
    roots,            \* containers with a root
    doomed,           \* containers whose root a timer will unmount
    queued,           \* the picture a root was asked for
    drawn,            \* the picture that is in the container
    \* history
    born              \* pending when the chart's node appeared

page == <<live, box, theme, events>>
push == <<truth, last, unforced>>
engine == <<lib, loaded, boots, pending, charts, syncDue, retryDue,
            repaintDue, seen>>
react == <<roots, doomed, queued, drawn>>
vars == <<page, push, engine, react, born>>

Placeholder == 1
Versions == Placeholder .. MaxVersion

Boxes == Sizes \cup {0}
Unseen == -1

\* No theme and no box is recorded for a blank container.
BlankPicture == [ver |-> 0, size |-> 0, theme |-> 0]
Picture == [ver : Versions, size : Sizes, theme : Themes]

NoRec == [el |-> NoNode, ver |-> 0, size |-> 0]
Record == [el : Nodes, ver : Versions, size : Boxes]

Up(i) == live[i] # NoNode
Mounted(i) == charts[i].el # NoNode

Init ==
    /\ live = [i \in Ids |-> NoNode]
    /\ box = [n \in Nodes |-> 0]
    /\ theme \in Themes
    /\ events = 0
    /\ truth = [i \in Ids |-> 2]
    /\ last = [i \in Ids |-> 0]
    /\ unforced = 0
    /\ lib \in BOOLEAN
    /\ loaded = FALSE
    /\ boots = 0
    /\ pending = [i \in Ids |-> Placeholder]
    /\ charts = [i \in Ids |-> NoRec]
    /\ syncDue = FALSE
    /\ retryDue = FALSE
    /\ repaintDue = {}
    /\ seen = [n \in Nodes |-> Unseen]
    /\ roots = {}
    /\ doomed = {}
    /\ queued = [n \in Nodes |-> BlankPicture]
    /\ drawn = [n \in Nodes |-> BlankPicture]
    /\ born = [i \in Ids |-> Placeholder]

-----------------------------------------------------------------------------
(* render(): a record whose container is in the document and measurable is *)
(* drawn with the box and the theme of this moment; one that is not        *)
(* measurable asks for a retry.  React commits later.                      *)

\* The "empty" of a payload; the container of a radial chart carries none
\* and the other placeholders are always flagged.
Empty(i, v) ==
    IF v = Placeholder THEN KindOf[i] # "radial"
                       ELSE Flagged(KindOf[i], Values[KindOf[i]][v])

\* Without Recharts the builders return null; "No data" needs none.
CanBuild(i, v) == lib \/ Empty(i, v)

Connected(rec, i) == rec.el # NoNode /\ rec.el = live[i]
Drawable(rec, i) == Connected(rec, i) /\ box[rec.el] # 0

\* recs: the records as they are when render is called for the charts in R.
Sized(R, recs) ==
    [i \in Ids |->
        IF i \in R /\ Drawable(recs[i], i)
        THEN [recs[i] EXCEPT !.size = box[recs[i].el]]
        ELSE recs[i]]

Asked(R, recs) ==
    [n \in Nodes |->
        IF \E i \in R : /\ recs[i].el = n
                        /\ Drawable(recs[i], i)
                        /\ CanBuild(i, recs[i].ver)
        THEN LET i == CHOOSE i \in R : recs[i].el = n
             IN  [ver |-> recs[i].ver, size |-> box[n], theme |-> theme]
        ELSE queued[n]]

MustRetry(R, recs) ==
    \E i \in R : Connected(recs[i], i) /\ box[recs[i].el] = 0

Render(R, recs, retry) ==
    /\ charts' = Sized(R, recs)
    /\ queued' = Asked(R, recs)
    /\ retryDue' = (retry \/ MustRetry(R, recs))
    /\ UNCHANGED drawn

\* rec.el.childElementCount === 0.  That Dioxus empties a container it keeps,
\* under a root that has drawn, is left out: it writes a container as part of
\* its parent's HTML (app.rs:2697-2710), and so replaces it with the parent.
BlankCharts == {i \in Ids : Mounted(i) /\ drawn[charts[i].el] = BlankPicture}

-----------------------------------------------------------------------------
(* sync(): mount the containers without a record, let the records go whose *)
(* container is not in the document any more, draw the blank ones again.   *)

Mounts == {i \in Ids : Up(i) /\ charts[i].el # live[i]}

\* Replaced containers without the unmount of what they replace.
VanishedOnly == {i \in Ids : Mounted(i) /\ ~Up(i)}

\* Containers that vanished are let be.
ReplacedOnly == {i \in Ids : Mounted(i) /\ Up(i) /\ charts[i].el # live[i]}

\* The records unmount() deletes: vanished containers and replaced ones.
Unmounts == {i \in Ids : Mounted(i) /\ charts[i].el # live[i]}

\* The placeholder of the container, whatever was pushed.
SeedStatic(i) == Placeholder

Seed(i) == pending[i]

Synced ==
    [i \in Ids |->
        IF i \in Mounts THEN [el |-> live[i], ver |-> Seed(i), size |-> 0]
        ELSE IF i \in Unmounts THEN NoRec ELSE charts[i]]

DoSync ==
    /\ Render(Mounts \cup (BlankCharts \ Unmounts), Synced, retryDue)
    /\ roots' = roots \cup {live[i] : i \in Mounts}
    /\ doomed' = doomed \cup {charts[i].el : i \in Unmounts}
    /\ UNCHANGED <<page, push, lib, loaded, pending, repaintDue, seen, born>>

\* The script is evaluated in a page that is loaded: boot() at once, and
\* again after 100 and 500 ms.
Load ==
    /\ ~loaded
    /\ loaded' = TRUE
    /\ boots' = 2
    /\ roots' = roots \cup {live[i] : i \in Mounts}
    /\ Render(Mounts, Synced, retryDue)
    /\ UNCHANGED <<page, push, lib, pending, syncDue, repaintDue, seen,
                   doomed, born>>

Boot ==
    /\ boots > 0
    /\ boots' = boots - 1
    /\ DoSync
    /\ UNCHANGED syncDue

Sync ==
    /\ syncDue
    /\ syncDue' = FALSE
    /\ DoSync
    /\ UNCHANGED boots

Retry ==
    /\ retryDue
    /\ Render(BlankCharts, charts, FALSE)
    /\ UNCHANGED <<page, push, lib, loaded, boots, pending, syncDue,
                   repaintDue, seen, roots, doomed, born>>

\* The debounced handlers of a theme flip and of a window resize.
Repaint(k) ==
    /\ k \in repaintDue
    /\ repaintDue' = repaintDue \ {k}
    /\ Render({i \in Ids : Mounted(i)}, charts, retryDue)
    /\ UNCHANGED <<page, push, lib, loaded, boots, pending, syncDue, seen,
                   roots, doomed, born>>

\* The resize observer of a record: a box it has not reported yet.  Only a
\* measurable one that is not the record's size is drawn.
Notify(i) ==
    /\ Mounted(i)
    /\ LET n == charts[i].el
       IN  /\ seen[n] # box[n]
           /\ seen' = [seen EXCEPT ![n] = box[n]]
           /\ Render(IF box[n] \notin {0, charts[i].size} THEN {i} ELSE {},
                     charts, retryDue)
    /\ UNCHANGED <<page, push, lib, loaded, boots, pending, syncDue,
                   repaintDue, roots, doomed, born>>

-----------------------------------------------------------------------------
(* The push loop.  Every pass makes the batch of the charts whose view is  *)
(* open, and skips it when it is the batch sent last, but never            *)
(* ForceEvery times in a row.                                              *)

Batch == [i \in Ids |-> IF Up(i) THEN truth[i] ELSE 0]

\* Plain dedup: an identical batch is never sent again.
SkipsAll == Batch = last

Skips == Batch = last /\ unforced + 1 < ForceEvery

PushSkip ==
    /\ \E i \in Ids : Up(i)
    /\ Skips
    /\ unforced' = unforced + 1
    /\ UNCHANGED <<page, truth, last, engine, react, born>>

\* Without the forced resend.
SentOnce ==
    /\ \E i \in Ids : Up(i)
    /\ Batch # last
    /\ last' = Batch
    /\ unforced' = 0

\* Rust takes a batch for sent whatever became of the eval: before the script
\* is there it throws, and the batch is lost.
Sent ==
    /\ \E i \in Ids : Up(i)
    /\ ~Skips
    /\ last' = Batch
    /\ unforced' = 0

PushLost ==
    /\ Sent
    /\ ~loaded
    /\ UNCHANGED <<page, truth, engine, react, born>>

\* The payload goes to the chart, and is not kept for the next mount.
KeptIfUnmounted(i) == IF Mounted(i) THEN pending[i] ELSE Batch[i]

Kept(i) == Batch[i]

\* applyOne(): every payload is kept, and drawn when its chart is mounted.
Applied ==
    [i \in Ids |-> IF Up(i) /\ Mounted(i)
                   THEN [charts[i] EXCEPT !.ver = Batch[i]] ELSE charts[i]]

PushApplied ==
    /\ Sent
    /\ loaded
    /\ pending' = [i \in Ids |-> IF Up(i) THEN Kept(i) ELSE pending[i]]
    /\ Render({i \in Ids : Up(i) /\ Mounted(i)}, Applied, retryDue)
    /\ UNCHANGED <<page, truth, lib, loaded, boots, syncDue, repaintDue, seen,
                   roots, doomed, born>>

-----------------------------------------------------------------------------
(* React.                                                                  *)

\* The render a root was asked for is committed.  New children in a container
\* are a mutation the observer of the script sees.
Commit(n) ==
    /\ n \in roots
    /\ drawn[n] # queued[n]
    /\ drawn' = [drawn EXCEPT ![n] = queued[n]]
    /\ syncDue' = (syncDue \/ (drawn[n] = BlankPicture /\ \E i \in Ids : live[i] = n))
    /\ UNCHANGED <<page, push, lib, loaded, boots, pending, charts, retryDue,
                   repaintDue, seen, roots, doomed, queued, born>>

\* The timer unmount() left behind.
Unmount(n) ==
    /\ n \in doomed
    /\ doomed' = doomed \ {n}
    /\ roots' = roots \ {n}
    /\ queued' = [queued EXCEPT ![n] = BlankPicture]
    /\ drawn' = [drawn EXCEPT ![n] = BlankPicture]
    /\ seen' = [seen EXCEPT ![n] = Unseen]
    /\ UNCHANGED <<page, push, lib, loaded, boots, pending, charts, syncDue,
                   retryDue, repaintDue, born>>

-----------------------------------------------------------------------------
(* The user, the window, the tunnels.                                      *)

Event == events < MaxEvents /\ events' = events + 1

\* Nothing of the page, of the script or of React holds on to the node.
Fresh(n) ==
    /\ \A i \in Ids : live[i] # n /\ charts[i].el # n
    /\ n \notin roots

Disconnect(n, b) ==
    [m \in Nodes |-> IF m = n THEN 0 ELSE b[m]]

\* The view of a chart opens, or Dioxus puts a new container in the place of
\* the old one because its HTML changed.  It has no box until it is laid out.
Appear(i, n) ==
    /\ Event
    /\ Fresh(n)
    /\ live' = [live EXCEPT ![i] = n]
    /\ box' = Disconnect(live[i], box)
    /\ born' = [born EXCEPT ![i] = pending[i]]
    /\ syncDue' = (syncDue \/ loaded)
    /\ UNCHANGED <<theme, push, lib, loaded, boots, pending, charts,
                   retryDue, repaintDue, seen, react>>

Vanish(i) ==
    /\ Event
    /\ Up(i)
    /\ live' = [live EXCEPT ![i] = NoNode]
    /\ box' = Disconnect(live[i], box)
    /\ syncDue' = (syncDue \/ loaded)
    /\ UNCHANGED <<theme, push, lib, loaded, boots, pending, charts,
                   retryDue, repaintDue, seen, react, born>>

\* The first layout of a container is no event: it always comes.
Settle(i) ==
    /\ Up(i)
    /\ box[live[i]] = 0
    /\ \E b \in Sizes : box' = [box EXCEPT ![live[i]] = b]
    /\ UNCHANGED <<live, theme, events, push, engine, react, born>>

\* A container loses its box, or gets another one.
Layout(i) ==
    /\ Event
    /\ Up(i)
    /\ \E b \in Boxes \ {box[live[i]]} : box' = [box EXCEPT ![live[i]] = b]
    /\ UNCHANGED <<live, theme, push, engine, react, born>>

FlipTheme ==
    /\ Event
    /\ theme' \in Themes \ {theme}
    /\ repaintDue' = IF loaded THEN repaintDue \cup {"theme"} ELSE repaintDue
    /\ UNCHANGED <<live, box, push, lib, loaded, boots, pending, charts,
                   syncDue, retryDue, seen, react, born>>

WindowResize ==
    /\ Event
    /\ loaded
    /\ box' \in [Nodes -> Boxes]
    /\ \A n \in Nodes : (\A i \in Ids : live[i] # n) => box'[n] = box[n]
    /\ repaintDue' = repaintDue \cup {"resize"}
    /\ UNCHANGED <<live, theme, push, lib, loaded, boots, pending,
                   charts, syncDue, retryDue, seen, react, born>>

\* Traffic, or a view of another tunnel: the same ids serve every tunnel.
Change(i) ==
    /\ truth[i] < MaxVersion
    /\ truth' = [truth EXCEPT ![i] = @ + 1]
    /\ UNCHANGED <<page, last, unforced, engine, react, born>>

-----------------------------------------------------------------------------
Script ==
    \/ Load \/ Boot \/ Sync \/ Retry
    \/ \E k \in {"theme", "resize"} : Repaint(k)
    \/ \E i \in Ids : Notify(i)

React == \E n \in Nodes : Commit(n) \/ Unmount(n)

Push == PushSkip \/ PushLost \/ PushApplied

Next ==
    \/ Script
    \/ Push
    \/ React
    \/ \E i \in Ids, n \in Nodes : Appear(i, n)
    \/ \E i \in Ids : Vanish(i) \/ Settle(i) \/ Layout(i) \/ Change(i)
    \/ FlipTheme
    \/ WindowResize

\* Some timer that runs fires, some render is committed, the loop of app.rs
\* keeps pushing, and a container that is in the page gets a box.
Fairness ==
    /\ WF_vars(Script \/ React)
    /\ WF_vars(\E i \in Ids : Settle(i))
    /\ WF_vars(Push)

Spec == Init /\ [][Next]_vars

FairSpec == Spec /\ Fairness

-----------------------------------------------------------------------------
(* Properties.                                                             *)

\* Every variable has its type; the push loop skips fewer than ForceEvery
\* batches in a row ("so a wedged or lost push self-heals").
TypeOK ==
    /\ live \in [Ids -> Nodes \cup {NoNode}]
    /\ box \in [Nodes -> Boxes]
    /\ theme \in Themes
    /\ events \in 0 .. MaxEvents
    /\ truth \in [Ids -> Versions]
    /\ last \in [Ids -> Versions \cup {0}]
    /\ unforced \in 0 .. (ForceEvery - 1)
    /\ lib \in BOOLEAN
    /\ loaded \in BOOLEAN
    /\ boots \in 0 .. 2
    /\ pending \in [Ids -> Versions]
    /\ charts \in [Ids -> Record \cup {NoRec}]
    /\ syncDue \in BOOLEAN
    /\ retryDue \in BOOLEAN
    /\ repaintDue \subseteq {"theme", "resize"}
    /\ seen \in [Nodes -> Boxes \cup {Unseen}]
    /\ roots \subseteq Nodes
    /\ doomed \subseteq Nodes
    /\ queued \in [Nodes -> Picture \cup {BlankPicture}]
    /\ drawn \in [Nodes -> Picture \cup {BlankPicture}]
    /\ born \in [Ids -> Versions]

\* A mounted chart always holds the newest payload that arrived for it,
\* whichever of the push, the container and the script came first: "push
\* ordering never matters and no handshake is required".
RecordIsLatest == \A i \in Ids : Mounted(i) => charts[i].ver = pending[i]

\* Every React root is a mounted chart's or waits for its timer, never both,
\* and no two charts share one: remounts leak no root, and nothing is drawn
\* through a root that is on its way out.
RootsOwned ==
    /\ roots = doomed \cup {charts[i].el : i \in {j \in Ids : Mounted(j)}}
    /\ \A i \in Ids : Mounted(i) => charts[i].el \notin doomed
    /\ \A i, j \in Ids : Mounted(i) /\ charts[i].el = charts[j].el => i = j

\* What a reader sees of a chart.
ShownVersion == [i \in Ids |-> IF Up(i) THEN drawn[live[i]].ver ELSE 0]

Labels(k, values) == IF k = "area" THEN Len(values[1]) ELSE Len(values)

\* What a reader sees as a chart is what its payload says: nothing that was
\* not measured is drawn as a measurement, not even through the even split
\* buildPie falls back to.  (Of every kind the chart may be.)
DrawnHonestly ==
    \A i \in Ids, k \in Kinds :
        LET v == ShownVersion[i]
            values == Values[k][v]
        IN  v > Placeholder /\ ~Flagged(k, values)
                => Honest(k, values, Build(k, values, Labels(k, values)))

View == INSTANCE ChartView
            WITH latest <- pending, base <- born, shown <- ShownVersion

\* The engine implements ChartView: a chart on the page never goes back to an
\* older payload, and a container Dioxus puts in the place of another one
\* starts from live data "instead of snapping back to the static mount-time
\* placeholder".
ImplementsView == View!Spec

\* When user, window and traffic come to rest, every chart on the page comes
\* to show the last payload, at its size and in the theme of the page, and
\* stays so.  The engine alone does not achieve it (a payload applied while
\* the container has no box is not drawn when the box comes back at its old
\* size): it takes the forced resend of app.rs.
Converges ==
    lib => <>[](\A i \in Ids : Up(i) =>
                  drawn[live[i]] = [ver |-> truth[i], size |-> box[live[i]],
                                    theme |-> theme])

\* The root of a container that left the page is let go.
RootsReleased ==
    \A n \in Nodes :
        (n \in roots /\ \A i \in Ids : live[i] # n) ~> n \notin roots

=============================================================================
