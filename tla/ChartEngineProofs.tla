------------------------- MODULE ChartEngineProofs -------------------------
(***************************************************************************)
(* For every number of charts, containers, sizes, themes and payloads: the *)
(* types, RecordIsLatest and RootsOwned are invariants of the engine, and  *)
(* it implements ChartView.                                                *)
(*                                                                         *)
(* RecordIsLatest is nearly inductive; that a paint never goes back is     *)
(* not.  It needs that the live containers, those with a record and those  *)
(* whose root is on its way out keep apart (Apart), that a container       *)
(* without a root is blank (IdleBlank), and that the picture of a live     *)
(* container, the one it was asked for and the payload lie in this order   *)
(* (InOrder).                                                              *)
(***************************************************************************)
EXTENDS ChartEngine, TLAPS

Apart ==
    /\ \A i, j \in Ids : Up(i) /\ live[i] = live[j] => i = j
    /\ \A i, j \in Ids : Up(i) /\ charts[j].el = live[i] => i = j
    /\ \A i \in Ids : live[i] \notin doomed

IdleBlank ==
    \A n \in Nodes \ roots : queued[n] = BlankPicture /\ drawn[n] = BlankPicture

PayloadsInOrder ==
    \A i \in Ids : born[i] <= pending[i] /\ pending[i] <= truth[i]

InOrder ==
    \A i \in Ids : Up(i) =>
        LET asked == queued[live[i]].ver
            there == drawn[live[i]].ver
        IN  /\ there <= asked
            /\ asked <= pending[i]
            /\ asked # 0 => born[i] <= asked
            /\ there # 0 => born[i] <= there

NotLoadedYet ==
    ~loaded => /\ boots = 0 /\ ~syncDue /\ doomed = {}
               /\ \A i \in Ids : ~Mounted(i)

IInv ==
    /\ TypeOK
    /\ RecordIsLatest
    /\ RootsOwned
    /\ Apart
    /\ IdleBlank
    /\ PayloadsInOrder
    /\ InOrder
    /\ NotLoadedYet

-----------------------------------------------------------------------------
(* Rendering.                                                              *)

\* render() changes the size of records only.
LEMMA SizedRecords ==
    ASSUME TypeOK, NEW R, NEW recs \in [Ids -> Record \cup {NoRec}]
    PROVE  /\ Sized(R, recs) \in [Ids -> Record \cup {NoRec}]
           /\ \A i \in Ids : /\ Sized(R, recs)[i].el = recs[i].el
                             /\ Sized(R, recs)[i].ver = recs[i].ver
<1> SUFFICES ASSUME NEW i \in Ids
             PROVE  /\ Sized(R, recs)[i] \in Record \cup {NoRec}
                    /\ Sized(R, recs)[i].el = recs[i].el
                    /\ Sized(R, recs)[i].ver = recs[i].ver
    BY DEF Sized
<1>1. recs[i] \in Record \cup {NoRec}
    OBVIOUS
<1>2. CASE i \in R /\ Drawable(recs[i], i)
    <2>1. recs[i] \in Record
        BY <1>1, <1>2 DEF Drawable, Connected, NoRec
    <2>2. box[recs[i].el] \in Boxes
        BY <2>1 DEF TypeOK, Record
    <2>3. Sized(R, recs)[i] = [recs[i] EXCEPT !.size = box[recs[i].el]]
        BY <1>2 DEF Sized
    <2> QED
        BY <2>1, <2>2, <2>3 DEF Record
<1>3. CASE ~(i \in R /\ Drawable(recs[i], i))
    BY <1>1, <1>3 DEF Sized
<1> QED
    BY <1>2, <1>3

\* What a container is asked to show after render() is what it was asked for
\* before, or the payload of the one record it belongs to, if it is live.
LEMMA AskedPicture ==
    ASSUME TypeOK, NEW R \in SUBSET Ids,
           NEW recs \in [Ids -> Record \cup {NoRec}],
           \A i, j \in Ids : recs[i].el # NoNode /\ recs[i].el = recs[j].el
                                => i = j,
           NEW n \in Nodes
    PROVE  \/ Asked(R, recs)[n] = queued[n]
           \/ \E i \in R : /\ recs[i].el = n
                           /\ live[i] = n
                           /\ box[n] \in Sizes
                           /\ Asked(R, recs)[n] = [ver |-> recs[i].ver,
                                                   size |-> box[n],
                                                   theme |-> theme]
<1> DEFINE Draws(i) == /\ recs[i].el = n
                       /\ Drawable(recs[i], i)
                       /\ CanBuild(i, recs[i].ver)
           c == CHOOSE i \in R : recs[i].el = n
<1>1. CASE \E i \in R : Draws(i)
    <2>1. PICK i \in R : Draws(i)
        BY <1>1
    <2>2. c = i
        <3>1. c \in R /\ recs[c].el = n
            BY <2>1
        <3>2. n # NoNode
            BY ChartAssumption
        <3> QED
            BY <2>1, <3>1, <3>2
    <2>3. Asked(R, recs)[n] = [ver |-> recs[c].ver, size |-> box[n],
                               theme |-> theme]
        BY <1>1 DEF Asked
    <2>4. live[i] = n /\ box[n] \in Sizes
        BY <2>1 DEF Drawable, Connected, TypeOK, Boxes
    <2> QED
        BY <2>1, <2>2, <2>3, <2>4
<1>2. CASE ~ \E i \in R : Draws(i)
    BY <1>2 DEF Asked
<1> QED
    BY <1>1, <1>2

-----------------------------------------------------------------------------
(* The records sync() leaves.                                              *)

LEMMA SyncedRecords ==
    ASSUME TypeOK
    PROVE  /\ Synced \in [Ids -> Record \cup {NoRec}]
           /\ \A i \in Mounts : Synced[i].el = live[i]
                                /\ Synced[i].ver = pending[i]
           /\ \A i \in Unmounts \ Mounts : Synced[i] = NoRec
           /\ \A i \in Ids \ (Mounts \cup Unmounts) : Synced[i] = charts[i]
<1>1. Mounts \subseteq Ids /\ Unmounts \subseteq Ids
    BY DEF Mounts, Unmounts
<1>2. \A i \in Mounts : Synced[i] = [el |-> live[i], ver |-> pending[i], size |-> 0]
    BY <1>1 DEF Synced, Seed
<1>3. \A i \in Mounts : Synced[i] \in Record
    <2> SUFFICES ASSUME NEW i \in Mounts PROVE Synced[i] \in Record
        OBVIOUS
    <2>1. live[i] \in Nodes /\ pending[i] \in Versions /\ 0 \in Boxes
        BY <1>1 DEF Mounts, Up, TypeOK, Boxes
    <2>2. Synced[i] = [el |-> live[i], ver |-> pending[i], size |-> 0]
        BY <1>2
    <2> QED
        BY <2>1, <2>2 DEF Record
<1>4. \A i \in Unmounts \ Mounts : Synced[i] = NoRec
    BY <1>1 DEF Synced
<1>5. \A i \in Ids \ (Mounts \cup Unmounts) : Synced[i] = charts[i]
    BY DEF Synced
<1>6. charts \in [Ids -> Record \cup {NoRec}]
    BY DEF TypeOK
<1>7. \A i \in Ids : Synced[i] \in Record \cup {NoRec}
    BY <1>3, <1>4, <1>5, <1>6
<1>8. Synced = [i \in Ids |-> Synced[i]]
    BY DEF Synced
<1>9. \A i \in Mounts : Synced[i].el = live[i] /\ Synced[i].ver = pending[i]
    <2> TAKE i \in Mounts
    <2>1. Synced[i] = [el |-> live[i], ver |-> pending[i], size |-> 0]
        BY <1>2
    <2> QED
        BY <2>1
<1>10. Synced \in [Ids -> Record \cup {NoRec}]
    BY <1>7, <1>8
<1> QED
    BY <1>4, <1>5, <1>9, <1>10

\* After sync() a chart has a record exactly when its container is live.
LEMMA SyncedFits ==
    ASSUME TypeOK
    PROVE  \A i \in Ids : Synced[i].el = live[i]
<1> SUFFICES ASSUME NEW i \in Ids PROVE Synced[i].el = live[i]
    OBVIOUS
<1>1. CASE i \in Mounts
    BY <1>1, SyncedRecords
<1>2. CASE i \in Unmounts \ Mounts
    BY <1>2, SyncedRecords DEF Unmounts, Mounts, Up, NoRec
<1>3. CASE i \notin Mounts \cup Unmounts
    BY <1>3, SyncedRecords DEF Unmounts, Mounts, Up, Mounted
<1> QED
    BY <1>1, <1>2, <1>3

\* Render keeps the types of what it writes.
LEMMA RenderTypes ==
    ASSUME TypeOK, NEW R \in SUBSET Ids,
           NEW recs \in [Ids -> Record \cup {NoRec}], NEW r \in BOOLEAN,
           \A i, j \in Ids : recs[i].el # NoNode /\ recs[i].el = recs[j].el
                                => i = j,
           \A i \in Ids : live[i] = recs[i].el /\ recs[i].el # NoNode
                                => recs[i].ver \in Versions,
           Render(R, recs, r)
    PROVE  /\ charts' \in [Ids -> Record \cup {NoRec}]
           /\ queued' \in [Nodes -> Picture \cup {BlankPicture}]
           /\ drawn' \in [Nodes -> Picture \cup {BlankPicture}]
           /\ retryDue' \in BOOLEAN
<1>1. charts' \in [Ids -> Record \cup {NoRec}]
    BY SizedRecords DEF Render
<1>2. queued' \in [Nodes -> Picture \cup {BlankPicture}]
    <2> SUFFICES ASSUME NEW n \in Nodes
                 PROVE  Asked(R, recs)[n] \in Picture \cup {BlankPicture}
        BY DEF Render, Asked
    <2>1. CASE Asked(R, recs)[n] = queued[n]
        BY <2>1 DEF TypeOK
    <2>2. CASE Asked(R, recs)[n] # queued[n]
        <3>1. PICK i \in R : /\ recs[i].el = n
                             /\ live[i] = n
                             /\ box[n] \in Sizes
                             /\ Asked(R, recs)[n] = [ver |-> recs[i].ver,
                                                     size |-> box[n],
                                                     theme |-> theme]
            BY <2>2, AskedPicture
        <3>2. recs[i].ver \in Versions /\ theme \in Themes
            BY <3>1, ChartAssumption DEF TypeOK
        <3> QED
            BY <3>1, <3>2 DEF Picture
    <2> QED
        BY <2>1, <2>2
<1>3. drawn' = drawn /\ retryDue' \in BOOLEAN
    BY DEF Render, MustRetry
<1> QED
    BY <1>1, <1>2, <1>3 DEF TypeOK

-----------------------------------------------------------------------------
(* What every render does to the pictures, whichever records it starts     *)
(* from: those of this moment, the ones sync() left or the ones a push     *)
(* was written to.                                                         *)

RecordsFit(recs, payloads) ==
    /\ \A i, j \in Ids : recs[i].el # NoNode /\ recs[i].el = recs[j].el => i = j
    /\ \A i \in Ids : recs[i].el # NoNode => recs[i].ver = payloads[i]
    /\ \A i \in Ids : pending[i] <= payloads[i]

PicturesFit(payloads) ==
    \A i \in Ids : Up(i) =>
        LET asked == queued'[live[i]].ver
            there == drawn'[live[i]].ver
        IN  /\ there <= asked
            /\ asked <= payloads[i]
            /\ asked # 0 => born[i] <= asked
            /\ there # 0 => born[i] <= there

LEMMA RenderKeeps ==
    ASSUME IInv, NEW R \in SUBSET Ids,
           NEW recs \in [Ids -> Record \cup {NoRec}], NEW r \in BOOLEAN,
           NEW payloads \in [Ids -> Versions],
           RecordsFit(recs, payloads),
           Render(R, recs, r)
    PROVE  /\ charts' \in [Ids -> Record \cup {NoRec}]
           /\ queued' \in [Nodes -> Picture \cup {BlankPicture}]
           /\ drawn' \in [Nodes -> Picture \cup {BlankPicture}]
           /\ retryDue' \in BOOLEAN
           /\ \A i \in Ids : /\ charts'[i].el = recs[i].el
                             /\ charts'[i].ver = recs[i].ver
           /\ \A n \in Nodes :
                 \/ queued'[n] = queued[n] /\ drawn'[n] = drawn[n]
                 \/ \E i \in Ids : recs[i].el = n
           /\ PicturesFit(payloads)
<1>1. TypeOK /\ Apart /\ PayloadsInOrder /\ InOrder
    BY DEF IInv
<1>2. \A i, j \in Ids : recs[i].el # NoNode /\ recs[i].el = recs[j].el => i = j
    BY DEF RecordsFit
<1>3. \A i \in Ids : live[i] = recs[i].el /\ recs[i].el # NoNode
                        => recs[i].ver \in Versions
    BY DEF RecordsFit
<1>4. /\ charts' \in [Ids -> Record \cup {NoRec}]
      /\ queued' \in [Nodes -> Picture \cup {BlankPicture}]
      /\ drawn' \in [Nodes -> Picture \cup {BlankPicture}]
      /\ retryDue' \in BOOLEAN
    BY <1>1, <1>2, <1>3, RenderTypes
<1>5. /\ charts' = Sized(R, recs)
      /\ queued' = Asked(R, recs)
      /\ drawn' = drawn
    BY DEF Render
<1>6. \A i \in Ids : charts'[i].el = recs[i].el /\ charts'[i].ver = recs[i].ver
    BY <1>1, <1>5, SizedRecords
<1>7. \A n \in Nodes :
         \/ queued'[n] = queued[n]
         \/ \E i \in R : /\ recs[i].el = n
                         /\ live[i] = n
                         /\ queued'[n].ver = recs[i].ver
    <2> TAKE n \in Nodes
    <2>1. \/ Asked(R, recs)[n] = queued[n]
          \/ \E i \in R : /\ recs[i].el = n
                          /\ live[i] = n
                          /\ Asked(R, recs)[n] = [ver |-> recs[i].ver,
                                                  size |-> box[n],
                                                  theme |-> theme]
        BY <1>1, <1>2, AskedPicture
    <2>2. CASE Asked(R, recs)[n] = queued[n]
        BY <1>5, <2>2
    <2>3. CASE Asked(R, recs)[n] # queued[n]
        <3>1. PICK i \in R : /\ recs[i].el = n
                             /\ live[i] = n
                             /\ Asked(R, recs)[n] = [ver |-> recs[i].ver,
                                                     size |-> box[n],
                                                     theme |-> theme]
            BY <2>1, <2>3
        <3>2. queued'[n].ver = recs[i].ver
            BY <1>5, <3>1
        <3> QED
            BY <3>1, <3>2
    <2> QED
        BY <2>2, <2>3
<1>8. PicturesFit(payloads)
    <2> SUFFICES ASSUME NEW i \in Ids, Up(i)
                 PROVE  LET asked == queued'[live[i]].ver
                            there == drawn'[live[i]].ver
                        IN  /\ there <= asked
                            /\ asked <= payloads[i]
                            /\ asked # 0 => born[i] <= asked
                            /\ there # 0 => born[i] <= there
        BY DEF PicturesFit
    <2> DEFINE n == live[i]
    <2>1. n \in Nodes
        BY <1>1 DEF TypeOK, Up
    <2>2. /\ drawn[n].ver <= queued[n].ver
          /\ queued[n].ver <= pending[i]
          /\ queued[n].ver # 0 => born[i] <= queued[n].ver
          /\ drawn[n].ver # 0 => born[i] <= drawn[n].ver
          /\ born[i] <= pending[i]
          /\ pending[i] <= payloads[i]
        BY <1>1 DEF InOrder, PayloadsInOrder, RecordsFit
    <2>3. /\ drawn[n].ver \in Nat /\ queued[n].ver \in Nat
          /\ pending[i] \in Nat /\ born[i] \in Nat /\ payloads[i] \in Nat
        <3>1. /\ drawn[n] \in Picture \cup {BlankPicture}
              /\ queued[n] \in Picture \cup {BlankPicture}
            BY <1>1, <2>1 DEF TypeOK
        <3>2. \A pic \in Picture \cup {BlankPicture} : pic.ver \in Nat
            BY ChartAssumption DEF Picture, BlankPicture, Versions, Placeholder
        <3>3. pending[i] \in Versions /\ born[i] \in Versions
            BY <1>1 DEF TypeOK
        <3> QED
            BY <3>1, <3>2, <3>3, ChartAssumption DEF Versions, Placeholder
    <2>4. CASE queued'[n] = queued[n]
        BY <1>5, <2>2, <2>3, <2>4
    <2>5. CASE queued'[n] # queued[n]
        <3>1. PICK j \in R : /\ recs[j].el = n
                             /\ live[j] = n
                             /\ queued'[n].ver = recs[j].ver
            BY <1>7, <2>1, <2>5
        <3>2. j = i
            BY <1>1, <3>1 DEF Apart
        <3>3. queued'[n].ver = payloads[i]
            <4>1. recs[i].el # NoNode
                BY <2>1, <3>1, <3>2, ChartAssumption
            <4> QED
                BY <3>1, <3>2, <4>1 DEF RecordsFit
        <3> QED
            BY <1>5, <2>2, <2>3, <3>3
    <2> QED
        BY <2>4, <2>5
<1> QED
    BY <1>4, <1>5, <1>6, <1>7, <1>8

-----------------------------------------------------------------------------
(* The three kinds of records a render starts from.                        *)

LEMMA ChartsFit ==
    ASSUME IInv
    PROVE  charts \in [Ids -> Record \cup {NoRec}] /\ RecordsFit(charts, pending)
<1>1. TypeOK /\ RecordIsLatest /\ RootsOwned
    BY DEF IInv
<1>2. \A i \in Ids : pending[i] <= pending[i]
    BY <1>1, ChartAssumption DEF TypeOK, Versions, Placeholder
<1> QED
    BY <1>1, <1>2 DEF TypeOK, RecordIsLatest, RootsOwned, Mounted, RecordsFit

LEMMA SyncFits ==
    ASSUME IInv
    PROVE  Synced \in [Ids -> Record \cup {NoRec}] /\ RecordsFit(Synced, pending)
<1>1. TypeOK /\ RecordIsLatest /\ Apart
    BY DEF IInv
<1>2. \A i \in Ids : Synced[i].el = live[i]
    BY <1>1, SyncedFits
<1>3. \A i \in Ids : Synced[i].el # NoNode => Synced[i].ver = pending[i]
    <2> SUFFICES ASSUME NEW i \in Ids, Synced[i].el # NoNode
                 PROVE  Synced[i].ver = pending[i]
        OBVIOUS
    <2>1. CASE i \in Mounts
        BY <1>1, <2>1, SyncedRecords
    <2>2. CASE i \notin Mounts
        <3>1. charts[i].el = live[i] /\ live[i] # NoNode
            BY <1>2, <2>2 DEF Mounts, Up
        <3>2. Synced[i] = charts[i]
            BY <1>1, <2>2, <3>1, SyncedRecords DEF Unmounts
        <3> QED
            BY <1>1, <3>1, <3>2 DEF RecordIsLatest, Mounted
    <2> QED
        BY <2>1, <2>2
<1>4. \A i \in Ids : pending[i] <= pending[i]
    BY <1>1, ChartAssumption DEF TypeOK, Versions, Placeholder
<1> QED
    BY <1>1, <1>2, <1>3, <1>4, SyncedRecords DEF Apart, Up, RecordsFit

\* What pending becomes when a batch is applied.
NewPayloads == [i \in Ids |-> IF Up(i) THEN truth[i] ELSE pending[i]]

LEMMA AppliedFits ==
    ASSUME IInv
    PROVE  /\ NewPayloads \in [Ids -> Versions]
           /\ Applied \in [Ids -> Record \cup {NoRec}]
           /\ \A i \in Ids : Applied[i].el = charts[i].el
           /\ RecordsFit(Applied, NewPayloads)
<1>1. TypeOK /\ RecordIsLatest /\ RootsOwned /\ Apart /\ PayloadsInOrder
    BY DEF IInv
<1>2. NewPayloads \in [Ids -> Versions]
    BY <1>1 DEF TypeOK, NewPayloads
<1>3. \A i \in Ids : /\ Applied[i] \in Record \cup {NoRec}
                     /\ Applied[i].el = charts[i].el
                     /\ Mounted(i) => Applied[i].ver = NewPayloads[i]
    <2> TAKE i \in Ids
    <2>1. CASE Up(i) /\ Mounted(i)
        <3>1. Applied[i] = [charts[i] EXCEPT !.ver = truth[i]]
            BY <2>1 DEF Applied, Batch
        <3>2. charts[i] \in Record /\ truth[i] \in Versions
            BY <1>1, <2>1 DEF TypeOK, Mounted, NoRec
        <3> QED
            BY <2>1, <3>1, <3>2 DEF Record, NewPayloads
    <2>2. CASE ~(Up(i) /\ Mounted(i))
        <3>1. Applied[i] = charts[i]
            BY <2>2 DEF Applied
        <3>2. charts[i] \in Record \cup {NoRec}
            BY <1>1 DEF TypeOK
        <3>3. Mounted(i) => charts[i].ver = NewPayloads[i]
            BY <1>1, <2>2 DEF RecordIsLatest, NewPayloads
        <3> QED
            BY <3>1, <3>2, <3>3
    <2> QED
        BY <2>1, <2>2
<1>4. Applied \in [Ids -> Record \cup {NoRec}]
    BY <1>3 DEF Applied
<1>5. \A i \in Ids : pending[i] <= NewPayloads[i]
    BY <1>1, ChartAssumption
       DEF TypeOK, PayloadsInOrder, NewPayloads, Versions, Placeholder
<1> QED
    BY <1>1, <1>2, <1>3, <1>4, <1>5 DEF RootsOwned, Mounted, RecordsFit

-----------------------------------------------------------------------------
(* The steps of the script.                                                *)

\* A render of mounted charts that changes neither the page nor the payloads.
LEMMA QuietRender ==
    ASSUME IInv, NEW R \in SUBSET Ids, NEW r \in BOOLEAN,
           Render(R, charts, r),
           UNCHANGED <<page, push, pending, loaded, boots, lib, roots, doomed, born>>,
           syncDue' = syncDue,
           repaintDue' \subseteq {"theme", "resize"},
           seen' \in [Nodes -> Boxes \cup {Unseen}]
    PROVE  IInv'
<1>1. /\ TypeOK /\ RecordIsLatest /\ RootsOwned /\ Apart /\ IdleBlank
      /\ PayloadsInOrder /\ InOrder /\ NotLoadedYet
    BY DEF IInv
<1>2. /\ charts' \in [Ids -> Record \cup {NoRec}]
      /\ queued' \in [Nodes -> Picture \cup {BlankPicture}]
      /\ drawn' \in [Nodes -> Picture \cup {BlankPicture}]
      /\ retryDue' \in BOOLEAN
      /\ \A i \in Ids : /\ charts'[i].el = charts[i].el
                        /\ charts'[i].ver = charts[i].ver
      /\ \A n \in Nodes :
            \/ queued'[n] = queued[n] /\ drawn'[n] = drawn[n]
            \/ \E i \in Ids : charts[i].el = n
      /\ PicturesFit(pending)
    <2>1. pending \in [Ids -> Versions]
        BY <1>1 DEF TypeOK
    <2> QED
        BY <2>1, ChartsFit, RenderKeeps
<1>3. TypeOK'
    BY <1>1, <1>2 DEF TypeOK, page, push
<1>4. RecordIsLatest'
    BY <1>1, <1>2 DEF RecordIsLatest, Mounted
<1>5. RootsOwned'
    BY <1>1, <1>2 DEF RootsOwned, Mounted
<1>6. Apart'
    BY <1>1, <1>2 DEF Apart, Up, page
<1>7. IdleBlank'
    <2> SUFFICES ASSUME NEW n \in Nodes, n \notin roots
                 PROVE  queued'[n] = BlankPicture /\ drawn'[n] = BlankPicture
        BY DEF IdleBlank
    <2>1. \A i \in Ids : charts[i].el # n
        BY <1>1, ChartAssumption DEF RootsOwned, Mounted
    <2> QED
        BY <1>1, <1>2, <2>1 DEF IdleBlank
<1>8. PayloadsInOrder'
    BY <1>1 DEF PayloadsInOrder, push
<1>9. InOrder'
    BY <1>2 DEF PicturesFit, InOrder, Up, page
<1>10. NotLoadedYet'
    BY <1>1, <1>2 DEF NotLoadedYet, Mounted
<1> QED
    BY <1>3, <1>4, <1>5, <1>6, <1>7, <1>8, <1>9, <1>10 DEF IInv

LEMMA RetryStep == ASSUME IInv, Retry PROVE IInv'
<1>1. TypeOK /\ BlankCharts \in SUBSET Ids
    BY DEF IInv, BlankCharts
<1> QED
    BY <1>1, QuietRender DEF Retry, TypeOK

LEMMA RepaintStep ==
    ASSUME IInv, NEW k \in {"theme", "resize"}, Repaint(k) PROVE IInv'
<1>1. TypeOK /\ {i \in Ids : Mounted(i)} \in SUBSET Ids
    BY DEF IInv
<1>2. retryDue \in BOOLEAN /\ seen \in [Nodes -> Boxes \cup {Unseen}]
      /\ repaintDue \subseteq {"theme", "resize"}
    BY <1>1 DEF TypeOK
<1> QED
    BY <1>1, <1>2, QuietRender DEF Repaint

LEMMA NotifyStep == ASSUME IInv, NEW i \in Ids, Notify(i) PROVE IInv'
<1> DEFINE n == charts[i].el
           R == IF box[n] \notin {0, charts[i].size} THEN {i} ELSE {}
<1>1. TypeOK
    BY DEF IInv
<1>2. n \in Nodes
    BY <1>1 DEF Notify, Mounted, TypeOK, Record, NoRec
<1>3. /\ retryDue \in BOOLEAN
      /\ repaintDue' \subseteq {"theme", "resize"}
      /\ seen' \in [Nodes -> Boxes \cup {Unseen}]
    <2>1. seen' = [seen EXCEPT ![n] = box[n]]
        BY DEF Notify
    <2> QED
        BY <1>1, <1>2, <2>1 DEF Notify, TypeOK
<1>4. R \in SUBSET Ids
    OBVIOUS
<1>5. Render(R, charts, retryDue)
    BY DEF Notify
<1> QED
    BY <1>3, <1>4, <1>5, QuietRender DEF Notify

\* sync(), run by whichever timer.  Before the script is loaded no record is
\* there to be let go, so Load is a sync too.
LEMMA SyncRender ==
    ASSUME IInv, NEW R \in SUBSET Ids,
           Render(R, Synced, retryDue),
           UNCHANGED <<page, push, pending, lib, repaintDue, seen, born>>,
           roots' = roots \cup {live[i] : i \in Mounts},
           doomed' = doomed \cup {charts[i].el : i \in Unmounts},
           loaded' = TRUE,
           boots' \in 0 .. 2,
           syncDue' \in BOOLEAN
    PROVE  IInv'
<1>1. /\ TypeOK /\ RecordIsLatest /\ RootsOwned /\ Apart /\ IdleBlank
      /\ PayloadsInOrder /\ InOrder /\ NotLoadedYet
    BY DEF IInv
<1>2. /\ charts' \in [Ids -> Record \cup {NoRec}]
      /\ queued' \in [Nodes -> Picture \cup {BlankPicture}]
      /\ drawn' \in [Nodes -> Picture \cup {BlankPicture}]
      /\ retryDue' \in BOOLEAN
      /\ \A i \in Ids : /\ charts'[i].el = Synced[i].el
                        /\ charts'[i].ver = Synced[i].ver
      /\ \A n \in Nodes :
            \/ queued'[n] = queued[n] /\ drawn'[n] = drawn[n]
            \/ \E i \in Ids : Synced[i].el = n
      /\ PicturesFit(pending)
    <2>1. pending \in [Ids -> Versions] /\ retryDue \in BOOLEAN
        BY <1>1 DEF TypeOK
    <2> QED
        BY <2>1, SyncFits, RenderKeeps
<1>3. \A i \in Ids : charts'[i].el = live[i]
    BY <1>1, <1>2, SyncedFits
<1>4. /\ \A i \in Mounts : i \in Ids /\ Up(i) /\ charts[i].el # live[i]
      /\ \A i \in Unmounts : i \in Ids /\ Mounted(i) /\ charts[i].el # live[i]
      /\ \A i \in Ids : Up(i) /\ charts[i].el # live[i] => i \in Mounts
      /\ \A i \in Ids : Mounted(i) /\ charts[i].el # live[i] => i \in Unmounts
    BY DEF Mounts, Unmounts
<1>5. TypeOK'
    <2>1. \A i \in Ids : live[i] # NoNode => live[i] \in Nodes
        BY <1>1 DEF TypeOK
    <2>2. \A i \in Ids : charts[i].el # NoNode => charts[i].el \in Nodes
        BY <1>1 DEF TypeOK, Record, NoRec
    <2>3. roots' \subseteq Nodes /\ doomed' \subseteq Nodes
        BY <1>1, <1>4, <2>1, <2>2 DEF TypeOK, Up, Mounted
    <2> QED
        BY <1>1, <1>2, <2>3 DEF TypeOK, page, push
<1>6. RecordIsLatest'
    <2> SUFFICES ASSUME NEW i \in Ids, charts'[i].el # NoNode
                 PROVE  charts'[i].ver = pending[i]
        BY DEF RecordIsLatest, Mounted
    <2> QED
        BY <1>2, SyncFits DEF RecordsFit
<1>7. RootsOwned'
    <2>1. \A n \in roots' :
             n \in doomed' \/ \E i \in Ids : charts'[i].el = n /\ n # NoNode
        <3> SUFFICES ASSUME NEW n \in roots', n \notin doomed'
                     PROVE  \E i \in Ids : charts'[i].el = n /\ n # NoNode
            OBVIOUS
        <3>1. CASE n \in roots
            <4>1. PICK i \in Ids : Mounted(i) /\ charts[i].el = n
                BY <1>1, <3>1 DEF RootsOwned
            <4> QED
                BY <1>3, <1>4, <4>1 DEF Mounted
        <3>2. CASE n \notin roots
            BY <1>3, <1>4, <3>2 DEF Up
        <3> QED
            BY <3>1, <3>2
    <2>2. \A n \in doomed' : n \in roots'
        BY <1>1, <1>4 DEF RootsOwned
    <2>3. \A i \in Ids : charts'[i].el # NoNode => charts'[i].el \in roots'
        <3> SUFFICES ASSUME NEW i \in Ids, live[i] # NoNode
                     PROVE  live[i] \in roots'
            BY <1>3
        <3> QED
            BY <1>1, <1>4 DEF RootsOwned, Mounted, Up
    <2>4. \A i \in Ids : charts'[i].el # NoNode => charts'[i].el \notin doomed'
        <3> SUFFICES ASSUME NEW i \in Ids, live[i] # NoNode, live[i] \in doomed'
                     PROVE  FALSE
            BY <1>3
        <3>1. live[i] \notin doomed
            BY <1>1 DEF Apart
        <3>2. PICK j \in Unmounts : charts[j].el = live[i]
            BY <3>1
        <3> QED
            BY <1>1, <1>4, <3>2 DEF Apart, Up
    <2>5. \A i, j \in Ids :
              charts'[i].el # NoNode /\ charts'[i].el = charts'[j].el => i = j
        BY <1>1, <1>3 DEF Apart, Up
    <2>6. roots' = doomed' \cup {charts'[i].el : i \in {j \in Ids : charts'[j].el # NoNode}}
        BY <2>1, <2>2, <2>3
    <2> QED
        BY <2>4, <2>5, <2>6 DEF RootsOwned, Mounted
<1>8. Apart'
    <2>1. \A i \in Ids : live[i] \notin doomed'
        <3> SUFFICES ASSUME NEW i \in Ids, live[i] \in doomed' PROVE FALSE
            OBVIOUS
        <3>1. PICK j \in Unmounts : charts[j].el = live[i]
            BY <1>1 DEF Apart
        <3> QED
            BY <1>1, <1>4, <3>1 DEF Apart, Up, Mounted
    <2> QED
        BY <1>1, <1>3, <2>1 DEF Apart, Up, page
<1>9. IdleBlank'
    <2> SUFFICES ASSUME NEW n \in Nodes, n \notin roots'
                 PROVE  queued'[n] = BlankPicture /\ drawn'[n] = BlankPicture
        BY DEF IdleBlank
    <2>1. n \notin roots /\ n # NoNode
        BY ChartAssumption
    <2>2. \A i \in Ids : Synced[i].el # n
        <3> SUFFICES ASSUME NEW i \in Ids, live[i] = n PROVE FALSE
            BY <1>1, SyncedFits
        <3>1. charts[i].el # n
            BY <1>1, <2>1 DEF RootsOwned, Mounted
        <3> QED
            BY <1>4, <2>1, <3>1 DEF Up
    <2> QED
        BY <1>1, <1>2, <2>1, <2>2 DEF IdleBlank
<1>10. PayloadsInOrder'
    BY <1>1 DEF PayloadsInOrder, push
<1>11. InOrder'
    BY <1>2 DEF PicturesFit, InOrder, Up, page
<1>12. NotLoadedYet'
    BY DEF NotLoadedYet
<1> QED
    BY <1>5, <1>6, <1>7, <1>8, <1>9, <1>10, <1>11, <1>12 DEF IInv

LEMMA BootStep == ASSUME IInv, Boot PROVE IInv'
<1>1. boots' \in 0 .. 2 /\ syncDue' \in BOOLEAN /\ loaded' = TRUE
    BY DEF IInv, TypeOK, NotLoadedYet, Boot, DoSync
<1>2. Mounts \cup (BlankCharts \ Unmounts) \in SUBSET Ids
    BY DEF Mounts, BlankCharts
<1> QED
    BY <1>1, <1>2, SyncRender DEF Boot, DoSync

LEMMA SyncStep == ASSUME IInv, Sync PROVE IInv'
<1>1. boots' \in 0 .. 2 /\ syncDue' \in BOOLEAN /\ loaded' = TRUE
    BY DEF IInv, TypeOK, NotLoadedYet, Sync, DoSync
<1>2. Mounts \cup (BlankCharts \ Unmounts) \in SUBSET Ids
    BY DEF Mounts, BlankCharts
<1> QED
    BY <1>1, <1>2, SyncRender DEF Sync, DoSync

LEMMA LoadStep == ASSUME IInv, Load PROVE IInv'
<1>1. boots' \in 0 .. 2 /\ syncDue' \in BOOLEAN /\ loaded' = TRUE
    BY DEF IInv, TypeOK, Load
<1>2. Mounts \in SUBSET Ids
    BY DEF Mounts
<1>3. Unmounts = {}
    BY DEF IInv, NotLoadedYet, Load, Unmounts
<1>4. doomed' = doomed \cup {charts[i].el : i \in Unmounts}
    BY <1>3 DEF Load
<1> QED
    BY <1>1, <1>2, <1>4, SyncRender DEF Load

-----------------------------------------------------------------------------
(* The push loop.                                                          *)

LEMMA BatchType ==
    ASSUME TypeOK
    PROVE  Batch \in [Ids -> Versions \cup {0}]
BY DEF TypeOK, Batch

LEMMA PushSkipStep == ASSUME IInv, PushSkip PROVE IInv'
<1>1. TypeOK /\ unforced' \in 0 .. (ForceEvery - 1)
    BY ChartAssumption DEF IInv, TypeOK, PushSkip, Skips
<1> QED
    BY <1>1 DEF IInv, PushSkip, TypeOK, RecordIsLatest, RootsOwned, Apart,
        IdleBlank, PayloadsInOrder, InOrder, NotLoadedYet, Mounted, Up, page,
        engine, react

LEMMA PushLostStep == ASSUME IInv, PushLost PROVE IInv'
<1>1. TypeOK /\ last' \in [Ids -> Versions \cup {0}]
      /\ unforced' \in 0 .. (ForceEvery - 1)
    BY BatchType, ChartAssumption DEF IInv, PushLost, Sent
<1> QED
    BY <1>1 DEF IInv, PushLost, TypeOK, RecordIsLatest, RootsOwned, Apart,
        IdleBlank, PayloadsInOrder, InOrder, NotLoadedYet, Mounted, Up, page,
        engine, react

LEMMA PushAppliedStep == ASSUME IInv, PushApplied PROVE IInv'
<1> DEFINE R == {i \in Ids : Up(i) /\ Mounted(i)}
<1>1. /\ TypeOK /\ RecordIsLatest /\ RootsOwned /\ Apart /\ IdleBlank
      /\ PayloadsInOrder /\ InOrder /\ NotLoadedYet
    BY DEF IInv
<1>2. pending' = NewPayloads
    BY DEF PushApplied, Kept, Batch, NewPayloads
<1>3. /\ charts' \in [Ids -> Record \cup {NoRec}]
      /\ queued' \in [Nodes -> Picture \cup {BlankPicture}]
      /\ drawn' \in [Nodes -> Picture \cup {BlankPicture}]
      /\ retryDue' \in BOOLEAN
      /\ \A i \in Ids : /\ charts'[i].el = Applied[i].el
                        /\ charts'[i].ver = Applied[i].ver
      /\ \A n \in Nodes :
            \/ queued'[n] = queued[n] /\ drawn'[n] = drawn[n]
            \/ \E i \in Ids : Applied[i].el = n
      /\ PicturesFit(NewPayloads)
    <2>1. NewPayloads \in [Ids -> Versions] /\ retryDue \in BOOLEAN
        BY <1>1, AppliedFits DEF TypeOK
    <2>2. Render(R, Applied, retryDue) /\ R \in SUBSET Ids
        BY DEF PushApplied
    <2> QED
        BY <2>1, <2>2, AppliedFits, RenderKeeps
<1>4. \A i \in Ids : charts'[i].el = charts[i].el
    BY <1>3, AppliedFits
<1>5. TypeOK'
    <2>1. pending' \in [Ids -> Versions]
        BY <1>2, AppliedFits
    <2>2. last' \in [Ids -> Versions \cup {0}] /\ unforced' \in 0 .. (ForceEvery - 1)
        BY <1>1, BatchType, ChartAssumption DEF PushApplied, Sent
    <2> QED
        BY <1>1, <1>3, <2>1, <2>2 DEF TypeOK, PushApplied, page
<1>6. RecordIsLatest'
    BY <1>2, <1>3, AppliedFits DEF RecordIsLatest, Mounted, RecordsFit
<1>7. RootsOwned'
    BY <1>1, <1>4 DEF RootsOwned, Mounted, PushApplied
<1>8. Apart'
    BY <1>1, <1>4 DEF Apart, Up, PushApplied, page
<1>9. IdleBlank'
    <2> SUFFICES ASSUME NEW n \in Nodes, n \notin roots
                 PROVE  queued'[n] = BlankPicture /\ drawn'[n] = BlankPicture
        BY DEF IdleBlank, PushApplied
    <2>1. \A i \in Ids : Applied[i].el # n
        BY <1>1, AppliedFits, ChartAssumption DEF RootsOwned, Mounted
    <2> QED
        BY <1>1, <1>3, <2>1 DEF IdleBlank
<1>10. PayloadsInOrder'
    <2> SUFFICES ASSUME NEW i \in Ids
                 PROVE  born[i] <= NewPayloads[i] /\ NewPayloads[i] <= truth[i]
        BY <1>2 DEF PayloadsInOrder, PushApplied
    <2>1. /\ born[i] \in Nat /\ pending[i] \in Nat /\ truth[i] \in Nat
          /\ born[i] <= pending[i] /\ pending[i] <= truth[i]
        BY <1>1, ChartAssumption
           DEF TypeOK, PayloadsInOrder, Versions, Placeholder
    <2> QED
        BY <2>1 DEF NewPayloads
<1>11. InOrder'
    BY <1>2, <1>3 DEF PicturesFit, InOrder, Up, PushApplied, page
<1>12. NotLoadedYet'
    BY DEF NotLoadedYet, PushApplied
<1> QED
    BY <1>5, <1>6, <1>7, <1>8, <1>9, <1>10, <1>11, <1>12 DEF IInv

-----------------------------------------------------------------------------
(* React.                                                                  *)

LEMMA PictureVersions ==
    ASSUME TypeOK, NEW n \in Nodes
    PROVE  /\ queued[n].ver \in Nat /\ drawn[n].ver \in Nat
           /\ queued[n].ver = 0 <=> queued[n] = BlankPicture
           /\ drawn[n].ver = 0 <=> drawn[n] = BlankPicture
<1>1. /\ queued[n] \in Picture \cup {BlankPicture}
      /\ drawn[n] \in Picture \cup {BlankPicture}
    BY DEF TypeOK
<1>2. \A pic \in Picture : pic.ver \in Nat /\ pic.ver # 0
    BY ChartAssumption DEF Picture, Versions, Placeholder
<1>3. BlankPicture.ver = 0
    BY DEF BlankPicture
<1> QED
    BY <1>1, <1>2, <1>3

LEMMA CommitStep == ASSUME IInv, NEW n \in Nodes, Commit(n) PROVE IInv'
<1>1. /\ TypeOK /\ RecordIsLatest /\ RootsOwned /\ Apart /\ IdleBlank
      /\ PayloadsInOrder /\ InOrder /\ NotLoadedYet
    BY DEF IInv
<1>2. drawn' \in [Nodes -> Picture \cup {BlankPicture}] /\ syncDue' \in BOOLEAN
    BY <1>1 DEF TypeOK, Commit
<1>3. TypeOK'
    BY <1>1, <1>2 DEF TypeOK, Commit, page, push
<1>4. RecordIsLatest' /\ RootsOwned' /\ Apart' /\ PayloadsInOrder'
    BY <1>1 DEF RecordIsLatest, RootsOwned, Apart, PayloadsInOrder, Mounted, Up,
        Commit, page, push
<1>5. IdleBlank'
    BY <1>1 DEF IdleBlank, TypeOK, Commit
<1>6. InOrder'
    <2> SUFFICES ASSUME NEW i \in Ids, Up(i)
                 PROVE  LET asked == queued[live[i]].ver
                            there == drawn'[live[i]].ver
                        IN  /\ there <= asked
                            /\ asked <= pending[i]
                            /\ asked # 0 => born[i] <= asked
                            /\ there # 0 => born[i] <= there
        BY DEF InOrder, Up, Commit, page
    <2>1. live[i] \in Nodes
        BY <1>1 DEF TypeOK, Up
    <2>2. queued[live[i]].ver \in Nat
        BY <1>1, <2>1, PictureVersions
    <2>3. drawn'[live[i]] = drawn[live[i]] \/ drawn'[live[i]] = queued[live[i]]
        BY <1>1, <2>1 DEF TypeOK, Commit
    <2> QED
        BY <1>1, <2>2, <2>3 DEF InOrder
<1>7. NotLoadedYet'
    BY <1>1 DEF NotLoadedYet, RootsOwned, Mounted, Commit
<1> QED
    BY <1>3, <1>4, <1>5, <1>6, <1>7 DEF IInv

LEMMA UnmountStep == ASSUME IInv, NEW n \in Nodes, Unmount(n) PROVE IInv'
<1>1. /\ TypeOK /\ RecordIsLatest /\ RootsOwned /\ Apart /\ IdleBlank
      /\ PayloadsInOrder /\ InOrder /\ NotLoadedYet
    BY DEF IInv
<1>2. /\ drawn' \in [Nodes -> Picture \cup {BlankPicture}]
      /\ queued' \in [Nodes -> Picture \cup {BlankPicture}]
      /\ seen' \in [Nodes -> Boxes \cup {Unseen}]
      /\ roots' \subseteq Nodes /\ doomed' \subseteq Nodes
    BY <1>1 DEF TypeOK, Unmount
<1>3. TypeOK'
    BY <1>1, <1>2 DEF TypeOK, Unmount, page, push
<1>4. RecordIsLatest' /\ RootsOwned' /\ Apart' /\ PayloadsInOrder'
    BY <1>1 DEF RecordIsLatest, RootsOwned, Apart, PayloadsInOrder, Mounted, Up,
        Unmount, page, push
<1>5. IdleBlank'
    BY <1>1 DEF IdleBlank, TypeOK, Unmount
<1>6. InOrder'
    <2>1. \A i \in Ids : Up(i) => live[i] \in Nodes /\ live[i] # n
        BY <1>1 DEF Apart, Up, Unmount, TypeOK
    <2>2. \A i \in Ids : Up(i) => /\ queued'[live[i]] = queued[live[i]]
                                  /\ drawn'[live[i]] = drawn[live[i]]
        BY <1>1, <2>1 DEF Unmount, TypeOK
    <2> QED
        BY <1>1, <2>2 DEF InOrder, Up, Unmount, page
<1>7. NotLoadedYet'
    BY <1>1 DEF NotLoadedYet, Mounted, Unmount
<1> QED
    BY <1>3, <1>4, <1>5, <1>6, <1>7 DEF IInv

-----------------------------------------------------------------------------
(* The page.                                                               *)

\* What a step of the page leaves alone.
PageOnly ==
    /\ UNCHANGED <<push, react, pending, charts, lib, loaded, boots, retryDue, seen>>
    /\ events' \in 0 .. MaxEvents
    /\ box' \in [Nodes -> Boxes]
    /\ theme' \in Themes
    /\ syncDue' \in BOOLEAN /\ (syncDue' => syncDue \/ loaded)
    /\ repaintDue' \subseteq {"theme", "resize"}

LEMMA SameNodesStep ==
    ASSUME IInv, PageOnly, live' = live, born' = born
    PROVE  IInv'
BY DEF IInv, PageOnly, TypeOK, RecordIsLatest, RootsOwned, Apart, IdleBlank,
    PayloadsInOrder, InOrder, NotLoadedYet, Mounted, Up, push, react

LEMMA EventCount == ASSUME TypeOK, Event PROVE events' \in 0 .. MaxEvents
BY ChartAssumption DEF TypeOK, Event

LEMMA SettleStep == ASSUME IInv, NEW i \in Ids, Settle(i) PROVE IInv'
<1>1. box' \in [Nodes -> Boxes]
    BY DEF IInv, TypeOK, Settle, Boxes
<1>2. PageOnly
    BY <1>1 DEF IInv, TypeOK, Settle, PageOnly, engine
<1> QED
    BY <1>2, SameNodesStep DEF Settle

LEMMA LayoutStep == ASSUME IInv, NEW i \in Ids, Layout(i) PROVE IInv'
<1>1. box' \in [Nodes -> Boxes]
    BY DEF IInv, TypeOK, Layout
<1>2. PageOnly
    BY <1>1, EventCount DEF IInv, TypeOK, Layout, PageOnly, engine
<1> QED
    BY <1>2, SameNodesStep DEF Layout

LEMMA ThemeStep == ASSUME IInv, FlipTheme PROVE IInv'
<1>1. PageOnly
    BY EventCount DEF IInv, TypeOK, FlipTheme, PageOnly
<1> QED
    BY <1>1, SameNodesStep DEF FlipTheme

LEMMA ResizeStep == ASSUME IInv, WindowResize PROVE IInv'
<1>1. PageOnly
    BY EventCount DEF IInv, TypeOK, WindowResize, PageOnly
<1> QED
    BY <1>1, SameNodesStep DEF WindowResize

LEMMA ChangeStep == ASSUME IInv, NEW i \in Ids, Change(i) PROVE IInv'
<1>1. TypeOK /\ PayloadsInOrder
    BY DEF IInv
<1>2. truth' \in [Ids -> Versions]
    BY <1>1, ChartAssumption DEF TypeOK, Change, Versions, Placeholder
<1>3. \A j \in Ids : truth'[j] \in Nat /\ truth[j] <= truth'[j]
    BY <1>1, ChartAssumption DEF TypeOK, Change, Versions, Placeholder
<1>4. PayloadsInOrder'
    <2> SUFFICES ASSUME NEW j \in Ids
                 PROVE  born[j] <= pending[j] /\ pending[j] <= truth'[j]
        BY DEF PayloadsInOrder, Change, engine
    <2>1. pending[j] \in Nat /\ truth[j] \in Nat
        BY <1>1, ChartAssumption DEF TypeOK, Versions, Placeholder
    <2> QED
        BY <1>1, <1>3, <2>1 DEF PayloadsInOrder
<1> QED
    BY <1>2, <1>4 DEF IInv, Change, TypeOK, RecordIsLatest, RootsOwned, Apart,
        IdleBlank, InOrder, NotLoadedYet, Mounted, Up, page, engine, react

LEMMA AppearStep ==
    ASSUME IInv, NEW i \in Ids, NEW n \in Nodes, Appear(i, n) PROVE IInv'
<1>1. /\ TypeOK /\ RecordIsLatest /\ RootsOwned /\ Apart /\ IdleBlank
      /\ PayloadsInOrder /\ InOrder /\ NotLoadedYet
    BY DEF IInv
<1>2. /\ live' = [live EXCEPT ![i] = n]
      /\ born' = [born EXCEPT ![i] = pending[i]]
      /\ \A j \in Ids : live[j] # n /\ charts[j].el # n
      /\ n \notin roots
    BY DEF Appear, Fresh
<1>3. TypeOK'
    <2>1. live' \in [Ids -> Nodes \cup {NoNode}] /\ born' \in [Ids -> Versions]
        BY <1>1, <1>2 DEF TypeOK
    <2>2. box' \in [Nodes -> Boxes] /\ syncDue' \in BOOLEAN
        BY <1>1 DEF TypeOK, Appear, Disconnect, Boxes
    <2> QED
        BY <1>1, <2>1, <2>2, EventCount DEF TypeOK, Appear, push, react
<1>4. RecordIsLatest' /\ RootsOwned' /\ IdleBlank'
    BY <1>1 DEF RecordIsLatest, RootsOwned, IdleBlank, Mounted, Appear, react
<1>5. Apart'
    <2>1. n \notin doomed
        BY <1>1, <1>2 DEF RootsOwned
    <2>2. \A j \in Ids : live'[j] = IF j = i THEN n ELSE live[j]
        BY <1>1, <1>2 DEF TypeOK
    <2> QED
        BY <1>1, <1>2, <2>1, <2>2 DEF Apart, Up, Appear, react
<1>6. PayloadsInOrder'
    <2>1. pending[i] <= pending[i]
        BY <1>1, ChartAssumption DEF TypeOK, Versions, Placeholder
    <2>2. \A j \in Ids : born'[j] = IF j = i THEN pending[i] ELSE born[j]
        BY <1>1, <1>2 DEF TypeOK
    <2> QED
        BY <1>1, <2>1, <2>2 DEF PayloadsInOrder, Appear, push
<1>7. InOrder'
    <2> SUFFICES ASSUME NEW j \in Ids, live'[j] # NoNode
                 PROVE  LET asked == queued[live'[j]].ver
                            there == drawn[live'[j]].ver
                        IN  /\ there <= asked
                            /\ asked <= pending[j]
                            /\ asked # 0 => born'[j] <= asked
                            /\ there # 0 => born'[j] <= there
        BY DEF InOrder, Up, Appear, react
    <2>1. CASE j = i
        <3>1. queued[live'[j]].ver = 0 /\ drawn[live'[j]].ver = 0
            BY <1>1, <1>2, <2>1 DEF IdleBlank, TypeOK, BlankPicture
        <3>2. pending[j] \in Nat
            BY <1>1, ChartAssumption DEF TypeOK, Versions, Placeholder
        <3> QED
            BY <3>1, <3>2
    <2>2. CASE j # i
        BY <1>1, <1>2, <2>2 DEF InOrder, Up, TypeOK
    <2> QED
        BY <2>1, <2>2
<1>8. NotLoadedYet'
    BY <1>1 DEF NotLoadedYet, Mounted, Appear, react
<1> QED
    BY <1>3, <1>4, <1>5, <1>6, <1>7, <1>8 DEF IInv

LEMMA VanishStep == ASSUME IInv, NEW i \in Ids, Vanish(i) PROVE IInv'
<1>1. /\ TypeOK /\ RecordIsLatest /\ RootsOwned /\ Apart /\ IdleBlank
      /\ PayloadsInOrder /\ InOrder /\ NotLoadedYet
    BY DEF IInv
<1>2. \A j \in Ids : live'[j] = IF j = i THEN NoNode ELSE live[j]
    BY <1>1 DEF TypeOK, Vanish
<1>3. TypeOK'
    <2>1. live' \in [Ids -> Nodes \cup {NoNode}]
        BY <1>1 DEF TypeOK, Vanish
    <2>2. box' \in [Nodes -> Boxes] /\ syncDue' \in BOOLEAN
        BY <1>1 DEF TypeOK, Vanish, Disconnect, Boxes
    <2> QED
        BY <1>1, <2>1, <2>2, EventCount DEF TypeOK, Vanish, push, react
<1>4. RecordIsLatest' /\ RootsOwned' /\ IdleBlank' /\ PayloadsInOrder'
    BY <1>1 DEF RecordIsLatest, RootsOwned, IdleBlank, PayloadsInOrder, Mounted,
        Vanish, push, react
<1>5. Apart'
    <2>1. NoNode \notin doomed
        BY <1>1, ChartAssumption DEF TypeOK
    <2> QED
        BY <1>1, <1>2, <2>1 DEF Apart, Up, Vanish, react
<1>6. InOrder'
    BY <1>1, <1>2 DEF InOrder, Up, Vanish, react
<1>7. NotLoadedYet'
    BY <1>1 DEF NotLoadedYet, Mounted, Vanish, react
<1> QED
    BY <1>3, <1>4, <1>5, <1>6, <1>7 DEF IInv

-----------------------------------------------------------------------------
(* The invariant.                                                          *)

LEMMA InitHolds == ASSUME Init PROVE IInv
<1>1. \A i \in Ids : ~Up(i) /\ ~Mounted(i)
    BY DEF Init, Up, Mounted, NoRec
<1>2. TypeOK
    <2>1. 1 \in Versions /\ 2 \in Versions /\ 0 \in Boxes /\ 0 \in 0 .. 2
        BY ChartAssumption DEF Versions, Placeholder, Boxes
    <2>2. 0 \in 0 .. MaxEvents /\ 0 \in 0 .. (ForceEvery - 1)
        BY ChartAssumption
    <2> QED
        BY <2>1, <2>2 DEF Init, TypeOK, Placeholder
<1>3. RecordIsLatest /\ Apart /\ IdleBlank /\ InOrder /\ NotLoadedYet
    BY <1>1 DEF Init, RecordIsLatest, Apart, IdleBlank, InOrder, NotLoadedYet,
        NoRec, Up
<1>4. RootsOwned
    BY <1>1 DEF Init, RootsOwned
<1>5. PayloadsInOrder
    BY DEF Init, PayloadsInOrder, Placeholder
<1> QED
    BY <1>2, <1>3, <1>4, <1>5 DEF IInv

LEMMA NextKeeps == ASSUME IInv, [Next]_vars PROVE IInv'
<1>1. CASE Script
    <2>1. CASE Load
        BY <2>1, LoadStep
    <2>2. CASE Boot
        BY <2>2, BootStep
    <2>3. CASE Sync
        BY <2>3, SyncStep
    <2>4. CASE Retry
        BY <2>4, RetryStep
    <2>5. ASSUME NEW k \in {"theme", "resize"}, Repaint(k) PROVE IInv'
        BY <2>5, RepaintStep
    <2>6. ASSUME NEW i \in Ids, Notify(i) PROVE IInv'
        BY <2>6, NotifyStep
    <2> QED
        BY <1>1, <2>1, <2>2, <2>3, <2>4, <2>5, <2>6 DEF Script
<1>2. CASE Push
    BY <1>2, PushSkipStep, PushLostStep, PushAppliedStep DEF Push
<1>3. CASE React
    BY <1>3, CommitStep, UnmountStep DEF React
<1>4. ASSUME NEW i \in Ids, NEW n \in Nodes, Appear(i, n) PROVE IInv'
    BY <1>4, AppearStep
<1>5. ASSUME NEW i \in Ids, Vanish(i) \/ Settle(i) \/ Layout(i) \/ Change(i)
      PROVE  IInv'
    BY <1>5, VanishStep, SettleStep, LayoutStep, ChangeStep
<1>6. CASE FlipTheme
    BY <1>6, ThemeStep
<1>7. CASE WindowResize
    BY <1>7, ResizeStep
<1>8. CASE UNCHANGED vars
    BY <1>8 DEF IInv, vars, page, push, engine, react, TypeOK, RecordIsLatest,
        RootsOwned, Apart, IdleBlank, PayloadsInOrder, InOrder, NotLoadedYet,
        Mounted, Up
<1> QED
    BY <1>1, <1>2, <1>3, <1>4, <1>5, <1>6, <1>7, <1>8 DEF Next

\* The inductive invariant: the order of payloads and pictures, and the
\* ownership of containers.
THEOREM Inductive == Spec => []IInv
<1>1. Init => IInv
    BY InitHolds
<1>2. IInv /\ [Next]_vars => IInv'
    BY NextKeeps
<1> QED
    BY <1>1, <1>2, PTL DEF Spec

\* The types, for every number of charts and containers.
THEOREM TypeCorrect == Spec => []TypeOK
<1>1. IInv => TypeOK
    BY DEF IInv
<1> QED
    BY <1>1, Inductive, PTL

\* A mounted chart holds the newest payload, whoever comes first.
THEOREM RecordsAreLatest == Spec => []RecordIsLatest
<1>1. IInv => RecordIsLatest
    BY DEF IInv
<1> QED
    BY <1>1, Inductive, PTL

\* No remount leaks a React root, and no root is used on its way out.
THEOREM RootsAreOwned == Spec => []RootsOwned
<1>1. IInv => RootsOwned
    BY DEF IInv
<1> QED
    BY <1>1, Inductive, PTL

-----------------------------------------------------------------------------
(* What is drawn.                                                          *)

\* What a builder draws for any values at all, and for any number of labels,
\* is what they say, unless the payload is flagged: the even split of buildPie
\* is the one case, and it is flagged.
LEMMA BuildersHonest ==
    ASSUME NEW kind \in Kinds, NEW values, NEW labels, ~Flagged(kind, values)
    PROVE  Honest(kind, values, Build(kind, values, labels))
<1>1. CASE kind = "area"
    <2>1. ASSUME NEW p \in 1 .. labels, NEW s \in 1 .. Len(values)
          PROVE  BuildArea(values, labels)[p][s] = At(values[s], p)
        <3>1. CASE values = <<>>
            BY <2>1, <3>1
        <3>2. CASE values # <<>>
            BY <2>1, <3>2 DEF BuildArea
        <3> QED
            BY <3>1, <3>2
    <2>2. DOMAIN BuildArea(values, labels) = 1 .. labels
        BY DEF BuildArea
    <2>3. Build(kind, values, labels) = BuildArea(values, labels)
        BY <1>1 DEF Build
    <2> QED
        BY <1>1, <2>1, <2>2, <2>3 DEF Honest
<1>2. CASE kind = "pie"
    <2>1. Total(values) # 0
        BY <1>2 DEF Flagged, PieFlagged
    <2> QED
        BY <1>2, <2>1 DEF Build, BuildPie, Honest
<1>3. CASE kind = "radar"
    BY <1>3 DEF Build, BuildRadar, Honest
<1>4. CASE kind = "radial"
    BY <1>4 DEF Build, BuildRadial, Honest
<1> QED
    BY <1>1, <1>2, <1>3, <1>4 DEF Kinds

\* Whatever versions the page comes to show, they are drawn honestly or shown
\* as "No data".
THEOREM DrawingsAreHonest == Spec => []DrawnHonestly
<1>1. DrawnHonestly
    BY BuildersHonest DEF DrawnHonestly
<1> QED
    BY <1>1, PTL

-----------------------------------------------------------------------------
(* The engine implements ChartView.                                        *)

LEMMA InitMaps == ASSUME Init PROVE View!Init
BY DEF Init, View!Init, View!Blank, View!Placeholder, Placeholder, ShownVersion, Up

\* A step that leaves the containers and what is in them alone, and makes no
\* payload older, is a Receive.
LEMMA ReceiveMaps ==
    ASSUME IInv, IInv', UNCHANGED <<live, drawn, born>>,
           \A i \in Ids : pending[i] <= pending'[i]
    PROVE  View!Receive
<1>1. pending \in [Ids -> Nat] /\ pending' \in [Ids -> Nat]
    BY ChartAssumption DEF IInv, TypeOK, Versions, Placeholder
<1>2. ShownVersion' = ShownVersion
    BY DEF ShownVersion, Up
<1> QED
    BY <1>1, <1>2 DEF View!Receive

LEMMA CommitMaps ==
    ASSUME IInv, NEW n \in Nodes, Commit(n)
    PROVE  View!Next \/ UNCHANGED View!viewVars
<1>1. TypeOK /\ Apart /\ InOrder
    BY DEF IInv
<1>2. pending' = pending /\ born' = born /\ live' = live
    BY DEF Commit, page
<1>3. CASE \E i \in Ids : live[i] = n
    <2>1. PICK i \in Ids : live[i] = n
        BY <1>3
    <2>2. Up(i)
        BY <2>1, ChartAssumption DEF Up
    <2> DEFINE v == queued[n].ver
    <2>3. v # 0
        <3>1. queued[n].ver \in Nat /\ drawn[n].ver \in Nat
              /\ (queued[n].ver = 0 <=> queued[n] = BlankPicture)
              /\ (drawn[n].ver = 0 <=> drawn[n] = BlankPicture)
            BY <1>1, PictureVersions
        <3>2. drawn[n].ver <= queued[n].ver /\ drawn[n] # queued[n]
            BY <1>1, <2>1, <2>2 DEF InOrder, Commit
        <3> QED
            BY <3>1, <3>2
    <2>4. v \in born[i] .. pending[i] /\ v >= drawn[n].ver
        <3>1. v \in Nat /\ drawn[n].ver \in Nat /\ born[i] \in Nat /\ pending[i] \in Nat
            BY <1>1, PictureVersions, ChartAssumption
               DEF TypeOK, Versions, Placeholder
        <3> QED
            BY <1>1, <2>1, <2>2, <2>3, <3>1 DEF InOrder
    <2>5. ShownVersion[i] = drawn[n].ver
        BY <2>1, <2>2 DEF ShownVersion
    <2>6. ShownVersion' = [ShownVersion EXCEPT ![i] = v]
        <3>1. \A j \in Ids :
                 (IF Up(j) THEN drawn'[live[j]].ver ELSE 0)
                    = IF j = i THEN v ELSE ShownVersion[j]
            <4> TAKE j \in Ids
            <4>1. CASE j = i
                BY <1>1, <2>1, <2>2, <4>1 DEF TypeOK, Commit
            <4>2. CASE j # i /\ Up(j)
                <5>1. live[j] \in Nodes /\ live[j] # n
                    BY <1>1, <2>1, <4>2 DEF Apart, TypeOK, Up
                <5> QED
                    BY <1>1, <4>2, <5>1 DEF TypeOK, Commit, ShownVersion
            <4>3. CASE j # i /\ ~Up(j)
                BY <4>3 DEF ShownVersion
            <4> QED
                BY <4>1, <4>2, <4>3
        <3> QED
            BY <1>2, <3>1 DEF ShownVersion, Up
    <2>7. View!Paint(i)
        BY <1>2, <2>4, <2>5, <2>6 DEF View!Paint
    <2> QED
        BY <2>7 DEF View!Next
<1>4. CASE ~ \E i \in Ids : live[i] = n
    <2>1. ShownVersion' = ShownVersion
        <3>1. \A j \in Ids : Up(j) => drawn'[live[j]] = drawn[live[j]]
            BY <1>1, <1>4 DEF TypeOK, Up, Commit
        <3> QED
            BY <1>2, <3>1 DEF ShownVersion, Up
    <2> QED
        BY <1>2, <2>1 DEF View!viewVars
<1> QED
    BY <1>3, <1>4

LEMMA UnmountMaps ==
    ASSUME IInv, NEW n \in Nodes, Unmount(n)
    PROVE  UNCHANGED View!viewVars
<1>1. TypeOK /\ Apart
    BY DEF IInv
<1>2. pending' = pending /\ born' = born /\ live' = live
    BY DEF Unmount, page
<1>3. \A j \in Ids : Up(j) => drawn'[live[j]] = drawn[live[j]]
    BY <1>1 DEF TypeOK, Apart, Up, Unmount
<1>4. ShownVersion' = ShownVersion
    BY <1>2, <1>3 DEF ShownVersion, Up
<1> QED
    BY <1>2, <1>4 DEF View!viewVars

LEMMA AppearMaps ==
    ASSUME IInv, NEW i \in Ids, NEW n \in Nodes, Appear(i, n)
    PROVE  View!Appear(i)
<1>1. TypeOK /\ IdleBlank
    BY DEF IInv
<1>2. \A j \in Ids : live'[j] = IF j = i THEN n ELSE live[j]
    BY <1>1 DEF TypeOK, Appear
<1>3. drawn' = drawn /\ drawn[n].ver = 0 /\ n # NoNode
    BY <1>1, ChartAssumption DEF Appear, Fresh, IdleBlank, BlankPicture, react
<1>4. ShownVersion' = [ShownVersion EXCEPT ![i] = 0]
    BY <1>2, <1>3 DEF ShownVersion, Up
<1> QED
    BY <1>4 DEF Appear, View!Appear, View!Blank

LEMMA VanishMaps ==
    ASSUME IInv, NEW i \in Ids, Vanish(i)
    PROVE  View!Vanish(i)
<1>1. \A j \in Ids : live'[j] = IF j = i THEN NoNode ELSE live[j]
    BY DEF IInv, TypeOK, Vanish
<1>2. drawn' = drawn /\ pending' = pending /\ born' = born
    BY DEF Vanish, react
<1>3. ShownVersion' = [ShownVersion EXCEPT ![i] = 0]
    BY <1>1, <1>2 DEF ShownVersion, Up
<1> QED
    BY <1>2, <1>3 DEF View!Vanish, View!Blank

LEMMA StepMaps ==
    ASSUME IInv, IInv', [Next]_vars
    PROVE  View!Next \/ UNCHANGED View!viewVars
<1> DEFINE Still == /\ UNCHANGED <<live, drawn, born>>
                    /\ \A i \in Ids : pending[i] <= pending'[i]
<1>1. ASSUME Still PROVE View!Next
    BY <1>1, ReceiveMaps DEF View!Next
<1>2. \A i \in Ids : pending[i] <= pending[i]
    BY ChartAssumption DEF IInv, TypeOK, Versions, Placeholder
<1>3. CASE Script
    <2>1. UNCHANGED <<live, drawn, born, pending>>
        BY <1>3 DEF Script, Load, Boot, Sync, Retry, Repaint, Notify, DoSync,
            Render, page
    <2> QED
        BY <1>1, <1>2, <2>1
<1>4. CASE Push
    <2>1. CASE PushSkip \/ PushLost
        BY <1>1, <1>2, <2>1 DEF PushSkip, PushLost, page, engine, react
    <2>2. CASE PushApplied
        <3>1. pending' = NewPayloads
            BY <2>2 DEF PushApplied, Kept, Batch, NewPayloads
        <3>2. \A i \in Ids : pending[i] <= pending'[i]
            BY <3>1, AppliedFits DEF RecordsFit
        <3>3. UNCHANGED <<live, drawn, born>>
            BY <2>2 DEF PushApplied, Render, page
        <3> QED
            BY <1>1, <3>2, <3>3
    <2> QED
        BY <1>4, <2>1, <2>2 DEF Push
<1>5. CASE React
    BY <1>5, CommitMaps, UnmountMaps DEF React
<1>6. ASSUME NEW i \in Ids, NEW n \in Nodes, Appear(i, n) PROVE View!Next
    BY <1>6, AppearMaps DEF View!Next
<1>7. ASSUME NEW i \in Ids, Vanish(i) PROVE View!Next
    BY <1>7, VanishMaps DEF View!Next
<1>8. ASSUME NEW i \in Ids, Settle(i) \/ Layout(i) \/ Change(i) PROVE View!Next
    <2>1. UNCHANGED <<live, drawn, born, pending>>
        BY <1>8 DEF Settle, Layout, Change, page, engine, react
    <2> QED
        BY <1>1, <1>2, <2>1
<1>9. CASE FlipTheme \/ WindowResize
    <2>1. UNCHANGED <<live, drawn, born, pending>>
        BY <1>9 DEF FlipTheme, WindowResize, react
    <2> QED
        BY <1>1, <1>2, <2>1
<1>10. CASE UNCHANGED vars
    <2>1. UNCHANGED <<live, drawn, born, pending>>
        BY <1>10 DEF vars, page, engine, react
    <2> QED
        BY <1>1, <1>2, <2>1
<1> QED
    BY <1>3, <1>4, <1>5, <1>6, <1>7, <1>8, <1>9, <1>10 DEF Next

\* Charts never go back to an older payload, and new containers start from
\* live data: for every number of charts, containers and payloads.
THEOREM EngineImplementsView == Spec => ImplementsView
<1>1. Init => View!Init
    BY InitMaps
<1>2. IInv /\ IInv' /\ [Next]_vars => [View!Next]_(View!viewVars)
    BY StepMaps
<1> QED
    BY <1>1, <1>2, Inductive, PTL DEF Spec, ImplementsView, View!Spec

=============================================================================
