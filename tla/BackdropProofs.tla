--------------------------- MODULE BackdropProofs ---------------------------
(***************************************************************************)
(* The safety of the backdrops for any mounts, frame handles and bounds:   *)
(* a loop never runs twice, nothing is scheduled unseen, and the website   *)
(* has one WebGL context at most.                                          *)
(*                                                                         *)
(* The three are inductive together with what ties the fields of a mount   *)
(* to one another (Sound) and with what the script of the website keeps    *)
(* (Site): it installs its observer only after a mount that did not throw, *)
(* and then what runs is what destroy would tear down.                     *)
(***************************************************************************)
EXTENDS Backdrop, FiniteSetTheorems, TLAPS

BackdropSpec == BackdropInit /\ [][BackdropNext]_backdropVars

Views == {"in", "out"}

Mount ==
    [status : {"free", "live", "failed", "stopped"},
     shader : {None, "molten", "gradient", "sliced"},
     raf : Nat, saved : Nat, inView : BOOLEAN, pageVisible : BOOLEAN,
     frames : SUBSET Nat, entries : Seq(Views), reported : Views \cup {None}]

Typed ==
    /\ mount \in [Mounts -> Mount]
    /\ hidden \in BOOLEAN
    /\ scroll \in Views
    /\ theme \in Themes

\* The fields of one mount: raf is the handle of the only frame there can be,
\* a loop that runs has one exactly, and it runs in view only.
Sound(r) ==
    /\ r.frames \subseteq {r.raf} \ {0}
    /\ r.status = "live" => r.frames = {r.raf} \ {0}
    /\ r.status = "live" /\ r.frames # {} => r.inView /\ r.pageVisible
    /\ r.status = "free" => r.frames = {}

\* The listeners of a mount know whether the page is hidden.
Told == \A m \in Mounts : Live(m) => mount[m].pageVisible = ~hidden

Used(m) == mount[m].status # "free"

\* What the script of the website keeps.
Site ==
    /\ classDue => page = "website" /\ observing
    /\ page = "website" =>
        /\ screen = "off"
        /\ currentTheme = None =>
               ~observing /\ destroy = None /\ \A m \in Mounts : ~Used(m)
        /\ observing => (webgl => ~reduce)
                        /\ \A m \in Mounts : Used(m) => m = destroy
        /\ ~webgl => \A m \in Mounts : ~Used(m)
        /\ \A m, n \in Mounts : Used(m) /\ Used(n) => m = n
        /\ destroy # None => destroy \in Mounts /\ Live(destroy)

BackdropInv == Typed /\ (\A m \in Mounts : Sound(mount[m])) /\ Told /\ Site

-----------------------------------------------------------------------------
(* The steps of one mount.                                                 *)

\* There is always a handle left: at most two are held when one is needed.
LEMMA FreshHandle ==
    ASSUME NEW r \in Mount, r.frames \subseteq {r.raf}
    PROVE  NewHandle(r) \in Handles /\ NewHandle(r) \in Nat \ {0}
<1>1. \E h \in Handles : h \notin r.frames \cup {r.raf, r.saved}
  <2>1. \E h \in Handles : h \notin {r.raf, r.saved}
    <3>1. PICK g \in Handles : TRUE
      BY BackdropAssumption DEF BackdropAssumption
    <3>2. \A a, b \in Handles : \E h \in Handles : h # a /\ h # b
      <4> TAKE a, b \in Handles
      <4>1. Handles \ {a, b} # {}
        BY BackdropAssumption DEF BackdropAssumption
      <4> QED
        BY <4>1
    <3>3. PICK a \in Handles : r.raf \in Handles => a = r.raf
      BY <3>1
    <3>4. PICK b \in Handles : r.saved \in Handles => b = r.saved
      BY <3>1
    <3>5. PICK h \in Handles : h # a /\ h # b
      BY <3>2
    <3>6. h # r.raf /\ h # r.saved
      BY <3>3, <3>4, <3>5
    <3> QED
      BY <3>6
  <2> QED
    BY <2>1
<1> QED
  BY <1>1, BackdropAssumption DEF NewHandle, BackdropAssumption

\* What schedules or cancels a frame sets raf and frames and nothing else.
Set(r, h, F) == [r EXCEPT !.raf = h, !.frames = F]

LEMMA SetFields ==
    ASSUME NEW r \in Mount, NEW h \in Nat, NEW F \in SUBSET Nat
    PROVE  LET s == Set(r, h, F)
           IN  /\ s \in Mount
               /\ s.raf = h /\ s.frames = F /\ s.status = r.status
               /\ s.inView = r.inView /\ s.pageVisible = r.pageVisible
<1> DEFINE a == [r EXCEPT !.raf = h]
<1>1. /\ a \in Mount /\ a.raf = h /\ a.status = r.status
      /\ a.inView = r.inView /\ a.pageVisible = r.pageVisible
  BY DEF Mount
<1>2. Set(r, h, F) = [a EXCEPT !.frames = F]
  BY DEF Set
<1> HIDE DEF a
<1> QED
  BY <1>1, <1>2 DEF Mount

LEMMA StartSound ==
    ASSUME NEW r \in Mount, Sound(r), r.status = "live"
    PROVE  /\ Start(r) \in Mount /\ Sound(Start(r))
           /\ Start(r).status = "live"
           /\ Start(r).pageVisible = r.pageVisible
<1>1. CASE r.inView /\ r.pageVisible /\ r.raf = 0
  <2> DEFINE h == NewHandle(r)
  <2>1. r.frames = {} /\ r.frames \subseteq {r.raf}
    BY <1>1 DEF Sound
  <2>2. h \in Nat \ {0}
    BY <2>1, FreshHandle
  <2>3. Start(r) = Set(r, h, {h})
    <3>1. r.frames \cup {h} = {h}
      BY <2>1
    <3>2. Start(r) = [r EXCEPT !.raf = h, !.frames = r.frames \cup {h}]
      BY <1>1 DEF Start, Scheduled
    <3> QED
      BY <3>1, <3>2 DEF Set
  <2> HIDE DEF h
  <2>4. /\ Start(r) \in Mount
        /\ Start(r).raf = h /\ Start(r).frames = {h}
        /\ Start(r).status = r.status /\ Start(r).inView = r.inView
        /\ Start(r).pageVisible = r.pageVisible
    BY <2>2, <2>3, SetFields
  <2> QED
    BY <1>1, <2>2, <2>4 DEF Sound
<1>2. CASE ~(r.inView /\ r.pageVisible /\ r.raf = 0)
  BY <1>2 DEF Start
<1> QED
  BY <1>1, <1>2

LEMMA StopSound ==
    ASSUME NEW r \in Mount, r.status = "live", r.frames = {r.raf} \ {0}
    PROVE  /\ Stop(r) \in Mount /\ Sound(Stop(r))
           /\ Stop(r).status = "live"
           /\ Stop(r).frames = {}
           /\ Stop(r).pageVisible = r.pageVisible
<1>1. Stop(r) = Set(r, 0, {})
  <2>1. r.frames \ {r.raf} = {}
    OBVIOUS
  <2>2. Stop(r) = [r EXCEPT !.frames = r.frames \ {r.raf}, !.raf = 0]
    BY DEF Stop
  <2> DEFINE a == [r EXCEPT !.raf = 0]
             b == [r EXCEPT !.frames = {}]
  <2>3. [a EXCEPT !.frames = {}] = [b EXCEPT !.raf = 0]
    BY DEF Mount
  <2> QED
    BY <2>1, <2>2, <2>3 DEF Set
<1>2. /\ Stop(r) \in Mount /\ Stop(r).raf = 0 /\ Stop(r).frames = {}
      /\ Stop(r).status = r.status /\ Stop(r).inView = r.inView
      /\ Stop(r).pageVisible = r.pageVisible
  BY <1>1, SetFields
<1> QED
  BY <1>2 DEF Sound

LEMMA LoopedSound ==
    ASSUME NEW r \in Mount, Sound(r), NEW h \in r.frames
    PROVE  /\ Looped(r, h) \in Mount /\ Sound(Looped(r, h))
           /\ Looped(r, h).status = r.status
           /\ Looped(r, h).pageVisible = r.pageVisible
<1> DEFINE s == [r EXCEPT !.frames = {}]
           g == NewHandle(r)
<1>1. r.frames = {h} /\ h # 0 /\ h \in Nat /\ h = r.raf
  BY DEF Sound, Mount
<1>2. /\ s \in Mount /\ s.frames = {} /\ s.status = r.status
      /\ s.inView = r.inView /\ s.pageVisible = r.pageVisible
  BY DEF Mount
<1>3. g \in Nat \ {0}
  BY <1>1, FreshHandle
<1>4. [r EXCEPT !.frames = @ \ {h}] = s
  BY <1>1
<1> DEFINE l == Set(s, g, {g})
<1>5. Looped(r, h) = Scheduled(s, g)
  <2>1. Looped(r, h) = Scheduled([r EXCEPT !.frames = @ \ {h}], NewHandle(r))
    BY DEF Looped
  <2> QED
    BY <1>4, <2>1
<1> HIDE DEF g, s
<1>6. Looped(r, h) = l
  BY <1>2, <1>5 DEF Scheduled, Set
<1>7. /\ l \in Mount /\ l.raf = g /\ l.frames = {g} /\ l.status = s.status
      /\ l.inView = s.inView /\ l.pageVisible = s.pageVisible
  BY <1>2, <1>3, SetFields
<1> HIDE DEF l
<1> QED
  BY <1>1, <1>2, <1>3, <1>6, <1>7 DEF Sound

LEMMA SeenSound ==
    ASSUME NEW r \in Mount, Sound(r), r.status = "live", r.entries # <<>>
    PROVE  /\ Seen(r) \in Mount /\ Sound(Seen(r))
           /\ Seen(r).status = "live"
           /\ Seen(r).pageVisible = r.pageVisible
<1> DEFINE v == [r EXCEPT !.inView = (Head(r.entries) = "in"),
                          !.entries = <<>>]
<1>1. /\ v \in Mount /\ v.status = "live" /\ v.pageVisible = r.pageVisible
      /\ v.frames = r.frames /\ v.raf = r.raf
  <2> DEFINE a == [r EXCEPT !.inView = (Head(r.entries) = "in")]
  <2>1. /\ a \in Mount /\ a.status = "live" /\ a.pageVisible = r.pageVisible
        /\ a.frames = r.frames /\ a.raf = r.raf
    <3> DEFINE b == (Head(r.entries) = "in")
    <3>1. b \in BOOLEAN
      OBVIOUS
    <3> HIDE DEF b
    <3> QED
      BY <3>1 DEF Mount
  <2>2. v = [a EXCEPT !.entries = <<>>]
    OBVIOUS
  <2>3. <<>> \in Seq(Views)
    OBVIOUS
  <2> HIDE DEF a, v
  <2> QED
    BY <2>1, <2>2, <2>3 DEF Mount
<1>2. v.frames = {v.raf} \ {0} /\ (v.inView => Sound(v))
  <2> HIDE DEF v
  <2> QED
    BY <1>1 DEF Sound
<1>3. Seen(r) = IF v.inView THEN Start(v) ELSE Stop(v)
  BY DEF Seen
<1> HIDE DEF v
<1> QED
  BY <1>1, <1>2, <1>3, StartSound, StopSound

LEMMA ShownSound ==
    ASSUME NEW r \in Mount, Sound(r), r.status = "live", NEW b \in BOOLEAN
    PROVE  /\ Shown(r, b) \in Mount /\ Sound(Shown(r, b))
           /\ Shown(r, b).status = "live"
           /\ Shown(r, b).pageVisible = b
<1> DEFINE v == [r EXCEPT !.pageVisible = b]
<1>1. /\ v \in Mount /\ v.status = "live" /\ v.pageVisible = b
      /\ v.frames = {v.raf} \ {0}
  BY DEF Sound, Mount
<1>2. b => Sound(v)
  BY DEF Sound, Mount
<1>3. Shown(r, b) = IF b THEN Start(v) ELSE Stop(v)
  BY DEF Shown
<1> HIDE DEF v
<1> QED
  BY <1>1, <1>2, <1>3, StartSound, StopSound

LEMMA IdleSound ==
    /\ Idle \in Mount /\ Sound(Idle) /\ Idle.status = "free"
    /\ Idle.raf = 0 /\ Idle.frames = {} /\ Idle.inView
BY DEF Idle, Sound, Mount, Views, None

LEMMA MountedSound ==
    ASSUME NEW s \in {"molten", "gradient", "sliced"}, hidden \in BOOLEAN
    PROVE  /\ Mounted(s) \in Mount /\ Sound(Mounted(s))
           /\ Mounted(s).status = "live"
           /\ Mounted(s).pageVisible = ~hidden
<1> DEFINE o == Opened(s)
           r == Start(o)
<1>1. o \in Mount /\ Sound(o) /\ o.status = "live" /\ o.pageVisible = ~hidden
  <2> DEFINE a == [Idle EXCEPT !.status = "live"]
             b == [a EXCEPT !.shader = s]
             v == ~hidden
  <2>1. /\ a \in Mount /\ a.status = "live"
        /\ a.raf = 0 /\ a.frames = {} /\ a.inView
    BY IdleSound DEF Mount
  <2>2. o = [b EXCEPT !.pageVisible = v]
    BY DEF Opened
  <2> HIDE DEF a
  <2>3. /\ b \in Mount /\ b.status = "live"
        /\ b.raf = 0 /\ b.frames = {} /\ b.inView
    BY <2>1 DEF Mount
  <2>4. v \in BOOLEAN
    OBVIOUS
  <2> HIDE DEF b, v, o
  <2>5. /\ o \in Mount /\ o.status = "live" /\ o.pageVisible = v
        /\ o.raf = 0 /\ o.frames = {} /\ o.inView
    BY <2>2, <2>3, <2>4 DEF Mount
  <2> QED
    BY <2>5 DEF Sound, v
<1>2. r \in Mount /\ Sound(r) /\ r.status = "live" /\ r.pageVisible = ~hidden
  BY <1>1, StartSound
<1>3. Mounted(s) = [r EXCEPT !.saved = IF s = "sliced" THEN r.raf ELSE 0]
  BY DEF Mounted
<1> HIDE DEF r
<1> QED
  BY <1>2, <1>3 DEF Sound, Mount

LEMMA ThrownSound ==
    ASSUME NEW s \in {"molten", "gradient", "sliced"}
    PROVE  /\ Thrown(s) \in Mount /\ Sound(Thrown(s))
           /\ Thrown(s).status = "failed"
<1> DEFINE a == [Idle EXCEPT !.status = "failed"]
<1>1. a \in Mount /\ a.status = "failed" /\ a.raf = 0 /\ a.frames = {}
  BY IdleSound DEF Mount
<1>2. Thrown(s) = [a EXCEPT !.shader = s]
  BY DEF Thrown
<1> HIDE DEF a
<1> QED
  BY <1>1, <1>2 DEF Sound, Mount

LEMMA DestroyedSound ==
    ASSUME NEW r \in Mount, Sound(r), r.status = "live"
    PROVE  /\ Destroyed(r) \in Mount /\ Sound(Destroyed(r))
           /\ Destroyed(r).status = "free"
<1>1. Stop(r).frames = {}
  BY DEF Stop, Sound, Mount
<1>2. Destroyed(r) = [Idle EXCEPT !.frames = {}]
  BY <1>1 DEF Destroyed
<1> QED
  BY <1>2, IdleSound DEF Sound, Mount

LEMMA ReleasedSound ==
    ASSUME NEW r \in Mount, Sound(r)
    PROVE  /\ Released(r) \in Mount /\ Sound(Released(r))
           /\ Released(r).status = "stopped"
<1> DEFINE a == [r EXCEPT !.status = "stopped"]
           b == [a EXCEPT !.frames = r.frames \ {r.saved}]
<1>1. /\ a \in Mount /\ a.status = "stopped" /\ a.frames = r.frames
      /\ a.raf = r.raf
  BY DEF Mount
<1>2. Released(r) = [b EXCEPT !.entries = <<>>]
  BY DEF Released
<1> HIDE DEF a
<1>3. /\ b \in Mount /\ b.status = "stopped" /\ b.raf = r.raf
      /\ b.frames = r.frames \ {r.saved}
  BY <1>1 DEF Mount
<1>4. <<>> \in Seq(Views)
  OBVIOUS
<1> HIDE DEF b
<1> QED
  BY <1>2, <1>3, <1>4 DEF Sound, Mount

-----------------------------------------------------------------------------
(* The steps of the page.                                                  *)

Kept == <<page, reduce, webgl, currentTheme, destroy, classDue, observing,
          screen>>

LEMMA SiteKept ==
    ASSUME Site, \A n \in Mounts : mount'[n].status = mount[n].status,
           UNCHANGED Kept
    PROVE  Site'
BY DEF Site, Kept, Used, Live

\* Frames, intersections: one mount goes on, as live as it was.
LEMMA OneStep ==
    ASSUME BackdropInv, NEW m \in Mounts, NEW r \in Mount, Sound(r),
           r.status = mount[m].status, r.pageVisible = mount[m].pageVisible,
           mount' = [mount EXCEPT ![m] = r],
           UNCHANGED <<rigid, hidden, scroll, theme, site, screen>>
    PROVE  BackdropInv'
<1>1. \A n \in Mounts : mount'[n] = IF n = m THEN r ELSE mount[n]
  BY DEF BackdropInv, Typed
<1>2. mount' \in [Mounts -> Mount]
  BY DEF BackdropInv, Typed
<1>3. Typed'
  BY <1>2 DEF BackdropInv, Typed
<1>4. \A n \in Mounts : Sound(mount'[n])
  BY <1>1 DEF BackdropInv
<1>5. Told'
  BY <1>1 DEF BackdropInv, Told, Live
<1>6. Site'
  BY <1>1, SiteKept DEF BackdropInv, Kept, rigid, site
<1> QED
  BY <1>3, <1>4, <1>5, <1>6 DEF BackdropInv

LEMMA FrameKeeps ==
    ASSUME BackdropInv, NEW m \in Mounts, Frame(m)
    PROVE  BackdropInv'
<1>1. PICK h \in mount[m].frames : mount' = [mount EXCEPT ![m] = Looped(@, h)]
  BY DEF Frame
<1> DEFINE r == Looped(mount[m], h)
<1>2. mount' = [mount EXCEPT ![m] = r]
  BY <1>1
<1>3. mount[m] \in Mount /\ Sound(mount[m])
  BY DEF BackdropInv, Typed
<1>4. /\ r \in Mount /\ Sound(r) /\ r.status = mount[m].status
      /\ r.pageVisible = mount[m].pageVisible
  BY <1>3, LoopedSound
<1>5. UNCHANGED <<rigid, hidden, scroll, theme, site, screen>>
  BY DEF Frame
<1> HIDE DEF r
<1> QED
  BY <1>2, <1>4, <1>5, OneStep

LEMMA ObserveKeeps ==
    ASSUME BackdropInv, NEW m \in Mounts, Observe(m)
    PROVE  BackdropInv'
<1> DEFINE q == Append(mount[m].entries, scroll)
           a == [mount[m] EXCEPT !.entries = q]
           r == [a EXCEPT !.reported = scroll]
<1>1. mount[m] \in Mount /\ Sound(mount[m]) /\ scroll \in Views
  BY DEF BackdropInv, Typed
<1>2. mount[m].entries \in Seq(Views)
  BY <1>1 DEF Mount
<1>3. q \in Seq(Views)
  BY <1>1, <1>2
<1>4. mount' = [mount EXCEPT ![m] = r]
  BY DEF Observe
<1> HIDE DEF q
<1>5. /\ a \in Mount /\ a.status = mount[m].status
      /\ a.pageVisible = mount[m].pageVisible /\ a.frames = mount[m].frames
      /\ a.raf = mount[m].raf /\ a.inView = mount[m].inView
  BY <1>1, <1>3 DEF Mount
<1> HIDE DEF a
<1>6. /\ r \in Mount /\ r.status = mount[m].status
      /\ r.pageVisible = mount[m].pageVisible /\ r.frames = mount[m].frames
      /\ r.raf = mount[m].raf /\ r.inView = mount[m].inView
  BY <1>1, <1>5 DEF Mount
<1> HIDE DEF r
<1>7. Sound(r)
  BY <1>1, <1>6 DEF Sound
<1>8. UNCHANGED <<rigid, hidden, scroll, theme, site, screen>>
  BY DEF Observe
<1> QED
  BY <1>4, <1>6, <1>7, <1>8, OneStep

LEMMA IntersectKeeps ==
    ASSUME BackdropInv, NEW m \in Mounts, Intersect(m)
    PROVE  BackdropInv'
<1> DEFINE r == Seen(mount[m])
<1>1. mount' = [mount EXCEPT ![m] = r]
  BY DEF Intersect
<1>2. /\ mount[m] \in Mount /\ Sound(mount[m])
      /\ mount[m].status = "live" /\ mount[m].entries # <<>>
  BY DEF BackdropInv, Typed, Intersect, Live
<1>3. /\ r \in Mount /\ Sound(r) /\ r.status = mount[m].status
      /\ r.pageVisible = mount[m].pageVisible
  BY <1>2, SeenSound
<1>4. UNCHANGED <<rigid, hidden, scroll, theme, site, screen>>
  BY DEF Intersect
<1> HIDE DEF r
<1> QED
  BY <1>1, <1>3, <1>4, OneStep

\* A change of theme, or the first: the script mounts what the theme wants.
LEMMA SiteMountKeeps ==
    ASSUME BackdropInv, page = "website", SiteMount, ~classDue',
           currentTheme = None \/ observing,
           UNCHANGED <<rigid, hidden, scroll, theme, screen>>
    PROVE  BackdropInv'
<1> DEFINE s == ShaderOf(theme)
<1>1. /\ Typed /\ Site /\ Told /\ \A m \in Mounts : Sound(mount[m])
      /\ theme # None /\ s \in {"molten", "gradient", "sliced"}
      /\ hidden \in BOOLEAN /\ None \notin Mounts
  BY BackdropAssumption DEF BackdropInv, Typed, Themes, None, ShaderOf,
     BackdropAssumption
<1>2. currentTheme' # None /\ page' = page /\ screen' = "off"
      /\ webgl' = webgl /\ reduce' = reduce /\ hidden' = hidden
  BY <1>1 DEF SiteMount, rigid, Site
<1> HIDE DEF s
<1>3. CASE ~webgl
  <2>1. destroy' = None /\ observing' = TRUE /\ mount' = mount
    BY <1>3 DEF SiteMount
  <2>2. Site'
    BY <1>1, <1>2, <1>3, <2>1 DEF Site, Used
  <2> QED
    BY <1>1, <2>1, <2>2 DEF BackdropInv, Typed, Told, Live
<1>4. CASE webgl /\ reduce
  <2>1. PICK m \in Mounts : /\ mount' = [mount EXCEPT ![m] = Thrown(s)]
                            /\ UNCHANGED <<destroy, observing>>
    BY <1>4 DEF SiteMount, s
  <2>2. /\ ~observing /\ destroy = None
        /\ \A n \in Mounts : ~Used(n)
    BY <1>1, <1>4 DEF Site
  <2>3. Thrown(s) \in Mount /\ Sound(Thrown(s)) /\ Thrown(s).status = "failed"
    BY <1>1, ThrownSound
  <2>4. \A n \in Mounts : mount'[n] = IF n = m THEN Thrown(s) ELSE mount[n]
    BY <1>1, <2>1 DEF Typed
  <2>5. mount' \in [Mounts -> Mount]
    BY <1>1, <2>1, <2>3 DEF Typed
  <2>6. Site'
    BY <1>1, <1>2, <1>4, <2>1, <2>2, <2>3, <2>4 DEF Site, Used
  <2>7. Told'
    BY <1>1, <1>2, <2>3, <2>4 DEF Told, Live
  <2> QED
    BY <1>1, <2>3, <2>4, <2>5, <2>6, <2>7 DEF BackdropInv, Typed
<1>5. CASE webgl /\ ~reduce
  <2>1. PICK m \in Mounts : /\ Free(m) /\ Swap(m)
                            /\ destroy' = m /\ observing' = TRUE
    BY <1>5 DEF SiteMount
  <2>2. mount[m].status = "free"
    BY <2>1, IdleSound DEF Free
  <2>3. m # destroy /\ (destroy \in Mounts => Live(destroy))
    BY <1>1, <2>2 DEF Site, Live
  <2>4. \A n \in Mounts : Used(n) => n = destroy
    BY <1>1 DEF Site
  <2> DEFINE new == Mounted(s)
  <2>5. new \in Mount /\ Sound(new) /\ new.status = "live"
        /\ new.pageVisible = ~hidden
    BY <1>1, MountedSound
  <2>6. \A n \in Mounts : n = destroy =>
            /\ Destroyed(mount[n]) \in Mount /\ Sound(Destroyed(mount[n]))
            /\ Destroyed(mount[n]).status = "free"
    BY <1>1, <2>3, DestroyedSound DEF Typed, Live
  <2>7. mount' = [n \in Mounts |-> IF n = m THEN new
                                   ELSE IF n = destroy THEN Destroyed(mount[n])
                                   ELSE mount[n]]
    <3>1. \A n \in Mounts :
              (CASE n = m -> new
                 [] n = destroy -> Destroyed(mount[n])
                 [] OTHER -> mount[n])
              = (IF n = m THEN new
                 ELSE IF n = destroy THEN Destroyed(mount[n]) ELSE mount[n])
      <4> HIDE DEF new
      <4> QED
        BY <2>3
    <3>2. mount' = [n \in Mounts |->
                      CASE n = m -> new
                        [] n = destroy -> Destroyed(mount[n])
                        [] OTHER -> mount[n]]
      BY <2>1 DEF Swap, s
    <3> HIDE DEF new
    <3> QED
      BY <3>1, <3>2
  <2> HIDE DEF new
  <2>8. \A n \in Mounts : mount[n] \in Mount /\ Sound(mount[n])
    BY <1>1 DEF Typed
  <2>9. \A n \in Mounts : mount'[n] \in Mount /\ Sound(mount'[n])
    BY <2>5, <2>6, <2>7, <2>8
  <2>10. \A n \in Mounts : mount'[n].status = IF n = m THEN "live" ELSE "free"
    BY <2>4, <2>5, <2>6, <2>7 DEF Used
  <2>11. mount' \in [Mounts -> Mount]
    BY <2>7, <2>9
  <2>12. Site'
    BY <1>2, <1>5, <2>1, <2>10 DEF Site, Used, Live
  <2>13. Told'
    BY <1>2, <2>5, <2>7, <2>10 DEF Told, Live
  <2> QED
    BY <1>1, <2>9, <2>11, <2>12, <2>13 DEF BackdropInv, Typed
<1> QED
  BY <1>3, <1>4, <1>5

LEMMA SiteBootKeeps ==
    ASSUME BackdropInv, SiteBoot
    PROVE  BackdropInv'
<1>1. ~classDue'
  BY DEF BackdropInv, SiteBoot, Site
<1> QED
  BY <1>1, SiteMountKeeps DEF SiteBoot

LEMMA ClassChangedKeeps ==
    ASSUME BackdropInv, ClassChanged
    PROVE  BackdropInv'
<1>1. CASE Recheck /\ page = "website"
  <2>1. observing
    BY <1>1 DEF BackdropInv, Site, ClassChanged
  <2> QED
    BY <1>1, <2>1, SiteMountKeeps DEF ClassChanged
<1>2. CASE ~Recheck
  BY <1>2 DEF ClassChanged, BackdropInv, Typed, Told, Site, Used, Live, rigid
<1>3. page = "website"
  BY DEF BackdropInv, Site, ClassChanged
<1> QED
  BY <1>1, <1>2, <1>3

LEMMA BootKeeps ==
    ASSUME BackdropInv, Boot
    PROVE  BackdropInv'
<1>1. page # "website"
  BY DEF BackdropInv, Site, Boot
<1> QED
  BY <1>1 DEF Boot, BackdropInv, Typed, Told, Site, Used, Live, rigid, site

LEMMA StartWavesKeeps ==
    ASSUME BackdropInv, StartWaves
    PROVE  BackdropInv'
<1>1. page # "website" /\ page' = page /\ ~classDue'
  BY DEF BackdropInv, Site, StartWaves, rigid, site
<1>2. Site'
  BY <1>1 DEF Site
<1>3. CASE mount' = mount
  BY <1>2, <1>3 DEF StartWaves, BackdropInv, Typed, Told, Live
<1>4. CASE \E m \in Mounts : mount' = [mount EXCEPT ![m] = Mounted("sliced")]
  <2>1. PICK m \in Mounts : mount' = [mount EXCEPT ![m] = Mounted("sliced")]
    BY <1>4
  <2> DEFINE new == Mounted("sliced")
  <2>2. /\ new \in Mount /\ Sound(new) /\ new.status = "live"
        /\ new.pageVisible = ~hidden
    BY MountedSound DEF BackdropInv, Typed
  <2>3. mount' = [mount EXCEPT ![m] = new]
    BY <2>1
  <2> HIDE DEF new
  <2>4. mount' \in [Mounts -> Mount]
    BY <2>2, <2>3 DEF BackdropInv, Typed
  <2>5. \A n \in Mounts : mount'[n] = IF n = m THEN new ELSE mount[n]
    BY <2>3 DEF BackdropInv, Typed
  <2> QED
    BY <1>2, <2>2, <2>4, <2>5 DEF StartWaves, BackdropInv, Typed, Told, Live
<1> QED
  BY <1>3, <1>4 DEF StartWaves

LEMMA ToggleHiddenKeeps ==
    ASSUME BackdropInv, ToggleHidden
    PROVE  BackdropInv'
<1> DEFINE to(m) == Shown(mount[m], hidden)
<1>1. \A m \in Mounts : mount[m] \in Mount /\ Sound(mount[m])
  BY DEF BackdropInv, Typed
<1>2. hidden \in BOOLEAN /\ hidden' = ~hidden
  BY DEF BackdropInv, Typed, ToggleHidden
<1>3. \A m \in Mounts : Live(m) =>
          /\ to(m) \in Mount /\ Sound(to(m)) /\ to(m).status = "live"
          /\ to(m).pageVisible = hidden
  BY <1>1, <1>2, ShownSound DEF Live
<1>4. mount' = [m \in Mounts |-> IF Live(m) THEN to(m) ELSE mount[m]]
  BY DEF ToggleHidden
<1> HIDE DEF to
<1>5. \A m \in Mounts : mount'[m] \in Mount /\ Sound(mount'[m])
  BY <1>1, <1>3, <1>4
<1>6. mount' \in [Mounts -> Mount]
  BY <1>4, <1>5
<1>7. \A m \in Mounts : mount'[m].status = mount[m].status
  BY <1>3, <1>4 DEF Live
<1>8. Site'
  BY <1>7, SiteKept DEF BackdropInv, ToggleHidden, Kept, rigid, site
<1>9. \A m \in Mounts : mount'[m].status = "live" =>
          mount'[m].pageVisible = ~hidden'
  BY <1>2, <1>3, <1>4, <1>7 DEF Live
<1>10. Told'
  BY <1>9 DEF Told, Live
<1> QED
  BY <1>2, <1>5, <1>6, <1>8, <1>10 DEF BackdropInv, Typed, ToggleHidden

LEMMA HideAuthKeeps ==
    ASSUME BackdropInv, HideAuth
    PROVE  BackdropInv'
<1> DEFINE to(m) == Released(mount[m])
<1>1. \A m \in Mounts : mount[m] \in Mount /\ Sound(mount[m])
  BY DEF BackdropInv, Typed
<1>2. \A m \in Mounts : to(m) \in Mount /\ Sound(to(m))
                        /\ to(m).status = "stopped"
  BY <1>1, ReleasedSound
<1>3. mount' = [m \in Mounts |-> IF Live(m) THEN to(m) ELSE mount[m]]
  BY DEF HideAuth
<1> HIDE DEF to
<1>4. \A m \in Mounts : /\ mount'[m] \in Mount /\ Sound(mount'[m])
                        /\ mount'[m].status # "live"
  BY <1>1, <1>2, <1>3 DEF Live
<1>5. mount' \in [Mounts -> Mount]
  BY <1>3, <1>4
<1>6. Site'
  BY DEF BackdropInv, Site, HideAuth, rigid, site
<1>7. Told'
  BY <1>4 DEF Told, Live
<1> QED
  BY <1>4, <1>5, <1>6, <1>7 DEF BackdropInv, Typed, HideAuth

LEMMA UserKeeps ==
    ASSUME BackdropInv, Scroll \/ FlipTheme \/ ShowAuth
    PROVE  BackdropInv'
<1>1. CASE Scroll
  BY <1>1 DEF Scroll, BackdropInv, Typed, Views, Told, Site, Used, Live,
     rigid, site
<1>2. CASE FlipTheme
  BY <1>2 DEF FlipTheme, BackdropInv, Typed, Told, Site, Used, Live, rigid
<1>3. CASE ShowAuth
  BY <1>3 DEF ShowAuth, BackdropInv, Typed, Told, Site, Used, Live, rigid,
     site
<1> QED
  BY <1>1, <1>2, <1>3

LEMMA BackdropInitially ==
    ASSUME BackdropInit
    PROVE  BackdropInv
<1>1. \A m \in Mounts : mount[m] = Idle
  BY DEF BackdropInit
<1>2. Typed
  BY IdleSound DEF BackdropInit, Typed, Views
<1>3. \A m \in Mounts : Sound(mount[m]) /\ ~Used(m) /\ ~Live(m)
  BY <1>1, IdleSound DEF Used, Live
<1>4. Site
  BY <1>3 DEF Site, BackdropInit
<1> QED
  BY <1>2, <1>3, <1>4 DEF BackdropInv, Told

LEMMA BackdropInductive ==
    ASSUME BackdropInv, [BackdropNext]_backdropVars
    PROVE  BackdropInv'
<1>1. CASE UNCHANGED backdropVars
  BY <1>1 DEF backdropVars, rigid, site, BackdropInv, Typed, Told, Site, Used,
     Live
<1>2. CASE \E m \in Mounts : Frame(m)
  BY <1>2, FrameKeeps
<1>3. CASE Browser
  BY <1>3, ObserveKeeps, IntersectKeeps DEF Browser
<1>4. CASE Scripts
  BY <1>4, SiteBootKeeps, ClassChangedKeeps, BootKeeps, StartWavesKeeps
     DEF Scripts
<1>5. CASE Scroll \/ ToggleHidden \/ FlipTheme \/ ShowAuth \/ HideAuth
  BY <1>5, UserKeeps, ToggleHiddenKeeps, HideAuthKeeps
<1> QED
  BY <1>1, <1>2, <1>3, <1>4, <1>5 DEF BackdropNext

LEMMA BackdropInvariant == BackdropSpec => []BackdropInv
BY BackdropInitially, BackdropInductive, PTL DEF BackdropSpec

-----------------------------------------------------------------------------
(* The theorems.                                                           *)

LEMMA AtMostOne ==
    ASSUME NEW S, NEW x, S \subseteq {x}
    PROVE  Cardinality(S) <= 1
<1>1. S = {} \/ S = {x}
  OBVIOUS
<1>2. Cardinality({}) = 0 /\ Cardinality({x}) = 1
  BY FS_EmptySet, FS_Singleton
<1> QED
  BY <1>1, <1>2

\* In every order of frames, observers, listeners and script calls a mount has
\* one callback scheduled at most, and stop() has its handle.
THEOREM LoopsRunOnce == BackdropSpec => []OneLoop
<1>1. ASSUME BackdropInv PROVE OneLoop
  <2> SUFFICES ASSUME NEW m \in Mounts
               PROVE  /\ Cardinality(mount[m].frames) <= 1
                      /\ Live(m) => mount[m].frames = {mount[m].raf} \ {0}
    BY DEF OneLoop
  <2>1. Sound(mount[m])
    BY <1>1 DEF BackdropInv
  <2>2. mount[m].frames \subseteq {mount[m].raf}
    BY <2>1 DEF Sound
  <2> QED
    BY <2>1, <2>2, AtMostOne DEF Sound, Live
<1> QED
  BY <1>1, BackdropInvariant, PTL

\* Nothing is scheduled for a mount that is out of view, as far as it was told,
\* or in a hidden page.
THEOREM NeverDrawsUnseen == BackdropSpec => []PausedUnseen
<1>1. BackdropInv => PausedUnseen
  BY DEF BackdropInv, Sound, Told, Live, PausedUnseen
<1> QED
  BY <1>1, BackdropInvariant, PTL

\* However often the theme changes, the website has one context at most, and
\* what destroy would tear down is the mount that runs.
THEOREM OneContextEver == BackdropSpec => []OneContext
<1>1. ASSUME BackdropInv, page = "website"
      PROVE  /\ Cardinality({m \in Mounts : mount[m].status # "free"}) <= 1
             /\ \A m \in Mounts :
                    mount[m].status = "free" => mount[m].frames = {}
             /\ destroy # None => Live(destroy)
  <2> DEFINE S == {m \in Mounts : mount[m].status # "free"}
  <2>1. \A m, n \in S : m = n
    BY <1>1 DEF BackdropInv, Site, Used
  <2>2. \E x : S \subseteq {x}
    BY <2>1
  <2>3. Cardinality(S) <= 1
    BY <2>2, AtMostOne
  <2> QED
    BY <1>1, <2>3 DEF BackdropInv, Sound, Site
<1>2. BackdropInv => OneContext
  BY <1>1 DEF OneContext
<1> QED
  BY <1>2, BackdropInvariant, PTL

=============================================================================
