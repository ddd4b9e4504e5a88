------------------------------ MODULE Backdrop ------------------------------
(***************************************************************************)
(* The animated backdrops: SlicedWaves behind the sign-in screen of the    *)
(* desktop client (sliced_waves.js, AuthScreen in app.rs), MoltenMetal and *)
(* GradientWaves behind the pages of the website (molten-metal.ts,         *)
(* gradient-waves.ts, SiteBackground.astro).                               *)
(*                                                                         *)
(* The three have one loop in common: a frame callback that schedules the  *)
(* next one, and an intersection observer and a visibility listener that   *)
(* start and stop it.  A mount is one run of a mount function: its canvas, *)
(* WebGL context, observers, listeners, loop.  What is drawn (shaders,     *)
(* uniforms, sizes, the mouse) is left out.                                *)
(***************************************************************************)
EXTENDS Naturals, Sequences, FiniteSets

CONSTANTS
    Mounts,
    Handles,          \* of animation frames, three or more; 0 is no handle
    MaxBatch,         \* bound: intersections observed and not yet delivered
    MaxEvents         \* bound: what the user does

ASSUME BackdropAssumption ==
    /\ "none" \notin Mounts
    /\ Handles # {} /\ Handles \subseteq Nat \ {0}
    /\ \A g, h \in Handles : Handles \ {g, h} # {}
    /\ MaxBatch \in Nat \ {0}
    /\ MaxEvents \in Nat

VARIABLES
    \* the browser
    page,             \* "desktop" or "website"
    reduce,           \* prefers-reduced-motion
    webgl,            \* WebGL2 is available
    hidden,           \* document.hidden
    scroll,           \* the host is "in" or "out" of the viewport
    theme,            \* the class of the root element
    events,           \* counts to MaxEvents
    \* the mounts
    mount,            \* a record for each, see Idle
    \* SiteBackground.astro
    currentTheme,     \* its currentTheme
    destroy,          \* the mount its destroy belongs to
    classDue,         \* its mutation observer is to report a change
    observing,        \* its mutation observer is installed
    \* AuthScreen
    screen            \* "off", "boot" (the script is evaluated), "start", "on"

rigid == <<page, reduce, webgl>>
site == <<currentTheme, destroy, classDue, observing>>
backdropVars == <<rigid, hidden, scroll, theme, events, mount, site, screen>>

Themes == {"dark", "light"}
None == "none"

ShaderOf(t) == IF t = "dark" THEN "molten" ELSE "gradient"

\* The state of a mount function.  frames is the browser's: the callbacks it
\* will call; entries and reported belong to the intersection observer; saved
\* is the copy of raf that sliced_waves.js keeps in its states.
Idle ==
    [status |-> "free", shader |-> None, raf |-> 0, saved |-> 0,
     inView |-> TRUE, pageVisible |-> TRUE, frames |-> {},
     entries |-> <<>>, reported |-> None]

Live(m) == mount[m].status = "live"
Free(m) == mount[m] = Idle

BackdropInit ==
    /\ page \in {"desktop", "website"}
    /\ reduce \in BOOLEAN
    /\ webgl \in BOOLEAN
    /\ hidden \in BOOLEAN
    /\ scroll = "in"
    /\ theme \in Themes
    /\ events = 0
    /\ mount = [m \in Mounts |-> Idle]
    /\ currentTheme = None
    /\ destroy = None
    /\ classDue = FALSE
    /\ observing = FALSE
    /\ screen = "off"

-----------------------------------------------------------------------------
(* The loop of a mount r.                                                  *)

\* The browser hands out handles nobody holds.
NewHandle(r) == CHOOSE h \in Handles : h \notin r.frames \cup {r.raf, r.saved}

Scheduled(r, h) == [r EXCEPT !.raf = h, !.frames = @ \cup {h}]

\* start() without a look at raf: a second loop beside the first.
StartTwice(r) ==
    IF r.inView /\ r.pageVisible THEN Scheduled(r, NewHandle(r)) ELSE r

\* start() without a look at inView: the tab comes back, the hero does not.
StartUnseen(r) ==
    IF r.pageVisible /\ r.raf = 0 THEN Scheduled(r, NewHandle(r)) ELSE r

\* start(), tryStart()
Start(r) ==
    IF r.inView /\ r.pageVisible /\ r.raf = 0
    THEN Scheduled(r, NewHandle(r)) ELSE r

\* stop() that keeps the handle of the frame it cancelled.
StopHolding(r) == [r EXCEPT !.frames = @ \ {r.raf}]

\* stop(), tryStop()
Stop(r) == [r EXCEPT !.frames = @ \ {r.raf}, !.raf = 0]

\* loop(), called for handle h: draws and schedules the next frame.
Looped(r, h) == Scheduled([r EXCEPT !.frames = @ \ {h}], NewHandle(r))

\* The callback of the intersection observer reads the first entry it gets.
Seen(r) ==
    LET view == [r EXCEPT !.inView = (Head(r.entries) = "in"), !.entries = <<>>]
    IN  IF view.inView THEN Start(view) ELSE Stop(view)

\* onVisibility()
Shown(r, visible) ==
    LET v == [r EXCEPT !.pageVisible = visible]
    IN  IF visible THEN Start(v) ELSE Stop(v)

\* Canvas, context and program, observers and listeners.
Opened(s) ==
    [Idle EXCEPT !.status = "live", !.shader = s, !.pageVisible = ~hidden]

\* A mount that got its context schedules a frame.  Where the waves keep a
\* copy of raf it is made once, then.
Mounted(s) ==
    LET r == Start(Opened(s))
    IN  [r EXCEPT !.saved = IF s = "sliced" THEN r.raf ELSE 0]

\* Under reduced motion the mount functions of the website draw from setSize()
\* before the const draw() reads is initialised: they throw, and leave the
\* canvas, its context and a resize observer behind.
Thrown(s) == [Idle EXCEPT !.status = "failed", !.shader = s]

\* destroy(): loop, observers, listeners, context, canvas.
Destroyed(r) == [Idle EXCEPT !.frames = Stop(r).frames]

\* __octoportSlicedWavesStop(): it cancels the frame it has the handle of.
Released(r) ==
    [r EXCEPT !.status = "stopped", !.frames = @ \ {r.saved}, !.entries = <<>>]

-----------------------------------------------------------------------------
(* The browser calls.                                                      *)

Frame(m) ==
    /\ ~hidden
    /\ \E h \in mount[m].frames : mount' = [mount EXCEPT ![m] = Looped(@, h)]
    /\ UNCHANGED <<rigid, hidden, scroll, theme, events, site, screen>>

\* The page is rendered: the intersection is not what was reported last.
Observe(m) ==
    /\ ~hidden
    /\ Live(m)
    /\ mount[m].reported # scroll
    /\ Len(mount[m].entries) < MaxBatch
    /\ mount' = [mount EXCEPT ![m].entries = Append(@, scroll),
                              ![m].reported = scroll]
    /\ UNCHANGED <<rigid, hidden, scroll, theme, events, site, screen>>

Intersect(m) ==
    /\ Live(m)
    /\ mount[m].entries # <<>>
    /\ mount' = [mount EXCEPT ![m] = Seen(@)]
    /\ UNCHANGED <<rigid, hidden, scroll, theme, events, site, screen>>

-----------------------------------------------------------------------------
(* SiteBackground.astro: one shader at a time, chosen by the theme.        *)

\* The new shader starts beside the old one.
SwapBeside(new) ==
    mount' = [mount EXCEPT ![new] = Mounted(ShaderOf(theme))]

\* mount(), for a theme that is not the one it mounted last: destroy?.(), then
\* the mount function of the theme.  Without WebGL2 that is a noop.
Swap(new) ==
    mount' = [m \in Mounts |->
                CASE m = new     -> Mounted(ShaderOf(theme))
                  [] m = destroy -> Destroyed(mount[m])
                  [] OTHER       -> mount[m]]

SiteMount ==
    /\ currentTheme' = theme
    /\ IF ~webgl
       THEN destroy' = None /\ observing' = TRUE /\ UNCHANGED mount
       ELSE \E m \in Mounts :
            /\ Free(m)
            /\ IF reduce
               THEN /\ mount' = [mount EXCEPT ![m] = Thrown(ShaderOf(theme))]
                    /\ UNCHANGED <<destroy, observing>>
               ELSE /\ Swap(m)
                    /\ destroy' = m
                    /\ observing' = TRUE

\* The script of the page: what follows a mount that throws is not reached.
SiteBoot ==
    /\ page = "website"
    /\ currentTheme = None
    /\ SiteMount
    /\ UNCHANGED <<rigid, hidden, scroll, theme, events, classDue, screen>>

\* The shader that was mounted first stays.
RecheckFirst == currentTheme = None

\* mount() returns early for the theme it mounted last.
Recheck == theme # currentTheme

\* The mutation observer reports: mount() reads the class of this moment.
ClassChanged ==
    /\ classDue
    /\ classDue' = FALSE
    /\ IF Recheck THEN SiteMount
                  ELSE UNCHANGED <<currentTheme, destroy, observing, mount>>
    /\ UNCHANGED <<rigid, hidden, scroll, theme, events, screen>>

-----------------------------------------------------------------------------
(* AuthScreen: evaluate the script, then start it; stop it on drop.  The   *)
(* evals arrive in the order they were made.                               *)

Boot ==
    /\ screen = "boot"
    /\ screen' = "start"
    /\ UNCHANGED <<rigid, hidden, scroll, theme, events, mount, site>>

\* __octoportSlicedWaves(): returns when its canvas runs already.
StartWaves ==
    /\ screen = "start"
    /\ screen' = "on"
    /\ IF webgl /\ ~ \E m \in Mounts : Live(m)
       THEN \E m \in Mounts :
               /\ Free(m)
               /\ mount' = [mount EXCEPT ![m] = Mounted("sliced")]
       ELSE UNCHANGED mount
    /\ UNCHANGED <<rigid, hidden, scroll, theme, events, site>>

-----------------------------------------------------------------------------
(* The user.                                                               *)

Event == events < MaxEvents /\ events' = events + 1

Scroll ==
    /\ Event
    /\ scroll' \in {"in", "out"} \ {scroll}
    /\ UNCHANGED <<rigid, hidden, theme, mount, site, screen>>

\* The listeners of every mount that has them run at once.
ToggleHidden ==
    /\ Event
    /\ hidden' = ~hidden
    /\ mount' = [m \in Mounts |-> IF Live(m) THEN Shown(mount[m], hidden)
                                             ELSE mount[m]]
    /\ UNCHANGED <<rigid, scroll, theme, site, screen>>

\* The theme toggle of the site.
FlipTheme ==
    /\ Event
    /\ page = "website"
    /\ theme' \in Themes \ {theme}
    /\ classDue' = observing
    /\ UNCHANGED <<rigid, hidden, scroll, mount, currentTheme, destroy,
                   observing, screen>>

\* The session ends, and the sign-in screen is shown.
ShowAuth ==
    /\ Event
    /\ page = "desktop"
    /\ screen = "off"
    /\ screen' = "boot"
    /\ UNCHANGED <<rigid, hidden, scroll, theme, mount, site>>

\* A session starts: use_drop stops the waves, and the task that was to start
\* them is dropped.
HideAuth ==
    /\ Event
    /\ screen # "off"
    /\ screen' = "off"
    /\ mount' = [m \in Mounts |-> IF Live(m) THEN Released(mount[m])
                                             ELSE mount[m]]
    /\ UNCHANGED <<rigid, hidden, scroll, theme, site>>

-----------------------------------------------------------------------------
Browser == \E m \in Mounts : Observe(m) \/ Intersect(m)

Scripts == SiteBoot \/ ClassChanged \/ Boot \/ StartWaves

BackdropNext ==
    \/ \E m \in Mounts : Frame(m)
    \/ Browser
    \/ Scripts
    \/ Scroll \/ ToggleHidden \/ FlipTheme \/ ShowAuth \/ HideAuth

\* Observers report and scripts are run.
BackdropFairness == WF_backdropVars(Browser) /\ WF_backdropVars(Scripts)

-----------------------------------------------------------------------------
(* Properties.                                                             *)

\* A loop never runs twice: whatever the order in which frames, observers and
\* listeners are called, at most one callback of a mount is scheduled, and its
\* raf is the one that would cancel it.
OneLoop ==
    \A m \in Mounts :
        LET r == mount[m]
        IN  /\ Cardinality(r.frames) <= 1
            /\ Live(m) => r.frames = {r.raf} \ {0}

\* "Pauses the RAF loop off-screen and while the tab is hidden": a mount that
\* was told that it is out of view, or is in a hidden page, schedules nothing.
PausedUnseen ==
    \A m \in Mounts :
        Live(m) /\ mount[m].frames # {} =>
            mount[m].inView /\ mount[m].pageVisible /\ ~hidden

\* "Only one shader is ever running -- switching themes tears the old one down
\* before starting the new one, so we never pay for two WebGL contexts."  What
\* destroy tears down is the mount that runs, never one that is gone.
OneContext ==
    page = "website" =>
        /\ Cardinality({m \in Mounts : mount[m].status # "free"}) <= 1
        /\ \A m \in Mounts : mount[m].status = "free" => mount[m].frames = {}
        /\ destroy # None => Live(destroy)

\* However often the theme is toggled, what runs in the end is the shader of
\* the theme, once; and it runs if the page is looked at.
ThemeShows ==
    (page = "website" /\ webgl /\ ~reduce) =>
        <>[](\E m \in Mounts :
                /\ Live(m) /\ mount[m].shader = ShaderOf(theme)
                /\ (scroll = "in" /\ ~hidden => mount[m].frames # {}))

\* The waves of a sign-in screen that stays start, and they stop and start
\* again with the window.
WavesShow ==
    <>[](screen # "off" /\ webgl) =>
        <>[](\E m \in Mounts :
                /\ Live(m)
                /\ (scroll = "in" /\ ~hidden => mount[m].frames # {})
                /\ (hidden => mount[m].frames = {}))

=============================================================================
