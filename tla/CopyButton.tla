----------------------------- MODULE CopyButton -----------------------------
(***************************************************************************)
(* The copy button initCopyButtons (copy-code.ts) puts into a code box: a  *)
(* click writes to the clipboard, says so when the write is done or        *)
(* refused, and takes the message back 1.6 s later.  Nothing keeps two     *)
(* clicks apart.                                                           *)
(***************************************************************************)
EXTENDS Naturals

CONSTANT MaxClicks    \* bound

VARIABLES
    clicks,           \* counts to MaxClicks
    writes,           \* clipboard writes a click waits for
    resets,           \* timers that will put the button back
    title,
    checked           \* the check mark stands in the place of the copy icon

copyVars == <<clicks, writes, resets, title, checked>>

CopyInit ==
    /\ clicks = 0
    /\ writes = 0
    /\ resets = 0
    /\ title = "Copy"
    /\ checked = FALSE

Click ==
    /\ clicks < MaxClicks
    /\ clicks' = clicks + 1
    /\ writes' = writes + 1
    /\ UNCHANGED <<resets, title, checked>>

\* The handler goes on after its await: one write is done.
Confirm ==
    /\ writes > 0
    /\ writes' = writes - 1
    /\ resets' = resets + 1
    /\ title' = "Copied"
    /\ checked' = TRUE
    /\ UNCHANGED clicks

\* The write is refused: the title asks for the keyboard, the icon stays.
Refuse ==
    /\ writes > 0
    /\ writes' = writes - 1
    /\ resets' = resets + 1
    /\ title' = "Press"
    /\ UNCHANGED <<clicks, checked>>

\* The title is put back and the check mark is left.
ResetTitle ==
    /\ resets > 0
    /\ resets' = resets - 1
    /\ title' = "Copy"
    /\ UNCHANGED <<clicks, writes, checked>>

Reset ==
    /\ resets > 0
    /\ resets' = resets - 1
    /\ title' = "Copy"
    /\ checked' = FALSE
    /\ UNCHANGED <<clicks, writes>>

Answer == Confirm \/ Refuse

CopyNext == Click \/ Answer \/ Reset

CopyFairness == WF_copyVars(Answer) /\ WF_copyVars(Reset)

-----------------------------------------------------------------------------
\* However clicks, answers and timers mix, the button ends as it began.
ButtonReturns == <>[](title = "Copy" /\ ~checked)

=============================================================================
