----------------------------- MODULE ChartView -----------------------------
(***************************************************************************)
(* What the charts of the desktop client promise their reader: a chart     *)
(* that is on the page shows a payload that was pushed for it; it never    *)
(* goes back to an older one; and a container put in the place of another  *)
(* one starts from what had been pushed by then, not from its placeholder. *)
(*                                                                         *)
(* Payloads are numbered in the order of their making; number 1 is the     *)
(* placeholder a container comes with, and 0 stands for a blank chart.     *)
(***************************************************************************)
EXTENDS Naturals

CONSTANT Ids          \* the charts, by the id of their container

VARIABLES
    latest,           \* the newest payload that was pushed for a chart
    base,             \* what latest was when the chart's container appeared
    shown             \* the payload the reader sees

viewVars == <<latest, base, shown>>

Blank == 0
Placeholder == 1

Init ==
    /\ latest = [i \in Ids |-> Placeholder]
    /\ base = [i \in Ids |-> Placeholder]
    /\ shown = [i \in Ids |-> Blank]

\* A batch of payloads arrives, each at least as new as the one before.
Receive ==
    /\ latest' \in [Ids -> Nat]
    /\ \A i \in Ids : latest'[i] >= latest[i]
    /\ UNCHANGED <<base, shown>>

\* A blank container takes the place of what was there.
Appear(i) ==
    /\ base' = [base EXCEPT ![i] = latest[i]]
    /\ shown' = [shown EXCEPT ![i] = Blank]
    /\ UNCHANGED latest

Vanish(i) ==
    /\ shown' = [shown EXCEPT ![i] = Blank]
    /\ UNCHANGED <<latest, base>>

\* The chart is painted, perhaps with a payload that is no longer the newest.
Paint(i) ==
    \E v \in base[i] .. latest[i] :
        /\ v >= shown[i]
        /\ shown' = [shown EXCEPT ![i] = v]
        /\ UNCHANGED <<latest, base>>

Next == Receive \/ \E i \in Ids : Appear(i) \/ Vanish(i) \/ Paint(i)

Spec == Init /\ [][Next]_viewVars

=============================================================================
