------------------------------- MODULE MCPage -------------------------------
(* A backdrop and a copy button in one page, which share nothing. *)
EXTENDS Backdrop, CopyButton

MCHandles == 1 .. 4

Init == BackdropInit /\ CopyInit

Next ==
    \/ BackdropNext /\ UNCHANGED copyVars
    \/ CopyNext /\ UNCHANGED backdropVars

Spec ==
    /\ Init /\ [][Next]_<<backdropVars, copyVars>>
    /\ BackdropFairness /\ CopyFairness

=============================================================================
