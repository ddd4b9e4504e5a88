----------------------------- MODULE ChartBuild -----------------------------
(***************************************************************************)
(* What the chart builders of shadcn_init.js draw for a payload, and what  *)
(* the desktop client (app.rs) flags as empty.                             *)
(*                                                                         *)
(* A payload's values are a sequence with one number per label; those of   *)
(* an area chart are a sequence of such series.  Null is a gap: app.rs     *)
(* pads series with it.  What is drawn is, for every label, its height or  *)
(* its share: position, colour, size and ticks are left out.               *)
(***************************************************************************)
EXTENDS Integers, Sequences, SequencesExt

CONSTANT Null         \* JSON's null, and what JavaScript finds past the end

Kinds == {"area", "pie", "radar", "radial"}

At(s, p) == IF p \in 1 .. Len(s) THEN s[p] ELSE Null

\* Number(v) || 0
Number(v) == IF v = Null THEN 0 ELSE v

Total(s) == FoldLeft(LAMBDA a, v : a + Number(v), 0, s)

-----------------------------------------------------------------------------
(* The builders: a drawing per label.  An area's is one value per series.  *)

BuildArea(values, labels) ==
    LET series == IF values = <<>> THEN << <<>> >> ELSE values
    IN  [p \in 1 .. labels |-> [s \in 1 .. Len(series) |-> At(series[s], p)]]

\* Nothing at all is drawn as equal shares.
BuildPie(values, labels) ==
    [p \in 1 .. labels |->
        IF Total(values) = 0 THEN 1 ELSE Number(At(values, p))]

\* Radar and radial scale every axis to 0 .. 100.
BuildRadar(values, labels) ==
    [p \in 1 .. labels |-> Number(At(values, p))]

BuildRadial(values, labels) ==
    [p \in 1 .. labels |-> Number(At(values, p))]

Build(kind, values, labels) ==
    CASE kind = "pie"    -> BuildPie(values, labels)
      [] kind = "radar"  -> BuildRadar(values, labels)
      [] kind = "radial" -> BuildRadial(values, labels)
      [] OTHER           -> BuildArea(values, labels)

-----------------------------------------------------------------------------
(* The flags of app.rs: a payload without information is to be shown as    *)
(* "No data".                                                              *)

Bare(s) == \A p \in 1 .. Len(s) : Number(s[p]) = 0

AreaFlagged(values) == \A s \in 1 .. Len(values) : Bare(values[s])

\* Left to buildPie, which draws an "idle" ring.
PieNotFlagged(values) == FALSE

PieFlagged(values) == Total(values) = 0

RadarFlagged(values) == Bare(values)

\* "Never flagged empty: availability is meaningful".
Flagged(kind, values) ==
    CASE kind = "area"   -> AreaFlagged(values)
      [] kind = "pie"    -> PieFlagged(values)
      [] kind = "radar"  -> RadarFlagged(values)
      [] OTHER           -> FALSE

-----------------------------------------------------------------------------
\* A drawing says what the payload says: a height where something was
\* measured and nothing where nothing was; a gap in a series stays a gap.
Honest(kind, values, drawing) ==
    \A p \in DOMAIN drawing :
        IF kind = "area"
        THEN \A s \in 1 .. Len(values) : drawing[p][s] = At(values[s], p)
        ELSE drawing[p] = Number(At(values, p))

=============================================================================
