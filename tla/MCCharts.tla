------------------------------ MODULE MCCharts ------------------------------
(* One chart, two containers that take turns, small payloads. *)
EXTENDS ChartEngine

\* A placeholder, a payload with nothing in it, one with something.
MCValues ==
    [k \in Kinds |->
        CASE k = "area" -> << << <<Null, Null>> >>, << <<Null, 0>> >>,
                              << <<Null, 2>> >> >>
          [] OTHER      -> << <<1, 1>>, <<0, 0>>, <<3, 0>> >>]

MCKindOf == [i \in Ids |-> "pie"]

\* Which of the two themes comes first makes no difference.
MCInit == Init /\ theme = 1

MCSpec == MCInit /\ [][Next]_vars /\ Fairness

=============================================================================
