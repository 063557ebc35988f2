---------------------------- MODULE MCQuestions ----------------------------
(* A tenant within the bound, one over it, and one never exported.         *)
EXTENDS Questions

CONSTANTS t1, t2, t3

MCHolds == [t \in Tenants |-> CASE t = t1 -> 1 [] t = t2 -> 2 [] OTHER -> 0]

\* One total; by day and product; the one combination that cannot be composed; no
\* measure; and a name that is not offered.
MCCompositions ==
    {<<{"net_quantity"}, {}, "recorded">>,
     <<{"movement_count", "on_hand_quantity"}, {"occurred_day", "product"}, "recorded">>,
     <<{"on_hand_quantity"}, {"recorded_day", "occurred_day"}, "occurred">>,
     <<{}, {"kind"}, "recorded">>,
     <<{"net_quantity"}, {"price"}, "recorded">>}

=============================================================================
