------------------------- MODULE MCRecordMovements -------------------------
(* Two callers of one tenant, and batches that overlap.                    *)
EXTENDS RecordMovements

CONSTANTS c1, c2, t1, e1, e2, s1, s2, p1

MCTenantOf == [c \in Callers |-> t1]

Row(id, kind, quantity, when, sku) ==
    [id |-> id, kind |-> kind, quantity |-> quantity, when |-> when, sku |-> sku,
     place |-> p1]

One == Row(e1, "receipt", 2, 0, s1)
Two == Row(e2, "sale", -1, 0, s1)

\* Two movements in either order; the same with an identifier given twice, one
\* given again with other contents; rows refused for their own sake; an empty
\* batch and one too long.
MCBatches ==
    {<<One, Two>>, <<Two, One>>,
     <<Row(Malformed, "receipt", 1, 0, s1), Row(e1, "adjustment", -2, 1, s2), One>>,
     <<Row(e2, "adjustment", -3, 0, s2)>>, <<>>, <<One, Two, One, Two>>}

=============================================================================
