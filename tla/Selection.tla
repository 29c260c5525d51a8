----------------------------- MODULE Selection -----------------------------
(***************************************************************************)
(* What a filter or a retain leaves of a list, as a recursive function.    *)
(***************************************************************************)
EXTENDS Naturals, Sequences

Taken(q, ts) ==
    LET kept[n \in 0..Len(q)] ==
            IF n = 0 THEN <<>>
            ELSE IF q[n] \in ts THEN Append(kept[n - 1], q[n]) ELSE kept[n - 1]
    IN kept[Len(q)]
=============================================================================
