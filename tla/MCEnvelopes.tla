------------------------------ MODULE MCEnvelopes ------------------------------
(***************************************************************************)
(* An instance of Envelopes for TLC: two calls of create, that mint two    *)
(* envelopes, and a reservation, a release and a removal that meet on the  *)
(* first of them, with a reservation on the second.                        *)
(***************************************************************************)
EXTENDS Envelopes

CONSTANTS n1, n2, r1, r2, u, d, rent, food

MCKind == [c \in Calls |-> CASE c \in {n1, n2} -> "create"
                             [] c \in {r1, r2} -> "reserve"
                             [] c = u -> "unlock"
                             [] c = d -> "remove"]
MCEnvelope == [c \in Calls |-> IF c \in {n2, r2} THEN food ELSE rent]
MCAmount == [c \in Calls |-> IF c = r1 THEN 2 ELSE 1]
MCName == [e \in Envelopes |-> e]
=============================================================================
