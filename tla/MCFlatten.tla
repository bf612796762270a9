------------------------------ MODULE MCFlatten ------------------------------
(* Instances of Flatten for TLC.                                           *)
EXTENDS Flatten, TLC

CONSTANTS w1, w2, x1, x2, polA, polB

at(d, k, p) == [day |-> d, week |-> k, phase |-> p]

\* Friday afternoon, the flatten window, the weekend (bucketed into Monday),
\* Monday's open.
Weekend == <<at(5, 1, "NO_NEW_ENTRIES"), at(5, 1, "FLATTEN_REQUIRED"),
             at(6, 2, "CLOSED"), at(6, 2, "OPEN")>>

\* A Friday whose flatten window does not end.
Friday == <<at(5, 1, "OPEN"), at(5, 1, "FLATTEN_REQUIRED")>>

OnePolicy == (w1 :> polA)
SamePolicy == (w1 :> polA) @@ (w2 :> polA)
==============================================================================
