----------------------------- MODULE MCSessions -----------------------------
(* Values of Sessions' constants for TLC: every row belongs to one user. *)
EXTENDS Sessions

MCUser       == CHOOSE u \in Users : TRUE
MCOwner      == [s \in Sessions |-> MCUser]
MCTokenOwner == [t \in Tokens |-> MCUser]
=============================================================================
