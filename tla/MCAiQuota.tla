----------------------------- MODULE MCAiQuota ------------------------------
(* Two requests of one user. *)
EXTENDS AiQuota, TLC
CONSTANTS q1, q2
TwoSlots == {q1, q2}
Two == {2}
Symmetric == Permutations(TwoSlots)
=============================================================================
