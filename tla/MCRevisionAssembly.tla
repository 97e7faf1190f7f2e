------------------------- MODULE MCRevisionAssembly --------------------------
(* Small instances of RevisionAssembly for TLC. *)
EXTENDS RevisionAssembly, TLC

CONSTANTS p1, p2, d1, d2, r1, r2

NoProject == {}
OneProject == {p1}
TwoProjects == {p1, p2}
OneRow == {d1}
TwoRows == {d1, d2}
OneRequest == {r1}
TwoRequests == {r1, r2}
OneFront == {1}
NoFront == {}


RowsAndRequests == Permutations({d1, d2}) \cup Permutations({r1, r2})
RowsAndProjects == Permutations({d1, d2}) \cup Permutations({p1, p2})
=============================================================================
