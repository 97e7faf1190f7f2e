------------------------- MODULE MCSupplementAssembly -------------------------
(* Small instances of SupplementAssembly for TLC. *)
EXTENDS SupplementAssembly, TLC

CONSTANTS p1, p2, d1, d2, r1, r2

OneProject == {p1}
TwoProjects == {p1, p2}
OneRow == {d1}
TwoRows == {d1, d2}
OneRequest == {r1}
TwoRequests == {r1, r2}
NoFront == {}
OneFront == {1}

Interchangeable == Permutations({d1, d2}) \cup Permutations({r1, r2})
===============================================================================
