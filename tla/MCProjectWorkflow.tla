------------------------- MODULE MCProjectWorkflow -------------------------
(* Small instances of ProjectWorkflow for TLC. *)
EXTENDS ProjectWorkflow, TLC

CONSTANTS p1, p2, b1, b2, t1, t2

OneEach == {<<p>> : p \in Project}
InPairs == OneEach \cup {<<p1, p2>>, <<p2, p1>>}
(* A pair, or one project taken through the whole review at once. *)
Mixed == InPairs \cup {<<p, p, p>> : p \in Project}

EveryKind ==
  MoveKinds \cup {"author", "rollback", "merge", "out_authority", "cancel"}
NoCancel == EveryKind \ {"cancel"}
NoRollback == EveryKind \ {"rollback"}

Projects == Permutations(Project)
Symmetric == Permutations(Project) \cup Permutations(Request)
=============================================================================
