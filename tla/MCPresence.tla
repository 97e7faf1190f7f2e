----------------------------- MODULE MCPresence -----------------------------
(* One user. *)
EXTENDS Presence, TLC
CONSTANTS u1, w1, w2, c1, c2
MCUser == {u1}
MCSocket == {w1, w2}
MCSlot == {c1, c2}
Symmetric == Permutations({w1, w2}) \cup Permutations({c1, c2})
=============================================================================
