------------------------- MODULE MCCommandTracker -------------------------
(* Small instances of CommandTracker for TLC. *)
EXTENDS CommandTracker, TLC

MCSymmetry == Permutations(Threads) \cup Permutations(Cmds)
=============================================================================
