----------------------------- MODULE MCSessions -----------------------------
(* Small instances of Sessions for TLC. *)
EXTENDS Sessions, TLC

MCSymmetry == Permutations(Conns) \cup Permutations(Addrs)

\* The states of a process that is gone have no successor and are not kept.
MCBound == gone = "no"
=============================================================================
