---------------------------- MODULE MCBuildJobs ----------------------------
(* Small instances of BuildJobs for TLC. *)
EXTENDS BuildJobs, TLC

CONSTANTS
    Stays,     \* a session that is never closed, or no session at all
    Issued     \* the kinds of commands that are issued

\* Threads are interchangeable: no action singles one out.
MCSymmetry == Permutations(Threads)

\* A process that is gone takes no step: its states need not be stored.
MCBound ==
    /\ up
    /\ closing = NoSession \/ closing # Stays
    /\ \A t \in Threads : Working(t) => job[t] \in Issued
=============================================================================
