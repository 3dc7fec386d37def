-------------------------------- MODULE Jobs --------------------------------
(***************************************************************************)
(* What a session promises of its building jobs: a job begins when there   *)
(* is none, belongs to one thread, and is over when that thread says so.   *)
(* If the thread is gone before, the session builds nothing until it is    *)
(* closed.  A session that two jobs or two owners share promises nothing.  *)
(***************************************************************************)
CONSTANTS Threads, Sessions, NoThread

VARIABLES phase, worker

vars == <<phase, worker>>

Become(s, from, to, t) ==
    /\ phase[s] \in from
    /\ phase' = [phase EXCEPT ![s] = to]
    /\ worker' = [worker EXCEPT ![s] = t]

Init ==
    /\ phase = [s \in Sessions |-> "closed"]
    /\ worker = [s \in Sessions |-> NoThread]

Open(s)     == Become(s, {"closed"}, "idle", NoThread)
Share(s)    == Become(s, {"closed", "idle"}, "shared", NoThread)
Begin(s, t) == Become(s, {"idle"}, "building", t)
Finish(s)   == Become(s, {"building"}, "idle", NoThread)
Abandon(s)  == Become(s, {"building"}, "stuck", NoThread)
Close(s)    == Become(s, {"idle", "building", "stuck", "shared"}, "closed", NoThread)

Next ==
    \E s \in Sessions :
        \/ Open(s) \/ Share(s) \/ Finish(s) \/ Abandon(s) \/ Close(s)
        \/ \E t \in Threads : Begin(s, t)

Spec == Init /\ [][Next]_vars
=============================================================================
