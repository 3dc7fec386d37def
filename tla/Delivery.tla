------------------------------ MODULE Delivery ------------------------------
(***************************************************************************)
(* What the loss resolver of a session promises for the commands it sends  *)
(* to the game client: a command takes effect at most once; one that the   *)
(* client refuses is sent again or given up, and one that has taken effect *)
(* or was given up is never heard of again.                                *)
(***************************************************************************)
CONSTANT Cmds

VARIABLE fate

Fates == {"unsent", "inflight", "refused", "placed", "lost"}

Become(c, from, to) == fate[c] = from /\ fate' = [fate EXCEPT ![c] = to]

Init == fate = [c \in Cmds |-> "unsent"]

Send(c)   == Become(c, "unsent", "inflight")
Place(c)  == Become(c, "inflight", "placed")
Refuse(c) == Become(c, "inflight", "refused")
Resend(c) == Become(c, "refused", "inflight")
GiveUp(c) == Become(c, "refused", "lost")

Next == \E c \in Cmds : Send(c) \/ Place(c) \/ Refuse(c) \/ Resend(c) \/ GiveUp(c)

Spec == Init /\ [][Next]_fate
=============================================================================
