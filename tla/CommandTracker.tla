--------------------------- MODULE CommandTracker ---------------------------
(***************************************************************************)
(* The commands of one session and its PLResolver (core/                   *)
(* packetlossresolver.cpp): FastBuilderSession::sendCommand sends a        *)
(* command and then tracks it in pkmap; the client's answer, handled by a  *)
(* thread of its own, removes it from pkmap or, when it is an error, sends *)
(* it again; the end of a job clears pkmap.  pkmutex guards pkmap, but not *)
(* the sending that comes before addCommand.                               *)
(*                                                                         *)
(* The websocket loop hands a message to its thread through a pointer to a *)
(* variable of a handler that has returned (core/fbws.cpp:63-64).  The     *)
(* thread may find its own message there, or nothing it can parse, or a    *)
(* later message, whose own thread then handles it a second time.          *)
(***************************************************************************)
EXTENDS Naturals, FiniteSets

CONSTANTS
    Threads,       \* threads that run handlers of this session
    Cmds,          \* tracked commands, each with its uuid
    NoThread, NoCmd,
    MaxErrors,     \* bound: how often the client refuses each command
    MaxMisreads    \* bound: how often a thread reads a later message

ASSUME NoThreadAssumption == NoThread \notin Threads
ASSUME NoCmdAssumption == NoCmd \notin Cmds
ASSUME BoundsAssumption == MaxErrors \in Nat /\ MaxMisreads \in Nat

VARIABLES
    pc,          \* where each thread is
    arg,         \* the command it handles
    pkmap,       \* PLResolver::pkmap
    pkmutex,     \* the thread that holds PLResolver::pkmutex
    sent,        \* commands that have been sent a first time
    wire,        \* copies of a command on the way to the client
    oks,         \* its commandResponse messages on the way back
    errs,        \* its error messages on the way back
    executed,    \* history: how often the client executed it
    refused,     \* history: how often the client refused it
    misreads,    \* history: faulty hand-overs of a later message
    doubled,     \* history: error messages of a command handled twice
    excused      \* history: commands with an answer that came before their
                 \* tracking or not at all, or dropped by clear

thrVars  == <<pc, arg>>
mapVars  == <<pkmap, pkmutex>>
netVars  == <<wire, oks, errs>>
worldVars == <<executed, refused>>
vars == <<thrVars, mapVars, sent, netVars, worldVars, misreads, doubled, excused>>

Pcs == {"idle", "track", "remove", "resend", "sending", "unlock", "clear"}
Answers == {"ok", "error"}

Idle(t) == pc[t] = "idle"
Unlocked == pkmutex = NoThread
Inc(f, c) == [f EXCEPT ![c] = @ + 1]
Dec(f, c) == [f EXCEPT ![c] = @ - 1]
Go(t, to, c) == pc' = [pc EXCEPT ![t] = to] /\ arg' = [arg EXCEPT ![t] = c]
Finish(t) == Go(t, "idle", NoCmd)

\* the answer to c is handled before addCommand(c) is through
Overtaken(c) ==
    excused' = IF \E t \in Threads : pc[t] = "track" /\ arg[t] = c
               THEN excused \cup {c} ELSE excused

Init ==
    /\ pc = [t \in Threads |-> "idle"]
    /\ arg = [t \in Threads |-> NoCmd]
    /\ pkmap = {}
    /\ pkmutex = NoThread
    /\ sent = {}
    /\ wire = [c \in Cmds |-> 0]
    /\ oks = [c \in Cmds |-> 0]
    /\ errs = [c \in Cmds |-> 0]
    /\ executed = [c \in Cmds |-> 0]
    /\ refused = [c \in Cmds |-> 0]
    /\ misreads = 0
    /\ doubled = [c \in Cmds |-> 0]
    /\ excused = {}

-----------------------------------------------------------------------------
(* sendCommand without a uuid: send, then addCommand *)

SendCommand(t, c) ==
    /\ Idle(t) /\ c \notin sent
    /\ sent' = sent \cup {c}
    /\ wire' = Inc(wire, c)
    /\ Go(t, "track", c)
    /\ UNCHANGED <<mapVars, oks, errs, worldVars, misreads, doubled, excused>>

AddCommand(t) ==
    /\ pc[t] = "track" /\ Unlocked
    /\ pkmap' = pkmap \cup {arg[t]}
    /\ Finish(t)
    /\ UNCHANGED <<pkmutex, sent, netVars, worldVars, misreads, doubled, excused>>

\* clear at the end of a job: pkmap is emptied whatever is still on its way
ReachClear(t) ==
    /\ Idle(t)
    /\ Go(t, "clear", NoCmd)
    /\ UNCHANGED <<mapVars, sent, netVars, worldVars, misreads, doubled, excused>>

\* Slip: what is still tracked is sent once more, as in the code commented out
\* in PLResolver::clear
ClearResends(t) ==
    /\ pc[t] = "clear" /\ Unlocked
    /\ pkmap' = {}
    /\ wire' = [c \in Cmds |-> IF c \in pkmap THEN wire[c] + 1 ELSE wire[c]]
    /\ Finish(t)
    /\ UNCHANGED <<pkmutex, sent, oks, errs, worldVars, misreads, doubled, excused>>

Clear(t) ==
    /\ pc[t] = "clear" /\ Unlocked
    /\ pkmap' = {}
    /\ excused' = excused \cup pkmap
    /\ Finish(t)
    /\ UNCHANGED <<pkmutex, sent, netVars, worldVars, misreads, doubled>>

-----------------------------------------------------------------------------
(* The client *)

Execute(c) ==
    /\ wire[c] > 0
    /\ wire' = Dec(wire, c)
    /\ executed' = Inc(executed, c)
    /\ oks' = Inc(oks, c)
    /\ UNCHANGED <<thrVars, mapVars, sent, errs, refused, misreads, doubled,
                   excused>>

Refuse(c) ==
    /\ wire[c] > 0 /\ refused[c] < MaxErrors
    /\ wire' = Dec(wire, c)
    /\ refused' = Inc(refused, c)
    /\ errs' = Inc(errs, c)
    /\ UNCHANGED <<thrVars, mapVars, sent, oks, executed, misreads, doubled,
                   excused>>

-----------------------------------------------------------------------------
(* Answers: the hand-over to a thread, then FastBuilderSession::onMsg *)

Arrived(c, a) == IF a = "ok" THEN oks[c] > 0 ELSE errs[c] > 0

Take(c, a) ==
    IF a = "ok" THEN oks' = Dec(oks, c) /\ UNCHANGED errs
                ELSE errs' = Dec(errs, c) /\ UNCHANGED oks

Handle(t, c, a) == Go(t, IF a = "ok" THEN "remove" ELSE "resend", c)

OnMsg(t, c, a) ==
    /\ Idle(t) /\ Arrived(c, a)
    /\ Take(c, a)
    /\ Handle(t, c, a)
    /\ UNCHANGED <<mapVars, sent, wire, worldVars, misreads, doubled, excused>>

\* The thread finds nothing it can parse: the message is dropped.
Garbled(c, a) ==
    /\ Arrived(c, a)
    /\ Take(c, a)
    /\ excused' = excused \cup {c}
    /\ UNCHANGED <<thrVars, mapVars, sent, wire, worldVars, misreads, doubled>>

\* The thread of a message about c reads a later one about d instead.
Misread(t, c, a, d, b) ==
    /\ misreads < MaxMisreads
    /\ Idle(t) /\ Arrived(c, a) /\ Arrived(d, b) /\ <<c, a>> # <<d, b>>
    /\ Take(c, a)
    /\ Handle(t, d, b)
    /\ excused' = excused \cup {c}
    /\ misreads' = misreads + 1
    /\ doubled' = IF b = "error" THEN Inc(doubled, d) ELSE doubled
    /\ UNCHANGED <<mapVars, sent, wire, worldVars>>

\* Slip: the entry is found but not erased
RemoveCommandKeeps(t) ==
    /\ pc[t] = "remove" /\ Unlocked
    /\ Overtaken(arg[t])
    /\ Finish(t)
    /\ UNCHANGED <<mapVars, sent, netVars, worldVars, misreads, doubled>>

RemoveCommand(t) ==
    /\ pc[t] = "remove" /\ Unlocked
    /\ pkmap' = pkmap \ {arg[t]}
    /\ Overtaken(arg[t])
    /\ Finish(t)
    /\ UNCHANGED <<pkmutex, sent, netVars, worldVars, misreads, doubled>>

\* Slip: the result of find is not used
ResendUnknownAlways(t) ==
    /\ pc[t] = "resend" /\ Unlocked
    /\ Overtaken(arg[t])
    /\ Finish(t)
    /\ UNCHANGED <<mapVars, sent, netVars, worldVars, misreads, doubled>>

\* Slip: the early return forgets pkmutex.unlock()
ResendUnknownKeepsLock(t) ==
    /\ pc[t] = "resend" /\ Unlocked /\ arg[t] \notin pkmap
    /\ pkmutex' = t
    /\ Overtaken(arg[t])
    /\ Finish(t)
    /\ UNCHANGED <<pkmap, sent, netVars, worldVars, misreads, doubled>>

\* resendCommand of a uuid that is not in pkmap does nothing
ResendUnknown(t) ==
    /\ pc[t] = "resend" /\ Unlocked /\ arg[t] \notin pkmap
    /\ Overtaken(arg[t])
    /\ Finish(t)
    /\ UNCHANGED <<mapVars, sent, netVars, worldVars, misreads, doubled>>

\* resendCommand keeps pkmutex while it sends
ResendFound(t) ==
    /\ pc[t] = "resend" /\ Unlocked /\ arg[t] \in pkmap
    /\ pkmutex' = t
    /\ Go(t, "sending", arg[t])
    /\ UNCHANGED <<pkmap, sent, netVars, worldVars, misreads, doubled, excused>>

\* sendCommand with a uuid does not call addCommand, which would lock again
Resend(t) ==
    /\ pc[t] = "sending"
    /\ wire' = Inc(wire, arg[t])
    /\ Go(t, "unlock", arg[t])
    /\ UNCHANGED <<mapVars, sent, oks, errs, worldVars, misreads, doubled, excused>>

Unlock(t) ==
    /\ pc[t] = "unlock"
    /\ pkmutex' = NoThread
    /\ Finish(t)
    /\ UNCHANGED <<pkmap, sent, netVars, worldVars, misreads, doubled, excused>>

ThreadStep(t) ==
    \/ AddCommand(t) \/ Clear(t) \/ RemoveCommand(t) \/ ResendUnknown(t)
    \/ ResendFound(t) \/ Resend(t) \/ Unlock(t)

Answer(c) == \E t \in Threads, a \in Answers : OnMsg(t, c, a)

Next ==
    \/ \E t \in Threads : ThreadStep(t) \/ ReachClear(t)
    \/ \E t \in Threads, c \in Cmds : SendCommand(t, c)
    \/ \E c \in Cmds : Execute(c) \/ Refuse(c) \/ Answer(c)
    \/ \E c \in Cmds, a \in Answers : Garbled(c, a)
    \/ \E t \in Threads, c, d \in Cmds, a, b \in Answers : Misread(t, c, a, d, b)

Spec == Init /\ [][Next]_vars

\* Threads run, the client works off what it receives, and the loop thread
\* hands over what has arrived.
Fairness ==
    /\ \A t \in Threads : WF_vars(ThreadStep(t))
    /\ \A c \in Cmds : WF_vars(Execute(c) \/ Refuse(c)) /\ SF_vars(Answer(c))

FairSpec == Spec /\ Fairness

-----------------------------------------------------------------------------
(* Properties *)

TypeOK ==
    /\ pc \in [Threads -> Pcs]
    /\ arg \in [Threads -> Cmds \cup {NoCmd}]
    /\ pkmap \subseteq Cmds
    /\ pkmutex \in Threads \cup {NoThread}
    /\ sent \subseteq Cmds
    /\ wire \in [Cmds -> Nat] /\ oks \in [Cmds -> Nat] /\ errs \in [Cmds -> Nat]
    /\ executed \in [Cmds -> Nat] /\ refused \in [Cmds -> Nat]
    /\ misreads \in Nat
    /\ doubled \in [Cmds -> Nat]
    /\ excused \subseteq Cmds
    /\ \A t \in Threads : pc[t] \notin {"idle", "clear"} => arg[t] \in Cmds

\* A command takes effect once, and once more at most for every time one of its
\* error messages was handled twice: no interleaving of sendCommand, answers,
\* resendCommand and clear sends a second copy while one is under way.
AtMostOnce == \A c \in Cmds : executed[c] <= 1 + doubled[c]

Handled(c) ==
    \E t \in Threads : pc[t] \in {"remove", "resend", "sending"} /\ arg[t] = c
Pending(c) == wire[c] > 0 \/ oks[c] > 0 \/ errs[c] > 0 \/ Handled(c)

\* A command that was sent took effect or is under way.  It can be forgotten in
\* three ways only: its answer came before addCommand, clear dropped it, or its
\* answer was lost in the hand-over to a thread.
NotForgotten ==
    \A c \in sent : executed[c] > 0 \/ Pending(c) \/ c \in excused

\* An entry of pkmap belongs to a command that is under way: removeCommand
\* leaves none behind, but for an answer that overtook addCommand or was lost.
NoLeftover == \A c \in pkmap : Pending(c) \/ c \in excused

\* pkmutex is held by nobody but a thread that resends: each way out of
\* resendCommand unlocks it (packetlossresolver.cpp:24-33), or every later
\* sendCommand and answer waits for ever.
LockHeld ==
    \A t \in Threads : pkmutex = t <=> pc[t] \in {"sending", "unlock"}

\* A refused command is sent again until it takes effect.
Delivered ==
    \A c \in Cmds : c \in sent ~> executed[c] > 0 \/ c \in excused

-----------------------------------------------------------------------------
(* The refinement of Delivery *)

Refusing(c) == \E t \in Threads : pc[t] \in {"resend", "sending"} /\ arg[t] = c

Fate(c) ==
    IF c \notin sent THEN "unsent"
    ELSE IF wire[c] > 0 THEN "inflight"
    ELSE IF errs[c] > 0 \/ Refusing(c) THEN "refused"
    ELSE IF executed[c] > 0 THEN "placed" ELSE "lost"

fateOf == [c \in Cmds |-> Fate(c)]

D == INSTANCE Delivery WITH fate <- fateOf

\* Without doubled messages the resolver keeps the promise of Delivery.
DeliverySpec == D!Spec
=============================================================================
