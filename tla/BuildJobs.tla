----------------------------- MODULE BuildJobs -----------------------------
(***************************************************************************)
(* The building jobs of FBNative.  Every client message is handled by a    *)
(* detached thread of its own (core/fbws.cpp), which runs                  *)
(* Algorithms::builder (core/algorithms.cpp) on the client's               *)
(* FastBuilderSession (main.cpp).  The websocket loop thread closes        *)
(* sessions: it kills the thread that builds for the session and frees the *)
(* session.  Nothing in this code takes a lock: busy, busythr and stopFlag *)
(* are plain fields, so each read and each write of them that another      *)
(* thread can come between is a step of its own here.                      *)
(*                                                                         *)
(* A thread whose session was freed goes on using the memory: a step of    *)
(* such a thread crashes the process or works on whatever the memory holds *)
(* (the old values, or those of a session constructed in the same place).  *)
(***************************************************************************)
EXTENDS Naturals, FiniteSets

CONSTANTS
    Threads,     \* handler threads; an ended one leaves its id to a later one
    Sessions,    \* places in memory where a FastBuilderSession can live
    NoThread,    \* busythr before the first build, (pthread_t)0
    NoSession,   \* the session of a thread that handles no message
    MaxTiles     \* bound: fill commands of one job

ASSUME NoThreadAssumption == NoThread \notin Threads
ASSUME NoSessionAssumption == NoSession \notin Sessions
ASSUME MaxTilesAssumption == MaxTiles \in Nat

VARIABLES
    up,          \* the process runs
    usr1,        \* the SIGUSR1 handler is installed (for the whole process)
    stopFlag,    \* Algorithms::stopFlag, one for all sessions
    alive,       \* session objects constructed and not yet deleted
    fbsMap,      \* sessions found through FastBuilder::FBSMap
    busy,        \* FastBuilderSession::busy
    busythr,     \* FastBuilderSession::busythr
    pc,          \* where each handler thread is
    sess,        \* the session pointer it works with
    job,         \* the kind of command it handles
    left,        \* tiles of its plan not yet sent
    killedFor,   \* the session whose close sent it a pending SIGUSR1
    loopAt,      \* where the loop thread is in Disconnection
    closing,     \* the session it disconnects
    victim,      \* the thread killbusy is about to signal
    unheeded,    \* history: tiles a thread sent since a stop it has not seen
    tainted,     \* history: two jobs of the session met between the busy
                 \* check and the assignment, or an old thread uses its memory
    abandoned    \* history: a thread of the session ended with busy set

sessVars == <<alive, fbsMap, busy, busythr>>
thrVars  == <<pc, sess, job, left, killedFor, unheeded>>
loopVars == <<loopAt, closing, victim>>
histVars == <<tainted, abandoned>>
vars == <<up, usr1, stopFlag, sessVars, thrVars, loopVars, histVars>>

\* build: a name of sessionMethods or csessionMethods, whose branches of
\* builder do the same; text: dwrote, get, let, an unknown name
Jobs == {"build", "stop", "text"}
InBuildPcs == {"claim", "plan", "endless", "tile", "poll", "ack", "release"}
Pcs == InBuildPcs \cup {"idle", "check", "mark", "install", "admitted",
                        "clear"}
LoopPcs == {"idle", "kill", "killSend", "dtor", "dtorSend", "free", "erase"}

Working(t) == pc[t] # "idle"
\* past the busy check of a build, before busy is assigned
InWindow(t) == pc[t] \in {"install", "admitted"} /\ job[t] = "build"
\* from the assignment busy=true to the assignment busy=false
InBuild(t) == pc[t] \in InBuildPcs
Open(s) == s \in alive /\ closing # s
Sound(s) == Open(s) /\ ~tainted[s]

-----------------------------------------------------------------------------
Init ==
    /\ up = TRUE
    /\ usr1 = FALSE
    /\ stopFlag = FALSE
    /\ alive = {}
    /\ fbsMap = {}
    /\ busy = [s \in Sessions |-> FALSE]
    /\ busythr = [s \in Sessions |-> NoThread]
    /\ pc = [t \in Threads |-> "idle"]
    /\ sess = [t \in Threads |-> NoSession]
    /\ job = [t \in Threads |-> "text"]
    /\ left = [t \in Threads |-> 0]
    /\ killedFor = [t \in Threads |-> NoSession]
    /\ loopAt = "idle"
    /\ closing = NoSession
    /\ victim = NoThread
    /\ unheeded = [t \in Threads |-> 0]
    /\ tainted = [s \in Sessions |-> FALSE]
    /\ abandoned = [s \in Sessions |-> FALSE]

\* onConnection: a new session is constructed and put in the map.  A thread
\* that still points to this memory shares it with the new session.
Connect(s) ==
    /\ up /\ s \notin alive /\ s \notin fbsMap
    /\ alive' = alive \cup {s}
    /\ fbsMap' = fbsMap \cup {s}
    /\ busy' = [busy EXCEPT ![s] = FALSE]
    /\ busythr' = [busythr EXCEPT ![s] = NoThread]
    /\ tainted' = [tainted EXCEPT ![s] =
                      \E t \in Threads : Working(t) /\ sess[t] = s]
    /\ UNCHANGED <<up, usr1, stopFlag, thrVars, loopVars, abandoned>>

\* A message handler thread starts, finds its session and parses a command.
StartHandler(t, s, k) ==
    /\ up /\ ~Working(t) /\ s \in fbsMap
    /\ pc' = [pc EXCEPT ![t] = "check"]
    /\ sess' = [sess EXCEPT ![t] = s]
    /\ job' = [job EXCEPT ![t] = k]
    /\ UNCHANGED <<up, usr1, stopFlag, sessVars, left, killedFor, unheeded,
                   loopVars, histVars>>

\* The thread returns (or is gone): its id is free and so are its signals.
End(t) ==
    /\ pc' = [pc EXCEPT ![t] = "idle"]
    /\ sess' = [sess EXCEPT ![t] = NoSession]
    /\ job' = [job EXCEPT ![t] = "text"]
    /\ left' = [left EXCEPT ![t] = 0]
    /\ killedFor' = [killedFor EXCEPT ![t] = NoSession]
    /\ unheeded' = [unheeded EXCEPT ![t] = 0]

Goto(t, from, to) ==
    /\ up /\ pc[t] = from
    /\ pc' = [pc EXCEPT ![t] = to]
    /\ UNCHANGED <<up, sess, job, killedFor, loopVars>>

SetBusyField(t, b) == busy' = [busy EXCEPT ![sess[t]] = b]

-----------------------------------------------------------------------------
(* Algorithms::builder, "stop" *)

\* "Mark Stop: Failed,no session is running."
StopRefused(t) ==
    /\ up /\ pc[t] = "check" /\ job[t] = "stop"
    /\ ~busy[sess[t]]
    /\ End(t)
    /\ UNCHANGED <<up, usr1, stopFlag, sessVars, loopVars, histVars>>

StopChecked(t) ==
    /\ Goto(t, "check", "mark")
    /\ job[t] = "stop" /\ busy[sess[t]]
    /\ UNCHANGED <<usr1, stopFlag, sessVars, left, unheeded, histVars>>

MarkStop(t) ==
    /\ up /\ pc[t] = "mark"
    /\ stopFlag' = TRUE
    /\ End(t)
    /\ UNCHANGED <<up, usr1, sessVars, loopVars, tainted, abandoned>>

-----------------------------------------------------------------------------
(* Algorithms::builder, the other commands *)

\* "Session is still busy,please wait until current job done."
BusyRefused(t) ==
    /\ up /\ pc[t] = "check" /\ job[t] # "stop"
    /\ busy[sess[t]]
    /\ End(t)
    /\ UNCHANGED <<up, usr1, stopFlag, sessVars, loopVars, histVars>>

\* Slip: the busy check is left out
BusyPassedUnchecked(t) ==
    /\ Goto(t, "check", "install")
    /\ job[t] # "stop"
    /\ UNCHANGED <<usr1, stopFlag, sessVars, left, unheeded, histVars>>

BusyPassed(t) ==
    /\ Goto(t, "check", "install")
    /\ job[t] # "stop" /\ ~busy[sess[t]]
    /\ tainted' =
         IF job[t] = "build" /\ Open(sess[t])
            /\ \E u \in Threads \ {t} : sess[u] = sess[t] /\ InWindow(u)
         THEN [tainted EXCEPT ![sess[t]] = TRUE] ELSE tainted
    /\ UNCHANGED <<usr1, stopFlag, sessVars, left, unheeded, abandoned>>

\* signal(SIGUSR1, pthread_exit); then a command that builds nothing answers
InstallHandler(t) ==
    /\ up /\ pc[t] = "install"
    /\ usr1' = TRUE
    /\ \/ /\ job[t] = "build"
          /\ pc' = [pc EXCEPT ![t] = "admitted"]
          /\ UNCHANGED <<sess, job, left, killedFor, unheeded>>
       \/ /\ job[t] # "build"
          /\ End(t)
    /\ UNCHANGED <<up, stopFlag, sessVars, loopVars, histVars>>

SetBusy(t) ==
    /\ Goto(t, "admitted", "claim")
    /\ SetBusyField(t, TRUE)
    /\ UNCHANGED <<usr1, stopFlag, alive, fbsMap, busythr, left, unheeded,
                   histVars>>

SetBusythr(t) ==
    /\ Goto(t, "claim", "plan")
    /\ busythr' = [busythr EXCEPT ![sess[t]] = t]
    /\ UNCHANGED <<usr1, stopFlag, alive, fbsMap, busy, left, unheeded,
                   histVars>>

\* The method computes the n tiles of the structure.
Plan(t, n) ==
    /\ Goto(t, "plan", "tile")
    /\ left' = [left EXCEPT ![t] = n]
    /\ UNCHANGED <<usr1, stopFlag, sessVars, unheeded, histVars>>

\* A loop of the method does not end: std::stod takes any size.  With -r 1e300
\* or inf, i++ leaves i as it is (algorithms.cpp:31); with a negative -a the
\* angle runs away from its end (197-202).  Only a signal gets it out of there.
PlanEndless(t) ==
    /\ Goto(t, "plan", "endless")
    /\ UNCHANGED <<usr1, stopFlag, sessVars, left, unheeded, histVars>>

\* Slip: the early return forgets busy=false
PlanNullKeepsBusy(t) ==
    /\ up /\ pc[t] = "plan"
    /\ End(t)
    /\ UNCHANGED <<up, usr1, stopFlag, sessVars, loopVars, histVars>>

\* The method returns nullptr: "Failed."
PlanNull(t) ==
    /\ up /\ pc[t] = "plan"
    /\ SetBusyField(t, FALSE)
    /\ End(t)
    /\ UNCHANGED <<up, usr1, stopFlag, alive, fbsMap, busythr, loopVars,
                   histVars>>

\* The method throws (std::bad_alloc while it pushes blocks or reads an
\* image): onMsg_newThread swallows the exception and the thread ends.
PlanThrows(t) ==
    /\ up /\ pc[t] = "plan"
    /\ abandoned' = IF Open(sess[t]) THEN [abandoned EXCEPT ![sess[t]] = TRUE]
                                     ELSE abandoned
    /\ End(t)
    /\ UNCHANGED <<up, usr1, stopFlag, sessVars, loopVars, tainted>>

-----------------------------------------------------------------------------
(* setTile, setLongTile and setCTile *)

\* Slip: the loop does not advance
SendTileAgain(t) ==
    /\ left[t] > 0
    /\ Goto(t, "tile", "poll")
    /\ UNCHANGED <<usr1, stopFlag, sessVars, left, unheeded, histVars>>

SendTile(t) ==
    /\ left[t] > 0
    /\ Goto(t, "tile", "poll")
    /\ left' = [left EXCEPT ![t] = @ - 1]
    /\ unheeded' = IF stopFlag THEN [unheeded EXCEPT ![t] = @ + 1] ELSE unheeded
    /\ UNCHANGED <<usr1, stopFlag, sessVars, histVars>>

NoTileLeft(t) ==
    /\ left[t] = 0
    /\ Goto(t, "tile", "release")
    /\ UNCHANGED <<usr1, stopFlag, sessVars, left, unheeded, histVars>>

\* Slip: stopFlag is looked at after the loop only
PollStopAtEnd(t) ==
    /\ Goto(t, "poll", IF stopFlag /\ left[t] = 0 THEN "ack" ELSE "tile")
    /\ UNCHANGED <<usr1, stopFlag, sessVars, left, unheeded, histVars>>

PollStop(t) ==
    /\ Goto(t, "poll", IF stopFlag THEN "ack" ELSE "tile")
    /\ UNCHANGED <<usr1, stopFlag, sessVars, left, unheeded, histVars>>

\* Slip: the flag is left set
AckStopKeepsFlag(t) ==
    /\ Goto(t, "ack", "release")
    /\ UNCHANGED <<usr1, stopFlag, sessVars, left, unheeded, histVars>>

\* stopFlag=false; "Generating stopped."  The request is consumed, for every
\* thread that has not looked yet.
AckStop(t) ==
    /\ Goto(t, "ack", "release")
    /\ stopFlag' = FALSE
    /\ unheeded' = [u \in Threads |-> 0]
    /\ UNCHANGED <<usr1, sessVars, left, tainted, abandoned>>

\* "Structure has been generated!"; delete sess; busy=false
Release(t) ==
    /\ Goto(t, "release", "clear")
    /\ SetBusyField(t, FALSE)
    /\ UNCHANGED <<usr1, stopFlag, alive, fbsMap, busythr, left, unheeded,
                   histVars>>

\* lossresolver->clear(), the last access to the session
Clear(t) ==
    /\ up /\ pc[t] = "clear"
    /\ End(t)
    /\ UNCHANGED <<up, usr1, stopFlag, sessVars, loopVars, histVars>>

-----------------------------------------------------------------------------
(* FastBuilder_Z____Disconnection, on the loop thread *)

Disconnect(s) ==
    /\ up /\ loopAt = "idle" /\ s \in fbsMap
    /\ closing' = s
    /\ loopAt' = "kill"
    /\ UNCHANGED <<up, usr1, stopFlag, sessVars, thrVars, victim, histVars>>

\* killbusy, called first by Disconnection and again by the destructor if busy
KillLook ==
    /\ up /\ loopAt \in {"kill", "dtor"}
    /\ IF busy[closing] /\ busythr[closing] # NoThread
       THEN /\ victim' = busythr[closing]
            /\ loopAt' = IF loopAt = "kill" THEN "killSend" ELSE "dtorSend"
            /\ UNCHANGED busy
       ELSE /\ busy' = [busy EXCEPT ![closing] = FALSE]
            /\ loopAt' = IF loopAt = "kill" THEN "dtor" ELSE "free"
            /\ UNCHANGED victim
    /\ UNCHANGED <<up, usr1, stopFlag, alive, fbsMap, busythr, thrVars, closing,
                   histVars>>

KillDone ==
    /\ busy' = [busy EXCEPT ![closing] = FALSE]
    /\ victim' = NoThread
    /\ loopAt' = IF loopAt = "killSend" THEN "dtor" ELSE "free"
    /\ UNCHANGED <<usr1, stopFlag, alive, fbsMap, busythr, pc, sess, job, left,
                   unheeded, closing, histVars>>

\* pthread_kill(busythr,SIGUSR1); busy=false.  The default action of a
\* SIGUSR1 without handler ends the process.
KillSend ==
    /\ up /\ loopAt \in {"killSend", "dtorSend"}
    /\ Working(victim)
    /\ killedFor' = [killedFor EXCEPT ![victim] = closing]
    /\ up' = usr1
    /\ KillDone

\* pthread_kill on the id of an ended detached thread is undefined: it does
\* nothing, or it reads memory that is gone.
KillEnded ==
    /\ up /\ loopAt \in {"killSend", "dtorSend"}
    /\ ~Working(victim)
    /\ up' \in BOOLEAN
    /\ UNCHANGED killedFor
    /\ KillDone

\* delete FBSMap[ws]: the end of the destructor.  Nobody reads busythr again
\* before a constructor has set it.
Free ==
    /\ up /\ loopAt = "free"
    /\ alive' = alive \ {closing}
    /\ busythr' = [busythr EXCEPT ![closing] = NoThread]
    /\ tainted' = [tainted EXCEPT ![closing] = FALSE]
    /\ abandoned' = [abandoned EXCEPT ![closing] = FALSE]
    /\ loopAt' = "erase"
    /\ UNCHANGED <<up, usr1, stopFlag, fbsMap, busy, thrVars, closing, victim>>

\* FBSMap.erase(ws)
Erase ==
    /\ up /\ loopAt = "erase"
    /\ fbsMap' = fbsMap \ {closing}
    /\ loopAt' = "idle"
    /\ closing' = NoSession
    /\ UNCHANGED <<up, usr1, stopFlag, alive, busy, busythr, thrVars, victim,
                   histVars>>

-----------------------------------------------------------------------------
\* The pending SIGUSR1 is delivered: pthread_exit in the handler.
Die(t) ==
    /\ up /\ killedFor[t] # NoSession
    /\ abandoned' = IF Open(sess[t]) THEN [abandoned EXCEPT ![sess[t]] = TRUE]
                                     ELSE abandoned
    /\ End(t)
    /\ UNCHANGED <<up, usr1, stopFlag, sessVars, loopVars, tainted>>

\* A thread touches its freed session and the process gets SIGSEGV.
Crash(t) ==
    /\ up /\ Working(t) /\ sess[t] \notin alive
    /\ up' = FALSE
    /\ UNCHANGED <<usr1, stopFlag, sessVars, thrVars, loopVars, histVars>>

ThreadStep(t) ==
    \/ StopRefused(t) \/ StopChecked(t) \/ MarkStop(t)
    \/ BusyRefused(t) \/ BusyPassed(t) \/ InstallHandler(t)
    \/ SetBusy(t) \/ SetBusythr(t)
    \/ \E n \in 0..MaxTiles : Plan(t, n)
    \/ PlanEndless(t) \/ PlanNull(t) \/ PlanThrows(t)
    \/ SendTile(t) \/ NoTileLeft(t) \/ PollStop(t) \/ AckStop(t)
    \/ Release(t) \/ Clear(t)

LoopStep == KillLook \/ KillSend \/ KillEnded \/ Free \/ Erase

Next ==
    \/ \E s \in Sessions : Connect(s) \/ Disconnect(s)
    \/ \E t \in Threads, s \in Sessions, k \in Jobs : StartHandler(t, s, k)
    \/ \E t \in Threads : ThreadStep(t) \/ Die(t) \/ Crash(t)
    \/ LoopStep

Spec == Init /\ [][Next]_vars

\* The kernel runs every thread that can run, and delivers pending signals.
Fairness ==
    /\ \A t \in Threads : WF_vars(ThreadStep(t)) /\ WF_vars(Die(t))
    /\ WF_vars(LoopStep)

FairSpec == Spec /\ Fairness

-----------------------------------------------------------------------------
(* The jobs of a session as Jobs has them *)

Builders(s) == {t \in Threads : sess[t] = s /\ InBuild(t)}

Phase(s) ==
    IF ~Open(s) THEN "closed"
    ELSE IF tainted[s] THEN "shared"
    ELSE IF Builders(s) # {} THEN "building"
    ELSE IF busy[s] THEN "stuck" ELSE "idle"

Worker(s) ==
    IF Phase(s) = "building" THEN CHOOSE t \in Threads : t \in Builders(s) ELSE NoThread

phaseOf == [s \in Sessions |-> Phase(s)]
workerOf == [s \in Sessions |-> Worker(s)]

J == INSTANCE Jobs WITH phase <- phaseOf, worker <- workerOf

-----------------------------------------------------------------------------
(* Properties *)

TypeOK ==
    /\ up \in BOOLEAN /\ usr1 \in BOOLEAN /\ stopFlag \in BOOLEAN
    /\ alive \subseteq Sessions /\ fbsMap \subseteq Sessions
    /\ busy \in [Sessions -> BOOLEAN]
    /\ busythr \in [Sessions -> Threads \cup {NoThread}]
    /\ pc \in [Threads -> Pcs]
    /\ sess \in [Threads -> Sessions \cup {NoSession}]
    /\ job \in [Threads -> Jobs]
    /\ left \in [Threads -> Nat]
    /\ killedFor \in [Threads -> Sessions \cup {NoSession}]
    /\ loopAt \in LoopPcs
    /\ closing \in Sessions \cup {NoSession}
    /\ victim \in Threads \cup {NoThread}
    /\ unheeded \in [Threads -> Nat]
    /\ tainted \in [Sessions -> BOOLEAN]
    /\ abandoned \in [Sessions -> BOOLEAN]
    /\ \A t \in Threads : Working(t) => sess[t] \in Sessions
    /\ \A t \in Threads : pc[t] = "admitted" => job[t] = "build"
    /\ loopAt # "idle" => closing \in Sessions
    /\ loopAt \in {"killSend", "dtorSend"} => victim \in Threads

\* At most one thread builds for an open session: the check of busy at the
\* head of builder keeps jobs apart, unless two of them were past that check
\* together (it is not atomic with the assignment) or a thread of an earlier
\* session still uses the memory.
OneBuildPerSession ==
    \A s \in Sessions : Sound(s) =>
        \A t, u \in Threads :
            /\ sess[t] = s /\ InBuild(t)
            /\ sess[u] = s /\ (InBuild(u) \/ InWindow(u))
            => t = u

\* busy is exact: set from the claim to the release of a job, and clear
\* otherwise.  The only way to leave busy set without a job is the end of the
\* job's thread by an exception or a signal.
BusyIsExact ==
    \A s \in Sessions : Sound(s) =>
        /\ \A t \in Threads : sess[t] = s /\ InBuild(t) => busy[s]
        /\ busy[s] => abandoned[s] \/ \E t \in Threads : sess[t] = s /\ InBuild(t)

\* After -stop no thread sends more than the tile it was about to send, until
\* some thread has consumed the stop.
StopHeeded == \A t \in Threads : unheeded[t] <= 1

\* killbusy never sends a SIGUSR1 the process has no handler for (whose
\* default action would end the server and every other client's session).
KillHasHandler ==
    /\ loopAt \in {"killSend", "dtorSend"} => usr1
    /\ \A t \in Threads : killedFor[t] # NoSession => usr1

\* A job is begun and ended as Jobs says.  In particular nobody ends another
\* thread's job, and a session whose job's thread is gone, by an exception or a
\* signal, refuses every build until it is closed (algorithms.cpp:473-478).
JobsSpec == J!Spec

\* in a loop of its method that does not end, and nobody has signalled it
Endless(t) == pc[t] = "endless" /\ killedFor[t] = NoSession

\* Every build whose method ends, ends too, also when its session is stopped,
\* closed or raced; and a thread in a loop without end leaves it when it gets
\* the signal of a close.
BuildsEnd ==
    \A t \in Threads :
        (InBuild(t) /\ ~Endless(t)) ~> (pc[t] = "idle" \/ Endless(t) \/ ~up)

\* A stop is consumed as long as some build has tiles to send.
StopConsumed ==
    \A t \in Threads :
        (stopFlag /\ pc[t] = "tile" /\ left[t] > 0)
            ~> (~stopFlag \/ killedFor[t] # NoSession \/ ~up)

-----------------------------------------------------------------------------
(* What messages of the program claim, and the program does not keep        *)

\* "Session is still busy,please wait until current job done."
\* (algorithms.cpp:475): a session has one job at a time.
OneJobAtATime ==
    \A s \in Sessions : Open(s) =>
        \A t, u \in Threads :
            sess[t] = s /\ InBuild(t) /\ sess[u] = s /\ InBuild(u) => t = u
=============================================================================
