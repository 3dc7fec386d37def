-------------------------- MODULE BuildJobs_proofs --------------------------
(***************************************************************************)
(* The safety properties of BuildJobs, for any number of threads, sessions *)
(* and tiles.                                                              *)
(*                                                                         *)
(* None of them is inductive.  OneBuildPerSession needs to know that two   *)
(* jobs are never past the busy check together (AtMostOneClaim), which in  *)
(* turn needs busy to be exact: the check of busy keeps a job out only     *)
(* because busy is set while another one builds.  What is known of an open *)
(* session survives a disconnection only because the loop thread's program *)
(* counter, closing and the map move together (LoopInv).                   *)
(***************************************************************************)
EXTENDS BuildJobs, TLAPS

Claims(t) == InWindow(t) \/ InBuild(t)

AtMostOneClaim ==
    \A s \in Sessions : Sound(s) =>
        \A t, u \in Threads :
            sess[t] = s /\ Claims(t) /\ sess[u] = s /\ Claims(u) => t = u

LoopInv ==
    /\ loopAt = "idle" => closing = NoSession
    /\ loopAt # "idle" => closing \in fbsMap
    /\ loopAt = "erase" => closing \notin alive

\* A tile counts as unheeded from its sending to the next look at stopFlag,
\* and only while the stop stands.
HeedInv ==
    \A t \in Threads :
        unheeded[t] # 0 =>
            unheeded[t] = 1 /\ stopFlag /\ pc[t] \in {"poll", "ack"}

\* Whoever can become the target of a SIGUSR1 has installed the handler.
HandlerInv ==
    /\ \A t \in Threads : InBuild(t) \/ pc[t] = "admitted" => usr1
    /\ \A s \in Sessions : busythr[s] # NoThread => usr1
    /\ loopAt \in {"killSend", "dtorSend"} => usr1
    /\ \A t \in Threads : killedFor[t] # NoSession => usr1

SessionInv == LoopInv /\ AtMostOneClaim /\ BusyIsExact

\* While a session is busy, nobody is about to make it so.
EntryInv ==
    \A s \in Sessions : Sound(s) /\ busy[s] =>
        \A t \in Threads : sess[t] = s => ~InWindow(t)

IInv == TypeOK /\ SessionInv /\ HeedInv /\ HandlerInv /\ EntryInv
-----------------------------------------------------------------------------
\* No job, no kill, no closing session: all parts hold at the start.
LEMMA InitIInv == Init => IInv
<1> SUFFICES ASSUME Init PROVE IInv
  OBVIOUS
<1>1. TypeOK
  BY NoThreadAssumption, NoSessionAssumption
  DEF Init, TypeOK, Pcs, InBuildPcs, LoopPcs, Jobs, Working
<1>2. LoopInv /\ AtMostOneClaim /\ BusyIsExact
  BY DEF Init, LoopInv, AtMostOneClaim, BusyIsExact, Sound, Open
<1>3. HeedInv /\ HandlerInv /\ EntryInv
  BY DEF Init, HeedInv, HandlerInv, InBuild, InBuildPcs, EntryInv, Sound, Open
<1>. QED
  BY <1>1, <1>2, <1>3 DEF IInv, SessionInv

\* Every action keeps every variable in its type, and the loop thread always
\* has a session to close and a thread to kill when it needs one.
LEMMA TypeStep == TypeOK /\ [Next]_vars => TypeOK'
<1> SUFFICES ASSUME TypeOK, [Next]_vars PROVE TypeOK'
  OBVIOUS
<1> USE NoThreadAssumption, NoSessionAssumption, MaxTilesAssumption
        DEF TypeOK, Pcs, InBuildPcs, LoopPcs, Jobs, Working
<1>1. ASSUME NEW s \in Sessions, Connect(s) PROVE TypeOK'
  BY <1>1 DEF Connect, sessVars, thrVars, loopVars, histVars
<1>2. ASSUME NEW s \in Sessions, Disconnect(s) PROVE TypeOK'
  BY <1>2 DEF Disconnect, sessVars, thrVars, loopVars, histVars
<1>3. ASSUME NEW t \in Threads, NEW s \in Sessions, NEW k \in Jobs,
            StartHandler(t, s, k) PROVE TypeOK'
  BY <1>3 DEF StartHandler, sessVars, thrVars, loopVars, histVars
<1>4. ASSUME NEW t \in Threads, StopRefused(t) PROVE TypeOK'
  BY <1>4 DEF StopRefused, End, sessVars, thrVars, loopVars, histVars
<1>5. ASSUME NEW t \in Threads, StopChecked(t) PROVE TypeOK'
  BY <1>5 DEF StopChecked, Goto, sessVars, thrVars, loopVars, histVars
<1>6. ASSUME NEW t \in Threads, MarkStop(t) PROVE TypeOK'
  BY <1>6 DEF MarkStop, End, sessVars, thrVars, loopVars, histVars
<1>7. ASSUME NEW t \in Threads, BusyRefused(t) PROVE TypeOK'
  BY <1>7 DEF BusyRefused, End, sessVars, thrVars, loopVars, histVars
<1>8. ASSUME NEW t \in Threads, BusyPassed(t) PROVE TypeOK'
  BY <1>8 DEF BusyPassed, Goto, sessVars, thrVars, loopVars, histVars
<1>9. ASSUME NEW t \in Threads, InstallHandler(t) PROVE TypeOK'
  BY <1>9 DEF InstallHandler, End, sessVars, thrVars, loopVars, histVars
<1>10. ASSUME NEW t \in Threads, SetBusy(t) PROVE TypeOK'
  BY <1>10 DEF SetBusy, Goto, SetBusyField, sessVars, thrVars, loopVars,
     histVars
<1>11. ASSUME NEW t \in Threads, SetBusythr(t) PROVE TypeOK'
  BY <1>11 DEF SetBusythr, Goto, sessVars, thrVars, loopVars, histVars
<1>12. ASSUME NEW t \in Threads, NEW n \in 0..MaxTiles, Plan(t,
     n) PROVE TypeOK'
  BY <1>12 DEF Plan, Goto, sessVars, thrVars, loopVars, histVars
<1>13. ASSUME NEW t \in Threads, PlanNull(t) PROVE TypeOK'
  BY <1>13 DEF PlanNull, End, SetBusyField, sessVars, thrVars, loopVars,
     histVars
<1>14. ASSUME NEW t \in Threads, PlanThrows(t) PROVE TypeOK'
  BY <1>14 DEF PlanThrows, End, sessVars, thrVars, loopVars, histVars
<1>15. ASSUME NEW t \in Threads, SendTile(t) PROVE TypeOK'
  BY <1>15 DEF SendTile, Goto, sessVars, thrVars, loopVars, histVars
<1>16. ASSUME NEW t \in Threads, NoTileLeft(t) PROVE TypeOK'
  BY <1>16 DEF NoTileLeft, Goto, sessVars, thrVars, loopVars, histVars
<1>17. ASSUME NEW t \in Threads, PollStop(t) PROVE TypeOK'
  BY <1>17 DEF PollStop, Goto, sessVars, thrVars, loopVars, histVars
<1>18. ASSUME NEW t \in Threads, AckStop(t) PROVE TypeOK'
  BY <1>18 DEF AckStop, Goto, sessVars, thrVars, loopVars, histVars
<1>19. ASSUME NEW t \in Threads, Release(t) PROVE TypeOK'
  BY <1>19 DEF Release, Goto, SetBusyField, sessVars, thrVars, loopVars,
     histVars
<1>20. ASSUME NEW t \in Threads, Clear(t) PROVE TypeOK'
  BY <1>20 DEF Clear, End, sessVars, thrVars, loopVars, histVars
<1>21. ASSUME NEW t \in Threads, Die(t) PROVE TypeOK'
  BY <1>21 DEF Die, End, sessVars, thrVars, loopVars, histVars
<1>22. ASSUME NEW t \in Threads, Crash(t) PROVE TypeOK'
  BY <1>22 DEF Crash, sessVars, thrVars, loopVars, histVars
<1>23. ASSUME KillLook PROVE TypeOK'
  <2>1. CASE busy[closing] /\ busythr[closing] # NoThread
    <3>1. busythr[closing] \in Threads /\ closing \in Sessions
      BY <1>23, <2>1 DEF KillLook
    <3>. QED
      BY <1>23, <2>1, <3>1 DEF KillLook, sessVars, thrVars, histVars
  <2>2. CASE ~(busy[closing] /\ busythr[closing] # NoThread)
    BY <1>23, <2>2 DEF KillLook, sessVars, thrVars, histVars
  <2>. QED
    BY <2>1, <2>2
<1>24. ASSUME KillSend PROVE TypeOK'
  BY <1>24 DEF KillSend, KillDone, sessVars, thrVars, loopVars, histVars
<1>25. ASSUME KillEnded PROVE TypeOK'
  BY <1>25 DEF KillEnded, KillDone, sessVars, thrVars, loopVars, histVars
<1>26. ASSUME Free PROVE TypeOK'
  BY <1>26 DEF Free, sessVars, thrVars, loopVars, histVars
<1>27. ASSUME Erase PROVE TypeOK'
  BY <1>27 DEF Erase, sessVars, thrVars, loopVars, histVars
<1>28. ASSUME UNCHANGED vars PROVE TypeOK'
  BY <1>28 DEF vars, sessVars, thrVars, loopVars, histVars
<1>29. ASSUME NEW t \in Threads, PlanEndless(t) PROVE TypeOK'
  BY <1>29 DEF PlanEndless, Goto, sessVars, thrVars, loopVars, histVars
<1>. QED
  BY <1>1, <1>2, <1>3, <1>4, <1>5, <1>6, <1>7, <1>8, <1>9, <1>10, <1>11, 
     <1>12, <1>13, <1>14, <1>15, <1>16, <1>17, <1>18, <1>19, <1>20, <1>21, 
     <1>22, <1>23, <1>24, <1>25, <1>26, <1>27, <1>28, <1>29
     DEF Next, ThreadStep, LoopStep

-----------------------------------------------------------------------------
\* A step of a handler thread leaves the loop thread and the other threads
\* alone, and keeps to its session and its command until it ends.
LEMMA ThreadFrame ==
    ASSUME TypeOK, NEW t \in Threads, ThreadStep(t) \/ Die(t) \/ Crash(t)
    PROVE  /\ UNCHANGED <<alive, fbsMap, loopAt, closing, victim>>
           /\ \A u \in Threads \ {t} :
                 pc'[u] = pc[u] /\ sess'[u] = sess[u] /\ job'[u] = job[u]
           /\ pc'[t] # "idle" => sess'[t] = sess[t] /\ job'[t] = job[t]
           /\ \A s \in Sessions : tainted[s] => tainted'[s]
           /\ \A s \in Sessions : abandoned[s] => abandoned'[s]
BY DEF TypeOK, ThreadStep, Die, Crash, StopRefused, StopChecked, MarkStop,
       BusyRefused, BusyPassed, InstallHandler, SetBusy, SetBusythr, Plan, PlanEndless,
       PlanNull, PlanThrows, SendTile, NoTileLeft, PollStop, AckStop, Release,
       Clear, Goto, End, sessVars, thrVars, loopVars, histVars

\* The way into the region between the busy check and the release of a job
\* is the busy check.
LEMMA ClaimEntry ==
    ASSUME TypeOK, NEW t \in Threads, ThreadStep(t) \/ Die(t) \/ Crash(t),
           ~Claims(t), Claims(t)'
    PROVE  BusyPassed(t) /\ job[t] = "build" /\ InWindow(t)'
<1> USE DEF TypeOK, Claims, InWindow, InBuild, InBuildPcs
<1>1. BusyPassed(t)
  <2>1. ~(StopRefused(t) \/ StopChecked(t) \/ MarkStop(t) \/ BusyRefused(t))
    BY DEF StopRefused, StopChecked, MarkStop, BusyRefused, Goto, End
  <2>2. ~InstallHandler(t)
    <3>1. InstallHandler(t) => pc'[t] = "idle"
      BY DEF InstallHandler, End
    <3>. QED
      BY <3>1
  <2>3. ~(SetBusy(t) \/ SetBusythr(t))
    BY DEF SetBusy, SetBusythr, Goto
  <2>4. ~(PlanNull(t) \/ PlanThrows(t) \/ Clear(t) \/ Die(t) \/ Crash(t))
    BY DEF PlanNull, PlanThrows, Clear, Die, Crash, End, thrVars
  <2>5. ~PlanEndless(t) /\ ~\E n \in 0..MaxTiles : Plan(t, n)
    BY DEF Plan, PlanEndless, Goto
  <2>6. ~(SendTile(t) \/ NoTileLeft(t) \/ PollStop(t) \/ AckStop(t) \/ Release(t))
    BY DEF SendTile, NoTileLeft, PollStop, AckStop, Release, Goto
  <2>. QED
    BY <2>1, <2>2, <2>3, <2>4, <2>5, <2>6 DEF ThreadStep
<1>. QED
  BY <1>1 DEF BusyPassed, Goto

\* The loop thread and new connections leave every handler thread where it is.
LEMMA LoopFrame ==
    ASSUME LoopStep \/ \E s \in Sessions : Connect(s) \/ Disconnect(s)
    PROVE  UNCHANGED <<pc, sess, job, left, unheeded, stopFlag, usr1>>
BY DEF LoopStep, KillLook, KillSend, KillEnded, KillDone, Free, Erase, Connect,
       Disconnect, thrVars, sessVars, loopVars, histVars

\* The loop thread closes one session of the map at a time; once its object is
\* deleted, the entry in the map keeps a new session from taking its place.
LEMMA LoopInvStep == TypeOK /\ LoopInv /\ [Next]_vars => LoopInv'
<1> SUFFICES ASSUME TypeOK, LoopInv, [Next]_vars PROVE LoopInv'
  OBVIOUS
<1> USE DEF TypeOK, LoopInv
<1>1. ASSUME NEW s \in Sessions, Connect(s) PROVE LoopInv'
  BY <1>1 DEF Connect, loopVars
<1>2. ASSUME NEW s \in Sessions, Disconnect(s) PROVE LoopInv'
  BY <1>2 DEF Disconnect, sessVars
<1>3. ASSUME KillLook PROVE LoopInv'
  BY <1>3 DEF KillLook
<1>4. ASSUME KillSend \/ KillEnded PROVE LoopInv'
  BY <1>4 DEF KillSend, KillEnded, KillDone
<1>5. ASSUME Free PROVE LoopInv'
  BY <1>5 DEF Free
<1>6. ASSUME Erase PROVE LoopInv'
  BY <1>6 DEF Erase
<1>7. ASSUME NEW t \in Threads, ThreadStep(t) \/ Die(t) \/ Crash(t)
      PROVE  LoopInv'
  BY <1>7, ThreadFrame
<1>8. ASSUME NEW t \in Threads, NEW s \in Sessions, NEW k \in Jobs,
            StartHandler(t, s, k)
      PROVE  LoopInv'
  BY <1>8 DEF StartHandler, sessVars, loopVars
<1>9. CASE UNCHANGED vars
  BY <1>9 DEF vars, sessVars, loopVars
<1>. QED
  BY <1>1, <1>2, <1>3, <1>4, <1>5, <1>6, <1>7, <1>8, <1>9 DEF Next, LoopStep

\* A step never makes a closed or tainted session sound again, other than by
\* constructing a new one that no thread works with.
LEMMA SoundFrame ==
    ASSUME TypeOK, LoopInv, [Next]_vars, NEW s \in Sessions, Sound(s)'
    PROVE  Sound(s) \/ (Connect(s) /\ \A t \in Threads : Working(t) => sess[t] # s)
<1> USE DEF TypeOK, LoopInv, Sound, Open
<1>1. ASSUME NEW r \in Sessions, Connect(r), ~Sound(s)
      PROVE  r = s /\ \A t \in Threads : Working(t) => sess[t] # s
  BY <1>1 DEF Connect, loopVars
<1>2. ASSUME NEW r \in Sessions, Disconnect(r) PROVE Sound(s)
  BY <1>2, NoSessionAssumption DEF Disconnect, sessVars, histVars
<1>3. ASSUME KillLook PROVE Sound(s)
  BY <1>3 DEF KillLook, histVars
<1>4. ASSUME KillSend \/ KillEnded PROVE Sound(s)
  BY <1>4 DEF KillSend, KillEnded, KillDone, histVars
<1>5. ASSUME Free PROVE Sound(s)
  BY <1>5 DEF Free
<1>6. ASSUME Erase PROVE Sound(s)
  BY <1>6 DEF Erase, histVars
<1>7. ASSUME NEW t \in Threads, ThreadStep(t) \/ Die(t) \/ Crash(t)
      PROVE  Sound(s)
  BY <1>7, ThreadFrame
<1>8. ASSUME NEW t \in Threads, NEW r \in Sessions, NEW k \in Jobs,
            StartHandler(t, r, k)
      PROVE  Sound(s)
  BY <1>8 DEF StartHandler, sessVars, loopVars, histVars
<1>9. CASE UNCHANGED vars
  BY <1>9 DEF vars, sessVars, loopVars, histVars
<1>. QED
  BY <1>1, <1>2, <1>3, <1>4, <1>5, <1>6, <1>7, <1>8, <1>9 DEF Next, LoopStep

\* The busy check keeps it at one thread past it per sound session.
LEMMA ClaimStep ==
    TypeOK /\ SessionInv /\ [Next]_vars => AtMostOneClaim'
<1> SUFFICES ASSUME TypeOK, SessionInv, [Next]_vars,
                    NEW s \in Sessions, Sound(s)',
                    NEW x \in Threads, sess'[x] = s, Claims(x)',
                    NEW y \in Threads, sess'[y] = s, Claims(y)'
             PROVE  x = y
  BY DEF AtMostOneClaim
<1>1. ASSUME LoopStep \/ \E r \in Sessions : Connect(r) \/ Disconnect(r)
      PROVE  x = y
  <2>1. sess[x] = s /\ Claims(x) /\ sess[y] = s /\ Claims(y)
    BY <1>1, LoopFrame DEF Claims, InBuild, InWindow
  <2>2. Working(x)
    BY <2>1 DEF Claims, InBuild, InWindow, InBuildPcs, Working
  <2>. QED
    BY <2>1, <2>2, SoundFrame DEF SessionInv, AtMostOneClaim
<1>2. ASSUME NEW t \in Threads, ThreadStep(t) \/ Die(t) \/ Crash(t)
      PROVE  x = y
  <2>1. sess[x] = s /\ sess[y] = s
    BY <1>2, ThreadFrame DEF Claims, InBuild, InWindow, InBuildPcs
  <2>2. Sound(s) /\ ~tainted'[s]
    BY <1>2, ThreadFrame DEF Sound, Open
  <2>3. \A u \in Threads \ {t} : Claims(u)' <=> Claims(u)
    BY <1>2, ThreadFrame DEF Claims, InBuild, InWindow
  <2>4. ASSUME ~Claims(t), Claims(t)', sess[t] = s,
               NEW u \in Threads \ {t}, Claims(u), sess[u] = s
        PROVE  FALSE
    <3>1. BusyPassed(t) /\ job[t] = "build"
      BY <1>2, <2>4, ClaimEntry
    <3>2. CASE InBuild(u)
      BY <2>2, <2>4, <3>1, <3>2 DEF BusyPassed, SessionInv, BusyIsExact
    <3>3. CASE InWindow(u)
      BY <2>2, <2>4, <3>1, <3>3 DEF BusyPassed, Sound, TypeOK
    <3>. QED
      BY <2>4, <3>2, <3>3 DEF Claims
  <2>5. CASE Claims(x) /\ Claims(y)
    BY <2>1, <2>2, <2>5 DEF SessionInv, AtMostOneClaim
  <2>. QED
    BY <2>1, <2>3, <2>4, <2>5
<1>3. ASSUME NEW t \in Threads, NEW r \in Sessions, NEW k \in Jobs,
            StartHandler(t, r, k)
      PROVE  x = y
  <2>1. sess[x] = s /\ Claims(x) /\ sess[y] = s /\ Claims(y) /\ Sound(s)
    BY <1>3 DEF StartHandler, TypeOK, Claims, InBuild, InWindow, InBuildPcs,
                Sound, Open, sessVars, loopVars, histVars
  <2>. QED
    BY <2>1 DEF SessionInv, AtMostOneClaim
<1>4. CASE UNCHANGED vars
  BY <1>4 DEF vars, thrVars, sessVars, loopVars, histVars, SessionInv,
              AtMostOneClaim, Claims, InBuild, InWindow, Sound, Open
<1>. QED
  BY <1>1, <1>2, <1>3, <1>4 DEF Next

\* Outside of the claim, the release and the early ends of a job, a thread
\* neither enters nor leaves the region in which its session must be busy.
LEMMA BuildFrame ==
    ASSUME TypeOK, NEW t \in Threads, ThreadStep(t) \/ Crash(t),
           ~SetBusy(t), ~Release(t), ~PlanNull(t), ~PlanThrows(t)
    PROVE  UNCHANGED busy /\ (InBuild(t)' <=> InBuild(t))
<1> USE DEF TypeOK, InBuild, InBuildPcs
<1>1. CASE StopRefused(t) \/ StopChecked(t) \/ MarkStop(t) \/ BusyRefused(t)
  BY <1>1 DEF StopRefused, StopChecked, MarkStop, BusyRefused, Goto, End, sessVars
<1>2. CASE BusyPassed(t) \/ InstallHandler(t) \/ Clear(t) \/ Crash(t)
  BY <1>2 DEF BusyPassed, InstallHandler, Clear, Crash, Goto, End, sessVars, thrVars
<1>3. CASE SetBusythr(t) \/ PlanEndless(t) \/ \E n \in 0..MaxTiles : Plan(t, n)
  BY <1>3 DEF SetBusythr, Plan, PlanEndless, Goto, sessVars
<1>4. CASE SendTile(t) \/ NoTileLeft(t) \/ PollStop(t) \/ AckStop(t)
  BY <1>4 DEF SendTile, NoTileLeft, PollStop, AckStop, Goto, sessVars
<1>. QED
  BY <1>1, <1>2, <1>3, <1>4 DEF ThreadStep

\* A thread that builds does not come back to the busy check.
LEMMA BuildLeft ==
    ASSUME TypeOK, NEW t \in Threads, ThreadStep(t) \/ Die(t) \/ Crash(t), InBuild(t)
    PROVE  ~InWindow(t)'
<1> USE DEF TypeOK, InBuild, InBuildPcs, InWindow
<1>1. ~(StopRefused(t) \/ StopChecked(t) \/ MarkStop(t) \/ BusyRefused(t) \/ BusyPassed(t))
  BY DEF StopRefused, StopChecked, MarkStop, BusyRefused, BusyPassed, Goto
<1>2. ~(InstallHandler(t) \/ SetBusy(t))
  BY DEF InstallHandler, SetBusy, Goto
<1>3. CASE PlanNull(t) \/ PlanThrows(t) \/ Clear(t) \/ Die(t) \/ Crash(t)
  BY <1>3 DEF PlanNull, PlanThrows, Clear, Die, Crash, End, thrVars
<1>4. CASE SetBusythr(t) \/ PlanEndless(t) \/ \E n \in 0..MaxTiles : Plan(t, n)
  BY <1>4 DEF SetBusythr, Plan, PlanEndless, Goto
<1>5. CASE SendTile(t) \/ NoTileLeft(t) \/ PollStop(t) \/ AckStop(t) \/ Release(t)
  BY <1>5 DEF SendTile, NoTileLeft, PollStop, AckStop, Release, Goto
<1>. QED
  BY <1>1, <1>2, <1>3, <1>4, <1>5 DEF ThreadStep

\* Only the claim of a job makes a session busy.
LEMMA BusySet ==
    ASSUME TypeOK, NEW t \in Threads, ThreadStep(t) \/ Die(t) \/ Crash(t),
           NEW s \in Sessions, ~busy[s], busy'[s]
    PROVE  SetBusy(t) /\ sess[t] = s
<1>1. CASE SetBusy(t)
  BY <1>1 DEF SetBusy, SetBusyField, TypeOK
<1>2. CASE Release(t) \/ PlanNull(t)
  BY <1>2 DEF Release, PlanNull, SetBusyField, TypeOK
<1>3. CASE PlanThrows(t) \/ Die(t)
  BY <1>3 DEF PlanThrows, Die, sessVars
<1>. QED
  BY <1>1, <1>2, <1>3, BuildFrame

\* Every assignment of busy is made by the one thread that may make it.
LEMMA BusyStep ==
    TypeOK /\ SessionInv /\ [Next]_vars => BusyIsExact'
<1> DEFINE Job(s) == \E x \in Threads : sess[x] = s /\ InBuild(x)
<1> SUFFICES ASSUME TypeOK, SessionInv, [Next]_vars,
                    NEW s \in Sessions, Sound(s)'
             PROVE  /\ Job(s)' => busy'[s]
                    /\ busy'[s] => abandoned'[s] \/ Job(s)'
  BY DEF BusyIsExact
<1>1. ASSUME NEW t \in Threads, ThreadStep(t) \/ Die(t) \/ Crash(t)
      PROVE  /\ Job(s)' => busy'[s]
             /\ busy'[s] => abandoned'[s] \/ Job(s)'
  <2>1. Sound(s) /\ Open(s)
    BY <1>1, ThreadFrame DEF Sound, Open
  <2>2. (Job(s) => busy[s]) /\ (busy[s] => abandoned[s] \/ Job(s))
    BY <2>1 DEF SessionInv, BusyIsExact
  <2>3. \A u \in Threads \ {t} :
           sess'[u] = sess[u] /\ (InBuild(u)' <=> InBuild(u))
    BY <1>1, ThreadFrame DEF InBuild
  <2>4. abandoned[s] => abandoned'[s]
    BY <1>1, ThreadFrame
  <2>5. CASE SetBusy(t)
    BY <2>2, <2>3, <2>4, <2>5
    DEF SetBusy, SetBusyField, Goto, InBuild, InBuildPcs, TypeOK
  <2>6. CASE Release(t) \/ PlanNull(t)
    <3>1. InBuild(t) /\ ~InBuild(t)'
      BY <2>6 DEF Release, PlanNull, Goto, End, InBuild, InBuildPcs, TypeOK
    <3>2. busy' = [busy EXCEPT ![sess[t]] = FALSE]
      BY <2>6 DEF Release, PlanNull, SetBusyField
    <3>3. CASE sess[t] = s
      <4>1. ~Job(s)'
        BY <2>1, <2>3, <3>1, <3>3 DEF SessionInv, AtMostOneClaim, Claims
      <4>. QED
        BY <3>2, <3>3, <4>1 DEF TypeOK
    <3>4. CASE sess[t] # s
      BY <2>2, <2>3, <2>4, <3>1, <3>2, <3>4 DEF TypeOK
    <3>. QED
      BY <3>3, <3>4
  <2>7. CASE PlanThrows(t) \/ Die(t)
    <3>1. UNCHANGED busy /\ ~InBuild(t)'
      BY <2>7 DEF PlanThrows, Die, End, sessVars, InBuild, InBuildPcs, TypeOK
    <3>2. CASE sess[t] = s
      <4>1. abandoned'[s]
        BY <2>1, <2>7, <3>2 DEF PlanThrows, Die, TypeOK
      <4>. QED
        BY <2>2, <2>3, <3>1, <4>1
    <3>3. CASE sess[t] # s
      BY <2>2, <2>3, <2>4, <3>1, <3>3
    <3>. QED
      BY <3>2, <3>3
  <2>8. CASE ~(SetBusy(t) \/ Release(t) \/ PlanNull(t) \/ PlanThrows(t) \/ Die(t))
    <3>1. UNCHANGED busy /\ (InBuild(t)' <=> InBuild(t))
      BY <1>1, <2>8, BuildFrame
    <3>2. InBuild(t) => sess'[t] = sess[t]
      BY <1>1, <3>1, ThreadFrame DEF InBuild, InBuildPcs
    <3>. QED
      BY <2>2, <2>3, <2>4, <3>1, <3>2
  <2>. QED
    BY <2>5, <2>6, <2>7, <2>8
<1>2. ASSUME NEW r \in Sessions, Connect(r)
      PROVE  /\ Job(s)' => busy'[s]
             /\ busy'[s] => abandoned'[s] \/ Job(s)'
  <2>1. \A u \in Threads : sess'[u] = sess[u] /\ (InBuild(u)' <=> InBuild(u))
    BY <1>2, LoopFrame DEF InBuild
  <2>2. CASE r = s
    <3>1. ~Job(s)'
      BY <1>2, <2>1, <2>2
      DEF Connect, Sound, TypeOK, Working, InBuild, InBuildPcs
    <3>. QED
      BY <1>2, <2>2, <3>1 DEF Connect, TypeOK
  <2>3. CASE r # s
    <3>1. Sound(s)
      BY <1>2, <2>3, SoundFrame DEF SessionInv, Connect, TypeOK, Sound, Open, loopVars
    <3>. QED
      BY <1>2, <2>1, <2>3, <3>1 DEF Connect, TypeOK, SessionInv, BusyIsExact
  <2>. QED
    BY <2>2, <2>3
<1>3. ASSUME LoopStep \/ \E r \in Sessions : Disconnect(r)
      PROVE  /\ Job(s)' => busy'[s]
             /\ busy'[s] => abandoned'[s] \/ Job(s)'
  <2>1. \A u \in Threads : sess'[u] = sess[u] /\ (InBuild(u)' <=> InBuild(u))
    BY <1>3, LoopFrame DEF InBuild
  <2>2. Sound(s) /\ s # closing
    <3>1. ~Connect(s)
      BY <1>3 DEF LoopStep, KillLook, KillSend, KillEnded, Free, Erase,
                  Disconnect, Connect, SessionInv, LoopInv, KillDone, sessVars
    <3>. QED
      BY <3>1, SoundFrame DEF SessionInv, Sound, Open
  <2>3. busy'[s] = busy[s] /\ abandoned'[s] = abandoned[s]
    BY <1>3, <2>2 DEF LoopStep, KillLook, KillSend, KillEnded, KillDone, Free,
                      Erase, Disconnect, sessVars, histVars, TypeOK
  <2>. QED
    BY <2>1, <2>2, <2>3 DEF SessionInv, BusyIsExact
<1>4. ASSUME NEW t \in Threads, NEW r \in Sessions, NEW k \in Jobs,
            StartHandler(t, r, k)
      PROVE  /\ Job(s)' => busy'[s]
             /\ busy'[s] => abandoned'[s] \/ Job(s)'
  <2>1. \A u \in Threads : /\ InBuild(u)' <=> InBuild(u)
                           /\ InBuild(u) => sess'[u] = sess[u]
    <3>1. ~InBuild(t) /\ ~InBuild(t)'
      BY <1>4 DEF StartHandler, TypeOK, InBuild, InBuildPcs, Working
    <3>2. \A u \in Threads \ {t} : pc'[u] = pc[u] /\ sess'[u] = sess[u]
      BY <1>4 DEF StartHandler, TypeOK
    <3>. QED
      BY <3>1, <3>2 DEF InBuild
  <2>2. Sound(s) /\ UNCHANGED <<busy, abandoned>>
    BY <1>4 DEF StartHandler, Sound, Open, sessVars, loopVars, histVars
  <2>. QED
    <3>1. Job(s)' <=> Job(s)
      BY <2>1
    <3>. QED
      BY <2>2, <3>1 DEF SessionInv, BusyIsExact
<1>5. CASE UNCHANGED vars
  BY <1>5 DEF vars, thrVars, sessVars, loopVars, histVars, SessionInv,
              BusyIsExact, InBuild, Sound, Open
<1>. QED
  BY <1>1, <1>2, <1>3, <1>4, <1>5 DEF Next

\* The busy check keeps threads of a busy session out of the window, and the
\* thread that makes it busy is alone there.
LEMMA EntryStep ==
    TypeOK /\ SessionInv /\ EntryInv /\ [Next]_vars => EntryInv'
<1> SUFFICES ASSUME TypeOK, SessionInv, EntryInv, [Next]_vars,
                    NEW s \in Sessions, Sound(s)', busy'[s],
                    NEW x \in Threads, sess'[x] = s, InWindow(x)'
             PROVE  FALSE
  BY DEF EntryInv
<1>1. ASSUME NEW t \in Threads, ThreadStep(t) \/ Die(t) \/ Crash(t)
      PROVE  FALSE
  <2>1. Sound(s) /\ sess[x] = s /\ pc'[x] # "idle"
    BY <1>1, ThreadFrame DEF Sound, Open, InWindow
  <2>2. \A u \in Threads \ {t} : InWindow(u)' <=> InWindow(u)
    BY <1>1, ThreadFrame DEF InWindow
  <2>3. CASE busy[s]
    <3>1. ~InWindow(x)
      BY <2>1, <2>3 DEF EntryInv
    <3>2. x = t /\ ~InBuild(t)
      BY <2>2, <3>1, <1>1, BuildLeft DEF InWindow, InBuild, InBuildPcs
    <3>3. BusyPassed(t)
      BY <1>1, <3>1, <3>2, ClaimEntry DEF Claims
    <3>. QED
      BY <2>1, <2>3, <3>2, <3>3 DEF BusyPassed, Goto, InWindow
  <2>4. CASE ~busy[s]
    <3>1. SetBusy(t) /\ sess[t] = s
      BY <1>1, <2>4, BusySet
    <3>2. InWindow(t) /\ ~InWindow(t)'
      BY <3>1 DEF SetBusy, Goto, InWindow, TypeOK
    <3>3. x # t /\ InWindow(x)
      BY <2>2, <3>2
    <3>. QED
      BY <2>1, <3>1, <3>2, <3>3 DEF SessionInv, AtMostOneClaim, Claims
  <2>. QED
    BY <2>3, <2>4
<1>2. ASSUME NEW r \in Sessions, Connect(r) PROVE FALSE
  <2>1. sess[x] = s /\ InWindow(x) /\ Working(x)
    BY <1>2, LoopFrame DEF InWindow, Working
  <2>2. Sound(s) /\ r # s
    BY <1>2, <2>1, SoundFrame DEF SessionInv, Connect, TypeOK
  <2>. QED
    BY <1>2, <2>1, <2>2 DEF Connect, TypeOK, EntryInv
<1>3. ASSUME LoopStep \/ \E r \in Sessions : Disconnect(r) PROVE FALSE
  <2>1. sess[x] = s /\ InWindow(x) /\ Working(x)
    BY <1>3, LoopFrame DEF InWindow, Working
  <2>2. Sound(s)
    BY <2>1, SoundFrame DEF SessionInv
  <2>3. busy[s]
    BY <1>3 DEF LoopStep, KillLook, KillSend, KillEnded, KillDone, Free, Erase, Disconnect,
                sessVars, TypeOK
  <2>. QED
    BY <2>1, <2>2, <2>3 DEF EntryInv
<1>4. ASSUME NEW t \in Threads, NEW r \in Sessions, NEW k \in Jobs, StartHandler(t, r, k)
      PROVE  FALSE
  BY <1>4 DEF StartHandler, TypeOK, EntryInv, InWindow, Sound, Open, sessVars, loopVars, histVars
<1>5. CASE UNCHANGED vars
  BY <1>5 DEF vars, thrVars, sessVars, loopVars, histVars, EntryInv, InWindow, Sound, Open
<1>. QED
  BY <1>1, <1>2, <1>3, <1>4, <1>5 DEF Next

\* A thread that sends a tile after a stop polls before the next one.
LEMMA HeedStep == TypeOK /\ HeedInv /\ [Next]_vars => HeedInv'
<1> SUFFICES ASSUME TypeOK, HeedInv, [Next]_vars, NEW u \in Threads
             PROVE  unheeded'[u] # 0 => /\ unheeded'[u] = 1 /\ stopFlag'
                                        /\ pc'[u] \in {"poll", "ack"}
  BY DEF HeedInv
<1> DEFINE Goal == unheeded'[u] # 0 => /\ unheeded'[u] = 1 /\ stopFlag'
                                       /\ pc'[u] \in {"poll", "ack"}
<1> USE DEF TypeOK, HeedInv
<1>1. ASSUME NEW t \in Threads,
             \/ StopRefused(t) \/ MarkStop(t) \/ BusyRefused(t) \/ PlanNull(t)
             \/ PlanThrows(t) \/ Clear(t) \/ Die(t)
      PROVE  Goal
  BY <1>1 DEF StopRefused, MarkStop, BusyRefused, PlanNull, PlanThrows, Clear,
              Die, End
<1>2. ASSUME NEW t \in Threads, InstallHandler(t) PROVE Goal
  BY <1>2 DEF InstallHandler, End
<1>3. ASSUME NEW t \in Threads, NEW n \in 0..MaxTiles,
             \/ StopChecked(t) \/ BusyPassed(t) \/ SetBusy(t) \/ SetBusythr(t)
             \/ Plan(t, n) \/ PlanEndless(t) \/ NoTileLeft(t) \/ Release(t)
      PROVE  Goal
  BY <1>3 DEF StopChecked, BusyPassed, SetBusy, SetBusythr, Plan, PlanEndless, NoTileLeft,
              Release, Goto
<1>4. ASSUME NEW t \in Threads, SendTile(t) PROVE Goal
  BY <1>4 DEF SendTile, Goto
<1>5. ASSUME NEW t \in Threads, PollStop(t) PROVE Goal
  BY <1>5 DEF PollStop, Goto
<1>6. ASSUME NEW t \in Threads, AckStop(t) PROVE Goal
  BY <1>6 DEF AckStop
<1>7. ASSUME NEW t \in Threads, Crash(t) PROVE Goal
  BY <1>7 DEF Crash, thrVars
<1>8. ASSUME NEW t \in Threads, NEW s \in Sessions, NEW k \in Jobs,
            StartHandler(t, s, k)
      PROVE  Goal
  BY <1>8 DEF StartHandler, Working
<1>9. ASSUME LoopStep \/ \E s \in Sessions : Connect(s) \/ Disconnect(s)
      PROVE  Goal
  BY <1>9, LoopFrame
<1>10. CASE UNCHANGED vars
  BY <1>10 DEF vars, thrVars
<1>. QED
  <2>1. 0 \in 0..MaxTiles
    BY MaxTilesAssumption
  <2>. QED
    BY <1>1, <1>2, <1>3, <1>4, <1>5, <1>6, <1>7, <1>8, <1>9, <1>10, <2>1
    DEF Next, ThreadStep

\* Only a thread that has installed the SIGUSR1 handler becomes a victim.
LEMMA HandlerStep == TypeOK /\ HandlerInv /\ [Next]_vars => HandlerInv'
<1> SUFFICES ASSUME TypeOK, HandlerInv, [Next]_vars PROVE HandlerInv'
  OBVIOUS
<1> USE DEF TypeOK, HandlerInv, InBuild, InBuildPcs
<1>1. ASSUME NEW t \in Threads,
             \/ StopRefused(t) \/ MarkStop(t) \/ BusyRefused(t) \/ PlanNull(t)
             \/ PlanThrows(t) \/ Clear(t) \/ Die(t)
      PROVE  HandlerInv'
  <2>1. UNCHANGED <<usr1, busythr, loopAt>>
    BY <1>1 DEF StopRefused, MarkStop, BusyRefused, PlanNull, PlanThrows, Clear,
                Die, sessVars, loopVars
  <2>2. End(t)
    BY <1>1 DEF StopRefused, MarkStop, BusyRefused, PlanNull, PlanThrows, Clear, Die
  <2>. QED
    BY <2>1, <2>2 DEF End
<1>2. ASSUME NEW t \in Threads, InstallHandler(t) PROVE HandlerInv'
  BY <1>2 DEF InstallHandler
<1>3. ASSUME NEW t \in Threads, NEW n \in 0..MaxTiles,
             \/ StopChecked(t) \/ BusyPassed(t) \/ SetBusy(t) \/ Plan(t, n)
             \/ PlanEndless(t) \/ SendTile(t) \/ NoTileLeft(t) \/ PollStop(t) \/ AckStop(t)
             \/ Release(t)
      PROVE  HandlerInv'
  BY <1>3 DEF StopChecked, BusyPassed, SetBusy, Plan, PlanEndless, SendTile, NoTileLeft,
              PollStop, AckStop, Release, Goto, sessVars, loopVars
<1>4. ASSUME NEW t \in Threads, SetBusythr(t) PROVE HandlerInv'
  BY <1>4 DEF SetBusythr, Goto, loopVars
<1>5. ASSUME NEW t \in Threads, Crash(t) PROVE HandlerInv'
  BY <1>5 DEF Crash, thrVars, sessVars, loopVars
<1>6. ASSUME NEW t \in Threads, NEW s \in Sessions, NEW k \in Jobs,
            StartHandler(t, s, k)
      PROVE  HandlerInv'
  BY <1>6 DEF StartHandler, sessVars, loopVars
<1>7. ASSUME NEW s \in Sessions, Connect(s) \/ Disconnect(s) PROVE HandlerInv'
  BY <1>7 DEF Connect, Disconnect, thrVars, sessVars, loopVars
<1>8. ASSUME KillLook PROVE HandlerInv'
  <2>1. loopAt # "idle" /\ closing \in Sessions
    BY <1>8 DEF KillLook
  <2>. QED
    BY <1>8, <2>1 DEF KillLook, thrVars
<1>9. ASSUME KillSend \/ KillEnded PROVE HandlerInv'
  BY <1>9 DEF KillSend, KillEnded, KillDone
<1>10. ASSUME Free \/ Erase PROVE HandlerInv'
  BY <1>10 DEF Free, Erase, thrVars
<1>11. CASE UNCHANGED vars
  BY <1>11 DEF vars, thrVars, sessVars, loopVars
<1>. QED
  <2>1. 0 \in 0..MaxTiles
    BY MaxTilesAssumption
  <2>. QED
    BY <1>1, <1>2, <1>3, <1>4, <1>5, <1>6, <1>7, <1>8, <1>9, <1>10, <1>11, <2>1
    DEF Next, ThreadStep, LoopStep

-----------------------------------------------------------------------------
\* The parts carry each other over every step.
LEMMA IInvStep == IInv /\ [Next]_vars => IInv'
BY TypeStep, LoopInvStep, ClaimStep, BusyStep, HeedStep, HandlerStep, EntryStep
DEF IInv, SessionInv

\* The conjunction of the invariants holds in every reachable state.
THEOREM Inductive == Spec => []IInv
BY InitIInv, IInvStep, PTL DEF Spec

\* Every variable keeps its type; a working thread has a session, and the loop
\* thread has a session to close and a thread to kill when it needs one.
THEOREM TypeCorrect == Spec => []TypeOK
BY Inductive, PTL DEF IInv

\* However the unlocked reads and writes of busy interleave, two jobs build
\* for one open session only after they met between the busy check and the
\* assignment, or after a freed session's memory was used.
THEOREM OneBuild == Spec => []OneBuildPerSession
<1>1. IInv => OneBuildPerSession
  BY DEF IInv, SessionInv, AtMostOneClaim, OneBuildPerSession, Claims
<1>. QED
  BY <1>1, Inductive, PTL

\* No path through builder leaves busy set or clears it early, except a thread
\* that ends by an exception or a signal.
THEOREM BusyExact == Spec => []BusyIsExact
<1>1. IInv => BusyIsExact
  BY DEF IInv, SessionInv
<1>. QED
  BY <1>1, Inductive, PTL

\* A job notices a standing stop after one tile at most.
THEOREM StopIsHeeded == Spec => []StopHeeded
<1>1. IInv => StopHeeded
  BY DEF IInv, TypeOK, HeedInv, StopHeeded
<1>. QED
  BY <1>1, Inductive, PTL

\* killbusy's SIGUSR1 never takes its default action, which ends the server.
THEOREM KillIsHandled == Spec => []KillHasHandler
<1>1. IInv => KillHasHandler
  BY DEF IInv, HandlerInv, KillHasHandler
<1>. QED
  BY <1>1, Inductive, PTL

-----------------------------------------------------------------------------
(* BuildJobs implements Jobs *)

Same(s) == phaseOf'[s] = phaseOf[s] /\ workerOf'[s] = workerOf[s]

\* What the jobs of a session depend on
LEMMA SameView ==
    ASSUME NEW s \in Sessions,
           Open(s)' <=> Open(s),
           Open(s) => /\ tainted'[s] = tainted[s]
                      /\ ~tainted[s] => busy'[s] = busy[s] /\ Builders(s)' = Builders(s)
    PROVE  Same(s)
<1>1. Phase(s)' = Phase(s)
  BY DEF Phase
<1>2. Phase(s) = "building" => Builders(s)' = Builders(s)
  BY DEF Phase
<1>3. Worker(s)' = Worker(s)
  <2>1. CASE Phase(s) = "building"
    BY <1>1, <1>2, <2>1 DEF Worker
  <2>2. CASE Phase(s) # "building"
    BY <1>1, <2>2 DEF Worker
  <2>. QED
    BY <2>1, <2>2
<1>. QED
  BY <1>1, <1>3 DEF Same, phaseOf, workerOf

\* A step that changes the jobs of one session, and those as Jobs allows, is one
\* of Jobs.
LEMMA OneMoves ==
    ASSUME NEW r \in Sessions, \A s \in Sessions \ {r} : Same(s),
           NEW from, NEW to, NEW t,
           phaseOf[r] \in from, phaseOf'[r] = to, workerOf'[r] = t
    PROVE  J!Become(r, from, to, t)
<1>1. phaseOf' = [phaseOf EXCEPT ![r] = to]
  BY DEF Same, phaseOf
<1>2. workerOf' = [workerOf EXCEPT ![r] = t]
  BY DEF Same, workerOf
<1>. QED
  BY <1>1, <1>2 DEF J!Become

\* A step that changes the jobs of no session is none of Jobs.
LEMMA NoneMoves ==
    ASSUME \A s \in Sessions : Same(s) PROVE UNCHANGED J!vars
<1>1. phaseOf' = phaseOf
  BY DEF Same, phaseOf
<1>2. workerOf' = workerOf
  BY DEF Same, workerOf
<1>. QED
  BY <1>1, <1>2 DEF J!vars

\* A session that does not build has no worker.
LEMMA NoWorker ==
    ASSUME NEW s \in Sessions, Phase(s) # "building" PROVE workerOf[s] = NoThread
BY DEF workerOf, Worker

\* Sessions are opened and closed by connections and the loop thread.
LEMMA LoopRefines ==
    ASSUME TypeOK, SessionInv, LoopStep \/ \E r \in Sessions : Connect(r) \/ Disconnect(r)
    PROVE  [J!Next]_(J!vars)
<1>1. \A s \in Sessions : Builders(s)' = Builders(s)
  BY LoopFrame DEF Builders, InBuild
<1>2. ASSUME NEW r \in Sessions, Connect(r) PROVE [J!Next]_(J!vars)
  <2>1. \A s \in Sessions \ {r} : Same(s)
    BY <1>1, <1>2, SameView DEF Connect, Open, TypeOK, loopVars
  <2>2. phaseOf[r] = "closed"
    BY <1>2 DEF Connect, phaseOf, Phase, Open
  <2>3. phaseOf'[r] \in {"closed", "shared", "idle"}
    <3>1. ~tainted'[r] => Builders(r)' = {} /\ ~busy'[r]
      BY <1>1, <1>2 DEF Connect, TypeOK, Builders, InBuild, InBuildPcs, Working
    <3>. QED
      BY <3>1 DEF phaseOf, Phase
  <2>4. workerOf'[r] = NoThread
    BY <2>3 DEF phaseOf, workerOf, Worker
  <2>5. CASE phaseOf'[r] = "closed"
    <3>1. workerOf[r] = NoThread
      BY <2>2, NoWorker DEF phaseOf
    <3>. QED
      BY <2>1, <2>2, <2>4, <2>5, <3>1, NoneMoves DEF Same
  <2>6. CASE phaseOf'[r] = "shared"
    BY <2>1, <2>2, <2>4, <2>6, OneMoves DEF J!Next, J!Share
  <2>7. CASE phaseOf'[r] = "idle"
    BY <2>1, <2>2, <2>4, <2>7, OneMoves DEF J!Next, J!Open
  <2>. QED
    BY <2>3, <2>5, <2>6, <2>7
<1>3. ASSUME NEW r \in Sessions, Disconnect(r) PROVE [J!Next]_(J!vars)
  <2>1. \A s \in Sessions \ {r} : Same(s)
    BY <1>1, <1>3, SameView, NoSessionAssumption
       DEF Disconnect, SessionInv, LoopInv, Open, sessVars, histVars
  <2>2. phaseOf'[r] = "closed" /\ workerOf'[r] = NoThread
    BY <1>3 DEF Disconnect, phaseOf, workerOf, Worker, Phase, Open
  <2>3. CASE phaseOf[r] = "closed"
    <3>1. workerOf[r] = NoThread
      BY <2>3, NoWorker DEF phaseOf
    <3>. QED
      BY <2>1, <2>2, <2>3, <3>1, NoneMoves DEF Same
  <2>4. CASE phaseOf[r] # "closed"
    <3>1. phaseOf[r] \in {"idle", "building", "stuck", "shared"}
      BY <2>4 DEF phaseOf, Phase
    <3>. QED
      BY <2>1, <2>2, <3>1, OneMoves DEF J!Next, J!Close
  <2>. QED
    BY <2>3, <2>4
<1>4. ASSUME LoopStep PROVE [J!Next]_(J!vars)
  <2>. SUFFICES ASSUME NEW s \in Sessions PROVE Same(s)
    BY NoneMoves
  <2>1. Open(s)' <=> Open(s)
    BY <1>4, NoSessionAssumption
       DEF LoopStep, KillLook, KillSend, KillEnded, KillDone, Free, Erase, Open,
           SessionInv, LoopInv, sessVars
  <2>2. Open(s) => tainted'[s] = tainted[s] /\ busy'[s] = busy[s]
    BY <1>4 DEF LoopStep, KillLook, KillSend, KillEnded, KillDone, Free, Erase, Open,
                sessVars, histVars, TypeOK
  <2>. QED
    BY <1>1, <2>1, <2>2, SameView
<1>. QED
  BY <1>2, <1>3, <1>4

\* A step of a thread changes nothing in the sessions it has no pointer to.
LEMMA OthersSame ==
    ASSUME TypeOK, NEW t \in Threads, ThreadStep(t) \/ Die(t) \/ Crash(t),
           NEW s \in Sessions, sess[t] # s
    PROVE  Same(s)
<1>1. Open(s)' <=> Open(s)
  BY ThreadFrame DEF Open
<1>2. Builders(s)' = Builders(s)
  BY ThreadFrame DEF Builders, InBuild, InBuildPcs
<1>3. busy'[s] = busy[s] /\ tainted'[s] = tainted[s]
  <2>1. CASE SetBusy(t) \/ Release(t) \/ PlanNull(t)
    BY <2>1 DEF SetBusy, Release, PlanNull, SetBusyField, TypeOK, histVars
  <2>2. CASE PlanThrows(t) \/ Die(t) \/ Crash(t)
    BY <2>2 DEF PlanThrows, Die, Crash, sessVars, histVars
  <2>3. CASE BusyPassed(t)
    BY <2>3 DEF BusyPassed, TypeOK, sessVars
  <2>4. CASE ~(SetBusy(t) \/ Release(t) \/ PlanNull(t) \/ PlanThrows(t) \/ Die(t) \/ Crash(t)
               \/ BusyPassed(t))
    BY <2>4 DEF ThreadStep, StopRefused, StopChecked, MarkStop, BusyRefused, InstallHandler,
                SetBusythr, Plan, PlanEndless, SendTile, NoTileLeft, PollStop, AckStop, Clear,
                sessVars, histVars
  <2>. QED
    BY <2>1, <2>2, <2>3, <2>4
<1>. QED
  BY <1>1, <1>2, <1>3, SameView

\* The one thread that builds for a session is its worker.
LEMMA OneBuilder ==
    ASSUME TypeOK, SessionInv, NEW t \in Threads, NEW r \in Sessions, sess[t] = r, Sound(r),
           InBuild(t)
    PROVE  Builders(r) = {t} /\ phaseOf[r] = "building" /\ busy[r]
<1>1. Builders(r) = {t}
  BY DEF Builders, SessionInv, AtMostOneClaim, Claims
<1>. QED
  BY <1>1 DEF phaseOf, Phase, Sound, SessionInv, BusyIsExact

\* Jobs begin and end in the steps of their threads.
LEMMA OwnMoves ==
    ASSUME TypeOK, SessionInv, EntryInv,
           NEW t \in Threads, ThreadStep(t) \/ Die(t) \/ Crash(t),
           NEW r \in Sessions, sess[t] = r, Sound(r), \A s \in Sessions \ {r} : Same(s)
    PROVE  [J!Next]_(J!vars)
<1>1. Open(r) /\ Open(r)' /\ ~tainted[r]
  BY ThreadFrame DEF Sound, Open
<1>2. \A u \in Threads \ {t} : u \in Builders(r)' <=> u \in Builders(r)
  BY ThreadFrame DEF Builders, InBuild
<1>3. t \in Builders(r)' <=> InBuild(t)'
  BY ThreadFrame DEF Builders, InBuild, InBuildPcs
<1>4. CASE tainted'[r]
  <2>1. BusyPassed(t) /\ tainted' # tainted
    BY <1>1, <1>4
       DEF ThreadStep, Die, Crash, StopRefused, StopChecked, MarkStop, BusyRefused,
           InstallHandler, SetBusy, SetBusythr, Plan, PlanEndless, PlanNull, PlanThrows, SendTile,
           NoTileLeft, PollStop, AckStop, Release, Clear, histVars
  <2>2. phaseOf[r] = "idle"
    BY <1>1, <2>1
       DEF BusyPassed, phaseOf, Phase, Builders, SessionInv, BusyIsExact
  <2>3. phaseOf'[r] = "shared" /\ workerOf'[r] = NoThread
    BY <1>1, <1>4 DEF phaseOf, workerOf, Worker, Phase
  <2>. QED
    BY <2>2, <2>3, OneMoves DEF J!Next, J!Share
<1>5. CASE ~tainted'[r] /\ SetBusy(t)
  <2>1. InWindow(t) /\ InBuild(t)' /\ busy'[r] /\ ~InBuild(t)
    BY <1>5 DEF SetBusy, SetBusyField, Goto, TypeOK, InWindow, InBuild, InBuildPcs
  <2>2. Builders(r) = {}
    BY <2>1 DEF Builders, SessionInv, AtMostOneClaim, Claims
  <2>3. phaseOf[r] = "idle"
    BY <1>1, <2>1, <2>2 DEF phaseOf, Phase, EntryInv
  <2>4. Builders(r)' = {t}
    BY <1>2, <1>3, <2>1, <2>2 DEF Builders
  <2>5. phaseOf'[r] = "building" /\ Phase(r)' = "building"
    BY <1>1, <1>5, <2>4 DEF phaseOf, Phase
  <2>6. workerOf'[r] = t
    <3>1. workerOf'[r] = CHOOSE u \in Threads : u \in {t}
      BY <2>4, <2>5 DEF workerOf, Worker
    <3>. QED
      BY <3>1
  <2>. QED
    BY <2>3, <2>5, <2>6, OneMoves DEF J!Next, J!Begin
<1>6. CASE ~tainted'[r] /\ (Release(t) \/ PlanNull(t))
  <2>1. InBuild(t) /\ ~InBuild(t)' /\ ~busy'[r]
    BY <1>6
       DEF Release, PlanNull, SetBusyField, Goto, End, TypeOK, InBuild, InBuildPcs
  <2>2. Builders(r)' = {}
    BY <1>2, <1>3, <2>1, OneBuilder DEF Builders
  <2>3. phaseOf'[r] = "idle" /\ workerOf'[r] = NoThread
    BY <1>1, <1>6, <2>1, <2>2 DEF phaseOf, workerOf, Worker, Phase
  <2>. QED
    BY <2>1, <2>3, OneBuilder, OneMoves DEF J!Next, J!Finish
<1>7. CASE ~tainted'[r] /\ (PlanThrows(t) \/ Die(t)) /\ InBuild(t)
  <2>1. ~InBuild(t)' /\ busy' = busy
    BY <1>7 DEF PlanThrows, Die, End, TypeOK, InBuild, InBuildPcs, sessVars
  <2>2. Builders(r)' = {}
    BY <1>2, <1>3, <1>7, <2>1, OneBuilder DEF Builders
  <2>3. phaseOf'[r] = "stuck" /\ workerOf'[r] = NoThread
    BY <1>1, <1>7, <2>1, <2>2, OneBuilder DEF phaseOf, workerOf, Worker, Phase
  <2>. QED
    BY <1>7, <2>3, OneBuilder, OneMoves DEF J!Next, J!Abandon
<1>8. CASE /\ ~tainted'[r] /\ ~SetBusy(t) /\ ~Release(t) /\ ~PlanNull(t)
           /\ ~((PlanThrows(t) \/ Die(t)) /\ InBuild(t))
  <2>1. UNCHANGED busy /\ (InBuild(t)' <=> InBuild(t))
    <3>1. CASE Die(t) /\ ~InBuild(t)
      BY <3>1 DEF Die, End, TypeOK, InBuild, InBuildPcs, sessVars
    <3>2. PlanThrows(t) => InBuild(t)
      BY DEF PlanThrows, InBuild, InBuildPcs
    <3>. QED
      BY <1>8, <3>1, <3>2, BuildFrame
  <2>2. Builders(r)' = Builders(r)
    BY <1>2, <1>3, <2>1 DEF Builders
  <2>3. tainted'[r] = tainted[r]
    <3>1. tainted' \in [Sessions -> BOOLEAN]
      BY TypeStep DEF TypeOK, Next
    <3>. QED
      BY <1>1, <1>8, <3>1 DEF TypeOK
  <2>4. Same(r)
    BY <1>1, <2>1, <2>2, <2>3, SameView
  <2>. QED
    BY <2>4, NoneMoves
<1>. QED
  BY <1>4, <1>5, <1>6, <1>7, <1>8

\* A step of a thread changes at most the jobs of its session.
LEMMA ThreadRefines ==
    ASSUME TypeOK, SessionInv, EntryInv,
           NEW t \in Threads, ThreadStep(t) \/ Die(t) \/ Crash(t)
    PROVE  [J!Next]_(J!vars)
<1>1. \A s \in Sessions : sess[t] # s => Same(s)
  BY OthersSame
<1>2. CASE sess[t] \notin Sessions
  BY <1>1, <1>2, NoneMoves
<1>3. ASSUME NEW r \in Sessions, sess[t] = r, ~Sound(r) PROVE [J!Next]_(J!vars)
  <2>1. Open(r)' <=> Open(r)
    BY ThreadFrame DEF Open
  <2>2. Open(r) => tainted[r] /\ tainted'[r] = tainted[r]
    <3>1. tainted' \in [Sessions -> BOOLEAN]
      BY TypeStep DEF TypeOK, Next
    <3>. QED
      BY <1>3, <3>1, ThreadFrame DEF Sound, TypeOK
  <2>3. Same(r)
    BY <2>1, <2>2, SameView
  <2>. QED
    BY <1>1, <1>3, <2>3, NoneMoves
<1>4. ASSUME NEW r \in Sessions, sess[t] = r, Sound(r) PROVE [J!Next]_(J!vars)
  BY <1>1, <1>4, OwnMoves
<1>. QED
  BY <1>2, <1>3, <1>4

\* Every step of the handlers and the loop thread is a step of Jobs or none.
LEMMA RefinesStep == IInv /\ [Next]_vars => [J!Next]_(J!vars)
<1> SUFFICES ASSUME IInv, [Next]_vars PROVE [J!Next]_(J!vars)
  OBVIOUS
<1>1. TypeOK /\ SessionInv /\ EntryInv
  BY DEF IInv
<1>2. CASE LoopStep \/ \E r \in Sessions : Connect(r) \/ Disconnect(r)
  BY <1>1, <1>2, LoopRefines
<1>3. ASSUME NEW t \in Threads, ThreadStep(t) \/ Die(t) \/ Crash(t)
      PROVE  [J!Next]_(J!vars)
  BY <1>1, <1>3, ThreadRefines
<1>4. ASSUME NEW t \in Threads, NEW r \in Sessions, NEW k \in Jobs, StartHandler(t, r, k)
      PROVE  [J!Next]_(J!vars)
  <2>. SUFFICES ASSUME NEW s \in Sessions PROVE Same(s)
    BY NoneMoves
  <2>1. \A u \in Threads : /\ InBuild(u)' <=> InBuild(u)
                           /\ InBuild(u) => sess'[u] = sess[u]
    BY <1>1, <1>4 DEF StartHandler, TypeOK, InBuild, InBuildPcs, Working
  <2>2. Builders(s)' = Builders(s)
    BY <2>1 DEF Builders
  <2>. QED
    BY <1>4, <2>2, SameView DEF StartHandler, Open, sessVars, loopVars, histVars
<1>5. CASE UNCHANGED vars
  <2>. SUFFICES ASSUME NEW s \in Sessions PROVE Same(s)
    BY NoneMoves
  <2>1. Builders(s)' = Builders(s)
    BY <1>5 DEF vars, thrVars, Builders, InBuild
  <2>. QED
    BY <1>5, <2>1, SameView DEF vars, Open, sessVars, loopVars, histVars
<1>. QED
  BY <1>2, <1>3, <1>4, <1>5 DEF Next

\* The sessions keep the promise of Jobs, however messages, closes and kills
\* interleave: a job is ended by its own thread or for good.
THEOREM KeepsJobs == Spec => JobsSpec
<1>1. Init => J!Init
  <2>. SUFFICES ASSUME Init PROVE J!Init
    OBVIOUS
  <2>1. \A s \in Sessions : Phase(s) = "closed" /\ Worker(s) = NoThread
    BY DEF Init, Phase, Worker, Open
  <2>. QED
    BY <2>1 DEF J!Init, phaseOf, workerOf
<1>2. IInv /\ [Next]_vars => [J!Next]_(J!vars)
  BY RefinesStep
<1>. QED
  BY <1>1, <1>2, Inductive, PTL DEF Spec, JobsSpec, J!Spec
=============================================================================
