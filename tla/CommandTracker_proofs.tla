------------------------ MODULE CommandTracker_proofs ------------------------
(***************************************************************************)
(* The safety properties of CommandTracker for any number of threads and   *)
(* commands, and its refinement of Delivery.                               *)
(*                                                                         *)
(* That a command is never forgotten rests on where the tracker can lose   *)
(* it: a command that has not taken effect is in pkmap or about to be put  *)
(* there (TrackInv), and what is on its way to removeCommand has taken     *)
(* effect (OkInv).  That it takes effect once rests on there being one     *)
(* token of it: a copy on the wire, an error on the way back, a thread     *)
(* that resends it, or its effect (OneToken); with misread messages, on    *)
(* there being one more for each error that is handled twice (FewTokens).  *)
(***************************************************************************)
EXTENDS CommandTracker, FiniteSetTheorems, TLAPS

Holds(t, c) == pc[t] \in {"resend", "sending"} /\ arg[t] = c
Tracking(c) == \E t \in Threads : pc[t] = "track" /\ arg[t] = c

TrackInv ==
    \A c \in sent :
        c \in pkmap \/ Tracking(c) \/ executed[c] > 0 \/ c \in excused

OkInv ==
    \A c \in Cmds :
        /\ oks[c] > 0 => executed[c] > 0
        /\ \A t \in Threads : pc[t] = "remove" /\ arg[t] = c => executed[c] > 0

\* Where pkmap is or will be told of a command, an answer is still to come.
PendingInv ==
    \A c \in Cmds : c \in pkmap \/ Tracking(c) => Pending(c) \/ c \in excused

SafeInv == TypeOK /\ LockHeld /\ TrackInv /\ OkInv /\ PendingInv /\ NotForgotten

OneToken ==
    \A c \in Cmds :
        /\ wire[c] + errs[c] + executed[c] <= 1
        /\ \A t \in Threads :
              Holds(t, c) => wire[c] + errs[c] + executed[c] = 0
        /\ \A t, u \in Threads : Holds(t, c) /\ Holds(u, c) => t = u
        /\ c \notin sent => /\ wire[c] + errs[c] + executed[c] = 0
                            /\ \A t \in Threads : ~Holds(t, c)

-----------------------------------------------------------------------------
\* Nothing is sent or tracked at the start.
LEMMA InitSafe == Init => SafeInv
<1> SUFFICES ASSUME Init PROVE SafeInv
  OBVIOUS
<1>1. TypeOK
  BY NoThreadAssumption, NoCmdAssumption DEF Init, TypeOK, Pcs
<1>2. LockHeld
  BY NoThreadAssumption DEF Init, LockHeld
<1>3. TrackInv /\ OkInv /\ PendingInv /\ NotForgotten
  BY DEF Init, TrackInv, OkInv, PendingInv, NotForgotten, Tracking
<1>. QED
  BY <1>1, <1>2, <1>3 DEF SafeInv

\* Every step keeps the types.
LEMMA TypeStep == TypeOK /\ [Next]_vars => TypeOK'
<1> SUFFICES ASSUME TypeOK, [Next]_vars PROVE TypeOK'
  OBVIOUS
<1> USE NoThreadAssumption, NoCmdAssumption DEF TypeOK, Pcs
<1>1. ASSUME NEW t \in Threads, AddCommand(t)
      PROVE  TypeOK'
  BY <1>1 DEF AddCommand, Finish, Go, thrVars, mapVars, netVars, worldVars
<1>2. ASSUME NEW t \in Threads, ReachClear(t)
      PROVE  TypeOK'
  BY <1>2 DEF ReachClear, Idle, Go, thrVars, mapVars, netVars, worldVars
<1>3. ASSUME NEW t \in Threads, Clear(t)
      PROVE  TypeOK'
  BY <1>3 DEF Clear, Finish, Go, thrVars, mapVars, netVars, worldVars
<1>4. ASSUME NEW t \in Threads, RemoveCommand(t)
      PROVE  TypeOK'
  BY <1>4 DEF RemoveCommand, Overtaken, Finish, Go, thrVars, mapVars,
    netVars, worldVars
<1>5. ASSUME NEW t \in Threads, ResendUnknown(t)
      PROVE  TypeOK'
  BY <1>5 DEF ResendUnknown, Overtaken, Finish, Go, thrVars, mapVars,
    netVars, worldVars
<1>6. ASSUME NEW t \in Threads, ResendFound(t)
      PROVE  TypeOK'
  BY <1>6 DEF ResendFound, Go, thrVars, mapVars, netVars, worldVars
<1>7. ASSUME NEW t \in Threads, Resend(t)
      PROVE  TypeOK'
  BY <1>7 DEF Resend, Inc, Go, thrVars, mapVars, netVars, worldVars
<1>8. ASSUME NEW t \in Threads, Unlock(t)
      PROVE  TypeOK'
  BY <1>8 DEF Unlock, Finish, Go, thrVars, mapVars, netVars, worldVars
<1>9. ASSUME NEW t \in Threads, NEW c \in Cmds, SendCommand(t, c)
      PROVE  TypeOK'
  BY <1>9 DEF SendCommand, Idle, Inc, Go, thrVars, mapVars, netVars, worldVars
<1>10. ASSUME NEW c \in Cmds, Execute(c)
      PROVE  TypeOK'
  BY <1>10 DEF Execute, Inc, Dec, thrVars, mapVars, netVars, worldVars
<1>11. ASSUME NEW c \in Cmds, Refuse(c)
      PROVE  TypeOK'
  BY <1>11 DEF Refuse, Inc, Dec, thrVars, mapVars, netVars, worldVars
<1>12. ASSUME NEW t \in Threads, NEW c \in Cmds, NEW a \in Answers,
             OnMsg(t, c, a)
      PROVE  TypeOK'
  BY <1>12 DEF OnMsg, Idle, Arrived, Take, Handle, Go, Dec, Answers, thrVars,
    mapVars, netVars, worldVars
<1>13. ASSUME NEW c \in Cmds, NEW a \in Answers, Garbled(c, a)
      PROVE  TypeOK'
  BY <1>13 DEF Garbled, Arrived, Take, Dec, Answers, thrVars, mapVars,
    netVars, worldVars
<1>14. ASSUME NEW t \in Threads, NEW c \in Cmds, NEW a \in Answers,
             NEW d \in Cmds, NEW b \in Answers, Misread(t, c, a, d, b)
      PROVE  TypeOK'
  BY <1>14 DEF Misread, Idle, Arrived, Take, Handle, Go, Inc, Dec, Answers,
    thrVars, mapVars, netVars, worldVars
<1>15. CASE UNCHANGED vars
  BY <1>15 DEF vars, thrVars, mapVars, netVars, worldVars
<1>. QED
  BY <1>1, <1>2, <1>3, <1>4, <1>5, <1>6, <1>7, <1>8, <1>9, <1>10, <1>11,
    <1>12, <1>13, <1>14, <1>15
  DEF Next, ThreadStep, Answer

\* pkmutex is released by the thread that took it.
LEMMA LockStep == TypeOK /\ LockHeld /\ [Next]_vars => LockHeld'
<1> SUFFICES ASSUME TypeOK, LockHeld, [Next]_vars PROVE LockHeld'
  OBVIOUS
<1> USE NoThreadAssumption DEF TypeOK, LockHeld, Unlocked
<1>1. ASSUME NEW t \in Threads, AddCommand(t)
      PROVE  LockHeld'
  BY <1>1 DEF AddCommand, Finish, Go, thrVars, mapVars, netVars, worldVars
<1>2. ASSUME NEW t \in Threads, ReachClear(t)
      PROVE  LockHeld'
  BY <1>2 DEF ReachClear, Idle, Go, thrVars, mapVars, netVars, worldVars
<1>3. ASSUME NEW t \in Threads, Clear(t)
      PROVE  LockHeld'
  BY <1>3 DEF Clear, Finish, Go, thrVars, mapVars, netVars, worldVars
<1>4. ASSUME NEW t \in Threads, RemoveCommand(t)
      PROVE  LockHeld'
  BY <1>4 DEF RemoveCommand, Overtaken, Finish, Go, thrVars, mapVars,
    netVars, worldVars
<1>5. ASSUME NEW t \in Threads, ResendUnknown(t)
      PROVE  LockHeld'
  BY <1>5 DEF ResendUnknown, Overtaken, Finish, Go, thrVars, mapVars,
    netVars, worldVars
<1>6. ASSUME NEW t \in Threads, ResendFound(t)
      PROVE  LockHeld'
  BY <1>6 DEF ResendFound, Go, thrVars, mapVars, netVars, worldVars
<1>7. ASSUME NEW t \in Threads, Resend(t)
      PROVE  LockHeld'
  BY <1>7 DEF Resend, Inc, Go, thrVars, mapVars, netVars, worldVars
<1>8. ASSUME NEW t \in Threads, Unlock(t)
      PROVE  LockHeld'
  BY <1>8 DEF Unlock, Finish, Go, thrVars, mapVars, netVars, worldVars
<1>9. ASSUME NEW t \in Threads, NEW c \in Cmds, SendCommand(t, c)
      PROVE  LockHeld'
  BY <1>9 DEF SendCommand, Idle, Inc, Go, thrVars, mapVars, netVars, worldVars
<1>10. ASSUME NEW c \in Cmds, Execute(c)
      PROVE  LockHeld'
  BY <1>10 DEF Execute, Inc, Dec, thrVars, mapVars, netVars, worldVars
<1>11. ASSUME NEW c \in Cmds, Refuse(c)
      PROVE  LockHeld'
  BY <1>11 DEF Refuse, Inc, Dec, thrVars, mapVars, netVars, worldVars
<1>12. ASSUME NEW t \in Threads, NEW c \in Cmds, NEW a \in Answers,
             OnMsg(t, c, a)
      PROVE  LockHeld'
  BY <1>12 DEF OnMsg, Idle, Arrived, Take, Handle, Go, Dec, Answers, thrVars,
    mapVars, netVars, worldVars
<1>13. ASSUME NEW c \in Cmds, NEW a \in Answers, Garbled(c, a)
      PROVE  LockHeld'
  BY <1>13 DEF Garbled, Arrived, Take, Dec, Answers, thrVars, mapVars,
    netVars, worldVars
<1>14. ASSUME NEW t \in Threads, NEW c \in Cmds, NEW a \in Answers,
             NEW d \in Cmds, NEW b \in Answers, Misread(t, c, a, d, b)
      PROVE  LockHeld'
  BY <1>14 DEF Misread, Idle, Arrived, Take, Handle, Go, Inc, Dec, Answers,
    thrVars, mapVars, netVars, worldVars
<1>15. CASE UNCHANGED vars
  BY <1>15 DEF vars, thrVars, mapVars, netVars, worldVars
<1>. QED
  BY <1>1, <1>2, <1>3, <1>4, <1>5, <1>6, <1>7, <1>8, <1>9, <1>10, <1>11,
    <1>12, <1>13, <1>14, <1>15
  DEF Next, ThreadStep, Answer

\* What is on its way to removeCommand has been executed.
LEMMA OkStep == TypeOK /\ OkInv /\ [Next]_vars => OkInv'
<1> SUFFICES ASSUME TypeOK, OkInv, [Next]_vars PROVE OkInv'
  OBVIOUS
<1> USE DEF TypeOK, OkInv
<1>1. ASSUME NEW t \in Threads, AddCommand(t)
      PROVE  OkInv'
  BY <1>1 DEF AddCommand, Finish, Go, thrVars, mapVars, netVars, worldVars
<1>2. ASSUME NEW t \in Threads, ReachClear(t)
      PROVE  OkInv'
  BY <1>2 DEF ReachClear, Idle, Go, thrVars, mapVars, netVars, worldVars
<1>3. ASSUME NEW t \in Threads, Clear(t)
      PROVE  OkInv'
  BY <1>3 DEF Clear, Finish, Go, thrVars, mapVars, netVars, worldVars
<1>4. ASSUME NEW t \in Threads, RemoveCommand(t)
      PROVE  OkInv'
  BY <1>4 DEF RemoveCommand, Overtaken, Finish, Go, thrVars, mapVars,
    netVars, worldVars
<1>5. ASSUME NEW t \in Threads, ResendUnknown(t)
      PROVE  OkInv'
  BY <1>5 DEF ResendUnknown, Overtaken, Finish, Go, thrVars, mapVars,
    netVars, worldVars
<1>6. ASSUME NEW t \in Threads, ResendFound(t)
      PROVE  OkInv'
  BY <1>6 DEF ResendFound, Go, thrVars, mapVars, netVars, worldVars
<1>7. ASSUME NEW t \in Threads, Resend(t)
      PROVE  OkInv'
  BY <1>7 DEF Resend, Inc, Go, thrVars, mapVars, netVars, worldVars
<1>8. ASSUME NEW t \in Threads, Unlock(t)
      PROVE  OkInv'
  BY <1>8 DEF Unlock, Finish, Go, thrVars, mapVars, netVars, worldVars
<1>9. ASSUME NEW t \in Threads, NEW c \in Cmds, SendCommand(t, c)
      PROVE  OkInv'
  BY <1>9 DEF SendCommand, Idle, Inc, Go, thrVars, mapVars, netVars, worldVars
<1>10. ASSUME NEW c \in Cmds, Execute(c)
      PROVE  OkInv'
  BY <1>10 DEF Execute, Inc, Dec, thrVars, mapVars, netVars, worldVars
<1>11. ASSUME NEW c \in Cmds, Refuse(c)
      PROVE  OkInv'
  BY <1>11 DEF Refuse, Inc, Dec, thrVars, mapVars, netVars, worldVars
<1>12. ASSUME NEW t \in Threads, NEW c \in Cmds, NEW a \in Answers,
             OnMsg(t, c, a)
      PROVE  OkInv'
  BY <1>12 DEF OnMsg, Idle, Arrived, Take, Handle, Go, Dec, Answers, thrVars,
    mapVars, netVars, worldVars
<1>13. ASSUME NEW c \in Cmds, NEW a \in Answers, Garbled(c, a)
      PROVE  OkInv'
  BY <1>13 DEF Garbled, Arrived, Take, Dec, Answers, thrVars, mapVars,
    netVars, worldVars
<1>14. ASSUME NEW t \in Threads, NEW c \in Cmds, NEW a \in Answers,
             NEW d \in Cmds, NEW b \in Answers, Misread(t, c, a, d, b)
      PROVE  OkInv'
  BY <1>14 DEF Misread, Idle, Arrived, Take, Handle, Go, Inc, Dec, Answers,
    thrVars, mapVars, netVars, worldVars
<1>15. CASE UNCHANGED vars
  BY <1>15 DEF vars, thrVars, mapVars, netVars, worldVars
<1>. QED
  BY <1>1, <1>2, <1>3, <1>4, <1>5, <1>6, <1>7, <1>8, <1>9, <1>10, <1>11,
    <1>12, <1>13, <1>14, <1>15
  DEF Next, ThreadStep, Answer

\* A command without effect stays in pkmap, or about to be put there.
LEMMA TrackStep == TypeOK /\ OkInv /\ TrackInv /\ [Next]_vars => TrackInv'
<1> SUFFICES ASSUME TypeOK, OkInv, TrackInv, [Next]_vars PROVE TrackInv'
  OBVIOUS
<1> USE DEF TypeOK, OkInv, TrackInv, Tracking
<1>1. ASSUME NEW t \in Threads, AddCommand(t)
      PROVE  TrackInv'
  BY <1>1 DEF AddCommand, Finish, Go, thrVars, mapVars, netVars, worldVars
<1>2. ASSUME NEW t \in Threads, ReachClear(t)
      PROVE  TrackInv'
  BY <1>2 DEF ReachClear, Idle, Go, thrVars, mapVars, netVars, worldVars
<1>3. ASSUME NEW t \in Threads, Clear(t)
      PROVE  TrackInv'
  BY <1>3 DEF Clear, Finish, Go, thrVars, mapVars, netVars, worldVars
<1>4. ASSUME NEW t \in Threads, RemoveCommand(t)
      PROVE  TrackInv'
  BY <1>4 DEF RemoveCommand, Overtaken, Finish, Go, thrVars, mapVars,
    netVars, worldVars
<1>5. ASSUME NEW t \in Threads, ResendUnknown(t)
      PROVE  TrackInv'
  BY <1>5 DEF ResendUnknown, Overtaken, Finish, Go, thrVars, mapVars,
    netVars, worldVars
<1>6. ASSUME NEW t \in Threads, ResendFound(t)
      PROVE  TrackInv'
  BY <1>6 DEF ResendFound, Go, thrVars, mapVars, netVars, worldVars
<1>7. ASSUME NEW t \in Threads, Resend(t)
      PROVE  TrackInv'
  BY <1>7 DEF Resend, Inc, Go, thrVars, mapVars, netVars, worldVars
<1>8. ASSUME NEW t \in Threads, Unlock(t)
      PROVE  TrackInv'
  BY <1>8 DEF Unlock, Finish, Go, thrVars, mapVars, netVars, worldVars
<1>9. ASSUME NEW t \in Threads, NEW c \in Cmds, SendCommand(t, c)
      PROVE  TrackInv'
  BY <1>9 DEF SendCommand, Idle, Inc, Go, thrVars, mapVars, netVars, worldVars
<1>10. ASSUME NEW c \in Cmds, Execute(c)
      PROVE  TrackInv'
  BY <1>10 DEF Execute, Inc, Dec, thrVars, mapVars, netVars, worldVars
<1>11. ASSUME NEW c \in Cmds, Refuse(c)
      PROVE  TrackInv'
  BY <1>11 DEF Refuse, Inc, Dec, thrVars, mapVars, netVars, worldVars
<1>12. ASSUME NEW t \in Threads, NEW c \in Cmds, NEW a \in Answers,
             OnMsg(t, c, a)
      PROVE  TrackInv'
  BY <1>12 DEF OnMsg, Idle, Arrived, Take, Handle, Go, Dec, Answers, thrVars,
    mapVars, netVars, worldVars
<1>13. ASSUME NEW c \in Cmds, NEW a \in Answers, Garbled(c, a)
      PROVE  TrackInv'
  BY <1>13 DEF Garbled, Arrived, Take, Dec, Answers, thrVars, mapVars,
    netVars, worldVars
<1>14. ASSUME NEW t \in Threads, NEW c \in Cmds, NEW a \in Answers,
             NEW d \in Cmds, NEW b \in Answers, Misread(t, c, a, d, b)
      PROVE  TrackInv'
  BY <1>14 DEF Misread, Idle, Arrived, Take, Handle, Go, Inc, Dec, Answers,
    thrVars, mapVars, netVars, worldVars
<1>15. CASE UNCHANGED vars
  BY <1>15 DEF vars, thrVars, mapVars, netVars, worldVars
<1>. QED
  BY <1>1, <1>2, <1>3, <1>4, <1>5, <1>6, <1>7, <1>8, <1>9, <1>10, <1>11,
    <1>12, <1>13, <1>14, <1>15
  DEF Next, ThreadStep, Answer

\* An entry of pkmap keeps an answer to come.
LEMMA PendingStep == TypeOK /\ PendingInv /\ [Next]_vars => PendingInv'
<1> SUFFICES ASSUME TypeOK, PendingInv, [Next]_vars PROVE PendingInv'
  OBVIOUS
<1> USE DEF TypeOK, PendingInv, Pending, Handled, Tracking
<1>1. ASSUME NEW t \in Threads, AddCommand(t)
      PROVE  PendingInv'
  BY <1>1 DEF AddCommand, Finish, Go, thrVars, mapVars, netVars, worldVars
<1>2. ASSUME NEW t \in Threads, ReachClear(t)
      PROVE  PendingInv'
  BY <1>2 DEF ReachClear, Idle, Go, thrVars, mapVars, netVars, worldVars
<1>3. ASSUME NEW t \in Threads, Clear(t)
      PROVE  PendingInv'
  BY <1>3 DEF Clear, Finish, Go, thrVars, mapVars, netVars, worldVars
<1>4. ASSUME NEW t \in Threads, RemoveCommand(t)
      PROVE  PendingInv'
  BY <1>4 DEF RemoveCommand, Overtaken, Finish, Go, thrVars, mapVars,
    netVars, worldVars
<1>5. ASSUME NEW t \in Threads, ResendUnknown(t)
      PROVE  PendingInv'
  BY <1>5 DEF ResendUnknown, Overtaken, Finish, Go, thrVars, mapVars,
    netVars, worldVars
<1>6. ASSUME NEW t \in Threads, ResendFound(t)
      PROVE  PendingInv'
  BY <1>6 DEF ResendFound, Go, thrVars, mapVars, netVars, worldVars
<1>7. ASSUME NEW t \in Threads, Resend(t)
      PROVE  PendingInv'
  BY <1>7 DEF Resend, Inc, Go, thrVars, mapVars, netVars, worldVars
<1>8. ASSUME NEW t \in Threads, Unlock(t)
      PROVE  PendingInv'
  BY <1>8 DEF Unlock, Finish, Go, thrVars, mapVars, netVars, worldVars
<1>9. ASSUME NEW t \in Threads, NEW c \in Cmds, SendCommand(t, c)
      PROVE  PendingInv'
  BY <1>9 DEF SendCommand, Idle, Inc, Go, thrVars, mapVars, netVars, worldVars
<1>10. ASSUME NEW c \in Cmds, Execute(c)
      PROVE  PendingInv'
  BY <1>10 DEF Execute, Inc, Dec, thrVars, mapVars, netVars, worldVars
<1>11. ASSUME NEW c \in Cmds, Refuse(c)
      PROVE  PendingInv'
  BY <1>11 DEF Refuse, Inc, Dec, thrVars, mapVars, netVars, worldVars
<1>12. ASSUME NEW t \in Threads, NEW c \in Cmds, NEW a \in Answers,
             OnMsg(t, c, a)
      PROVE  PendingInv'
  BY <1>12 DEF OnMsg, Idle, Arrived, Take, Handle, Go, Dec, Answers, thrVars,
    mapVars, netVars, worldVars
<1>13. ASSUME NEW c \in Cmds, NEW a \in Answers, Garbled(c, a)
      PROVE  PendingInv'
  BY <1>13 DEF Garbled, Arrived, Take, Dec, Answers, thrVars, mapVars,
    netVars, worldVars
<1>14. ASSUME NEW t \in Threads, NEW c \in Cmds, NEW a \in Answers,
             NEW d \in Cmds, NEW b \in Answers, Misread(t, c, a, d, b)
      PROVE  PendingInv'
  BY <1>14 DEF Misread, Idle, Arrived, Take, Handle, Go, Inc, Dec, Answers,
    thrVars, mapVars, netVars, worldVars
<1>15. CASE UNCHANGED vars
  BY <1>15 DEF vars, thrVars, mapVars, netVars, worldVars
<1>. QED
  BY <1>1, <1>2, <1>3, <1>4, <1>5, <1>6, <1>7, <1>8, <1>9, <1>10, <1>11,
    <1>12, <1>13, <1>14, <1>15
  DEF Next, ThreadStep, Answer

\* No step loses a command without excusing it.
LEMMA ForgetStep ==
    TypeOK /\ OkInv /\ TrackInv /\ NotForgotten /\ [Next]_vars => NotForgotten'
<1> SUFFICES ASSUME TypeOK, OkInv, TrackInv, NotForgotten, [Next]_vars
             PROVE  NotForgotten'
  OBVIOUS
<1> USE DEF TypeOK, OkInv, TrackInv, NotForgotten, Pending, Handled, Tracking
<1>1. ASSUME NEW t \in Threads, AddCommand(t)
      PROVE  NotForgotten'
  BY <1>1 DEF AddCommand, Finish, Go, thrVars, mapVars, netVars, worldVars
<1>2. ASSUME NEW t \in Threads, ReachClear(t)
      PROVE  NotForgotten'
  BY <1>2 DEF ReachClear, Idle, Go, thrVars, mapVars, netVars, worldVars
<1>3. ASSUME NEW t \in Threads, Clear(t)
      PROVE  NotForgotten'
  BY <1>3 DEF Clear, Finish, Go, thrVars, mapVars, netVars, worldVars
<1>4. ASSUME NEW t \in Threads, RemoveCommand(t)
      PROVE  NotForgotten'
  BY <1>4 DEF RemoveCommand, Overtaken, Finish, Go, thrVars, mapVars,
    netVars, worldVars
<1>5. ASSUME NEW t \in Threads, ResendUnknown(t)
      PROVE  NotForgotten'
  BY <1>5 DEF ResendUnknown, Overtaken, Finish, Go, thrVars, mapVars,
    netVars, worldVars
<1>6. ASSUME NEW t \in Threads, ResendFound(t)
      PROVE  NotForgotten'
  BY <1>6 DEF ResendFound, Go, thrVars, mapVars, netVars, worldVars
<1>7. ASSUME NEW t \in Threads, Resend(t)
      PROVE  NotForgotten'
  BY <1>7 DEF Resend, Inc, Go, thrVars, mapVars, netVars, worldVars
<1>8. ASSUME NEW t \in Threads, Unlock(t)
      PROVE  NotForgotten'
  BY <1>8 DEF Unlock, Finish, Go, thrVars, mapVars, netVars, worldVars
<1>9. ASSUME NEW t \in Threads, NEW c \in Cmds, SendCommand(t, c)
      PROVE  NotForgotten'
  BY <1>9 DEF SendCommand, Idle, Inc, Go, thrVars, mapVars, netVars, worldVars
<1>10. ASSUME NEW c \in Cmds, Execute(c)
      PROVE  NotForgotten'
  BY <1>10 DEF Execute, Inc, Dec, thrVars, mapVars, netVars, worldVars
<1>11. ASSUME NEW c \in Cmds, Refuse(c)
      PROVE  NotForgotten'
  BY <1>11 DEF Refuse, Inc, Dec, thrVars, mapVars, netVars, worldVars
<1>12. ASSUME NEW t \in Threads, NEW c \in Cmds, NEW a \in Answers,
             OnMsg(t, c, a)
      PROVE  NotForgotten'
  BY <1>12 DEF OnMsg, Idle, Arrived, Take, Handle, Go, Dec, Answers, thrVars,
    mapVars, netVars, worldVars
<1>13. ASSUME NEW c \in Cmds, NEW a \in Answers, Garbled(c, a)
      PROVE  NotForgotten'
  BY <1>13 DEF Garbled, Arrived, Take, Dec, Answers, thrVars, mapVars,
    netVars, worldVars
<1>14. ASSUME NEW t \in Threads, NEW c \in Cmds, NEW a \in Answers,
             NEW d \in Cmds, NEW b \in Answers, Misread(t, c, a, d, b)
      PROVE  NotForgotten'
  BY <1>14 DEF Misread, Idle, Arrived, Take, Handle, Go, Inc, Dec, Answers,
    thrVars, mapVars, netVars, worldVars
<1>15. CASE UNCHANGED vars
  BY <1>15 DEF vars, thrVars, mapVars, netVars, worldVars
<1>. QED
  BY <1>1, <1>2, <1>3, <1>4, <1>5, <1>6, <1>7, <1>8, <1>9, <1>10, <1>11,
    <1>12, <1>13, <1>14, <1>15
  DEF Next, ThreadStep, Answer

-----------------------------------------------------------------------------
(* Without misread messages there is one token of every command.            *)

\* Sending again takes an error away first: one token stays one.
LEMMA TokenStep ==
    ASSUME MaxMisreads = 0
    PROVE  TypeOK /\ OneToken /\ [Next]_vars => OneToken'
<1> SUFFICES ASSUME TypeOK, OneToken, [Next]_vars PROVE OneToken'
  OBVIOUS
<1> USE DEF TypeOK, OneToken, Holds
<1>1. ASSUME NEW t \in Threads, AddCommand(t)
      PROVE  OneToken'
  BY <1>1 DEF AddCommand, Finish, Go, thrVars, mapVars, netVars, worldVars
<1>2. ASSUME NEW t \in Threads, ReachClear(t)
      PROVE  OneToken'
  BY <1>2 DEF ReachClear, Idle, Go, thrVars, mapVars, netVars, worldVars
<1>3. ASSUME NEW t \in Threads, Clear(t)
      PROVE  OneToken'
  BY <1>3 DEF Clear, Finish, Go, thrVars, mapVars, netVars, worldVars
<1>4. ASSUME NEW t \in Threads, RemoveCommand(t)
      PROVE  OneToken'
  BY <1>4 DEF RemoveCommand, Overtaken, Finish, Go, thrVars, mapVars,
    netVars, worldVars
<1>5. ASSUME NEW t \in Threads, ResendUnknown(t)
      PROVE  OneToken'
  BY <1>5 DEF ResendUnknown, Overtaken, Finish, Go, thrVars, mapVars,
    netVars, worldVars
<1>6. ASSUME NEW t \in Threads, ResendFound(t)
      PROVE  OneToken'
  BY <1>6 DEF ResendFound, Go, thrVars, mapVars, netVars, worldVars
<1>7. ASSUME NEW t \in Threads, Resend(t)
      PROVE  OneToken'
  BY <1>7 DEF Resend, Inc, Go, thrVars, mapVars, netVars, worldVars
<1>8. ASSUME NEW t \in Threads, Unlock(t)
      PROVE  OneToken'
  BY <1>8 DEF Unlock, Finish, Go, thrVars, mapVars, netVars, worldVars
<1>9. ASSUME NEW t \in Threads, NEW c \in Cmds, SendCommand(t, c)
      PROVE  OneToken'
  BY <1>9 DEF SendCommand, Idle, Inc, Go, thrVars, mapVars, netVars, worldVars
<1>10. ASSUME NEW c \in Cmds, Execute(c)
      PROVE  OneToken'
  BY <1>10 DEF Execute, Inc, Dec, thrVars, mapVars, netVars, worldVars
<1>11. ASSUME NEW c \in Cmds, Refuse(c)
      PROVE  OneToken'
  BY <1>11 DEF Refuse, Inc, Dec, thrVars, mapVars, netVars, worldVars
<1>12. ASSUME NEW t \in Threads, NEW c \in Cmds, NEW a \in Answers,
             OnMsg(t, c, a)
      PROVE  OneToken'
  <2>1. CASE a = "ok"
    BY <1>12, <2>1 DEF OnMsg, Idle, Take, Handle, Go, Dec, worldVars
  <2>2. CASE a = "error"
    <3>1. /\ errs[c] > 0 /\ errs' = [errs EXCEPT ![c] = @ - 1]
          /\ pc' = [pc EXCEPT ![t] = "resend"] /\ arg' = [arg EXCEPT ![t] = c]
          /\ pc[t] = "idle" /\ UNCHANGED <<wire, executed, sent>>
      BY <1>12, <2>2 DEF OnMsg, Idle, Arrived, Take, Handle, Go, Dec, worldVars
    <3>2. wire[c] + errs[c] + executed[c] = 1 /\ \A u \in Threads : ~Holds(u, c)
      <4>1. wire[c] \in Nat /\ errs[c] \in Nat /\ executed[c] \in Nat
        OBVIOUS
      <4>2. wire[c] + errs[c] + executed[c] <= 1 /\ errs[c] > 0
        BY <3>1
      <4>3. wire[c] + errs[c] + executed[c] = 1
        <5> HIDE DEF TypeOK, OneToken
        <5>. QED
          BY <4>1, <4>2
      <4>4. \A u \in Threads : Holds(u, c) => wire[c] + errs[c] + executed[c] = 0
        OBVIOUS
      <4>. QED
        BY <4>3, <4>4
    <3>3. /\ \A d \in Cmds \ {c} : errs'[d] = errs[d]
          /\ errs'[c] = errs[c] - 1
          /\ \A u \in Threads, d \in Cmds :
                Holds(u, d)' <=> (u = t /\ d = c) \/ Holds(u, d)
      BY <3>1
    <3>. QED
      BY <3>1, <3>2, <3>3
  <2>. QED
    BY <2>1, <2>2 DEF Answers
<1>13. ASSUME NEW c \in Cmds, NEW a \in Answers, Garbled(c, a)
      PROVE  OneToken'
  BY <1>13 DEF Garbled, Arrived, Take, Dec, Answers, thrVars, mapVars,
    netVars, worldVars
<1>14. ASSUME NEW t \in Threads, NEW c \in Cmds, NEW a \in Answers,
             NEW d \in Cmds, NEW b \in Answers, Misread(t, c, a, d, b)
      PROVE  OneToken'
  BY <1>14 DEF Misread
<1>15. CASE UNCHANGED vars
  BY <1>15 DEF vars, thrVars, mapVars, netVars, worldVars
<1>. QED
  BY <1>1, <1>2, <1>3, <1>4, <1>5, <1>6, <1>7, <1>8, <1>9, <1>10, <1>11,
    <1>12, <1>13, <1>14, <1>15
  DEF Next, ThreadStep, Answer

-----------------------------------------------------------------------------
(* With misread messages, each error handled twice makes one token more.    *)

Holders(c) == {t \in Threads : Holds(t, c)}

\* Few tokens: w copies on the wire, e errors, x effects and the threads of H,
\* of which n are there for an error handled twice; none before it is sent.
Few(w, e, x, H, n, isSent) ==
    /\ IsFiniteSet(H)
    /\ w + e + x + Cardinality(H) <= 1 + n
    /\ ~isSent => w = 0 /\ e = 0 /\ x = 0 /\ H = {}

FewOf(c) == Few(wire[c], errs[c], executed[c], Holders(c), doubled[c], c \in sent)

FewTokens == \A c \in Cmds : FewOf(c)

\* Every step moves one token from one place to another, or drops it.
TokenMoves(w, e, x, H, n, isSent, t) ==
    /\ w > 0 => /\ Few(w - 1, e, x + 1, H, n, isSent)
                /\ Few(w - 1, e + 1, x, H, n, isSent)
    /\ e > 0 => Few(w, e - 1, x, H, n, isSent)
    /\ e > 0 /\ t \notin H => /\ Few(w, e - 1, x, H \cup {t}, n, isSent)
                              /\ Few(w, e, x, H \cup {t}, n + 1, isSent)
    /\ t \in H => Few(w + 1, e, x, H \ {t}, n, isSent)
    /\ Few(w, e, x, H \ {t}, n, isSent)
    /\ ~isSent => Few(w + 1, e, x, H, n, TRUE)

LEMMA TokensStayFew ==
    ASSUME NEW w \in Nat, NEW e \in Nat, NEW x \in Nat, NEW H, NEW n \in Nat,
           NEW isSent \in BOOLEAN, NEW t, Few(w, e, x, H, n, isSent)
    PROVE  TokenMoves(w, e, x, H, n, isSent, t)
<1>1. /\ IsFiniteSet(H) /\ w + e + x + Cardinality(H) <= 1 + n
      /\ ~isSent => w = 0 /\ e = 0 /\ x = 0 /\ H = {}
  BY DEF Few
<1>2. Cardinality(H) \in Nat
  BY <1>1, FS_CardinalityType
<1>3. /\ IsFiniteSet(H \cup {t})
      /\ t \notin H => Cardinality(H \cup {t}) = Cardinality(H) + 1
  BY <1>1, FS_AddElement
<1>4. /\ IsFiniteSet(H \ {t})
      /\ Cardinality(H \ {t}) = IF t \in H THEN Cardinality(H) - 1 ELSE Cardinality(H)
  BY <1>1, FS_RemoveElement
<1>5. w > 0 => Few(w - 1, e, x + 1, H, n, isSent) /\ Few(w - 1, e + 1, x, H, n, isSent)
  BY <1>1, <1>2 DEF Few
<1>6. e > 0 => Few(w, e - 1, x, H, n, isSent)
  BY <1>1, <1>2 DEF Few
<1>7. e > 0 /\ t \notin H => /\ Few(w, e - 1, x, H \cup {t}, n, isSent)
                             /\ Few(w, e, x, H \cup {t}, n + 1, isSent)
  BY <1>1, <1>2, <1>3 DEF Few
<1>8. t \in H => Few(w + 1, e, x, H \ {t}, n, isSent)
  BY <1>1, <1>2, <1>4 DEF Few
<1>9. Few(w, e, x, H \ {t}, n, isSent)
  BY <1>1, <1>2, <1>4 DEF Few
<1>10. ~isSent => Few(w + 1, e, x, H, n, TRUE)
  BY <1>1, <1>2, FS_EmptySet DEF Few
<1>. QED
  BY <1>5, <1>6, <1>7, <1>8, <1>9, <1>10 DEF TokenMoves

LEMMA MovesOf ==
    ASSUME TypeOK, FewTokens, NEW c \in Cmds, NEW t
    PROVE  TokenMoves(wire[c], errs[c], executed[c], Holders(c), doubled[c], c \in sent, t)
<1>1. /\ wire[c] \in Nat /\ errs[c] \in Nat /\ executed[c] \in Nat
      /\ doubled[c] \in Nat /\ (c \in sent) \in BOOLEAN
  BY DEF TypeOK
<1>2. Few(wire[c], errs[c], executed[c], Holders(c), doubled[c], c \in sent)
  BY DEF FewTokens, FewOf
<1>3. \A w, e, x, n \in Nat : \A H : \A b \in BOOLEAN :
        Few(w, e, x, H, n, b) => TokenMoves(w, e, x, H, n, b, t)
  BY TokensStayFew
<1>. QED
  BY <1>1, <1>2, <1>3, Zenon

\* Nothing of the command changes.
LEMMA FewSame ==
    ASSUME NEW c, FewOf(c), wire'[c] = wire[c], errs'[c] = errs[c], executed'[c] = executed[c],
           Holders(c)' = Holders(c), doubled'[c] = doubled[c], c \in sent' <=> c \in sent
    PROVE  FewOf(c)'
BY DEF FewOf, Few

\* A thread that goes elsewhere with another command, or drops its own
LEMMA HoldersMove ==
    ASSUME TypeOK, NEW t \in Threads, NEW to, NEW a, Go(t, to, a)
    PROVE  \A c \in Cmds : Holders(c)' = IF to \in {"resend", "sending"} /\ a = c
                                         THEN Holders(c) \cup {t} ELSE Holders(c) \ {t}
<1>1. /\ pc' = [pc EXCEPT ![t] = to] /\ arg' = [arg EXCEPT ![t] = a]
      /\ pc \in [Threads -> Pcs] /\ arg \in [Threads -> Cmds \cup {NoCmd}]
  BY DEF Go, TypeOK
<1>2. \A c \in Cmds : Holds(t, c)' <=> to \in {"resend", "sending"} /\ a = c
  BY <1>1 DEF Holds
<1>3. \A u \in Threads \ {t} : \A c \in Cmds : Holds(u, c)' <=> Holds(u, c)
  BY <1>1 DEF Holds
<1>. QED
  BY <1>2, <1>3 DEF Holders

\* What FewOf says of a command after the step of t, when nothing else of it changes
LEMMA FewAfterGo ==
    ASSUME TypeOK, FewTokens, NEW t \in Threads, NEW to, NEW a, Go(t, to, a),
           to \notin {"resend", "sending"}, wire' = wire, errs' = errs, executed' = executed,
           doubled' = doubled, sent' = sent
    PROVE  FewTokens'
<1>. SUFFICES ASSUME NEW c \in Cmds PROVE FewOf(c)'
  BY DEF FewTokens
<1>1. Holders(c)' = Holders(c) \ {t}
  BY HoldersMove
<1>2. Few(wire[c], errs[c], executed[c], Holders(c), doubled[c], c \in sent)
  BY DEF FewTokens, FewOf
<1>3. Few(wire[c], errs[c], executed[c], Holders(c) \ {t}, doubled[c], c \in sent)
  BY <1>2, MovesOf DEF TokenMoves
<1>. QED
  BY <1>1, <1>3 DEF FewOf

LEMMA FewStep == TypeOK /\ FewTokens /\ [Next]_vars => FewTokens'
<1>. SUFFICES ASSUME TypeOK, FewTokens, [Next]_vars PROVE FewTokens'
  OBVIOUS
<1>0. \A c \in Cmds : Few(wire[c], errs[c], executed[c], Holders(c), doubled[c], c \in sent)
  BY DEF FewTokens, FewOf
<1>1. ASSUME NEW t \in Threads,
             AddCommand(t) \/ ReachClear(t) \/ Clear(t) \/ RemoveCommand(t) \/ ResendUnknown(t)
                \/ Unlock(t)
      PROVE  FewTokens'
  <2>1. /\ wire' = wire /\ errs' = errs /\ executed' = executed /\ doubled' = doubled
        /\ sent' = sent
    BY <1>1 DEF AddCommand, ReachClear, Clear, RemoveCommand, ResendUnknown, Unlock,
         netVars, worldVars
  <2>2. \E to \in {"idle", "clear"} : Go(t, to, NoCmd)
    BY <1>1 DEF AddCommand, ReachClear, Clear, RemoveCommand, ResendUnknown, Unlock, Finish
  <2>. QED
    BY <2>1, <2>2, FewAfterGo
<1>2. ASSUME NEW t \in Threads, ResendFound(t) PROVE FewTokens'
  <2>. SUFFICES ASSUME NEW c \in Cmds PROVE FewOf(c)'
    BY DEF FewTokens
  <2>1. /\ wire' = wire /\ errs' = errs /\ executed' = executed /\ doubled' = doubled
        /\ sent' = sent /\ pc[t] = "resend" /\ Go(t, "sending", arg[t])
    BY <1>2 DEF ResendFound, netVars, worldVars
  <2>2. Holders(c)' = IF arg[t] = c THEN Holders(c) \cup {t} ELSE Holders(c) \ {t}
    BY <2>1, HoldersMove
  <2>3. t \in Holders(c) <=> arg[t] = c
    BY <2>1 DEF Holders, Holds
  <2>4. Holders(c)' = Holders(c)
    BY <2>2, <2>3
  <2>. QED
    BY <1>0, <2>1, <2>4, FewSame DEF FewOf
<1>3. ASSUME NEW t \in Threads, Resend(t) PROVE FewTokens'
  <2>. SUFFICES ASSUME NEW c \in Cmds PROVE FewOf(c)'
    BY DEF FewTokens
  <2>1. /\ wire' = [wire EXCEPT ![arg[t]] = @ + 1] /\ errs' = errs /\ executed' = executed
        /\ doubled' = doubled /\ sent' = sent /\ pc[t] = "sending" /\ Go(t, "unlock", arg[t])
    BY <1>3 DEF Resend, Inc, worldVars
  <2>2. Holders(c)' = Holders(c) \ {t} /\ (t \in Holders(c) <=> arg[t] = c)
    BY <2>1, HoldersMove DEF Holders, Holds
  <2>3. wire'[c] = IF arg[t] = c THEN wire[c] + 1 ELSE wire[c]
    BY <2>1 DEF TypeOK
  <2>4. Few(wire'[c], errs[c], executed[c], Holders(c) \ {t}, doubled[c], c \in sent)
    BY <1>0, <2>2, <2>3, MovesOf DEF TokenMoves
  <2>. QED
    BY <2>1, <2>2, <2>4 DEF FewOf
<1>4. ASSUME NEW t \in Threads, NEW d \in Cmds, SendCommand(t, d) PROVE FewTokens'
  <2>. SUFFICES ASSUME NEW c \in Cmds PROVE FewOf(c)'
    BY DEF FewTokens
  <2>1. /\ wire' = [wire EXCEPT ![d] = @ + 1] /\ errs' = errs /\ executed' = executed
        /\ doubled' = doubled /\ sent' = sent \cup {d} /\ d \notin sent
        /\ pc[t] = "idle" /\ Go(t, "track", d)
    BY <1>4 DEF SendCommand, Inc, Idle, worldVars
  <2>2. Holders(c)' = Holders(c)
    <3>1. Holders(c)' = Holders(c) \ {t}
      BY <2>1, HoldersMove
    <3>2. t \notin Holders(c)
      BY <2>1 DEF Holders, Holds
    <3>. QED
      BY <3>1, <3>2
  <2>3. wire'[c] = IF d = c THEN wire[c] + 1 ELSE wire[c]
    BY <2>1 DEF TypeOK
  <2>4. CASE c = d
    <3>1. Few(wire[c] + 1, errs[c], executed[c], Holders(c), doubled[c], TRUE)
      BY <1>0, <2>1, <2>4, MovesOf DEF TokenMoves
    <3>2. c \in sent' <=> TRUE
      BY <2>1, <2>4
    <3>. QED
      BY <2>1, <2>2, <2>3, <2>4, <3>1, <3>2 DEF FewOf, Few
  <2>5. CASE c # d
    BY <1>0, <2>1, <2>2, <2>3, <2>5, FewSame DEF FewOf
  <2>. QED
    BY <2>4, <2>5
<1>5. ASSUME NEW d \in Cmds, Execute(d) \/ Refuse(d) PROVE FewTokens'
  <2>. SUFFICES ASSUME NEW c \in Cmds PROVE FewOf(c)'
    BY DEF FewTokens
  <2>1. /\ wire' = [wire EXCEPT ![d] = @ - 1] /\ wire[d] > 0 /\ doubled' = doubled /\ sent' = sent
        /\ pc' = pc /\ arg' = arg
        /\ \/ errs' = errs /\ executed' = [executed EXCEPT ![d] = @ + 1]
           \/ executed' = executed /\ errs' = [errs EXCEPT ![d] = @ + 1]
    BY <1>5 DEF Execute, Refuse, Inc, Dec, thrVars
  <2>2. Holders(c)' = Holders(c)
    BY <2>1 DEF Holders, Holds
  <2>3. CASE c = d
    <3>1. /\ Few(wire[c] - 1, errs[c], executed[c] + 1, Holders(c), doubled[c], c \in sent)
          /\ Few(wire[c] - 1, errs[c] + 1, executed[c], Holders(c), doubled[c], c \in sent)
      BY <1>0, <2>1, <2>3, MovesOf DEF TokenMoves
    <3>2. /\ wire'[c] = wire[c] - 1
          /\ \/ errs'[c] = errs[c] /\ executed'[c] = executed[c] + 1
             \/ executed'[c] = executed[c] /\ errs'[c] = errs[c] + 1
      BY <2>1, <2>3 DEF TypeOK
    <3>. QED
      BY <2>1, <2>2, <3>1, <3>2 DEF FewOf
  <2>4. CASE c # d
    <3>1. wire'[c] = wire[c] /\ errs'[c] = errs[c] /\ executed'[c] = executed[c]
      BY <2>1, <2>4 DEF TypeOK
    <3>. QED
      BY <1>0, <2>1, <2>2, <3>1, FewSame DEF FewOf
  <2>. QED
    BY <2>3, <2>4
<1>6. ASSUME NEW d \in Cmds, NEW a \in Answers, Garbled(d, a) PROVE FewTokens'
  <2>. SUFFICES ASSUME NEW c \in Cmds PROVE FewOf(c)'
    BY DEF FewTokens
  <2>1. /\ wire' = wire /\ executed' = executed /\ doubled' = doubled /\ sent' = sent
        /\ pc' = pc /\ arg' = arg
        /\ errs' = errs \/ (errs[d] > 0 /\ errs' = [errs EXCEPT ![d] = @ - 1])
    BY <1>6 DEF Garbled, Arrived, Take, Dec, thrVars, worldVars
  <2>2. Holders(c)' = Holders(c)
    BY <2>1 DEF Holders, Holds
  <2>3. errs'[c] = errs[c] \/ (errs[c] > 0 /\ errs'[c] = errs[c] - 1)
    BY <2>1 DEF TypeOK
  <2>4. Few(wire[c], errs'[c], executed[c], Holders(c), doubled[c], c \in sent)
    BY <1>0, <2>3, MovesOf DEF TokenMoves
  <2>. QED
    BY <2>1, <2>2, <2>4 DEF FewOf
<1>7. ASSUME NEW t \in Threads, NEW d \in Cmds, NEW a \in Answers, OnMsg(t, d, a)
      PROVE  FewTokens'
  <2>. SUFFICES ASSUME NEW c \in Cmds PROVE FewOf(c)'
    BY DEF FewTokens
  <2>1. /\ wire' = wire /\ executed' = executed /\ doubled' = doubled /\ sent' = sent
        /\ pc[t] = "idle"
        /\ \/ errs' = errs /\ Go(t, "remove", d)
           \/ errs[d] > 0 /\ errs' = [errs EXCEPT ![d] = @ - 1] /\ Go(t, "resend", d)
    BY <1>7 DEF OnMsg, Arrived, Take, Handle, Dec, Idle, Answers, worldVars
  <2>2. t \notin Holders(c)
    BY <2>1 DEF Holders, Holds
  <2>3. CASE errs' = errs /\ Go(t, "remove", d)
    BY <2>1, <2>3, FewAfterGo DEF FewTokens
  <2>4. CASE errs[d] > 0 /\ errs' = [errs EXCEPT ![d] = @ - 1] /\ Go(t, "resend", d)
    <3>1. Holders(c)' = IF d = c THEN Holders(c) \cup {t} ELSE Holders(c) \ {t}
      BY <2>4, HoldersMove
    <3>2. errs'[c] = IF d = c THEN errs[c] - 1 ELSE errs[c]
      BY <2>4 DEF TypeOK
    <3>3. Few(wire[c], errs'[c], executed[c], Holders(c)', doubled[c], c \in sent)
      BY <1>0, <2>2, <2>4, <3>1, <3>2, MovesOf DEF TokenMoves
    <3>. QED
      BY <2>1, <3>3 DEF FewOf
  <2>. QED
    BY <2>1, <2>3, <2>4
<1>8. ASSUME NEW t \in Threads, NEW b \in Cmds, NEW a \in Answers, NEW d \in Cmds,
             NEW e \in Answers, Misread(t, b, a, d, e)
      PROVE  FewTokens'
  <2>. SUFFICES ASSUME NEW c \in Cmds PROVE FewOf(c)'
    BY DEF FewTokens
  <2>1. /\ wire' = wire /\ executed' = executed /\ sent' = sent /\ pc[t] = "idle"
        /\ \/ a = "ok" /\ errs' = errs
           \/ a = "error" /\ errs[b] > 0 /\ errs' = [errs EXCEPT ![b] = @ - 1]
        /\ \/ e = "ok" /\ Go(t, "remove", d) /\ doubled' = doubled
           \/ /\ e = "error" /\ errs[d] > 0 /\ Go(t, "resend", d)
              /\ doubled' = [doubled EXCEPT ![d] = @ + 1]
        /\ b = d => a # e
    BY <1>8 DEF Misread, Arrived, Take, Handle, Dec, Inc, Idle, Answers, worldVars
  <2>2. t \notin Holders(c)
    BY <2>1 DEF Holders, Holds
  <2>3. errs'[c] = errs[c] \/ (errs[c] > 0 /\ errs'[c] = errs[c] - 1)
    BY <2>1 DEF TypeOK
  <2>4. CASE e = "error" /\ c = d
    <3>1. doubled'[c] = doubled[c] + 1 /\ errs[c] > 0 /\ Holders(c)' = Holders(c) \cup {t}
      <4>1. doubled' = [doubled EXCEPT ![c] = @ + 1] /\ errs[c] > 0 /\ Go(t, "resend", c)
        BY <2>1, <2>4
      <4>2. Holders(c)' = Holders(c) \cup {t}
        BY <4>1, HoldersMove
      <4>. QED
        BY <4>1, <4>2 DEF TypeOK
    <3>2. errs'[c] = errs[c]
      BY <2>1, <2>4 DEF TypeOK
    <3>3. Few(wire[c], errs[c], executed[c], Holders(c) \cup {t}, doubled[c] + 1, c \in sent)
      BY <1>0, <2>2, <3>1, MovesOf DEF TokenMoves
    <3>. QED
      BY <2>1, <3>1, <3>2, <3>3 DEF FewOf
  <2>5. CASE ~(e = "error" /\ c = d)
    <3>1. doubled'[c] = doubled[c]
      BY <2>1, <2>5 DEF TypeOK
    <3>2. Holders(c)' = Holders(c)
      <4>1. \E to \in {"remove", "resend"} : Go(t, to, d) /\ ~(to = "resend" /\ c = d)
        BY <2>1, <2>5
      <4>2. Holders(c)' = Holders(c) \ {t}
        BY <4>1, HoldersMove
      <4>. QED
        BY <2>2, <4>2
    <3>3. Few(wire[c], errs'[c], executed[c], Holders(c), doubled[c], c \in sent)
      BY <1>0, <2>3, MovesOf DEF TokenMoves
    <3>. QED
      BY <2>1, <3>1, <3>2, <3>3 DEF FewOf
  <2>. QED
    BY <2>4, <2>5
<1>9. CASE UNCHANGED vars
  <2>1. \A c \in Cmds : FewOf(c)' <=> FewOf(c)
    BY <1>9 DEF vars, thrVars, netVars, worldVars, FewOf, Holders, Holds
  <2>. QED
    BY <2>1 DEF FewTokens
<1>. QED
  BY <1>1, <1>2, <1>3, <1>4, <1>5, <1>6, <1>7, <1>8, <1>9 DEF Next, ThreadStep, Answer

-----------------------------------------------------------------------------
(* The refinement of Delivery *)

\* One command changes its fate as Delivery allows, the others keep theirs.
LEMMA FateChange ==
    ASSUME NEW c \in Cmds, \A d \in Cmds \ {c} : Fate(d)' = Fate(d),
           \/ Fate(c) = "unsent" /\ Fate(c)' = "inflight"
           \/ Fate(c) = "inflight" /\ Fate(c)' \in {"placed", "refused"}
           \/ Fate(c) = "refused" /\ Fate(c)' \in {"inflight", "lost"}
           \/ Fate(c)' = Fate(c)
    PROVE  [D!Next]_fateOf
<1> DEFINE f == fateOf
           g == fateOf'
<1>1. f = [d \in Cmds |-> Fate(d)] /\ g = [d \in Cmds |-> Fate(d)']
  BY DEF fateOf
<1>2. g = [f EXCEPT ![c] = Fate(c)'] /\ f[c] = Fate(c)
  BY <1>1
<1>3. CASE Fate(c)' = Fate(c)
  BY <1>1, <1>2, <1>3
<1>4. CASE Fate(c)' # Fate(c)
  BY <1>2, <1>4 DEF D!Next, D!Send, D!Place, D!Refuse, D!Resend, D!GiveUp, D!Become
<1>. QED
  BY <1>3, <1>4

\* A step that touches neither the copies of a command nor its resending is a
\* stutter for Delivery.
LEMMA FateFrame ==
    ASSUME NEW c \in Cmds, UNCHANGED <<wire[c], errs[c], executed[c], c \in sent>>,
           Refusing(c)' <=> Refusing(c)
    PROVE  Fate(c)' = Fate(c)
BY DEF Fate

\* Every step of the resolver is a step of Delivery, or none.
LEMMA RefinesStep ==
    ASSUME MaxMisreads = 0, TypeOK, OneToken, [Next]_vars
    PROVE  [D!Next]_fateOf
<1> USE DEF TypeOK, Refusing
<1>1. ASSUME NEW t \in Threads,
             \/ AddCommand(t) \/ ReachClear(t) \/ Clear(t) \/ RemoveCommand(t)
             \/ ResendFound(t) \/ Unlock(t)
      PROVE  UNCHANGED fateOf
  <2>1. UNCHANGED <<wire, errs, executed, sent>>
    BY <1>1 DEF AddCommand, ReachClear, Clear, RemoveCommand, ResendFound,
                Unlock, netVars, worldVars
  <2>2. \A c \in Cmds : Refusing(c)' <=> Refusing(c)
    BY <1>1 DEF AddCommand, ReachClear, Clear, RemoveCommand, ResendFound,
                Unlock, Idle, Finish, Go
  <2>. QED
    BY <2>1, <2>2 DEF fateOf, Fate
<1>2. ASSUME NEW t \in Threads, NEW c \in Cmds, SendCommand(t, c)
      PROVE  [D!Next]_fateOf
  <2>1. \A d \in Cmds : Refusing(d)' <=> Refusing(d)
    BY <1>2 DEF SendCommand, Idle, Go
  <2>2. \A d \in Cmds \ {c} : Fate(d)' = Fate(d)
    BY <1>2, <2>1 DEF SendCommand, Inc, Fate, worldVars
  <2>3. Fate(c) = "unsent" /\ Fate(c)' = "inflight"
    BY <1>2 DEF SendCommand, Inc, Fate
  <2>. QED
    BY <2>2, <2>3, FateChange
<1>3. ASSUME NEW c \in Cmds, Execute(c) \/ Refuse(c)
      PROVE  [D!Next]_fateOf
  <2>1. \A d \in Cmds : Refusing(d)' <=> Refusing(d)
    BY <1>3 DEF Execute, Refuse, thrVars
  <2>2. \A d \in Cmds \ {c} : Fate(d)' = Fate(d)
    BY <1>3, <2>1 DEF Execute, Refuse, Inc, Dec, Fate
  <2>3. /\ wire[c] = 1 /\ wire'[c] = 0 /\ c \in sent /\ ~Refusing(c)
        /\ errs[c] = 0 /\ executed[c] = 0 /\ UNCHANGED sent
        /\ \/ executed'[c] = 1 /\ errs'[c] = 0
           \/ executed'[c] = 0 /\ errs'[c] = 1
    <3>1. wire[c] > 0 /\ wire[c] + errs[c] + executed[c] <= 1
      BY <1>3 DEF Execute, Refuse, OneToken
    <3>2. wire[c] = 1 /\ errs[c] = 0 /\ executed[c] = 0
      BY <3>1
    <3>3. c \in sent /\ ~Refusing(c)
      BY <3>2 DEF OneToken, Holds
    <3>. QED
      BY <1>3, <3>2, <3>3 DEF Execute, Refuse, Inc, Dec
  <2>4. Fate(c) = "inflight" /\ Fate(c)' \in {"placed", "refused"}
    BY <2>1, <2>3 DEF Fate
  <2>. QED
    BY <2>2, <2>4, FateChange
<1>4. ASSUME NEW t \in Threads, NEW c \in Cmds, NEW a \in Answers, OnMsg(t, c, a)
      PROVE  UNCHANGED fateOf
  <2>1. CASE a = "ok"
    <3>1. \A d \in Cmds : Refusing(d)' <=> Refusing(d)
      BY <1>4, <2>1 DEF OnMsg, Handle, Idle, Go
    <3>. QED
      BY <1>4, <2>1, <3>1 DEF OnMsg, Take, worldVars, fateOf, Fate
  <2>2. CASE a = "error"
    <3>1. /\ errs[c] > 0 /\ errs' = [errs EXCEPT ![c] = @ - 1]
          /\ pc' = [pc EXCEPT ![t] = "resend"] /\ arg' = [arg EXCEPT ![t] = c]
          /\ pc[t] = "idle" /\ UNCHANGED <<wire, executed, sent>>
      BY <1>4, <2>2 DEF OnMsg, Idle, Arrived, Take, Handle, Go, Dec, worldVars
    <3>2. \A d \in Cmds \ {c} : Refusing(d)' <=> Refusing(d)
      BY <3>1
    <3>3. Refusing(c)'
      BY <3>1
    <3>4. \A d \in Cmds : Fate(d)' = Fate(d)
      BY <3>1, <3>2, <3>3 DEF Fate
    <3>. QED
      BY <3>4 DEF fateOf
  <2>. QED
    BY <2>1, <2>2 DEF Answers
<1>5. ASSUME NEW c \in Cmds, NEW a \in Answers, Garbled(c, a)
      PROVE  [D!Next]_fateOf
  <2>1. \A d \in Cmds : Refusing(d)' <=> Refusing(d)
    BY <1>5 DEF Garbled, thrVars
  <2>2. \A d \in Cmds \ {c} : Fate(d)' = Fate(d)
    BY <1>5, <2>1 DEF Garbled, Take, Dec, Fate, worldVars
  <2>3. CASE a = "ok"
    <3>1. Fate(c)' = Fate(c)
      BY <1>5, <2>1, <2>3 DEF Garbled, Take, Fate, worldVars
    <3>. QED
      BY <2>2, <3>1, FateChange
  <2>4. CASE a = "error"
    <3>1. errs[c] > 0 /\ wire[c] + errs[c] + executed[c] <= 1
      BY <1>5, <2>4 DEF Garbled, Arrived, OneToken
    <3>2. errs[c] = 1 /\ wire[c] = 0 /\ executed[c] = 0
      BY <3>1
    <3>3. c \in sent /\ ~Refusing(c)
      BY <3>2 DEF OneToken, Holds
    <3>4. errs'[c] = 0 /\ UNCHANGED <<sent, wire, executed>>
      BY <1>5, <2>4, <3>2 DEF Garbled, Take, Dec, worldVars
    <3>5. Fate(c) = "refused" /\ Fate(c)' = "lost"
      BY <2>1, <3>2, <3>3, <3>4 DEF Fate
    <3>. QED
      BY <2>2, <3>5, FateChange
  <2>. QED
    BY <2>3, <2>4 DEF Answers
<1>6. ASSUME NEW t \in Threads, ResendUnknown(t)
      PROVE  [D!Next]_fateOf
  <2>1. PICK c \in Cmds : arg[t] = c /\ Holds(t, c)
    BY <1>6 DEF ResendUnknown, Holds
  <2>2. UNCHANGED <<wire, errs, executed, sent>>
    BY <1>6 DEF ResendUnknown, netVars, worldVars
  <2>3. ~Refusing(c)'
    BY <1>6, <2>1 DEF ResendUnknown, Finish, Go, OneToken, Holds
  <2>4. \A d \in Cmds \ {c} : Refusing(d)' <=> Refusing(d)
    BY <1>6, <2>1 DEF ResendUnknown, Finish, Go
  <2>5. \A d \in Cmds \ {c} : Fate(d)' = Fate(d)
    BY <2>2, <2>4 DEF Fate
  <2>6. wire[c] + errs[c] + executed[c] = 0 /\ c \in sent
    BY <2>1 DEF OneToken
  <2>7. wire[c] = 0 /\ errs[c] = 0 /\ executed[c] = 0
    BY <2>6
  <2>8. Fate(c) = "refused" /\ Fate(c)' = "lost"
    BY <2>1, <2>2, <2>3, <2>6, <2>7 DEF Fate, Holds
  <2>. QED
    BY <2>5, <2>8, FateChange
<1>7. ASSUME NEW t \in Threads, Resend(t)
      PROVE  [D!Next]_fateOf
  <2>1. PICK c \in Cmds : arg[t] = c /\ Holds(t, c)
    BY <1>7 DEF Resend, Holds
  <2>2. wire' = [wire EXCEPT ![c] = @ + 1] /\ UNCHANGED <<errs, executed, sent>>
    BY <1>7, <2>1 DEF Resend, Inc, worldVars
  <2>3. \A d \in Cmds \ {c} : Refusing(d)' <=> Refusing(d)
    BY <1>7, <2>1 DEF Resend, Go
  <2>4. \A d \in Cmds \ {c} : Fate(d)' = Fate(d)
    BY <2>2, <2>3 DEF Fate
  <2>5. wire[c] + errs[c] + executed[c] = 0 /\ c \in sent
    BY <2>1 DEF OneToken
  <2>6. wire[c] = 0 /\ errs[c] = 0 /\ executed[c] = 0
    BY <2>5
  <2>7. Fate(c) = "refused" /\ Fate(c)' = "inflight"
    BY <2>1, <2>2, <2>5, <2>6 DEF Fate, Holds
  <2>. QED
    BY <2>4, <2>7, FateChange
<1>8. ASSUME NEW t \in Threads, NEW c \in Cmds, NEW a \in Answers,
             NEW d \in Cmds, NEW b \in Answers, Misread(t, c, a, d, b)
      PROVE  FALSE
  BY <1>8 DEF Misread
<1>9. CASE UNCHANGED vars
  BY <1>9 DEF vars, thrVars, netVars, worldVars, fateOf, Fate
<1>. QED
  BY <1>1, <1>2, <1>3, <1>4, <1>5, <1>6, <1>7, <1>8, <1>9
  DEF Next, ThreadStep, Answer

-----------------------------------------------------------------------------
\* The invariants that need no bound on misreads carry each other.
LEMMA SafeStep == SafeInv /\ [Next]_vars => SafeInv'
BY TypeStep, LockStep, OkStep, TrackStep, PendingStep, ForgetStep DEF SafeInv

\* They hold in every reachable state.
THEOREM Safe == Spec => []SafeInv
BY InitSafe, SafeStep, PTL DEF Spec

\* Whatever threads, answers and clear do, the variables keep their types.
THEOREM TypeCorrect == Spec => []TypeOK
BY Safe, PTL DEF SafeInv

\* Every path through addCommand, removeCommand, resendCommand and clear
\* releases pkmutex, and none releases another thread's.
THEOREM LockDiscipline == Spec => []LockHeld
BY Safe, PTL DEF SafeInv

\* Whatever the order of answers and addCommand, and whatever is misread, a
\* command is forgotten in the three known ways only.
THEOREM NeverForgotten == Spec => []NotForgotten
BY Safe, PTL DEF SafeInv

\* pkmap keeps no entry of a command that is over, except after an answer that
\* overtook addCommand or was lost.
THEOREM NothingLeftOver == Spec => []NoLeftover
<1>1. SafeInv => NoLeftover
  BY DEF SafeInv, TypeOK, PendingInv, NoLeftover
<1>. QED
  BY <1>1, Safe, PTL

\* Without misreads there is at most one token of a command.
LEMMA TokenInv ==
    ASSUME MaxMisreads = 0
    PROVE  Spec => [](TypeOK /\ OneToken)
<1>1. Init => TypeOK /\ OneToken
  <2>1. Init => TypeOK
    BY InitSafe DEF SafeInv
  <2>2. Init => OneToken
    BY DEF Init, OneToken, Holds
  <2>. QED
    BY <2>1, <2>2
<1>2. TypeOK /\ OneToken /\ [Next]_vars => (TypeOK /\ OneToken)'
  BY TypeStep, TokenStep
<1>. QED
  BY <1>1, <1>2, PTL DEF Spec

\* A command takes effect once, and once more at most for every error of it that
\* was handled twice, however the handlers of its answers, of new commands and of
\* clear interleave and whatever is misread.
THEOREM OnceOnly == Spec => []AtMostOnce
<1>1. Init => FewTokens
  <2>. SUFFICES ASSUME Init, NEW c \in Cmds PROVE FewOf(c)
    BY DEF FewTokens
  <2>1. Holders(c) = {}
    BY DEF Init, Holders, Holds
  <2>2. wire[c] = 0 /\ errs[c] = 0 /\ executed[c] = 0 /\ doubled[c] = 0
    BY DEF Init
  <2>. QED
    BY <2>1, <2>2, FS_EmptySet DEF FewOf, Few
<1>2. TypeOK /\ FewTokens => AtMostOnce
  <2>. SUFFICES ASSUME TypeOK, FewTokens, NEW c \in Cmds
                PROVE  executed[c] <= 1 + doubled[c]
    BY DEF AtMostOnce
  <2>1. /\ IsFiniteSet(Holders(c))
        /\ wire[c] + errs[c] + executed[c] + Cardinality(Holders(c)) <= 1 + doubled[c]
    BY DEF FewTokens, FewOf, Few
  <2>2. Cardinality(Holders(c)) \in Nat
    BY <2>1, FS_CardinalityType
  <2>3. wire[c] \in Nat /\ errs[c] \in Nat /\ executed[c] \in Nat /\ doubled[c] \in Nat
    BY DEF TypeOK
  <2>. QED
    BY <2>1, <2>2, <2>3
<1>3. TypeOK /\ FewTokens /\ [Next]_vars => FewTokens'
  BY FewStep
<1>. QED
  BY <1>1, <1>2, <1>3, TypeCorrect, PTL DEF Spec

\* Without misread messages the resolver implements Delivery.
THEOREM KeepsDelivery ==
    ASSUME MaxMisreads = 0
    PROVE  Spec => DeliverySpec
<1>1. Init => D!Init
  BY DEF Init, D!Init, fateOf, Fate
<1>2. TypeOK /\ OneToken /\ [Next]_vars => [D!Next]_fateOf
  BY RefinesStep
<1>. QED
  BY <1>1, <1>2, TokenInv, PTL DEF Spec, DeliverySpec, D!Spec
=============================================================================
