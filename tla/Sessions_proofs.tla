--------------------------- MODULE Sessions_proofs ---------------------------
(***************************************************************************)
(* The properties of Sessions for any number of connections, addresses and *)
(* messages.                                                               *)
(*                                                                         *)
(* A session is in FBSMap under the address of its connection only, so it  *)
(* is in there once; and of all open connections only one has an address.  *)
(* What a thread may read through the pointer is what the slot holds: the  *)
(* last message received, or garbage (SlotInv).                            *)
(***************************************************************************)
EXTENDS Sessions, TLAPS

\* The loop thread is in ~FastBuilder from the interrupt on.
LoopInv == loop.at = "destroy" <=> shutting_down

\* An address belongs to one open connection, and to none while the close
\* handler is at work for it.  A connection that was closed before its session
\* was entered is remembered.
ConnInv ==
    /\ \A c \in Conns : conn[c] = "new" <=> cpc[c] = "none"
    /\ \A c \in Conns : conn[c] # "new" => addr[c] \in Addrs
    /\ \A c, d \in Conns :
          conn[c] = "open" /\ conn[d] = "open" /\ addr[c] = addr[d] => c = d
    /\ ~shutting_down =>
          \A c \in Conns :
             /\ loop.at # "idle" /\ conn[c] = "open" => addr[c] # loop.ws
             /\ conn[c] = "closed" /\ cpc[c] # "done" => addr[c] \in overtaken

\* Sessions are constructed by their connection's thread and deleted afterwards.
MadeInv == \A c \in Conns :
    /\ deletions[c].made <= 1
    /\ cpc[c] \in {"none", "check", "new"} =>
          deletions[c].made = 0 /\ deletions[c].freed = 0
    /\ cpc[c] \in {"insert", "assign"} =>
          deletions[c].made = 1 /\ deletions[c].freed = 0

\* An entry is under the address of its session's connection, and its session
\* is there, unless it is about to be erased.
MapInv ==
    /\ \A a \in Addrs : FBSMap[a] \in Conns =>
          /\ addr[FBSMap[a]] = a /\ cpc[FBSMap[a]] = "done"
          /\ ~shutting_down => Live(FBSMap[a]) \/ loop = At("erase", a)
          /\ shutting_down /\ a \notin visited =>
                Live(FBSMap[a]) \/ FBSMap[a] = cut
    /\ ~shutting_down => cut = Absent

\* SessionsMatch, with what the close handler has still to delete
MatchInv == ~shutting_down => \A c \in Conns :
    cpc[c] = "done" /\ addr[c] \notin overtaken =>
        \/ conn[c] = "open" /\ FBSMap[addr[c]] = c
        \/ conn[c] = "closed" /\ ~Live(c)
        \/ /\ conn[c] = "closed" /\ FBSMap[addr[c]] = c
           /\ loop.ws = addr[c] /\ loop.at \in {"find", "kill", "delete"}

SlotInv ==
    /\ \A m \in Msgs : m <= sent => from[m] \in Conns /\ conn[from[m]] # "new"
    /\ \A m \in Msgs : mpc[m] # "none" => m <= sent
    /\ slot.text # Garbled => slot.text = sent
    /\ slot.sock # Wild => sent > 0 /\ slot.sock = addr[from[sent]]

SafeInv == TypeOK /\ LoopInv /\ ConnInv /\ MadeInv /\ MapInv /\ MatchInv
           /\ DeletedOnce /\ SlotInv /\ LaterOnly

-----------------------------------------------------------------------------
GotTypes == [sock : Addrs \cup {Wild, Unread}, text : Msgs \cup {Garbled, Unread}]

\* What a thread has before it reads has the type of what it reads.
LEMMA ReadNothing == NothingRead \in GotTypes
<1>1. Unread \in Addrs \cup {Wild, Unread} /\ Unread \in Msgs \cup {Garbled, Unread}
  OBVIOUS
<1>. QED
  BY <1>1, Zenon DEF NothingRead, GotTypes

\* No connection, session or message at the start.
LEMMA InitSafe == Init => SafeInv
<1> SUFFICES ASSUME Init PROVE SafeInv
  OBVIOUS
<1> USE SessionsAssumption
<1>1. TypeOK
  <2>1. deletions \in [Conns -> [made : Nat, freed : Nat]]
    BY DEF Init
  <2>2. loop \in [at : LoopPcs, ws : Addrs \cup {Absent}] /\ loop.at = "idle"
    BY DEF Init, At, LoopPcs
  <2>3. slot \in [sock : Addrs \cup {Wild}, text : Msgs \cup {Garbled}]
    BY DEF Init, Junk
  <2>4. got \in [Msgs -> GotTypes]
    BY ReadNothing DEF Init
  <2>5. sent \in 0 .. MaxMsgs /\ from \in [Msgs -> Conns \cup {Absent}]
    BY DEF Init
  <2>6. /\ conn \in [Conns -> {"new", "open", "closed"}]
        /\ cpc \in [Conns -> {"none", "check", "new", "insert", "assign", "done"}]
        /\ mpc \in [Msgs -> {"none", "take", "find", "index", "handle", "done"}]
        /\ \A m \in Msgs : mpc[m] # "index"
    BY DEF Init
  <2>7. /\ FBSMap \in [Addrs -> Conns \cup {Null, Absent}]
        /\ addr \in [Conns -> Addrs \cup {Absent}]
        /\ held \in [Msgs -> Conns \cup {Null, Absent}]
        /\ cut \in Conns \cup {Null, Absent}
        /\ visited \subseteq Addrs /\ overtaken \subseteq Addrs
        /\ gone \in {"no", "crash", "quit"} /\ shutting_down \in BOOLEAN
    BY DEF Init
  <2>. QED
    BY <2>1, <2>2, <2>3, <2>4, <2>5, <2>6, <2>7 DEF TypeOK, GotTypes
<1>2. LoopInv /\ ConnInv /\ MadeInv /\ MapInv /\ MatchInv /\ DeletedOnce
  BY DEF Init, LoopInv, ConnInv, MadeInv, MapInv, MatchInv, DeletedOnce, At
<1>3. SlotInv /\ LaterOnly
  BY DEF Init, SlotInv, LaterOnly, Junk, Msgs, NothingRead
<1>. QED
  BY <1>1, <1>2, <1>3 DEF SafeInv

\* Counting a construction or a deletion gives a pair of naturals again.
LEMMA Counted ==
    ASSUME NEW f \in [Conns -> [made : Nat, freed : Nat]], NEW c \in Conns
    PROVE  /\ [f EXCEPT ![c].made = @ + 1] \in [Conns -> [made : Nat, freed : Nat]]
           /\ [f EXCEPT ![c].freed = @ + 1] \in [Conns -> [made : Nat, freed : Nat]]
<1> DEFINE Made == [f[c] EXCEPT !.made = @ + 1]
           Gone == [f[c] EXCEPT !.freed = @ + 1]
<1>1. Made \in [made : Nat, freed : Nat] /\ Gone \in [made : Nat, freed : Nat]
  OBVIOUS
<1>2. /\ [f EXCEPT ![c].made = @ + 1] = [f EXCEPT ![c] = Made]
      /\ [f EXCEPT ![c].freed = @ + 1] = [f EXCEPT ![c] = Gone]
  OBVIOUS
<1> HIDE DEF Made, Gone
<1>. QED
  BY <1>1, <1>2

\* What a thread has read after one of its two reads
LEMMA ReadOne ==
    ASSUME NEW g \in GotTypes,
           NEW s \in [sock : Addrs \cup {Wild}, text : Msgs \cup {Garbled}]
    PROVE  /\ [g EXCEPT !.sock = s.sock] = [sock |-> s.sock, text |-> g.text]
           /\ [g EXCEPT !.text = s.text] = [sock |-> g.sock, text |-> s.text]
BY DEF GotTypes

\* Every step keeps the types.
LEMMA TypeStep == TypeOK /\ ConnInv /\ [Next]_vars => TypeOK'
<1> SUFFICES ASSUME TypeOK, ConnInv, [Next]_vars PROVE TypeOK'
  OBVIOUS
<1> USE SessionsAssumption DEF TypeOK, LoopPcs, Msgs, Garbled, Junk, NothingRead, ConnInv
<1>1. ASSUME NEW c \in Conns, Open(c)
      PROVE  TypeOK'
  BY <1>1 DEF Open, Idle, ConnStep, connVars, msgVars, mapVars, endVars
<1>2. ASSUME NEW c \in Conns, OnConnection(c)
      PROVE  TypeOK'
  <2>1. conn' \in [Conns -> {"new", "open", "closed"}]
    BY <1>2 DEF OnConnection, CloseWs
  <2>2. cpc' \in [Conns -> {"none", "check", "new", "insert", "assign", "done"}]
    BY <1>2 DEF OnConnection, ConnStep
  <2>. QED
    BY <1>2, <2>1, <2>2 DEF OnConnection, connVars, msgVars, mapVars, endVars
<1>3. ASSUME NEW c \in Conns, FastBuilderSession(c)
      PROVE  TypeOK'
  <2>1. deletions' \in [Conns -> [made : Nat, freed : Nat]]
    BY <1>3, Counted DEF FastBuilderSession
  <2>. QED
    BY <1>3, <2>1 DEF FastBuilderSession, ConnStep, connVars, msgVars, mapVars, endVars
<1>4. ASSUME NEW c \in Conns, Insert(c)
      PROVE  TypeOK'
  BY <1>4 DEF Insert, ConnStep, connVars, msgVars, mapVars, endVars
<1>5. ASSUME NEW c \in Conns, Assign(c)
      PROVE  TypeOK'
  BY <1>5 DEF Assign, ConnStep, connVars, msgVars, mapVars, endVars
<1>6. ASSUME NEW c \in Conns, Recv(c)
      PROVE  TypeOK'
  BY <1>6 DEF Recv, Idle, MsgStep, connVars, msgVars, mapVars, endVars
<1>7. ASSUME NEW c \in Conns, Close(c)
      PROVE  TypeOK'
  BY <1>7 DEF Close, Idle, At, connVars, msgVars, mapVars, endVars
<1>8. ASSUME NEW m \in Msgs, ReadSock(m)
      PROVE  TypeOK'
  <2>1. got' = [got EXCEPT ![m] = [sock |-> slot.sock, text |-> got[m].text]]
    BY <1>8, ReadOne DEF ReadSock, Reads, GotTypes
  <2>2. got' \in [Msgs -> GotTypes]
    BY <2>1 DEF GotTypes
  <2>3. mpc' \in [Msgs -> {"none", "take", "find", "index", "handle", "done"}]
    BY <1>8 DEF ReadSock, Reads, MsgStep
  <2>4. \A n \in Msgs : mpc'[n] = "index" => mpc[n] = "index" /\ n # m
    BY <1>8 DEF ReadSock, Reads, MsgStep
  <2>5. \A n \in Msgs : mpc'[n] = "index" => got'[n].sock \in Addrs
    BY <2>1, <2>4
  <2>. QED
    BY <1>8, <2>2, <2>3, <2>5 DEF ReadSock, Reads, GotTypes, connVars, msgVars, mapVars, endVars
<1>9. ASSUME NEW m \in Msgs, ReadText(m)
      PROVE  TypeOK'
  <2>1. got' = [got EXCEPT ![m] = [sock |-> got[m].sock, text |-> slot.text]]
    BY <1>9, ReadOne DEF ReadText, Reads, GotTypes
  <2>2. got' \in [Msgs -> GotTypes]
    BY <2>1 DEF GotTypes
  <2>3. mpc' \in [Msgs -> {"none", "take", "find", "index", "handle", "done"}]
    BY <1>9 DEF ReadText, Reads, MsgStep
  <2>4. \A n \in Msgs : mpc'[n] = "index" => mpc[n] = "index" /\ n # m
    BY <1>9 DEF ReadText, Reads, MsgStep
  <2>5. \A n \in Msgs : mpc'[n] = "index" => got'[n].sock \in Addrs
    BY <2>1, <2>4
  <2>. QED
    BY <1>9, <2>2, <2>3, <2>5 DEF ReadText, Reads, GotTypes, connVars, msgVars, mapVars, endVars
<1>10. ASSUME NEW m \in Msgs, Find(m)
      PROVE  TypeOK'
  <2>1. got' \in [Msgs -> GotTypes]
    <3>1. got \in [Msgs -> GotTypes]
      BY DEF GotTypes
    <3>2. got' = got \/ got' = [got EXCEPT ![m] = NothingRead]
      BY <1>10 DEF Find
    <3>. QED
      BY <3>1, <3>2, ReadNothing, Zenon
  <2>2. mpc' \in [Msgs -> {"none", "take", "find", "index", "handle", "done"}]
    BY <1>10 DEF Find, MsgStep
  <2>3. \A n \in Msgs : mpc'[n] = "index" => got'[n].sock \in Addrs
    BY <1>10 DEF Find, Known, MsgStep
  <2>. QED
    BY <1>10, <2>1, <2>2, <2>3 DEF Find, GotTypes, connVars, msgVars, mapVars, endVars
<1>11. ASSUME NEW m \in Msgs, Index(m)
      PROVE  TypeOK'
  BY <1>11 DEF Index, MsgStep, connVars, msgVars, mapVars, endVars
<1>12. ASSUME NEW m \in Msgs, Handle(m)
      PROVE  TypeOK'
  BY <1>12 DEF Handle, MsgStep, connVars, msgVars, mapVars, endVars
<1>13. CASE Overwrite
  BY <1>13 DEF Overwrite, Idle, connVars, msgVars, mapVars, endVars
<1>14. CASE CloseFind
  BY <1>14 DEF CloseFind, LoopStep, Known, connVars, msgVars, mapVars, endVars
<1>15. CASE CloseKill
  BY <1>15 DEF CloseKill, LoopStep, connVars, msgVars, mapVars, endVars
<1>16. CASE CloseDelete
  <2>1. deletions' \in [Conns -> [made : Nat, freed : Nat]]
    BY <1>16, Counted DEF CloseDelete, Freed
  <2>2. conn' \in [Conns -> {"new", "open", "closed"}]
    BY <1>16 DEF CloseDelete, CloseWs
  <2>. QED
    BY <1>16, <2>1, <2>2 DEF CloseDelete, LoopStep, connVars, msgVars, mapVars, endVars
<1>17. CASE CloseErase
  BY <1>17 DEF CloseErase, LoopStep, connVars, msgVars, mapVars, endVars
<1>18. CASE Interrupt
  BY <1>18 DEF Interrupt, At, connVars, msgVars, mapVars, endVars
<1>19. CASE Quit
  BY <1>19 DEF Quit, LoopStep, Known, connVars, msgVars, mapVars, endVars
<1>20. ASSUME NEW a \in Addrs, Destroy(a)
      PROVE  TypeOK'
  <2>1. deletions' \in [Conns -> [made : Nat, freed : Nat]]
    BY <1>20, Counted DEF Destroy, Freed
  <2>2. conn' \in [Conns -> {"new", "open", "closed"}]
    BY <1>20 DEF Destroy, CloseWs
  <2>. QED
    BY <1>20, <2>1, <2>2 DEF Destroy, LoopStep, connVars, msgVars, mapVars, endVars
<1>21. CASE sh
  BY <1>21 DEF sh, connVars, msgVars, mapVars, endVars
<1>22. CASE UNCHANGED vars
  BY <1>22 DEF vars, connVars, msgVars, mapVars, endVars
<1>. QED
  BY <1>1, <1>2, <1>3, <1>4, <1>5, <1>6, <1>7, <1>8, <1>9, <1>10, <1>11, <1>12, <1>13, <1>14, <1>15, <1>16, <1>17, <1>18, <1>19, <1>20, <1>21, <1>22
  DEF Next

\* The loop thread enters ~FastBuilder by the interrupt, and never leaves it.
LEMMA LoopStepInv == TypeOK /\ LoopInv /\ [Next]_vars => LoopInv'
<1> SUFFICES ASSUME TypeOK, LoopInv, [Next]_vars PROVE LoopInv'
  OBVIOUS
<1> USE DEF TypeOK, LoopInv, LoopPcs
<1>1. ASSUME NEW c \in Conns, Open(c)
      PROVE  LoopInv'
  BY <1>1 DEF Open, Idle, ConnStep, connVars, msgVars, mapVars, endVars
<1>2. ASSUME NEW c \in Conns, OnConnection(c)
      PROVE  LoopInv'
  BY <1>2 DEF OnConnection, ConnStep, CloseWs, connVars, msgVars, mapVars, endVars
<1>3. ASSUME NEW c \in Conns, FastBuilderSession(c)
      PROVE  LoopInv'
  BY <1>3 DEF FastBuilderSession, ConnStep, connVars, msgVars, mapVars, endVars
<1>4. ASSUME NEW c \in Conns, Insert(c)
      PROVE  LoopInv'
  BY <1>4 DEF Insert, ConnStep, connVars, msgVars, mapVars, endVars
<1>5. ASSUME NEW c \in Conns, Assign(c)
      PROVE  LoopInv'
  BY <1>5 DEF Assign, ConnStep, connVars, msgVars, mapVars, endVars
<1>6. ASSUME NEW c \in Conns, Recv(c)
      PROVE  LoopInv'
  BY <1>6 DEF Recv, Idle, MsgStep, connVars, msgVars, mapVars, endVars
<1>7. ASSUME NEW c \in Conns, Close(c)
      PROVE  LoopInv'
  BY <1>7 DEF Close, Idle, At, connVars, msgVars, mapVars, endVars
<1>8. ASSUME NEW m \in Msgs, ReadSock(m)
      PROVE  LoopInv'
  BY <1>8 DEF ReadSock, Reads, MsgStep, connVars, msgVars, mapVars, endVars
<1>9. ASSUME NEW m \in Msgs, ReadText(m)
      PROVE  LoopInv'
  BY <1>9 DEF ReadText, Reads, MsgStep, connVars, msgVars, mapVars, endVars
<1>10. ASSUME NEW m \in Msgs, Find(m)
      PROVE  LoopInv'
  BY <1>10 DEF Find, Known, MsgStep, connVars, msgVars, mapVars, endVars
<1>11. ASSUME NEW m \in Msgs, Index(m)
      PROVE  LoopInv'
  BY <1>11 DEF Index, MsgStep, connVars, msgVars, mapVars, endVars
<1>12. ASSUME NEW m \in Msgs, Handle(m)
      PROVE  LoopInv'
  BY <1>12 DEF Handle, MsgStep, connVars, msgVars, mapVars, endVars
<1>13. CASE Overwrite
  BY <1>13 DEF Overwrite, Idle, connVars, msgVars, mapVars, endVars
<1>14. CASE CloseFind
  BY <1>14 DEF CloseFind, LoopStep, Known, connVars, msgVars, mapVars, endVars
<1>15. CASE CloseKill
  BY <1>15 DEF CloseKill, LoopStep, connVars, msgVars, mapVars, endVars
<1>16. CASE CloseDelete
  BY <1>16 DEF CloseDelete, LoopStep, Freed, CloseWs, connVars, msgVars, mapVars, endVars
<1>17. CASE CloseErase
  BY <1>17 DEF CloseErase, LoopStep, connVars, msgVars, mapVars, endVars
<1>18. CASE Interrupt
  BY <1>18 DEF Interrupt, At, connVars, msgVars, mapVars, endVars
<1>19. CASE Quit
  BY <1>19 DEF Quit, LoopStep, Known, connVars, msgVars, mapVars, endVars
<1>20. ASSUME NEW a \in Addrs, Destroy(a)
      PROVE  LoopInv'
  BY <1>20 DEF Destroy, LoopStep, Known, Freed, CloseWs, connVars, msgVars, mapVars, endVars
<1>21. CASE sh
  BY <1>21 DEF sh, connVars, msgVars, mapVars, endVars
<1>22. CASE UNCHANGED vars
  BY <1>22 DEF vars, connVars, msgVars, mapVars, endVars
<1>. QED
  BY <1>1, <1>2, <1>3, <1>4, <1>5, <1>6, <1>7, <1>8, <1>9, <1>10, <1>11, <1>12, <1>13, <1>14, <1>15, <1>16, <1>17, <1>18, <1>19, <1>20, <1>21, <1>22
  DEF Next

\* An address is given to one open connection, and not while its close runs.
LEMMA ConnStepInv == TypeOK /\ LoopInv /\ ConnInv /\ [Next]_vars => ConnInv'
<1> SUFFICES ASSUME TypeOK, LoopInv, ConnInv, [Next]_vars PROVE ConnInv'
  OBVIOUS
<1> USE SessionsAssumption DEF TypeOK, LoopInv, ConnInv
<1>1. ASSUME NEW c \in Conns, Open(c)
      PROVE  ConnInv'
  BY <1>1 DEF Open, Idle, ConnStep, connVars, msgVars, mapVars, endVars
<1>2. ASSUME NEW c \in Conns, OnConnection(c)
      PROVE  ConnInv'
  <2>1. CASE ~shutting_down
    BY <1>2, <2>1 DEF OnConnection, ConnStep, connVars, msgVars, mapVars, endVars
  <2>2. CASE shutting_down
    <3>1. \A d \in Conns : conn'[d] \in {conn[d], "closed"} /\ (conn'[d] = "new" <=> conn[d] = "new")
      BY <1>2, <2>2 DEF OnConnection, CloseWs
    <3>2. \A d \in Conns : cpc'[d] = "none" <=> cpc[d] = "none"
      BY <1>2, <2>2 DEF OnConnection, ConnStep
    <3>. QED
      BY <1>2, <2>2, <3>1, <3>2 DEF OnConnection, connVars, msgVars, mapVars, endVars
  <2>. QED
    BY <2>1, <2>2
<1>3. ASSUME NEW c \in Conns, FastBuilderSession(c)
      PROVE  ConnInv'
  BY <1>3 DEF FastBuilderSession, ConnStep, connVars, msgVars, mapVars, endVars
<1>4. ASSUME NEW c \in Conns, Insert(c)
      PROVE  ConnInv'
  BY <1>4 DEF Insert, ConnStep, connVars, msgVars, mapVars, endVars
<1>5. ASSUME NEW c \in Conns, Assign(c)
      PROVE  ConnInv'
  BY <1>5 DEF Assign, ConnStep, connVars, msgVars, mapVars, endVars
<1>6. ASSUME NEW c \in Conns, Recv(c)
      PROVE  ConnInv'
  BY <1>6 DEF Recv, Idle, MsgStep, connVars, msgVars, mapVars, endVars
<1>7. ASSUME NEW c \in Conns, Close(c)
      PROVE  ConnInv'
  BY <1>7 DEF Close, Idle, At, connVars, msgVars, mapVars, endVars
<1>8. ASSUME NEW m \in Msgs, ReadSock(m)
      PROVE  ConnInv'
  BY <1>8 DEF ReadSock, Reads, MsgStep, connVars, msgVars, mapVars, endVars
<1>9. ASSUME NEW m \in Msgs, ReadText(m)
      PROVE  ConnInv'
  BY <1>9 DEF ReadText, Reads, MsgStep, connVars, msgVars, mapVars, endVars
<1>10. ASSUME NEW m \in Msgs, Find(m)
      PROVE  ConnInv'
  BY <1>10 DEF Find, Known, MsgStep, connVars, msgVars, mapVars, endVars
<1>11. ASSUME NEW m \in Msgs, Index(m)
      PROVE  ConnInv'
  BY <1>11 DEF Index, MsgStep, connVars, msgVars, mapVars, endVars
<1>12. ASSUME NEW m \in Msgs, Handle(m)
      PROVE  ConnInv'
  BY <1>12 DEF Handle, MsgStep, connVars, msgVars, mapVars, endVars
<1>13. CASE Overwrite
  BY <1>13 DEF Overwrite, Idle, connVars, msgVars, mapVars, endVars
<1>14. CASE CloseFind
  BY <1>14 DEF CloseFind, LoopStep, Known, connVars, msgVars, mapVars, endVars
<1>15. CASE CloseKill
  BY <1>15 DEF CloseKill, LoopStep, connVars, msgVars, mapVars, endVars
<1>16. CASE CloseDelete
  BY <1>16 DEF CloseDelete, LoopStep, Freed, CloseWs, connVars, msgVars, mapVars, endVars
<1>17. CASE CloseErase
  BY <1>17 DEF CloseErase, LoopStep, connVars, msgVars, mapVars, endVars
<1>18. CASE Interrupt
  BY <1>18 DEF Interrupt, At, connVars, msgVars, mapVars, endVars
<1>19. CASE Quit
  BY <1>19 DEF Quit, LoopStep, Known, connVars, msgVars, mapVars, endVars
<1>20. ASSUME NEW a \in Addrs, Destroy(a)
      PROVE  ConnInv'
  BY <1>20 DEF Destroy, LoopStep, Known, Freed, CloseWs, connVars, msgVars, mapVars, endVars
<1>21. CASE sh
  BY <1>21 DEF sh, connVars, msgVars, mapVars, endVars
<1>22. CASE UNCHANGED vars
  BY <1>22 DEF vars, connVars, msgVars, mapVars, endVars
<1>. QED
  BY <1>1, <1>2, <1>3, <1>4, <1>5, <1>6, <1>7, <1>8, <1>9, <1>10, <1>11, <1>12, <1>13, <1>14, <1>15, <1>16, <1>17, <1>18, <1>19, <1>20, <1>21, <1>22
  DEF Next

\* Only the thread of its connection constructs a session, once.
LEMMA MadeStep == TypeOK /\ LoopInv /\ ConnInv /\ MadeInv /\ MapInv /\ [Next]_vars => MadeInv'
<1> SUFFICES ASSUME TypeOK, LoopInv, ConnInv, MadeInv, MapInv, [Next]_vars PROVE MadeInv'
  OBVIOUS
<1> USE SessionsAssumption DEF TypeOK, MadeInv, MapInv
<1>1. ASSUME NEW c \in Conns, Open(c)
      PROVE  MadeInv'
  BY <1>1 DEF Open, Idle, ConnStep, connVars, msgVars, mapVars, endVars
<1>2. ASSUME NEW c \in Conns, OnConnection(c)
      PROVE  MadeInv'
  BY <1>2 DEF OnConnection, ConnStep, CloseWs, connVars, msgVars, mapVars, endVars
<1>3. ASSUME NEW c \in Conns, FastBuilderSession(c)
      PROVE  MadeInv'
  BY <1>3 DEF FastBuilderSession, ConnStep, connVars, msgVars, mapVars, endVars
<1>4. ASSUME NEW c \in Conns, Insert(c)
      PROVE  MadeInv'
  BY <1>4 DEF Insert, ConnStep, connVars, msgVars, mapVars, endVars
<1>5. ASSUME NEW c \in Conns, Assign(c)
      PROVE  MadeInv'
  BY <1>5 DEF Assign, ConnStep, connVars, msgVars, mapVars, endVars
<1>6. ASSUME NEW c \in Conns, Recv(c)
      PROVE  MadeInv'
  BY <1>6 DEF Recv, Idle, MsgStep, connVars, msgVars, mapVars, endVars
<1>7. ASSUME NEW c \in Conns, Close(c)
      PROVE  MadeInv'
  BY <1>7 DEF Close, Idle, At, connVars, msgVars, mapVars, endVars
<1>8. ASSUME NEW m \in Msgs, ReadSock(m)
      PROVE  MadeInv'
  BY <1>8 DEF ReadSock, Reads, MsgStep, connVars, msgVars, mapVars, endVars
<1>9. ASSUME NEW m \in Msgs, ReadText(m)
      PROVE  MadeInv'
  BY <1>9 DEF ReadText, Reads, MsgStep, connVars, msgVars, mapVars, endVars
<1>10. ASSUME NEW m \in Msgs, Find(m)
      PROVE  MadeInv'
  BY <1>10 DEF Find, Known, MsgStep, connVars, msgVars, mapVars, endVars
<1>11. ASSUME NEW m \in Msgs, Index(m)
      PROVE  MadeInv'
  BY <1>11 DEF Index, MsgStep, connVars, msgVars, mapVars, endVars
<1>12. ASSUME NEW m \in Msgs, Handle(m)
      PROVE  MadeInv'
  BY <1>12 DEF Handle, MsgStep, connVars, msgVars, mapVars, endVars
<1>13. CASE Overwrite
  BY <1>13 DEF Overwrite, Idle, connVars, msgVars, mapVars, endVars
<1>14. CASE CloseFind
  BY <1>14 DEF CloseFind, LoopStep, Known, connVars, msgVars, mapVars, endVars
<1>15. CASE CloseKill
  BY <1>15 DEF CloseKill, LoopStep, connVars, msgVars, mapVars, endVars
<1>16. CASE CloseDelete
  BY <1>16 DEF CloseDelete, LoopStep, Freed, CloseWs, connVars, msgVars, mapVars, endVars
<1>17. CASE CloseErase
  BY <1>17 DEF CloseErase, LoopStep, connVars, msgVars, mapVars, endVars
<1>18. CASE Interrupt
  BY <1>18 DEF Interrupt, At, connVars, msgVars, mapVars, endVars
<1>19. CASE Quit
  BY <1>19 DEF Quit, LoopStep, Known, connVars, msgVars, mapVars, endVars
<1>20. ASSUME NEW a \in Addrs, Destroy(a)
      PROVE  MadeInv'
  BY <1>20 DEF Destroy, LoopStep, Known, Freed, CloseWs, connVars, msgVars, mapVars, endVars
<1>21. CASE sh
  BY <1>21 DEF sh, connVars, msgVars, mapVars, endVars
<1>22. CASE UNCHANGED vars
  BY <1>22 DEF vars, connVars, msgVars, mapVars, endVars
<1>. QED
  BY <1>1, <1>2, <1>3, <1>4, <1>5, <1>6, <1>7, <1>8, <1>9, <1>10, <1>11, <1>12, <1>13, <1>14, <1>15, <1>16, <1>17, <1>18, <1>19, <1>20, <1>21, <1>22
  DEF Next

\* FBSMap gets an entry from the thread that made the session, and loses it to
\* the close handler.
LEMMA MapStep == TypeOK /\ LoopInv /\ ConnInv /\ MadeInv /\ MapInv /\ [Next]_vars => MapInv'
<1> SUFFICES ASSUME TypeOK, LoopInv, ConnInv, MadeInv, MapInv, [Next]_vars PROVE MapInv'
  OBVIOUS
<1> USE SessionsAssumption DEF TypeOK, LoopInv, ConnInv, MadeInv, MapInv, Live, At
<1>1. ASSUME NEW c \in Conns, Open(c)
      PROVE  MapInv'
  BY <1>1 DEF Open, Idle, ConnStep, connVars, msgVars, mapVars, endVars
<1>2. ASSUME NEW c \in Conns, OnConnection(c)
      PROVE  MapInv'
  BY <1>2 DEF OnConnection, ConnStep, CloseWs, connVars, msgVars, mapVars, endVars
<1>3. ASSUME NEW c \in Conns, FastBuilderSession(c)
      PROVE  MapInv'
  BY <1>3 DEF FastBuilderSession, ConnStep, connVars, msgVars, mapVars, endVars
<1>4. ASSUME NEW c \in Conns, Insert(c)
      PROVE  MapInv'
  BY <1>4 DEF Insert, ConnStep, connVars, msgVars, mapVars, endVars
<1>5. ASSUME NEW c \in Conns, Assign(c)
      PROVE  MapInv'
  BY <1>5 DEF Assign, ConnStep, connVars, msgVars, mapVars, endVars
<1>6. ASSUME NEW c \in Conns, Recv(c)
      PROVE  MapInv'
  BY <1>6 DEF Recv, Idle, MsgStep, connVars, msgVars, mapVars, endVars
<1>7. ASSUME NEW c \in Conns, Close(c)
      PROVE  MapInv'
  BY <1>7 DEF Close, Idle, At, connVars, msgVars, mapVars, endVars
<1>8. ASSUME NEW m \in Msgs, ReadSock(m)
      PROVE  MapInv'
  BY <1>8 DEF ReadSock, Reads, MsgStep, connVars, msgVars, mapVars, endVars
<1>9. ASSUME NEW m \in Msgs, ReadText(m)
      PROVE  MapInv'
  BY <1>9 DEF ReadText, Reads, MsgStep, connVars, msgVars, mapVars, endVars
<1>10. ASSUME NEW m \in Msgs, Find(m)
      PROVE  MapInv'
  BY <1>10 DEF Find, Known, MsgStep, connVars, msgVars, mapVars, endVars
<1>11. ASSUME NEW m \in Msgs, Index(m)
      PROVE  MapInv'
  BY <1>11 DEF Index, MsgStep, connVars, msgVars, mapVars, endVars
<1>12. ASSUME NEW m \in Msgs, Handle(m)
      PROVE  MapInv'
  BY <1>12 DEF Handle, MsgStep, connVars, msgVars, mapVars, endVars
<1>13. CASE Overwrite
  BY <1>13 DEF Overwrite, Idle, connVars, msgVars, mapVars, endVars
<1>14. CASE CloseFind
  BY <1>14 DEF CloseFind, LoopStep, Known, connVars, msgVars, mapVars, endVars
<1>15. CASE CloseKill
  BY <1>15 DEF CloseKill, LoopStep, connVars, msgVars, mapVars, endVars
<1>16. CASE CloseDelete
  BY <1>16 DEF CloseDelete, LoopStep, Freed, CloseWs, connVars, msgVars, mapVars, endVars
<1>17. CASE CloseErase
  BY <1>17 DEF CloseErase, LoopStep, connVars, msgVars, mapVars, endVars
<1>18. CASE Interrupt
  BY <1>18 DEF Interrupt, At, connVars, msgVars, mapVars, endVars
<1>19. CASE Quit
  BY <1>19 DEF Quit, LoopStep, Known, connVars, msgVars, mapVars, endVars
<1>20. ASSUME NEW a \in Addrs, Destroy(a)
      PROVE  MapInv'
  BY <1>20 DEF Destroy, LoopStep, Known, Freed, CloseWs, connVars, msgVars, mapVars, endVars
<1>21. CASE sh
  BY <1>21 DEF sh, connVars, msgVars, mapVars, endVars
<1>22. CASE UNCHANGED vars
  BY <1>22 DEF vars, connVars, msgVars, mapVars, endVars
<1>. QED
  BY <1>1, <1>2, <1>3, <1>4, <1>5, <1>6, <1>7, <1>8, <1>9, <1>10, <1>11, <1>12, <1>13, <1>14, <1>15, <1>16, <1>17, <1>18, <1>19, <1>20, <1>21, <1>22
  DEF Next

\* A session is deleted for the close of its own connection.
LEMMA MatchStep == TypeOK /\ LoopInv /\ ConnInv /\ MadeInv /\ MapInv /\ MatchInv /\ [Next]_vars => MatchInv'
<1> SUFFICES ASSUME TypeOK, LoopInv, ConnInv, MadeInv, MapInv, MatchInv, [Next]_vars PROVE MatchInv'
  OBVIOUS
<1> USE SessionsAssumption DEF TypeOK, LoopInv, ConnInv, MadeInv, MapInv, MatchInv, Live, At
<1>1. ASSUME NEW c \in Conns, Open(c)
      PROVE  MatchInv'
  BY <1>1 DEF Open, Idle, ConnStep, connVars, msgVars, mapVars, endVars
<1>2. ASSUME NEW c \in Conns, OnConnection(c)
      PROVE  MatchInv'
  BY <1>2 DEF OnConnection, ConnStep, CloseWs, connVars, msgVars, mapVars, endVars
<1>3. ASSUME NEW c \in Conns, FastBuilderSession(c)
      PROVE  MatchInv'
  BY <1>3 DEF FastBuilderSession, ConnStep, connVars, msgVars, mapVars, endVars
<1>4. ASSUME NEW c \in Conns, Insert(c)
      PROVE  MatchInv'
  BY <1>4 DEF Insert, ConnStep, connVars, msgVars, mapVars, endVars
<1>5. ASSUME NEW c \in Conns, Assign(c)
      PROVE  MatchInv'
  BY <1>5 DEF Assign, ConnStep, connVars, msgVars, mapVars, endVars
<1>6. ASSUME NEW c \in Conns, Recv(c)
      PROVE  MatchInv'
  BY <1>6 DEF Recv, Idle, MsgStep, connVars, msgVars, mapVars, endVars
<1>7. ASSUME NEW c \in Conns, Close(c)
      PROVE  MatchInv'
  BY <1>7 DEF Close, Idle, At, connVars, msgVars, mapVars, endVars
<1>8. ASSUME NEW m \in Msgs, ReadSock(m)
      PROVE  MatchInv'
  BY <1>8 DEF ReadSock, Reads, MsgStep, connVars, msgVars, mapVars, endVars
<1>9. ASSUME NEW m \in Msgs, ReadText(m)
      PROVE  MatchInv'
  BY <1>9 DEF ReadText, Reads, MsgStep, connVars, msgVars, mapVars, endVars
<1>10. ASSUME NEW m \in Msgs, Find(m)
      PROVE  MatchInv'
  BY <1>10 DEF Find, Known, MsgStep, connVars, msgVars, mapVars, endVars
<1>11. ASSUME NEW m \in Msgs, Index(m)
      PROVE  MatchInv'
  BY <1>11 DEF Index, MsgStep, connVars, msgVars, mapVars, endVars
<1>12. ASSUME NEW m \in Msgs, Handle(m)
      PROVE  MatchInv'
  BY <1>12 DEF Handle, MsgStep, connVars, msgVars, mapVars, endVars
<1>13. CASE Overwrite
  BY <1>13 DEF Overwrite, Idle, connVars, msgVars, mapVars, endVars
<1>14. CASE CloseFind
  BY <1>14 DEF CloseFind, LoopStep, Known, connVars, msgVars, mapVars, endVars
<1>15. CASE CloseKill
  BY <1>15 DEF CloseKill, LoopStep, connVars, msgVars, mapVars, endVars
<1>16. CASE CloseDelete
  BY <1>16 DEF CloseDelete, LoopStep, Freed, CloseWs, connVars, msgVars, mapVars, endVars
<1>17. CASE CloseErase
  BY <1>17 DEF CloseErase, LoopStep, connVars, msgVars, mapVars, endVars
<1>18. CASE Interrupt
  BY <1>18 DEF Interrupt, At, connVars, msgVars, mapVars, endVars
<1>19. CASE Quit
  BY <1>19 DEF Quit, LoopStep, Known, connVars, msgVars, mapVars, endVars
<1>20. ASSUME NEW a \in Addrs, Destroy(a)
      PROVE  MatchInv'
  BY <1>20 DEF Destroy, LoopStep, Known, Freed, CloseWs, connVars, msgVars, mapVars, endVars
<1>21. CASE sh
  BY <1>21 DEF sh, connVars, msgVars, mapVars, endVars
<1>22. CASE UNCHANGED vars
  BY <1>22 DEF vars, connVars, msgVars, mapVars, endVars
<1>. QED
  BY <1>1, <1>2, <1>3, <1>4, <1>5, <1>6, <1>7, <1>8, <1>9, <1>10, <1>11, <1>12, <1>13, <1>14, <1>15, <1>16, <1>17, <1>18, <1>19, <1>20, <1>21, <1>22
  DEF Next

\* What is deleted was live, but for the session SIGINT found half erased.
LEMMA DeletedStep == TypeOK /\ LoopInv /\ MadeInv /\ MapInv /\ DeletedOnce /\ [Next]_vars => DeletedOnce'
<1> SUFFICES ASSUME TypeOK, LoopInv, MadeInv, MapInv, DeletedOnce, [Next]_vars PROVE DeletedOnce'
  OBVIOUS
<1> USE SessionsAssumption DEF TypeOK, LoopInv, MadeInv, MapInv, DeletedOnce, Live, At
<1>1. ASSUME NEW c \in Conns, Open(c)
      PROVE  DeletedOnce'
  BY <1>1 DEF Open, Idle, ConnStep, connVars, msgVars, mapVars, endVars
<1>2. ASSUME NEW c \in Conns, OnConnection(c)
      PROVE  DeletedOnce'
  BY <1>2 DEF OnConnection, ConnStep, CloseWs, connVars, msgVars, mapVars, endVars
<1>3. ASSUME NEW c \in Conns, FastBuilderSession(c)
      PROVE  DeletedOnce'
  BY <1>3 DEF FastBuilderSession, ConnStep, connVars, msgVars, mapVars, endVars
<1>4. ASSUME NEW c \in Conns, Insert(c)
      PROVE  DeletedOnce'
  BY <1>4 DEF Insert, ConnStep, connVars, msgVars, mapVars, endVars
<1>5. ASSUME NEW c \in Conns, Assign(c)
      PROVE  DeletedOnce'
  BY <1>5 DEF Assign, ConnStep, connVars, msgVars, mapVars, endVars
<1>6. ASSUME NEW c \in Conns, Recv(c)
      PROVE  DeletedOnce'
  BY <1>6 DEF Recv, Idle, MsgStep, connVars, msgVars, mapVars, endVars
<1>7. ASSUME NEW c \in Conns, Close(c)
      PROVE  DeletedOnce'
  BY <1>7 DEF Close, Idle, At, connVars, msgVars, mapVars, endVars
<1>8. ASSUME NEW m \in Msgs, ReadSock(m)
      PROVE  DeletedOnce'
  BY <1>8 DEF ReadSock, Reads, MsgStep, connVars, msgVars, mapVars, endVars
<1>9. ASSUME NEW m \in Msgs, ReadText(m)
      PROVE  DeletedOnce'
  BY <1>9 DEF ReadText, Reads, MsgStep, connVars, msgVars, mapVars, endVars
<1>10. ASSUME NEW m \in Msgs, Find(m)
      PROVE  DeletedOnce'
  BY <1>10 DEF Find, Known, MsgStep, connVars, msgVars, mapVars, endVars
<1>11. ASSUME NEW m \in Msgs, Index(m)
      PROVE  DeletedOnce'
  BY <1>11 DEF Index, MsgStep, connVars, msgVars, mapVars, endVars
<1>12. ASSUME NEW m \in Msgs, Handle(m)
      PROVE  DeletedOnce'
  BY <1>12 DEF Handle, MsgStep, connVars, msgVars, mapVars, endVars
<1>13. CASE Overwrite
  BY <1>13 DEF Overwrite, Idle, connVars, msgVars, mapVars, endVars
<1>14. CASE CloseFind
  BY <1>14 DEF CloseFind, LoopStep, Known, connVars, msgVars, mapVars, endVars
<1>15. CASE CloseKill
  BY <1>15 DEF CloseKill, LoopStep, connVars, msgVars, mapVars, endVars
<1>16. CASE CloseDelete
  BY <1>16 DEF CloseDelete, LoopStep, Freed, CloseWs, connVars, msgVars, mapVars, endVars
<1>17. CASE CloseErase
  BY <1>17 DEF CloseErase, LoopStep, connVars, msgVars, mapVars, endVars
<1>18. CASE Interrupt
  BY <1>18 DEF Interrupt, At, connVars, msgVars, mapVars, endVars
<1>19. CASE Quit
  BY <1>19 DEF Quit, LoopStep, Known, connVars, msgVars, mapVars, endVars
<1>20. ASSUME NEW a \in Addrs, Destroy(a)
      PROVE  DeletedOnce'
  BY <1>20 DEF Destroy, LoopStep, Known, Freed, CloseWs, connVars, msgVars, mapVars, endVars
<1>21. CASE sh
  BY <1>21 DEF sh, connVars, msgVars, mapVars, endVars
<1>22. CASE UNCHANGED vars
  BY <1>22 DEF vars, connVars, msgVars, mapVars, endVars
<1>. QED
  BY <1>1, <1>2, <1>3, <1>4, <1>5, <1>6, <1>7, <1>8, <1>9, <1>10, <1>11, <1>12, <1>13, <1>14, <1>15, <1>16, <1>17, <1>18, <1>19, <1>20, <1>21, <1>22
  DEF Next

\* The slot holds the last message received, or garbage.
LEMMA SlotStep == TypeOK /\ ConnInv /\ SlotInv /\ [Next]_vars => SlotInv'
<1> SUFFICES ASSUME TypeOK, ConnInv, SlotInv, [Next]_vars PROVE SlotInv'
  OBVIOUS
<1> USE SessionsAssumption DEF TypeOK, ConnInv, SlotInv, Msgs, Garbled, Junk
<1>1. ASSUME NEW c \in Conns, Open(c)
      PROVE  SlotInv'
  BY <1>1 DEF Open, Idle, ConnStep, connVars, msgVars, mapVars, endVars
<1>2. ASSUME NEW c \in Conns, OnConnection(c)
      PROVE  SlotInv'
  BY <1>2 DEF OnConnection, ConnStep, CloseWs, connVars, msgVars, mapVars, endVars
<1>3. ASSUME NEW c \in Conns, FastBuilderSession(c)
      PROVE  SlotInv'
  BY <1>3 DEF FastBuilderSession, ConnStep, connVars, msgVars, mapVars, endVars
<1>4. ASSUME NEW c \in Conns, Insert(c)
      PROVE  SlotInv'
  BY <1>4 DEF Insert, ConnStep, connVars, msgVars, mapVars, endVars
<1>5. ASSUME NEW c \in Conns, Assign(c)
      PROVE  SlotInv'
  BY <1>5 DEF Assign, ConnStep, connVars, msgVars, mapVars, endVars
<1>6. ASSUME NEW c \in Conns, Recv(c)
      PROVE  SlotInv'
  BY <1>6 DEF Recv, Idle, MsgStep, connVars, msgVars, mapVars, endVars
<1>7. ASSUME NEW c \in Conns, Close(c)
      PROVE  SlotInv'
  BY <1>7 DEF Close, Idle, At, connVars, msgVars, mapVars, endVars
<1>8. ASSUME NEW m \in Msgs, ReadSock(m)
      PROVE  SlotInv'
  BY <1>8 DEF ReadSock, Reads, MsgStep, connVars, msgVars, mapVars, endVars
<1>9. ASSUME NEW m \in Msgs, ReadText(m)
      PROVE  SlotInv'
  BY <1>9 DEF ReadText, Reads, MsgStep, connVars, msgVars, mapVars, endVars
<1>10. ASSUME NEW m \in Msgs, Find(m)
      PROVE  SlotInv'
  BY <1>10 DEF Find, Known, MsgStep, connVars, msgVars, mapVars, endVars
<1>11. ASSUME NEW m \in Msgs, Index(m)
      PROVE  SlotInv'
  BY <1>11 DEF Index, MsgStep, connVars, msgVars, mapVars, endVars
<1>12. ASSUME NEW m \in Msgs, Handle(m)
      PROVE  SlotInv'
  BY <1>12 DEF Handle, MsgStep, connVars, msgVars, mapVars, endVars
<1>13. CASE Overwrite
  BY <1>13 DEF Overwrite, Idle, connVars, msgVars, mapVars, endVars
<1>14. CASE CloseFind
  BY <1>14 DEF CloseFind, LoopStep, Known, connVars, msgVars, mapVars, endVars
<1>15. CASE CloseKill
  BY <1>15 DEF CloseKill, LoopStep, connVars, msgVars, mapVars, endVars
<1>16. CASE CloseDelete
  BY <1>16 DEF CloseDelete, LoopStep, Freed, CloseWs, connVars, msgVars, mapVars, endVars
<1>17. CASE CloseErase
  BY <1>17 DEF CloseErase, LoopStep, connVars, msgVars, mapVars, endVars
<1>18. CASE Interrupt
  BY <1>18 DEF Interrupt, At, connVars, msgVars, mapVars, endVars
<1>19. CASE Quit
  BY <1>19 DEF Quit, LoopStep, Known, connVars, msgVars, mapVars, endVars
<1>20. ASSUME NEW a \in Addrs, Destroy(a)
      PROVE  SlotInv'
  BY <1>20 DEF Destroy, LoopStep, Known, Freed, CloseWs, connVars, msgVars, mapVars, endVars
<1>21. CASE sh
  BY <1>21 DEF sh, connVars, msgVars, mapVars, endVars
<1>22. CASE UNCHANGED vars
  BY <1>22 DEF vars, connVars, msgVars, mapVars, endVars
<1>. QED
  BY <1>1, <1>2, <1>3, <1>4, <1>5, <1>6, <1>7, <1>8, <1>9, <1>10, <1>11, <1>12, <1>13, <1>14, <1>15, <1>16, <1>17, <1>18, <1>19, <1>20, <1>21, <1>22
  DEF Next

\* A thread reads what the slot holds: its own message or a later one.
LEMMA LaterStep == TypeOK /\ ConnInv /\ SlotInv /\ LaterOnly /\ [Next]_vars => LaterOnly'
<1> SUFFICES ASSUME TypeOK, ConnInv, SlotInv, LaterOnly, [Next]_vars PROVE LaterOnly'
  OBVIOUS
<1> USE SessionsAssumption DEF TypeOK, ConnInv, SlotInv, LaterOnly, Msgs, Garbled, NothingRead
<1>1. ASSUME NEW c \in Conns, Open(c)
      PROVE  LaterOnly'
  BY <1>1 DEF Open, Idle, ConnStep, connVars, msgVars, mapVars, endVars
<1>2. ASSUME NEW c \in Conns, OnConnection(c)
      PROVE  LaterOnly'
  BY <1>2 DEF OnConnection, ConnStep, CloseWs, connVars, msgVars, mapVars, endVars
<1>3. ASSUME NEW c \in Conns, FastBuilderSession(c)
      PROVE  LaterOnly'
  BY <1>3 DEF FastBuilderSession, ConnStep, connVars, msgVars, mapVars, endVars
<1>4. ASSUME NEW c \in Conns, Insert(c)
      PROVE  LaterOnly'
  BY <1>4 DEF Insert, ConnStep, connVars, msgVars, mapVars, endVars
<1>5. ASSUME NEW c \in Conns, Assign(c)
      PROVE  LaterOnly'
  BY <1>5 DEF Assign, ConnStep, connVars, msgVars, mapVars, endVars
<1>6. ASSUME NEW c \in Conns, Recv(c)
      PROVE  LaterOnly'
  <2>1. ASSUME NEW n \in Msgs
        PROVE  /\ got'[n].text \in {Garbled, Unread} \cup n .. sent'
               /\ got'[n].sock \in {Wild, Unread} \cup {addr'[from'[k]] : k \in n .. sent'}
    <3>1. got'[n] = got[n] /\ sent' = sent + 1 /\ addr' = addr
      BY <1>6 DEF Recv, connVars, msgVars, mapVars, endVars
    <3>2. \A k \in n .. sent : k \in n .. sent' /\ from'[k] = from[k]
      BY <1>6, <3>1 DEF Recv
    <3>3. got[n].text \in n .. sent => got[n].text \in n .. sent'
      BY <3>1
    <3>4. ASSUME NEW k \in n .. sent, got[n].sock = addr[from[k]]
          PROVE  got'[n].sock \in {addr'[from'[j]] : j \in n .. sent'}
      <4>1. k \in n .. sent' /\ got'[n].sock = addr'[from'[k]]
        BY <3>1, <3>2, <3>4
      <4>. QED
        BY <4>1, Zenon
    <3>5. got'[n].text \in {Garbled, Unread} \cup n .. sent'
      BY <3>1, <3>3
    <3>6. got'[n].sock \in {Wild, Unread} \cup {addr'[from'[k]] : k \in n .. sent'}
      <4>1. got[n].sock \in {Wild, Unread} \cup {addr[from[k]] : k \in n .. sent}
        OBVIOUS
      <4>2. CASE got[n].sock \in {Wild, Unread}
        BY <3>1, <4>2
      <4>3. CASE got[n].sock \in {addr[from[k]] : k \in n .. sent}
        BY <3>4, <4>3
      <4>. QED
        BY <4>1, <4>2, <4>3, Zenon
    <3>. QED
      BY <3>5, <3>6
  <2>. QED
    BY <2>1
<1>7. ASSUME NEW c \in Conns, Close(c)
      PROVE  LaterOnly'
  BY <1>7 DEF Close, Idle, At, connVars, msgVars, mapVars, endVars
<1>8. ASSUME NEW m \in Msgs, ReadSock(m)
      PROVE  LaterOnly'
  <2>1. mpc[m] # "none" /\ m \in 1 .. sent
    BY <1>8 DEF ReadSock, Reads, MsgStep
  <2>2. got' = [got EXCEPT ![m] = [sock |-> slot.sock, text |-> got[m].text]]
    BY <1>8, ReadOne DEF ReadSock, Reads, GotTypes
  <2>3. slot.sock = Wild \/ slot.sock \in {addr[from[k]] : k \in m .. sent}
    BY <2>1
  <2>4. sent' = sent /\ addr' = addr /\ from' = from
    BY <1>8 DEF ReadSock, Reads, connVars
  <2>. QED
    BY <2>2, <2>3, <2>4
<1>9. ASSUME NEW m \in Msgs, ReadText(m)
      PROVE  LaterOnly'
  <2>1. mpc[m] # "none" /\ m \in 1 .. sent
    BY <1>9 DEF ReadText, Reads, MsgStep
  <2>2. got' = [got EXCEPT ![m] = [sock |-> got[m].sock, text |-> slot.text]]
    BY <1>9, ReadOne DEF ReadText, Reads, GotTypes
  <2>3. slot.text \in {Garbled} \cup m .. sent
    BY <2>1
  <2>4. sent' = sent /\ addr' = addr /\ from' = from
    BY <1>9 DEF ReadText, Reads, connVars
  <2>. QED
    BY <2>2, <2>3, <2>4
<1>10. ASSUME NEW m \in Msgs, Find(m)
      PROVE  LaterOnly'
  <2>1. got' = got \/ got' = [got EXCEPT ![m] = NothingRead]
    BY <1>10 DEF Find
  <2>2. sent' = sent /\ addr' = addr /\ from' = from
    BY <1>10 DEF Find, connVars
  <2>3. NothingRead.sock = Unread /\ NothingRead.text = Unread
    OBVIOUS
  <2> HIDE DEF NothingRead
  <2>4. ASSUME NEW n \in Msgs
        PROVE  /\ got'[n].text \in {Garbled, Unread} \cup n .. sent'
               /\ got'[n].sock \in {Wild, Unread} \cup {addr'[from'[k]] : k \in n .. sent'}
    <3>1. CASE got'[n] = got[n]
      BY <2>2, <3>1
    <3>2. CASE got'[n] = NothingRead
      BY <2>3, <3>2
    <3>. QED
      BY <2>1, <3>1, <3>2
  <2>. QED
    BY <2>4
<1>11. ASSUME NEW m \in Msgs, Index(m)
      PROVE  LaterOnly'
  BY <1>11 DEF Index, MsgStep, connVars, msgVars, mapVars, endVars
<1>12. ASSUME NEW m \in Msgs, Handle(m)
      PROVE  LaterOnly'
  BY <1>12 DEF Handle, MsgStep, connVars, msgVars, mapVars, endVars
<1>13. CASE Overwrite
  BY <1>13 DEF Overwrite, Idle, connVars, msgVars, mapVars, endVars
<1>14. CASE CloseFind
  BY <1>14 DEF CloseFind, LoopStep, Known, connVars, msgVars, mapVars, endVars
<1>15. CASE CloseKill
  BY <1>15 DEF CloseKill, LoopStep, connVars, msgVars, mapVars, endVars
<1>16. CASE CloseDelete
  BY <1>16 DEF CloseDelete, LoopStep, Freed, CloseWs, connVars, msgVars, mapVars, endVars
<1>17. CASE CloseErase
  BY <1>17 DEF CloseErase, LoopStep, connVars, msgVars, mapVars, endVars
<1>18. CASE Interrupt
  BY <1>18 DEF Interrupt, At, connVars, msgVars, mapVars, endVars
<1>19. CASE Quit
  BY <1>19 DEF Quit, LoopStep, Known, connVars, msgVars, mapVars, endVars
<1>20. ASSUME NEW a \in Addrs, Destroy(a)
      PROVE  LaterOnly'
  BY <1>20 DEF Destroy, LoopStep, Known, Freed, CloseWs, connVars, msgVars, mapVars, endVars
<1>21. CASE sh
  BY <1>21 DEF sh, connVars, msgVars, mapVars, endVars
<1>22. CASE UNCHANGED vars
  BY <1>22 DEF vars, connVars, msgVars, mapVars, endVars
<1>. QED
  BY <1>1, <1>2, <1>3, <1>4, <1>5, <1>6, <1>7, <1>8, <1>9, <1>10, <1>11, <1>12, <1>13, <1>14, <1>15, <1>16, <1>17, <1>18, <1>19, <1>20, <1>21, <1>22
  DEF Next

-----------------------------------------------------------------------------
\* The conjunction of the invariants is inductive: map, connections, sessions and
\* the slot agree in every reachable state.
THEOREM Safe == Spec => []SafeInv
<1>1. SafeInv /\ [Next]_vars => SafeInv'
  BY TypeStep, LoopStepInv, ConnStepInv, MadeStep, MapStep, MatchStep,
    DeletedStep, SlotStep, LaterStep DEF SafeInv
<1>. QED
  BY InitSafe, <1>1, PTL DEF Spec

\* Whatever threads, close handlers and the interrupt do, the variables keep
\* their types.
THEOREM TypeCorrect == Spec => []TypeOK
BY Safe, PTL DEF SafeInv

\* A session is deleted once, but for the one SIGINT finds half erased.
THEOREM OnlyOnce == Spec => []DeletedOnce
BY Safe, PTL DEF SafeInv

\* FBSMap leads to no deleted session outside the close handler and shutdown.
THEOREM NoEntryDangles == Spec => []NoDanglingEntry
<1>1. SafeInv => NoDanglingEntry
  BY DEF SafeInv, MapInv, NoDanglingEntry
<1>. QED
  BY <1>1, Safe, PTL

\* Connections and sessions match, unless one overtook the other.
THEOREM Matching == Spec => []SessionsMatch
<1>1. SafeInv => SessionsMatch
  BY DEF SafeInv, MatchInv, SessionsMatch
<1>. QED
  BY <1>1, Safe, PTL

\* No thread reads a message from before its own.
THEOREM NeverEarlier == Spec => []LaterOnly
BY Safe, PTL DEF SafeInv
=============================================================================
