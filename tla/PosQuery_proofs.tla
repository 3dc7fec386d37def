--------------------------- MODULE PosQuery_proofs ---------------------------
(***************************************************************************)
(* The safety properties of PosQuery for any number of queries, handlers   *)
(* and parsers.                                                            *)
(*                                                                         *)
(* A mark goes before the first answer is stored, whoever erases it; and   *)
(* as long as no second handler has found the mark, an answer is at one    *)
(* place of the keeper at a time: one handler holds it, or it is stored    *)
(* (KeeperInv).  AwaitInv follows a query from its send on, before its mark *)
(* is set.  WholeInv ties the two coordinates of globalPos together        *)
(* wherever no setPos is halfway.                                          *)
(***************************************************************************)
EXTENDS PosQuery, TLAPS

\* A handler at work has an answer, and so has a query that sets the position.
HandInv ==
    /\ \A h \in Handlers : hpc[h] # "idle" => hmsg[h] \in Queries \X Answers
    /\ \A q \in Queries : pc[q] \in {"take", "setx", "setz"} => got[q] \in Answers

KeeperInv == \A q \in Queries :
    /\ q \in needMark =>
          /\ pc[q] = "poll" /\ wanted[q] = NoAnswer
          /\ \A h \in Handlers : Stores(h, q) => Erases(h, q)
    /\ \A h \in Handlers : Stores(h, q) => pc[q] \notin {"send", "mark"}
    /\ wanted[q] # NoAnswer => pc[q] \notin {"send", "mark"}
    /\ q \notin twice =>
          /\ wanted[q] # NoAnswer => pc[q] \in {"poll", "take"}
          /\ \A h \in Handlers : Stores(h, q) =>
                /\ pc[q] = "poll" /\ wanted[q] = NoAnswer
                /\ Erases(h, q) => q \in needMark
                /\ \A k \in Handlers : Stores(k, q) => k = h

\* The answer to q is to come, or on its way to a handler.
OnItsWay(q) ==
    \/ q \in asked
    \/ \E m \in arrived : m[1] = q
    \/ \E h \in Handlers : Holds(h, q)

AwaitInv == \A q \in Queries : up /\ q \notin missed =>
    /\ pc[q] = "mark" => OnItsWay(q)
    /\ pc[q] = "poll" =>
          \/ wanted[q] # NoAnswer
          \/ \E h \in Handlers : Stores(h, q)
          \/ q \in needMark /\ OnItsWay(q)

WholeInv ==
    /\ ~overlap =>
          /\ \A q, r \in Queries : pc[q] = "setz" /\ pc[r] = "setz" => q = r
          /\ \A q \in Queries : pc[q] = "setz" => globalPos.x = Position(got[q])
          /\ (\A q \in Queries : pc[q] # "setz") => globalPos.x = globalPos.z
    /\ \A p \in Parsers : ppc[p] = "z" /\ p \notin raced =>
          /\ \A q \in Queries : pc[q] # "setz"
          /\ parsed[p].x = globalPos.x

SafeInv == TypeOK /\ HandInv /\ KeeperInv /\ AwaitInv /\ WholeInv /\ WholePosition

-----------------------------------------------------------------------------
\* No query, mark or answer, and one position, at the start.
LEMMA InitSafe == Init => SafeInv
<1> SUFFICES ASSUME Init PROVE SafeInv
  OBVIOUS
<1>1. TypeOK
  <2>1. globalPos \in [x : Coords, z : Coords]
    BY DEF Init, Coords
  <2>2. parsed \in [Parsers -> [x : Coords, z : Coords]]
    BY DEF Init, Coords
  <2>3. misreads \in 0 .. MaxMisreads
    BY PosQueryAssumption DEF Init
  <2>4. hmsg \in [Handlers -> (Queries \X Answers) \cup {NoMsg}]
    BY DEF Init
  <2>. QED
    BY <2>1, <2>2, <2>3, <2>4 DEF Init, TypeOK, QueryPcs, HandlerPcs, ParserPcs
<1>2. HandInv /\ KeeperInv /\ AwaitInv
  BY DEF Init, HandInv, KeeperInv, AwaitInv, Stores
<1>3. WholeInv /\ WholePosition
  BY DEF Init, WholeInv, WholePosition
<1>. QED
  BY <1>1, <1>2, <1>3 DEF SafeInv

\* What setPos stores is a coordinate.
LEMMA PositionType == \A a \in Answers : Position(a) \in Coords
BY DEF Position, Answers, Coords

\* Every step keeps the types.
LEMMA TypeStep == TypeOK /\ HandInv /\ [Next]_vars => TypeOK'
<1> SUFFICES ASSUME TypeOK, HandInv, [Next]_vars PROVE TypeOK'
  OBVIOUS
<1> USE PosQueryAssumption DEF TypeOK, HandInv, QueryPcs, HandlerPcs, ParserPcs
<1>1. ASSUME NEW q \in Queries, Send(q)
      PROVE  TypeOK'
  BY <1>1 DEF Send, Step, queryVars, keeperVars, netVars, handVars, posVars
<1>2. ASSUME NEW q \in Queries, SetNMark(q)
      PROVE  TypeOK'
  BY <1>2 DEF SetNMark, Step, queryVars, keeperVars, netVars, handVars, posVars
<1>3. ASSUME NEW q \in Queries, FindUValue(q)
      PROVE  TypeOK'
  BY <1>3 DEF FindUValue, Step, queryVars, keeperVars, netVars, handVars, posVars
<1>18. ASSUME NEW q \in Queries, EraseUValue(q)
      PROVE  TypeOK'
  BY <1>18 DEF EraseUValue, Step, queryVars, keeperVars, netVars, handVars, posVars
<1>4. ASSUME NEW q \in Queries, SetX(q)
      PROVE  TypeOK'
  <2>1. Position(got[q]) \in Coords
    BY <1>4, PositionType DEF SetX, Step
  <2>2. globalPos' = [x |-> Position(got[q]), z |-> globalPos.z]
    BY <1>4 DEF SetX
  <2>3. globalPos' \in [x : Coords, z : Coords]
    BY <2>1, <2>2
  <2>. QED
    BY <1>4, <2>3 DEF SetX, Step, queryVars, keeperVars, netVars, handVars, posVars
<1>5. ASSUME NEW q \in Queries, SetZ(q)
      PROVE  TypeOK'
  <2>1. Position(got[q]) \in Coords
    BY <1>5, PositionType DEF SetZ, Step
  <2>2. globalPos' = [x |-> globalPos.x, z |-> Position(got[q])]
    BY <1>5 DEF SetZ
  <2>3. globalPos' \in [x : Coords, z : Coords]
    BY <2>1, <2>2
  <2>. QED
    BY <1>5, <2>3 DEF SetZ, Step, queryVars, keeperVars, netVars, handVars, posVars
<1>6. ASSUME NEW q \in Queries, CrashFreed(q)
      PROVE  TypeOK'
  BY <1>6 DEF CrashFreed, queryVars, keeperVars, netVars, handVars, posVars
<1>7. ASSUME NEW q \in Queries, NEW a \in Answers, Answer(q, a)
      PROVE  TypeOK'
  BY <1>7 DEF Answer, queryVars, keeperVars, netVars, handVars, posVars
<1>8. ASSUME NEW h \in Handlers, FindNMark(h)
      PROVE  TypeOK'
  BY <1>8 DEF FindNMark, Erases, queryVars, keeperVars, netVars, handVars, posVars
<1>19. ASSUME NEW h \in Handlers, EraseNMark(h)
      PROVE  TypeOK'
  BY <1>19 DEF EraseNMark, queryVars, keeperVars, netVars, handVars, posVars
<1>9. ASSUME NEW h \in Handlers, SetUValue(h)
      PROVE  TypeOK'
  BY <1>9 DEF SetUValue, queryVars, keeperVars, netVars, handVars, posVars
<1>10. ASSUME NEW h \in Handlers, NEW m \in arrived, OnMsg(h, m)
      PROVE  TypeOK'
  BY <1>10 DEF OnMsg, queryVars, keeperVars, netVars, handVars, posVars
<1>11. ASSUME NEW m \in arrived, Garbled(m)
      PROVE  TypeOK'
  BY <1>11 DEF Garbled, queryVars, keeperVars, netVars, handVars, posVars
<1>12. ASSUME NEW h \in Handlers, NEW m \in arrived, NEW n \in arrived, Misread(h, m, n)
      PROVE  TypeOK'
  BY <1>12 DEF Misread, queryVars, keeperVars, netVars, handVars, posVars
<1>13. ASSUME NEW p \in Parsers, ReadX(p)
      PROVE  TypeOK'
  <2> DEFINE Read == [parsed[p] EXCEPT !.x = globalPos.x]
  <2>1. Read \in [x : Coords, z : Coords]
    OBVIOUS
  <2>2. parsed' = [parsed EXCEPT ![p] = Read]
    BY <1>13 DEF ReadX
  <2> HIDE DEF Read
  <2>3. parsed' \in [Parsers -> [x : Coords, z : Coords]]
    BY <2>1, <2>2
  <2>. QED
    BY <1>13, <2>3 DEF ReadX, queryVars, keeperVars, netVars, handVars, posVars
<1>14. ASSUME NEW p \in Parsers, ReadZ(p)
      PROVE  TypeOK'
  <2> DEFINE Read == [parsed[p] EXCEPT !.z = globalPos.z]
  <2>1. Read \in [x : Coords, z : Coords]
    OBVIOUS
  <2>2. parsed' = [parsed EXCEPT ![p] = Read]
    BY <1>14 DEF ReadZ
  <2> HIDE DEF Read
  <2>3. parsed' \in [Parsers -> [x : Coords, z : Coords]]
    BY <2>1, <2>2
  <2>. QED
    BY <1>14, <2>3 DEF ReadZ, queryVars, keeperVars, netVars, handVars, posVars
<1>15. CASE Disconnect
  BY <1>15 DEF Disconnect, queryVars, keeperVars, netVars, handVars, posVars
<1>16. CASE MapRace
  BY <1>16 DEF MapRace, queryVars, keeperVars, netVars, handVars, posVars
<1>17. CASE UNCHANGED vars
  BY <1>17 DEF vars, queryVars, keeperVars, netVars, handVars, posVars
<1>. QED
  BY <1>1, <1>2, <1>3, <1>4, <1>5, <1>6, <1>7, <1>8, <1>9, <1>10, <1>11, <1>12, <1>13, <1>14, <1>15, <1>16, <1>17,
     <1>18, <1>19
  DEF Next, QueryStep, HandlerStep, HandOver

\* A handler at work keeps the answer it was given.
LEMMA HandStep == TypeOK /\ HandInv /\ [Next]_vars => HandInv'
<1> SUFFICES ASSUME TypeOK, HandInv, [Next]_vars PROVE HandInv'
  OBVIOUS
<1> USE PosQueryAssumption DEF TypeOK, HandInv
<1>1. ASSUME NEW q \in Queries, Send(q)
      PROVE  HandInv'
  BY <1>1 DEF Send, Step, queryVars, keeperVars, netVars, handVars, posVars
<1>2. ASSUME NEW q \in Queries, SetNMark(q)
      PROVE  HandInv'
  BY <1>2 DEF SetNMark, Step, queryVars, keeperVars, netVars, handVars, posVars
<1>3. ASSUME NEW q \in Queries, FindUValue(q)
      PROVE  HandInv'
  BY <1>3 DEF FindUValue, Step, queryVars, keeperVars, netVars, handVars, posVars
<1>18. ASSUME NEW q \in Queries, EraseUValue(q)
      PROVE  HandInv'
  BY <1>18 DEF EraseUValue, Step, queryVars, keeperVars, netVars, handVars, posVars
<1>4. ASSUME NEW q \in Queries, SetX(q)
      PROVE  HandInv'
  BY <1>4 DEF SetX, Step, queryVars, keeperVars, netVars, handVars, posVars
<1>5. ASSUME NEW q \in Queries, SetZ(q)
      PROVE  HandInv'
  BY <1>5 DEF SetZ, Step, queryVars, keeperVars, netVars, handVars, posVars
<1>6. ASSUME NEW q \in Queries, CrashFreed(q)
      PROVE  HandInv'
  BY <1>6 DEF CrashFreed, queryVars, keeperVars, netVars, handVars, posVars
<1>7. ASSUME NEW q \in Queries, NEW a \in Answers, Answer(q, a)
      PROVE  HandInv'
  BY <1>7 DEF Answer, queryVars, keeperVars, netVars, handVars, posVars
<1>8. ASSUME NEW h \in Handlers, FindNMark(h)
      PROVE  HandInv'
  BY <1>8 DEF FindNMark, Erases, queryVars, keeperVars, netVars, handVars, posVars
<1>19. ASSUME NEW h \in Handlers, EraseNMark(h)
      PROVE  HandInv'
  BY <1>19 DEF EraseNMark, queryVars, keeperVars, netVars, handVars, posVars
<1>9. ASSUME NEW h \in Handlers, SetUValue(h)
      PROVE  HandInv'
  BY <1>9 DEF SetUValue, queryVars, keeperVars, netVars, handVars, posVars
<1>10. ASSUME NEW h \in Handlers, NEW m \in arrived, OnMsg(h, m)
      PROVE  HandInv'
  BY <1>10 DEF OnMsg, queryVars, keeperVars, netVars, handVars, posVars
<1>11. ASSUME NEW m \in arrived, Garbled(m)
      PROVE  HandInv'
  BY <1>11 DEF Garbled, queryVars, keeperVars, netVars, handVars, posVars
<1>12. ASSUME NEW h \in Handlers, NEW m \in arrived, NEW n \in arrived, Misread(h, m, n)
      PROVE  HandInv'
  BY <1>12 DEF Misread, queryVars, keeperVars, netVars, handVars, posVars
<1>13. ASSUME NEW p \in Parsers, ReadX(p)
      PROVE  HandInv'
  BY <1>13 DEF ReadX, queryVars, keeperVars, netVars, handVars, posVars
<1>14. ASSUME NEW p \in Parsers, ReadZ(p)
      PROVE  HandInv'
  BY <1>14 DEF ReadZ, queryVars, keeperVars, netVars, handVars, posVars
<1>15. CASE Disconnect
  BY <1>15 DEF Disconnect, queryVars, keeperVars, netVars, handVars, posVars
<1>16. CASE MapRace
  BY <1>16 DEF MapRace, queryVars, keeperVars, netVars, handVars, posVars
<1>17. CASE UNCHANGED vars
  BY <1>17 DEF vars, queryVars, keeperVars, netVars, handVars, posVars
<1>. QED
  BY <1>1, <1>2, <1>3, <1>4, <1>5, <1>6, <1>7, <1>8, <1>9, <1>10, <1>11, <1>12, <1>13, <1>14, <1>15, <1>16, <1>17,
     <1>18, <1>19
  DEF Next, QueryStep, HandlerStep, HandOver

\* An answer that one handler found the mark of is at one place of the keeper.
LEMMA KeeperStep == TypeOK /\ HandInv /\ KeeperInv /\ [Next]_vars => KeeperInv'
<1> SUFFICES ASSUME TypeOK, HandInv, KeeperInv, [Next]_vars PROVE KeeperInv'
  OBVIOUS
<1> USE PosQueryAssumption DEF TypeOK, HandInv, KeeperInv, Stores, Erases, Answers
<1>1. ASSUME NEW q \in Queries, Send(q)
      PROVE  KeeperInv'
  BY <1>1 DEF Send, Step, queryVars, keeperVars, netVars, handVars, posVars
<1>2. ASSUME NEW q \in Queries, SetNMark(q)
      PROVE  KeeperInv'
  BY <1>2 DEF SetNMark, Step, queryVars, keeperVars, netVars, handVars, posVars
<1>3. ASSUME NEW q \in Queries, FindUValue(q)
      PROVE  KeeperInv'
  BY <1>3 DEF FindUValue, Step, queryVars, keeperVars, netVars, handVars, posVars
<1>18. ASSUME NEW q \in Queries, EraseUValue(q)
      PROVE  KeeperInv'
  BY <1>18 DEF EraseUValue, Step, queryVars, keeperVars, netVars, handVars, posVars
<1>4. ASSUME NEW q \in Queries, SetX(q)
      PROVE  KeeperInv'
  BY <1>4 DEF SetX, Step, queryVars, keeperVars, netVars, handVars, posVars
<1>5. ASSUME NEW q \in Queries, SetZ(q)
      PROVE  KeeperInv'
  BY <1>5 DEF SetZ, Step, queryVars, keeperVars, netVars, handVars, posVars
<1>6. ASSUME NEW q \in Queries, CrashFreed(q)
      PROVE  KeeperInv'
  BY <1>6 DEF CrashFreed, queryVars, keeperVars, netVars, handVars, posVars
<1>7. ASSUME NEW q \in Queries, NEW a \in Answers, Answer(q, a)
      PROVE  KeeperInv'
  BY <1>7 DEF Answer, queryVars, keeperVars, netVars, handVars, posVars
<1>8. ASSUME NEW h \in Handlers, FindNMark(h)
      PROVE  KeeperInv'
  BY <1>8 DEF FindNMark, Erases, queryVars, keeperVars, netVars, handVars, posVars
<1>19. ASSUME NEW h \in Handlers, EraseNMark(h)
      PROVE  KeeperInv'
  BY <1>19 DEF EraseNMark, queryVars, keeperVars, netVars, handVars, posVars
<1>9. ASSUME NEW h \in Handlers, SetUValue(h)
      PROVE  KeeperInv'
  BY <1>9 DEF SetUValue, queryVars, keeperVars, netVars, handVars, posVars
<1>10. ASSUME NEW h \in Handlers, NEW m \in arrived, OnMsg(h, m)
      PROVE  KeeperInv'
  BY <1>10 DEF OnMsg, queryVars, keeperVars, netVars, handVars, posVars
<1>11. ASSUME NEW m \in arrived, Garbled(m)
      PROVE  KeeperInv'
  BY <1>11 DEF Garbled, queryVars, keeperVars, netVars, handVars, posVars
<1>12. ASSUME NEW h \in Handlers, NEW m \in arrived, NEW n \in arrived, Misread(h, m, n)
      PROVE  KeeperInv'
  BY <1>12 DEF Misread, queryVars, keeperVars, netVars, handVars, posVars
<1>13. ASSUME NEW p \in Parsers, ReadX(p)
      PROVE  KeeperInv'
  BY <1>13 DEF ReadX, queryVars, keeperVars, netVars, handVars, posVars
<1>14. ASSUME NEW p \in Parsers, ReadZ(p)
      PROVE  KeeperInv'
  BY <1>14 DEF ReadZ, queryVars, keeperVars, netVars, handVars, posVars
<1>15. CASE Disconnect
  BY <1>15 DEF Disconnect, queryVars, keeperVars, netVars, handVars, posVars
<1>16. CASE MapRace
  BY <1>16 DEF MapRace, queryVars, keeperVars, netVars, handVars, posVars
<1>17. CASE UNCHANGED vars
  BY <1>17 DEF vars, queryVars, keeperVars, netVars, handVars, posVars
<1>. QED
  BY <1>1, <1>2, <1>3, <1>4, <1>5, <1>6, <1>7, <1>8, <1>9, <1>10, <1>11, <1>12, <1>13, <1>14, <1>15, <1>16, <1>17,
     <1>18, <1>19
  DEF Next, QueryStep, HandlerStep, HandOver

\* An answer that is awaited is not dropped but where missed records it.
LEMMA AwaitStep == TypeOK /\ HandInv /\ KeeperInv /\ AwaitInv /\ [Next]_vars => AwaitInv'
<1> SUFFICES ASSUME TypeOK, HandInv, KeeperInv, AwaitInv, [Next]_vars PROVE AwaitInv'
  OBVIOUS
<1> USE PosQueryAssumption DEF TypeOK, HandInv, KeeperInv, AwaitInv, OnItsWay, Stores, Holds
<1>1. ASSUME NEW q \in Queries, Send(q)
      PROVE  AwaitInv'
  BY <1>1 DEF Send, Step, queryVars, keeperVars, netVars, handVars, posVars
<1>2. ASSUME NEW q \in Queries, SetNMark(q)
      PROVE  AwaitInv'
  BY <1>2 DEF SetNMark, Step, queryVars, keeperVars, netVars, handVars, posVars
<1>3. ASSUME NEW q \in Queries, FindUValue(q)
      PROVE  AwaitInv'
  BY <1>3 DEF FindUValue, Step, queryVars, keeperVars, netVars, handVars, posVars
<1>18. ASSUME NEW q \in Queries, EraseUValue(q)
      PROVE  AwaitInv'
  BY <1>18 DEF EraseUValue, Step, queryVars, keeperVars, netVars, handVars, posVars
<1>4. ASSUME NEW q \in Queries, SetX(q)
      PROVE  AwaitInv'
  BY <1>4 DEF SetX, Step, queryVars, keeperVars, netVars, handVars, posVars
<1>5. ASSUME NEW q \in Queries, SetZ(q)
      PROVE  AwaitInv'
  BY <1>5 DEF SetZ, Step, queryVars, keeperVars, netVars, handVars, posVars
<1>6. ASSUME NEW q \in Queries, CrashFreed(q)
      PROVE  AwaitInv'
  BY <1>6 DEF CrashFreed, queryVars, keeperVars, netVars, handVars, posVars
<1>7. ASSUME NEW q \in Queries, NEW a \in Answers, Answer(q, a)
      PROVE  AwaitInv'
  <2>1. ASSUME NEW r \in Queries, OnItsWay(r)
        PROVE  OnItsWay(r)'
    <3>1. CASE r = q
      <4>1. <<q, a>> \in arrived' /\ <<q, a>>[1] = q
        BY <1>7 DEF Answer
      <4>. QED
        BY <3>1, <4>1 DEF OnItsWay
    <3>2. CASE r # q
      BY <1>7, <2>1, <3>2 DEF Answer, OnItsWay, Holds, handVars
    <3>. QED
      BY <3>1, <3>2
  <2>. QED
    BY <1>7, <2>1 DEF Answer, AwaitInv, Stores, queryVars, keeperVars, netVars, handVars, posVars
<1>8. ASSUME NEW h \in Handlers, FindNMark(h)
      PROVE  AwaitInv'
  <2> DEFINE q == hmsg[h][1]
  <2>0. q \in Queries
    BY <1>8 DEF FindNMark
  <2>1. ASSUME NEW r \in Queries, r # q, OnItsWay(r)
        PROVE  OnItsWay(r)'
    BY <1>8, <2>1 DEF FindNMark, OnItsWay, Holds, netVars
  <2>2. ASSUME NEW r \in Queries, NEW k \in Handlers, Stores(k, r)
        PROVE  Stores(k, r)'
    BY <1>8, <2>2 DEF FindNMark, Stores
  <2>3. q \in needMark => Stores(h, q)'
    BY <1>8 DEF FindNMark, Stores
  <2>4. CASE q \in needMark
    BY <1>8, <2>0, <2>1, <2>2, <2>3, <2>4 DEF FindNMark, AwaitInv, queryVars, keeperVars, netVars, handVars, posVars
  <2>5. CASE q \notin needMark
    BY <1>8, <2>0, <2>1, <2>2, <2>5 DEF FindNMark, AwaitInv, queryVars, keeperVars, netVars, handVars, posVars
  <2>. QED
    BY <2>4, <2>5
<1>19. ASSUME NEW h \in Handlers, EraseNMark(h)
      PROVE  AwaitInv'
  <2> DEFINE q == hmsg[h][1]
  <2>0. q \in Queries
    BY <1>19 DEF EraseNMark
  <2>1. ASSUME NEW r \in Queries, OnItsWay(r)
        PROVE  OnItsWay(r)'
    BY <1>19, <2>1 DEF EraseNMark, OnItsWay, Holds, netVars
  <2>2. ASSUME NEW r \in Queries, NEW k \in Handlers, Stores(k, r)
        PROVE  Stores(k, r)'
    BY <1>19, <2>2 DEF EraseNMark, Stores
  <2>3. Stores(h, q)'
    BY <1>19 DEF EraseNMark, Stores
  <2>. QED
    BY <1>19, <2>0, <2>1, <2>2, <2>3 DEF EraseNMark, AwaitInv, queryVars, netVars, posVars
<1>9. ASSUME NEW h \in Handlers, SetUValue(h)
      PROVE  AwaitInv'
  <2> DEFINE q == hmsg[h][1]
  <2>0. q \in Queries /\ wanted'[q] # NoAnswer
    BY <1>9 DEF SetUValue, Answers
  <2>1. ASSUME NEW r \in Queries, OnItsWay(r)
        PROVE  OnItsWay(r)'
    BY <1>9, <2>1 DEF SetUValue, OnItsWay, Holds, netVars
  <2>2. ASSUME NEW r \in Queries, NEW k \in Handlers, r # q, Stores(k, r)
        PROVE  Stores(k, r)'
    BY <1>9, <2>2 DEF SetUValue, Stores
  <2>3. \A r \in Queries : r # q => wanted'[r] = wanted[r]
    BY <1>9 DEF SetUValue
  <2>. QED
    BY <1>9, <2>0, <2>1, <2>2, <2>3 DEF SetUValue, AwaitInv, queryVars, keeperVars, netVars, handVars, posVars
<1>10. ASSUME NEW h \in Handlers, NEW m \in arrived, OnMsg(h, m)
      PROVE  AwaitInv'
  BY <1>10 DEF OnMsg, queryVars, keeperVars, netVars, handVars, posVars
<1>11. ASSUME NEW m \in arrived, Garbled(m)
      PROVE  AwaitInv'
  BY <1>11 DEF Garbled, queryVars, keeperVars, netVars, handVars, posVars
<1>12. ASSUME NEW h \in Handlers, NEW m \in arrived, NEW n \in arrived, Misread(h, m, n)
      PROVE  AwaitInv'
  BY <1>12 DEF Misread, queryVars, keeperVars, netVars, handVars, posVars
<1>13. ASSUME NEW p \in Parsers, ReadX(p)
      PROVE  AwaitInv'
  BY <1>13 DEF ReadX, queryVars, keeperVars, netVars, handVars, posVars
<1>14. ASSUME NEW p \in Parsers, ReadZ(p)
      PROVE  AwaitInv'
  BY <1>14 DEF ReadZ, queryVars, keeperVars, netVars, handVars, posVars
<1>15. CASE Disconnect
  BY <1>15 DEF Disconnect, queryVars, keeperVars, netVars, handVars, posVars
<1>16. CASE MapRace
  BY <1>16 DEF MapRace, queryVars, keeperVars, netVars, handVars, posVars
<1>17. CASE UNCHANGED vars
  BY <1>17 DEF vars, queryVars, keeperVars, netVars, handVars, posVars
<1>. QED
  BY <1>1, <1>2, <1>3, <1>4, <1>5, <1>6, <1>7, <1>8, <1>9, <1>10, <1>11, <1>12, <1>13, <1>14, <1>15, <1>16, <1>17,
     <1>18, <1>19
  DEF Next, QueryStep, HandlerStep, HandOver

\* The two coordinates differ only while one setPos is halfway.
LEMMA WholeStep == TypeOK /\ WholeInv /\ WholePosition /\ [Next]_vars => (WholeInv /\ WholePosition)'
<1> SUFFICES ASSUME TypeOK, WholeInv, WholePosition, [Next]_vars PROVE (WholeInv /\ WholePosition)'
  OBVIOUS
<1> USE DEF TypeOK, WholeInv, WholePosition
<1>1. ASSUME NEW q \in Queries, Send(q)
      PROVE  (WholeInv /\ WholePosition)'
  BY <1>1 DEF Send, Step, queryVars, keeperVars, netVars, handVars, posVars
<1>2. ASSUME NEW q \in Queries, SetNMark(q)
      PROVE  (WholeInv /\ WholePosition)'
  BY <1>2 DEF SetNMark, Step, queryVars, keeperVars, netVars, handVars, posVars
<1>3. ASSUME NEW q \in Queries, FindUValue(q)
      PROVE  (WholeInv /\ WholePosition)'
  BY <1>3 DEF FindUValue, Step, queryVars, keeperVars, netVars, handVars, posVars
<1>18. ASSUME NEW q \in Queries, EraseUValue(q)
      PROVE  (WholeInv /\ WholePosition)'
  BY <1>18 DEF EraseUValue, Step, queryVars, keeperVars, netVars, handVars, posVars
<1>4. ASSUME NEW q \in Queries, SetX(q)
      PROVE  (WholeInv /\ WholePosition)'
  BY <1>4 DEF SetX, Step, queryVars, keeperVars, netVars, handVars, posVars
<1>5. ASSUME NEW q \in Queries, SetZ(q)
      PROVE  (WholeInv /\ WholePosition)'
  BY <1>5 DEF SetZ, Step, queryVars, keeperVars, netVars, handVars, posVars
<1>6. ASSUME NEW q \in Queries, CrashFreed(q)
      PROVE  (WholeInv /\ WholePosition)'
  BY <1>6 DEF CrashFreed, queryVars, keeperVars, netVars, handVars, posVars
<1>7. ASSUME NEW q \in Queries, NEW a \in Answers, Answer(q, a)
      PROVE  (WholeInv /\ WholePosition)'
  BY <1>7 DEF Answer, queryVars, keeperVars, netVars, handVars, posVars
<1>8. ASSUME NEW h \in Handlers, FindNMark(h)
      PROVE  (WholeInv /\ WholePosition)'
  BY <1>8 DEF FindNMark, Erases, queryVars, keeperVars, netVars, handVars, posVars
<1>19. ASSUME NEW h \in Handlers, EraseNMark(h)
      PROVE  (WholeInv /\ WholePosition)'
  BY <1>19 DEF EraseNMark, queryVars, keeperVars, netVars, handVars, posVars
<1>9. ASSUME NEW h \in Handlers, SetUValue(h)
      PROVE  (WholeInv /\ WholePosition)'
  BY <1>9 DEF SetUValue, queryVars, keeperVars, netVars, handVars, posVars
<1>10. ASSUME NEW h \in Handlers, NEW m \in arrived, OnMsg(h, m)
      PROVE  (WholeInv /\ WholePosition)'
  BY <1>10 DEF OnMsg, queryVars, keeperVars, netVars, handVars, posVars
<1>11. ASSUME NEW m \in arrived, Garbled(m)
      PROVE  (WholeInv /\ WholePosition)'
  BY <1>11 DEF Garbled, queryVars, keeperVars, netVars, handVars, posVars
<1>12. ASSUME NEW h \in Handlers, NEW m \in arrived, NEW n \in arrived, Misread(h, m, n)
      PROVE  (WholeInv /\ WholePosition)'
  BY <1>12 DEF Misread, queryVars, keeperVars, netVars, handVars, posVars
<1>13. ASSUME NEW p \in Parsers, ReadX(p)
      PROVE  (WholeInv /\ WholePosition)'
  BY <1>13 DEF ReadX, queryVars, keeperVars, netVars, handVars, posVars
<1>14. ASSUME NEW p \in Parsers, ReadZ(p)
      PROVE  (WholeInv /\ WholePosition)'
  BY <1>14 DEF ReadZ, queryVars, keeperVars, netVars, handVars, posVars
<1>15. CASE Disconnect
  BY <1>15 DEF Disconnect, queryVars, keeperVars, netVars, handVars, posVars
<1>16. CASE MapRace
  BY <1>16 DEF MapRace, queryVars, keeperVars, netVars, handVars, posVars
<1>17. CASE UNCHANGED vars
  BY <1>17 DEF vars, queryVars, keeperVars, netVars, handVars, posVars
<1>. QED
  BY <1>1, <1>2, <1>3, <1>4, <1>5, <1>6, <1>7, <1>8, <1>9, <1>10, <1>11, <1>12, <1>13, <1>14, <1>15, <1>16, <1>17,
     <1>18, <1>19
  DEF Next, QueryStep, HandlerStep, HandOver

-----------------------------------------------------------------------------
\* The conjunction of the invariants is inductive: answers, marks and coordinates
\* agree in every reachable state.
THEOREM Safe == Spec => []SafeInv
<1>1. SafeInv /\ [Next]_vars => SafeInv'
  BY TypeStep, HandStep, KeeperStep, AwaitStep, WholeStep DEF SafeInv
<1>. QED
  BY InitSafe, <1>1, PTL DEF Spec

\* Whatever queries, handlers, parsers and the network do, the variables keep
\* their types.
THEOREM TypeCorrect == Spec => []TypeOK
BY Safe, PTL DEF SafeInv

\* A mark or an answer is kept only for a query that polls for it: the maps of
\* fbsynckeeper.cpp do not grow, but by an answer whose mark two handlers found
\* before one of them erased it.
THEOREM NothingKept == Spec => []KeeperClean
<1>1. SafeInv => KeeperClean
  BY DEF SafeInv, KeeperInv, KeeperClean
<1>. QED
  BY <1>1, Safe, PTL

\* A query that polls has its answer stored or on its way, unless the mark came
\* too late, the hand-over lost the answer, or the client left.
THEOREM AnswerComes == Spec => []StillAwaited
<1>1. ASSUME TypeOK, NEW q \in Queries, OnItsWay(q)
      PROVE  \/ q \in asked
             \/ \E a \in Answers : <<q, a>> \in arrived
             \/ \E h \in Handlers : Holds(h, q)
  <2>1. ASSUME NEW m \in arrived, m[1] = q
        PROVE  \E a \in Answers : <<q, a>> \in arrived
    <3>1. m = <<q, m[2]>> /\ m[2] \in Answers
      BY <1>1, <2>1 DEF TypeOK
    <3>. QED
      BY <3>1
  <2>. QED
    BY <1>1, <2>1 DEF OnItsWay
<1>2. SafeInv => StillAwaited
  BY <1>1 DEF SafeInv, AwaitInv, StillAwaited
<1>. QED
  BY <1>2, Safe, PTL

\* A command is built around a position that was reported, unless a setPos ran
\* beside another one or beside its parse (argv.cpp:78-91).
THEOREM PositionIsWhole == Spec => []WholePosition
BY Safe, PTL DEF SafeInv
=============================================================================
