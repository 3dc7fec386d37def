------------------------------ MODULE PosQuery ------------------------------
(***************************************************************************)
(* "-get pos": a handler thread asks the client for its position with      *)
(* sendCommandSync (main.cpp) and polls the keeper of core/fbsynckeeper.cpp *)
(* until the answer is there; another thread, which handles the answer,    *)
(* finds the mark of its uuid and stores the message.  The position goes,  *)
(* coordinate by coordinate, to globalPos (core/argv.cpp), which every     *)
(* command of every session reads when it is parsed.                       *)
(*                                                                         *)
(* The keeper's maps and globalPos are not locked.  A find and the erase   *)
(* that follows it are two steps.  Accesses to one map at the same time,   *)
(* one of them a change, take effect one after the other or crash the      *)
(* process.                                                                *)
(***************************************************************************)
EXTENDS Naturals, FiniteSets

CONSTANTS
    Queries,     \* threads of a "-get pos", each with the uuid of its command
    Handlers,    \* threads that handle answers
    Parsers,     \* threads that parse a command
    Positions,   \* positions a client may report
    Zero,        \* the position 0,0,0
    Failure,     \* an answer whose messagePurpose is "error"
    NoAnswer, NoQuery,
    MaxMisreads  \* bound: answers a thread reads in place of its own

ASSUME PosQueryAssumption ==
    /\ MaxMisreads \in Nat
    /\ Zero \notin Positions /\ Failure \notin Positions \cup {Zero}
    /\ NoAnswer \notin Positions \cup {Zero, Failure}
    /\ NoQuery \notin Queries

VARIABLES
    up,          \* the process runs
    open,        \* the client is connected
    pc,          \* where each query is
    got,         \* the message sendCommandSync returned
    needMark,    \* the uuids marked
    wanted,      \* wantedUUIDMap
    asked,       \* queries the client has received and not answered
    arrived,     \* answers <<query, answer>> the loop thread has not handed over
    hpc,         \* where each handler of an answer is
    hmsg,        \* the answer it handles
    globalPos,   \* globalPos.x and .z, each the coordinate of some position
    ppc,         \* where each parser is
    parsed,      \* the x and z it has read
    misreads,    \* history: hand-overs of another answer
    missed,      \* history: queries whose answer came before the mark or was
                 \* lost, or whose client went away
    twice,       \* history: queries whose mark a second handler found before
                 \* the first had erased it
    overlap,     \* history: two setPos ran at the same time
    raced        \* history: parsers whose reads a setPos ran between

queryVars  == <<pc, got>>
keeperVars == <<needMark, wanted>>
netVars    == <<open, asked, arrived>>
handVars   == <<hpc, hmsg, misreads, twice>>
posVars    == <<globalPos, ppc, parsed, overlap, raced>>
vars == <<up, queryVars, keeperVars, netVars, handVars, posVars, missed>>

Answers == Positions \cup {Failure}
Coords == Positions \cup {Zero}
QueryPcs == {"send", "mark", "poll", "take", "setx", "setz", "done"}
HandlerPcs == {"idle", "look", "erase", "store"}
ParserPcs == {"x", "z", "parsed"}
NoMsg == <<NoQuery, NoAnswer>>

\* handler h has found the mark of q and not erased it yet
Erases(h, q) == hpc[h] = "erase" /\ hmsg[h][1] = q

Step(q, from, to) == up /\ pc[q] = from /\ pc' = [pc EXCEPT ![q] = to]

Init ==
    /\ up = TRUE /\ open = TRUE
    /\ pc = [q \in Queries |-> "send"]
    /\ got = [q \in Queries |-> NoAnswer]
    /\ needMark = {}
    /\ wanted = [q \in Queries |-> NoAnswer]
    /\ asked = {} /\ arrived = {}
    /\ hpc = [h \in Handlers |-> "idle"]
    /\ hmsg = [h \in Handlers |-> NoMsg]
    /\ globalPos = [x |-> Zero, z |-> Zero]
    /\ ppc = [p \in Parsers |-> "x"]
    /\ parsed = [p \in Parsers |-> [x |-> Zero, z |-> Zero]]
    /\ misreads = 0
    /\ missed = {} /\ twice = {}
    /\ overlap = FALSE /\ raced = {}

-----------------------------------------------------------------------------
(* sendCommandSync: send, setNMark, then getUValue until it is not "" *)

Send(q) ==
    /\ Step(q, "send", "mark")
    /\ asked' = IF open THEN asked \cup {q} ELSE asked
    /\ missed' = IF open THEN missed ELSE missed \cup {q}
    /\ UNCHANGED <<up, got, keeperVars, open, arrived, handVars, posVars>>

SetNMark(q) ==
    /\ Step(q, "mark", "poll")
    /\ needMark' = needMark \cup {q}
    /\ UNCHANGED <<up, got, wanted, netVars, handVars, posVars, missed>>

\* getUValue finds a value and copies it, then erases what is under the uuid.
FindUValue(q) ==
    /\ Step(q, "poll", "take")
    /\ wanted[q] # NoAnswer
    /\ got' = [got EXCEPT ![q] = wanted[q]]
    /\ UNCHANGED <<up, keeperVars, netVars, handVars, posVars, missed>>

EraseUValue(q) ==
    /\ Step(q, "take", "setx")
    /\ wanted' = [wanted EXCEPT ![q] = NoAnswer]
    /\ UNCHANGED <<up, got, needMark, netVars, handVars, posVars, missed>>

\* Slip: the answer's own value is stored, whatever it is.
PositionRaw(a) == a

\* builder parses the message: asInt of body.position, which an error message
\* does not have; a missing position is 0,0,0
Position(a) == IF a = Failure THEN Zero ELSE a

\* "Position got: ..."; argInput::setPos writes one coordinate after the other
SetX(q) ==
    /\ Step(q, "setx", "setz")
    /\ globalPos' = [globalPos EXCEPT !.x = Position(got[q])]
    /\ overlap' = (overlap \/ \E r \in Queries \ {q} : pc[r] = "setz")
    /\ raced' = raced \cup {p \in Parsers : ppc[p] = "z"}
    /\ UNCHANGED <<up, got, keeperVars, netVars, handVars, ppc, parsed, missed>>

\* Slip: one coordinate is left out.
SetZNever(q) ==
    /\ Step(q, "setz", "done")
    /\ UNCHANGED <<up, got, keeperVars, netVars, handVars, posVars, missed>>

SetZ(q) ==
    /\ Step(q, "setz", "done")
    /\ globalPos' = [globalPos EXCEPT !.z = Position(got[q])]
    /\ UNCHANGED <<up, got, keeperVars, netVars, handVars, ppc, parsed, overlap,
                   raced, missed>>

-----------------------------------------------------------------------------
(* The client, and the hand-over of its answers *)

Answer(q, a) ==
    /\ up /\ open /\ q \in asked
    /\ asked' = asked \ {q}
    /\ arrived' = arrived \cup {<<q, a>>}
    /\ UNCHANGED <<up, queryVars, keeperVars, open, handVars, posVars, missed>>

\* The client goes away; the threads that wait for it stay.
Disconnect ==
    /\ up /\ open
    /\ open' = FALSE
    /\ asked' = {}
    /\ missed' = missed \cup asked
    /\ UNCHANGED <<up, queryVars, keeperVars, arrived, handVars, posVars>>

OnMsg(h, m) ==
    /\ up /\ hpc[h] = "idle" /\ m \in arrived
    /\ arrived' = arrived \ {m}
    /\ hpc' = [hpc EXCEPT ![h] = "look"]
    /\ hmsg' = [hmsg EXCEPT ![h] = m]
    /\ UNCHANGED <<up, queryVars, keeperVars, open, asked, misreads, twice,
                   posVars, missed>>

\* The thread finds nothing it can parse (core/fbws.cpp:63-64).
Garbled(m) ==
    /\ up /\ m \in arrived
    /\ arrived' = arrived \ {m}
    /\ missed' = missed \cup {m[1]}
    /\ UNCHANGED <<up, queryVars, keeperVars, open, asked, handVars,
                   posVars>>

\* The thread of answer m reads the later answer n, which has a thread as well.
Misread(h, m, n) ==
    /\ misreads < MaxMisreads
    /\ up /\ hpc[h] = "idle" /\ {m, n} \subseteq arrived /\ m # n
    /\ arrived' = arrived \ {m}
    /\ hpc' = [hpc EXCEPT ![h] = "look"]
    /\ hmsg' = [hmsg EXCEPT ![h] = n]
    /\ misreads' = misreads + 1
    /\ missed' = missed \cup {m[1]}
    /\ UNCHANGED <<up, queryVars, keeperVars, open, asked, twice, posVars>>

-----------------------------------------------------------------------------
(* FastBuilderSession::onMsg: if(getNMark(requestId)) setUValue(...) *)

\* Slip: an error message is looked at before the mark and ends the handler.
FindNMarkErrorFirst(h) ==
    LET q == hmsg[h][1]
        stores == q \in needMark /\ hmsg[h][2] # Failure
    IN
    /\ up /\ hpc[h] = "look"
    /\ hpc' = [hpc EXCEPT ![h] = IF stores THEN "erase" ELSE "idle"]
    /\ hmsg' = IF stores THEN hmsg ELSE [hmsg EXCEPT ![h] = NoMsg]
    /\ missed' = IF q \notin needMark /\ pc[q] = "mark" THEN missed \cup {q} ELSE missed
    /\ UNCHANGED <<up, queryVars, keeperVars, netVars, misreads, twice, posVars>>

\* getNMark looks for the mark.  An error message of a command that was sent
\* with a uuid is resent by nobody.
FindNMark(h) ==
    LET q == hmsg[h][1] IN
    /\ up /\ hpc[h] = "look"
    /\ \/ /\ q \in needMark
          /\ hpc' = [hpc EXCEPT ![h] = "erase"]
          /\ twice' = IF \E k \in Handlers : Erases(k, q) THEN twice \cup {q} ELSE twice
          /\ UNCHANGED <<hmsg, missed>>
       \/ /\ q \notin needMark
          /\ hpc' = [hpc EXCEPT ![h] = "idle"]
          /\ hmsg' = [hmsg EXCEPT ![h] = NoMsg]
          /\ missed' = IF pc[q] = "mark" THEN missed \cup {q} ELSE missed
          /\ UNCHANGED twice
    /\ UNCHANGED <<up, queryVars, keeperVars, netVars, misreads, posVars>>

\* Slip: the mark stays, as in the line commented out at
\* core/fbsynckeeper.cpp:26.
EraseNMarkNot(h) ==
    /\ up /\ hpc[h] = "erase"
    /\ hpc' = [hpc EXCEPT ![h] = "store"]
    /\ UNCHANGED <<up, queryVars, keeperVars, netVars, hmsg, misreads, twice,
                   posVars, missed>>

\* needMark.erase(a), found or not by then; getNMark returns true
EraseNMark(h) ==
    /\ up /\ hpc[h] = "erase"
    /\ needMark' = needMark \ {hmsg[h][1]}
    /\ hpc' = [hpc EXCEPT ![h] = "store"]
    /\ UNCHANGED <<up, queryVars, wanted, netVars, hmsg, misreads, twice, posVars,
                   missed>>

SetUValue(h) ==
    /\ up /\ hpc[h] = "store"
    /\ wanted' = [wanted EXCEPT ![hmsg[h][1]] = hmsg[h][2]]
    /\ hpc' = [hpc EXCEPT ![h] = "idle"]
    /\ hmsg' = [hmsg EXCEPT ![h] = NoMsg]
    /\ UNCHANGED <<up, queryVars, needMark, netVars, misreads, twice, posVars, missed>>

\* where a thread is in needMark or in wantedUUIDMap, and what changes them
MarkPlaces == {"mark", "look", "erase"}
ValuePlaces == {"poll", "take", "store"}
Changes == {"mark", "erase", "take", "store"}
Place(t) == IF t \in Queries THEN pc[t] ELSE hpc[t]

\* Two threads are in the same map, and one of them changes it.
MapRace ==
    /\ up
    /\ \E S \in {MarkPlaces, ValuePlaces}, t, u \in Queries \cup Handlers :
          t # u /\ {Place(t), Place(u)} \subseteq S /\ Place(t) \in Changes
    /\ up' = FALSE
    /\ UNCHANGED <<queryVars, keeperVars, netVars, handVars, posVars, missed>>

\* The query sends on a session that was freed while it waited or before.
CrashFreed(q) ==
    /\ up /\ ~open /\ pc[q] \in {"send", "setx"}
    /\ up' = FALSE
    /\ UNCHANGED <<queryVars, keeperVars, netVars, handVars, posVars, missed>>

-----------------------------------------------------------------------------
(* argInput::argInput: x=globalPos.x, ..., z=globalPos.z *)

ReadX(p) ==
    /\ up /\ ppc[p] = "x"
    /\ ppc' = [ppc EXCEPT ![p] = "z"]
    /\ parsed' = [parsed EXCEPT ![p].x = globalPos.x]
    /\ raced' = IF \E q \in Queries : pc[q] = "setz" THEN raced \cup {p} ELSE raced
    /\ UNCHANGED <<up, queryVars, keeperVars, netVars, handVars, globalPos,
                   overlap, missed>>

ReadZ(p) ==
    /\ up /\ ppc[p] = "z"
    /\ ppc' = [ppc EXCEPT ![p] = "parsed"]
    /\ parsed' = [parsed EXCEPT ![p].z = globalPos.z]
    /\ UNCHANGED <<up, queryVars, keeperVars, netVars, handVars, globalPos,
                   overlap, raced, missed>>

-----------------------------------------------------------------------------
QueryStep(q) ==
    \/ Send(q) \/ SetNMark(q) \/ FindUValue(q) \/ EraseUValue(q)
    \/ SetX(q) \/ SetZ(q)
HandlerStep(h) == FindNMark(h) \/ EraseNMark(h) \/ SetUValue(h)
HandOver == \E m \in arrived : Garbled(m) \/ \E h \in Handlers : OnMsg(h, m)

Next ==
    \/ \E q \in Queries : QueryStep(q) \/ CrashFreed(q)
    \/ \E q \in Queries, a \in Answers : Answer(q, a)
    \/ \E h \in Handlers : HandlerStep(h)
    \/ HandOver
    \/ \E h \in Handlers, m, n \in arrived : Misread(h, m, n)
    \/ \E p \in Parsers : ReadX(p) \/ ReadZ(p)
    \/ Disconnect \/ MapRace

Spec == Init /\ [][Next]_vars

-----------------------------------------------------------------------------
(* Properties *)

TypeOK ==
    /\ up \in BOOLEAN /\ open \in BOOLEAN
    /\ pc \in [Queries -> QueryPcs]
    /\ got \in [Queries -> Answers \cup {NoAnswer}]
    /\ needMark \subseteq Queries
    /\ wanted \in [Queries -> Answers \cup {NoAnswer}]
    /\ asked \subseteq Queries
    /\ arrived \subseteq Queries \X Answers
    /\ hpc \in [Handlers -> HandlerPcs]
    /\ hmsg \in [Handlers -> (Queries \X Answers) \cup {NoMsg}]
    /\ globalPos \in [x : Coords, z : Coords]
    /\ ppc \in [Parsers -> ParserPcs]
    /\ parsed \in [Parsers -> [x : Coords, z : Coords]]
    /\ misreads \in 0..MaxMisreads
    /\ missed \subseteq Queries /\ twice \subseteq Queries
    /\ overlap \in BOOLEAN
    /\ raced \subseteq Parsers

Holds(h, q) == hpc[h] = "look" /\ hmsg[h][1] = q
Stores(h, q) == hpc[h] \in {"erase", "store"} /\ hmsg[h][1] = q

\* Neither map keeps an entry of a query that has returned, even when two threads
\* handled the same answer: what is marked or stored has somebody who waits for
\* it.  Nothing but the second of two handlers that found the mark together can
\* leave an entry behind, and then in wantedUUIDMap (main.cpp:238-240,
\* core/fbsynckeeper.cpp:9-39).
KeeperClean ==
    \A q \in Queries :
        /\ q \in needMark => pc[q] = "poll"
        /\ wanted[q] # NoAnswer => pc[q] \in {"poll", "take"} \/ q \in twice

\* A query that polls gets an answer unless it came before setNMark, was lost on
\* the way to its thread, or the client left: the answer is stored, is about to
\* be, or is on its way and will find the mark (sendCommandSync, main.cpp:185-193).
StillAwaited ==
    \A q \in Queries : up /\ pc[q] = "poll" /\ q \notin missed =>
        \/ wanted[q] # NoAnswer
        \/ \E h \in Handlers : Stores(h, q)
        \/ /\ q \in needMark
           /\ \/ q \in asked
              \/ \E a \in Answers : <<q, a>> \in arrived
              \/ \E h \in Handlers : Holds(h, q)

\* A command is parsed with the coordinates of one position, unless a setPos ran
\* between its reads or two setPos ran at once (core/argv.cpp:78-91).
WholePosition ==
    \A p \in Parsers :
        ppc[p] = "parsed" /\ p \notin raced /\ ~overlap => parsed[p].x = parsed[p].z

\* Threads run, the loop thread hands over what has arrived, and a client that
\* stays answers.
Fairness ==
    /\ \A q \in Queries : WF_vars(QueryStep(q))
    /\ \A q \in Queries : WF_vars(\E a \in Answers : Answer(q, a))
    /\ \A h \in Handlers : WF_vars(HandlerStep(h))
    /\ WF_vars(HandOver)

FairSpec == Spec /\ Fairness

\* A "-get pos" comes to its end, unless its answer came too early or was lost,
\* the client left, or the process crashed (sendCommandSync, main.cpp:185-193).
QueriesEnd ==
    \A q \in Queries : pc[q] = "send" ~> (pc[q] = "done" \/ q \in missed \/ ~up)
=============================================================================
