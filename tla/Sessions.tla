------------------------------ MODULE Sessions ------------------------------
(***************************************************************************)
(* From a websocket to its FastBuilderSession.  The loop thread starts a   *)
(* thread for every connection, which constructs the session and enters it *)
(* into FBSMap, and one for every message, which reads the message through *)
(* a pointer to a local of the loop thread and looks the session up        *)
(* (core/fbws.cpp, main.cpp:267-293).  Closing runs on the loop thread;    *)
(* SIGINT interrupts it and destroys everything (main.cpp:116-127, 303).   *)
(*                                                                         *)
(* Sessions are named by the connection they were built for.  FBSMap is    *)
(* not locked: two accesses at the same time, one of them a write, take    *)
(* effect one after the other or crash the process (MapRace).  What a      *)
(* handler does with a session it holds is BuildJobs.                      *)
(***************************************************************************)
EXTENDS Naturals, FiniteSets

CONSTANTS
    Conns,      \* connections, and the session built for each
    Addrs,      \* addresses of websockets, used again after a close
    Null,       \* the null pointer operator[] enters into FBSMap
    Absent,     \* no entry
    Wild,       \* an address read from a stack slot that was overwritten
    Unread,
    MaxMsgs     \* bound: messages received

ASSUME SessionsAssumption ==
    /\ {Null, Absent} \cap Conns = {} /\ Null # Absent
    /\ {Wild, Unread, Absent} \cap Addrs = {} /\ Wild # Unread
    /\ MaxMsgs \in Nat

VARIABLES
    gone,           \* "no", "crash" or "quit": how the process ended
    shutting_down,
    FBSMap,         \* per address: a session, Null or Absent
    conn, addr,     \* per connection: "new", "open" or "closed", its address
    cpc,            \* where the thread of onConnection is
    deletions,      \* history: how often each session was constructed and deleted
    loop,           \* what the loop thread is doing, and for which address
    visited,        \* entries ~FastBuilder has gone through
    sent, from,     \* number of messages received, connection of each
    slot,           \* the local pair: address, and the text its view leads to
    mpc, got, held, \* per message: its thread, what it read, its session
    overtaken,      \* history: addresses with a close before the session's entry
    cut             \* history: session whose entry SIGINT kept from being erased

connVars == <<conn, addr, cpc>>
msgVars  == <<sent, from, slot, mpc, got, held>>
mapVars  == <<FBSMap, deletions>>
endVars  == <<shutting_down, visited, cut>>
vars == <<gone, connVars, mapVars, loop, msgVars, overtaken, endVars>>

Msgs == 1 .. MaxMsgs
Garbled == 0
Junk == [sock |-> Wild, text |-> Garbled]
LoopPcs == {"idle", "find", "kill", "delete", "erase", "destroy"}
NothingRead == [sock |-> Unread, text |-> Unread]
At(p, a) == [at |-> p, ws |-> a]

Init ==
    /\ gone = "no" /\ shutting_down = FALSE
    /\ FBSMap = [a \in Addrs |-> Absent]
    /\ conn = [c \in Conns |-> "new"]
    /\ addr = [c \in Conns |-> Absent]
    /\ cpc = [c \in Conns |-> "none"]
    /\ deletions = [c \in Conns |-> [made |-> 0, freed |-> 0]]
    /\ loop = At("idle", Absent)
    /\ visited = {}
    /\ sent = 0 /\ from = [m \in Msgs |-> Absent]
    /\ slot = Junk
    /\ mpc = [m \in Msgs |-> "none"]
    /\ got = [m \in Msgs |-> NothingRead]
    /\ held = [m \in Msgs |-> Absent]
    /\ overtaken = {} /\ cut = Absent

Live(c) == deletions[c].made > deletions[c].freed
Idle == gone = "no" /\ loop.at = "idle"
LoopStep(p, q) == gone = "no" /\ loop.at = p /\ loop' = [loop EXCEPT !.at = q]
ConnStep(c, p, q) == gone = "no" /\ cpc[c] = p /\ cpc' = [cpc EXCEPT ![c] = q]
MsgStep(m, p, q) == gone = "no" /\ mpc[m] = p /\ mpc' = [mpc EXCEPT ![m] = q]

-----------------------------------------------------------------------------
(* The loop thread's open handler and the thread it starts *)

Open(c) ==
    /\ Idle /\ conn[c] = "new"
    /\ \E a \in Addrs :
        /\ \A d \in Conns : conn[d] = "open" => addr[d] # a
        /\ addr' = [addr EXCEPT ![c] = a]
    /\ conn' = [conn EXCEPT ![c] = "open"]
    /\ ConnStep(c, "none", "check")
    /\ UNCHANGED <<gone, mapVars, loop, msgVars, overtaken, endVars>>

\* closews, by whom ever: the close handler runs at once and returns at its
\* test of shutting_down
CloseWs(a) == conn' = [c \in Conns |->
    IF conn[c] = "open" /\ addr[c] = a THEN "closed" ELSE conn[c]]

OnConnection(c) ==
    /\ \/ /\ ~shutting_down /\ ConnStep(c, "check", "new")
          /\ UNCHANGED conn
       \/ /\ shutting_down /\ ConnStep(c, "check", "done")
          /\ CloseWs(addr[c])
    /\ UNCHANGED <<gone, addr, mapVars, loop, msgVars, overtaken, endVars>>

\* It subscribes and says hello: on a socket that was closed meanwhile this may
\* be the end (Crash).
FastBuilderSession(c) ==
    /\ ConnStep(c, "new", "insert")
    /\ deletions' = [deletions EXCEPT ![c].made = @ + 1]
    /\ UNCHANGED <<gone, conn, addr, FBSMap, loop, msgVars, overtaken, endVars>>

\* operator[] enters a null pointer, the assignment replaces it
Insert(c) ==
    /\ ConnStep(c, "insert", "assign")
    /\ FBSMap' = [FBSMap EXCEPT ![addr[c]] = IF @ = Absent THEN Null ELSE @]
    /\ UNCHANGED <<gone, conn, addr, deletions, loop, msgVars, overtaken, endVars>>

Assign(c) ==
    /\ ConnStep(c, "assign", "done")
    /\ FBSMap' = [FBSMap EXCEPT ![addr[c]] = c]
    /\ UNCHANGED <<gone, conn, addr, deletions, loop, msgVars, overtaken, endVars>>

-----------------------------------------------------------------------------
(* A message *)

\* Slip: the pair is a static variable and keeps its first value.
RecvStatic(c) ==
    LET m == sent + 1 IN
    /\ Idle /\ conn[c] = "open" /\ sent < MaxMsgs
    /\ sent' = m
    /\ from' = [from EXCEPT ![m] = c]
    /\ slot' = IF sent = 0 THEN [sock |-> addr[c], text |-> m] ELSE slot
    /\ MsgStep(m, "none", "take")
    /\ UNCHANGED <<gone, connVars, mapVars, loop, got, held, overtaken, endVars>>

\* The pair is stored, then the thread is started; its text is a view of the
\* receive buffer.
Recv(c) ==
    LET m == sent + 1 IN
    /\ Idle /\ conn[c] = "open" /\ sent < MaxMsgs
    /\ sent' = m
    /\ from' = [from EXCEPT ![m] = c]
    /\ slot' = [sock |-> addr[c], text |-> m]
    /\ MsgStep(m, "none", "take")
    /\ UNCHANGED <<gone, connVars, mapVars, loop, got, held, overtaken, endVars>>

\* The lambda has returned: other frames use its stack, other reads its buffer.
Overwrite ==
    /\ Idle
    /\ slot' \in {Junk, [slot EXCEPT !.text = Garbled]} \ {slot}
    /\ UNCHANGED <<gone, connVars, mapVars, loop, sent, from, mpc, got, held,
                   overtaken, endVars>>

Reads(m, g) ==
    /\ MsgStep(m, "take", IF Unread \in {g.sock, g.text} THEN "take" ELSE "find")
    /\ got' = [got EXCEPT ![m] = g]
    /\ UNCHANGED <<gone, connVars, mapVars, loop, sent, from, slot, held,
                   overtaken, endVars>>

\* The two arguments of onMsg, evaluated in either order
ReadSock(m) ==
    /\ got[m].sock = Unread
    /\ Reads(m, [got[m] EXCEPT !.sock = slot.sock])

ReadText(m) ==
    /\ got[m].text = Unread
    /\ Reads(m, [got[m] EXCEPT !.text = slot.text])

Known(a) == a \in Addrs /\ FBSMap[a] # Absent

Find(m) ==
    /\ \/ /\ ~shutting_down /\ Known(got[m].sock)
          /\ MsgStep(m, "find", "index")
          /\ UNCHANGED got
       \/ /\ shutting_down \/ ~Known(got[m].sock)
          /\ MsgStep(m, "find", "done")
          /\ got' = [got EXCEPT ![m] = NothingRead]
    /\ UNCHANGED <<gone, connVars, mapVars, loop, sent, from, slot, held,
                   overtaken, endVars>>

\* FBSMap[cSock] looks a second time: an entry erased since the first comes
\* back, as a null pointer.
Index(m) ==
    LET a == got[m].sock IN
    /\ MsgStep(m, "index", "handle")
    /\ FBSMap' = [FBSMap EXCEPT ![a] = IF @ = Absent THEN Null ELSE @]
    /\ held' = [held EXCEPT ![m] = FBSMap'[a]]
    /\ UNCHANGED <<gone, connVars, deletions, loop, sent, from, slot, got,
                   overtaken, endVars>>

\* A text that does not parse is dropped before the session is looked at.
Handle(m) ==
    /\ MsgStep(m, "handle", "done")
    /\ gone' = IF held[m] = Null /\ got[m].text # Garbled THEN "crash" ELSE "no"
    /\ got' = [got EXCEPT ![m] = NothingRead]
    /\ held' = [held EXCEPT ![m] = Absent]
    /\ UNCHANGED <<connVars, mapVars, loop, sent, from, slot, overtaken, endVars>>

-----------------------------------------------------------------------------
(* The close handler on the loop thread: FastBuilder_Z____Disconnection *)

Close(c) ==
    /\ Idle /\ conn[c] = "open"
    /\ conn' = [conn EXCEPT ![c] = "closed"]
    /\ loop' = At("find", addr[c])
    /\ overtaken' = IF cpc[c] = "done" THEN overtaken ELSE overtaken \cup {addr[c]}
    /\ UNCHANGED <<gone, addr, cpc, mapVars, msgVars, endVars>>

CloseFind ==
    /\ LoopStep("find", IF Known(loop.ws) THEN "kill" ELSE "idle")
    /\ UNCHANGED <<gone, connVars, mapVars, msgVars, overtaken, endVars>>

\* killbusy of a null pointer reads busy at the address it has in an object.
CloseKill ==
    /\ LoopStep("kill", "delete")
    /\ gone' = IF FBSMap[loop.ws] = Null THEN "crash" ELSE "no"
    /\ UNCHANGED <<connVars, mapVars, msgVars, overtaken, endVars>>

Freed(e) == IF e \in Conns THEN [deletions EXCEPT ![e].freed = @ + 1] ELSE deletions

\* Slip: the entry is erased first; FBSMap[ws] is then a null pointer.
CloseDeleteErased ==
    /\ LoopStep("delete", "erase")
    /\ FBSMap' = [FBSMap EXCEPT ![loop.ws] = Null]
    /\ CloseWs(loop.ws)
    /\ UNCHANGED <<gone, addr, cpc, deletions, msgVars, overtaken, endVars>>

CloseDelete ==
    /\ LoopStep("delete", "erase")
    /\ deletions' = Freed(FBSMap[loop.ws])
    /\ CloseWs(loop.ws)
    /\ UNCHANGED <<gone, addr, cpc, FBSMap, msgVars, overtaken, endVars>>

\* Slip: the entry stays.
CloseEraseNot ==
    /\ LoopStep("erase", "idle")
    /\ UNCHANGED <<gone, connVars, mapVars, msgVars, overtaken, endVars>>

CloseErase ==
    /\ LoopStep("erase", "idle")
    /\ FBSMap' = [FBSMap EXCEPT ![loop.ws] = Absent]
    /\ UNCHANGED <<gone, connVars, deletions, msgVars, overtaken, endVars>>

-----------------------------------------------------------------------------
(* SIGINT is delivered to the main thread, which is the loop thread, between *)
(* any two of its steps; ~FastBuilder deletes session after session, and the *)
(* process exits.                                                            *)

Interrupt ==
    /\ gone = "no" /\ ~shutting_down
    /\ shutting_down' = TRUE
    /\ cut' = IF loop.at = "erase" THEN FBSMap[loop.ws] ELSE cut
    /\ loop' = At("destroy", Absent)
    /\ UNCHANGED <<gone, connVars, mapVars, msgVars, overtaken, visited>>

\* Slip: the close handler, which closews enters, does not test shutting_down
\* and deletes the session, too.
DestroyTwice(a) ==
    /\ LoopStep("destroy", "destroy")
    /\ Known(a) /\ a \notin visited
    /\ visited' = visited \cup {a}
    /\ deletions' = IF FBSMap[a] \in Conns
        THEN [deletions EXCEPT ![FBSMap[a]].freed = @ + 2] ELSE deletions
    /\ CloseWs(a)
    /\ UNCHANGED <<gone, addr, cpc, FBSMap, msgVars, overtaken, shutting_down, cut>>

Destroy(a) ==
    /\ LoopStep("destroy", "destroy")
    /\ Known(a) /\ a \notin visited
    /\ visited' = visited \cup {a}
    /\ deletions' = Freed(FBSMap[a])
    /\ CloseWs(a)
    /\ UNCHANGED <<gone, addr, cpc, FBSMap, msgVars, overtaken, shutting_down, cut>>

Quit ==
    /\ LoopStep("destroy", "destroy")
    /\ \A a \in Addrs : Known(a) => a \in visited
    /\ gone' = "quit"
    /\ UNCHANGED <<connVars, mapVars, msgVars, overtaken, endVars>>

-----------------------------------------------------------------------------
(* Undefined behaviour that ends the process: sh prints the stack and exits. *)

\* Threads about to write and to read FBSMap
Writers == {<<"c", c>> : c \in {d \in Conns : cpc[d] \in {"insert", "assign"}}}
    \cup {<<"m", m>> : m \in {n \in Msgs : mpc[n] = "index"}}
    \cup {<<"l", l>> : l \in {loop.at} \cap {"erase"}}
Readers == {<<"m", m>> : m \in {n \in Msgs : mpc[n] = "find"}}
    \cup {<<"l", l>> : l \in {loop.at} \cap {"find", "kill", "delete", "destroy"}}

MapRace == \E w \in Writers : Writers \cup Readers # {w}

\* A session constructed on a closed socket; a pair read from an overwritten
\* slot; a handler whose session was deleted; and, during shutdown, a handler
\* that uses algorithms, which goes first, or FBSMap, which goes last.
SendClosed == \E c \in Conns : cpc[c] = "new" /\ conn[c] = "closed"
WildRead == \E m \in Msgs : mpc[m] = "take" /\ slot = Junk
DanglingSession == \E m \in Msgs :
    mpc[m] = "handle" /\ held[m] \in Conns /\ ~Live(held[m])
Destroyed ==
    /\ shutting_down
    /\ \/ \E m \in Msgs : mpc[m] = "handle"
       \/ /\ \A a \in Addrs : Known(a) => a \in visited
          /\ Writers \cup Readers # {<<"l", "destroy">>}

sh ==
    /\ gone = "no"
    /\ MapRace \/ SendClosed \/ WildRead \/ DanglingSession \/ Destroyed
    /\ gone' = "crash"
    /\ UNCHANGED <<connVars, mapVars, loop, msgVars, overtaken, endVars>>

Next ==
    \/ \E c \in Conns :
        \/ Open(c) \/ OnConnection(c) \/ FastBuilderSession(c) \/ Insert(c) \/ Assign(c)
        \/ Recv(c) \/ Close(c)
    \/ \E m \in Msgs : ReadSock(m) \/ ReadText(m) \/ Find(m) \/ Index(m) \/ Handle(m)
    \/ Overwrite
    \/ CloseFind \/ CloseKill \/ CloseDelete \/ CloseErase
    \/ Interrupt \/ Quit \/ \E a \in Addrs : Destroy(a)
    \/ sh

Spec == Init /\ [][Next]_vars

-----------------------------------------------------------------------------
(* Properties *)

\* Every variable has its type: what a thread's place says about its session
\* included.
TypeOK ==
    /\ gone \in {"no", "crash", "quit"} /\ shutting_down \in BOOLEAN
    /\ FBSMap \in [Addrs -> Conns \cup {Null, Absent}]
    /\ conn \in [Conns -> {"new", "open", "closed"}]
    /\ addr \in [Conns -> Addrs \cup {Absent}]
    /\ cpc \in [Conns -> {"none", "check", "new", "insert", "assign", "done"}]
    /\ deletions \in [Conns -> [made : Nat, freed : Nat]]
    /\ loop \in [at : LoopPcs, ws : Addrs \cup {Absent}]
    /\ loop.at \in {"find", "kill", "delete", "erase"} => loop.ws \in Addrs
    /\ visited \subseteq Addrs /\ overtaken \subseteq Addrs
    /\ sent \in 0 .. MaxMsgs /\ from \in [Msgs -> Conns \cup {Absent}]
    /\ slot \in [sock : Addrs \cup {Wild}, text : Msgs \cup {Garbled}]
    /\ mpc \in [Msgs -> {"none", "take", "find", "index", "handle", "done"}]
    /\ got \in [Msgs -> [sock : Addrs \cup {Wild, Unread}, text : Msgs \cup {Garbled, Unread}]]
    /\ \A m \in Msgs : mpc[m] = "index" => got[m].sock \in Addrs
    /\ held \in [Msgs -> Conns \cup {Null, Absent}]
    /\ cut \in Conns \cup {Null, Absent}

\* A session is constructed once and deleted at most once (main.cpp:120-125,
\* 286-288), but for one: when SIGINT comes between delete and erase, ~FastBuilder
\* finds the entry of a deleted session.
DeletedOnce == \A c \in Conns \ {cut} :
    deletions[c].made <= 1 /\ deletions[c].freed <= deletions[c].made

\* No entry of FBSMap leads to a deleted session, except while the close handler
\* is between delete and erase (main.cpp:287-288) or at shutdown.
NoDanglingEntry == ~shutting_down => \A a \in Addrs :
    FBSMap[a] \in Conns => Live(FBSMap[a]) \/ loop = At("erase", a)

\* Every open connection has its own session in FBSMap, and a closed one has
\* none left, unless a connection of that address was closed before its session
\* had been entered (main.cpp:272, 284): that session is never deleted, or it
\* takes the place of the next one.
SessionsMatch == ~shutting_down => \A c \in Conns :
    cpc[c] = "done" /\ addr[c] \notin overtaken =>
        \/ conn[c] = "open" /\ FBSMap[addr[c]] = c
        \/ conn[c] = "closed" /\ ~Live(c)
        \/ conn[c] = "closed" /\ loop.ws = addr[c] /\ loop.at # "idle"

\* The thread of a message gets, as socket and as text, those of that message or
\* of a later one, or garbage, never of an earlier message (core/fbws.cpp:33-38,
\* 63-64): what CommandTracker and PosQuery assume of the hand-over.
LaterOnly == \A m \in Msgs :
    /\ got[m].text \in {Garbled, Unread} \cup m .. sent
    /\ got[m].sock \in {Wild, Unread} \cup {addr[from[k]] : k \in m .. sent}
=============================================================================
