------------------------------ MODULE ArgInput ------------------------------
(***************************************************************************)
(* A chat message becomes a command: split cuts it into words and joins    *)
(* what stands in quotes, the constructor of argInput reads the defaults   *)
(* of globalPos and goes through the options (core/argv.cpp), and builder  *)
(* looks up what the first word names (core/algorithms.cpp:444-543).       *)
(*                                                                         *)
(* A raw word is its text without quotes (the first one without its dash)  *)
(* and the number of its quotes that are not escaped; a word that split    *)
(* makes is the sequence of the texts joined to it.  A double is           *)
(* represented by the text it was read from.                               *)
(* split takes its words from std::strtok, which keeps its place in one    *)
(* static pointer for all threads: who calls it while another thread is    *)
(* at it may get the other one's words, and lose its own.                  *)
(* Structures, getpos and races within globalPos' coordinates are in other *)
(* modules.  A string assigned while another thread copies it may end the  *)
(* process (StringRace).                                                   *)
(***************************************************************************)
EXTENDS Integers, Sequences, SequencesExt, FiniteSetsExt

CONSTANTS
    Threads,      \* handler threads, one message each
    Texts,        \* texts of words
    Messages,     \* per thread: the messages it may get
    IntOf,        \* the number std::stoi reads at the head of a text, or NoNumber
    NoNumber,     \* (no digits, or out of the range of int)
    Reals,        \* texts at whose head std::stod reads a number
    CharOf,       \* the first character of a text
    IntMax,       \* largest int
    ShortMod,     \* 2^16
    UIntMod,      \* 2^32
    NotSet        \* a member the constructor does not set

\* A message that begins with a dash has a word, the one that begins with it.
Message == {m \in [dash : BOOLEAN, words : Seq([text : Texts, quotes : Nat])] :
                m.dash => m.words # <<>>}

ASSUME ArgInputAssumption ==
    /\ IntMax \in Nat /\ ShortMod \in 1 .. IntMax /\ UIntMod = 2 * (IntMax + 1)
    /\ 15000 < UIntMod
    /\ IntOf \in [Texts -> -(IntMax + 1) .. IntMax \cup {NoNumber}]
    /\ CharOf \in [Texts -> Texts]
    /\ Reals \subseteq Texts /\ {x \in Texts : IntOf[x] # NoNumber} \subseteq Reals
    /\ \A t \in Threads : Messages[t] \subseteq Message

VARIABLES
    gone,            \* the process has crashed
    globalPos,       \* its block and data
    sessionMethods, csessionMethods,
    busy,            \* the session has a job
    pc,              \* where each thread is
    cmd,             \* the message of each thread
    strtok,          \* where strtok goes on: whose buffer, and before which word
    cuts,            \* per buffer: the words strtok has written a NUL behind
    call,            \* each thread's call of strtok: what it took up and will leave
    raw,             \* the words strtok gave each thread: split's sv
    mixed,           \* ghost: threads beside whose calls another one called strtok
    read,            \* ghost: block and data each thread read from globalPos
    splited,         \* its words
    i,               \* the loop's index into them
    arg,             \* the argInput
    reply            \* what became of the command

tokens == <<strtok, cuts, call, raw, mixed>>
vars == <<gone, globalPos, sessionMethods, csessionMethods, busy, pc, cmd, tokens,
          read, splited, i, arg, reply>>
shared == <<gone, globalPos, sessionMethods, csessionMethods, busy, tokens, read>>

-----------------------------------------------------------------------------
(* What split makes of its words: one with an odd number of quotes opens or *)
(* closes a group.                                                          *)

\* Slip: any quote opens or closes a group.
AnyQuote(w) == w.quotes > 0

Odd(w) == w.quotes % 2 = 1

\* lw says whether a group is open; its words are joined to the last of out.
SplitWord(s, w) ==
    [lw  |-> IF Odd(w) THEN ~s.lw ELSE s.lw,
     out |-> IF s.lw THEN [s.out EXCEPT ![Len(s.out)] = Append(@, w.text)]
             ELSE Append(s.out, <<w.text>>)]

split(words) ==
    LET after[n \in 0 .. Len(words)] ==
            IF n = 0 THEN [lw |-> FALSE, out |-> <<>>] ELSE SplitWord(after[n - 1], words[n])
    IN  after[Len(words)]

-----------------------------------------------------------------------------
(* The constructor *)

NoMessage == [dash |-> FALSE, words |-> <<>>]
Nowhere == [of |-> NotSet, word |-> 0, after |-> 0]

Init ==
    /\ gone = FALSE
    /\ globalPos = [block |-> <<"iron_block">>, data |-> 0]
    /\ sessionMethods = {"round", "circle", "sphere", "ellipse", "ellipsoid",
                         "torus", "cone", "pyramid", "ellipticTorus"}
    /\ csessionMethods = {}
    /\ busy = FALSE
    /\ pc = [t \in Threads |-> "idle"]
    /\ cmd = [t \in Threads |-> NoMessage]
    /\ strtok = [of |-> NotSet, next |-> 0]
    /\ cuts = [t \in Threads |-> {}]
    /\ call = [t \in Threads |-> Nowhere]
    /\ raw = [t \in Threads |-> <<>>]
    /\ mixed = {}
    /\ read = [t \in Threads |-> [block |-> NotSet, data |-> NotSet]]
    /\ splited = [t \in Threads |-> <<>>]
    /\ i = [t \in Threads |-> 0]
    /\ arg = [t \in Threads |-> [type |-> NotSet]]
    /\ reply = [t \in Threads |-> "none"]

Step(t, p, q) == ~gone /\ pc[t] = p /\ pc' = [pc EXCEPT ![t] = q]

\* The ways a message ends: no command (254), reported by sendText, an exception
\* that onMsg_newThread drops, or what builder answered
Ends(t, p, r) ==
    /\ Step(t, p, "done")
    /\ reply' = [reply EXCEPT ![t] = r]

isCommandExist(n) == n \in sessionMethods \cup csessionMethods

\* initFBS, before the server starts
registerCommand(n) ==
    /\ \A t \in Threads : pc[t] = "idle"
    /\ ~isCommandExist(n)
    /\ csessionMethods' = csessionMethods \cup {n}
    /\ UNCHANGED <<gone, globalPos, sessionMethods, busy, pc, cmd, tokens, read, splited,
                   i, arg, reply>>

Receive(t, m) ==
    /\ csessionMethods = {"paint", "NBT"}
    /\ Step(t, "idle", "head")
    /\ cmd' = [cmd EXCEPT ![t] = m]
    /\ UNCHANGED <<shared, splited, i, arg, reply>>

NoCommand(t) ==
    /\ ~cmd[t].dash
    /\ Ends(t, "head", "ignored")
    /\ UNCHANGED <<shared, cmd, splited, i, arg>>

Defaults(r) ==
    [block |-> r.block, data |-> r.data, height |-> 1, length |-> "2", width |-> "2",
     accuracy |-> "50", radius |-> NotSet, shape |-> <<"hollow">>,
     direction |-> "y", tick |-> 15000, path |-> NotSet, type |-> NotSet]

ReadBlock(t) ==
    LET r == [block |-> globalPos.block, data |-> NotSet] IN
    /\ cmd[t].dash
    /\ Step(t, "head", "data")
    /\ read' = [read EXCEPT ![t] = r]
    /\ arg' = [arg EXCEPT ![t] = Defaults(r)]
    /\ UNCHANGED <<gone, globalPos, sessionMethods, csessionMethods, busy, cmd, tokens,
                   splited, i, reply>>

ReadData(t) ==
    /\ Step(t, "data", "first")
    /\ read' = [read EXCEPT ![t].data = globalPos.data]
    /\ arg' = [arg EXCEPT ![t].data = globalPos.data]
    /\ UNCHANGED <<gone, globalPos, sessionMethods, csessionMethods, busy, cmd, tokens,
                   splited, i, reply>>

-----------------------------------------------------------------------------
(* strtok.  The words of a buffer are numbered; the place behind the last one, *)
(* where strtok returns NULL, is that of the word after it.  A word with a NUL  *)
(* behind it is for strtok the last of its buffer.                              *)

Splitting == {"next", "cut", "save"}
End(o) == Len(cmd[o].words) + 1

\* Who was between two calls of strtok, or in one, when t changed what they share
Mixes(t) == mixed' = mixed \cup {u \in Threads \ {t} : pc[u] \in Splitting}

\* strtok(buffer, delim), on a buffer that only this thread knows of
FirstWord(t) ==
    /\ Step(t, "first", "next")
    /\ raw' = [raw EXCEPT ![t] = <<cmd[t].words[1]>>]
    /\ cuts' = [cuts EXCEPT ![t] = {1}]
    /\ strtok' = [of |-> t, next |-> 2]
    /\ Mixes(t)
    /\ UNCHANGED <<gone, globalPos, sessionMethods, csessionMethods, busy, cmd, call, read,
                   splited, i, arg, reply>>

\* strtok(NULL, delim) takes the pointer and looks for the end of the word, ...
TakeUp(t) ==
    LET o == strtok.of  k == strtok.next IN
    /\ \/ Step(t, "next", "cut") /\ k < End(o)
       \/ Step(t, "next", "save") /\ k >= End(o)
    /\ call' = [call EXCEPT ![t] =
                  [of |-> o, word |-> k,
                   after |-> IF k \in cuts[o] \/ k >= End(o) THEN End(o) ELSE k + 1]]
    /\ UNCHANGED <<gone, globalPos, sessionMethods, csessionMethods, busy, cmd, strtok, cuts,
                   raw, mixed, read, splited, i, arg, reply>>

\* ... writes a NUL there ...
Cut(t) ==
    /\ Step(t, "cut", "save")
    /\ cuts' = [cuts EXCEPT ![call[t].of] = @ \cup {call[t].word}]
    /\ Mixes(t)
    /\ UNCHANGED <<gone, globalPos, sessionMethods, csessionMethods, busy, cmd, strtok, call,
                   raw, read, splited, i, arg, reply>>

\* ... and leaves the pointer behind it.  split pushes the word, or has them all.
Save(t) ==
    LET o == call[t].of  k == call[t].word IN
    /\ \/ /\ Step(t, "save", "next")
          /\ k < End(o)
          /\ raw' = [raw EXCEPT ![t] = Append(@, cmd[o].words[k])]
       \/ /\ Step(t, "save", "join")
          /\ k >= End(o)
          /\ UNCHANGED raw
    /\ strtok' = [of |-> o, next |-> call[t].after]
    /\ Mixes(t)
    /\ UNCHANGED <<gone, globalPos, sessionMethods, csessionMethods, busy, cmd, cuts, call,
                   read, splited, i, arg, reply>>

\* The rest of split, and type
Join(t) ==
    LET s == split(raw[t]) IN
    /\ \/ /\ s.lw
          /\ Ends(t, "join", "Unterminated string.")
          /\ UNCHANGED <<splited, i, arg>>
       \/ /\ ~s.lw
          /\ Step(t, "join", "loop")
          /\ arg' = [arg EXCEPT ![t].type = s.out[1]]
          /\ splited' = [splited EXCEPT ![t] = s.out]
          /\ i' = [i EXCEPT ![t] = 2]
          /\ UNCHANGED reply
    /\ UNCHANGED <<shared, cmd>>

-----------------------------------------------------------------------------
(* The loop over the words *)

Word(t, j) == splited[t][j]
Has(t, j) == pc[t] = "loop" /\ j <= Len(splited[t])   \* j < splited.size()
Type(t) == arg[t].type

\* Leading blanks, which a quoted word may have, are skipped.
First(w) == LET v == SelectSeq(w, LAMBDA x : x # "")
            IN IF v = <<>> THEN "" ELSE v[1]
IsInt(w) == First(w) \in Texts /\ IntOf[First(w)] # NoNumber
IntIn(w) == IntOf[First(w)]
Initial(w) == IF w = <<"">> THEN "" ELSE IF w[1] = "" THEN " " ELSE CharOf[w[1]]
IsReal(w) == First(w) \in Reals

GetPos(t) ==
    /\ Has(t, i[t]) /\ Type(t) = <<"get">> /\ Word(t, i[t]) = <<"pos">>
    /\ Step(t, "loop", "built")
    /\ arg' = [arg EXCEPT ![t].type = <<"getpos">>]
    /\ UNCHANGED <<shared, cmd, splited, i, reply>>

IsLet(t, what) ==
    /\ Type(t) = <<"let">> /\ Word(t, i[t]) = <<what>> /\ Has(t, i[t] + 1)

Wrote(t) ==
    /\ Step(t, "loop", "built")
    /\ arg' = [arg EXCEPT ![t].type = <<"dwrote">>]
    /\ UNCHANGED <<gone, sessionMethods, csessionMethods, busy, cmd, tokens, read, splited,
                   i, reply>>

LetBlock(t) ==
    /\ Has(t, i[t]) /\ IsLet(t, "block")
    /\ globalPos' = [globalPos EXCEPT !.block = Word(t, i[t] + 1)]
    /\ Wrote(t)

LetData(t) ==
    /\ Has(t, i[t]) /\ IsLet(t, "data") /\ IsInt(Word(t, i[t] + 1))
    /\ globalPos' = [globalPos EXCEPT !.data = IntIn(Word(t, i[t] + 1)) % ShortMod]
    /\ Wrote(t)

\* -get or -let with anything else: an exception with a text
BadFormat(t) ==
    /\ Has(t, i[t])
    /\ \/ Type(t) = <<"get">> /\ Word(t, i[t]) # <<"pos">>
       \/ Type(t) = <<"let">> /\ ~IsLet(t, "block") /\ ~IsLet(t, "data")
    /\ Ends(t, "loop", "Unexpected format.")
    /\ UNCHANGED <<shared, cmd, splited, i, arg>>

\* Which member an option sets, and how its word is converted
Member == [o \in {"-f", "-s", "-z", "-t", "-w", "-l", "-h", "-b", "-bd", "-r", "-a"} |->
    CASE o = "-f" -> "direction" [] o = "-s" -> "shape"   [] o = "-z" -> "path"
      [] o = "-t" -> "tick"      [] o = "-w" -> "width"   [] o = "-l" -> "length"
      [] o = "-h" -> "height"    [] o = "-b" -> "block"   [] o = "-bd" -> "data"
      [] o = "-r" -> "radius"    [] o = "-a" -> "accuracy"]
Options == DOMAIN Member
IsOption(w) == Len(w) = 1 /\ w[1] \in Options

Converts(o, w) == CASE o \in {"-t", "-h", "-bd"} -> IsInt(w)
                    [] o \in {"-w", "-l", "-r", "-a"} -> IsReal(w)
                    [] OTHER -> TRUE

Conversion(o, w) == CASE o = "-t" -> IntIn(w) % UIntMod
                      [] o = "-bd" -> IntIn(w) % ShortMod
                      [] o = "-h" -> IntIn(w)
                      [] o = "-f" -> Initial(w)
                      [] o \in {"-w", "-l", "-r", "-a"} -> First(w)
                      [] OTHER -> w

InOptions(t) == Type(t) \notin {<<"get">>, <<"let">>} /\ Has(t, i[t] + 1)

\* Slip: the word after an option is looked at as an option, too.
OptionOverlapping(t) ==
    LET o == Word(t, i[t])[1]  w == Word(t, i[t] + 1) IN
    /\ InOptions(t) /\ IsOption(Word(t, i[t])) /\ Converts(o, w)
    /\ Step(t, "loop", "loop")
    /\ arg' = [arg EXCEPT ![t][Member[o]] = Conversion(o, w)]
    /\ i' = [i EXCEPT ![t] = @ + 1]
    /\ UNCHANGED <<shared, cmd, splited, reply>>

Option(t) ==
    LET o == Word(t, i[t])[1]  w == Word(t, i[t] + 1) IN
    /\ InOptions(t) /\ IsOption(Word(t, i[t])) /\ Converts(o, w)
    /\ Step(t, "loop", "loop")
    /\ arg' = [arg EXCEPT ![t][Member[o]] = Conversion(o, w)]
    /\ i' = [i EXCEPT ![t] = @ + 2]
    /\ UNCHANGED <<shared, cmd, splited, reply>>

\* std::invalid_argument or std::out_of_range: nobody is told.
Throws(t) ==
    /\ \/ InOptions(t) /\ IsOption(Word(t, i[t])) /\ ~Converts(Word(t, i[t])[1], Word(t, i[t] + 1))
       \/ Has(t, i[t]) /\ IsLet(t, "data") /\ ~IsInt(Word(t, i[t] + 1))
    /\ Ends(t, "loop", "dropped")
    /\ UNCHANGED <<shared, cmd, splited, i, arg>>

NoOption(t) ==
    /\ InOptions(t) /\ ~IsOption(Word(t, i[t]))
    /\ Step(t, "loop", "loop")
    /\ i' = [i EXCEPT ![t] = @ + 1]
    /\ UNCHANGED <<shared, cmd, splited, arg, reply>>

\* The last word is no option, whatever it is.
Break(t) ==
    /\ \/ ~Has(t, i[t])
       \/ Type(t) \notin {<<"get">>, <<"let">>} /\ ~Has(t, i[t] + 1)
    /\ Step(t, "loop", "built")
    /\ UNCHANGED <<shared, cmd, splited, i, arg, reply>>

-----------------------------------------------------------------------------
(* builder: what the command is.  Jobs themselves are BuildJobs. *)

Answer(ty) ==
    CASE ty = <<"stop">> /\ ~busy -> "no session is running"
      [] ty = <<"stop">> /\ busy -> "stop"
      [] ty # <<"stop">> /\ busy -> "Session is still busy"
      [] ty \in {<<"dwrote">>, <<"getpos">>} /\ ~busy -> ty[1]
      [] ty \in {<<"get">>, <<"let">>} /\ ~busy -> "Unexpected format."
      [] Len(ty) = 1 /\ ty[1] \in csessionMethods /\ ~busy -> "csession"
      [] Len(ty) = 1 /\ ty[1] \in sessionMethods /\ ~busy -> "session"
      [] OTHER -> "No such method."

builder(t) ==
    /\ Ends(t, "built", Answer(Type(t)))
    /\ busy' = (busy \/ reply'[t] \in {"csession", "session"})
    /\ UNCHANGED <<gone, globalPos, sessionMethods, csessionMethods, cmd, tokens, read,
                   splited, i, arg>>

JobEnds ==
    /\ ~gone /\ busy /\ busy' = FALSE
    /\ UNCHANGED <<gone, globalPos, sessionMethods, csessionMethods, pc, cmd, tokens, read,
                   splited, i, arg, reply>>

\* globalPos.block is assigned by one thread while another one copies it.
StringRace ==
    /\ ~gone /\ \E t, u \in Threads :
        /\ pc[t] = "loop" /\ Has(t, i[t]) /\ IsLet(t, "block")
        /\ \/ pc[u] = "head" /\ cmd[u].dash
           \/ u # t /\ pc[u] = "loop" /\ Has(u, i[u]) /\ IsLet(u, "block")
    /\ gone' = TRUE
    /\ UNCHANGED <<globalPos, sessionMethods, csessionMethods, busy, pc, cmd, tokens, read,
                   splited, i, arg, reply>>

Next ==
    \/ \E n \in {"paint", "NBT"} : registerCommand(n)
    \/ \E t \in Threads :
        \/ \E m \in Messages[t] : Receive(t, m)
        \/ NoCommand(t) \/ ReadBlock(t) \/ ReadData(t)
        \/ FirstWord(t) \/ TakeUp(t) \/ Cut(t) \/ Save(t) \/ Join(t)
        \/ GetPos(t) \/ LetBlock(t) \/ LetData(t) \/ BadFormat(t) \/ Option(t) \/ Throws(t)
        \/ NoOption(t) \/ Break(t) \/ builder(t)
    \/ JobEnds \/ StringRace

Spec == Init /\ [][Next]_vars

-----------------------------------------------------------------------------
(* Properties *)

Words == Seq(Texts) \ {<<>>}

\* The values a member of an argInput has; path and radius have no default.
Kinds ==
    [block |-> Words \cup {<<"iron_block">>}, data |-> 0 .. ShortMod - 1,
     height |-> -(IntMax + 1) .. IntMax, tick |-> 0 .. UIntMod - 1,
     length |-> Reals \cup {"2"}, width |-> Reals \cup {"2"}, accuracy |-> Reals \cup {"50"},
     radius |-> Reals \cup {NotSet}, path |-> Words \cup {NotSet},
     shape |-> Words \cup {<<"hollow">>}, direction |-> Texts \cup {"y", "", " "},
     type |-> Words \cup {<<"getpos">>, <<"dwrote">>}]

RawWord == [text : Texts, quotes : Nat]
Places == Threads \cup {NotSet}

\* The variables keep their types, and every member of a parsed command has a value
\* of its own.
TypeOK ==
    /\ gone \in BOOLEAN /\ busy \in BOOLEAN
    /\ globalPos \in [block : Kinds.block, data : Kinds.data]
    /\ pc \in [Threads -> {"idle", "head", "data", "first", "next", "cut", "save", "join",
                           "loop", "built", "done"}]
    /\ cmd \in [Threads -> Message]
    /\ strtok \in [of : Places, next : Nat] /\ cuts \in [Threads -> SUBSET Nat]
    /\ call \in [Threads -> [of : Places, word : Nat, after : Nat]]
    /\ raw \in [Threads -> Seq(RawWord)] /\ mixed \subseteq Threads
    /\ splited \in [Threads -> Seq(Words)]
    /\ i \in [Threads -> Nat] /\ \A t \in Threads : i[t] <= Len(splited[t]) + 1
    /\ \A t \in Threads : pc[t] \in {"loop", "built"} =>
          /\ DOMAIN arg[t] = DOMAIN Kinds
          /\ \A m \in DOMAIN Kinds : arg[t][m] \in Kinds[m]

\* A group is open after the k-th word when an odd number of words before have
\* an odd number of quotes.
OpenAfter(ws, k) == Cardinality({j \in 1 .. k : ws[j].quotes % 2 = 1}) % 2 = 1

\* A thread whose calls of strtok no other thread's came between gets the words of
\* its message, all and in order, and every thread gets its own first word.  Of the
\* words it got split loses and reorders none, joins exactly those from an opening
\* to its closing quote, and complains exactly when one is left open
\* (core/argv.cpp:40-76).
SplitRight == \A t \in Threads :
    LET ws == raw[t]  n == Len(ws)
        starts == {j \in 1 .. n : ~OpenAfter(ws, j - 1)}
    IN /\ ws # <<>> /\ pc[t] \notin Splitting =>
            ws[1] = cmd[t].words[1] /\ (t \in mixed \/ ws = cmd[t].words)
       /\ pc[t] \in {"loop", "built"} =>
            /\ ws # <<>> /\ ~OpenAfter(ws, n)
            /\ FlattenSeq(splited[t]) = [j \in 1 .. n |-> ws[j].text]
            /\ starts = {1 + Len(FlattenSeq(SubSeq(splited[t], 1, g))) :
                            g \in 0 .. Len(splited[t]) - 1}
       /\ reply[t] = "Unterminated string." => OpenAfter(ws, n)

\* An option word is a value and no option exactly when it stands after an odd
\* number of option words in a row.
Reached(ws, j) == LET before == {k \in 1 .. j - 1 : k = 1 \/ ~IsOption(ws[k])}
                  IN (j - Max(before)) % 2 = 1

\* Where option o stands as an option with a value
Given(ws, o) == {j \in 2 .. Len(ws) - 1 : ws[j] = <<o>> /\ Reached(ws, j)}
Parsed(t) ==
    pc[t] = "built" /\ Type(t) \notin {<<"getpos">>, <<"dwrote">>, <<"get">>, <<"let">>}

\* Every member is what the last option of its name among the words says, or keeps
\* its default, block and data the ones read from globalPos; radius is set by -r
\* only; the value of an option is never read as an option, and the last word never
\* is one (core/argv.cpp:89-161).
OptionsTakeEffect == \A t \in Threads : Parsed(t) =>
    \A o \in Options :
        LET ws == splited[t]  set == Given(ws, o) IN
        arg[t][Member[o]] = IF set # {} THEN Conversion(o, ws[Max(set) + 1])
                            ELSE Defaults(read[t])[Member[o]]

\* README.md:21 says "(double) -r : Structure radius", of the command that was sent;
\* with another one beside it, its words may be those of the other.
RadiusGiven == \A t \in Threads : Parsed(t) =>
    LET ws == split(cmd[t].words).out  set == Given(ws, "-r") IN
    set # {} => arg[t].radius = First(ws[Max(set) + 1])
=============================================================================
