# FBNative: TLA+ specifications and proofs

FBNative is a websocket server for a Minecraft client. The client sends what the
player types in the chat; a message such as `-sphere -r 6` makes the server
compute a structure and send it back as `fill` commands, one block or column at
a time. This directory holds TLA+ models of the server's own code (`main.cpp`
and `core/`) and of the JSON library it was built around (`jsoncpp-1.8.4`, which
is part of the repository), the TLC configurations that check them and the
proofs that TLAPS checks.

Run a check with `tlc -config X.cfg M`, a proof with `tlapm M.tla`.
`PROJECT.json` relates every definition to its source lines and lists runs,
mutants, findings, hazards and theorems.

## 1. The system

| part | state | operations | who calls it |
|---|---|---|---|
| websocket loop, `core/fbws.cpp` | the connections (uWebSockets); a local pair per message | open and message start a detached thread each; close runs `FastBuilder_Z____Disconnection` on the loop thread | the client |
| sessions, `main.cpp` | `FBSMap`, `shutting_down`; per session `busy`, `busythr`, `lossresolver` | construct, `onMsg`, `killbusy`, destroy | loop thread, connection and message threads |
| shutdown, `main.cpp` | `shutting_down` | the SIGINT handler, `~FastBuilder` | interrupts the loop thread |
| crash handler, `core/crash_handler.cpp` | | `sh`: print a stack, exit | SIGSEGV |
| build jobs, `core/algorithms.cpp` | `Algorithms::stopFlag`, one for all sessions; a session's `busy` and `busythr` | `builder` and `setTile`, `setLongTile`, `setCTile` | the thread of an `event` message |
| command transport, `sendCommand`, `core/packetlossresolver.cpp` | `pkmap`, `pkmutex` per session | `addCommand`, `removeCommand`, `resendCommand`, `clear` | every sender; threads of answers |
| synchronous queries, `sendCommandSync`, `core/fbsynckeeper.cpp` | `needMark`, `wantedUUIDMap`, global and unlocked | set and get of either | `-get pos`; threads of answers |
| position and defaults, `core/argv.cpp` | `globalPos`, global and unlocked | `setPos`, `-let`; read by every parse | message threads |
| command line, `core/argv.cpp` | one `argInput` per message | `split`, the options | message threads |
| registry, `core/algorithms.cpp` | the two method maps | `registerCommand`, look-up | start-up, `builder` |
| structures, `CoreBuildMethods`, `core/algorithms.cpp` | a `session` (list of positions) | nine build methods, `push` | `builder` |
| pictures and NBT, `core/fbscript.cpp` | a `csession` (positions with blocks) | `Paint`, `buildNBT`, `push` | `builder` |
| jsoncpp: readers | a `Reader` or `OurReader`: position, stack of nodes, errors, comments | `parse`, `pushError` | `onMsg`, start-up tables |
| jsoncpp: `Value` | a tree of values with comments | calls on arrays and objects, comparison, conversions | everybody |
| jsoncpp: writers | | four writers | `sendCommand`, `sendText` |
| log, profile, generated tables | | | |

What is hard in the server is concurrency. Every message has a thread of its own,
so the commands of one client run side by side; the loop thread destroys a session
while its threads run, and SIGINT destroys all of them between any two of its
steps; and but for `pkmutex` nothing is locked. Answers come back in threads of
their own and in any order, some of them late, some of them errors. A job is
stopped through a shared flag and killed through a signal. The hand-over of a
message to its thread goes through a pointer to a local variable of a lambda that
has returned (`core/fbws.cpp:63-64`).

What is hard in the rest is data: conversions at the edges of their types, loops
over doubles that are cut to ints, lists kept in an order that is none, blocks
owned by several entries, and a grammar that is spread over the recovery code of a
reader that exists twice.

What makes each part correct:

- **Sessions**: constructed once and deleted once; `FBSMap` leads to no deleted
  session, and to the right one for every open connection; a message's thread
  reads its message or a later one.
- **Build jobs**: a session has one job at a time; `busy` is set exactly while
  there is one; a stop takes effect within a tile; a job ends if its method does; a
  kill hits no process without handler.
- **Transport**: a command takes effect once; a refused one is sent again; none
  is forgotten silently; `pkmap` does not grow.
- **Queries**: the answer to a query reaches it; nothing is left in the maps;
  the query ends.
- **Position**: a command is built around a position somebody reported.
- **Command line**: words are joined by quotes and not lost; an option takes
  effect once, its value is not an option.
- **Structures, block lists, pictures, NBT**: what was asked for is built, each
  place once, supporting blocks first, and every block is deleted once.
- **JSON**: what is read is the language, with the right places; the two readers
  agree; what is written can be read; calls change what they name.

## 2. The modules and the code

### Sessions

Models `core/fbws.cpp:33-70` and `main.cpp:116-127, 267-303`: the thread of a
connection (`cpc`), the thread of a message (`mpc`), the loop thread (`loop`), the
interrupt. A session is named by the connection it was built for; `FBSMap` leads
from an address of a websocket to a session, to `Null` (what `operator[]` enters)
or to nothing. Addresses are used again after a close.

`FBSMap[a] = new ...` is three steps (construct, `Insert`, `Assign`), the close
handler four (`CloseFind`, `CloseKill`, `CloseDelete`, `CloseErase`), `onMsg`'s
two look-ups two (`Find`, `Index`). The message's pair lives in `slot`: `Recv`
writes it, `Overwrite` is the stack or the receive buffer used again, `ReadSock`
and `ReadText` are the thread's two reads in either order. `Interrupt` may take
the loop thread away anywhere; `Destroy` goes through the map, `closews` runs the
close handler, which returns at its test of `shutting_down`; `Quit` exits.

`sh` is the end of the process by undefined behaviour: two accesses to `FBSMap` at
once of which one is a write, a session constructed on a closed socket, a pair read
from an overwritten slot, a handler whose session was deleted, or one that uses what `~FastBuilder` has deleted. A crash is never
forced: the step that goes well is possible, too.

Properties: `DeletedOnce`, `NoDanglingEntry`, `SessionsMatch`, `LaterOnly`;
`TypeOK` is proved and not in the run's list. `LaterOnly` is what `CommandTracker` and `PosQuery` assume of the hand-over. The
ghosts `overtaken` and `cut` name the two ways in which the code does go wrong: a
close before the session's entry, and SIGINT between delete and erase.

### BuildJobs and Jobs

Models `Algorithms::builder` and the three tile senders (`algorithms.cpp:327-400,
465-542`), message dispatch, `killbusy`, the destructor and the disconnection
(`main.cpp:195-220, 267-289`) and the end of a handler thread (`fbws.cpp:33-38`).

`pc[t]` is the place of handler thread `t` between two accesses to shared
fields; `sess[t]` is the session pointer it holds, `job[t]` the kind of command,
`left[t]` the tiles it has yet to send. `loopAt`, `closing` and `victim` are the
loop thread inside `FastBuilder_Z____Disconnection`. `busy`, `busythr`,
`stopFlag` are the fields of those names; `usr1` says that
`signal(SIGUSR1, ...)` has run.

| pc | the thread is about to | leaves by |
|---|---|---|
| `check` | read `busy` | `StopRefused`, `StopChecked`, `BusyRefused`, `BusyPassed` |
| `mark` | set `stopFlag` | `MarkStop` |
| `install` | install the SIGUSR1 handler | `InstallHandler` |
| `admitted`, `claim` | set `busy`, then `busythr` | `SetBusy`, `SetBusythr` |
| `plan` | run the build method | `Plan`, `PlanNull`, `PlanThrows`, `PlanEndless` |
| `endless` | loop in it for ever | a signal |
| `tile`, `poll`, `ack` | send a tile, read `stopFlag`, reset it | `SendTile`, `NoTileLeft`, `PollStop`, `AckStop` |
| `release`, `clear` | reset `busy`, clear the resolver | `Release`, `Clear` |

The two branches of `builder` (for `csessionMethods` and `sessionMethods`) do the
same to the state and are one. A build method is any number of tiles up to
`MaxTiles`, null, an exception, or a loop without end: with `-r 1e300` or `-r inf`
`i++` leaves a double as it is (`algorithms.cpp:31`), with a negative `-a` an angle
runs away from its end (197-202). Only the signal of a close gets a thread out of
there. The two loops of `setCTile` are one loop over
all its tiles: they poll in the same way. What is planned and sent is `TileLists`.

Undefined behaviour is a choice. A thread whose session was freed goes on with
whatever the memory holds (the old fields, or those of a session constructed in
its place, `Connect`) or crashes (`Crash`). `pthread_kill` of an ended thread
does nothing, hits a thread that was given the same id (`KillSend` of a thread
that handles another message), or ends the process (`KillEnded`). Construction
is one step here; `Sessions` takes it apart. Reading and writing of `busy`,
`busythr` and `stopFlag` is taken to be atomic: they are words.

Ghost variables record what properties need and code does not keep: `tainted`
(two jobs were in the check-then-set window together, or an old thread uses the
memory), `abandoned` (a job's thread was ended by an exception or signal),
`unheeded`, and the session in `killedFor`.

`Jobs` is what a session promises of its jobs: it is closed, idle or building,
and a job belongs to one thread, which ends it (`Finish`). If that thread is gone
before, the session is stuck: it builds nothing until it is closed (`Abandon`).
A session that two jobs or two owners share (`Share`) promises nothing. `phaseOf`
and `workerOf` are the refinement mapping: building is a session with a thread
between the two assignments of `busy`, stuck one that is busy without such a
thread, shared one that is tainted.

Properties: `OneBuildPerSession`, `BusyIsExact`, `StopHeeded`, `BuildsEnd`,
`StopConsumed`, and `JobsSpec` as a refinement; `TypeOK` and `KillHasHandler` are
proved and not in a run's list. The first two are stated for sessions
that are open and not tainted: they show that the known races are the *only* ways
to break mutual exclusion and the exactness of `busy`. `BuildsEnd` is about jobs
whose method ends, and about the others (`Endless`) that they leave their loop once
they are signalled: that every job ends is false of the code. So is that a stop ends a
job of the session that asked for it; `StopConsumed` says that some job takes it.

### CommandTracker and Delivery

`Delivery` is what the resolver promises of one command: it is sent, it takes
effect or is refused, a refused one is sent again or given up, and it is then
over. `CommandTracker` is how `sendCommand` (`main.cpp:153-183`), `onMsg`
(`main.cpp:227-261`) and `PLResolver` do it: `send` comes before `addCommand`;
answers are taken off the network in any order by any thread, `removeCommand`
and `resendCommand` lock `pkmutex`, the latter while it sends; `clear` empties
`pkmap` whatever is on its way. `fateOf` is the refinement mapping.

The network is three bags per command (`wire`, `oks`, `errs`): order between
messages is not kept, since their threads run in any order anyway. The hand-over
gives a thread its own message (`OnMsg`), nothing it can parse (`Garbled`), or a
later message that is handled twice (`Misread`); `Sessions` shows where these
come from. `excused` collects the commands the code may lose, at the places where
it loses them: an answer before `addCommand`, a `clear`, a lost hand-over.

Properties: `AtMostOnce`, `NotForgotten`, `NoLeftover`, `Delivered`, and
`DeliverySpec` as a refinement, and `LockHeld`: `pkmutex` is held by exactly the
thread that is between its lock and its unlock. In `resendCommand` lock, look-up,
early return and unlock are steps of their own, so that a return that forgets the
unlock leaves everybody waiting.

### PosQuery

`-get pos` (`algorithms.cpp:484-500`) with `sendCommandSync`
(`main.cpp:185-193`), the keeper (`core/fbsynckeeper.cpp`), the part of `onMsg`
that stores an answer (`main.cpp:238-240`), `setPos` and the reads of `globalPos`
at the head of `argInput` (`argv.cpp:78-91`). What comes before in `builder` (the
busy check) and after in `onMsg` (`errResend`, `removeCommand`: no effect on a
command with a uuid of its own, which is not in `pkmap`) is in the two modules
above. A position is x and z, one coordinate that is written first and one that
is written last. A query is one thread with one uuid. In `getNMark` and `getUValue`
the find and the erase that follows it are two steps (`FindNMark`, `EraseNMark`,
`FindUValue`, `EraseUValue`), between which other threads use the maps. Racing
accesses to one map take effect one after the other or crash (`MapRace`).

Properties: `KeeperClean`, `StillAwaited`, `WholePosition`, `QueriesEnd`. The
ghost `missed` holds the queries that may wait for ever: the answer came before
`setNMark`, it was lost in the hand-over, or the client left. The ghost `twice` holds
those whose mark a second handler, with the same answer doubled by the hand-over,
found before the first had erased it: both store, and the second may leave an entry
in `wantedUUIDMap` that nobody takes. `KeeperClean` says that this is the only way to
leave one.

### ArgInput

`core/argv.cpp` from the message to the `argInput`, the registry and what
`builder` makes of it (`algorithms.cpp:427-543`). A raw word is its text and the
number of its unescaped quotes; `split` joins texts; a word is thus a sequence of
texts. `split` gets its words from `std::strtok`, which keeps its place in one static
pointer of the process, and every message has a thread of its own: `strtok` is where
the next call goes on, in whose buffer and before which of its words, and `cuts` are
the words of each buffer behind which a NUL was written. A first call (`FirstWord`)
is one step, since its buffer is the caller's alone until it returns; a later one takes
up the pointer (`TakeUp`), writes the NUL (`Cut`) and leaves the pointer (`Save`).
Words of two commands thus get mixed, lost or doubled, as in the code. `raw` is what a
thread got; the ghost `mixed` holds the threads beside whose calls another one called.
The buffers are never freed, so that no thread reads freed memory. The constructor reads `globalPos` in two steps (`ReadBlock`, `ReadData`),
then goes through the words, one action per kind of word: `Option` (all eleven
options, by `Member` and `Conversion`), `NoOption`, `GetPos`, `LetBlock`,
`LetData`, `BadFormat`, `Throws` (an exception that `onMsg_newThread` drops) and
`Break`. `std::stoi` and `std::stod` are given by `IntOf` and `Reals`; the casts
to `unsigned` and `unsigned short` are `%`. `StringRace` ends the process where a
string is assigned while another thread copies it. A message is one of a set
`Messages`, whose members are any that `Message` allows: a message with a dash has
a first word.

Properties: `SplitRight` (who was alone got its words, everybody its first word; what a
thread got is joined right, against counting quotes), `OptionsTakeEffect` (against
looking at all words at once; `block` and `data` default to what was read from
`globalPos`, which `read` keeps). The direction is what `-f` says in both: `-d`, which
the documentation names for it, is among the words of the run and sets nothing. That a
command has the radius it was sent with (`RadiusGiven`) is refuted. `TypeOK`, which
gives every member of an `argInput` the values of its C++ type (`Kinds`), is proved and
not in the run's list.

### Shapes, Pictures and TileLists

`Shapes` gives, for a parsed command, what the nine build methods push and in
which order (`algorithms.cpp:25-323`), as functions over integers: sizes are
doubles in the code and multiples of a half here, written in halves, and `Trunc`
is the conversion to `push`'s `int` parameters. Squares and sums of halves are
exact in doubles; the quotients of ellipse and ellipsoid are compared without
rounding, and no command of the run lies on the boundary other than at its ends.
Sizes that are no multiples of a half, and those whose loops do not end, are not
modelled here. Torus, cone and ellipticTorus go through a constant list `Turn` of
pairs of cosine and sine, to the precision 1/`Unit`; the run's is that of the angles
0, 1, ... 6, the steps of accuracy 1. What they compute with them is exact. Such a list
is neither closed under half turns nor even, so that a ring of the program is not
symmetric, and no property says it is. `Loops` is what nested `for` loops
push: `For`, `Nested` and `Nested3`, recursive functions over the list of values
that the loop variable takes. The odd things of the code are kept:
the ellipsoid's `x+1`, the ellipse that takes `j` for a coordinate in direction z,
the pyramid whose loop variables hide its position.

`Pictures` gives what `Paint` and `buildNBT` push (`core/fbscript.cpp`): the rows
that libpng stores from the end, the stride, `ColorDistance` as it is written,
`findMin` over distances cut to ints, `draw`; palette resolution with missing
properties, states that contradict, doors and air. The fourth byte of a pixel is
written behind a vector of three (`fbscript.cpp:127`). The vector's memory is three
bytes from `malloc`, which hands out 24 (glibc) or 16 (macOS) of them: the byte falls
into room that belongs to nobody, and the builds there are have no other outcome. The
write therefore has no effect in the model. That it is undefined stands here, and no
property shows it.

`TileLists` takes such a list, or any short list of positions, through `push`, the
loops of `setTile`, `setLongTile` and `setCTile`, and the destructors
(`algorithms.h:50-155`, `algorithms.cpp:327-424`). `kind` is the branch of
`builder`; a `Vec3*` is the number of its push; maps of pointers are gone through
in any order. A stop may end either loop after any tile, so that the destructors
are checked after stops, too. The lists belong to the job's thread; races are
`BuildJobs`' business. The blocks that `Paint` and `buildNBT` allocate and never
push are not in `vmap` and not modelled.

Properties: `PushExact`, `FilledOnce` (no tile twice, put-off tiles last, all
columns), `FreedOnce`, `ShapesTrue`, `FilesTrue`
(`PictureTrue` and `StructureTrue`). `ShapesTrue` has three parts. `Symmetric`: round,
circle, sphere and ellipse (but in direction z) lie evenly around their position,
exactly for whole sizes; for halves `y+i` is cut to an int, so that `-r 2.5` at a
negative position is off its centre by a block, and `Slack` says by no more.
`Watertight`: circles and hollow spheres of whole size have no hole. `RingBounded`: a
ring of any angles reaches no further than its radius and tube. With a height below 1 the code fills
*downwards* from the position; the runs take such commands, and `FilledOnce` says
of them only that every tile is sent once.

### JSON

| module | code | |
|---|---|---|
| `JsonTokens` | | texts as sequences of tokens, documents as functions on paths |
| `JsonReader` | `Reader`, `json_reader.cpp:86-890` | a state machine: `frames` is the recursion of `readObject` and `readArray`, `pc` the token waited for |
| `OurReader` | `OurReader`, `json_reader.cpp:921-1900` | the same class again, with its settings, as the recursion it is |
| `JsonReaders` | | `InLanguage`, a grammar, and the properties that compare the three |
| `JsonNumbers` | `json_value.cpp:51-74, 732-932, 1306-1410` | integers of two widths and doubles: ranges and conversions |
| `JsonText` | `decodeString`, `decodeNumber`, `json_tool.h`, `valueToQuotedString` | bytes: escapes, surrogates, UTF-8 both ways, the digits of numbers |
| `JsonWriters` | `json_writer.cpp` | `FastWriter`, `StyledWriter`, `StyledStreamWriter`, the writer of `StreamWriterBuilder` |
| `JsonValue` | `json_value.cpp` | calls on a document: one action per call |
| `JsonValues` | `json_value.cpp` | comparison and conversion to strings, and the properties that tie values, writers and `OurReader` together |

A token is what `readToken` delivers: its type, the name that it decodes to, and
whether a new line is in front of it, which decides where a comment goes. `Bad` is a
name that does not decode, `Huge` a number out of the range of a double (an error for
`Reader`, infinite for `OurReader`, `json_reader.cpp:618-628, 1624-1660`), `Lone` a `-`
without digits, which decodes to 0. Where `OurReader` takes a text apart differently
it has its own operators: an apostrophe falls through to `readComment` and takes the
next characters with it (1235-1244), and `-I` is a token of its own (1258-1264)
(`TokenAt`, `Taken2`, `OurToken`). What an apostrophe makes of the middle of a longer
token is not modelled (`Apostrophes`). A location is a number of tokens. `JsonReader`'s error recovery is kept token
by token: `recoverFromError` reads, and skips, whatever comes. `errors_` has
locations and no texts. A call of `parse` begins with a new root, `pushError` may
come between calls. A text is any sequence of tokens over a set `Names` of decoded
names; which texts a run reads is the constant `Texts`.

A text that is written is a sequence of pieces; the layout is kept as far as it
decides what a reader sees: where a `//` comment ends, where a `,` stands.

In `json_writer.cpp` and `json_reader.cpp` there are three and two copies of
several functions; where the copies do the same, one operator stands for them and
is mapped to one of them.

Properties: `Verdict`, `OurVerdict`, `Located`, `Advances`, `ReadsEnd` of the readers;
`Ordered`, `Conversions`, `ReadsBack`, `CommentsReadBack`, `CallEffects` of values
and writers. What is said of `Reader` alone stands in `JsonReader`, free of recursive
operators: `TypeOK` (with the limit of the stack), `Reported` (parse fails exactly
when it has reported an error; the first part of `Verdict`), `Located`, `Advances`.
`Converts` in `JsonNumbers` is `Conversions` of one value but for strings.
`Verdict` has a reference that owes nothing to the reader: `IsJson` is the grammar of
JSON. Every JSON text is read; what is read without comments is JSON, but for an empty
name and a lone `-` (`ReadsJson`); with comments it is JSON once they are left out, but
for what stands in the place of a comma after one (`JsonBetweenComments`). Only
then `InLanguage` says exactly which texts are accepted, each thing beyond JSON being an
operator of its own (`Gap`, `EndsAfterComma`, `AnyComma`, `DroppedRoot`); it was found
with TLC, by asking for JSON alone. It is what the code does, and not what its
documentation says of strict mode, comments and the number of errors. `OurVerdict`
compares the readers on texts both take apart alike (`SameTokens`), and `OurReader` in
strict mode with JSON to the end of the text or to a NUL. The assumption
`DocumentedOtherwise` of `MCJsonReader`, which TLC evaluates before `json_reader`, has a
text for every place where the documentation says otherwise.

`ReadsBack` holds for what is `Legible` to a writer: all strings of UTF-8, but for
what each writer is known to spoil. Every exclusion has a name: code points from
U+40000 on (`BitsInPlace`), names with a NUL in the styled writers (`NamesWhole`), `//`
comments that end with a blank in `StyledWriter` (`BlanksTold`) and without
indentation (`LinesEnd`). These four are defects, and `DocumentedOtherwise` of
`MCJsonValues` has a document that each of them spoils. The fifth, dropped nulls
(`NullsTold`), leaves nothing to read by intent. Strings that are no UTF-8 cannot be
told in JSON. `CallEffects` says exactly when `resize` throws, and what it leaves then,
and exactly which member `removeMember` removes, the one of the name up to a NUL.

## 3. What the runs check

| run | instance | shows |
|---|---|---|
| `sessions` | 2 connections, 2 addresses, 2 messages | `DeletedOnce`, `NoDanglingEntry`, `SessionsMatch`, `LaterOnly` |
| `build_races` | 3 threads, 1 session, 2 tiles, builds and stops | `OneBuildPerSession`, `BusyIsExact`, `StopHeeded` |
| `build_liveness` | 2 threads, 1 session, 1 tile, all commands | `BuildsEnd`, `StopConsumed`, `JobsSpec` |
| `command_tracker` | 3 threads, 3 commands, 2 refusals each, 2 misreads | `LockHeld`, `AtMostOnce`, `NotForgotten`, `NoLeftover` |
| `tracker_delivery` | 2 threads, 2 commands, 2 refusals each, no misreads | `DeliverySpec`, `Delivered` |
| `pos_query` | 2 queries, 2 handlers, 2 parsers, 2 positions, 2 misreads | `TypeOK`, `KeeperClean`, `StillAwaited`, `WholePosition`, `QueriesEnd` |
| `arg_input` | 2 threads; commands of up to 5 words, quotes at every place, short of 3 bits and int of 16 | `SplitRight`, `OptionsTakeEffect` |
| `tile_lists` | sizes 0 to 4 in halves, 4 directions, 3 shapes, heights -1 to 3, 7 angles; lists of 0 to 4 positions; pictures of 2 to 4 pixels; palettes of 3 entries | `TypeOK`, `PushExact`, `FilledOnce`, `FreedOnce`, `ShapesTrue`, `FilesTrue` |
| `json_reader` | all texts of up to 3 tokens, and longer ones with one edit or two comments; 3 settings; 3 levels | `TypeOK`, `Verdict`, `OurVerdict`, `Located`, `Advances`, `ReadsEnd` |
| `json_values` | 2 calls on 3 documents; some hundreds of documents written by 8 writers, among them all scalars of a type in one array; ints of 3 bits, largest ints of 5 | `Ordered`, `Conversions`, `ReadsBack`, `CommentsReadBack`, `CallEffects` |
| `one_job_at_a_time` | refuted | two commands of a session can build together |
| `radius_given` | refuted; `-round -r 5` beside `-let data 12` | `strtok` mixes two commands |

**Bounds.** The worst that connections do to each other needs an address used
twice and a thread that is late: two connections. Two messages let one thread read
the other's. Two builds in the window, and a thread that stops them, need three
threads. Two tiles are needed for one to be sent after an unseen stop and another
to be refused. A resend that is refused again needs two refusals; a misread that
takes part in a second one needs two. The two queries race for the maps and for
`globalPos` in every pair of places.

For commands, an option, its value and a word that follows may each be anything
that is an option or is not; three words after the name have every such case, four
an option whose value is an option. The widths of the integers in `arg_input` and
`json_values` are constants, so that their edges are met. Sizes in steps of a half
have walls that are whole and cut, and sums that truncation moves towards and away
from the position; four pushes are the fewest in which
a repeated position meets a list that is out of order, three entries the fewest in
which two share a block and one is put off, and a picture of two rows and two
columns the smallest that can be turned over. For the reader, a text with one token
wrong at every place, or comments at any two, takes it through every pair of an
error and a place; nesting of three meets the limit of the stack. For calls, two
are enough to call on what a first one left.

`MaxTiles`, `MaxErrors`, `MaxMisreads`, `MaxMsgs` and `MaxCalls` are the only bounds
of the models themselves.

`MCBound` keeps TLC from storing the states of a process that is gone (they have no
successor). In `MCBuildJobs` it also restricts `build_races` to builds and stops; in
`build_liveness` it cuts only the states of an ended process, in which both goals
hold. In `MCArgInput` it lets the second thread's `-let` meet short commands only:
how long a command is has no bearing on a race for its defaults.

`CHECK_DEADLOCK FALSE` stands where the system stops: the process may end, a job or
a message ends, a document has had its calls. `command_tracker` and
`tracker_delivery` are checked for deadlock. Threads, commands, connections and
addresses are symmetric in the safety runs, which no action breaks; the liveness
runs use no symmetry.

**Fairness.** Handler threads and the loop thread are threads of the kernel,
which runs each that can run: weak fairness of each thread's steps, and of the
delivery of a pending signal. No fairness is asked of new connections, new
messages or closing. The client works off what it receives (weak fairness of
`Execute` or `Refuse`, of `Answer`), and TCP and the loop bring what was
answered to a thread: weak fairness in `PosQuery`; strong fairness per command in
`CommandTracker`, where the few threads of the model are taken in turn by other
messages, while the program starts a thread for every message. `Garbled`,
`Misread`, `Clear`'s start and disconnections are never fair. In `JsonReader` a
call runs on one thread until it returns: weak fairness of its step.

**Mutants.** Every property is broken by a slip next to the action it is about
(comments that begin with "Slip"): a dropped check, a forgotten reset, a
swapped order, a comparison turned round, the code that stands commented out in
`PLResolver::clear` and `getNMark`.

**Findings.** What the code does and a message, a comment or the documentation
denies is listed in `PROJECT.json`, with the line quoted. Two runs are refutations, for
which TLC prints a schedule: `one_job_at_a_time` and `radius_given`. The others are
behaviours the properties of passing runs state exactly, or except by name:

- A build method may loop for ever (`algorithms.cpp:31, 197-202`), and its session then
  answers "Session is still busy,please wait until current job done." (475) until it
  closes: `Endless` in `BuildsEnd`.
- `-d` is no option (`argv.cpp:127`), but "(char enum) -d <x|y|z> : Direction."
  (`README.md:23` of the program; also lines 12, 15, 17): `OptionsTakeEffect`.
- In strict mode "Comments are forbidden." (`features.h:33`), and it is "strictly
  compatible with the JSON" specification (`features.h:31`), but `{/**/}`, `[-]` and
  `{"":1,}` are read, and `[/**/]` is not where "C & C++ comments are allowed"
  (`features.h:25`). After a value and a comment a reader takes any token for a comma:
  `{"a":1 /**/ [ "b":2}` is read (`json_reader.cpp:508-512`). "only one error can be
  returned" (`reader.h:130`), but with `strictRoot` there may be two: `Verdict`.
- `OurReader` is said to be an "exact copy of Reader" (`json_reader.cpp:919`), and is
  not, and with `failIfExtra` it accepts a text that goes on behind a NUL
  (`reader.h:325`): `OurVerdict`.
- Code points from U+40000 on are written as others, for `<< 24`
  (`json_writer.cpp:213`); the styled writers cut names at a NUL (467, 684), which "may
  contain embedded nulls" (`value.h:498`); a `//` comment swallows what follows if it
  ends with a blank (564) or without indentation (1063): `ReadsBack`.
- `resize` of an array with a gap fails its own assertion (`json_value.cpp:997` against
  `value.h:411-415`), and `removeMember` of a name with a NUL removes another member
  (1202 against `value.h:526`): `CallEffects`.

The rest was met on the way and is only described here, since no line that denies it
was found, or none that a run of these models could be held against:

- A stop may end the job of another session, or one that begins later, and the session
  that asked goes on building (`algorithms.cpp:471`).
- A kill may hit another session's thread, where the id in `busythr` is in use
  again (`main.cpp:218`).
- A close that overtakes `onConnection` leaves a session that nobody deletes, or
  that takes the next one's place (`main.cpp:272, 284`): `overtaken`.
- SIGINT between delete and erase deletes a session twice (`main.cpp:287-288,
  116-127`): `cut`.
- An ellipsoid is tested at `x+1` (`algorithms.cpp:181`); an error as the answer to
  `-get pos` sets the position to 0,0,0 (`algorithms.cpp:493`), and the text it is
  told in is printed into 32 characters (`algorithms.cpp:496`).
- `asInt64` and `asUInt64` let the double 2^63 or 2^64 pass, since the bound they
  compare with is rounded up to it, and cast it to an integer it is not in the range
  of, which is undefined (`json_value.cpp:786-788, 807-809`). `isInt64` and `isUInt64` do not
  let it pass. `Converts` says so of these two doubles and no others.
- The fill command is printed into 256 characters with the block's name of `-b`
  (`algorithms.cpp:328-330`); texts have no lengths in the models, so that no property
  is about it.
- `-r 2.5` at a negative position is off its centre by a block (`algorithms.cpp:34`).
- `-let block` assigns a string that other threads copy (`argv.cpp:113`): `StringRace`.
- `OurReader::decodeNumber` negates the least integer (`json_reader.cpp:1585-1610`), a
  signed overflow; it comes out right in the builds there are, and is not modelled.
- `pushError` sets the end of its error to `end_` plus an offset
  (`json_reader.cpp:857-890`); the model has the locations as the code has them.

## 4. What is proved

| module | proves of | besides `TypeCorrect` |
|---|---|---|
| `BuildJobs_proofs` | `BuildJobs` | `OneBuild`, `BusyExact`, `StopIsHeeded`, `KillIsHandled`; `KeepsJobs`: a session implements `Jobs` |
| `CommandTracker_proofs` | `CommandTracker` | `LockDiscipline`, `NeverForgotten`, `NothingLeftOver`, `OnceOnly`; with `MaxMisreads = 0`, `KeepsDelivery`: the resolver implements `Delivery` |
| `PosQuery_proofs` | `PosQuery` | `NothingKept`, `AnswerComes`, `PositionIsWhole` |
| `Sessions_proofs` | `Sessions` | `OnlyOnce`, `NoEntryDangles`, `Matching`, `NeverEarlier` |
| `ArgInput_proofs` | `ArgInput` | `SplitIsRight`, `OptionsHold` |
| `TileLists_proofs` | `TileLists`, `Shapes`, `Pictures` | `PushedOnce`, `TilesFilledOnce`, `BlocksFreedOnce`, `ShapesAsNamed`, `FilesAsGiven` |
| `Json_proofs` | `JsonReader`, `JsonNumbers` | `ReportsFailure`, `ValuesLocated`, `StepsAdvance`; `NumbersConvert` |
| `LoopLemmas` | `Loops` | induction up to a number, functions defined by recursion, sequences, `Min` and `Max` |

Each holds for every number of threads, sessions, connections, addresses, commands,
queries, tiles, messages and refusals, every set of texts and messages, every size,
position, direction and list of angles, every picture, structure, color table and
palette; for `Reader`, every text, set of features and limit of the stack, and for
the conversions every width. That is every safety property the runs check outside of
jsoncpp, and of jsoncpp what the operators without recursion can say.

**Assumptions.** Those of the modules, no others. The null values are no threads,
sessions, commands, addresses or answers and differ from each other, and the bounds
are natural numbers. `ArgInput`: the widths of the integers fit each other, 15000
(the default of `tick`) is an `unsigned`, `std::stoi` gives ints, and what it reads
`std::stod` reads too. `Shapes`: cosines and sines lie between -1 and 1.
`Pictures`: the color table is not empty and has colors of three bytes. `TileLists`:
rows of a picture are as long as its header says, which libpng sees to.
`JsonReader`: texts are sequences of tokens, the empty name is one of `Names`, and
`stackLimit_g` is at least 1. `JsonNumbers`: the smaller integers are narrower than
the larger, and NaN and the result of an undefined cast are no integers.

**BuildJobs.** None of the properties is inductive. Mutual exclusion follows
from `AtMostOneClaim`: of all threads past the busy check of a build, until
`busy` is reset, there is one per sound session. A thread enters that region by
`BusyPassed` only (`ClaimEntry`), when `busy` is clear; `BusyIsExact` then says
that nobody is between the assignments, and if somebody is in the window the
session becomes tainted. The two therefore carry each other and are proved
together. A disconnection makes a session unsound at once and `LoopInv` keeps it
so until it is deleted and no longer mapped; a session built in its place is
tainted if anybody still points to it. `HeedInv` ties a counted tile to the
place before the next poll, and `HandlerInv` follows every thread that can
become a victim back to `InstallHandler`.

`KeepsJobs` looks at one session at a time: a step of a thread moves the session the
thread points to and no other (`OthersSame`), one of the loop thread closes or opens
the session it is at. What is hard is that stuck is left by a close only. `EntryInv`
says that in a sound session nobody is in the window while `busy` is set, so nobody
can begin a job of a session that is stuck; and only the job's own thread
or the end of that thread takes it out of `Builders` (`OwnMoves`).

**CommandTracker.** `TrackInv` says that a command without effect is in `pkmap`
or about to be, so that its error finds it there; `OkInv` that whoever removes an
entry removes one with effect; `PendingInv` that an entry still has an answer to
come. `FewTokens` is the heart of `OnceOnly`: copies on the wire, errors on
their way back, threads that resend and effects, counted together, are at most one
more than the errors that were handled twice, and none before the command is sent.
Each step moves a token or drops it (`TokenMoves`); a misread error adds one, which
`doubled` counts. `OneToken`, the same without misreads, carries the refinement of
`Delivery`, which a doubled command would break.

**PosQuery.** `KeeperInv` puts an answer at one place of the keeper at a time: its
mark waits for it, one handler holds it, or it is stored, and its query polls all
the while. Two handlers hold it only if the second found the mark before the first
erased it, which `twice` records; of such a query all that is left is that its mark
goes before the first answer is stored, whoever erases it. `AwaitInv` strengthens `StillAwaited` by the query's time between its
send and its mark, in which the answer may come too early and is then recorded in
`missed`. `WholeInv` ties x to z wherever no `setPos` is halfway, and the
coordinate a parser has read to the one it is going to read.

**Sessions.** `MapInv` says that an entry stands under the address of its own
session's connection: a session is thus in `FBSMap` once, and deleted once.
`ConnInv` gives an address to one open connection, and to none while the close
handler is at work for it; `MatchInv` is `SessionsMatch` with what that handler
has still to do. `SlotInv` says that the slot holds the last message received or
garbage, from which `LaterOnly` follows read by read.

**ArgInput.** `split` and `FlattenSeq`, to which it is compared, are recursive
functions. The lemmas `SplitIsLast` and `FlattenIsLast` show that the functions
exist and obey their equations, `SplitStep` that with each word the group is open
when the quotes before say so, no text is lost, and the words of the result start
where a group is closed; `SplitExact` is the sum of it for any list of words.
An undisturbed thread has a prefix of its message's words in `raw`, and `strtok` stands
in its buffer before the next of them, until another thread calls, which puts it into
`mixed`: `Gets`, kept by each step of a call (`TakeUpGets`, `CutGets`, `SaveGets`)
and by the steps of others (`ApartGets`). What `split` and the loop do is proved of any
words that `strtok` may have given.
`OptionsTakeEffect` looks at a whole command at once, the loop at one word at a time:
`ReachedStep` shows that a word is read as an option unless the one before is an
option and was read so, which is the loop's step of one or two. `Hold`, the
invariant of one thread, says with `Takes` that the members are as the options
*before* the index say; it is stated over values and not over variables, so that
the steps of one thread cannot disturb another's (`Frame`).

**TileLists.** `JobInv` says that the plan is one that a command, a curve or a file
makes. `PushInv`: what is in `sort` are numbers of distinct pushes in distinct places,
and each place pushed is there, or excluded by the test of `push`. `TileInv` and
`LateInv` divide the tiles: those behind the loop's index are sent or put off and
never both, and the second loop's are those still to be sent. `FreeInv` says that a
block is deleted once an entry that refers to it is gone. The scan of `push` may
return any index of the list (`ScanRange`); nothing that is proved depends on which.

**Shapes.** `PushedApart`: round, circle, sphere and ellipse of whole sizes push no place twice, since the
loops' offsets are distinct numbers of one parity and truncation keeps such numbers
apart (`ShiftedEven`). `PushedCentral`: the tests and the truncation are even or odd
functions of the offsets, so the mirror image of what is pushed is pushed; for halves
`PlusNear` and `PushedNear` say that the cut leaves the two together within a block
of it. `RingBound`: a sum of products of cosines is within the sum of the sizes, and
rounding adds half a block, for any list of angles. `StaysInside`: from a place within a circle or hollow sphere one step leads to a place within or one
that is pushed: a step changes the distance by less than the thickness of the wall
(`SquareLess`, `InnerStep`), or meets the edge of the loops.

**Pictures.** `findMin` keeps an index of a least distance *after* the cut to an int
(`FindMinLeast`), and what is cut off cannot change the order (`FloorLess`):
`NearestBlock`. The cells of a picture are numbered row by row; quotient and remainder
by the width tell the pixel of each (`CellNumber`, `CellDrawn`), and the stride its
bytes in the row counted from the end (`PixelRead`). For structures `MetaFits` shows
that the palette search ends with the name asked for.

**JsonReader.** The values are a function on paths, and the stack is one path, to the
value at hand. `StackInv` and `TreeInv` say that the stack fits the place of the call,
that every value lies in a container of its kind, and those on the stack are open;
`Kinds` sorts the actions by their effect on values and stack (`StepKinds`),
and the rest is proved of these. `ErrorInv` is `ReportsFailure` between two tokens.
`LastInv` keeps `lastValue_` from what can be read again, and so destroyed: it is not
below the value at hand, except beside it. Offsets: of the values open and finished
at a location, `Nests` says that a value begins after its container, ends before it,
and is apart from its siblings; each kind of step keeps it (`NestsOpened`, `NestsRead`,
`NestsEnded`). It breaks where an error was met or a placeholder dropped, and `Good`
leaves these out. Comments: in a text without a name twice (`Once`) a value is new when
it is read, since the names of its siblings were read before it (`NameInv`) and an
array's indices count up (`CountInv`). Then `LastEnds`: the last value is the one that
ended last; `WaitingInv`: the comments that wait follow everything that has begun;
and `BesideInv` puts each comment that is set next to its value. With a name twice the
second value takes the place and the comments of the first, and none of this holds.
`Advances` counts: what a step does not take off the text, it takes off `Rank`, five
for each level of the stack and up to four within one.

**JsonNumbers.** A range of integers is compared with doubles in halves. `WholeIn`
turns "is an integer of the range" into two comparisons and a remainder, and
`TruncatedIn` says that a truncation stays in a range around 0. The types are taken one
by one; the two bounds that are rounded up leave one double each between what passes
and what fits.

**What the attempts found.** A message with a dash and no word, which the code cannot be
given, had to be excluded by name (`Message`), and an `unsigned` too narrow for 15000.
That the conversions of `JsonNumbers` are defined whenever they do not throw is false,
for the two doubles above. Each was stated in the modules; the runs pass as before.

## 5. What is only model-checked, and what is not modelled

Only model-checked:

- Liveness (`BuildsEnd`, `StopConsumed`, `Delivered`, `QueriesEnd`, `ReadsEnd`):
  fairness is out of the prover's reach.
- In jsoncpp, that `Reader` accepts and builds what the grammar says (`Verdict` but for
  `Reported`), that the readers agree (`OurVerdict`), and of values and writers `Ordered`,
  `ReadsBack`, `CommentsReadBack`, `CallEffects` and the conversion to strings:
  `OurReader`, the grammar, the comparison and the writers are recursive operators,
  and what they compute is compared on bounded documents.

Not modelled:

- In jsoncpp: messages of errors and line numbers, `allowSpecialFloats` and
  `allowSingleQuotes`, streams, the text of a `Path`, iterators, the memory of
  strings, indentation strings and precision. They are formatting, or conveniences
  the server does not use. Its tests are read as documentation.
  Signed overflow in `OurReader::decodeNumber`, names of 2^30 bytes, forms of
  numbers such as `01` and `1.`, and what an apostrophe makes of a token of several
  characters behind it.
- PNG and NBT decoding (libpng and an NBT library, which are not in the
  repository): a picture is its rows of bytes, a structure its palette and blocks.
- The log, the profile and the generated tables: output and data. The stack that the
  crash handler prints.
- `-let block` as a data race short of a crash: `StringRace` ends the process.
- The rounding of sines and cosines in torus, cone and ellipticTorus, and sizes that
  are no multiples of a half.
- A kill that ends a thread while it holds `pkmutex`: it needs `BuildJobs` and
  `CommandTracker` composed. A command the client refuses for ever is resent for
  ever; it lies beyond `MaxErrors`. Both are in the list of hazards.

## 6. Plan

What would come next: the composition of `BuildJobs` with `CommandTracker`, with
threads that wait for a `pkmutex` whose holder was killed.
