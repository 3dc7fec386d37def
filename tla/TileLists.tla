------------------------------ MODULE TileLists ------------------------------
(***************************************************************************)
(* The data of one build job.  A build method pushes positions into a      *)
(* session, or positions with blocks into a csession (core/algorithms.h);  *)
(* setTile, setLongTile or setCTile (core/algorithms.cpp) sends a fill     *)
(* command for each; the list is deleted.                                  *)
(*                                                                         *)
(* A Vec3* is the number of the push that made it, so `sort' is a sequence *)
(* of such numbers.  The job's thread alone touches these lists.           *)
(***************************************************************************)
EXTENDS Shapes, Pictures

CONSTANTS
    Commands,    \* parsed commands of the methods of Shapes
    Curves,      \* more lists of positions torus, cone and ellipticTorus may push
    Files,       \* the files Paint and buildNBT may find
    LastPlace,   \* names in palette_last_place
    NoBlock, NoFile

\* What the parser's double and int values are; the sizes are in halves.
ASSUME CommandsAssumption == \A c \in Commands :
    c.type \in Types /\ {c.r, c.l, c.w, c.h} \subseteq Int /\ c.at \in Place

ASSUME CurvesAssumption == Curves \subseteq Seq(Place)

ASSUME FilesAssumption == \A f \in Files : Picture(f) /\ Structure(f)

IntMax == 2147483647

VARIABLES
    kind,        \* "simple", "curved" (needMD) or "custom"
    cmd,         \* the parsed command
    lp,          \* csession::lp
    source,      \* the file the plan comes from, or NoFile
    plan,        \* what the method pushes: positions and blocks
    pushed,      \* how many of these it has pushed
    sort,        \* session::sort, csession::sort
    phase,
    tile,        \* entries of sort the loop is through with
    late,        \* the map of tiles put off by setCTile
    fills,       \* tiles a fill command was sent for, in order
    stopped,     \* the loop was left for a stop
    vmap,        \* entries not yet deleted
    deleted,     \* csession::deleted
    frees        \* history: how often each block was deleted

jobVars  == <<kind, cmd, lp, source, plan>>
listVars == <<pushed, sort>>
tileVars == <<tile, late, fills, stopped>>
freeVars == <<vmap, deleted, frees>>
vars == <<jobVars, listVars, phase, tileVars, freeVars>>

Phases == {"push", "tiles", "late", "free", "done"}
CurveCmd == [type |-> "torus", h |-> 1]
Origin == <<0, 0, 0>>

At(n) == plan[n].at
Block(n) == plan[n].block
Name(n) == plan[n].name
OnlyAt(s) ==
    [n \in DOMAIN s |-> [at |-> s[n], block |-> NoBlock, name |-> NoBlock, data |-> 0]]

Start(k, c, l, f, p) ==
    /\ kind = k /\ cmd = c /\ lp = l /\ source = f /\ plan = p
    /\ pushed = 0 /\ sort = <<>>
    /\ phase = "push"
    /\ tile = 0 /\ late = {} /\ fills = <<>> /\ stopped = FALSE
    /\ vmap = {} /\ deleted = {} /\ frees = [b \in {p[n].block : n \in DOMAIN p} |-> 0]

\* Paint makes a csession, buildNBT one with lp; a null list ends in BuildJobs.
Init ==
    \/ \E c \in Commands :
        Start(IF c.type \in Curved THEN "curved" ELSE "simple", c, FALSE, NoFile, OnlyAt(Pushed(c)))
    \/ \E s \in Curves : Start("curved", CurveCmd, FALSE, NoFile, OnlyAt(s))
    \/ \E f \in Files, l \in BOOLEAN :
        LET list == IF l THEN buildNBT(f, 0, 0, 0) ELSE Paint(f, 0, 0, 0) IN
        list # NoList /\ Start("custom", CurveCmd, l, f, list)

-----------------------------------------------------------------------------
(* session::push and csession::push *)

\* Slip: the height is not compared
SamePlaceFlat(p, q) == p[1] = q[1] /\ p[3] = q[3]

SamePlace(p, q) == p = q

Exceeds(p, q) == p[1] > q[1] \/ p[2] > q[2] \/ p[3] > q[3]
Below(p, q) == p[1] < q[1] /\ p[2] < q[2] /\ p[3] < q[3]

\* The scan for smallestVec: the index, from 0, before which p is inserted.
InsertionIndex(p) ==
    LET scan[k \in 0..Len(sort)] ==
            IF k = 0 THEN [c |-> 0, vec |-> <<IntMax, IntMax, IntMax>>]
            ELSE LET q == At(sort[k])
                     best == scan[k - 1]
                 IN  IF Exceeds(q, p) /\ Below(q, best.vec)
                     THEN [c |-> k - 1, vec |-> q] ELSE best
    IN  scan[Len(sort)].c

Push ==
    /\ phase = "push" /\ pushed < Len(plan)
    /\ pushed' = pushed + 1
    /\ LET n == pushed + 1 IN
       sort' = IF /\ kind = "curved"
                  /\ \E k \in DOMAIN sort : SamePlace(At(sort[k]), At(n))
               THEN sort
               ELSE InsertAt(sort, InsertionIndex(At(n)) + 1, n)
    /\ UNCHANGED <<jobVars, phase, tileVars, freeVars>>

\* The method returns the list.
Planned ==
    /\ phase = "push" /\ pushed = Len(plan)
    /\ phase' = "tiles"
    /\ vmap' = ToSet(sort)
    /\ UNCHANGED <<jobVars, listVars, tileVars, deleted, frees>>

-----------------------------------------------------------------------------
(* setTile, setLongTile, setCTile *)

\* getMethod: one command per column, or per block
Long == kind # "custom" /\ cmd.h # 1 /\ cmd.type \notin {"cone", "ellipsoid", "pyramid"}

\* The second y of the fill command
Top(n) == IF Long THEN At(n)[2] + cmd.h - 1 ELSE At(n)[2]

\* The blocks the client fills; it takes the corners in either order.
Filled(n) ==
    LET p == At(n) IN
    {<<p[1], y, p[3]>> : y \in p[2]..Top(n) \cup Top(n)..p[2]}

\* A block that needs another to stand on is put off to a second loop.
PutsOff(n) == kind = "custom" /\ lp /\ Name(n) \in LastPlace

\* Slip: without the continue
PutOffAndFill ==
    /\ phase = "tiles" /\ tile < Len(sort)
    /\ PutsOff(sort[tile + 1])
    /\ tile' = tile + 1
    /\ late' = late \cup {sort[tile + 1]}
    /\ fills' = Append(fills, sort[tile + 1])
    /\ UNCHANGED <<jobVars, listVars, phase, stopped, freeVars>>

PutOff ==
    /\ phase = "tiles" /\ tile < Len(sort)
    /\ PutsOff(sort[tile + 1])
    /\ tile' = tile + 1
    /\ late' = late \cup {sort[tile + 1]}
    /\ UNCHANGED <<jobVars, listVars, phase, fills, stopped, freeVars>>

\* Slip: the loop's step is taken twice
SendTileSkips(stop) ==
    /\ phase = "tiles" /\ tile < Len(sort)
    /\ ~PutsOff(sort[tile + 1])
    /\ tile' = tile + 2
    /\ fills' = Append(fills, sort[tile + 1])
    /\ stopped' = stop
    /\ phase' = IF stop THEN "free" ELSE "tiles"
    /\ UNCHANGED <<jobVars, listVars, late, freeVars>>

\* A fill command is sent; a stop that stands ends the loop.
SendTile(stop) ==
    /\ phase = "tiles" /\ tile < Len(sort)
    /\ ~PutsOff(sort[tile + 1])
    /\ tile' = tile + 1
    /\ fills' = Append(fills, sort[tile + 1])
    /\ stopped' = stop
    /\ phase' = IF stop THEN "free" ELSE "tiles"
    /\ UNCHANGED <<jobVars, listVars, late, freeVars>>

TilesEnd ==
    /\ phase = "tiles" /\ tile = Len(sort)
    /\ phase' = "late"
    /\ UNCHANGED <<jobVars, listVars, tileVars, freeVars>>

\* The second loop goes over a map of pointers, in the order of the addresses.
SendLate(stop) ==
    /\ phase = "late"
    /\ \E n \in late :
          /\ late' = late \ {n}
          /\ fills' = Append(fills, n)
    /\ stopped' = stop
    /\ phase' = IF stop THEN "free" ELSE "late"
    /\ UNCHANGED <<jobVars, listVars, tile, freeVars>>

LateEnd ==
    /\ phase = "late" /\ late = {}
    /\ phase' = "free"
    /\ UNCHANGED <<jobVars, listVars, tileVars, freeVars>>

-----------------------------------------------------------------------------
(* delete sess: ~session and ~csession *)

\* ~session
DeleteSession ==
    /\ phase = "free" /\ kind # "custom"
    /\ vmap' = {}
    /\ phase' = "done"
    /\ UNCHANGED <<jobVars, listVars, tileVars, deleted, frees>>

\* Slip: what is deleted is not remembered
DeleteEntryBlindly ==
    /\ phase = "free" /\ kind = "custom"
    /\ \E n \in vmap :
          /\ vmap' = vmap \ {n}
          /\ frees' = [frees EXCEPT ![Block(n)] = @ + 1]
    /\ UNCHANGED <<jobVars, listVars, phase, tileVars, deleted>>

\* ~csession: the entries of vmap in the order of their addresses; several may
\* have the same block.
DeleteEntry ==
    /\ phase = "free" /\ kind = "custom"
    /\ \E n \in vmap :
          /\ vmap' = vmap \ {n}
          /\ IF Block(n) \in deleted
             THEN UNCHANGED <<deleted, frees>>
             ELSE /\ frees' = [frees EXCEPT ![Block(n)] = @ + 1]
                  /\ deleted' = deleted \cup {Block(n)}
    /\ UNCHANGED <<jobVars, listVars, phase, tileVars>>

Deleted ==
    /\ phase = "free" /\ kind = "custom" /\ vmap = {}
    /\ phase' = "done"
    /\ UNCHANGED <<jobVars, listVars, tileVars, freeVars>>

-----------------------------------------------------------------------------
Next ==
    \/ Push \/ Planned
    \/ PutOff \/ TilesEnd \/ LateEnd
    \/ \E stop \in BOOLEAN : SendTile(stop) \/ SendLate(stop)
    \/ DeleteSession \/ DeleteEntry \/ Deleted

Spec == Init /\ [][Next]_vars

-----------------------------------------------------------------------------
(* Properties *)

Places(S) == {At(n) : n \in S}
Ended == phase = "done" /\ ~stopped

TypeOK ==
    /\ kind \in {"simple", "curved", "custom"} /\ lp \in BOOLEAN
    /\ pushed \in 0..Len(plan)
    /\ sort \in Seq(1..pushed)
    /\ phase \in Phases
    /\ tile \in 0..Len(sort)
    /\ late \subseteq ToSet(sort) /\ vmap \subseteq ToSet(sort)
    /\ fills \in Seq(ToSet(sort))
    /\ stopped \in BOOLEAN
    /\ deleted \subseteq DOMAIN frees
    /\ frees \in [{Block(n) : n \in DOMAIN plan} -> Nat]

\* Sizes that are whole numbers, of the methods that push a position once
Whole(c) == {c.r, c.l, c.w} \subseteq {2 * n : n \in 0..c.r + c.l + c.w}
Distinct ==
    \/ kind = "curved"
    \/ /\ kind = "simple" /\ Whole(cmd)
       /\ cmd.type \in {"round", "circle", "sphere", "ellipse"}

\* push loses no position whatever place the scan finds, and where a list is
\* one of distinct positions (those of needMD, and of whole sizes) no position
\* is in it twice (algorithms.h:65-84, 120-154).
PushExact ==
    /\ Places(ToSet(sort)) = Places(1..pushed)
    /\ kind # "curved" => Len(sort) = pushed
    /\ Distinct => \A i, j \in DOMAIN sort : At(sort[i]) = At(sort[j]) => i = j

\* The types whose height, if they have one, is no height of columns
OwnHeight == kind = "custom" \/ cmd.type \in {"ellipsoid", "pyramid", "cone"}

\* The blocks above a position: a column of the height that was given, or one
\* block.  With a height below 1 the code fills downwards (Filled).
Column(p) ==
    {<<p[1], p[2] + k, p[3]>> : k \in 0 .. (IF OwnHeight THEN 1 ELSE cmd.h) - 1}

\* No tile is sent twice, in one loop or in both; a block that needs another to
\* stand on comes after all those that do not, in whatever order the second loop
\* takes them; and a job that is not stopped has sent all tiles and so filled the
\* columns of its positions (setLongTile and setCTile, algorithms.cpp:342-424).
FilledOnce ==
    /\ \A i, j \in DOMAIN fills : fills[i] = fills[j] => i = j
    /\ lp => \A i, j \in DOMAIN fills :
                i < j /\ Name(fills[i]) \in LastPlace => Name(fills[j]) \in LastPlace
    /\ Ended => ToSet(fills) = ToSet(sort)
    /\ Ended /\ (OwnHeight \/ cmd.h >= 1) =>
          UNION {Filled(n) : n \in ToSet(fills)}
            = UNION {Column(p) : p \in Places(1 .. Len(plan))}

\* ~csession deletes each block of vmap once, however many entries share it and
\* in whatever order they come, after a stop as well (algorithms.h:94-110).
FreedOnce ==
    /\ \A b \in DOMAIN frees : frees[b] <= 1
    /\ phase = "done" /\ kind = "custom" => \A b \in DOMAIN frees : frees[b] = 1

\* The structures that a point reflection at their position leaves alone
Central(c) ==
    \/ c.type \in {"round", "circle", "sphere"}
    \/ c.type = "ellipse" /\ c.dir # "z"

\* The structures that are to have an inside and an outside
Hollow(c) ==
    /\ Whole(c) /\ c.r > 0
    /\ \/ c.type = "circle" /\ c.dir \in {"x", "y", "z"}
       \/ c.type = "sphere" /\ c.shape = "hollow"

\* A sum with half a block is cut towards 0, so that it is off by at most a block.
Slack(c) == IF Whole(c) THEN 0 ELSE 1

\* It lies evenly around its position, wherever that is.
Symmetric ==
    kind # "custom" /\ Ended /\ Central(cmd) =>
        \A p \in Places(ToSet(sort)) : \E q \in Places(ToSet(sort)) :
            \A k \in 1..3 : p[k] + q[k] - 2 * cmd.at[k] \in -Slack(cmd) .. Slack(cmd)

\* The coordinate along the axis of a ring
Axis(c) ==
    CASE c.dir = "y" -> 2
      [] c.dir = (IF c.type = "torus" THEN "z" ELSE "x") -> 1
      [] OTHER -> 3

Size(D) == IF D < 0 THEN -D ELSE D

\* A ring reaches no further than its radius and its tube together, and along its
\* axis no further than its tube is high, up to the rounding of half a block.
RingBounded ==
    kind = "curved" /\ cmd # CurveCmd /\ Ended /\ cmd.type \in {"torus", "ellipticTorus"} =>
        \A p \in Places(ToSet(sort)), k \in 1..3 :
            2 * Size(p[k] - cmd.at[k]) <= 1 + IF k # Axis(cmd) THEN Size(cmd.r) + Size(cmd.l)
                                             ELSE Size(IF cmd.type = "torus" THEN cmd.l ELSE cmd.w)

Neighbours(p) == {[p EXCEPT ![k] = @ + d] : k \in 1..3, d \in {-1, 1}}
Dist2(p, q) == Sq(p[1] - q[1]) + Sq(p[2] - q[2]) + Sq(p[3] - q[3])

\* It lets nobody out, a circle within its plane: no free place nearer to the
\* position than the radius has a free neighbour that is not.
Watertight ==
    kind = "simple" /\ Ended /\ Hollow(cmd) =>
        LET r == cmd.r \div 2
            span(k) ==
                IF cmd.type = "circle" /\ cmd.dir = <<"x", "y", "z">>[k] THEN {cmd.at[k]}
                ELSE cmd.at[k] - r .. cmd.at[k] + r
            room == span(1) \X span(2) \X span(3)
            free == room \ Places(ToSet(sort))
            inside == {p \in free : Dist2(p, cmd.at) < Sq(r)}
        IN  \A p \in inside : Neighbours(p) \cap free \subseteq inside

\* A structure is what its name says, at every position and in every direction:
\* round, circle, sphere and ellipse (but in direction z) lie evenly around their
\* position, exactly for whole sizes and to a block for halves, which y+i cuts to an
\* int; a circle or a hollow sphere of whole size has no hole; and a ring of any
\* angles stays within its sizes (algorithms.cpp:25-323).
ShapesTrue == Symmetric /\ Watertight /\ RingBounded

Tiles == {[at |-> At(fills[n]), name |-> Name(fills[n]), data |-> plan[fills[n]].data] :
            n \in DOMAIN fills}

\* It lies on the ground with its top row in the north and its left column in the
\* west, and every block is one whose distance to its pixel, cut to an int, is
\* least.
PictureTrue ==
    kind = "custom" /\ ~lp /\ Ended /\ source.bitDepth = 8 =>
        /\ Cardinality(Places(ToSet(sort))) = source.width * source.height
        /\ \A r \in 1 .. source.height, c \in 1 .. source.width :
            LET pixel == [k \in 1 .. 3 |-> source.rows[r][(c - 1) * source.channels + k]]
                away(e) == Floor(ColorDistance(pixel, e.color))
            IN \E e \in ToSet(colormap) :
                /\ [at |-> <<c - 1, 0, r - 1>>, name |-> e.name, data |-> e.data] \in Tiles
                /\ \A d \in ToSet(colormap) : away(e) <= away(d)

\* Every block is built that has an entry in the palette, is not air and not the
\* upper half of a door, with the name of its own entry and the data of a table
\* state that fits its properties.
StructureTrue ==
    kind = "custom" /\ lp /\ Ended =>
        LET solid == {b \in ToSet(source.blocks) : b.state \in DOMAIN source.palette
                        /\ LET item == source.palette[b.state] IN
                            item.name # "air" /\ ~(item.door /\ item.half = "upper")}
        IN /\ {t.at : t \in Tiles} = {b.pos : b \in solid}
           /\ \A b \in solid : \E t \in Tiles :
                LET item == source.palette[b.state] IN
                /\ t.at = b.pos /\ t.name = item.name
                /\ LET fit == {e \in ToSet(States(item)) : ~Contradicts(e.state, item.props)}
                   IN IF fit = {} THEN t.data = 0 ELSE \E e \in fit : t.data = e.meta

\* What is built is what is in the file: pictures of three or four channels of a
\* byte (fbscript.cpp:22-140) and structures (fbscript.cpp:142-199).
FilesTrue == PictureTrue /\ StructureTrue
=============================================================================
