------------------------------ MODULE Pictures ------------------------------
(***************************************************************************)
(* What "-paint" and "-NBT" push (core/fbscript.cpp): a sequence of        *)
(* positions with the block, its name and data.  A block is named by what  *)
(* made it: the push itself for a picture, the palette entry for a         *)
(* structure, whose entries of one state share it.                         *)
(*                                                                         *)
(* A PNG is its size, channels and rows of bytes, as libpng reads them; an *)
(* NBT structure its palette and blocks.  The tables colormap (generated)  *)
(* and palette_json are constants.                                         *)
(***************************************************************************)
EXTENDS Loops, SequencesExt, FiniteSets, FiniteSetsExt

CONSTANTS
    colormap,       \* entries [name, data, color]
    palette_json,   \* per name: a sequence of [state, meta], or no entry
    NoList,         \* nullptr
    NoProperties    \* of an entry without them

Byte == 0 .. 255

ASSUME ColormapAssumption ==
    /\ colormap \in Seq(ToSet(colormap)) /\ colormap # <<>>
    /\ \A e \in ToSet(colormap) : e.color \in Byte \X Byte \X Byte

ASSUME PaletteAssumption == \A n \in DOMAIN palette_json :
    palette_json[n] \in Seq(ToSet(palette_json[n]))

\* What libpng reads: rows of the bytes of their pixels
Picture(f) == f.kind = "png" =>
    /\ {f.width, f.height, f.channels, f.bitDepth} \subseteq Nat \ {0}
    /\ f.rows \in Seq(Seq(Byte)) /\ Len(f.rows) = f.height
    /\ \A r \in ToSet(f.rows) : Len(r) = (f.width * f.bitDepth * f.channels) \div 8

\* What the NBT library reads: entries of a palette and blocks that name them
Structure(f) == f.kind = "nbt" =>
    /\ f.palette \in Seq(ToSet(f.palette))
    /\ f.blocks \in Seq([state : Int, pos : Int \X Int \X Int])
    /\ \A item \in ToSet(f.palette) : item.door \in BOOLEAN

-----------------------------------------------------------------------------
(* The block for a color *)

\* The radicand; green is compared with color1's red.
ColorDistance(c1, c2) ==
    LET rmean == (c1[1] + c2[1]) \div 2
        red == c1[1] - c2[1]  green == c1[1] - c2[2]  blue == c1[3] - c2[3]
    IN ((512 + rmean) * red * red) \div 256 + 4 * green * green
       + ((767 - rmean) * blue * blue) \div 256

\* The float's conversion to int, of a distance whose square is n
Floor(n) == CHOOSE k \in 0 .. n : k * k <= n /\ (k + 1) * (k + 1) > n

\* Slip: the comparison is turned round.
findMinLast(t) ==
    LET f[n \in DOMAIN t] ==
            IF n > 1 /\ t[n] >= f[n - 1].min * f[n - 1].min THEN [min |-> Floor(t[n]), index |-> n]
            ELSE IF n = 1 THEN [min |-> Floor(t[1]), index |-> 1] ELSE f[n - 1]
    IN f[Len(t)].index

\* t[n] < min compares a float with an int, the last minimum cut
findMin(t) ==
    LET f[n \in DOMAIN t] ==
            IF n = 1 THEN [min |-> Floor(t[1]), index |-> 1]
            ELSE IF t[n] < f[n - 1].min * f[n - 1].min THEN [min |-> Floor(t[n]), index |-> n]
            ELSE f[n - 1]
    IN f[Len(t)].index

Distances(c) == [k \in DOMAIN colormap |-> ColorDistance(c, colormap[k].color)]
getBlock(c) == colormap[findMin(Distances(c))]

-----------------------------------------------------------------------------
(* draw: from min to max in x, then the row before in z *)

draw(list, w, h, x, y, z) ==
    LET at[t \in DOMAIN list] ==
            IF t = 1 THEN <<x, y, z + h - 1>>
            ELSE IF at[t - 1][1] + 1 = w + x THEN <<x, y, at[t - 1][3] - 1>>
            ELSE [at[t - 1] EXCEPT ![1] = @ + 1]
    IN [t \in DOMAIN list |->
           [at |-> at[t], block |-> t, name |-> list[t].name, data |-> list[t].data]]

Stride(img) == (img.width * img.bitDepth * img.channels) \div 8

\* Slip: the rows are stored top down.
DataTopDown(img) ==
    [k \in 0 .. img.height * Stride(img) - 1 |->
        img.rows[1 + (k \div Stride(img))][1 + (k % Stride(img))]]

\* png_read_image with rowPtrs: the first row goes to the end of the buffer.
Data(img) ==
    [k \in 0 .. img.height * Stride(img) - 1 |->
        img.rows[img.height - (k \div Stride(img))][1 + (k % Stride(img))]]

\* A byte is a channel, whatever bitDepth is; the fourth channel is written
\* behind the end of a vector of three, into room the allocator leaves.
Paint(img, x, y, z) ==
    IF img.kind # "png" \/ img.channels < 3 THEN NoList
    ELSE LET data == Data(img)
             color(p) == [c \in 1 .. 3 |-> data[(p - 1) * img.channels + c - 1]]
             list == [p \in 1 .. img.width * img.height |-> getBlock(color(p))]
         IN draw(list, img.width, img.height, x, y, z)

-----------------------------------------------------------------------------
(* buildNBT *)

UpperDoor(item) == item.door /\ item.half = "upper"

\* The first entry of the table that contradicts none of the item's properties
Contradicts(state, props) == \E k \in DOMAIN state \ {"shape"} :
    k \in DOMAIN props /\ props[k] # state[k]
States(item) == IF item.name \in DOMAIN palette_json THEN palette_json[item.name] ELSE <<>>

\* item.at() of a tag that is not there throws: a door without its half, an item
\* without Properties whose table entry has a key to look up.
Throws(item) ==
    \/ item.door /\ item.half = "none"
    \/ /\ item.props = NoProperties /\ ~UpperDoor(item)
       /\ States(item) # <<>> /\ DOMAIN States(item)[1].state \ {"shape"} # {}

Fits(item) == {n \in DOMAIN States(item) :
    item.props = NoProperties \/ ~Contradicts(States(item)[n].state, item.props)}

Meta(item) == IF Fits(item) = {} THEN 0 ELSE States(item)[Min(Fits(item))].meta

\* Slip: the index is not counted on for the upper half of a door.
resolvedPalettesShifted(palette) ==
    LET kept == SelectSeq(palette, LAMBDA item : ~UpperDoor(item))
    IN [e \in DOMAIN kept |->
           [block |-> e, name |-> kept[e].name, data |-> Meta(kept[e])]]

\* One block per entry but for upper halves of doors, which are null
resolvedPalettes(palette) ==
    [e \in {n \in DOMAIN palette : ~UpperDoor(palette[n])} |->
        [block |-> e, name |-> palette[e].name, data |-> Meta(palette[e])]]

\* operator[] of a state without an entry is null, too.
buildNBT(file, x, y, z) ==
    IF file.kind # "nbt" \/ \E e \in DOMAIN file.palette : Throws(file.palette[e]) THEN NoList
    ELSE LET resolved == resolvedPalettes(file.palette)
             isPushed(b) == b.state \in DOMAIN resolved /\ resolved[b.state].name # "air"
             entry(b, r) ==
                [at |-> <<x + b.pos[1], y + b.pos[2], z + b.pos[3]>>,
                 block |-> r.block, name |-> r.name, data |-> r.data]
         IN For(file.blocks, [b \in ToSet(file.blocks) |->
                IF isPushed(b) THEN <<entry(b, resolved[b.state])>> ELSE <<>>])
=============================================================================
