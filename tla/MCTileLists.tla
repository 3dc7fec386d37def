---------------------------- MODULE MCTileLists ----------------------------
(* Small instances of TileLists for TLC. *)
EXTENDS TileLists

Away == <<-3, 4, 2>>
Base == [type |-> "round", dir |-> "y", shape |-> "hollow", r |-> 4, l |-> 4,
         w |-> 4, h |-> 1, at |-> Away]

Directions == {"x", "y", "z", "?"}

\* The angles 0, 1, ..., 6 of accuracy 1, in hundredths
MCUnit == 100
MCTurn == <<<<100, 0>>, <<54, 84>>, <<-42, 91>>, <<-99, 14>>, <<-65, -76>>, <<28, -96>>,
            <<96, -28>>>>

\* Whole and half sizes from 0 up to 3, all directions and shapes, columns, and
\* two positions.
MCCommands ==
    {[Base EXCEPT !.type = t, !.dir = d, !.r = r, !.h = h, !.at = p] :
        t \in {"round", "circle"}, d \in Directions, r \in 0..6, h \in {0, 1, 3},
        p \in {Origin, Away}}
    \cup {[Base EXCEPT !.type = "sphere", !.shape = s, !.r = r, !.h = h, !.at = p] :
        s \in {"hollow", "solid", "?"}, r \in 0..6, h \in {1, 2}, p \in {Origin, Away}}
    \cup {[Base EXCEPT !.type = "ellipse", !.dir = d, !.l = l, !.w = w] :
        d \in Directions, l \in {-2, 0, 3, 4}, w \in {2, 5, 6}}
    \cup {[Base EXCEPT !.type = "ellipsoid", !.l = l, !.w = w, !.h = h] :
        l \in {0, 2, 4}, w \in {2, 3}, h \in 0..2}
    \cup {[Base EXCEPT !.type = "pyramid", !.shape = s, !.r = r, !.h = h] :
        s \in {"hollow", "solid"}, r \in {3, 6, 8}, h \in 0..2}
    \cup {[Base EXCEPT !.type = "cone", !.dir = d, !.r = r, !.h = h] :
        d \in Directions, r \in {3, 6}, h \in {-1, 2}}
    \cup {[Base EXCEPT !.type = t, !.dir = d, !.r = 4, !.l = l, !.w = 1, !.h = h] :
        t \in {"torus", "ellipticTorus"}, d \in Directions, l \in {2, 5}, h \in {1, 2}}

\* Positions that differ in one coordinate, in order and out of order
Spots == {<<0, 0, 0>>, <<0, 1, 0>>, <<1, 1, 1>>}
MCCurves == UNION {[1..n -> Spots] : n \in 0..4}

Entry(n, d, c) == [name |-> n, data |-> d, color |-> c]
MCcolormap == <<Entry("wool", 14, <<200, 60, 60>>), Entry("dirt", 0, <<134, 96, 67>>),
                Entry("sand", 0, <<219, 211, 160>>), Entry("wool", 15, <<20, 20, 20>>)>>
Bytes == {<<200, 60, 60>>, <<90, 250, 70>>, <<0, 0, 0>>}
Png(w, h, ch, bits, rows) ==
    [kind |-> "png", width |-> w, height |-> h, channels |-> ch, bitDepth |-> bits, rows |-> rows]
MCPngs ==
    {Png(w, 2, 3, 8, <<a \o b, c \o a>>) : w \in {2}, a, b, c \in Bytes}
    \cup {Png(1, 3, 4, 8, <<a \o <<255>>, b \o <<0>>, c \o <<9>>>>) : a, b, c \in Bytes}
    \cup {Png(2, 1, 3, 16, <<a \o b \o a \o b>>) : a, b \in Bytes}
    \cup {Png(1, 1, 1, 8, <<<<0>>>>), [kind |-> "missing"], [kind |-> "text"]}

State(s, m) == [state |-> s, meta |-> m]
MCpalette_json ==
    [n \in {"torch", "sand", "iron_door"} |->
        CASE n = "torch" -> <<State([facing |-> "east"], 1), State([facing |-> "west"], 2)>>
          [] n = "sand" -> <<State([variant |-> "red"], 1), State([variant |-> "sand"], 0)>>
          [] n = "iron_door" -> <<State([half |-> "upper", shape |-> "in"], 8),
                                  State([half |-> "lower", shape |-> "out"], 3)>>]
Item(n, p, h) == [name |-> n, props |-> p, door |-> h # "no", half |-> h]
Items == {Item("torch", [facing |-> "west"], "no"), Item("sand", NoProperties, "no"),
          Item("sand", [variant |-> "sand"], "no"), Item("air", NoProperties, "no"),
          Item("glass", NoProperties, "no"), Item("iron_door", [half |-> "upper"], "upper"),
          Item("iron_door", [half |-> "lower"], "lower"), Item("iron_door", [open |-> "no"], "none")}
BlockLists == {<<1>>, <<1, 2, 1>>, <<2, 3, 2>>, <<3, 1, 2, 2>>, <<4, 3, 3>>}
MCNbts == {[kind |-> "nbt", palette |-> p,
            blocks |-> [n \in DOMAIN l |-> [state |-> l[n], pos |-> <<n - 3, 1, n % 3>>]]] :
            p \in [1 .. 3 -> Items], l \in BlockLists}

MCFiles == MCPngs \cup MCNbts
MCLastPlace == {"sand", "torch", "iron_door"}
=============================================================================
