------------------------------- MODULE Shapes -------------------------------
(***************************************************************************)
(* The build methods of CoreBuildMethods (core/algorithms.cpp): for a      *)
(* parsed command, the positions they push, in the order of their loops.   *)
(*                                                                         *)
(* Radius, length and width are doubles.  Here they are multiples of a     *)
(* half and written in halves, so that the integer D stands for the double *)
(* D/2 and a loop "for(i=-r;i<=r;i++)" goes from -D to D in steps of 2.    *)
(* Comparisons are exact, as those of the doubles are for squares and sums *)
(* of such numbers; of the quotients in ellipse and ellipsoid the rounding *)
(* is left out.                                                            *)
(*                                                                         *)
(* The curved structures go round by angles 0, 1/accuracy, 2/accuracy, ... *)
(* below a full turn.  The constant Turn lists their cosines and sines in  *)
(* this order, to the precision 1/Unit, as integers over Unit: products and *)
(* roundings are then exact, and of a cosine only its range is assumed.    *)
(***************************************************************************)
EXTENDS Loops

CONSTANTS Turn, Unit

ASSUME TurnAssumption ==
    Unit \in Nat \ {0} /\ Turn \in Seq((-Unit .. Unit) \X (-Unit .. Unit))

Place == Int \X Int \X Int

Curved == {"torus", "cone", "ellipticTorus"}
Types == {"round", "circle", "sphere", "ellipse", "ellipsoid", "pyramid"} \cup Curved

Sq(n) == n * n

\* The conversion of a double to the int parameters of push drops the fraction.
Trunc(D) == IF D >= 0 THEN D \div 2 ELSE -((-D) \div 2)

\* x+i for an int x and a double i
Plus(x, I) == Trunc(2 * x + I)

\* Slip: the loop stops before its last value
LoopShort(D) == IF D < 0 THEN <<>> ELSE [n \in 1..D |-> 2 * (n - 1) - D]

\* The values of "for(double i=-r;i<=r;i++)"
Loop(D) == IF D < 0 THEN <<>> ELSE [n \in 1..(D + 1) |-> 2 * (n - 1) - D]

\* The values of "for(double x=0;x<=r;x++)"
LoopUp(D) == IF D < 0 THEN <<>> ELSE [n \in 1..((D \div 2) + 1) |-> 2 * (n - 1)]

\* The pairs and triples of offsets for which a test holds
Offsets2(test(_)) == {o \in Int \X Int : test(o)}
Offsets3(test(_)) == {o \in Place : test(o)}

\* Where the offsets i and j of a plane structure go: switch(direction)
InPlane(p, dir, i, j) ==
    CASE dir = "x" -> <<p[1], Plus(p[2], i), Plus(p[3], j)>>
      [] dir = "y" -> <<Plus(p[1], i), p[2], Plus(p[3], j)>>
      [] dir = "z" -> <<Plus(p[1], i), Plus(p[2], j), p[3]>>

\* A direction that is none of the three gives an empty structure.
Plane(c, is, js, offsets) ==
    IF c.dir \notin {"x", "y", "z"} THEN <<>>
    ELSE Nested(is, js, [o \in offsets |-> <<InPlane(c.at, c.dir, o[1], o[2])>>])

buildround(c) ==
    LET inside(o) == Sq(o[1]) + Sq(o[2]) < Sq(c.r)
    IN  Plane(c, Loop(c.r), Loop(c.r), Offsets2(inside))

\* Slip: the inner edge is open
buildcircleThin(c) ==
    LET ring(o) == /\ Sq(o[1]) + Sq(o[2]) < Sq(c.r)
                   /\ Sq(o[1]) + Sq(o[2]) > Sq(c.r - 2)
    IN  Plane(c, Loop(c.r), Loop(c.r), Offsets2(ring))

buildcircle(c) ==
    LET ring(o) == /\ Sq(o[1]) + Sq(o[2]) < Sq(c.r)
                   /\ Sq(o[1]) + Sq(o[2]) >= Sq(c.r - 2)
    IN  Plane(c, Loop(c.r), Loop(c.r), Offsets2(ring))

buildsphere(c) ==
    LET dist(o) == Sq(o[1]) + Sq(o[2]) + Sq(o[3])
        inside(o) == dist(o) <= Sq(c.r)
        shell(o) == inside(o) /\ dist(o) >= Sq(c.r - 2)
        filled(offsets) ==
            Nested3(Loop(c.r), Loop(c.r), Loop(c.r), [o \in offsets |->
                <<<<Plus(c.at[1], o[1]), Plus(c.at[2], o[2]), Plus(c.at[3], o[3])>>>>])
    IN  CASE c.shape = "hollow" -> filled(Offsets3(shell))
          [] c.shape = "solid"  -> filled(Offsets3(inside))
          [] OTHER              -> <<>>

\* i*i/(l*l) + j*j/(w*w) < 1.  In direction z, j is not added to a coordinate
\* but is one.
buildellipse(c) ==
    LET inside(o) == Sq(o[1]) * Sq(c.w) + Sq(o[2]) * Sq(c.l) < Sq(c.l) * Sq(c.w)
    IN  IF c.dir # "z" THEN Plane(c, Loop(c.l), Loop(c.w), Offsets2(inside))
        ELSE Nested(Loop(c.l), Loop(c.w), [o \in Offsets2(inside) |->
                 <<<<Plus(c.at[1], o[1]), c.at[2] + c.at[3], Trunc(o[2])>>>>])

\* A quotient 0/0 is not a number and not <= 1.  The offset i is not used.
buildellipsoid(c) ==
    LET ll == Sq(c.l)  ww == Sq(c.w)  hh == Sq(2 * c.h)
        inside(o) ==
            /\ ll * ww * hh # 0
            /\ Sq(o[1]) * ww * hh + Sq(o[2]) * ll * hh + Sq(o[3]) * ll * ww <= ll * ww * hh
    IN  Nested3(Loop(c.l), Loop(c.w), Loop(2 * c.h), [o \in Offsets3(inside) |->
            <<<<c.at[1] + 1, Plus(c.at[2], o[2]), Plus(c.at[3], o[3])>>>>])

\* The loop variables x, y and z hide the position, so that x-x is 0.  The radius
\* shrinks before each layer.
buildpyramid(c) ==
    LET radius(y) == c.r - (y + 2)
        kept(y) == {o \in Int \X Int : c.shape # "hollow" \/ (o[1] = radius(y) /\ y = radius(y))}
        layer(y) ==
            Nested(LoopUp(radius(y)), LoopUp(radius(y)), [o \in kept(y) |->
                <<<<o[1], y, o[2]>>, <<0, y, o[2]>>, <<o[1], y, 0>>, <<0, y, 0>>>>])
    IN  For(LoopUp(2 * c.h), [y \in ToSet(LoopUp(2 * c.h)) |-> layer(y)])

\* round(n/d) for d > 0: halves go away from 0
Round(n, d) == IF n >= 0 THEN (2 * n + d) \div (2 * d) ELSE -((d - 2 * n) \div (2 * d))

\* The offset o at p, its third part along the direction
Along(p, dir, o) ==
    CASE dir = "x" -> <<p[1] + o[3], p[2] + o[1], p[3] + o[2]>>
      [] dir = "y" -> <<p[1] + o[1], p[2] + o[3], p[3] + o[2]>>
      [] dir = "z" -> <<p[1] + o[1], p[2] + o[2], p[3] + o[3]>>

\* What is pushed for the values of outer and of an angle
Around(p, dir, outer, offset) ==
    IF dir \notin {"x", "y", "z"} THEN <<>>
    ELSE Nested(outer, Turn, [a \in ToSet(outer) \X ToSet(Turn) |-> <<Along(p, dir, offset[a])>>])

\* Out in the plane of the ring and up, for the angles v and u
Ring(a, height, v, u) ==
    LET out == a.l * v[1] + a.r * Unit
    IN <<Round(u[1] * out, 2 * Unit * Unit), Round(u[2] * out, 2 * Unit * Unit),
         Round(height * v[2], 2 * Unit)>>

\* The directions x and z change places, and so do the axes of x.
buildtorus(c) ==
    LET turned == CASE c.dir = "x" -> "z" [] c.dir = "z" -> "x" [] OTHER -> c.dir
    IN Around(c.at, turned, Turn,
              [a \in ToSet(Turn) \X ToSet(Turn) |-> Ring(c, c.l, a[1], a[2])])

buildellipticTorus(c) ==
    LET swap(o) == IF c.dir = "x" THEN <<o[2], o[1], o[3]>> ELSE o
    IN Around(c.at, c.dir, Turn,
              [a \in ToSet(Turn) \X ToSet(Turn) |-> swap(Ring(c, c.w, a[1], a[2]))])

\* floor(((height-u)/height)*radius*cos(i)) for the layers u
buildcone(c) ==
    LET at(u, i) == ((c.h - u) * c.r * i) \div (2 * c.h * Unit)
        layers == IF c.h < 0 THEN <<>> ELSE [n \in 1 .. c.h |-> n - 1]
    IN Around(c.at, c.dir, layers,
              [a \in ToSet(layers) \X ToSet(Turn) |->
                  <<at(a[1], a[2][1]), at(a[1], a[2][2]), a[1]>>])

\* sessionMethods
Pushed(c) ==
    CASE c.type = "round"     -> buildround(c)
      [] c.type = "circle"    -> buildcircle(c)
      [] c.type = "sphere"    -> buildsphere(c)
      [] c.type = "ellipse"   -> buildellipse(c)
      [] c.type = "ellipsoid" -> buildellipsoid(c)
      [] c.type = "pyramid"   -> buildpyramid(c)
      [] c.type = "torus"     -> buildtorus(c)
      [] c.type = "cone"      -> buildcone(c)
      [] c.type = "ellipticTorus" -> buildellipticTorus(c)
=============================================================================
