-------------------------- MODULE TileLists_proofs --------------------------
(***************************************************************************)
(* What the build methods push, and the data of a build job, for all       *)
(* commands, files and tables.                                             *)
(***************************************************************************)
EXTENDS TileLists, LoopLemmas, FiniteSetTheorems

-----------------------------------------------------------------------------
(* Quotients and remainders *)

LEMMA DivMod ==
    ASSUME NEW n \in Int, NEW w \in Nat \ {0}
    PROVE  /\ n \div w \in Int /\ n % w \in 0 .. w - 1
           /\ n = w * (n \div w) + (n % w)
OBVIOUS

\* A quotient and a remainder are the only ones.
LEMMA DivModUnique ==
    ASSUME NEW w \in Nat \ {0}, NEW q \in Int, NEW r \in 0 .. w - 1,
           NEW a \in Int, NEW b \in 0 .. w - 1, w * q + r = w * a + b
    PROVE  q = a /\ r = b
<1>1. w * (q - a) = b - r /\ b - r < w /\ r - b < w
  OBVIOUS
<1>2. ASSUME NEW d \in Int, d >= 1 PROVE w * d >= w
  BY <1>2
<1>3. ~(q - a >= 1)
  BY <1>1, <1>2
<1>4. ~(a - q >= 1)
  <2>1. w * (a - q) = r - b
    BY <1>1
  <2>. QED
    BY <1>1, <1>2, <2>1
<1>5. q = a
  BY <1>3, <1>4
<1>. QED
  BY <1>1, <1>5

-----------------------------------------------------------------------------
(* Offsets and places *)

LEMMA LoopProperties ==
    ASSUME NEW D \in Int
    PROVE  /\ Loop(D) \in Seq(Int) /\ IsInjective(Loop(D))
           /\ \A i \in Int : i \in ToSet(Loop(D)) <=> \E n \in 1 .. D + 1 : i = 2 * (n - 1) - D
<1>1. CASE D < 0
  BY <1>1 DEF Loop, ToSet, IsInjective
<1>2. CASE D >= 0
  <2>1. Loop(D) = [n \in 1 .. D + 1 |-> 2 * (n - 1) - D]
    BY <1>2 DEF Loop
  <2>2. D + 1 \in Nat /\ \A n \in 1 .. D + 1 : 2 * (n - 1) - D \in Int
    BY <1>2
  <2>3. Loop(D) \in Seq(Int) /\ DOMAIN Loop(D) = 1 .. D + 1
    BY <2>1, <2>2
  <2>4. \A n \in 1 .. D + 1 : Loop(D)[n] = 2 * (n - 1) - D
    BY <2>1
  <2>5. IsInjective(Loop(D))
    BY <2>2, <2>3, <2>4 DEF IsInjective
  <2>6. ToSet(Loop(D)) = {Loop(D)[n] : n \in 1 .. D + 1}
    BY <2>3 DEF ToSet
  <2>. QED
    BY <2>3, <2>4, <2>5, <2>6
<1>. QED
  BY <1>1, <1>2

LEMMA LoopUpTyped == ASSUME NEW D \in Int PROVE LoopUp(D) \in Seq(Int)
<1>1. CASE D < 0
  BY <1>1 DEF LoopUp
<1>2. CASE D >= 0
  <2>1. LoopUp(D) = [n \in 1 .. (D \div 2) + 1 |-> 2 * (n - 1)]
    BY <1>2 DEF LoopUp
  <2>2. (D \div 2) + 1 \in Nat
    BY <1>2
  <2>. QED
    BY <2>1, <2>2
<1>. QED
  BY <1>1, <1>2

\* Cutting an even sum cuts nothing.
LEMMA PlusExact ==
    /\ \A x, I \in Int : Plus(x, I) \in Int
    /\ \A x, i \in Int : Plus(x, 2 * i) = x + i
BY DEF Plus, Trunc

LEMMA PlusTyped == ASSUME NEW x \in Int, NEW I \in Int PROVE Plus(x, I) \in Int
BY DEF Plus, Trunc

LEMMA InPlaneTyped ==
    ASSUME NEW p \in Place, NEW d \in {"x", "y", "z"}, NEW i \in Int, NEW j \in Int
    PROVE  InPlane(p, d, i, j) \in Place
BY PlusExact DEF InPlane, Place

\* A place p that Plane pushes, by the offsets that lead there
InOffsets(p, c, is, js, offsets) ==
    \E i \in ToSet(is), j \in ToSet(js) : <<i, j>> \in offsets /\ p = InPlane(c.at, c.dir, i, j)

\* Each of its offsets goes somewhere else.
PlaneApart(c, is, js) ==
    \A i, k \in ToSet(is), j, l \in ToSet(js) :
        InPlane(c.at, c.dir, i, j) = InPlane(c.at, c.dir, k, l) => i = k /\ j = l

LEMMA PlaneProperties ==
    ASSUME NEW c, c.at \in Place, NEW is \in Seq(Int), NEW js \in Seq(Int),
           NEW offsets \in SUBSET (Int \X Int)
    PROVE  /\ Plane(c, is, js, offsets) \in Seq(Place)
           /\ c.dir \in {"x", "y", "z"} =>
                \A p : p \in ToSet(Plane(c, is, js, offsets)) <=> InOffsets(p, c, is, js, offsets)
           /\ IsInjective(is) /\ IsInjective(js)
                /\ (c.dir \in {"x", "y", "z"} => PlaneApart(c, is, js))
                => IsInjective(Plane(c, is, js, offsets))
           /\ c.dir \notin {"x", "y", "z"} => Plane(c, is, js, offsets) = <<>>
<1>1. CASE c.dir \notin {"x", "y", "z"}
  BY <1>1 DEF Plane, IsInjective
<1>2. CASE c.dir \in {"x", "y", "z"}
  <2>. DEFINE body == [o \in offsets |-> <<InPlane(c.at, c.dir, o[1], o[2])>>]
              place == [o \in offsets |-> InPlane(c.at, c.dir, o[1], o[2])]
  <2>1. Plane(c, is, js, offsets) = Nested(is, js, body)
    BY <1>2 DEF Plane
  <2>2. ASSUME NEW o \in offsets
        PROVE  /\ o[1] \in Int /\ o[2] \in Int /\ o = <<o[1], o[2]>>
               /\ place[o] = InPlane(c.at, c.dir, o[1], o[2])
               /\ body[o] = <<place[o]>>
    OBVIOUS
  <2>3. \A i, j \in Int : <<i, j>> \in offsets => place[<<i, j>>] = InPlane(c.at, c.dir, i, j)
    OBVIOUS
  <2>4. DOMAIN body = offsets
    OBVIOUS
  <2>5. ToSet(is) \subseteq Int /\ ToSet(js) \subseteq Int
    BY LenProperties DEF ToSet
  <2>. HIDE DEF body, place
  <2>6. \A o \in offsets : place[o] \in Place
    BY <1>2, <2>2, InPlaneTyped
  <2>7. Ones(body, place, Place)
    BY <2>2, <2>4, <2>6, Zenon DEF Ones
  <2>8. /\ Nested(is, js, body) \in Seq(Place)
        /\ \A v : v \in ToSet(Nested(is, js, body)) <=> Picked2(v, is, js, body, place)
        /\ IsInjective(is) /\ IsInjective(js) /\ Apart2(is, js, body, place)
                => IsInjective(Nested(is, js, body))
    BY <2>7, NestedOnes
  <2>9. \A v : Picked2(v, is, js, body, place) <=> InOffsets(v, c, is, js, offsets)
    BY <2>3, <2>4, <2>5 DEF Picked2, InOffsets
  <2>10. ASSUME PlaneApart(c, is, js) PROVE Apart2(is, js, body, place)
    <3>. SUFFICES ASSUME NEW o \in (ToSet(is) \X ToSet(js)) \cap offsets,
                         NEW q \in (ToSet(is) \X ToSet(js)) \cap offsets,
                         place[o] = place[q]
                  PROVE  o = q
      BY <2>4 DEF Apart2
    <3>1. /\ o[1] \in ToSet(is) /\ o[2] \in ToSet(js) /\ o = <<o[1], o[2]>>
          /\ q[1] \in ToSet(is) /\ q[2] \in ToSet(js) /\ q = <<q[1], q[2]>>
      OBVIOUS
    <3>2. InPlane(c.at, c.dir, o[1], o[2]) = InPlane(c.at, c.dir, q[1], q[2])
      BY <2>2
    <3>3. o[1] = q[1] /\ o[2] = q[2]
      BY <2>10, <3>1, <3>2 DEF PlaneApart
    <3>. QED
      BY <3>1, <3>3
  <2>. QED
    BY <1>2, <2>1, <2>8, <2>9, <2>10
<1>. QED
  BY <1>1, <1>2

LEMMA AlongTyped ==
    ASSUME NEW p \in Place, NEW d \in {"x", "y", "z"}, NEW o \in Place
    PROVE  Along(p, d, o) \in Place
BY DEF Along, Place

InAround(p, at, dir, outer, offset) ==
    \E a \in ToSet(outer), b \in ToSet(Turn) : p = Along(at, dir, offset[<<a, b>>])

\* What a curved structure pushes
LEMMA AroundProperties ==
    ASSUME NEW at \in Place, NEW dir, NEW A, NEW outer \in Seq(A), NEW offset,
           \A a \in ToSet(outer) \X ToSet(Turn) : offset[a] \in Place
    PROVE  /\ Around(at, dir, outer, offset) \in Seq(Place)
           /\ dir \in {"x", "y", "z"} =>
                \A p : p \in ToSet(Around(at, dir, outer, offset)) <=> InAround(p, at, dir, outer, offset)
           /\ dir \notin {"x", "y", "z"} => Around(at, dir, outer, offset) = <<>>
<1>1. CASE dir \notin {"x", "y", "z"}
  BY <1>1 DEF Around
<1>2. CASE dir \in {"x", "y", "z"}
  <2>. DEFINE body == [a \in ToSet(outer) \X ToSet(Turn) |-> <<Along(at, dir, offset[a])>>]
              place == [a \in ToSet(outer) \X ToSet(Turn) |-> Along(at, dir, offset[a])]
  <2>1. Around(at, dir, outer, offset) = Nested(outer, Turn, body)
    BY <1>2 DEF Around
  <2>2. ASSUME NEW a \in ToSet(outer) \X ToSet(Turn)
        PROVE  place[a] = Along(at, dir, offset[a]) /\ body[a] = <<place[a]>>
    OBVIOUS
  <2>3. DOMAIN body = ToSet(outer) \X ToSet(Turn)
    OBVIOUS
  <2>4. \A a \in ToSet(outer), b \in ToSet(Turn) : <<a, b>> \in ToSet(outer) \X ToSet(Turn)
    OBVIOUS
  <2>. HIDE DEF body, place
  <2>5. \A a \in ToSet(outer) \X ToSet(Turn) : place[a] \in Place
    BY <1>2, <2>2, AlongTyped
  <2>6. Ones(body, place, Place)
    BY <2>2, <2>3, <2>5, Zenon DEF Ones
  <2>7. Turn \in Seq((-Unit .. Unit) \X (-Unit .. Unit))
    BY TurnAssumption DEF TurnAssumption
  <2>8. /\ Nested(outer, Turn, body) \in Seq(Place)
        /\ \A v : v \in ToSet(Nested(outer, Turn, body)) <=> Picked2(v, outer, Turn, body, place)
    BY <2>6, <2>7, NestedOnes
  <2>9. \A v : Picked2(v, outer, Turn, body, place) <=> InAround(v, at, dir, outer, offset)
    BY <2>2, <2>3, <2>4, Zenon DEF Picked2, InAround
  <2>. QED
    BY <1>2, <2>1, <2>8, <2>9
<1>. QED
  BY <1>1, <1>2

-----------------------------------------------------------------------------
(* The methods one by one *)

Disc(c) == {o \in Int \X Int : Sq(o[1]) + Sq(o[2]) < Sq(c.r)}
Rim(c) == {o \in Disc(c) : Sq(o[1]) + Sq(o[2]) >= Sq(c.r - 2)}
Oval(c) == {o \in Int \X Int :
                Sq(o[1]) * Sq(c.w) + Sq(o[2]) * Sq(c.l) < Sq(c.l) * Sq(c.w)}
Square(o) == Sq(o[1]) + Sq(o[2]) + Sq(o[3])
Ball(c) == {o \in Place : Square(o) <= Sq(c.r)}
Shell(c) == {o \in Ball(c) : Square(o) >= Sq(c.r - 2)}

LEMMA PlaneMethods ==
    ASSUME NEW c
    PROVE  /\ buildround(c) = Plane(c, Loop(c.r), Loop(c.r), Disc(c))
           /\ buildcircle(c) = Plane(c, Loop(c.r), Loop(c.r), Rim(c))
           /\ c.dir # "z" => buildellipse(c) = Plane(c, Loop(c.l), Loop(c.w), Oval(c))
<1>1. Rim(c) = {o \in Int \X Int : /\ Sq(o[1]) + Sq(o[2]) < Sq(c.r)
                                   /\ Sq(o[1]) + Sq(o[2]) >= Sq(c.r - 2)}
  BY DEF Rim, Disc
<1>2. buildcircle(c) = Plane(c, Loop(c.r), Loop(c.r), Rim(c))
  BY <1>1 DEF buildcircle, Offsets2
<1>. QED
  BY <1>2 DEF buildround, buildellipse, Offsets2, Disc, Oval

\* Three loops that push the place of their offsets
Solid(c, offsets) ==
    Nested3(Loop(c.r), Loop(c.r), Loop(c.r), [o \in offsets |->
        <<<<Plus(c.at[1], o[1]), Plus(c.at[2], o[2]), Plus(c.at[3], o[3])>>>>])

LEMMA SphereMethod ==
    ASSUME NEW c
    PROVE  /\ c.shape = "hollow" => buildsphere(c) = Solid(c, Shell(c))
           /\ c.shape = "solid" => buildsphere(c) = Solid(c, Ball(c))
           /\ c.shape \notin {"hollow", "solid"} => buildsphere(c) = <<>>
<1>1. Shell(c) = {o \in Place : /\ Square(o) <= Sq(c.r) /\ Square(o) >= Sq(c.r - 2)}
  BY DEF Shell, Ball
<1>2. c.shape = "hollow" => buildsphere(c) = Solid(c, Shell(c))
  BY <1>1 DEF buildsphere, Offsets3, Solid, Square
<1>3. c.shape = "solid" => buildsphere(c) = Solid(c, Ball(c))
  BY DEF buildsphere, Offsets3, Solid, Square, Ball
<1>4. c.shape \notin {"hollow", "solid"} => buildsphere(c) = <<>>
  BY DEF buildsphere
<1>. QED
  BY <1>2, <1>3, <1>4

\* The place of an offset of three parts
Shifted(p, o) == <<Plus(p[1], o[1]), Plus(p[2], o[2]), Plus(p[3], o[3])>>

InSolid(p, c, offsets) ==
    \E i, j, k \in ToSet(Loop(c.r)) : <<i, j, k>> \in offsets /\ p = Shifted(c.at, <<i, j, k>>)

SolidApart(c) ==
    \A o, q \in ToSet(Loop(c.r)) \X ToSet(Loop(c.r)) \X ToSet(Loop(c.r)) :
        Shifted(c.at, o) = Shifted(c.at, q) => o = q

LEMMA SolidProperties ==
    ASSUME NEW c, c.at \in Place, c.r \in Int, NEW offsets \in SUBSET Place
    PROVE  /\ Solid(c, offsets) \in Seq(Place)
           /\ \A p : p \in ToSet(Solid(c, offsets)) <=> InSolid(p, c, offsets)
           /\ SolidApart(c) => IsInjective(Solid(c, offsets))
<1>. DEFINE body == [o \in offsets |->
                <<<<Plus(c.at[1], o[1]), Plus(c.at[2], o[2]), Plus(c.at[3], o[3])>>>>]
            place == [o \in offsets |-> Shifted(c.at, o)]
            s == Loop(c.r)
<1>1. s \in Seq(Int) /\ IsInjective(s)
  BY LoopProperties
<1>2. \A o \in offsets : place[o] = Shifted(c.at, o) /\ body[o] = <<place[o]>>
  BY DEF Shifted
<1>3. ASSUME NEW o \in offsets PROVE Shifted(c.at, o) \in Place
  <2>1. o[1] \in Int /\ o[2] \in Int /\ o[3] \in Int /\ c.at[1] \in Int /\ c.at[2] \in Int /\ c.at[3] \in Int
    BY DEF Place
  <2>. QED
    BY <2>1, PlusExact DEF Place, Shifted
<1>4. DOMAIN body = offsets
  OBVIOUS
<1>5. Solid(c, offsets) = Nested3(s, s, s, body)
  BY DEF Solid
<1>. HIDE DEF body, place, s
<1>6. Ones(body, place, Place)
  BY <1>2, <1>3, <1>4, Zenon DEF Ones
<1>7. /\ Nested3(s, s, s, body) \in Seq(Place)
      /\ \A v : v \in ToSet(Nested3(s, s, s, body)) <=> Picked3(v, s, s, s, body, place)
      /\ Apart3(s, s, s, body, place) => IsInjective(Nested3(s, s, s, body))
  BY <1>1, <1>6, Nested3Ones
<1>8. \A v : Picked3(v, s, s, s, body, place) <=> InSolid(v, c, offsets)
  BY <1>2, <1>4, Zenon DEF Picked3, InSolid, s
<1>9. SolidApart(c) => Apart3(s, s, s, body, place)
  BY <1>2, <1>4 DEF SolidApart, Apart3, s
<1>. QED
  BY <1>5, <1>7, <1>8, <1>9

\* A command with the types of the parser
Parsed(c) == c.type \in Types /\ {c.r, c.l, c.w, c.h} \subseteq Int /\ c.at \in Place

\* The place of an offset in direction z, whose second part is a coordinate
Across(p, o) == <<Plus(p[1], o[1]), p[2] + p[3], Trunc(o[2])>>

InAcross(p, c) ==
    \E i \in ToSet(Loop(c.l)), j \in ToSet(Loop(c.w)) : <<i, j>> \in Oval(c) /\ p = Across(c.at, <<i, j>>)

AcrossApart(c) ==
    \A o, q \in ToSet(Loop(c.l)) \X ToSet(Loop(c.w)) : Across(c.at, o) = Across(c.at, q) => o = q

LEMMA AcrossProperties ==
    ASSUME NEW c, Parsed(c), c.dir = "z"
    PROVE  /\ buildellipse(c) \in Seq(Place)
           /\ \A p : p \in ToSet(buildellipse(c)) <=> InAcross(p, c)
           /\ AcrossApart(c) => IsInjective(buildellipse(c))
<1>. DEFINE body == [o \in Oval(c) |->
                <<<<Plus(c.at[1], o[1]), c.at[2] + c.at[3], Trunc(o[2])>>>>]
            place == [o \in Oval(c) |-> Across(c.at, o)]
            a == Loop(c.l)
            b == Loop(c.w)
<1>1. c.l \in Int /\ c.w \in Int /\ c.at \in Place
  BY DEF Parsed
<1>2. a \in Seq(Int) /\ b \in Seq(Int) /\ IsInjective(a) /\ IsInjective(b)
  BY <1>1, LoopProperties
<1>3. buildellipse(c) = Nested(a, b, body)
  BY DEF buildellipse, Offsets2, Oval
<1>4. ASSUME NEW o \in Oval(c) PROVE Across(c.at, o) \in Place
  <2>1. o[1] \in Int /\ o[2] \in Int /\ c.at[1] \in Int /\ c.at[2] \in Int /\ c.at[3] \in Int
    BY <1>1 DEF Oval, Place
  <2>. HIDE DEF place, body
  <2>2. Trunc(o[2]) \in Int
    BY <2>1 DEF Trunc
  <2>3. Plus(c.at[1], o[1]) \in Int
    BY <2>1, PlusTyped
  <2>4. c.at[2] + c.at[3] \in Int
    BY <2>1
  <2>. QED
    BY <2>2, <2>3, <2>4 DEF Place, Across
<1>5. DOMAIN body = Oval(c) /\ \A o \in Oval(c) : place[o] = Across(c.at, o) /\ body[o] = <<place[o]>>
  BY DEF Across
<1>. HIDE DEF body, place, a, b
<1>6. Ones(body, place, Place)
  BY <1>4, <1>5, Zenon DEF Ones
<1>7. /\ Nested(a, b, body) \in Seq(Place)
      /\ \A v : v \in ToSet(Nested(a, b, body)) <=> Picked2(v, a, b, body, place)
      /\ Apart2(a, b, body, place) => IsInjective(Nested(a, b, body))
  BY <1>2, <1>6, NestedOnes
<1>8. \A v : Picked2(v, a, b, body, place) <=> InAcross(v, c)
  BY <1>5, Zenon DEF Picked2, InAcross, a, b
<1>9. AcrossApart(c) => Apart2(a, b, body, place)
  BY <1>5 DEF AcrossApart, Apart2, a, b
<1>. QED
  BY <1>3, <1>7, <1>8, <1>9

LEMMA EllipseTyped == ASSUME NEW c, Parsed(c) PROVE buildellipse(c) \in Seq(Place)
<1>1. c.l \in Int /\ c.w \in Int /\ c.at \in Place
  BY DEF Parsed
<1>2. Loop(c.l) \in Seq(Int) /\ Loop(c.w) \in Seq(Int) /\ Oval(c) \in SUBSET (Int \X Int)
  BY <1>1, LoopProperties DEF Oval
<1>3. CASE c.dir # "z"
  BY <1>1, <1>2, <1>3, PlaneMethods, PlaneProperties
<1>4. CASE c.dir = "z"
  BY <1>4, AcrossProperties
<1>. QED
  BY <1>3, <1>4

LEMMA EllipsoidTyped == ASSUME NEW c, Parsed(c) PROVE buildellipsoid(c) \in Seq(Place)
<1>1. c.l \in Int /\ c.w \in Int /\ c.h \in Int /\ c.at \in Place
  BY DEF Parsed
<1>2. Loop(c.l) \in Seq(Int) /\ Loop(c.w) \in Seq(Int) /\ Loop(2 * c.h) \in Seq(Int)
  <2>1. 2 * c.h \in Int
    BY <1>1
  <2>. QED
    BY <1>1, <2>1, LoopProperties
<1>. DEFINE offsets == {o \in Place :
                /\ Sq(c.l) * Sq(c.w) * Sq(2 * c.h) # 0
                /\ Sq(o[1]) * Sq(c.w) * Sq(2 * c.h) + Sq(o[2]) * Sq(c.l) * Sq(2 * c.h)
                     + Sq(o[3]) * Sq(c.l) * Sq(c.w) <= Sq(c.l) * Sq(c.w) * Sq(2 * c.h)}
            body == [o \in offsets |-> <<<<c.at[1] + 1, Plus(c.at[2], o[2]), Plus(c.at[3], o[3])>>>>]
            place == [o \in offsets |-> <<c.at[1] + 1, Plus(c.at[2], o[2]), Plus(c.at[3], o[3])>>]
<1>3. buildellipsoid(c) = Nested3(Loop(c.l), Loop(c.w), Loop(2 * c.h), body)
  BY DEF buildellipsoid, Offsets3
<1>4. offsets \subseteq Place
  OBVIOUS
<1>. HIDE DEF offsets
<1>5. ASSUME NEW o \in offsets PROVE place[o] \in Place
  <2>1. o[2] \in Int /\ o[3] \in Int /\ c.at[1] \in Int /\ c.at[2] \in Int /\ c.at[3] \in Int
    BY <1>1, <1>4 DEF Place
  <2>3. place[o] = <<c.at[1] + 1, Plus(c.at[2], o[2]), Plus(c.at[3], o[3])>>
    OBVIOUS
  <2>. HIDE DEF place, body
  <2>2. Plus(c.at[2], o[2]) \in Int /\ Plus(c.at[3], o[3]) \in Int
    BY <2>1, PlusTyped
  <2>4. c.at[1] + 1 \in Int
    BY <2>1
  <2>. QED
    BY <2>2, <2>3, <2>4 DEF Place
<1>6. DOMAIN body = offsets /\ \A o \in offsets : body[o] = <<place[o]>>
  OBVIOUS
<1>. HIDE DEF body, place
<1>7. Ones(body, place, Place)
  BY <1>5, <1>6, Zenon DEF Ones
<1>. QED
  BY <1>2, <1>3, <1>7, Nested3Ones

LEMMA PyramidTyped == ASSUME NEW c, Parsed(c) PROVE buildpyramid(c) \in Seq(Place)
<1>1. c.r \in Int /\ c.h \in Int
  BY DEF Parsed
<1>. DEFINE radius(y) == c.r - (y + 2)
            kept(y) == {o \in Int \X Int :
                            c.shape # "hollow" \/ (o[1] = radius(y) /\ y = radius(y))}
            four(y) == [o \in kept(y) |->
                            <<<<o[1], y, o[2]>>, <<0, y, o[2]>>, <<o[1], y, 0>>, <<0, y, 0>>>>]
            layer(y) == Nested(LoopUp(radius(y)), LoopUp(radius(y)), four(y))
            heights == LoopUp(2 * c.h)
            body == [y \in ToSet(heights) |-> layer(y)]
<1>2. buildpyramid(c) = For(heights, body)
  BY DEF buildpyramid
<1>3. heights \in Seq(Int) /\ ToSet(heights) \subseteq Int
  <2>1. 2 * c.h \in Int
    BY <1>1
  <2>2. heights \in Seq(Int)
    BY <2>1, LoopUpTyped
  <2>. HIDE DEF heights
  <2>. QED
    BY <2>2, LenProperties DEF ToSet
<1>4. ASSUME NEW y \in ToSet(heights) PROVE layer(y) \in Seq(Place)
  <2>1. y \in Int
    BY <1>3
  <2>2. LoopUp(radius(y)) \in Seq(Int)
    <3>1. radius(y) \in Int
      BY <1>1, <2>1
    <3>. HIDE DEF radius
    <3>. QED
      BY <3>1, LoopUpTyped
  <2>3. ASSUME NEW o \in DOMAIN four(y) PROVE four(y)[o] \in Seq(Place)
    <3>1. o \in kept(y) /\ o[1] \in Int /\ o[2] \in Int
      OBVIOUS
    <3>2. <<<<o[1], y, o[2]>>, <<0, y, o[2]>>, <<o[1], y, 0>>, <<0, y, 0>>>> \in Seq(Place)
      BY <2>1, <3>1 DEF Place
    <3>. QED
      BY <3>1, <3>2
  <2>. HIDE DEF four, radius
  <2>. QED
    BY <2>2, <2>3, NestedProperties
<1>5. \A y \in ToSet(heights) : body[y] = layer(y)
  OBVIOUS
<1>. HIDE DEF body, layer, heights
<1>. QED
  BY <1>2, <1>3, <1>4, <1>5, ForProperties

\* The values of cosines and sines
LEMMA TurnBounded == ToSet(Turn) \subseteq (-Unit .. Unit) \X (-Unit .. Unit)
BY TurnAssumption, ToSetTyped DEF TurnAssumption

LEMMA UnitPositive == Unit \in Nat \ {0} /\ Turn \in Seq(Int \X Int) /\ ToSet(Turn) \subseteq Int \X Int
<1>1. Turn \in Seq(Int \X Int)
  <2>1. (-Unit .. Unit) \X (-Unit .. Unit) \subseteq Int \X Int
    BY TurnAssumption DEF TurnAssumption
  <2>. QED
    BY <2>1, TurnAssumption DEF TurnAssumption
<1>2. ToSet(Turn) \subseteq Int \X Int
  BY <1>1, ToSetTyped
<1>. QED
  BY <1>1, <1>2, TurnAssumption DEF TurnAssumption

LEMMA RoundTyped == ASSUME NEW n \in Int, NEW d \in Nat \ {0} PROVE Round(n, d) \in Int
<1>1. 2 * d \in Nat \ {0} /\ 2 * n + d \in Int /\ d - 2 * n \in Int
  OBVIOUS
<1>2. \A x \in Int, y \in Nat \ {0} : x \div y \in Int
  OBVIOUS
<1>. QED
  BY <1>1, <1>2 DEF Round

LEMMA RingTyped ==
    ASSUME NEW c, Parsed(c), NEW height \in Int, NEW v \in ToSet(Turn), NEW u \in ToSet(Turn)
    PROVE  Ring(c, height, v, u) \in Place
<1>. DEFINE out == c.l * v[1] + c.r * Unit
<1>1. c.l \in Int /\ c.r \in Int /\ v[1] \in Int /\ v[2] \in Int /\ u[1] \in Int /\ u[2] \in Int
  BY UnitPositive DEF Parsed
<1>2. Unit \in Nat \ {0}
  BY UnitPositive
<1>3. out \in Int
  BY <1>1, <1>2
<1>4. 2 * Unit * Unit \in Nat \ {0} /\ 2 * Unit \in Nat \ {0}
  BY <1>2
<1>5. u[1] * out \in Int /\ u[2] * out \in Int /\ height * v[2] \in Int
  BY <1>1, <1>3
<1>. HIDE DEF out
<1>6. /\ Round(u[1] * out, 2 * Unit * Unit) \in Int
      /\ Round(u[2] * out, 2 * Unit * Unit) \in Int
      /\ Round(height * v[2], 2 * Unit) \in Int
  BY <1>4, <1>5, RoundTyped
<1>. QED
  BY <1>6 DEF Ring, Place, out

LEMMA TorusTyped == ASSUME NEW c, Parsed(c) PROVE buildtorus(c) \in Seq(Place)
<1>. DEFINE turned == CASE c.dir = "x" -> "z" [] c.dir = "z" -> "x" [] OTHER -> c.dir
            offset == [a \in ToSet(Turn) \X ToSet(Turn) |-> Ring(c, c.l, a[1], a[2])]
<1>1. buildtorus(c) = Around(c.at, turned, Turn, offset)
  BY DEF buildtorus
<1>2. \A a \in ToSet(Turn) \X ToSet(Turn) : offset[a] \in Place
  BY RingTyped DEF Parsed
<1>3. c.at \in Place
  BY DEF Parsed
<1>. HIDE DEF turned, offset
<1>. QED
  BY <1>1, <1>2, <1>3, UnitPositive, AroundProperties

LEMMA EllipticTorusTyped == ASSUME NEW c, Parsed(c) PROVE buildellipticTorus(c) \in Seq(Place)
<1>. DEFINE swap(o) == IF c.dir = "x" THEN <<o[2], o[1], o[3]>> ELSE o
            offset == [a \in ToSet(Turn) \X ToSet(Turn) |-> swap(Ring(c, c.w, a[1], a[2]))]
<1>1. buildellipticTorus(c) = Around(c.at, c.dir, Turn, offset)
  BY DEF buildellipticTorus
<1>2. ASSUME NEW a \in ToSet(Turn) \X ToSet(Turn) PROVE offset[a] \in Place
  <2>1. Ring(c, c.w, a[1], a[2]) \in Place
    BY RingTyped DEF Parsed
  <2>2. \A o \in Place : swap(o) \in Place
    BY DEF Place
  <2>3. offset[a] = swap(Ring(c, c.w, a[1], a[2]))
    OBVIOUS
  <2>. HIDE DEF swap, offset
  <2>. QED
    BY <2>1, <2>2, <2>3
<1>3. c.at \in Place
  BY DEF Parsed
<1>. HIDE DEF offset
<1>. QED
  BY <1>1, <1>2, <1>3, UnitPositive, AroundProperties

LEMMA ConeTyped == ASSUME NEW c, Parsed(c) PROVE buildcone(c) \in Seq(Place)
<1>. DEFINE part(u, i) == ((c.h - u) * c.r * i) \div (2 * c.h * Unit)
            layers == IF c.h < 0 THEN <<>> ELSE [n \in 1 .. c.h |-> n - 1]
            offset == [a \in ToSet(layers) \X ToSet(Turn) |->
                        <<part(a[1], a[2][1]), part(a[1], a[2][2]), a[1]>>]
<1>1. buildcone(c) = Around(c.at, c.dir, layers, offset)
  BY DEF buildcone
<1>2. c.at \in Place /\ c.h \in Int /\ c.r \in Int
  BY DEF Parsed
<1>3. /\ layers \in Seq(Int)
      /\ \A u \in ToSet(layers) : u \in Int /\ c.h > 0
  <2>1. CASE c.h < 0
    BY <2>1 DEF ToSet
  <2>2. CASE c.h >= 0
    <3>1. layers = [n \in 1 .. c.h |-> n - 1]
      BY <1>2, <2>2
    <3>2. c.h \in Nat /\ \A n \in 1 .. c.h : n - 1 \in Int
      BY <1>2, <2>2
    <3>3. layers \in Seq(Int) /\ DOMAIN layers = 1 .. c.h /\ \A n \in 1 .. c.h : layers[n] = n - 1
      BY <3>1, <3>2
    <3>. HIDE DEF layers
    <3>4. \A u \in ToSet(layers) : \E n \in 1 .. c.h : u = n - 1
      BY <3>3 DEF ToSet
    <3>. QED
      BY <3>2, <3>3, <3>4
  <2>. HIDE DEF layers
  <2>. QED
    BY <1>2, <2>1, <2>2
<1>4. ASSUME NEW u \in ToSet(layers), NEW i \in Int PROVE part(u, i) \in Int
  <2>1. u \in Int /\ c.h \in Nat \ {0} /\ Unit \in Nat \ {0}
    <3>1. u \in Int /\ c.h > 0
      BY <1>3
    <3>. HIDE DEF layers
    <3>. QED
      BY <1>2, <3>1, UnitPositive
  <2>2. 2 * c.h * Unit \in Nat \ {0}
    BY <2>1, SMTT(30)
  <2>3. (c.h - u) * c.r * i \in Int
    BY <1>2, <2>1
  <2>4. \A x \in Int, y \in Nat \ {0} : x \div y \in Int
    OBVIOUS
  <2>. QED
    BY <2>2, <2>3, <2>4
<1>. HIDE DEF layers, part
<1>5. ASSUME NEW a \in ToSet(layers) \X ToSet(Turn) PROVE offset[a] \in Place
  <2>1. a[1] \in ToSet(layers) /\ a[1] \in Int /\ a[2][1] \in Int /\ a[2][2] \in Int
    BY <1>3, UnitPositive
  <2>2. offset[a] = <<part(a[1], a[2][1]), part(a[1], a[2][2]), a[1]>>
    OBVIOUS
  <2>. HIDE DEF offset
  <2>. QED
    BY <1>4, <2>1, <2>2 DEF Place
<1>. HIDE DEF offset
<1>. QED
  BY <1>1, <1>2, <1>3, <1>5, AroundProperties

\* Every method pushes places.
LEMMA PushedTyped == ASSUME NEW c, Parsed(c) PROVE Pushed(c) \in Seq(Place)
<1>1. c.r \in Int /\ c.at \in Place /\ Loop(c.r) \in Seq(Int)
  BY LoopProperties DEF Parsed
<1>2. CASE c.type = "round"
  <2>1. Disc(c) \in SUBSET (Int \X Int)
    BY DEF Disc
  <2>2. buildround(c) \in Seq(Place)
    BY <1>1, <2>1, PlaneMethods, PlaneProperties
  <2>. QED
    BY <1>2, <2>2 DEF Pushed
<1>3. CASE c.type = "circle"
  <2>1. Rim(c) \in SUBSET (Int \X Int)
    BY DEF Rim, Disc
  <2>2. buildcircle(c) \in Seq(Place)
    BY <1>1, <2>1, PlaneMethods, PlaneProperties
  <2>. QED
    BY <1>3, <2>2 DEF Pushed
<1>4. CASE c.type = "sphere"
  <2>1. Shell(c) \in SUBSET Place /\ Ball(c) \in SUBSET Place
    BY DEF Shell, Ball
  <2>2. Solid(c, Shell(c)) \in Seq(Place) /\ Solid(c, Ball(c)) \in Seq(Place)
    BY <1>1, <2>1, SolidProperties
  <2>3. <<>> \in Seq(Place)
    OBVIOUS
  <2>4. buildsphere(c) \in Seq(Place)
    BY <2>2, <2>3, SphereMethod
  <2>. QED
    BY <1>4, <2>4 DEF Pushed
<1>5. c.type = "ellipse" => Pushed(c) \in Seq(Place)
  BY EllipseTyped DEF Pushed
<1>6. c.type = "ellipsoid" => Pushed(c) \in Seq(Place)
  BY EllipsoidTyped DEF Pushed
<1>7. c.type = "pyramid" => Pushed(c) \in Seq(Place)
  BY PyramidTyped DEF Pushed
<1>8. c.type = "torus" => Pushed(c) \in Seq(Place)
  BY TorusTyped DEF Pushed
<1>9. c.type = "cone" => Pushed(c) \in Seq(Place)
  BY ConeTyped DEF Pushed
<1>10. c.type = "ellipticTorus" => Pushed(c) \in Seq(Place)
  BY EllipticTorusTyped DEF Pushed
<1>. QED
  BY <1>2, <1>3, <1>4, <1>5, <1>6, <1>7, <1>8, <1>9, <1>10 DEF Parsed, Types, Curved
-----------------------------------------------------------------------------
(* Whole sizes: the offsets are even, and each leads to a place of its own *)

\* The sizes are whole: the halves come in pairs.
IsWhole(c) == \E x, y, z \in Nat : c.r = 2 * x /\ c.l = 2 * y /\ c.w = 2 * z

LEMMA LoopEven ==
    ASSUME NEW a \in Nat
    PROVE  \A i : i \in ToSet(Loop(2 * a)) <=> \E k \in Int : i = 2 * k /\ -a <= k /\ k <= a
<1>1. 2 * a \in Int
  OBVIOUS
<1>2. Loop(2 * a) \in Seq(Int)
       /\ \A i \in Int : i \in ToSet(Loop(2 * a)) <=> \E n \in 1 .. 2 * a + 1 : i = 2 * (n - 1) - 2 * a
  BY <1>1, LoopProperties
<1>3. ToSet(Loop(2 * a)) \subseteq Int
  BY <1>2, ToSetTyped
<1>4. ASSUME NEW i, i \in ToSet(Loop(2 * a))
      PROVE  \E k \in Int : i = 2 * k /\ -a <= k /\ k <= a
  <2>1. PICK n \in 1 .. 2 * a + 1 : i = 2 * (n - 1) - 2 * a
    BY <1>2, <1>3, <1>4
  <2>2. n - 1 - a \in Int /\ i = 2 * (n - 1 - a) /\ -a <= n - 1 - a /\ n - 1 - a <= a
    BY <2>1
  <2>. QED
    BY <2>2
<1>5. ASSUME NEW k \in Int, -a <= k, k <= a PROVE 2 * k \in ToSet(Loop(2 * a))
  <2>1. k + a + 1 \in 1 .. 2 * a + 1 /\ 2 * k = 2 * ((k + a + 1) - 1) - 2 * a /\ 2 * k \in Int
    BY <1>5
  <2>. QED
    BY <1>2, <2>1
<1>. QED
  BY <1>4, <1>5

LEMMA PlaneApartEven ==
    ASSUME NEW c, c.at \in Place, c.dir \in {"x", "y", "z"}, NEW a \in Nat, NEW b \in Nat
    PROVE  PlaneApart(c, Loop(2 * a), Loop(2 * b))
<1>. SUFFICES ASSUME NEW i \in ToSet(Loop(2 * a)), NEW k \in ToSet(Loop(2 * a)),
                     NEW j \in ToSet(Loop(2 * b)), NEW l \in ToSet(Loop(2 * b)),
                     InPlane(c.at, c.dir, i, j) = InPlane(c.at, c.dir, k, l)
              PROVE  i = k /\ j = l
  BY DEF PlaneApart
<1>1. PICK i1 \in Int : i = 2 * i1
  BY LoopEven
<1>2. PICK k1 \in Int : k = 2 * k1
  BY LoopEven
<1>3. PICK j1 \in Int : j = 2 * j1
  BY LoopEven
<1>4. PICK l1 \in Int : l = 2 * l1
  BY LoopEven
<1>5. c.at[1] \in Int /\ c.at[2] \in Int /\ c.at[3] \in Int
  BY DEF Place
<1>. DEFINE x == c.at[1]  y == c.at[2]  z == c.at[3]
<1>. HIDE DEF x, y, z
<1>6. /\ Plus(x, i) = x + i1 /\ Plus(x, k) = x + k1
      /\ Plus(y, i) = y + i1 /\ Plus(y, k) = y + k1 /\ Plus(y, j) = y + j1 /\ Plus(y, l) = y + l1
      /\ Plus(z, j) = z + j1 /\ Plus(z, l) = z + l1
  BY <1>1, <1>2, <1>3, <1>4, <1>5, PlusExact DEF x, y, z
<1>7. x \in Int /\ y \in Int /\ z \in Int
  BY <1>5 DEF x, y, z
<1>8. i1 = k1 /\ j1 = l1
  <2>1. CASE c.dir = "x"
    <3>1. Plus(y, i) = Plus(y, k) /\ Plus(z, j) = Plus(z, l)
      BY <2>1 DEF InPlane, x, y, z
    <3>. QED
      BY <1>6, <1>7, <3>1
  <2>2. CASE c.dir = "y"
    <3>1. Plus(x, i) = Plus(x, k) /\ Plus(z, j) = Plus(z, l)
      BY <2>2 DEF InPlane, x, y, z
    <3>. QED
      BY <1>6, <1>7, <3>1
  <2>3. CASE c.dir = "z"
    <3>1. Plus(x, i) = Plus(x, k) /\ Plus(y, j) = Plus(y, l)
      BY <2>3 DEF InPlane, x, y, z
    <3>. QED
      BY <1>6, <1>7, <3>1
  <2>. QED
    BY <2>1, <2>2, <2>3
<1>. QED
  BY <1>1, <1>2, <1>3, <1>4, <1>8

LEMMA AcrossApartEven ==
    ASSUME NEW c, c.at \in Place, NEW a \in Nat, NEW b \in Nat, c.l = 2 * a, c.w = 2 * b
    PROVE  AcrossApart(c)
<1>. SUFFICES ASSUME NEW o \in ToSet(Loop(2 * a)) \X ToSet(Loop(2 * b)),
                     NEW q \in ToSet(Loop(2 * a)) \X ToSet(Loop(2 * b)),
                     Across(c.at, o) = Across(c.at, q)
              PROVE  o = q
  BY DEF AcrossApart
<1>1. /\ o[1] \in ToSet(Loop(2 * a)) /\ o[2] \in ToSet(Loop(2 * b)) /\ o = <<o[1], o[2]>>
      /\ q[1] \in ToSet(Loop(2 * a)) /\ q[2] \in ToSet(Loop(2 * b)) /\ q = <<q[1], q[2]>>
  OBVIOUS
<1>2. PICK i \in Int : o[1] = 2 * i
  BY <1>1, LoopEven
<1>3. PICK j \in Int : o[2] = 2 * j
  BY <1>1, LoopEven
<1>4. PICK k \in Int : q[1] = 2 * k
  BY <1>1, LoopEven
<1>5. PICK l \in Int : q[2] = 2 * l
  BY <1>1, LoopEven
<1>. DEFINE x == c.at[1]
<1>6. x \in Int
  BY DEF Place
<1>7. Plus(x, o[1]) = Plus(x, q[1]) /\ Trunc(o[2]) = Trunc(q[2])
  BY DEF Across
<1>. HIDE DEF x
<1>8. Plus(x, o[1]) = x + i /\ Plus(x, q[1]) = x + k
  BY <1>2, <1>4, <1>6, PlusExact
<1>9. Trunc(o[2]) = j /\ Trunc(q[2]) = l
  BY <1>3, <1>5 DEF Trunc
<1>10. i = k /\ j = l
  <2>1. x + i = x + k
    BY <1>7, <1>8, Zenon
  <2>2. j = l
    BY <1>7, <1>9, Zenon
  <2>. QED
    BY <1>6, <2>1, <2>2
<1>. QED
  BY <1>1, <1>2, <1>3, <1>4, <1>5, <1>10

\* An even offset in three parts
LEMMA ShiftedEven ==
    ASSUME NEW p \in Place, NEW i \in Int, NEW j \in Int, NEW k \in Int
    PROVE  Shifted(p, <<2 * i, 2 * j, 2 * k>>) = <<p[1] + i, p[2] + j, p[3] + k>>
<1>1. p[1] \in Int /\ p[2] \in Int /\ p[3] \in Int
  BY DEF Place
<1>2. Plus(p[1], 2 * i) = p[1] + i /\ Plus(p[2], 2 * j) = p[2] + j /\ Plus(p[3], 2 * k) = p[3] + k
  BY <1>1, PlusExact
<1>. QED
  BY <1>2 DEF Shifted

LEMMA SolidApartEven ==
    ASSUME NEW c, c.at \in Place, NEW a \in Nat, c.r = 2 * a
    PROVE  SolidApart(c)
<1>. DEFINE S == ToSet(Loop(2 * a))
<1>. SUFFICES ASSUME NEW o \in S \X S \X S, NEW q \in S \X S \X S,
                     Shifted(c.at, o) = Shifted(c.at, q)
              PROVE  o = q
  BY DEF SolidApart
<1>1. /\ o[1] \in S /\ o[2] \in S /\ o[3] \in S /\ o = <<o[1], o[2], o[3]>>
      /\ q[1] \in S /\ q[2] \in S /\ q[3] \in S /\ q = <<q[1], q[2], q[3]>>
  OBVIOUS
<1>2. \A i \in S : \E k \in Int : i = 2 * k
  BY LoopEven
<1>. HIDE DEF S
<1>3. PICK o1 \in Int, o2 \in Int, o3 \in Int : o[1] = 2 * o1 /\ o[2] = 2 * o2 /\ o[3] = 2 * o3
  BY <1>1, <1>2
<1>4. PICK q1 \in Int, q2 \in Int, q3 \in Int : q[1] = 2 * q1 /\ q[2] = 2 * q2 /\ q[3] = 2 * q3
  BY <1>1, <1>2
<1>5. o = <<2 * o1, 2 * o2, 2 * o3>> /\ q = <<2 * q1, 2 * q2, 2 * q3>>
  BY <1>1, <1>3, <1>4
<1>. DEFINE x == c.at[1]  y == c.at[2]  z == c.at[3]
<1>6. /\ Shifted(c.at, <<2 * o1, 2 * o2, 2 * o3>>) = <<x + o1, y + o2, z + o3>>
      /\ Shifted(c.at, <<2 * q1, 2 * q2, 2 * q3>>) = <<x + q1, y + q2, z + q3>>
  <2>1. \A i, j, k \in Int : Shifted(c.at, <<2 * i, 2 * j, 2 * k>>) = <<x + i, y + j, z + k>>
    BY ShiftedEven
  <2>. HIDE DEF x, y, z
  <2>. QED
    BY <2>1, ZenonT(30)
<1>7. x \in Int /\ y \in Int /\ z \in Int
  BY DEF Place
<1>. HIDE DEF x, y, z
<1>8. <<x + o1, y + o2, z + o3>> = <<x + q1, y + q2, z + q3>>
  BY <1>5, <1>6
<1>9. o1 = q1 /\ o2 = q2 /\ o3 = q3
  <2>1. x + o1 = x + q1 /\ y + o2 = y + q2 /\ z + o3 = z + q3
    BY <1>8
  <2>. QED
    BY <1>7, <2>1
<1>. QED
  BY <1>5, <1>9

\* A structure of whole sizes without a list of vectors is pushed without a
\* position that comes twice.
LEMMA PushedApart ==
    ASSUME NEW c, Parsed(c), IsWhole(c), c.type \in {"round", "circle", "sphere", "ellipse"}
    PROVE  IsInjective(Pushed(c))
<1>1. PICK x \in Nat, y \in Nat, z \in Nat : c.r = 2 * x /\ c.l = 2 * y /\ c.w = 2 * z
  BY DEF IsWhole
<1>2. c.at \in Place /\ c.r \in Int /\ c.l \in Int /\ c.w \in Int
  BY DEF Parsed
<1>3. /\ Loop(c.r) \in Seq(Int) /\ IsInjective(Loop(c.r))
      /\ Loop(c.l) \in Seq(Int) /\ IsInjective(Loop(c.l))
      /\ Loop(c.w) \in Seq(Int) /\ IsInjective(Loop(c.w))
  BY <1>2, LoopProperties
<1>4. c.dir \in {"x", "y", "z"} =>
        PlaneApart(c, Loop(c.r), Loop(c.r)) /\ PlaneApart(c, Loop(c.l), Loop(c.w))
  BY <1>1, <1>2, PlaneApartEven
<1>5. Disc(c) \in SUBSET (Int \X Int) /\ Rim(c) \in SUBSET (Int \X Int) /\ Oval(c) \in SUBSET (Int \X Int)
  BY DEF Disc, Rim, Oval
<1>6. IsInjective(<<>>)
  BY DEF IsInjective
<1>7. CASE c.type = "round"
  <2>1. IsInjective(buildround(c))
    BY <1>2, <1>3, <1>4, <1>5, PlaneMethods, PlaneProperties
  <2>. QED
    BY <1>7, <2>1 DEF Pushed
<1>8. CASE c.type = "circle"
  <2>1. IsInjective(buildcircle(c))
    BY <1>2, <1>3, <1>4, <1>5, PlaneMethods, PlaneProperties
  <2>. QED
    BY <1>8, <2>1 DEF Pushed
<1>9. CASE c.type = "sphere"
  <2>1. Shell(c) \in SUBSET Place /\ Ball(c) \in SUBSET Place
    BY DEF Shell, Ball
  <2>2. SolidApart(c)
    BY <1>1, <1>2, SolidApartEven
  <2>3. IsInjective(Solid(c, Shell(c))) /\ IsInjective(Solid(c, Ball(c)))
    BY <1>2, <2>1, <2>2, SolidProperties
  <2>4. IsInjective(buildsphere(c))
    BY <1>6, <2>3, SphereMethod
  <2>. QED
    BY <1>9, <2>4 DEF Pushed
<1>10. CASE c.type = "ellipse"
  <2>1. CASE c.dir # "z"
    BY <1>2, <1>3, <1>4, <1>5, <1>10, <2>1, PlaneMethods, PlaneProperties DEF Pushed
  <2>2. CASE c.dir = "z"
    <3>1. AcrossApart(c)
      BY <1>1, <1>2, AcrossApartEven
    <3>2. IsInjective(buildellipse(c))
      BY <2>2, <3>1, AcrossProperties
    <3>. QED
      BY <1>10, <3>2 DEF Pushed
  <2>. QED
    BY <2>1, <2>2
<1>. QED
  BY <1>7, <1>8, <1>9, <1>10
-----------------------------------------------------------------------------
(* The reflection at the position *)

Mirror(p, at) == [k \in 1 .. 3 |-> 2 * at[k] - p[k]]

LEMMA MirrorOf ==
    ASSUME NEW at \in Place, NEW i \in Int, NEW j \in Int, NEW k \in Int
    PROVE  Mirror(<<at[1] + i, at[2] + j, at[3] + k>>, at) = <<at[1] - i, at[2] - j, at[3] - k>>
<1>. DEFINE p == <<at[1] + i, at[2] + j, at[3] + k>>
            q == <<at[1] - i, at[2] - j, at[3] - k>>
<1>1. at[1] \in Int /\ at[2] \in Int /\ at[3] \in Int
  BY DEF Place
<1>2. 1 .. 3 = {1, 2, 3}
  OBVIOUS
<1>3. \A n \in 1 .. 3 : 2 * at[n] - p[n] = q[n]
  <2>1. 2 * at[1] - p[1] = q[1]
    BY <1>1
  <2>2. 2 * at[2] - p[2] = q[2]
    BY <1>1
  <2>3. 2 * at[3] - p[3] = q[3]
    BY <1>1
  <2>. HIDE DEF p, q
  <2>. QED
    BY <1>2, <2>1, <2>2, <2>3
<1>4. q = [n \in 1 .. 3 |-> q[n]]
  OBVIOUS
<1>. HIDE DEF p, q
<1>5. Mirror(p, at) = q
  BY <1>3, <1>4 DEF Mirror
<1>. QED
  BY <1>5 DEF p, q

\* The offsets of a structure come with their opposites.
Even2(offsets) == \A i, j \in Int : <<i, j>> \in offsets => <<-i, -j>> \in offsets
Even3(offsets) == \A i, j, k \in Int : <<i, j, k>> \in offsets => <<-i, -j, -k>> \in offsets

LEMMA OffsetsEven ==
    ASSUME NEW c, Parsed(c)
    PROVE  Even2(Disc(c)) /\ Even2(Rim(c)) /\ Even2(Oval(c)) /\ Even3(Ball(c)) /\ Even3(Shell(c))
<1>1. \A n \in Int : Sq(-n) = Sq(n) /\ Sq(n) \in Int /\ -n \in Int
  BY DEF Sq
<1>2. Even2(Disc(c)) /\ Even2(Rim(c)) /\ Even2(Oval(c))
  BY <1>1 DEF Even2, Disc, Rim, Oval
<1>3. Even3(Ball(c)) /\ Even3(Shell(c))
  BY <1>1 DEF Even3, Ball, Shell, Square, Place
<1>. QED
  BY <1>2, <1>3

LEMMA InPlaneEven ==
    ASSUME NEW p \in Place, NEW d \in {"x", "y", "z"}, NEW i \in Int, NEW j \in Int
    PROVE  InPlane(p, d, 2 * i, 2 * j) =
               CASE d = "x" -> <<p[1] + 0, p[2] + i, p[3] + j>>
                 [] d = "y" -> <<p[1] + i, p[2] + 0, p[3] + j>>
                 [] d = "z" -> <<p[1] + i, p[2] + j, p[3] + 0>>
<1>1. p[1] \in Int /\ p[2] \in Int /\ p[3] \in Int
  BY DEF Place
<1>2. p[1] + 0 = p[1] /\ p[2] + 0 = p[2] /\ p[3] + 0 = p[3]
  BY <1>1
<1>3. /\ Plus(p[1], 2 * i) = p[1] + i /\ Plus(p[2], 2 * i) = p[2] + i
      /\ Plus(p[2], 2 * j) = p[2] + j /\ Plus(p[3], 2 * j) = p[3] + j
  BY <1>1, PlusExact
<1>. QED
  BY <1>2, <1>3 DEF InPlane

LEMMA InPlaneMirror ==
    ASSUME NEW p \in Place, NEW d \in {"x", "y", "z"}, NEW i \in Int, NEW j \in Int
    PROVE  Mirror(InPlane(p, d, 2 * i, 2 * j), p) = InPlane(p, d, -(2 * i), -(2 * j))
<1>1. p[1] \in Int /\ p[2] \in Int /\ p[3] \in Int
  BY DEF Place
<1>. DEFINE x == p[1]  y == p[2]  z == p[3]
<1>2. -(2 * i) = 2 * (-i) /\ -(2 * j) = 2 * (-j) /\ -i \in Int /\ -j \in Int
  OBVIOUS
<1>3. InPlane(p, d, 2 * (-i), 2 * (-j)) =
               CASE d = "x" -> <<x + 0, y + (-i), z + (-j)>>
                 [] d = "y" -> <<x + (-i), y + 0, z + (-j)>>
                 [] d = "z" -> <<x + (-i), y + (-j), z + 0>>
  BY <1>2, InPlaneEven, ZenonT(30)
<1>4. InPlane(p, d, 2 * i, 2 * j) =
               CASE d = "x" -> <<x + 0, y + i, z + j>>
                 [] d = "y" -> <<x + i, y + 0, z + j>>
                 [] d = "z" -> <<x + i, y + j, z + 0>>
  BY InPlaneEven
<1>5. /\ Mirror(<<x + 0, y + i, z + j>>, p) = <<x - 0, y - i, z - j>>
      /\ Mirror(<<x + i, y + 0, z + j>>, p) = <<x - i, y - 0, z - j>>
      /\ Mirror(<<x + i, y + j, z + 0>>, p) = <<x - i, y - j, z - 0>>
  BY MirrorOf, 0 \in Int
<1>. HIDE DEF x, y, z
<1>6. x \in Int /\ y \in Int /\ z \in Int
  BY <1>1 DEF x, y, z
<1>7. /\ x - 0 = x + 0 /\ y - 0 = y + 0 /\ z - 0 = z + 0
      /\ x - i = x + (-i) /\ y - i = y + (-i) /\ y - j = y + (-j) /\ z - j = z + (-j)
  BY <1>6
<1>. QED
  BY <1>2, <1>3, <1>4, <1>5, <1>7

\* A plane structure of whole sizes is its own reflection.
LEMMA PlaneCentral ==
    ASSUME NEW c, c.at \in Place, NEW a \in Nat, NEW b \in Nat,
           NEW offsets \in SUBSET (Int \X Int), Even2(offsets),
           NEW p \in ToSet(Plane(c, Loop(2 * a), Loop(2 * b), offsets))
    PROVE  Mirror(p, c.at) \in ToSet(Plane(c, Loop(2 * a), Loop(2 * b), offsets))
<1>. DEFINE is == Loop(2 * a)  js == Loop(2 * b)
<1>1. is \in Seq(Int) /\ js \in Seq(Int)
  <2>1. 2 * a \in Int /\ 2 * b \in Int
    OBVIOUS
  <2>. QED
    BY <2>1, LoopProperties
<1>2. c.dir \in {"x", "y", "z"}
  <2>1. ToSet(<<>>) = {}
    BY DEF ToSet
  <2>. QED
    BY <1>1, <2>1, PlaneProperties
<1>3. \A q : q \in ToSet(Plane(c, is, js, offsets)) <=> InOffsets(q, c, is, js, offsets)
  BY <1>1, <1>2, PlaneProperties
<1>4. PICK i \in ToSet(is), j \in ToSet(js) : <<i, j>> \in offsets /\ p = InPlane(c.at, c.dir, i, j)
  BY <1>3 DEF InOffsets
<1>5. PICK k \in Int : i = 2 * k /\ -a <= k /\ k <= a
  BY <1>4, LoopEven
<1>6. PICK l \in Int : j = 2 * l /\ -b <= l /\ l <= b
  BY <1>4, LoopEven
<1>7. -i \in ToSet(is) /\ -j \in ToSet(js)
  <2>1. -i = 2 * (-k) /\ -k \in Int /\ -a <= -k /\ -k <= a
    BY <1>5
  <2>2. -j = 2 * (-l) /\ -l \in Int /\ -b <= -l /\ -l <= b
    BY <1>6
  <2>. QED
    BY <2>1, <2>2, LoopEven
<1>8. <<-i, -j>> \in offsets
  BY <1>4, <1>5, <1>6 DEF Even2
<1>9. Mirror(p, c.at) = InPlane(c.at, c.dir, -i, -j)
  BY <1>2, <1>4, <1>5, <1>6, InPlaneMirror
<1>. QED
  BY <1>3, <1>7, <1>8, <1>9 DEF InOffsets

LEMMA SolidCentral ==
    ASSUME NEW c, c.at \in Place, NEW a \in Nat, c.r = 2 * a,
           NEW offsets \in SUBSET Place, Even3(offsets), NEW p \in ToSet(Solid(c, offsets))
    PROVE  Mirror(p, c.at) \in ToSet(Solid(c, offsets))
<1>. DEFINE S == ToSet(Loop(2 * a))
<1>1. \A q : q \in ToSet(Solid(c, offsets)) <=> InSolid(q, c, offsets)
  <2>1. c.r \in Int
    OBVIOUS
  <2>. QED
    BY <2>1, SolidProperties
<1>2. PICK i \in S, j \in S, k \in S : <<i, j, k>> \in offsets /\ p = Shifted(c.at, <<i, j, k>>)
  BY <1>1 DEF InSolid
<1>3. \A n \in S : -n \in S /\ \E m \in Int : n = 2 * m /\ -n = 2 * (-m) /\ -m \in Int
  <2>1. ASSUME NEW n \in S PROVE -n \in S /\ \E m \in Int : n = 2 * m /\ -n = 2 * (-m) /\ -m \in Int
    <3>1. PICK m \in Int : n = 2 * m /\ -a <= m /\ m <= a
      BY LoopEven
    <3>2. -n = 2 * (-m) /\ -m \in Int /\ -a <= -m /\ -m <= a
      BY <3>1
    <3>. QED
      BY <3>1, <3>2, LoopEven
  <2>. QED
    BY <2>1
<1>. HIDE DEF S
<1>4. PICK x \in Int : i = 2 * x /\ -i = 2 * (-x) /\ -x \in Int
  BY <1>3
<1>5. PICK y \in Int : j = 2 * y /\ -j = 2 * (-y) /\ -y \in Int
  BY <1>3
<1>6. PICK z \in Int : k = 2 * z /\ -k = 2 * (-z) /\ -z \in Int
  BY <1>3
<1>. DEFINE p1 == c.at[1]  p2 == c.at[2]  p3 == c.at[3]
<1>7. p1 \in Int /\ p2 \in Int /\ p3 \in Int
  BY DEF Place
<1>8. \A l, m, n \in Int : Shifted(c.at, <<2 * l, 2 * m, 2 * n>>) = <<p1 + l, p2 + m, p3 + n>>
  BY ShiftedEven
<1>9. Mirror(<<p1 + x, p2 + y, p3 + z>>, c.at) = <<p1 - x, p2 - y, p3 - z>>
  BY MirrorOf
<1>. HIDE DEF p1, p2, p3
<1>10. p1 - x = p1 + (-x) /\ p2 - y = p2 + (-y) /\ p3 - z = p3 + (-z)
  BY <1>7
<1>11. Mirror(p, c.at) = Shifted(c.at, <<-i, -j, -k>>)
  BY <1>2, <1>4, <1>5, <1>6, <1>8, <1>9, <1>10, SMTT(30)
<1>12. <<-i, -j, -k>> \in offsets
  <2>1. i \in Int /\ j \in Int /\ k \in Int
    BY <1>4, <1>5, <1>6
  <2>. QED
    BY <1>2, <2>1 DEF Even3
<1>. QED
  BY <1>1, <1>3, <1>11, <1>12 DEF InSolid, S
\* The structures that are their own reflection
IsCentral(c) ==
    \/ c.type \in {"round", "circle", "sphere"}
    \/ c.type = "ellipse" /\ c.dir # "z"

LEMMA PushedCentral ==
    ASSUME NEW c, Parsed(c), IsWhole(c), IsCentral(c), NEW p \in ToSet(Pushed(c))
    PROVE  Mirror(p, c.at) \in ToSet(Pushed(c))
<1>1. PICK x \in Nat, y \in Nat, z \in Nat : c.r = 2 * x /\ c.l = 2 * y /\ c.w = 2 * z
  BY DEF IsWhole
<1>2. c.at \in Place /\ c.r \in Int /\ c.l \in Int /\ c.w \in Int
  BY DEF Parsed
<1>3. Disc(c) \in SUBSET (Int \X Int) /\ Rim(c) \in SUBSET (Int \X Int) /\ Oval(c) \in SUBSET (Int \X Int)
  BY DEF Disc, Rim, Oval
<1>4. Even2(Disc(c)) /\ Even2(Rim(c)) /\ Even2(Oval(c)) /\ Even3(Ball(c)) /\ Even3(Shell(c))
  BY OffsetsEven
<1>5. CASE c.type = "round"
  <2>1. Pushed(c) = Plane(c, Loop(2 * x), Loop(2 * x), Disc(c))
    BY <1>1, <1>5, PlaneMethods DEF Pushed
  <2>. QED
    BY <1>2, <1>3, <1>4, <2>1, PlaneCentral
<1>6. CASE c.type = "circle"
  <2>1. Pushed(c) = Plane(c, Loop(2 * x), Loop(2 * x), Rim(c))
    BY <1>1, <1>6, PlaneMethods DEF Pushed
  <2>. QED
    BY <1>2, <1>3, <1>4, <2>1, PlaneCentral
<1>7. CASE c.type = "ellipse"
  <2>1. Pushed(c) = Plane(c, Loop(2 * y), Loop(2 * z), Oval(c))
    BY <1>1, <1>7, PlaneMethods DEF Pushed, IsCentral
  <2>. QED
    BY <1>2, <1>3, <1>4, <2>1, PlaneCentral
<1>8. CASE c.type = "sphere"
  <2>1. Shell(c) \in SUBSET Place /\ Ball(c) \in SUBSET Place
    BY DEF Shell, Ball
  <2>2. Pushed(c) = buildsphere(c) /\ ToSet(<<>>) = {}
    BY <1>8 DEF Pushed, ToSet
  <2>3. CASE c.shape = "hollow"
    BY <1>1, <1>2, <1>4, <2>1, <2>2, <2>3, SphereMethod, SolidCentral
  <2>4. CASE c.shape = "solid"
    BY <1>1, <1>2, <1>4, <2>1, <2>2, <2>4, SphereMethod, SolidCentral
  <2>. QED
    BY <2>2, <2>3, <2>4, SphereMethod
<1>. QED
  BY <1>5, <1>6, <1>7, <1>8 DEF IsCentral
-----------------------------------------------------------------------------
(* The reflection to a block, for halves *)

Near(p, q, at) == \A k \in 1 .. 3 : p[k] + q[k] - 2 * at[k] \in -1 .. 1

LEMMA LoopNegative ==
    ASSUME NEW D \in Int, NEW i \in ToSet(Loop(D))
    PROVE  i \in Int /\ -i \in Int /\ -i \in ToSet(Loop(D))
<1>1. i \in Int
  BY LoopProperties, ToSetTyped
<1>2. PICK n \in 1 .. D + 1 : i = 2 * (n - 1) - D
  BY <1>1, LoopProperties
<1>3. D + 2 - n \in 1 .. D + 1 /\ -i = 2 * ((D + 2 - n) - 1) - D /\ -i \in Int
  BY <1>1, <1>2
<1>. QED
  BY <1>1, <1>3, LoopProperties

LEMMA TruncHalf ==
    ASSUME NEW N \in Int
    PROVE  Trunc(N) \in Int /\ 2 * Trunc(N) \in N - 1 .. N + 1
BY DEF Trunc

\* What the cut to an int takes from a place it gives back opposite to it.
LEMMA PlusNear ==
    ASSUME NEW x \in Int, NEW I \in Int
    PROVE  /\ Plus(x, I) \in Int /\ Plus(x, -I) \in Int
           /\ Plus(x, I) + Plus(x, -I) - 2 * x \in -1 .. 1
<1>. DEFINE a == Trunc(2 * x + I)  b == Trunc(2 * x + (-I))
<1>1. a \in Int /\ 2 * a \in 2 * x + I - 1 .. 2 * x + I + 1
  BY TruncHalf
<1>2. b \in Int /\ 2 * b \in 2 * x - I - 1 .. 2 * x - I + 1
  BY TruncHalf
<1>. HIDE DEF a, b
<1>3. a + b - 2 * x \in -1 .. 1
  BY <1>1, <1>2
<1>. QED
  BY <1>1, <1>2, <1>3 DEF Plus, a, b

LEMMA InPlaneNear ==
    ASSUME NEW p \in Place, NEW d \in {"x", "y", "z"}, NEW i \in Int, NEW j \in Int
    PROVE  Near(InPlane(p, d, i, j), InPlane(p, d, -i, -j), p)
<1>. DEFINE x == p[1]  y == p[2]  z == p[3]
<1>1. x \in Int /\ y \in Int /\ z \in Int
  BY DEF Place
<1>2. 1 .. 3 = {1, 2, 3}
  OBVIOUS
<1>3. \A n \in Int : n + n - 2 * n \in -1 .. 1
  OBVIOUS
<1>4. /\ Plus(x, i) + Plus(x, -i) - 2 * x \in -1 .. 1
      /\ Plus(y, i) + Plus(y, -i) - 2 * y \in -1 .. 1
      /\ Plus(y, j) + Plus(y, -j) - 2 * y \in -1 .. 1
      /\ Plus(z, j) + Plus(z, -j) - 2 * z \in -1 .. 1
  BY <1>1, PlusNear
<1>5. /\ x + x - 2 * x \in -1 .. 1 /\ y + y - 2 * y \in -1 .. 1 /\ z + z - 2 * z \in -1 .. 1
  BY <1>1, <1>3
<1>6. ASSUME NEW a, NEW b, \A k \in {1, 2, 3} : a[k] + b[k] - 2 * p[k] \in -1 .. 1
      PROVE  Near(a, b, p)
  BY <1>2, <1>6 DEF Near
<1>7. CASE d = "x"
  <2>1. /\ InPlane(p, d, i, j) = <<x, Plus(y, i), Plus(z, j)>>
        /\ InPlane(p, d, -i, -j) = <<x, Plus(y, -i), Plus(z, -j)>>
    BY <1>7 DEF InPlane
  <2>. QED
    BY <1>4, <1>5, <1>6, <2>1
<1>8. CASE d = "y"
  <2>1. /\ InPlane(p, d, i, j) = <<Plus(x, i), y, Plus(z, j)>>
        /\ InPlane(p, d, -i, -j) = <<Plus(x, -i), y, Plus(z, -j)>>
    BY <1>8 DEF InPlane
  <2>. QED
    BY <1>4, <1>5, <1>6, <2>1
<1>9. CASE d = "z"
  <2>1. /\ InPlane(p, d, i, j) = <<Plus(x, i), Plus(y, j), z>>
        /\ InPlane(p, d, -i, -j) = <<Plus(x, -i), Plus(y, -j), z>>
    BY <1>9 DEF InPlane
  <2>. QED
    BY <1>4, <1>5, <1>6, <2>1
<1>. QED
  BY <1>7, <1>8, <1>9

LEMMA PlaneNear ==
    ASSUME NEW c, c.at \in Place, NEW D \in Int, NEW E \in Int,
           NEW offsets \in SUBSET (Int \X Int), Even2(offsets),
           NEW p \in ToSet(Plane(c, Loop(D), Loop(E), offsets))
    PROVE  \E q \in ToSet(Plane(c, Loop(D), Loop(E), offsets)) : Near(p, q, c.at)
<1>. DEFINE is == Loop(D)  js == Loop(E)
<1>1. is \in Seq(Int) /\ js \in Seq(Int)
  BY LoopProperties
<1>2. c.dir \in {"x", "y", "z"}
  <2>1. ToSet(<<>>) = {}
    BY DEF ToSet
  <2>. QED
    BY <1>1, <2>1, PlaneProperties
<1>3. \A q : q \in ToSet(Plane(c, is, js, offsets)) <=> InOffsets(q, c, is, js, offsets)
  BY <1>1, <1>2, PlaneProperties
<1>4. PICK i \in ToSet(is), j \in ToSet(js) : <<i, j>> \in offsets /\ p = InPlane(c.at, c.dir, i, j)
  BY <1>3 DEF InOffsets
<1>5. i \in Int /\ j \in Int /\ -i \in ToSet(is) /\ -j \in ToSet(js)
  BY LoopNegative
<1>6. <<-i, -j>> \in offsets
  BY <1>4, <1>5 DEF Even2
<1>7. InPlane(c.at, c.dir, -i, -j) \in ToSet(Plane(c, is, js, offsets))
  BY <1>3, <1>5, <1>6 DEF InOffsets
<1>8. Near(p, InPlane(c.at, c.dir, -i, -j), c.at)
  BY <1>2, <1>4, <1>5, InPlaneNear
<1>. QED
  BY <1>7, <1>8

LEMMA SolidNear ==
    ASSUME NEW c, c.at \in Place, c.r \in Int,
           NEW offsets \in SUBSET Place, Even3(offsets), NEW p \in ToSet(Solid(c, offsets))
    PROVE  \E q \in ToSet(Solid(c, offsets)) : Near(p, q, c.at)
<1>1. \A q : q \in ToSet(Solid(c, offsets)) <=> InSolid(q, c, offsets)
  BY SolidProperties
<1>2. PICK i \in ToSet(Loop(c.r)), j \in ToSet(Loop(c.r)), k \in ToSet(Loop(c.r)) :
          <<i, j, k>> \in offsets /\ p = Shifted(c.at, <<i, j, k>>)
  BY <1>1 DEF InSolid
<1>3. /\ i \in Int /\ j \in Int /\ k \in Int
      /\ -i \in ToSet(Loop(c.r)) /\ -j \in ToSet(Loop(c.r)) /\ -k \in ToSet(Loop(c.r))
  BY LoopNegative
<1>. DEFINE q == Shifted(c.at, <<-i, -j, -k>>)
<1>4. q \in ToSet(Solid(c, offsets))
  <2>1. <<-i, -j, -k>> \in offsets
    BY <1>2, <1>3 DEF Even3
  <2>. QED
    BY <1>1, <1>3, <2>1 DEF InSolid
<1>5. Near(p, q, c.at)
  <2>. DEFINE x == c.at[1]  y == c.at[2]  z == c.at[3]
  <2>1. x \in Int /\ y \in Int /\ z \in Int /\ 1 .. 3 = {1, 2, 3}
    BY DEF Place
  <2>2. /\ Plus(x, i) + Plus(x, -i) - 2 * x \in -1 .. 1
        /\ Plus(y, j) + Plus(y, -j) - 2 * y \in -1 .. 1
        /\ Plus(z, k) + Plus(z, -k) - 2 * z \in -1 .. 1
    BY <1>3, <2>1, PlusNear
  <2>3. p = <<Plus(x, i), Plus(y, j), Plus(z, k)>> /\ q = <<Plus(x, -i), Plus(y, -j), Plus(z, -k)>>
    BY <1>2 DEF Shifted
  <2>. HIDE DEF q
  <2>4. \A n \in {1, 2, 3} : p[n] + q[n] - 2 * c.at[n] \in -1 .. 1
    BY <2>2, <2>3
  <2>. QED
    BY <2>1, <2>4 DEF Near
<1>. QED
  BY <1>4, <1>5

LEMMA PushedNear ==
    ASSUME NEW c, Parsed(c), IsCentral(c), NEW p \in ToSet(Pushed(c))
    PROVE  \E q \in ToSet(Pushed(c)) : Near(p, q, c.at)
<1>1. c.at \in Place /\ c.r \in Int /\ c.l \in Int /\ c.w \in Int
  BY DEF Parsed
<1>2. Disc(c) \in SUBSET (Int \X Int) /\ Rim(c) \in SUBSET (Int \X Int) /\ Oval(c) \in SUBSET (Int \X Int)
  BY DEF Disc, Rim, Oval
<1>3. Even2(Disc(c)) /\ Even2(Rim(c)) /\ Even2(Oval(c)) /\ Even3(Ball(c)) /\ Even3(Shell(c))
  BY OffsetsEven
<1>4. CASE c.type = "round"
  <2>1. Pushed(c) = Plane(c, Loop(c.r), Loop(c.r), Disc(c))
    BY <1>4, PlaneMethods DEF Pushed
  <2>. QED
    BY <1>1, <1>2, <1>3, <2>1, PlaneNear
<1>5. CASE c.type = "circle"
  <2>1. Pushed(c) = Plane(c, Loop(c.r), Loop(c.r), Rim(c))
    BY <1>5, PlaneMethods DEF Pushed
  <2>. QED
    BY <1>1, <1>2, <1>3, <2>1, PlaneNear
<1>6. CASE c.type = "ellipse"
  <2>1. Pushed(c) = Plane(c, Loop(c.l), Loop(c.w), Oval(c))
    BY <1>6, PlaneMethods DEF Pushed, IsCentral
  <2>. QED
    BY <1>1, <1>2, <1>3, <2>1, PlaneNear
<1>7. CASE c.type = "sphere"
  <2>1. Shell(c) \in SUBSET Place /\ Ball(c) \in SUBSET Place
    BY DEF Shell, Ball
  <2>2. Pushed(c) = buildsphere(c) /\ ToSet(<<>>) = {}
    BY <1>7 DEF Pushed, ToSet
  <2>3. CASE c.shape = "hollow"
    BY <1>1, <1>3, <2>1, <2>2, <2>3, SphereMethod, SolidNear
  <2>4. CASE c.shape = "solid"
    BY <1>1, <1>3, <2>1, <2>2, <2>4, SphereMethod, SolidNear
  <2>. QED
    BY <2>2, <2>3, <2>4, SphereMethod
<1>. QED
  BY <1>4, <1>5, <1>6, <1>7 DEF IsCentral
-----------------------------------------------------------------------------
(* The bounds of a ring *)

LEMMA SizeFacts ==
    ASSUME NEW n \in Int
    PROVE  Size(n) \in Nat /\ -Size(n) <= n /\ n <= Size(n) /\ (Size(n) = n \/ Size(n) = -n)
BY DEF Size

LEMMA ProductBound ==
    ASSUME NEW a \in Int, NEW b \in Int, NEW A \in Nat, NEW B \in Nat,
           -A <= a, a <= A, -B <= b, b <= B
    PROVE  a * b \in Int /\ -(A * B) <= a * b /\ a * b <= A * B
<1>1. \A x, y \in Nat : x <= A /\ y <= B => x * y <= A * B
  <2>1. ASSUME NEW x \in Nat, NEW y \in Nat, x <= A, y <= B PROVE x * y <= A * B
    <3>1. x * y <= x * B
      BY <2>1
    <3>2. x * B <= A * B
      BY <2>1
    <3>3. x * y \in Int /\ x * B \in Int /\ A * B \in Int
      OBVIOUS
    <3>. QED
      BY <3>1, <3>2, <3>3
  <2>. QED
    BY <2>1
<1>2. Size(a) \in Nat /\ Size(b) \in Nat /\ Size(a) <= A /\ Size(b) <= B
  BY DEF Size
<1>3. Size(a) * Size(b) <= A * B /\ Size(a) * Size(b) >= 0
  BY <1>1, <1>2
<1>4. a * b = Size(a) * Size(b) \/ a * b = -(Size(a) * Size(b))
  <2>1. CASE Size(a) = a /\ Size(b) = b
    BY <2>1
  <2>2. CASE Size(a) = -a /\ Size(b) = b
    BY <2>2
  <2>3. CASE Size(a) = a /\ Size(b) = -b
    BY <2>3
  <2>4. CASE Size(a) = -a /\ Size(b) = -b
    BY <2>4
  <2>. QED
    BY <2>1, <2>2, <2>3, <2>4, SizeFacts
<1>5. a * b \in Int /\ A * B \in Int /\ Size(a) * Size(b) \in Int
  BY <1>2
<1>. QED
  BY <1>3, <1>4, <1>5

LEMMA RoundBound ==
    ASSUME NEW n \in Int, NEW d \in Nat \ {0}, NEW B \in Nat, -(B * d) <= 2 * n, 2 * n <= B * d
    PROVE  Round(n, d) \in Int /\ 2 * Round(n, d) \in -(B + 1) .. B + 1
<1>1. ASSUME NEW m \in Nat, 2 * m <= B * d PROVE (2 * m + d) \div (2 * d) \in Int
                                                 /\ 2 * ((2 * m + d) \div (2 * d)) \in 0 .. B + 1
  <2>. DEFINE w == 2 * d  N == 2 * m + d  q == N \div w
  <2>1. w \in Nat \ {0} /\ N \in Nat /\ N <= (B + 1) * d
    <3>1. (B + 1) * d = B * d + d
      OBVIOUS
    <3>. QED
      BY <1>1, <3>1
  <2>2. q \in Int /\ N % w \in 0 .. w - 1 /\ N = w * q + (N % w)
    <3>. HIDE DEF w, N
    <3>. QED
      BY <2>1, DivMod
  <2>. DEFINE r == N % w
  <2>3. r \in 0 .. w - 1 /\ N = w * q + r
    BY <2>2
  <2>4. w * q = d * (2 * q)
    BY <2>2
  <2>. HIDE DEF w, N, q, r
  <2>5. d * (2 * q) <= d * (B + 1) /\ d * (2 * q) > d * (-2)
    <3>1. w = 2 * d
      BY DEF w
    <3>2. d * (B + 1) = (B + 1) * d /\ d * (-2) = -w
      BY <3>1
    <3>3. d * (2 * q) = N - r
      BY <2>1, <2>2, <2>3, <2>4
    <3>4. d * (B + 1) \in Int /\ d * (-2) \in Int
      OBVIOUS
    <3>. QED
      BY <2>1, <2>3, <3>2, <3>3, <3>4
  <2>6. 2 * q <= B + 1
    <3>1. ASSUME 2 * q >= B + 2 PROVE FALSE
      <4>1. d * (2 * q) >= d * (B + 2)
        BY <2>2, <3>1
      <4>2. d * (B + 2) = d * (B + 1) + d
        OBVIOUS
      <4>3. d * (2 * q) \in Int /\ d * (B + 1) \in Int
        BY <2>2
      <4>. QED
        BY <2>5, <4>1, <4>2, <4>3
    <3>. QED
      BY <2>2, <3>1
  <2>7. q >= 0
    <3>1. ASSUME q <= -1 PROVE FALSE
      <4>1. 2 * q \in Int /\ 2 * q <= -2
        BY <2>2, <3>1
      <4>2. d * (2 * q) <= d * (-2)
        BY <4>1
      <4>3. d * (2 * q) \in Int /\ d * (-2) \in Int
        BY <2>2
      <4>. QED
        BY <2>5, <4>2, <4>3
    <3>. QED
      BY <2>2, <3>1
  <2>8. q \in Int /\ 2 * q \in 0 .. B + 1
    BY <2>2, <2>6, <2>7
  <2>. QED
    BY <2>8 DEF q, N, w
<1>2. CASE n >= 0
  <2>1. n \in Nat /\ Round(n, d) = (2 * n + d) \div (2 * d)
    BY <1>2 DEF Round
  <2>. QED
    BY <1>1, <2>1
<1>3. CASE ~(n >= 0)
  <2>. DEFINE m == -n
  <2>1. m \in Nat /\ 2 * m <= B * d /\ d - 2 * n = 2 * m + d
    BY <1>3
  <2>2. Round(n, d) = -((2 * m + d) \div (2 * d))
    BY <1>3, <2>1 DEF Round
  <2>. HIDE DEF m
  <2>3. (2 * m + d) \div (2 * d) \in Int /\ 2 * ((2 * m + d) \div (2 * d)) \in 0 .. B + 1
    BY <1>1, <2>1
  <2>. QED
    BY <2>2, <2>3
<1>. QED
  BY <1>2, <1>3
\* The offsets of a ring, for any two angles
LEMMA RingBound ==
    ASSUME NEW c, Parsed(c), NEW height \in Int, NEW v \in ToSet(Turn), NEW u \in ToSet(Turn)
    PROVE  LET o == Ring(c, height, v, u)
               reach == Size(c.r) + Size(c.l) + 1
           IN  /\ o \in Place
               /\ 2 * o[1] \in -reach .. reach /\ 2 * o[2] \in -reach .. reach
               /\ 2 * o[3] \in -(Size(height) + 1) .. Size(height) + 1
<1>. DEFINE out == c.l * v[1] + c.r * Unit
            B == Size(c.r) + Size(c.l)
            e == 2 * Unit * Unit
            f == 2 * Unit
            H == Size(height)
<1>1. c.l \in Int /\ c.r \in Int
  BY DEF Parsed
<1>2. /\ Unit \in Nat \ {0}
      /\ v[1] \in -Unit .. Unit /\ v[2] \in -Unit .. Unit /\ u[1] \in -Unit .. Unit /\ u[2] \in -Unit .. Unit
  BY TurnBounded, UnitPositive
<1>3. Size(c.l) \in Nat /\ Size(c.r) \in Nat /\ B \in Nat /\ H \in Nat
  BY <1>1, SizeFacts
<1>4. out \in Int /\ -(B * Unit) <= out /\ out <= B * Unit
  <2>. DEFINE a == c.l * v[1]  b == c.r * Unit  x == Size(c.l) * Unit  y == Size(c.r) * Unit
  <2>1. a \in Int /\ -x <= a /\ a <= x
    BY <1>1, <1>2, SizeFacts, ProductBound
  <2>2. b \in Int /\ -y <= b /\ b <= y
    BY <1>1, <1>2, SizeFacts, ProductBound
  <2>3. B * Unit = x + y /\ x \in Int /\ y \in Int
    BY <1>2, <1>3
  <2>. HIDE DEF a, b, x, y, B
  <2>4. -(x + y) <= a + b /\ a + b <= x + y /\ a + b \in Int
    BY <2>1, <2>2, <2>3
  <2>5. out = a + b
    BY DEF a, b
  <2>. QED
    BY <2>3, <2>4, <2>5
<1>5. out \in Int /\ B * Unit \in Nat /\ e \in Nat \ {0} /\ f \in Nat \ {0}
  BY <1>2, <1>3, <1>4
<1>6. B * e = 2 * (Unit * (B * Unit)) /\ H * f = 2 * (H * Unit)
  BY <1>2, <1>3
<1>7. Ring(c, height, v, u) = <<Round(u[1] * out, e), Round(u[2] * out, e), Round(height * v[2], f)>>
  BY DEF Ring
<1>8. B + 1 = Size(c.r) + Size(c.l) + 1
  OBVIOUS
<1>. HIDE DEF out, B, e, f
<1>9. ASSUME NEW x \in -Unit .. Unit
      PROVE  Round(x * out, e) \in Int /\ 2 * Round(x * out, e) \in -(B + 1) .. B + 1
  <2>. DEFINE n == x * out  M == Unit * (B * Unit)
  <2>1. x \in Int /\ -Unit <= x /\ x <= Unit /\ Unit \in Nat
    BY <1>2
  <2>2. n \in Int /\ -M <= n /\ n <= M
    BY <1>4, <1>5, <2>1, ProductBound
  <2>3. M \in Int /\ B * e = 2 * M
    BY <1>5, <1>6, <2>1
  <2>. HIDE DEF n, M
  <2>4. -(B * e) <= 2 * n /\ 2 * n <= B * e
    BY <2>2, <2>3
  <2>5. Round(n, e) \in Int /\ 2 * Round(n, e) \in -(B + 1) .. B + 1
    BY <1>3, <1>5, <2>2, <2>4, RoundBound
  <2>. QED
    BY <2>5 DEF n
<1>10. Round(height * v[2], f) \in Int /\ 2 * Round(height * v[2], f) \in -(H + 1) .. H + 1
  <2>. DEFINE n == height * v[2]  M == H * Unit
  <2>1. v[2] \in Int /\ -Unit <= v[2] /\ v[2] <= Unit /\ Unit \in Nat
    BY <1>2
  <2>2. H \in Nat /\ -H <= height /\ height <= H
    BY SizeFacts
  <2>. HIDE DEF H
  <2>3. n \in Int /\ -M <= n /\ n <= M
    BY <2>1, <2>2, ProductBound
  <2>4. M \in Int /\ H * f = 2 * M
    BY <1>6, <2>1, <2>2
  <2>. HIDE DEF n, M
  <2>5. -(H * f) <= 2 * n /\ 2 * n <= H * f
    BY <2>3, <2>4
  <2>6. Round(n, f) \in Int /\ 2 * Round(n, f) \in -(H + 1) .. H + 1
    BY <1>5, <2>2, <2>3, <2>5, RoundBound
  <2>. QED
    BY <2>6 DEF n
<1>11. /\ Round(u[1] * out, e) \in Int /\ 2 * Round(u[1] * out, e) \in -(B + 1) .. B + 1
       /\ Round(u[2] * out, e) \in Int /\ 2 * Round(u[2] * out, e) \in -(B + 1) .. B + 1
  BY <1>2, <1>9
<1>. QED
  BY <1>7, <1>8, <1>10, <1>11 DEF Place

\* No further than reach in the plane of a ring and than high along its axis
Bounded(p, at, axis, reach, high) ==
    \A k \in 1 .. 3 : 2 * Size(p[k] - at[k]) <= 1 + (IF k # axis THEN reach ELSE high)

LEMMA AlongBounded ==
    ASSUME NEW at \in Place, NEW d \in {"x", "y", "z"}, NEW o \in Place,
           NEW reach \in Nat, NEW high \in Nat,
           2 * o[1] \in -(reach + 1) .. reach + 1, 2 * o[2] \in -(reach + 1) .. reach + 1,
           2 * o[3] \in -(high + 1) .. high + 1
    PROVE  Bounded(Along(at, d, o), at, CASE d = "x" -> 1 [] d = "y" -> 2 [] d = "z" -> 3, reach, high)
<1>. DEFINE x == at[1]  y == at[2]  z == at[3]  i == o[1]  j == o[2]  k == o[3]
<1>1. x \in Int /\ y \in Int /\ z \in Int /\ i \in Int /\ j \in Int /\ k \in Int
  BY DEF Place
<1>2. \A n \in Int : (x + n) - x = n /\ (y + n) - y = n /\ (z + n) - z = n
  BY <1>1
<1>3. 2 * Size(i) <= 1 + reach /\ 2 * Size(j) <= 1 + reach /\ 2 * Size(k) <= 1 + high
  BY <1>1 DEF Size
<1>4. 1 .. 3 = {1, 2, 3}
  OBVIOUS
<1>5. CASE d = "x"
  <2>1. Along(at, d, o) = <<x + k, y + i, z + j>>
    BY <1>5 DEF Along
  <2>. HIDE DEF x, y, z, i, j, k
  <2>2. \A n \in {1, 2, 3} : 2 * Size(<<x + k, y + i, z + j>>[n] - <<x, y, z>>[n])
            <= 1 + (IF n # 1 THEN reach ELSE high)
    BY <1>1, <1>2, <1>3
  <2>3. \A n \in {1, 2, 3} : <<x, y, z>>[n] = at[n]
    BY DEF x, y, z
  <2>. QED
    BY <1>4, <1>5, <2>1, <2>2, <2>3 DEF Bounded
<1>6. CASE d = "y"
  <2>1. Along(at, d, o) = <<x + i, y + k, z + j>>
    BY <1>6 DEF Along
  <2>. HIDE DEF x, y, z, i, j, k
  <2>2. \A n \in {1, 2, 3} : 2 * Size(<<x + i, y + k, z + j>>[n] - <<x, y, z>>[n])
            <= 1 + (IF n # 2 THEN reach ELSE high)
    BY <1>1, <1>2, <1>3
  <2>3. \A n \in {1, 2, 3} : <<x, y, z>>[n] = at[n]
    BY DEF x, y, z
  <2>. QED
    BY <1>4, <1>6, <2>1, <2>2, <2>3 DEF Bounded
<1>7. CASE d = "z"
  <2>1. Along(at, d, o) = <<x + i, y + j, z + k>>
    BY <1>7 DEF Along
  <2>. HIDE DEF x, y, z, i, j, k
  <2>2. \A n \in {1, 2, 3} : 2 * Size(<<x + i, y + j, z + k>>[n] - <<x, y, z>>[n])
            <= 1 + (IF n # 3 THEN reach ELSE high)
    BY <1>1, <1>2, <1>3
  <2>3. \A n \in {1, 2, 3} : <<x, y, z>>[n] = at[n]
    BY DEF x, y, z
  <2>. QED
    BY <1>4, <1>7, <2>1, <2>2, <2>3 DEF Bounded
<1>. QED
  BY <1>5, <1>6, <1>7

\* All places of a ring
LEMMA AroundBounded ==
    ASSUME NEW at \in Place, NEW dir, NEW offset, NEW reach \in Nat, NEW high \in Nat,
           \A a \in ToSet(Turn) \X ToSet(Turn) :
               /\ offset[a] \in Place
               /\ 2 * offset[a][1] \in -(reach + 1) .. reach + 1
               /\ 2 * offset[a][2] \in -(reach + 1) .. reach + 1
               /\ 2 * offset[a][3] \in -(high + 1) .. high + 1,
           NEW p \in ToSet(Around(at, dir, Turn, offset))
    PROVE  /\ dir \in {"x", "y", "z"}
           /\ Bounded(p, at, CASE dir = "x" -> 1 [] dir = "y" -> 2 [] dir = "z" -> 3, reach, high)
<1>1. Turn \in Seq(Int \X Int)
  BY UnitPositive
<1>2. \A a \in ToSet(Turn) \X ToSet(Turn) : offset[a] \in Place
  OBVIOUS
<1>3. dir \in {"x", "y", "z"}
  <2>1. ToSet(<<>>) = {}
    BY DEF ToSet
  <2>. QED
    BY <1>1, <1>2, <2>1, AroundProperties
<1>4. PICK v \in ToSet(Turn), u \in ToSet(Turn) : p = Along(at, dir, offset[<<v, u>>])
  <2>1. \A q : q \in ToSet(Around(at, dir, Turn, offset)) <=> InAround(q, at, dir, Turn, offset)
    BY <1>1, <1>2, <1>3, AroundProperties
  <2>. QED
    BY <2>1 DEF InAround
<1>. DEFINE o == offset[<<v, u>>]
<1>5. /\ o \in Place
      /\ 2 * o[1] \in -(reach + 1) .. reach + 1 /\ 2 * o[2] \in -(reach + 1) .. reach + 1
      /\ 2 * o[3] \in -(high + 1) .. high + 1
  OBVIOUS
<1>6. p = Along(at, dir, o)
  BY <1>4
<1>. HIDE DEF o
<1>. QED
  BY <1>3, <1>5, <1>6, AlongBounded

LEMMA TorusBounded ==
    ASSUME NEW c, Parsed(c), c.type = "torus", NEW p \in ToSet(buildtorus(c))
    PROVE  Bounded(p, c.at, Axis(c), Size(c.r) + Size(c.l), Size(c.l))
<1>. DEFINE turned == CASE c.dir = "x" -> "z" [] c.dir = "z" -> "x" [] OTHER -> c.dir
            offset == [a \in ToSet(Turn) \X ToSet(Turn) |-> Ring(c, c.l, a[1], a[2])]
            reach == Size(c.r) + Size(c.l)
            high == Size(c.l)
<1>1. buildtorus(c) = Around(c.at, turned, Turn, offset)
  BY DEF buildtorus
<1>2. c.at \in Place /\ c.l \in Int /\ c.r \in Int
  BY DEF Parsed
<1>3. reach \in Nat /\ high \in Nat
  BY <1>2, SizeFacts
<1>4. ASSUME NEW a \in ToSet(Turn) \X ToSet(Turn)
      PROVE  /\ offset[a] \in Place
             /\ 2 * offset[a][1] \in -(reach + 1) .. reach + 1
             /\ 2 * offset[a][2] \in -(reach + 1) .. reach + 1
             /\ 2 * offset[a][3] \in -(high + 1) .. high + 1
  <2>1. offset[a] = Ring(c, c.l, a[1], a[2]) /\ a[1] \in ToSet(Turn) /\ a[2] \in ToSet(Turn)
    OBVIOUS
  <2>. QED
    BY <1>2, <2>1, RingBound
<1>. HIDE DEF turned, offset, reach, high
<1>5. /\ turned \in {"x", "y", "z"}
      /\ Bounded(p, c.at, CASE turned = "x" -> 1 [] turned = "y" -> 2 [] turned = "z" -> 3, reach, high)
  BY <1>1, <1>2, <1>3, <1>4, AroundBounded
<1>6. (CASE turned = "x" -> 1 [] turned = "y" -> 2 [] turned = "z" -> 3) = Axis(c)
  <2>1. CASE c.dir = "x"
    BY <2>1 DEF turned, Axis
  <2>2. CASE c.dir = "z"
    BY <2>2 DEF turned, Axis
  <2>3. CASE c.dir \notin {"x", "z"}
    BY <1>5, <2>3 DEF turned, Axis
  <2>. QED
    BY <2>1, <2>2, <2>3
<1>. QED
  BY <1>5, <1>6 DEF reach, high

LEMMA EllipticTorusBounded ==
    ASSUME NEW c, Parsed(c), c.type = "ellipticTorus", NEW p \in ToSet(buildellipticTorus(c))
    PROVE  Bounded(p, c.at, Axis(c), Size(c.r) + Size(c.l), Size(c.w))
<1>. DEFINE swap(o) == IF c.dir = "x" THEN <<o[2], o[1], o[3]>> ELSE o
            offset == [a \in ToSet(Turn) \X ToSet(Turn) |-> swap(Ring(c, c.w, a[1], a[2]))]
            reach == Size(c.r) + Size(c.l)
            high == Size(c.w)
<1>1. buildellipticTorus(c) = Around(c.at, c.dir, Turn, offset)
  BY DEF buildellipticTorus
<1>2. c.at \in Place /\ c.l \in Int /\ c.r \in Int /\ c.w \in Int
  BY DEF Parsed
<1>3. reach \in Nat /\ high \in Nat
  BY <1>2, SizeFacts
<1>4. ASSUME NEW a \in ToSet(Turn) \X ToSet(Turn)
      PROVE  /\ offset[a] \in Place
             /\ 2 * offset[a][1] \in -(reach + 1) .. reach + 1
             /\ 2 * offset[a][2] \in -(reach + 1) .. reach + 1
             /\ 2 * offset[a][3] \in -(high + 1) .. high + 1
  <2>. DEFINE o == Ring(c, c.w, a[1], a[2])
  <2>1. offset[a] = swap(o) /\ a[1] \in ToSet(Turn) /\ a[2] \in ToSet(Turn)
    OBVIOUS
  <2>2. /\ o \in Place
        /\ 2 * o[1] \in -(reach + 1) .. reach + 1 /\ 2 * o[2] \in -(reach + 1) .. reach + 1
        /\ 2 * o[3] \in -(high + 1) .. high + 1
    BY <1>2, <2>1, RingBound
  <2>3. swap(o) = IF c.dir = "x" THEN <<o[2], o[1], o[3]>> ELSE o
    OBVIOUS
  <2>. HIDE DEF o, offset, swap, reach, high
  <2>4. swap(o) \in Place
    BY <2>2, <2>3 DEF Place
  <2>. QED
    BY <2>1, <2>2, <2>3, <2>4
<1>. HIDE DEF offset, reach, high
<1>5. /\ c.dir \in {"x", "y", "z"}
      /\ Bounded(p, c.at, CASE c.dir = "x" -> 1 [] c.dir = "y" -> 2 [] c.dir = "z" -> 3, reach, high)
  BY <1>1, <1>2, <1>3, <1>4, AroundBounded
<1>6. (CASE c.dir = "x" -> 1 [] c.dir = "y" -> 2 [] c.dir = "z" -> 3) = Axis(c)
  BY <1>5 DEF Axis
<1>. QED
  BY <1>5, <1>6 DEF reach, high
-----------------------------------------------------------------------------
(* Circles and hollow spheres without holes *)

LEMMA SquareFacts ==
    ASSUME NEW i \in Int
    PROVE  Sq(i) \in Nat /\ Sq(-i) = Sq(i) /\ Sq(2 * i) = 4 * Sq(i)
           /\ Sq(i + 1) = Sq(i) + 2 * i + 1 /\ Sq(i - 1) = Sq(i) - 2 * i + 1
<1>1. i * i >= 0
  <2>1. CASE i >= 0
    BY <2>1
  <2>2. CASE i < 0
    BY <2>2
  <2>. QED
    BY <2>1, <2>2
<1>. QED
  BY <1>1 DEF Sq

\* Of two numbers the one with the larger square is farther from 0.
LEMMA SquareLess ==
    ASSUME NEW i \in Int, NEW m \in Int, Sq(i) < Sq(m), m >= 0
    PROVE  -m < i /\ i < m
<1>1. ASSUME NEW n \in Int, n >= m PROVE n * n >= m * m
  <2>1. n * n = m * m + (n - m) * (n + m)
    OBVIOUS
  <2>2. \A x, y \in Nat : x * y >= 0
    OBVIOUS
  <2>3. n - m \in Nat /\ n + m \in Nat
    BY <1>1
  <2>4. (n - m) * (n + m) >= 0
    BY <2>2, <2>3
  <2>. QED
    BY <2>1, <2>4
<1>2. ~(i >= m)
  BY <1>1 DEF Sq
<1>3. ~(-i >= m)
  <2>1. (-i) * (-i) = i * i /\ -i \in Int
    OBVIOUS
  <2>. QED
    BY <1>1, <2>1 DEF Sq
<1>. QED
  BY <1>2, <1>3

\* Where a point is inside the inner edge, its neighbours are inside the outer.
LEMMA InnerStep ==
    ASSUME NEW i \in Int, NEW d \in {-1, 1}, NEW rest \in Nat, NEW a \in Nat \ {0},
           Sq(i) + rest < Sq(a - 1)
    PROVE  Sq(i + d) + rest < Sq(a)
<1>1. a - 1 \in Int /\ a - 1 >= 0 /\ Sq(i) \in Nat /\ Sq(a - 1) \in Nat
  BY SquareFacts
<1>2. Sq(i) < Sq(a - 1)
  BY <1>1
<1>3. -(a - 1) < i /\ i < a - 1
  BY <1>1, <1>2, SquareLess
<1>4. Sq(i + 1) = Sq(i) + 2 * i + 1 /\ Sq(i - 1) = Sq(i) - 2 * i + 1 /\ Sq(a - 1) = Sq(a) - 2 * a + 1
  BY SquareFacts
<1>5. Sq(a) \in Nat
  BY SquareFacts
<1>6. CASE d = 1
  <2>1. Sq(i + d) = Sq(i) + 2 * i + 1
    BY <1>4, <1>6
  <2>. QED
    BY <1>1, <1>3, <1>4, <1>5, <2>1
<1>7. CASE d = -1
  <2>1. i + d = i - 1
    BY <1>7
  <2>2. Sq(i + d) = Sq(i) - 2 * i + 1
    BY <1>4, <2>1
  <2>. QED
    BY <1>1, <1>3, <1>4, <1>5, <2>2
<1>. QED
  BY <1>6, <1>7
\* The space around the position that the structure divides
Span(c, k) ==
    IF c.type = "circle" /\ c.dir = <<"x", "y", "z">>[k] THEN {c.at[k]}
    ELSE c.at[k] - c.r \div 2 .. c.at[k] + c.r \div 2
Room(c) == Span(c, 1) \X Span(c, 2) \X Span(c, 3)
Distance(p, q) == Sq(p[1] - q[1]) + Sq(p[2] - q[2]) + Sq(p[3] - q[3])

IsHollow(c) ==
    \/ c.type = "circle" /\ c.dir \in {"x", "y", "z"}
    \/ c.type = "sphere" /\ c.shape = "hollow"

\* A place of the room, by its way from the position
LEMMA RoomOffset ==
    ASSUME NEW c, Parsed(c), NEW a \in Nat, c.r = 2 * a, NEW p \in Room(c)
    PROVE  LET i == p[1] - c.at[1]  j == p[2] - c.at[2]  k == p[3] - c.at[3] IN
           /\ p = <<c.at[1] + i, c.at[2] + j, c.at[3] + k>>
           /\ i \in -a .. a /\ j \in -a .. a /\ k \in -a .. a
           /\ Distance(p, c.at) = Sq(i) + Sq(j) + Sq(k)
           /\ c.type = "circle" => /\ c.dir = "x" => i = 0
                                   /\ c.dir = "y" => j = 0
                                   /\ c.dir = "z" => k = 0
<1>. DEFINE x == c.at[1]  y == c.at[2]  z == c.at[3]
<1>1. x \in Int /\ y \in Int /\ z \in Int
  BY DEF Parsed, Place
<1>2. c.r \div 2 = a
  <2>1. (2 * a) \div 2 = a
    OBVIOUS
  <2>. QED
    BY <2>1
<1>3. p[1] \in Span(c, 1) /\ p[2] \in Span(c, 2) /\ p[3] \in Span(c, 3) /\ p = <<p[1], p[2], p[3]>>
  BY DEF Room
<1>4. /\ Span(c, 1) = IF c.type = "circle" /\ c.dir = "x" THEN {x} ELSE x - a .. x + a
      /\ Span(c, 2) = IF c.type = "circle" /\ c.dir = "y" THEN {y} ELSE y - a .. y + a
      /\ Span(c, 3) = IF c.type = "circle" /\ c.dir = "z" THEN {z} ELSE z - a .. z + a
  BY <1>2 DEF Span
<1>5. Distance(p, c.at) = Sq(p[1] - x) + Sq(p[2] - y) + Sq(p[3] - z)
  BY DEF Distance
<1>. HIDE DEF x, y, z
<1>6. \A s \in Int : \A v \in s - a .. s + a : v - s \in -a .. a /\ s + (v - s) = v
  OBVIOUS
<1>7. \A s \in Int : s - s = 0 /\ 0 \in -a .. a /\ s + 0 = s
  OBVIOUS
<1>8. p[1] - x \in -a .. a /\ x + (p[1] - x) = p[1] /\ (c.type = "circle" /\ c.dir = "x" => p[1] - x = 0)
  <2>1. CASE c.type = "circle" /\ c.dir = "x"
    <3>1. p[1] = x
      BY <1>3, <1>4, <2>1
    <3>. QED
      BY <1>1, <1>7, <3>1
  <2>2. CASE ~(c.type = "circle" /\ c.dir = "x")
    <3>1. p[1] \in x - a .. x + a
      BY <1>3, <1>4, <2>2
    <3>. QED
      BY <1>1, <1>6, <2>2, <3>1
  <2>. QED
    BY <2>1, <2>2
<1>9. p[2] - y \in -a .. a /\ y + (p[2] - y) = p[2] /\ (c.type = "circle" /\ c.dir = "y" => p[2] - y = 0)
  <2>1. CASE c.type = "circle" /\ c.dir = "y"
    <3>1. p[2] = y
      BY <1>3, <1>4, <2>1
    <3>. QED
      BY <1>1, <1>7, <3>1
  <2>2. CASE ~(c.type = "circle" /\ c.dir = "y")
    <3>1. p[2] \in y - a .. y + a
      BY <1>3, <1>4, <2>2
    <3>. QED
      BY <1>1, <1>6, <2>2, <3>1
  <2>. QED
    BY <2>1, <2>2
<1>10. p[3] - z \in -a .. a /\ z + (p[3] - z) = p[3] /\ (c.type = "circle" /\ c.dir = "z" => p[3] - z = 0)
  <2>1. CASE c.type = "circle" /\ c.dir = "z"
    <3>1. p[3] = z
      BY <1>3, <1>4, <2>1
    <3>. QED
      BY <1>1, <1>7, <3>1
  <2>2. CASE ~(c.type = "circle" /\ c.dir = "z")
    <3>1. p[3] \in z - a .. z + a
      BY <1>3, <1>4, <2>2
    <3>. QED
      BY <1>1, <1>6, <2>2, <3>1
  <2>. QED
    BY <2>1, <2>2
<1>. QED
  BY <1>3, <1>5, <1>8, <1>9, <1>10 DEF x, y, z

LEMMA LoopHas == ASSUME NEW a \in Nat, NEW i \in -a .. a PROVE 2 * i \in ToSet(Loop(2 * a))
BY LoopEven

\* The numbers of the two edges
LEMMA Edges ==
    ASSUME NEW a \in Nat, NEW d \in Nat
    PROVE  /\ d < Sq(a) => 4 * d < Sq(2 * a)
           /\ Sq(a - 1) <= d => Sq(2 * a - 2) <= 4 * d
<1>1. Sq(2 * a) = 4 * Sq(a) /\ Sq(a) \in Nat
  BY SquareFacts
<1>2. Sq(2 * (a - 1)) = 4 * Sq(a - 1) /\ Sq(a - 1) \in Nat
  <2>1. a - 1 \in Int
    OBVIOUS
  <2>. QED
    BY <2>1, SquareFacts
<1>3. 2 * (a - 1) = 2 * a - 2
  OBVIOUS
<1>. QED
  BY <1>1, <1>2, <1>3

\* All places between the two edges are pushed.
LEMMA EdgePushed ==
    ASSUME NEW c, Parsed(c), NEW a \in Nat, c.r = 2 * a, IsHollow(c), NEW p \in Room(c),
           Sq(a - 1) <= Distance(p, c.at), Distance(p, c.at) < Sq(a)
    PROVE  p \in ToSet(Pushed(c))
<1>. DEFINE i == p[1] - c.at[1]  j == p[2] - c.at[2]  k == p[3] - c.at[3]
            x == c.at[1]  y == c.at[2]  z == c.at[3]
<1>1. /\ p = <<x + i, y + j, z + k>>
      /\ i \in -a .. a /\ j \in -a .. a /\ k \in -a .. a
      /\ Distance(p, c.at) = Sq(i) + Sq(j) + Sq(k)
      /\ c.type = "circle" => /\ c.dir = "x" => i = 0
                              /\ c.dir = "y" => j = 0
                              /\ c.dir = "z" => k = 0
  BY RoomOffset
<1>2. c.at \in Place /\ c.r \in Int
  BY DEF Parsed
<1>. HIDE DEF i, j, k
<1>3. /\ Sq(i) \in Nat /\ Sq(j) \in Nat /\ Sq(k) \in Nat
      /\ Sq(2 * i) = 4 * Sq(i) /\ Sq(2 * j) = 4 * Sq(j) /\ Sq(2 * k) = 4 * Sq(k)
  BY <1>1, SquareFacts
<1>4. 2 * i \in ToSet(Loop(c.r)) /\ 2 * j \in ToSet(Loop(c.r)) /\ 2 * k \in ToSet(Loop(c.r))
  BY <1>1, LoopHas
<1>. DEFINE d == Sq(i) + Sq(j) + Sq(k)
<1>5. 4 * d < Sq(c.r) /\ Sq(c.r - 2) <= 4 * d
  <2>1. d \in Nat /\ d < Sq(a) /\ Sq(a - 1) <= d
    BY <1>1, <1>3
  <2>. HIDE DEF d
  <2>. QED
    BY <2>1, Edges
<1>6. 4 * d = Sq(2 * i) + Sq(2 * j) + Sq(2 * k)
  BY <1>3
<1>7. i \in Int /\ j \in Int /\ k \in Int /\ 2 * i \in Int /\ 2 * j \in Int /\ 2 * k \in Int
  BY <1>1
<1>. HIDE DEF d
<1>8. CASE c.type = "sphere" /\ c.shape = "hollow"
  <2>1. Pushed(c) = Solid(c, Shell(c)) /\ Shell(c) \in SUBSET Place
    BY <1>8, SphereMethod DEF Pushed, Shell, Ball
  <2>2. \A q : q \in ToSet(Solid(c, Shell(c))) <=> InSolid(q, c, Shell(c))
    BY <1>2, <2>1, SolidProperties
  <2>3. <<2 * i, 2 * j, 2 * k>> \in Shell(c)
    <3>1. <<2 * i, 2 * j, 2 * k>> \in Place
      BY <1>7 DEF Place
    <3>2. Square(<<2 * i, 2 * j, 2 * k>>) = 4 * d
      BY <1>6 DEF Square
    <3>3. 4 * d <= Sq(c.r)
      <4>1. d \in Nat
        BY <1>3 DEF d
      <4>2. Sq(c.r) \in Nat
        BY <1>2, SquareFacts
      <4>. QED
        BY <1>5, <4>1, <4>2
    <3>. QED
      BY <1>5, <3>1, <3>2, <3>3 DEF Shell, Ball
  <2>4. Shifted(c.at, <<2 * i, 2 * j, 2 * k>>) = <<x + i, y + j, z + k>>
    BY <1>2, <1>7, ShiftedEven, ZenonT(30)
  <2>. QED
    BY <1>1, <1>4, <2>1, <2>2, <2>3, <2>4 DEF InSolid
<1>9. CASE c.type = "circle" /\ c.dir \in {"x", "y", "z"}
  <2>1. Pushed(c) = Plane(c, Loop(c.r), Loop(c.r), Rim(c)) /\ Rim(c) \in SUBSET (Int \X Int)
    BY <1>9, PlaneMethods DEF Pushed, Rim, Disc
  <2>2. \A q : q \in ToSet(Pushed(c)) <=> InOffsets(q, c, Loop(c.r), Loop(c.r), Rim(c))
    <3>1. Loop(c.r) \in Seq(Int)
      BY <1>2, LoopProperties
    <3>. QED
      BY <1>2, <1>9, <2>1, <3>1, PlaneProperties
  <2>3. ASSUME NEW m \in {i, j, k}, NEW n \in {i, j, k}, d = Sq(m) + Sq(n)
        PROVE  <<2 * m, 2 * n>> \in Rim(c) /\ 2 * m \in ToSet(Loop(c.r)) /\ 2 * n \in ToSet(Loop(c.r))
    <3>1. Sq(2 * m) = 4 * Sq(m) /\ Sq(2 * n) = 4 * Sq(n) /\ Sq(m) \in Nat /\ Sq(n) \in Nat
      BY <1>3
    <3>2. Sq(2 * m) + Sq(2 * n) = 4 * d
      BY <2>3, <3>1
    <3>3. 2 * m \in Int /\ 2 * n \in Int
      BY <1>7
    <3>. QED
      BY <1>4, <1>5, <3>2, <3>3 DEF Rim, Disc
  <2>4. Sq(0) = 0
    BY DEF Sq
  <2>5. CASE c.dir = "x"
    <3>1. i = 0 /\ d = Sq(j) + Sq(k)
      BY <1>1, <1>3, <1>9, <2>4, <2>5 DEF d
    <3>2. InPlane(c.at, c.dir, 2 * j, 2 * k) = <<x + 0, y + j, z + k>>
      BY <1>2, <1>7, <2>5, InPlaneEven
    <3>. QED
      BY <1>1, <2>2, <2>3, <3>1, <3>2 DEF InOffsets
  <2>6. CASE c.dir = "y"
    <3>1. j = 0 /\ d = Sq(i) + Sq(k)
      BY <1>1, <1>3, <1>9, <2>4, <2>6 DEF d
    <3>2. InPlane(c.at, c.dir, 2 * i, 2 * k) = <<x + i, y + 0, z + k>>
      BY <1>2, <1>7, <2>6, InPlaneEven
    <3>. QED
      BY <1>1, <2>2, <2>3, <3>1, <3>2 DEF InOffsets
  <2>7. CASE c.dir = "z"
    <3>1. k = 0 /\ d = Sq(i) + Sq(j)
      BY <1>1, <1>3, <1>9, <2>4, <2>7 DEF d
    <3>2. InPlane(c.at, c.dir, 2 * i, 2 * j) = <<x + i, y + j, z + 0>>
      BY <1>2, <1>7, <2>7, InPlaneEven
    <3>. QED
      BY <1>1, <2>2, <2>3, <3>1, <3>2 DEF InOffsets
  <2>. QED
    BY <1>9, <2>5, <2>6, <2>7
<1>. QED
  BY <1>8, <1>9 DEF IsHollow
\* From inside the inner edge a step in one coordinate stays inside the outer.
LEMMA StaysInside ==
    ASSUME NEW c, Parsed(c), NEW a \in Nat \ {0}, c.r = 2 * a, NEW p \in Room(c),
           Distance(p, c.at) < Sq(a - 1), NEW k \in 1 .. 3, NEW d \in {-1, 1}
    PROVE  Distance([p EXCEPT ![k] = @ + d], c.at) < Sq(a)
<1>. DEFINE x == c.at[1]  y == c.at[2]  z == c.at[3]
            i == p[1] - x  j == p[2] - y  l == p[3] - z
            q == [p EXCEPT ![k] = @ + d]
<1>1. x \in Int /\ y \in Int /\ z \in Int
  BY DEF Parsed, Place
<1>2. /\ p = <<x + i, y + j, z + l>>
      /\ i \in -a .. a /\ j \in -a .. a /\ l \in -a .. a
      /\ Distance(p, c.at) = Sq(i) + Sq(j) + Sq(l)
  BY RoomOffset
<1>3. i \in Int /\ j \in Int /\ l \in Int
  BY <1>2
<1>4. Distance(q, c.at) = Sq(q[1] - x) + Sq(q[2] - y) + Sq(q[3] - z)
  BY DEF Distance
<1>. HIDE DEF i, j, l
<1>5. Sq(i) \in Nat /\ Sq(j) \in Nat /\ Sq(l) \in Nat
  BY <1>3, SquareFacts
<1>6. p[1] = x + i /\ p[2] = y + j /\ p[3] = z + l
  BY <1>2
<1>. HIDE DEF x, y, z
<1>7. CASE k = 1
  <2>1. q = <<(x + i) + d, y + j, z + l>>
    BY <1>2, <1>7
  <2>2. q[1] - x = i + d /\ q[2] - y = j /\ q[3] - z = l
    BY <1>1, <1>3, <2>1
  <2>3. Sq(i + d) + (Sq(j) + Sq(l)) < Sq(a)
    <3>1. Sq(j) + Sq(l) \in Nat /\ Sq(i) + (Sq(j) + Sq(l)) < Sq(a - 1)
      BY <1>2, <1>5
    <3>. QED
      BY <1>3, <3>1, InnerStep
  <2>4. Sq(i + d) \in Nat
    <3>1. i + d \in Int
      BY <1>3
    <3>. QED
      BY <3>1, SquareFacts
  <2>. QED
    BY <1>4, <1>5, <2>2, <2>3, <2>4
<1>8. CASE k = 2
  <2>1. q = <<x + i, (y + j) + d, z + l>>
    BY <1>2, <1>8
  <2>2. q[1] - x = i /\ q[2] - y = j + d /\ q[3] - z = l
    BY <1>1, <1>3, <2>1
  <2>3. Sq(j + d) + (Sq(i) + Sq(l)) < Sq(a)
    <3>1. Sq(i) + Sq(l) \in Nat /\ Sq(j) + (Sq(i) + Sq(l)) < Sq(a - 1)
      BY <1>2, <1>5
    <3>. QED
      BY <1>3, <3>1, InnerStep
  <2>4. Sq(j + d) \in Nat
    <3>1. j + d \in Int
      BY <1>3
    <3>. QED
      BY <3>1, SquareFacts
  <2>. QED
    BY <1>4, <1>5, <2>2, <2>3, <2>4
<1>9. CASE k = 3
  <2>1. q = <<x + i, y + j, (z + l) + d>>
    BY <1>2, <1>9
  <2>2. q[1] - x = i /\ q[2] - y = j /\ q[3] - z = l + d
    BY <1>1, <1>3, <2>1
  <2>3. Sq(l + d) + (Sq(i) + Sq(j)) < Sq(a)
    <3>1. Sq(i) + Sq(j) \in Nat /\ Sq(l) + (Sq(i) + Sq(j)) < Sq(a - 1)
      BY <1>2, <1>5
    <3>. QED
      BY <1>3, <3>1, InnerStep
  <2>4. Sq(l + d) \in Nat
    <3>1. l + d \in Int
      BY <1>3
    <3>. QED
      BY <3>1, SquareFacts
  <2>. QED
    BY <1>4, <1>5, <2>2, <2>3, <2>4
<1>. QED
  BY <1>7, <1>8, <1>9

-----------------------------------------------------------------------------
(* The job *)

Custom(f, l) == IF l THEN buildNBT(f, 0, 0, 0) ELSE Paint(f, 0, 0, 0)

SimpleJob ==
    /\ cmd \in Commands /\ lp = FALSE
    /\ kind = (IF cmd.type \in Curved THEN "curved" ELSE "simple")
    /\ plan = OnlyAt(Pushed(cmd))

CurveJob ==
    /\ kind = "curved" /\ cmd = CurveCmd /\ lp = FALSE
    /\ plan \in {OnlyAt(s) : s \in Curves}

CustomJob ==
    /\ kind = "custom" /\ cmd = CurveCmd
    /\ source \in Files /\ lp \in BOOLEAN
    /\ Custom(source, lp) # NoList
    /\ plan = Custom(source, lp)

\* The job is one a command, a curve or a file makes.
JobInv == SimpleJob \/ CurveJob \/ CustomJob

PushInv ==
    /\ IsInjective(sort)
    /\ phase # "push" => pushed = Len(plan)
    /\ kind # "curved" => Len(sort) = pushed /\ ToSet(sort) = 1 .. pushed
    /\ kind = "curved" => \A i, j \in DOMAIN sort : At(sort[i]) = At(sort[j]) => i = j
    /\ Places(ToSet(sort)) = Places(1 .. pushed)

\* The tiles the loop is through with are filled or put off, and none is both.
TileInv ==
    /\ phase \in {"push", "tiles", "late"} => ~stopped
    /\ phase = "push" => tile = 0
    /\ phase = "late" => tile = Len(sort)
    /\ phase \in {"free", "done"} /\ ~stopped => tile = Len(sort) /\ late = {}
    /\ IsInjective(fills)
    /\ ToSet(fills) \cap late = {}
    /\ ToSet(fills) \cup late = {sort[k] : k \in 1 .. tile}

IsLast(n) == Name(n) \in LastPlace

LateInv == lp =>
    /\ \A n \in late : IsLast(n)
    /\ phase \in {"push", "tiles"} => \A i \in DOMAIN fills : ~IsLast(fills[i])
    /\ \A i, j \in DOMAIN fills : i < j /\ IsLast(fills[i]) => IsLast(fills[j])

\* A block is deleted when one of its entries is gone from vmap.
FreeInv ==
    /\ \A b \in DOMAIN frees : frees[b] = IF b \in deleted THEN 1 ELSE 0
    /\ kind = "custom" /\ phase # "push" => \A n \in ToSet(sort) \ vmap : Block(n) \in deleted
    /\ phase = "done" => vmap = {}

IInv == TypeOK /\ JobInv /\ PushInv /\ TileInv /\ LateInv /\ FreeInv

\* What the steps need to know of the plan
PlanOK ==
    /\ Len(plan) \in Nat /\ DOMAIN plan = 1 .. Len(plan)
    /\ \A n \in 1 .. Len(plan) : At(n) \in Place
    /\ cmd.h \in Int
    /\ lp => kind = "custom"

-----------------------------------------------------------------------------
(* push *)

\* The scan finds an index of the list, or none and then 0.
LEMMA ScanRange ==
    ASSUME sort \in Seq(Nat), NEW p
    PROVE  InsertionIndex(p) \in 0 .. Len(sort)
<1>. DEFINE N == Len(sort)
            first == [c |-> 0, vec |-> <<IntMax, IntMax, IntMax>>]
            next(k, best) ==
                LET q == At(sort[k]) IN
                IF Exceeds(q, p) /\ Below(q, best.vec) THEN [c |-> k - 1, vec |-> q] ELSE best
            IsScan(f) == f = [k \in 0 .. N |-> IF k = 0 THEN first ELSE next(k, f[k - 1])]
            scan == CHOOSE f : IsScan(f)
            V == {[c |-> k, vec |-> At(sort[n])] : k \in 0 .. N, n \in 1 .. N} \cup {first}
            step == [x \in (1 .. N) \X V |-> next(x[1], x[2])]
<1>1. N \in Nat
  BY LenProperties
<1>2. ASSUME NEW k \in 1 .. N, NEW best \in V PROVE next(k, best) \in V
  <2>1. k - 1 \in 0 .. N
    BY <1>1
  <2>2. [c |-> k - 1, vec |-> At(sort[k])] \in V
    BY <2>1
  <2>. HIDE DEF V
  <2>. QED
    BY <2>2
<1>3. first \in V
  OBVIOUS
<1>4. step \in [(1 .. N) \X V -> V]
  <2>. HIDE DEF V, next
  <2>. QED
    BY <1>2
<1>5. \A k \in 1 .. N, best \in V : step[<<k, best>>] = next(k, best)
  <2>. HIDE DEF V, next
  <2>. QED
    OBVIOUS
<1>6. \A best \in V : best.c \in 0 .. N
  BY <1>1
<1>7. InsertionIndex(p) = scan[N].c
  BY DEF InsertionIndex
<1>. HIDE DEF step, V, first
<1>8. PICK f \in [0 .. N -> V] : Recursion(f, N, first, step)
  <2>. HIDE DEF IsScan, scan, next
  <2>. QED
    BY <1>1, <1>3, <1>4, RecursionExists, Zenon
<1>. HIDE DEF next, N
<1>9. IsScan(f)
  <2>1. ASSUME NEW k \in 0 .. N, k # 0 PROVE step[<<k, f[k - 1]>>] = next(k, f[k - 1])
    BY <1>1, <1>5, <2>1
  <2>. QED
    BY <1>8, <2>1 DEF Recursion
<1>10. IsScan(scan)
  BY <1>9
<1>. HIDE DEF scan
<1>11. scan[0] = first /\ \A k \in 1 .. N : scan[k] = next(k, scan[k - 1])
  BY <1>1, <1>10
<1>. DEFINE T == {k \in 0 .. N : scan[k] \in V}
<1>12. 0 \in T
  BY <1>1, <1>3, <1>11
<1>13. ASSUME NEW k \in 0 .. N - 1, k \in T PROVE k + 1 \in T
  <2>1. k + 1 \in 1 .. N /\ (k + 1) - 1 = k
    BY <1>1
  <2>2. next(k + 1, scan[k]) \in V
    BY <1>2, <1>13, <2>1
  <2>3. scan[k + 1] \in V
    BY <1>11, <2>1, <2>2
  <2>. QED
    BY <2>1, <2>3
<1>14. 0 .. N \subseteq T
  <2>. HIDE DEF T
  <2>. QED
    BY <1>1, <1>12, <1>13, InductionUpTo
<1>. QED
  BY <1>1, <1>6, <1>7, <1>14 DEF N

\* Whether the position is already there
Known(n) == kind = "curved" /\ \E k \in DOMAIN sort : SamePlace(At(sort[k]), At(n))

\* push does nothing or adds its number to the list, wherever that is.
LEMMA PushResult ==
    ASSUME TypeOK, PlanOK, Push
    PROVE  LET n == pushed + 1 IN
           /\ n \in 1 .. Len(plan) /\ pushed' = n
           /\ phase = "push" /\ phase' = "push"
           /\ UNCHANGED <<jobVars, tileVars, freeVars>>
           /\ Known(n) => sort' = sort
           /\ ~Known(n) => /\ sort' \in Seq(1 .. n)
                           /\ Len(sort') = Len(sort) + 1
                           /\ ToSet(sort') = ToSet(sort) \cup {n}
                           /\ IsInjective(sort) => IsInjective(sort')
<1>. DEFINE n == pushed + 1
            i == InsertionIndex(At(n)) + 1
<1>1. /\ n \in 1 .. Len(plan) /\ pushed' = n /\ pushed \in Nat
      /\ phase = "push" /\ phase' = "push"
      /\ UNCHANGED <<jobVars, tileVars, freeVars>>
  BY DEF Push, TypeOK, PlanOK
<1>2. sort' = IF Known(n) THEN sort ELSE InsertAt(sort, i, n)
  BY Zenon DEF Push, Known
<1>3. sort \in Seq(1 .. pushed) /\ sort \in Seq(1 .. n) /\ sort \in Seq(Nat)
  <2>1. 1 .. pushed \subseteq 1 .. n /\ 1 .. pushed \subseteq Nat /\ sort \in Seq(1 .. pushed)
    BY <1>1 DEF TypeOK
  <2>. HIDE DEF n
  <2>. QED
    BY <2>1, SeqMonotonic
<1>4. i \in 1 .. Len(sort) + 1
  <2>1. InsertionIndex(At(n)) \in 0 .. Len(sort)
    BY <1>3, ScanRange
  <2>2. Len(sort) \in Nat
    BY <1>3, LenProperties
  <2>. QED
    BY <2>1, <2>2
<1>5. n \notin ToSet(sort)
  BY <1>1, <1>3, LenProperties DEF ToSet
<1>6. n \in 1 .. n
  BY <1>1
<1>. HIDE DEF i, n
<1>7. /\ InsertAt(sort, i, n) \in Seq(1 .. n)
      /\ Len(InsertAt(sort, i, n)) = Len(sort) + 1
      /\ ToSet(InsertAt(sort, i, n)) = ToSet(sort) \cup {n}
      /\ IsInjective(sort) => IsInjective(InsertAt(sort, i, n))
  BY <1>3, <1>4, <1>5, <1>6, InsertAtProperties
<1>. QED
  BY <1>1, <1>2, <1>7 DEF n

\* What a sent tile does to the fills
LEMMA SendResult ==
    ASSUME TypeOK, NEW n \in ToSet(sort), fills' = Append(fills, n), UNCHANGED listVars
    PROVE  /\ fills' \in Seq(ToSet(sort))
           /\ Len(fills') = Len(fills) + 1 /\ Len(fills) \in Nat
           /\ DOMAIN fills = 1 .. Len(fills) /\ DOMAIN fills' = 1 .. Len(fills) + 1
           /\ \A k \in 1 .. Len(fills) : fills'[k] = fills[k]
           /\ fills'[Len(fills) + 1] = n
           /\ ToSet(fills') = ToSet(fills) \cup {n}
<1>1. fills \in Seq(ToSet(sort)) /\ Len(fills) \in Nat /\ DOMAIN fills = 1 .. Len(fills)
  BY LenProperties DEF TypeOK
<1>2. /\ fills' \in Seq(ToSet(sort)) /\ Len(fills') = Len(fills) + 1
      /\ \A k \in 1 .. Len(fills) : fills'[k] = fills[k]
      /\ fills'[Len(fills) + 1] = n
  BY <1>1, AppendProperties
<1>3. DOMAIN fills' = 1 .. Len(fills) + 1
  BY <1>2, LenProperties
<1>4. ToSet(fills') = ToSet(fills) \cup {n}
  <2>1. 1 .. Len(fills) + 1 = (1 .. Len(fills)) \cup {Len(fills) + 1}
    BY <1>1
  <2>2. ToSet(fills') = {fills'[k] : k \in 1 .. Len(fills)} \cup {fills'[Len(fills) + 1]}
    BY <1>3, <2>1 DEF ToSet
  <2>. QED
    BY <1>1, <1>2, <2>2 DEF ToSet
<1>. QED
  BY <1>1, <1>2, <1>3, <1>4

\* The tile at hand is one of the list.
LEMMA TileAtHand ==
    ASSUME TypeOK, tile < Len(sort)
    PROVE  /\ sort[tile + 1] \in ToSet(sort) /\ tile + 1 \in 0 .. Len(sort)
           /\ {sort[k] : k \in 1 .. tile + 1} = {sort[k] : k \in 1 .. tile} \cup {sort[tile + 1]}
<1>1. Len(sort) \in Nat /\ DOMAIN sort = 1 .. Len(sort) /\ tile \in 0 .. Len(sort)
  BY LenProperties DEF TypeOK
<1>2. tile + 1 \in 1 .. Len(sort) /\ 1 .. tile + 1 = (1 .. tile) \cup {tile + 1}
  BY <1>1
<1>. QED
  BY <1>1, <1>2 DEF ToSet

LEMMA TypeStep == TypeOK /\ PlanOK /\ [Next]_vars => TypeOK'
<1>. SUFFICES ASSUME TypeOK, PlanOK, [Next]_vars PROVE TypeOK'
  OBVIOUS
<1>1. CASE Push
  <2>. DEFINE n == pushed + 1
  <2>1. /\ n \in 1 .. Len(plan) /\ pushed' = n /\ phase' = "push"
        /\ UNCHANGED <<jobVars, tileVars, freeVars>>
    BY <1>1, PushResult, Zenon
  <2>2. sort' \in Seq(1 .. n) /\ Len(sort') \in Nat /\ Len(sort) \in Nat
        /\ Len(sort) <= Len(sort') /\ ToSet(sort) \subseteq ToSet(sort')
    <3>1. CASE Known(n)
      <4>1. sort' = sort /\ sort \in Seq(1 .. pushed)
        BY <1>1, <3>1, PushResult DEF TypeOK
      <4>2. 1 .. pushed \subseteq 1 .. n /\ Len(sort) \in Nat
        BY <2>1, <4>1, LenProperties DEF TypeOK
      <4>3. sort \in Seq(1 .. n)
        BY <4>1, <4>2, SeqMonotonic
      <4>. QED
        BY <4>1, <4>2, <4>3
    <3>2. CASE ~Known(n)
      <4>1. /\ sort' \in Seq(1 .. n) /\ Len(sort') = Len(sort) + 1
            /\ ToSet(sort') = ToSet(sort) \cup {n}
        BY <1>1, <3>2, PushResult
      <4>2. Len(sort) \in Nat
        BY LenProperties DEF TypeOK
      <4>. QED
        BY <4>1, <4>2
    <3>. QED
      BY <3>1, <3>2
  <2>3. fills \in Seq(ToSet(sort'))
    BY <2>2, SeqMonotonic DEF TypeOK
  <2>. HIDE DEF n
  <2>4. tile \in 0 .. Len(sort') /\ late \subseteq ToSet(sort') /\ vmap \subseteq ToSet(sort')
    BY <2>2 DEF TypeOK
  <2>5. pushed' \in 0 .. Len(plan) /\ sort' \in Seq(1 .. pushed')
    BY <2>1, <2>2 DEF PlanOK
  <2>. QED
    BY <2>1, <2>3, <2>4, <2>5 DEF TypeOK, Phases, jobVars, tileVars, freeVars, Block
<1>2. CASE Planned
  BY <1>2 DEF Planned, TypeOK, Phases, jobVars, listVars, tileVars, Block
<1>3. CASE PutOff
  BY <1>3, TileAtHand DEF PutOff, TypeOK, jobVars, listVars, freeVars, Block
<1>4. CASE TilesEnd
  BY <1>4 DEF TilesEnd, TypeOK, Phases, jobVars, listVars, tileVars, freeVars, Block
<1>5. CASE LateEnd
  BY <1>5 DEF LateEnd, TypeOK, Phases, jobVars, listVars, tileVars, freeVars, Block
<1>6. ASSUME NEW stop \in BOOLEAN, SendTile(stop) PROVE TypeOK'
  <2>1. fills' \in Seq(ToSet(sort))
    BY <1>6, TileAtHand, SendResult DEF SendTile
  <2>. QED
    BY <1>6, <2>1, TileAtHand DEF SendTile, TypeOK, Phases, jobVars, listVars, freeVars, Block
<1>7. ASSUME NEW stop \in BOOLEAN, SendLate(stop) PROVE TypeOK'
  <2>1. PICK n \in late : late' = late \ {n} /\ fills' = Append(fills, n)
    BY <1>7 DEF SendLate
  <2>2. fills' \in Seq(ToSet(sort))
    BY <1>7, <2>1, SendResult DEF SendLate, TypeOK
  <2>. QED
    BY <1>7, <2>1, <2>2 DEF SendLate, TypeOK, Phases, jobVars, listVars, freeVars, Block
<1>8. CASE DeleteSession
  BY <1>8 DEF DeleteSession, TypeOK, Phases, jobVars, listVars, tileVars, Block
<1>9. CASE DeleteEntry
  <2>1. PICK n \in vmap :
            /\ vmap' = vmap \ {n}
            /\ IF Block(n) \in deleted
               THEN UNCHANGED <<deleted, frees>>
               ELSE /\ frees' = [frees EXCEPT ![Block(n)] = @ + 1]
                    /\ deleted' = deleted \cup {Block(n)}
    BY <1>9 DEF DeleteEntry
  <2>2. n \in DOMAIN plan
    BY <2>1, LenProperties DEF TypeOK, PlanOK, ToSet
  <2>3. /\ DOMAIN frees = {Block(m) : m \in DOMAIN plan}
        /\ frees \in [DOMAIN frees -> Nat] /\ Block(n) \in DOMAIN frees
        /\ deleted \subseteq DOMAIN frees
    BY <2>2 DEF TypeOK
  <2>4. UNCHANGED <<jobVars, listVars, phase, tileVars>>
    BY <1>9 DEF DeleteEntry
  <2>5. /\ frees' \in [DOMAIN frees -> Nat] /\ DOMAIN frees' = DOMAIN frees
        /\ deleted' \subseteq DOMAIN frees'
    BY <2>1, <2>3
  <2>. QED
    BY <2>1, <2>3, <2>4, <2>5 DEF TypeOK, jobVars, listVars, tileVars, Block
<1>10. CASE Deleted
  BY <1>10 DEF Deleted, TypeOK, Phases, jobVars, listVars, tileVars, freeVars, Block
<1>11. CASE UNCHANGED vars
  BY <1>11 DEF TypeOK, vars, jobVars, listVars, tileVars, freeVars, Block
<1>. QED
  BY <1>1, <1>2, <1>3, <1>4, <1>5, <1>6, <1>7, <1>8, <1>9, <1>10, <1>11 DEF Next

\* A step that leaves the list alone keeps what is true of it.
LEMMA PushInvKept ==
    ASSUME PushInv, kind' = kind, plan' = plan, sort' = sort, pushed' = pushed,
           phase' # "push" => pushed = Len(plan)
    PROVE  PushInv'
<1>1. \A n : At(n)' = At(n)
  BY DEF At
<1>2. Places(ToSet(sort))' = Places(ToSet(sort)) /\ Places(1 .. pushed)' = Places(1 .. pushed)
  BY <1>1 DEF Places
<1>3. (\A i, j \in DOMAIN sort : At(sort[i]) = At(sort[j]) => i = j)'
          <=> \A i, j \in DOMAIN sort : At(sort[i]) = At(sort[j]) => i = j
  BY <1>1
<1>. QED
  BY <1>2, <1>3 DEF PushInv

LEMMA PushInvStep == TypeOK /\ PlanOK /\ PushInv /\ [Next]_vars => PushInv'
<1>. SUFFICES ASSUME TypeOK, PlanOK, PushInv, [Next]_vars PROVE PushInv'
  OBVIOUS
<1>1. CASE Push
  <2>. DEFINE n == pushed + 1
  <2>1. /\ n \in 1 .. Len(plan) /\ pushed' = n /\ pushed \in Nat
        /\ phase' = "push" /\ kind' = kind /\ plan' = plan
    BY <1>1, PushResult DEF jobVars, TypeOK
  <2>2. 1 .. n = (1 .. pushed) \cup {n}
    BY <2>1
  <2>3. \A k : At(k)' = At(k)
    BY <2>1 DEF At
  <2>4. CASE Known(n)
    <3>1. sort' = sort
      BY <1>1, <2>4, PushResult
    <3>2. kind = "curved" /\ At(n) \in Places(ToSet(sort))
      BY <2>4 DEF Known, SamePlace, Places, ToSet
    <3>3. Places(1 .. n) = Places(1 .. pushed)
      BY <2>2, <3>2 DEF Places, PushInv
    <3>4. Places(ToSet(sort))' = Places(ToSet(sort)) /\ Places(1 .. pushed)' = Places(1 .. n)
      BY <2>1, <2>3, <3>1 DEF Places
    <3>. QED
      BY <2>1, <2>3, <3>1, <3>2, <3>3, <3>4 DEF PushInv
  <2>5. CASE ~Known(n)
    <3>1. /\ sort' \in Seq(1 .. n) /\ Len(sort') = Len(sort) + 1
          /\ ToSet(sort') = ToSet(sort) \cup {n} /\ IsInjective(sort')
      BY <1>1, <2>5, PushResult DEF PushInv
    <3>2. Places(ToSet(sort')) = Places(1 .. n)
      <4>1. \A S : Places(S \cup {n}) = Places(S) \cup {At(n)}
        BY DEF Places
      <4>2. Places(ToSet(sort)) = Places(1 .. pushed)
        BY DEF PushInv
      <4>. HIDE DEF n
      <4>. QED
        BY <2>2, <3>1, <4>1, <4>2, Zenon
    <3>3. Places(ToSet(sort))' = Places(ToSet(sort')) /\ Places(1 .. pushed)' = Places(1 .. n)
      BY <2>1, <2>3 DEF Places
    <3>4. ASSUME kind # "curved" PROVE Len(sort') = n /\ ToSet(sort') = 1 .. n
      BY <2>1, <2>2, <3>1, <3>4 DEF PushInv
    <3>5. ASSUME kind = "curved", NEW i \in DOMAIN sort', NEW j \in DOMAIN sort',
                 At(sort'[i]) = At(sort'[j])
          PROVE  i = j
      <4>1. \A m \in ToSet(sort) : At(m) # At(n)
        BY <2>5, <3>5 DEF Known, SamePlace, ToSet
      <4>2. \A m, l \in ToSet(sort) : At(m) = At(l) => m = l
        BY <3>5 DEF PushInv, ToSet
      <4>3. sort'[i] \in ToSet(sort) \cup {n} /\ sort'[j] \in ToSet(sort) \cup {n}
        BY <3>1 DEF ToSet
      <4>4. sort'[i] = sort'[j]
        BY <3>5, <4>1, <4>2, <4>3
      <4>. QED
        BY <3>1, <4>4 DEF IsInjective
    <3>. QED
      BY <2>1, <2>3, <3>1, <3>2, <3>3, <3>4, <3>5 DEF PushInv
  <2>. QED
    BY <2>4, <2>5
<1>2. CASE Planned
  <2>1. /\ kind' = kind /\ plan' = plan /\ sort' = sort /\ pushed' = pushed
        /\ pushed = Len(plan)
    BY <1>2 DEF Planned, jobVars, listVars
  <2>. QED
    BY <2>1, PushInvKept
<1>3. CASE UNCHANGED <<jobVars, listVars>> /\ phase # "push"
  <2>1. /\ kind' = kind /\ plan' = plan /\ sort' = sort /\ pushed' = pushed
        /\ pushed = Len(plan)
    BY <1>3 DEF PushInv, jobVars, listVars
  <2>. QED
    BY <2>1, PushInvKept
<1>4. CASE UNCHANGED vars
  <2>1. /\ kind' = kind /\ plan' = plan /\ sort' = sort /\ pushed' = pushed
        /\ phase' = phase
    BY <1>4 DEF vars, jobVars, listVars
  <2>2. phase' # "push" => pushed = Len(plan)
    BY <2>1 DEF PushInv
  <2>. QED
    BY <2>1, <2>2, PushInvKept
<1>. QED
  BY <1>1, <1>2, <1>3, <1>4
     DEF Next, PutOff, TilesEnd, LateEnd, SendTile, SendLate, DeleteSession, DeleteEntry, Deleted

\* The lists stand still once they are complete.
LEMMA TileInvStep == TypeOK /\ PlanOK /\ PushInv /\ TileInv /\ [Next]_vars => TileInv'
<1>. SUFFICES ASSUME TypeOK, PlanOK, PushInv, TileInv, [Next]_vars PROVE TileInv'
  OBVIOUS
<1>1. CASE Push
  <2>1. phase = "push" /\ phase' = "push" /\ UNCHANGED tileVars
    BY <1>1, PushResult
  <2>2. tile = 0 /\ 1 .. tile = {}
    BY <2>1 DEF TileInv
  <2>. QED
    BY <2>1, <2>2 DEF TileInv, tileVars
<1>2. CASE Planned
  BY <1>2 DEF Planned, TileInv, listVars, tileVars
<1>3. CASE PutOff
  <2>. DEFINE n == sort[tile + 1]
  <2>1. /\ phase = "tiles" /\ phase' = "tiles" /\ tile < Len(sort)
        /\ tile' = tile + 1 /\ late' = late \cup {n}
        /\ sort' = sort /\ fills' = fills /\ stopped' = stopped
    BY <1>3 DEF PutOff, listVars
  <2>2. {sort[k] : k \in 1 .. tile + 1} = {sort[k] : k \in 1 .. tile} \cup {n}
    BY <2>1, TileAtHand
  <2>3. n \notin {sort[k] : k \in 1 .. tile}
    BY <2>1, LenProperties DEF TypeOK, PushInv, IsInjective
  <2>. QED
    BY <2>1, <2>2, <2>3 DEF TileInv
<1>4. CASE TilesEnd
  BY <1>4 DEF TilesEnd, TileInv, listVars, tileVars
<1>5. CASE LateEnd
  BY <1>5 DEF LateEnd, TileInv, listVars, tileVars
<1>6. ASSUME NEW stop \in BOOLEAN, SendTile(stop) PROVE TileInv'
  <2>. DEFINE n == sort[tile + 1]
  <2>1. /\ phase = "tiles" /\ phase' = (IF stop THEN "free" ELSE "tiles") /\ tile < Len(sort)
        /\ tile' = tile + 1 /\ late' = late
        /\ UNCHANGED listVars /\ sort' = sort /\ fills' = Append(fills, n) /\ stopped' = stop
    BY <1>6 DEF SendTile, listVars
  <2>2. /\ {sort[k] : k \in 1 .. tile + 1} = {sort[k] : k \in 1 .. tile} \cup {n}
        /\ n \in ToSet(sort)
    BY <2>1, TileAtHand
  <2>3. n \notin {sort[k] : k \in 1 .. tile}
    BY <2>1, LenProperties, SMTT(30) DEF TypeOK, PushInv, IsInjective
  <2>4. ToSet(fills') = ToSet(fills) \cup {n}
    BY <2>1, <2>2, SendResult
  <2>5. IsInjective(fills')
    <3>1. n \notin ToSet(fills)
      BY <2>3 DEF TileInv
    <3>. QED
      BY <2>1, <2>2, <3>1, SendResult DEF TileInv, IsInjective, ToSet
  <2>. QED
    BY <2>1, <2>2, <2>3, <2>4, <2>5 DEF TileInv
<1>7. ASSUME NEW stop \in BOOLEAN, SendLate(stop) PROVE TileInv'
  <2>1. PICK n \in late : late' = late \ {n} /\ fills' = Append(fills, n)
    BY <1>7 DEF SendLate
  <2>2. /\ phase = "late" /\ phase' = (IF stop THEN "free" ELSE "late") /\ tile' = tile
        /\ UNCHANGED listVars /\ sort' = sort /\ stopped' = stop
    BY <1>7 DEF SendLate, listVars
  <2>3. n \in ToSet(sort) /\ n \notin ToSet(fills)
    BY <2>1 DEF TypeOK, TileInv
  <2>4. ToSet(fills') = ToSet(fills) \cup {n}
    BY <2>1, <2>2, <2>3, SendResult
  <2>5. IsInjective(fills')
    BY <2>1, <2>2, <2>3, SendResult DEF TileInv, IsInjective, ToSet
  <2>6. ToSet(fills') \cap late' = {} /\ ToSet(fills') \cup late' = ToSet(fills) \cup late
    BY <2>1, <2>3, <2>4 DEF TileInv
  <2>. QED
    BY <2>2, <2>5, <2>6 DEF TileInv
<1>8. CASE UNCHANGED <<listVars, tileVars>> /\ phase \in {"free", "done"} /\ phase' \in {"free", "done"}
  BY <1>8 DEF TileInv, listVars, tileVars
<1>9. CASE UNCHANGED vars
  BY <1>9 DEF TileInv, vars, listVars, tileVars
<1>. QED
  BY <1>1, <1>2, <1>3, <1>4, <1>5, <1>6, <1>7, <1>8, <1>9
     DEF Next, DeleteSession, DeleteEntry, Deleted

LEMMA LateInvStep == TypeOK /\ PlanOK /\ TileInv /\ LateInv /\ [Next]_vars => LateInv'
<1>. SUFFICES ASSUME TypeOK, PlanOK, TileInv, LateInv, [Next]_vars, lp' PROVE LateInv'
  BY DEF LateInv
<1>1. lp' = lp /\ plan' = plan /\ kind' = kind
  BY DEF Next, vars, jobVars, Push, Planned, PutOff, TilesEnd, LateEnd, SendTile, SendLate,
         DeleteSession, DeleteEntry, Deleted
<1>2. /\ \A m : IsLast(m)' = IsLast(m)
      /\ \A m \in late : IsLast(m)
      /\ phase \in {"push", "tiles"} => \A i \in DOMAIN fills : ~IsLast(fills[i])
      /\ \A i, j \in DOMAIN fills : i < j /\ IsLast(fills[i]) => IsLast(fills[j])
  BY <1>1 DEF LateInv, IsLast, Name
<1>3. CASE PutOff
  <2>1. /\ late' = late \cup {sort[tile + 1]} /\ IsLast(sort[tile + 1])
        /\ fills' = fills /\ phase' = phase
    BY <1>3 DEF PutOff, PutsOff, IsLast
  <2>. QED
    BY <1>2, <2>1 DEF LateInv
<1>4. ASSUME NEW stop \in BOOLEAN, SendTile(stop) PROVE LateInv'
  <2>. DEFINE n == sort[tile + 1]
  <2>1. /\ phase = "tiles" /\ tile < Len(sort) /\ late' = late /\ fills' = Append(fills, n)
        /\ UNCHANGED listVars /\ ~IsLast(n)
    BY <1>1, <1>4 DEF SendTile, PutsOff, IsLast, PlanOK
  <2>2. n \in ToSet(sort)
    BY <2>1, TileAtHand
  <2>3. \A i \in DOMAIN fills' : ~IsLast(fills'[i])
    BY <1>2, <2>1, <2>2, SendResult
  <2>. QED
    BY <1>2, <2>1, <2>3 DEF LateInv
<1>5. ASSUME NEW stop \in BOOLEAN, SendLate(stop) PROVE LateInv'
  <2>1. PICK n \in late : late' = late \ {n} /\ fills' = Append(fills, n)
    BY <1>5 DEF SendLate
  <2>2. /\ phase = "late" /\ phase' \notin {"push", "tiles"} /\ UNCHANGED listVars
        /\ n \in ToSet(sort) /\ IsLast(n)
    BY <1>2, <1>5, <2>1 DEF SendLate, TypeOK
  <2>3. /\ DOMAIN fills = 1 .. Len(fills) /\ DOMAIN fills' = 1 .. Len(fills) + 1
        /\ Len(fills) \in Nat
        /\ \A k \in 1 .. Len(fills) : fills'[k] = fills[k]
        /\ fills'[Len(fills) + 1] = n
    BY <2>1, <2>2, SendResult
  <2>4. ASSUME NEW i \in DOMAIN fills', NEW j \in DOMAIN fills', i < j, IsLast(fills'[i])
        PROVE  IsLast(fills'[j])
    BY <1>2, <2>2, <2>3, <2>4
  <2>. QED
    BY <1>2, <2>1, <2>2, <2>4 DEF LateInv
<1>6. CASE UNCHANGED <<fills, late>> /\ (phase' \in {"push", "tiles"} => phase \in {"push", "tiles"})
  BY <1>2, <1>6 DEF LateInv
<1>7. CASE Push
  BY <1>2, <1>7 DEF Push, LateInv, tileVars
<1>8. CASE Planned
  BY <1>2, <1>8 DEF Planned, LateInv, tileVars
<1>9. CASE UNCHANGED vars
  BY <1>2, <1>9 DEF LateInv, vars, tileVars
<1>. QED
  BY <1>3, <1>4, <1>5, <1>6, <1>7, <1>8, <1>9
     DEF Next, TilesEnd, LateEnd, DeleteSession, DeleteEntry, Deleted, tileVars

LEMMA FreeInvStep == TypeOK /\ PlanOK /\ FreeInv /\ [Next]_vars => FreeInv'
<1>. SUFFICES ASSUME TypeOK, PlanOK, FreeInv, [Next]_vars PROVE FreeInv'
  OBVIOUS
<1>1. kind' = kind /\ \A n : Block(n)' = Block(n)
  BY DEF Next, vars, jobVars, Push, Planned, PutOff, TilesEnd, LateEnd, SendTile, SendLate,
         DeleteSession, DeleteEntry, Deleted, Block
<1>2. CASE Push
  BY <1>2, PushResult DEF FreeInv, freeVars
<1>3. CASE Planned
  BY <1>3 DEF Planned, FreeInv, listVars
<1>4. CASE DeleteSession
  BY <1>4 DEF DeleteSession, FreeInv, jobVars, listVars
<1>5. CASE DeleteEntry
  <2>1. PICK n \in vmap :
            /\ vmap' = vmap \ {n}
            /\ IF Block(n) \in deleted
               THEN UNCHANGED <<deleted, frees>>
               ELSE /\ frees' = [frees EXCEPT ![Block(n)] = @ + 1]
                    /\ deleted' = deleted \cup {Block(n)}
    BY <1>5 DEF DeleteEntry
  <2>2. /\ sort' = sort /\ phase = "free" /\ phase' = phase
        /\ DOMAIN frees' = DOMAIN frees /\ frees \in [DOMAIN frees -> Nat]
        /\ \A b \in DOMAIN frees : frees[b] = IF b \in deleted THEN 1 ELSE 0
        /\ kind = "custom" => \A m \in ToSet(sort) \ vmap : Block(m) \in deleted
    BY <1>5, <2>1 DEF DeleteEntry, listVars, TypeOK, FreeInv
  <2>3. \A b \in DOMAIN frees' : frees'[b] = IF b \in deleted' THEN 1 ELSE 0
    BY <2>1, <2>2
  <2>4. Block(n) \in deleted' /\ deleted \subseteq deleted'
    BY <2>1
  <2>5. kind = "custom" => \A m \in ToSet(sort) \ vmap' : Block(m) \in deleted'
    BY <2>1, <2>2, <2>4
  <2>. QED
    BY <1>1, <2>2, <2>3, <2>5 DEF FreeInv
<1>6. CASE Deleted
  BY <1>1, <1>6 DEF Deleted, FreeInv, listVars, freeVars
<1>7. CASE UNCHANGED <<listVars, freeVars>> /\ phase \notin {"push", "done"} /\ phase' \notin {"push", "done"}
  BY <1>1, <1>7 DEF FreeInv, listVars, freeVars
<1>8. CASE UNCHANGED vars
  BY <1>1, <1>8 DEF FreeInv, vars, listVars, freeVars
<1>. QED
  BY <1>2, <1>3, <1>4, <1>5, <1>6, <1>7, <1>8
     DEF Next, PutOff, TilesEnd, LateEnd, SendTile, SendLate

-----------------------------------------------------------------------------
(* The plan of a picture and of a structure *)

LEMMA NextCell ==
    ASSUME NEW n \in Nat, NEW w \in Nat \ {0}
    PROVE  /\ 0 \div w = 0 /\ 0 % w = 0
           /\ (n % w) + 1 = w => (n + 1) \div w = (n \div w) + 1 /\ (n + 1) % w = 0
           /\ (n % w) + 1 # w => (n + 1) \div w = n \div w /\ (n + 1) % w = (n % w) + 1
<1>. DEFINE q == n \div w  r == n % w  q1 == (n + 1) \div w  r1 == (n + 1) % w
            q0 == 0 \div w  r0 == 0 % w
<1>1. /\ q \in Int /\ r \in 0 .. w - 1 /\ n = w * q + r
      /\ q1 \in Int /\ r1 \in 0 .. w - 1 /\ n + 1 = w * q1 + r1
      /\ q0 \in Int /\ r0 \in 0 .. w - 1 /\ 0 = w * q0 + r0
  <2>1. n \in Int /\ n + 1 \in Int /\ 0 \in Int
    OBVIOUS
  <2>. QED
    BY <2>1, DivMod
<1>. HIDE DEF q, r, q1, r1, q0, r0
<1>2. q0 = 0 /\ r0 = 0
  <2>1. w * q0 + r0 = w * 0 + 0 /\ 0 \in 0 .. w - 1
    BY <1>1
  <2>. QED
    BY <1>1, <2>1, DivModUnique
<1>3. ASSUME r + 1 = w PROVE q1 = q + 1 /\ r1 = 0
  <2>1. w * q1 + r1 = w * (q + 1) + 0 /\ 0 \in 0 .. w - 1 /\ q + 1 \in Int
    BY <1>1, <1>3
  <2>. QED
    BY <1>1, <2>1, DivModUnique
<1>4. ASSUME r + 1 # w PROVE q1 = q /\ r1 = r + 1
  <2>1. w * q1 + r1 = w * q + (r + 1) /\ r + 1 \in 0 .. w - 1
    BY <1>1, <1>4
  <2>. QED
    BY <1>1, <2>1, DivModUnique
<1>. QED
  BY <1>2, <1>3, <1>4 DEF q, r, q1, r1, q0, r0

\* Where draw is when it comes to the t-th block
Drawn(t, w, h) == <<(t - 1) % w, 0, h - 1 - ((t - 1) \div w)>>

Drawing(list, N, w, h) == [t \in 1 .. N |->
    [at |-> Drawn(t, w, h), block |-> t, name |-> list[t].name, data |-> list[t].data]]

\* draw goes row by row, and each row from the west to the east.
LEMMA DrawProperties ==
    ASSUME NEW list, NEW N \in Nat, DOMAIN list = 1 .. N, NEW w \in Nat \ {0}, NEW h \in Nat
    PROVE  draw(list, w, h, 0, 0, 0) = Drawing(list, N, w, h)
<1>. DEFINE next(p) == IF p[1] + 1 = w + 0 THEN <<0, 0, p[3] - 1>> ELSE [p EXCEPT ![1] = @ + 1]
            IsAt(f) == f = [t \in DOMAIN list |->
                                IF t = 1 THEN <<0, 0, 0 + h - 1>> ELSE next(f[t - 1])]
            at == CHOOSE f : IsAt(f)
            closed == [t \in 1 .. N |-> Drawn(t, w, h)]
<1>1. Drawn(1, w, h) = <<0, 0, 0 + h - 1>>
  BY NextCell DEF Drawn
<1>2. ASSUME NEW t \in 1 .. N, t # 1 PROVE t - 1 \in 1 .. N /\ next(Drawn(t - 1, w, h)) = Drawn(t, w, h)
  <2>. DEFINE n == t - 2  q == n \div w  r == n % w
  <2>1. n \in Nat /\ n = (t - 1) - 1 /\ n + 1 = t - 1
    BY <1>2
  <2>2. q \in Int /\ r \in Int
    BY <2>1, DivMod
  <2>3. /\ r + 1 = w => (n + 1) \div w = q + 1 /\ (n + 1) % w = 0
        /\ r + 1 # w => (n + 1) \div w = q /\ (n + 1) % w = r + 1
    BY <2>1, NextCell
  <2>4. Drawn(t - 1, w, h) = <<r, 0, h - 1 - q>>
    BY <2>1 DEF Drawn
  <2>5. Drawn(t, w, h) = <<(n + 1) % w, 0, h - 1 - ((n + 1) \div w)>>
    BY <2>1 DEF Drawn
  <2>. HIDE DEF q, r, n
  <2>6. next(<<r, 0, h - 1 - q>>) = IF r + 1 = w THEN <<0, 0, h - 1 - q - 1>> ELSE <<r + 1, 0, h - 1 - q>>
    BY <2>2
  <2>7. t - 1 \in 1 .. N
    BY <1>2
  <2>8. r + 1 = w => h - 1 - (q + 1) = h - 1 - q - 1
    BY <2>2
  <2>. HIDE DEF next
  <2>. QED
    BY <2>3, <2>4, <2>5, <2>6, <2>7, <2>8
<1>3. IsAt(closed)
  <2>1. \A t \in 1 .. N : t # 1 => closed[t - 1] = Drawn(t - 1, w, h)
    BY <1>2
  <2>. HIDE DEF next
  <2>. QED
    BY <1>1, <1>2, <2>1
<1>4. IsAt(at)
  BY <1>3
<1>5. draw(list, w, h, 0, 0, 0) = [t \in DOMAIN list |->
           [at |-> at[t], block |-> t, name |-> list[t].name, data |-> list[t].data]]
  BY DEF draw
<1>. HIDE DEF at
<1>6. /\ 1 \in 1 .. N => at[1] = Drawn(1, w, h)
      /\ \A t \in 1 .. N : t # 1 => at[t] = next(at[t - 1])
  <2>. HIDE DEF next
  <2>. QED
    BY <1>1, <1>4
<1>. DEFINE T == {n \in 0 .. N : n # 0 => at[n] = Drawn(n, w, h)}
<1>7. 0 .. N \subseteq T
  <2>1. 0 \in T
    OBVIOUS
  <2>2. ASSUME NEW n \in 0 .. N - 1, n \in T PROVE n + 1 \in T
    <3>1. n + 1 \in 0 .. N /\ n + 1 \in 1 .. N /\ (n + 1) - 1 = n
      OBVIOUS
    <3>2. CASE n = 0
      BY <1>6, <3>1, <3>2
    <3>3. CASE n # 0
      <4>1. n + 1 # 1 /\ at[n] = Drawn(n, w, h)
        BY <2>2, <3>3
      <4>2. at[n + 1] = next(Drawn(n, w, h))
        BY <1>6, <3>1, <4>1
      <4>3. next(Drawn(n, w, h)) = Drawn(n + 1, w, h)
        BY <1>2, <3>1, <4>1
      <4>. QED
        BY <3>1, <4>2, <4>3
    <3>. QED
      BY <3>2, <3>3
  <2>. HIDE DEF T
  <2>. QED
    BY <2>1, <2>2, InductionUpTo
<1>8. \A t \in 1 .. N : at[t] = Drawn(t, w, h)
  BY <1>7
<1>. QED
  BY <1>5, <1>8 DEF Drawing
\* The blocks of a picture, from its last row to its first
PixelColor(f, p) == [c \in 1 .. 3 |-> Data(f)[(p - 1) * f.channels + c - 1]]
Blocks(f) == [p \in 1 .. f.width * f.height |-> getBlock(PixelColor(f, p))]

\* What a picture's job pushes
LEMMA PaintPlan ==
    ASSUME NEW f \in Files, Paint(f, 0, 0, 0) # NoList
    PROVE  /\ f.kind = "png" /\ f.channels >= 3
           /\ f.width \in Nat \ {0} /\ f.height \in Nat \ {0}
           /\ Paint(f, 0, 0, 0) = Drawing(Blocks(f), f.width * f.height, f.width, f.height)
<1>1. f.kind = "png" /\ ~(f.channels < 3)
  BY DEF Paint
<1>2. /\ f.width \in Nat \ {0} /\ f.height \in Nat \ {0} /\ f.channels \in Nat \ {0}
      /\ f.width * f.height \in Nat /\ f.height \in Nat
  BY <1>1, FilesAssumption DEF FilesAssumption, Picture
<1>3. Paint(f, 0, 0, 0) = draw(Blocks(f), f.width, f.height, 0, 0, 0)
  BY <1>1 DEF Paint, Blocks, PixelColor
<1>4. DOMAIN Blocks(f) = 1 .. f.width * f.height
  BY DEF Blocks
<1>5. draw(Blocks(f), f.width, f.height, 0, 0, 0)
        = Drawing(Blocks(f), f.width * f.height, f.width, f.height)
  BY <1>2, <1>4, DrawProperties
<1>. QED
  BY <1>1, <1>2, <1>3, <1>4, <1>5

\* The blocks of a structure that are pushed, and what is pushed for them
Resolved(f, b) == resolvedPalettes(f.palette)[b.state]
IsBuilt(f, b) == b.state \in DOMAIN resolvedPalettes(f.palette) /\ Resolved(f, b).name # "air"
Built(f) == {b \in ToSet(f.blocks) : IsBuilt(f, b)}
EntryOf(f, b) ==
    [at |-> <<0 + b.pos[1], 0 + b.pos[2], 0 + b.pos[3]>>, block |-> Resolved(f, b).block,
     name |-> Resolved(f, b).name, data |-> Resolved(f, b).data]

LEMMA NBTPlan ==
    ASSUME NEW f \in Files, buildNBT(f, 0, 0, 0) # NoList
    PROVE  /\ f.kind = "nbt" /\ \A e \in DOMAIN f.palette : ~Throws(f.palette[e])
           /\ buildNBT(f, 0, 0, 0) \in Seq({EntryOf(f, b) : b \in Built(f)})
           /\ ToSet(buildNBT(f, 0, 0, 0)) = {EntryOf(f, b) : b \in Built(f)}
<1>1. f.kind = "nbt" /\ \A e \in DOMAIN f.palette : ~Throws(f.palette[e])
  BY DEF buildNBT
<1>2. f.blocks \in Seq([state : Int, pos : Int \X Int \X Int])
  BY <1>1, FilesAssumption DEF FilesAssumption, Structure
<1>. DEFINE body == [b \in ToSet(f.blocks) |-> IF IsBuilt(f, b) THEN <<EntryOf(f, b)>> ELSE <<>>]
            S == {EntryOf(f, b) : b \in Built(f)}
<1>3. buildNBT(f, 0, 0, 0) = For(f.blocks, body)
  BY <1>1 DEF buildNBT, IsBuilt, EntryOf, Resolved
<1>4. ASSUME NEW b \in ToSet(f.blocks)
      PROVE  /\ body[b] \in Seq(S)
             /\ IsBuilt(f, b) => EntryOf(f, b) \in S /\ ToSet(body[b]) = {EntryOf(f, b)}
             /\ ~IsBuilt(f, b) => ToSet(body[b]) = {}
  <2>1. IsBuilt(f, b) => EntryOf(f, b) \in S
    BY DEF Built
  <2>2. body[b] = IF IsBuilt(f, b) THEN <<EntryOf(f, b)>> ELSE <<>>
    OBVIOUS
  <2>. HIDE DEF body, S
  <2>3. CASE IsBuilt(f, b)
    BY <2>1, <2>2, <2>3, ToSetOne
  <2>4. CASE ~IsBuilt(f, b)
    BY <2>2, <2>4 DEF ToSet
  <2>. QED
    BY <2>1, <2>3, <2>4
<1>. HIDE DEF body
<1>5. /\ For(f.blocks, body) \in Seq(S)
      /\ ToSet(For(f.blocks, body)) = UNION {ToSet(body[b]) : b \in ToSet(f.blocks)}
  <2>. HIDE DEF S
  <2>. QED
    BY <1>2, <1>4, ForProperties
<1>6. UNION {ToSet(body[b]) : b \in ToSet(f.blocks)} = S
  <2>. HIDE DEF S
  <2>1. ASSUME NEW b \in ToSet(f.blocks), NEW e \in ToSet(body[b]) PROVE e \in S
    BY <1>4
  <2>2. ASSUME NEW e \in S PROVE \E b \in ToSet(f.blocks) : e \in ToSet(body[b])
    <3>1. PICK b \in ToSet(f.blocks) : IsBuilt(f, b) /\ e = EntryOf(f, b)
      BY DEF S, Built
    <3>. QED
      BY <1>4, <3>1
  <2>. QED
    BY <2>1, <2>2
<1>. QED
  BY <1>1, <1>3, <1>5, <1>6
LEMMA OnlyAtPlan ==
    ASSUME NEW s \in Seq(Place)
    PROVE  /\ OnlyAt(s) \in Seq([at : Place, block : {NoBlock}, name : {NoBlock}, data : {0}])
           /\ Len(OnlyAt(s)) = Len(s) /\ Len(s) \in Nat /\ DOMAIN OnlyAt(s) = 1 .. Len(s)
           /\ \A n \in 1 .. Len(s) : OnlyAt(s)[n].at = s[n]
<1>1. Len(s) \in Nat /\ DOMAIN s = 1 .. Len(s) /\ \A n \in 1 .. Len(s) : s[n] \in Place
  BY LenProperties
<1>2. OnlyAt(s) = [n \in 1 .. Len(s) |->
                      [at |-> s[n], block |-> NoBlock, name |-> NoBlock, data |-> 0]]
  BY <1>1 DEF OnlyAt
<1>. DEFINE E == [at : Place, block : {NoBlock}, name : {NoBlock}, data : {0}]
<1>3. \A n \in 1 .. Len(s) :
         [at |-> s[n], block |-> NoBlock, name |-> NoBlock, data |-> 0] \in E
  BY <1>1
<1>. HIDE DEF E
<1>4. OnlyAt(s) \in Seq(E)
  BY <1>1, <1>2, <1>3
<1>. QED
  BY <1>1, <1>2, <1>4, LenProperties DEF E

LEMMA DrawnTyped ==
    ASSUME NEW t \in Nat \ {0}, NEW w \in Nat \ {0}, NEW h \in Nat
    PROVE  Drawn(t, w, h) \in Place
<1>1. t - 1 \in Int
  OBVIOUS
<1>2. (t - 1) % w \in Int /\ (t - 1) \div w \in Int
  BY <1>1, DivMod
<1>. QED
  BY <1>2 DEF Drawn, Place

\* The methods push places.
LEMMA PlanTyped == JobInv => PlanOK
<1>. SUFFICES ASSUME JobInv PROVE PlanOK
  OBVIOUS
<1>1. CASE SimpleJob
  <2>1. Pushed(cmd) \in Seq(Place) /\ cmd.h \in Int /\ lp = FALSE
    BY <1>1, CommandsAssumption, PushedTyped DEF SimpleJob, CommandsAssumption, Parsed
  <2>. QED
    BY <1>1, <2>1, OnlyAtPlan, LenProperties DEF SimpleJob, PlanOK, At
<1>2. CASE CurveJob
  <2>1. PICK s \in Curves : plan = OnlyAt(s)
    BY <1>2 DEF CurveJob
  <2>2. s \in Seq(Place)
    BY CurvesAssumption DEF CurvesAssumption
  <2>3. cmd.h = 1 /\ lp = FALSE
    BY <1>2 DEF CurveJob, CurveCmd
  <2>. QED
    BY <2>1, <2>2, <2>3, OnlyAtPlan, LenProperties DEF PlanOK, At
<1>3. CASE CustomJob
  <2>1. cmd.h = 1 /\ kind = "custom"
    BY <1>3 DEF CustomJob, CurveCmd
  <2>2. CASE lp
    <3>1. /\ source \in Files /\ plan = buildNBT(source, 0, 0, 0)
          /\ buildNBT(source, 0, 0, 0) # NoList
      BY <1>3, <2>2 DEF CustomJob, Custom
    <3>2. plan \in Seq({EntryOf(source, b) : b \in Built(source)}) /\ source.kind = "nbt"
      BY <3>1, NBTPlan
    <3>3. ASSUME NEW b \in Built(source) PROVE EntryOf(source, b).at \in Place
      <4>1. source.blocks \in Seq([state : Int, pos : Int \X Int \X Int])
        BY <3>1, <3>2, FilesAssumption DEF FilesAssumption, Structure
      <4>2. b \in [state : Int, pos : Int \X Int \X Int]
        <5>1. ToSet(source.blocks) \subseteq [state : Int, pos : Int \X Int \X Int]
          BY <4>1, ToSetTyped
        <5>. QED
          BY <5>1 DEF Built
      <4>3. b.pos[1] \in Int /\ b.pos[2] \in Int /\ b.pos[3] \in Int
        BY <4>2
      <4>4. EntryOf(source, b).at = <<0 + b.pos[1], 0 + b.pos[2], 0 + b.pos[3]>>
        BY DEF EntryOf
      <4>. QED
        BY <4>3, <4>4 DEF Place
    <3>4. Len(plan) \in Nat /\ DOMAIN plan = 1 .. Len(plan)
          /\ \A n \in 1 .. Len(plan) : plan[n] \in {EntryOf(source, b) : b \in Built(source)}
      BY <3>2, LenProperties
    <3>. QED
      BY <2>1, <3>3, <3>4 DEF PlanOK, At
  <2>3. CASE ~lp
    <3>1. /\ source \in Files /\ plan = Paint(source, 0, 0, 0)
          /\ Paint(source, 0, 0, 0) # NoList
      BY <1>3, <2>3 DEF CustomJob, Custom
    <3>2. /\ source.width \in Nat \ {0} /\ source.height \in Nat \ {0}
          /\ plan = Drawing(Blocks(source), source.width * source.height,
                             source.width, source.height)
      BY <3>1, PaintPlan, Zenon
    <3>. DEFINE N == source.width * source.height
    <3>3. N \in Nat /\ source.height \in Nat
      BY <3>2
    <3>. HIDE DEF N
    <3>4. DOMAIN plan = 1 .. N /\ \A t \in 1 .. N : At(t) = Drawn(t, source.width, source.height)
      BY <3>2 DEF N, At, Drawing
    <3>5. plan \in Seq({plan[t] : t \in 1 .. N})
      <4>1. plan = [t \in 1 .. N |-> plan[t]]
        BY <3>2 DEF N, Drawing
      <4>. QED
        BY <3>3, <4>1
    <3>6. Len(plan) = N
      BY <3>3, <3>4, <3>5, LenProperties
    <3>7. \A t \in 1 .. N : Drawn(t, source.width, source.height) \in Place
      <4>1. \A t \in 1 .. N : t \in Nat \ {0}
        BY <3>3
      <4>. QED
        BY <3>2, <3>3, <4>1, DrawnTyped
    <3>. QED
      BY <2>1, <2>3, <3>3, <3>4, <3>6, <3>7 DEF PlanOK
  <2>. QED
    BY <2>2, <2>3
<1>. QED
  BY <1>1, <1>2, <1>3 DEF JobInv
-----------------------------------------------------------------------------
(* The inductive invariant *)

LEMMA InitJob ==
    ASSUME Init
    PROVE  JobInv /\ Start(kind, cmd, lp, source, plan)
<1>1. ASSUME NEW c \in Commands,
             Start(IF c.type \in Curved THEN "curved" ELSE "simple", c, FALSE, NoFile, OnlyAt(Pushed(c)))
      PROVE  SimpleJob /\ Start(kind, cmd, lp, source, plan)
  BY <1>1 DEF Start, SimpleJob
<1>2. ASSUME NEW s \in Curves, Start("curved", CurveCmd, FALSE, NoFile, OnlyAt(s))
      PROVE  CurveJob /\ Start(kind, cmd, lp, source, plan)
  BY <1>2 DEF Start, CurveJob
<1>3. ASSUME NEW f \in Files, NEW l \in BOOLEAN, Custom(f, l) # NoList,
             Start("custom", CurveCmd, l, f, Custom(f, l))
      PROVE  CustomJob /\ Start(kind, cmd, lp, source, plan)
  BY <1>3 DEF Start, CustomJob
<1>. QED
  BY <1>1, <1>2, <1>3 DEF Init, JobInv, Custom

LEMMA InitInv == Init => IInv
<1>. SUFFICES ASSUME Init PROVE IInv
  OBVIOUS
<1>1. JobInv /\ PlanOK /\ Start(kind, cmd, lp, source, plan)
  BY InitJob, PlanTyped
<1>2. /\ pushed = 0 /\ sort = <<>> /\ phase = "push" /\ tile = 0 /\ late = {} /\ fills = <<>>
      /\ stopped = FALSE /\ vmap = {} /\ deleted = {}
      /\ frees = [b \in {plan[n].block : n \in DOMAIN plan} |-> 0]
  BY <1>1 DEF Start
<1>3. kind \in {"simple", "curved", "custom"} /\ lp \in BOOLEAN
  BY <1>1 DEF JobInv, SimpleJob, CurveJob, CustomJob
<1>4. ToSet(sort) = {} /\ ToSet(fills) = {} /\ Len(sort) = 0 /\ DOMAIN sort = {} /\ DOMAIN fills = {}
  BY <1>2 DEF ToSet
<1>5. TypeOK
  <2>1. pushed \in 0 .. Len(plan)
    BY <1>1, <1>2 DEF PlanOK
  <2>2. sort \in Seq(1 .. pushed) /\ fills \in Seq(ToSet(sort)) /\ tile \in 0 .. Len(sort)
    BY <1>2, <1>4
  <2>3. frees \in [{Block(n) : n \in DOMAIN plan} -> Nat] /\ deleted \subseteq DOMAIN frees
    BY <1>2 DEF Block
  <2>4. late \subseteq ToSet(sort) /\ vmap \subseteq ToSet(sort)
    BY <1>2
  <2>. QED
    BY <1>2, <1>3, <2>1, <2>2, <2>3, <2>4 DEF TypeOK, Phases
<1>6. PushInv
  <2>1. 1 .. pushed = {}
    BY <1>2
  <2>2. Places(ToSet(sort)) = Places(1 .. pushed)
    BY <1>4, <2>1 DEF Places
  <2>. QED
    BY <1>2, <1>4, <2>1, <2>2 DEF PushInv, IsInjective
<1>7. TileInv
  <2>1. 1 .. tile = {}
    BY <1>2
  <2>. QED
    BY <1>2, <1>4, <2>1 DEF TileInv, IsInjective
<1>8. LateInv
  BY <1>2, <1>4 DEF LateInv
<1>9. FreeInv
  BY <1>2 DEF FreeInv
<1>. QED
  BY <1>1, <1>5, <1>6, <1>7, <1>8, <1>9 DEF IInv

\* No step changes what the job is.
LEMMA JobStep == JobInv /\ [Next]_vars => JobInv'
<1>. SUFFICES ASSUME JobInv, [Next]_vars PROVE JobInv'
  OBVIOUS
<1>1. UNCHANGED jobVars
  BY DEF Next, vars, Push, Planned, PutOff, TilesEnd, LateEnd, SendTile, SendLate,
         DeleteSession, DeleteEntry, Deleted
<1>. QED
  BY <1>1 DEF JobInv, SimpleJob, CurveJob, CustomJob, jobVars

LEMMA Step == IInv /\ [Next]_vars => IInv'
BY PlanTyped, TypeStep, JobStep, PushInvStep, TileInvStep, LateInvStep, FreeInvStep DEF IInv

THEOREM Inductive == Spec => []IInv
<1>1. Init => IInv
  BY InitInv
<1>2. IInv /\ [Next]_vars => IInv'
  BY Step
<1>. QED
  BY <1>1, <1>2, PTL DEF Spec

\* The variables of a job keep their types: no list holds what was not pushed.
THEOREM TypeCorrect == Spec => []TypeOK
<1>1. IInv => TypeOK
  BY DEF IInv
<1>. QED
  BY <1>1, Inductive, PTL

\* ~csession deletes each block once, for every file and in every order of the
\* pointers.
THEOREM BlocksFreedOnce == Spec => []FreedOnce
<1>1. IInv => FreedOnce
  <2>. SUFFICES ASSUME IInv PROVE FreedOnce
    OBVIOUS
  <2>1. \A b \in DOMAIN frees : frees[b] = IF b \in deleted THEN 1 ELSE 0
    BY DEF IInv, FreeInv
  <2>2. ASSUME phase = "done", kind = "custom", NEW b \in DOMAIN frees PROVE b \in deleted
    <3>1. PICK n \in DOMAIN plan : b = Block(n)
      BY DEF IInv, TypeOK
    <3>2. n \in 1 .. Len(plan)
      BY PlanTyped DEF IInv, PlanOK
    <3>3. pushed = Len(plan) /\ ToSet(sort) = 1 .. pushed
      BY <2>2 DEF IInv, PushInv
    <3>4. vmap = {}
      BY <2>2 DEF IInv, FreeInv
    <3>. QED
      BY <2>2, <3>1, <3>2, <3>3, <3>4 DEF IInv, FreeInv
  <2>. QED
    BY <2>1, <2>2 DEF FreedOnce
<1>. QED
  BY <1>1, Inductive, PTL
LEMMA WholeSizes == ASSUME NEW c, Parsed(c), Whole(c) PROVE IsWhole(c)
<1>1. c.r \in Int /\ c.l \in Int /\ c.w \in Int
  BY DEF Parsed
<1>2. PICK x \in 0 .. c.r + c.l + c.w : c.r = 2 * x
  BY DEF Whole
<1>3. PICK y \in 0 .. c.r + c.l + c.w : c.l = 2 * y
  BY DEF Whole
<1>4. PICK z \in 0 .. c.r + c.l + c.w : c.w = 2 * z
  BY DEF Whole
<1>5. x \in Nat /\ y \in Nat /\ z \in Nat
  BY <1>1
<1>. QED
  BY <1>2, <1>3, <1>4, <1>5 DEF IsWhole

\* push loses no position and doubles none: for every command and every list of
\* positions, wherever the scan of push finds its place.
THEOREM PushedOnce == Spec => []PushExact
<1>1. IInv => PushExact
  <2>. SUFFICES ASSUME IInv PROVE PushExact
    OBVIOUS
  <2>1. /\ Places(ToSet(sort)) = Places(1 .. pushed)
        /\ kind # "curved" => Len(sort) = pushed /\ ToSet(sort) = 1 .. pushed
        /\ kind = "curved" => \A i, j \in DOMAIN sort : At(sort[i]) = At(sort[j]) => i = j
        /\ IsInjective(sort)
    BY DEF IInv, PushInv
  <2>2. ASSUME kind = "simple", Whole(cmd), cmd.type \in {"round", "circle", "sphere", "ellipse"},
               NEW i \in DOMAIN sort, NEW j \in DOMAIN sort, At(sort[i]) = At(sort[j])
        PROVE  i = j
    <3>1. cmd \in Commands /\ plan = OnlyAt(Pushed(cmd))
      BY <2>2 DEF IInv, JobInv, SimpleJob, CurveJob, CustomJob
    <3>2. Parsed(cmd)
      BY <3>1, CommandsAssumption DEF CommandsAssumption, Parsed
    <3>3. Pushed(cmd) \in Seq(Place) /\ IsInjective(Pushed(cmd))
      BY <2>2, <3>2, WholeSizes, PushedTyped, PushedApart
    <3>4. /\ DOMAIN plan = 1 .. Len(Pushed(cmd)) /\ DOMAIN Pushed(cmd) = 1 .. Len(Pushed(cmd))
          /\ \A n \in DOMAIN plan : At(n) = Pushed(cmd)[n]
      BY <3>1, <3>3, OnlyAtPlan, LenProperties DEF At
    <3>5. \A m, n \in DOMAIN plan : At(m) = At(n) => m = n
      BY <3>3, <3>4 DEF IsInjective
    <3>6. sort[i] \in DOMAIN plan /\ sort[j] \in DOMAIN plan
      <4>1. 1 .. pushed \subseteq 1 .. Len(plan) /\ DOMAIN plan = 1 .. Len(plan)
        BY PlanTyped DEF IInv, TypeOK, PlanOK
      <4>2. ToSet(sort) = 1 .. pushed
        BY <2>1, <2>2
      <4>. QED
        BY <4>1, <4>2 DEF ToSet
    <3>7. sort[i] = sort[j]
      BY <2>2, <3>5, <3>6
    <3>. QED
      BY <2>1, <3>7 DEF IsInjective
  <2>. QED
    BY <2>1, <2>2 DEF PushExact, Distinct
<1>. QED
  BY <1>1, Inductive, PTL

\* A tile's fill command fills the column above its position.
LEMMA FilledColumn ==
    ASSUME PlanOK, OwnHeight \/ cmd.h >= 1, NEW n \in 1 .. Len(plan)
    PROVE  Filled(n) = Column(At(n))
<1>. DEFINE p == At(n)  x == p[1]  y == p[2]  z == p[3]  h == cmd.h
<1>1. y \in Int /\ h \in Int
  BY DEF PlanOK, Place
<1>2. Top(n) = IF Long THEN y + h - 1 ELSE y
  BY DEF Top
<1>3. Filled(n) = {<<x, b, z>> : b \in y .. Top(n) \cup Top(n) .. y}
  BY DEF Filled
<1>4. Column(p) = {<<x, y + k, z>> : k \in 0 .. (IF OwnHeight THEN 1 ELSE h) - 1}
  BY DEF Column
<1>5. Long => ~OwnHeight /\ h # 1
  BY DEF Long, OwnHeight
<1>6. ~Long => OwnHeight \/ h = 1
  BY DEF Long, OwnHeight
<1>. HIDE DEF p, x, y, z, h
<1>7. CASE Long
  <2>1. h > 1 /\ Top(n) = y + h - 1
    BY <1>1, <1>2, <1>5, <1>7 DEF h
  <2>2. \A b : b \in y .. Top(n) \cup Top(n) .. y <=> \E k \in 0 .. h - 1 : b = y + k
    <3>1. \A b \in y .. Top(n) : b - y \in 0 .. h - 1 /\ b = y + (b - y)
      BY <1>1, <2>1
    <3>2. Top(n) .. y = {}
      BY <1>1, <2>1
    <3>3. \A k \in 0 .. h - 1 : y + k \in y .. Top(n)
      BY <1>1, <2>1
    <3>. QED
      BY <3>1, <3>2, <3>3
  <2>3. Column(p) = {<<x, y + k, z>> : k \in 0 .. h - 1}
    BY <1>4, <1>5, <1>7
  <2>4. Filled(n) = Column(p)
    BY <1>3, <2>2, <2>3
  <2>. QED
    BY <2>4 DEF p
<1>8. CASE ~Long
  <2>1. Top(n) = y /\ y .. Top(n) \cup Top(n) .. y = {y}
    BY <1>1, <1>2, <1>8
  <2>2. 0 .. (IF OwnHeight THEN 1 ELSE h) - 1 = {0} /\ y + 0 = y
    BY <1>1, <1>6, <1>8
  <2>3. Filled(n) = {<<x, y, z>>} /\ Column(p) = {<<x, y, z>>}
    BY <1>3, <1>4, <2>1, <2>2
  <2>. QED
    BY <2>3 DEF p
<1>. QED
  BY <1>7, <1>8

\* No tile is sent twice or too early, and a job that is not stopped fills the
\* columns of its positions, in whatever order the second loop takes them.
THEOREM TilesFilledOnce == Spec => []FilledOnce
<1>1. IInv => FilledOnce
  <2>. SUFFICES ASSUME IInv PROVE FilledOnce
    OBVIOUS
  <2>1. \A i, j \in DOMAIN fills : fills[i] = fills[j] => i = j
    BY DEF IInv, TileInv, IsInjective
  <2>2. lp => \A i, j \in DOMAIN fills :
                  i < j /\ Name(fills[i]) \in LastPlace => Name(fills[j]) \in LastPlace
    BY DEF IInv, LateInv, IsLast
  <2>3. Ended => ToSet(fills) = ToSet(sort)
    <3>1. Ended => tile = Len(sort) /\ late = {}
      BY DEF Ended, IInv, TileInv
    <3>2. ToSet(fills) \cup late = {sort[k] : k \in 1 .. tile}
      BY DEF IInv, TileInv
    <3>3. DOMAIN sort = 1 .. Len(sort)
      BY LenProperties DEF IInv, TypeOK
    <3>. QED
      BY <3>1, <3>2, <3>3 DEF ToSet
  <2>4. ASSUME Ended, OwnHeight \/ cmd.h >= 1
        PROVE  UNION {Filled(n) : n \in ToSet(fills)}
                 = UNION {Column(p) : p \in Places(1 .. Len(plan))}
    <3>1. pushed = Len(plan) /\ Places(ToSet(sort)) = Places(1 .. pushed)
      BY <2>4 DEF Ended, IInv, PushInv
    <3>2. PlanOK
      BY PlanTyped DEF IInv
    <3>3. ToSet(sort) \subseteq 1 .. Len(plan)
      BY <3>1, ToSetTyped DEF IInv, TypeOK
    <3>4. \A n \in ToSet(sort) : Filled(n) = Column(At(n))
      BY <2>4, <3>2, <3>3, FilledColumn
    <3>5. UNION {Filled(n) : n \in ToSet(sort)} = UNION {Column(p) : p \in Places(ToSet(sort))}
      BY <3>4 DEF Places
    <3>. QED
      BY <2>3, <2>4, <3>1, <3>5
  <2>. QED
    BY <2>1, <2>2, <2>3, <2>4 DEF FilledOnce
<1>. QED
  BY <1>1, Inductive, PTL
-----------------------------------------------------------------------------
(* The structures are what their names say *)

\* The places of a job of a command are those its method pushes.
LEMMA BuiltPlaces ==
    ASSUME IInv, Ended, kind # "custom", cmd # CurveCmd
    PROVE  Parsed(cmd) /\ Places(ToSet(sort)) = ToSet(Pushed(cmd))
<1>1. SimpleJob
  BY DEF IInv, JobInv, CurveJob, CustomJob
<1>2. Parsed(cmd) /\ Pushed(cmd) \in Seq(Place) /\ plan = OnlyAt(Pushed(cmd))
  BY <1>1, CommandsAssumption, PushedTyped DEF SimpleJob, CommandsAssumption, Parsed
<1>. DEFINE s == Pushed(cmd)
<1>. HIDE DEF s
<1>3. /\ Len(plan) = Len(s) /\ DOMAIN s = 1 .. Len(s)
      /\ \A n \in 1 .. Len(s) : At(n) = s[n]
  BY <1>2, OnlyAtPlan, LenProperties DEF s, At
<1>4. Places(1 .. Len(plan)) = ToSet(s)
  BY <1>3 DEF Places, ToSet
<1>5. Places(ToSet(sort)) = Places(1 .. Len(plan))
  BY DEF Ended, IInv, PushInv
<1>. QED
  BY <1>2, <1>4, <1>5 DEF s

LEMMA SymmetricHolds == IInv => Symmetric
<1>. SUFFICES ASSUME IInv, kind # "custom", Ended, Central(cmd), NEW p \in Places(ToSet(sort))
              PROVE  \E q \in Places(ToSet(sort)) :
                         \A k \in 1 .. 3 : p[k] + q[k] - 2 * cmd.at[k] \in -Slack(cmd) .. Slack(cmd)
  BY DEF Symmetric
<1>1. cmd # CurveCmd
  BY DEF Central, CurveCmd
<1>2. Parsed(cmd) /\ Places(ToSet(sort)) = ToSet(Pushed(cmd))
  BY <1>1, BuiltPlaces
<1>3. IsCentral(cmd)
  BY DEF Central, IsCentral
<1>4. CASE Whole(cmd)
  <2>. DEFINE q == Mirror(p, cmd.at)
  <2>1. IsWhole(cmd)
    BY <1>2, <1>4, WholeSizes
  <2>2. q \in ToSet(Pushed(cmd))
    BY <1>2, <1>3, <2>1, PushedCentral
  <2>3. p \in Place /\ cmd.at \in Place
    BY <1>2, PushedTyped, ToSetTyped DEF Parsed
  <2>4. ASSUME NEW k \in 1 .. 3 PROVE p[k] + q[k] - 2 * cmd.at[k] = 0
    <3>1. p[k] \in Int /\ cmd.at[k] \in Int
      BY <2>3 DEF Place
    <3>2. q[k] = 2 * cmd.at[k] - p[k]
      BY DEF Mirror
    <3>. QED
      BY <3>1, <3>2
  <2>5. -Slack(cmd) .. Slack(cmd) = {0}
    BY <1>4 DEF Slack
  <2>. QED
    BY <1>2, <2>2, <2>4, <2>5
<1>5. CASE ~Whole(cmd)
  <2>1. Slack(cmd) = 1
    BY <1>5 DEF Slack
  <2>2. PICK q \in ToSet(Pushed(cmd)) : Near(p, q, cmd.at)
    BY <1>2, <1>3, PushedNear
  <2>. QED
    BY <1>2, <2>1, <2>2 DEF Near
<1>. QED
  BY <1>4, <1>5

LEMMA RingBoundedHolds == IInv => RingBounded
<1>. SUFFICES ASSUME IInv, kind = "curved", cmd # CurveCmd, Ended,
                     cmd.type \in {"torus", "ellipticTorus"}, NEW p \in Places(ToSet(sort))
              PROVE  Bounded(p, cmd.at, Axis(cmd), Size(cmd.r) + Size(cmd.l),
                             Size(IF cmd.type = "torus" THEN cmd.l ELSE cmd.w))
  BY DEF RingBounded, Bounded
<1>1. Parsed(cmd) /\ p \in ToSet(Pushed(cmd))
  BY BuiltPlaces
<1>2. CASE cmd.type = "torus"
  BY <1>1, <1>2, TorusBounded DEF Pushed
<1>3. CASE cmd.type = "ellipticTorus"
  BY <1>1, <1>3, EllipticTorusBounded DEF Pushed
<1>. QED
  BY <1>2, <1>3

LEMMA WatertightHolds == IInv => Watertight
<1>. SUFFICES ASSUME IInv, kind = "simple", Ended, Hollow(cmd) PROVE Watertight
  BY DEF Watertight
<1>. DEFINE r == cmd.r \div 2
            span(k) ==
                IF cmd.type = "circle" /\ cmd.dir = <<"x", "y", "z">>[k] THEN {cmd.at[k]}
                ELSE cmd.at[k] - r .. cmd.at[k] + r
            room == span(1) \X span(2) \X span(3)
            free == room \ Places(ToSet(sort))
            inside == {p \in free : Dist2(p, cmd.at) < Sq(r)}
<1>1. cmd # CurveCmd /\ IsHollow(cmd) /\ Whole(cmd) /\ cmd.r > 0
  BY DEF Hollow, CurveCmd, IsHollow
<1>2. Parsed(cmd) /\ Places(ToSet(sort)) = ToSet(Pushed(cmd))
  BY <1>1, BuiltPlaces
<1>3. PICK a \in Nat : cmd.r = 2 * a
  BY <1>1, <1>2, WholeSizes DEF IsWhole
<1>4. a \in Nat \ {0} /\ r = a
  <2>1. (2 * a) \div 2 = a
    OBVIOUS
  <2>. QED
    BY <1>1, <1>3, <2>1
<1>5. room = Room(cmd)
  BY DEF Room, Span
<1>6. \A p : Dist2(p, cmd.at) = Distance(p, cmd.at)
  BY DEF Dist2, Distance
<1>. HIDE DEF room, r
<1>7. ASSUME NEW p \in inside, NEW q \in Neighbours(p), q \in free PROVE q \in inside
  <2>1. p \in Room(cmd) /\ p \notin ToSet(Pushed(cmd)) /\ Distance(p, cmd.at) < Sq(a)
    BY <1>2, <1>4, <1>5, <1>6
  <2>2. ~(Sq(a - 1) <= Distance(p, cmd.at))
    BY <1>1, <1>2, <1>3, <2>1, EdgePushed
  <2>3. Distance(p, cmd.at) < Sq(a - 1)
    <3>. DEFINE i == p[1] - cmd.at[1]  j == p[2] - cmd.at[2]  k == p[3] - cmd.at[3]
    <3>1. /\ i \in -a .. a /\ j \in -a .. a /\ k \in -a .. a
          /\ Distance(p, cmd.at) = Sq(i) + Sq(j) + Sq(k)
      BY <1>2, <1>3, <2>1, RoomOffset
    <3>. HIDE DEF i, j, k
    <3>2. Sq(i) \in Nat /\ Sq(j) \in Nat /\ Sq(k) \in Nat
      BY <3>1, SquareFacts
    <3>3. Distance(p, cmd.at) \in Int
      BY <3>1, <3>2
    <3>4. a - 1 \in Int
      OBVIOUS
    <3>5. Sq(a - 1) \in Nat
      BY <3>4, SquareFacts
    <3>. QED
      BY <2>2, <3>3, <3>5
  <2>4. PICK k \in 1 .. 3, d \in {-1, 1} : q = [p EXCEPT ![k] = @ + d]
    BY DEF Neighbours
  <2>5. Distance(q, cmd.at) < Sq(a)
    BY <1>2, <1>3, <1>4, <2>1, <2>3, <2>4, StaysInside
  <2>. QED
    BY <1>4, <1>6, <1>7, <2>5
<1>8. \A p \in inside : Neighbours(p) \cap free \subseteq inside
  BY <1>7
<1>. QED
  BY <1>8 DEF Watertight, room, r

\* Structures lie evenly around their position, exactly for whole sizes and to a
\* block for halves, circles and hollow spheres of whole size have no holes, and
\* rings keep within their sizes: for every size, position, direction and list of
\* angles.
THEOREM ShapesAsNamed == Spec => []ShapesTrue
<1>1. IInv => ShapesTrue
  BY SymmetricHolds, WatertightHolds, RingBoundedHolds DEF ShapesTrue
<1>. QED
  BY <1>1, Inductive, PTL
-----------------------------------------------------------------------------
(* The block for a color *)

\* The root, cut to an integer
LEMMA FloorProperties ==
    ASSUME NEW n \in Nat
    PROVE  /\ Floor(n) \in Nat
           /\ Floor(n) * Floor(n) <= n /\ (Floor(n) + 1) * (Floor(n) + 1) > n
<1>. DEFINE S == {m \in Nat : (m + 1) * (m + 1) > n}
            IsFloor(k) == k * k <= n /\ (k + 1) * (k + 1) > n
<1>1. n \in S
  <2>1. (n + 1) * (n + 1) = n * n + 2 * n + 1 /\ n * n >= 0
    OBVIOUS
  <2>. QED
    BY <2>1
<1>2. PICK m \in S : \A y \in S : m <= y
  <2>1. S \in SUBSET Nat /\ S # {}
    BY <1>1
  <2>. HIDE DEF S
  <2>. QED
    BY <2>1, LeastExists
<1>3. m * m <= n
  <2>1. CASE m = 0
    BY <2>1
  <2>2. CASE m # 0
    <3>1. m - 1 \in Nat /\ m - 1 \notin S
      BY <1>2, <2>2
    <3>2. (m - 1) + 1 = m
      OBVIOUS
    <3>. QED
      BY <3>1, <3>2
  <2>. QED
    BY <2>1, <2>2
<1>4. m \in 0 .. n /\ IsFloor(m)
  BY <1>1, <1>2, <1>3
<1>5. Floor(n) = CHOOSE k \in 0 .. n : IsFloor(k)
  BY DEF Floor
<1>. HIDE DEF IsFloor
<1>6. Floor(n) \in 0 .. n /\ IsFloor(Floor(n))
  BY <1>4, <1>5
<1>. QED
  BY <1>6 DEF IsFloor

\* A distance below a square has a root below the number; another has not.
LEMMA FloorLess ==
    ASSUME NEW n \in Nat, NEW m \in Nat
    PROVE  (n < m * m) <=> (Floor(n) < m)
<1>. DEFINE k == Floor(n)
<1>1. k \in Nat /\ k * k <= n /\ (k + 1) * (k + 1) > n
  BY FloorProperties
<1>. HIDE DEF k
<1>2. \A x, y \in Nat : x <= y => x * x <= y * y
  <2>1. \A x, y, z \in Nat : x <= y => x * z <= y * z
    <3>. SUFFICES ASSUME NEW x \in Nat, NEW y \in Nat, NEW z \in Nat, x <= y PROVE x * z <= y * z
      OBVIOUS
    <3>1. y * z = x * z + (y - x) * z /\ (y - x) \in Nat
      OBVIOUS
    <3>2. \A u, v \in Nat : u * v >= 0
      OBVIOUS
    <3>3. (y - x) * z >= 0
      BY <3>1, <3>2
    <3>. QED
      BY <3>1, <3>3
  <2>. SUFFICES ASSUME NEW x \in Nat, NEW y \in Nat, x <= y PROVE x * x <= y * y
    OBVIOUS
  <2>2. x * x <= y * x /\ x * y <= y * y /\ x * y = y * x
    BY <2>1
  <2>. QED
    BY <2>2
<1>3. ASSUME n < m * m PROVE k < m
  <2>1. ~(m <= k)
    <3>1. m <= k => m * m <= k * k
      BY <1>1, <1>2
    <3>2. m * m \in Nat /\ k * k \in Nat
      BY <1>1
    <3>. QED
      BY <1>1, <1>3, <3>1, <3>2
  <2>. QED
    BY <1>1, <2>1
<1>4. ASSUME k < m PROVE n < m * m
  <2>1. k + 1 \in Nat /\ k + 1 <= m
    BY <1>1, <1>4
  <2>2. (k + 1) * (k + 1) <= m * m
    BY <1>2, <2>1
  <2>3. (k + 1) * (k + 1) \in Nat /\ m * m \in Nat
    BY <1>1
  <2>. QED
    BY <1>1, <2>2, <2>3
<1>. QED
  BY <1>3, <1>4 DEF k

\* The search has seen the first n distances.
Least(t, n, best) ==
    /\ best.index \in 1 .. n /\ best.min = Floor(t[best.index])
    /\ \A m \in 1 .. n : best.min <= Floor(t[m])

\* findMin finds a distance whose root, cut to an int, is least.
LEMMA FindMinLeast ==
    ASSUME NEW N \in Nat \ {0}, NEW t \in [1 .. N -> Nat]
    PROVE  /\ findMin(t) \in 1 .. N
           /\ \A m \in 1 .. N : Floor(t[findMin(t)]) <= Floor(t[m])
<1>. DEFINE first == [min |-> Floor(t[1]), index |-> 1]
            next(n, best) ==
                IF t[n] < best.min * best.min THEN [min |-> Floor(t[n]), index |-> n] ELSE best
            IsSearch(f) == f = [n \in DOMAIN t |-> IF n = 1 THEN first ELSE next(n, f[n - 1])]
            search == CHOOSE f : IsSearch(f)
            V == [min : Nat, index : 1 .. N]
            step == [x \in (1 .. N - 1) \X V |-> next(x[1] + 1, x[2])]
<1>1. DOMAIN t = 1 .. N /\ \A n \in 1 .. N : t[n] \in Nat /\ Floor(t[n]) \in Nat
  BY FloorProperties
<1>2. first \in V
  BY <1>1
<1>3. ASSUME NEW n \in 2 .. N, NEW best \in V PROVE next(n, best) \in V
  BY <1>1
<1>4. findMin(t) = search[Len(t)].index
  BY DEF findMin
<1>5. Len(t) = N
  <2>1. t \in Seq(Nat)
    OBVIOUS
  <2>. QED
    BY <1>1, <2>1, LenProperties
<1>. HIDE DEF V, first
<1>6. step \in [(1 .. N - 1) \X V -> V]
  <2>1. \A x \in (1 .. N - 1) \X V : x[1] + 1 \in 2 .. N /\ x[2] \in V
    OBVIOUS
  <2>. HIDE DEF next
  <2>. QED
    BY <1>3, <2>1
<1>7. \A n \in 1 .. N - 1, best \in V : step[<<n, best>>] = next(n + 1, best)
  <2>. HIDE DEF next
  <2>. QED
    OBVIOUS
<1>. HIDE DEF step
<1>8. PICK g \in [0 .. N - 1 -> V] : Recursion(g, N - 1, first, step)
  <2>1. N - 1 \in Nat
    OBVIOUS
  <2>. HIDE DEF next, IsSearch, search
  <2>. QED
    BY <1>2, <1>6, <2>1, RecursionExists
<1>. DEFINE f == [n \in 1 .. N |-> g[n - 1]]
<1>. HIDE DEF next
<1>9. IsSearch(f)
  <2>1. g[0] = first /\ \A n \in 1 .. N - 1 : g[n] = step[<<n, g[n - 1]>>]
    BY <1>8 DEF Recursion
  <2>2. f[1] = first
    <3>1. f[1] = g[1 - 1] /\ 1 - 1 = 0
      OBVIOUS
    <3>. QED
      BY <2>1, <3>1
  <2>3. ASSUME NEW n \in 1 .. N, n # 1 PROVE f[n] = next(n, f[n - 1])
    <3>1. n - 1 \in 1 .. N - 1 /\ (n - 1) + 1 = n /\ n - 1 \in 1 .. N
      BY <2>3
    <3>2. g[(n - 1) - 1] \in V
      <4>1. (n - 1) - 1 \in 0 .. N - 1
        BY <3>1
      <4>. QED
        BY <4>1
    <3>3. g[n - 1] = next(n, g[(n - 1) - 1])
      BY <1>7, <2>1, <3>1, <3>2
    <3>4. f[n] = g[n - 1] /\ f[n - 1] = g[(n - 1) - 1]
      BY <3>1
    <3>. QED
      BY <3>3, <3>4
  <2>. QED
    BY <1>1, <2>2, <2>3
<1>10. IsSearch(search)
  BY <1>9
<1>. HIDE DEF search, f
<1>11. search[1] = first /\ \A n \in 1 .. N : n # 1 => search[n] = next(n, search[n - 1])
  BY <1>1, <1>10
<1>. DEFINE T == {n \in 0 .. N - 1 : Least(t, n + 1, search[n + 1])}
<1>12. 0 \in T
  <2>1. Least(t, 1, first)
    BY <1>1 DEF Least, first
  <2>2. 0 \in 0 .. N - 1 /\ 0 + 1 = 1
    OBVIOUS
  <2>. QED
    BY <1>11, <2>1, <2>2
<1>13. ASSUME NEW n \in 0 .. (N - 1) - 1, n \in T PROVE n + 1 \in T
  <2>. DEFINE k == n + 1  best == search[k]
  <2>1. k \in 1 .. N /\ k + 1 \in 1 .. N /\ k + 1 # 1 /\ (k + 1) - 1 = k /\ k \in 0 .. N - 1
    OBVIOUS
  <2>2. Least(t, k, best)
    BY <1>13
  <2>3. search[k + 1] = next(k + 1, best)
    BY <1>11, <2>1
  <2>. HIDE DEF k, best
  <2>4. best.min \in Nat /\ best.index \in 1 .. k /\ best.index \in 1 .. k + 1
        /\ best.min = Floor(t[best.index])
    BY <1>1, <2>1, <2>2 DEF Least
  <2>5. 1 .. k + 1 = (1 .. k) \cup {k + 1}
    BY <2>1
  <2>6. \A m \in 1 .. k : best.min <= Floor(t[m]) /\ Floor(t[m]) \in Nat
    BY <1>1, <2>1, <2>2 DEF Least
  <2>7. (t[k + 1] < best.min * best.min) <=> (Floor(t[k + 1]) < best.min)
    BY <1>1, <2>1, <2>4, FloorLess
  <2>8. Floor(t[k + 1]) \in Nat
    BY <1>1, <2>1
  <2>9. CASE t[k + 1] < best.min * best.min
    <3>1. search[k + 1] = [min |-> Floor(t[k + 1]), index |-> k + 1]
      BY <2>3, <2>9 DEF next
    <3>2. \A m \in 1 .. k : Floor(t[k + 1]) <= Floor(t[m])
      BY <2>4, <2>6, <2>7, <2>8, <2>9
    <3>3. k + 1 \in 1 .. k + 1
      BY <2>1
    <3>4. \A m \in 1 .. k + 1 : Floor(t[k + 1]) <= Floor(t[m])
      BY <2>5, <2>8, <3>2, SMTT(30)
    <3>5. Least(t, k + 1, search[k + 1])
      BY <3>1, <3>3, <3>4 DEF Least
    <3>. QED
      BY <2>1, <3>5 DEF k
  <2>10. CASE ~(t[k + 1] < best.min * best.min)
    <3>1. search[k + 1] = best
      BY <2>3, <2>10 DEF next
    <3>2. best.min <= Floor(t[k + 1])
      BY <2>4, <2>7, <2>8, <2>10
    <3>3. \A m \in 1 .. k + 1 : best.min <= Floor(t[m])
      BY <2>5, <2>6, <3>2
    <3>4. Least(t, k + 1, search[k + 1])
      BY <2>4, <3>1, <3>3 DEF Least
    <3>. QED
      BY <2>1, <3>4 DEF k
  <2>. QED
    BY <2>9, <2>10
<1>14. 0 .. N - 1 \subseteq T
  <2>1. N - 1 \in Nat
    OBVIOUS
  <2>. HIDE DEF T
  <2>. QED
    BY <1>12, <1>13, <2>1, InductionUpTo
<1>15. Least(t, N, search[N])
  <2>1. N - 1 \in 0 .. N - 1 /\ (N - 1) + 1 = N
    OBVIOUS
  <2>. QED
    BY <1>14, <2>1
<1>. QED
  BY <1>4, <1>5, <1>15 DEF Least
LEMMA DistanceTyped ==
    ASSUME NEW p, NEW q, p[1] \in Byte, p[2] \in Byte, p[3] \in Byte,
           q[1] \in Byte, q[2] \in Byte, q[3] \in Byte
    PROVE  ColorDistance(p, q) \in Nat
<1>. DEFINE rmean == (p[1] + q[1]) \div 2
            red == p[1] - q[1]  green == p[1] - q[2]  blue == p[3] - q[3]
<1>1. ColorDistance(p, q) = ((512 + rmean) * red * red) \div 256 + 4 * green * green
                              + ((767 - rmean) * blue * blue) \div 256
  BY DEF ColorDistance
<1>2. rmean \in 0 .. 255 /\ red \in Int /\ green \in Int /\ blue \in Int
  <2>. DEFINE a == p[1]  b == q[1]  c == q[2]  d == p[3]  e == q[3]
  <2>3. a \in Byte /\ b \in Byte /\ c \in Byte /\ d \in Byte /\ e \in Byte
    OBVIOUS
  <2>4. rmean = (a + b) \div 2 /\ red = a - b /\ green = a - c /\ blue = d - e
    OBVIOUS
  <2>5. \A x, y \in Byte : x + y \in 0 .. 510 /\ x - y \in Int
    BY DEF Byte
  <2>. HIDE DEF a, b, c, d, e, rmean, red, green, blue
  <2>1. a + b \in 0 .. 510 /\ red \in Int /\ green \in Int /\ blue \in Int
    BY <2>3, <2>4, <2>5
  <2>2. \A x \in 0 .. 510 : x \div 2 \in 0 .. 255
    OBVIOUS
  <2>. QED
    BY <2>1, <2>2, <2>4
<1>. HIDE DEF rmean, red, green, blue
<1>3. \A n \in Int : n * n \in Nat
  BY SquareFacts DEF Sq
<1>4. \A m, n \in Nat : m * n \in Nat
  OBVIOUS
<1>5. \A n \in Nat : n \div 256 \in Nat
  OBVIOUS
<1>6. (512 + rmean) * red * red = (512 + rmean) * (red * red) /\ 512 + rmean \in Nat
  BY <1>2
<1>7. (767 - rmean) * blue * blue = (767 - rmean) * (blue * blue) /\ 767 - rmean \in Nat
  BY <1>2
<1>8. 4 * green * green = 4 * (green * green)
  BY <1>2
<1>9. ((512 + rmean) * red * red) \div 256 \in Nat
  <2>1. (512 + rmean) * red * red \in Nat
    BY <1>2, <1>3, <1>4, <1>6
  <2>. QED
    BY <1>5, <2>1
<1>10. ((767 - rmean) * blue * blue) \div 256 \in Nat
  <2>1. (767 - rmean) * blue * blue \in Nat
    BY <1>2, <1>3, <1>4, <1>7
  <2>. QED
    BY <1>5, <2>1
<1>11. 4 * green * green \in Nat
  BY <1>2, <1>3, <1>4, <1>8
<1>. QED
  BY <1>1, <1>9, <1>10, <1>11

\* The block for a pixel is one of the table that is nearest.
LEMMA NearestBlock ==
    ASSUME NEW p, p[1] \in Byte, p[2] \in Byte, p[3] \in Byte
    PROVE  /\ getBlock(p) \in ToSet(colormap)
           /\ \A e \in ToSet(colormap) :
                Floor(ColorDistance(p, getBlock(p).color)) <= Floor(ColorDistance(p, e.color))
<1>. DEFINE N == Len(colormap)  t == Distances(p)
<1>1. N \in Nat \ {0} /\ DOMAIN colormap = 1 .. N /\ \A k \in 1 .. N : colormap[k] \in ToSet(colormap)
  <2>1. colormap \in Seq(ToSet(colormap)) /\ colormap # <<>>
    BY ColormapAssumption DEF ColormapAssumption
  <2>2. N \in Nat /\ DOMAIN colormap = 1 .. N
    BY <2>1, LenProperties
  <2>3. N # 0
    BY <2>1, <2>2, EmptySeq
  <2>. QED
    BY <2>2, <2>3 DEF ToSet
<1>2. ASSUME NEW k \in 1 .. N PROVE ColorDistance(p, colormap[k].color) \in Nat
  <2>1. colormap[k].color \in Byte \X Byte \X Byte
    BY <1>1, ColormapAssumption DEF ColormapAssumption
  <2>. DEFINE q == colormap[k].color
  <2>. HIDE DEF q
  <2>2. q[1] \in Byte /\ q[2] \in Byte /\ q[3] \in Byte
    BY <2>1 DEF q
  <2>3. ColorDistance(p, q) \in Nat
    BY <2>2, DistanceTyped
  <2>. QED
    BY <2>3 DEF q
<1>3. t = [k \in 1 .. N |-> ColorDistance(p, colormap[k].color)]
  BY <1>1 DEF Distances
<1>4. t \in [1 .. N -> Nat] /\ \A k \in 1 .. N : t[k] = ColorDistance(p, colormap[k].color)
  BY <1>2, <1>3
<1>. HIDE DEF t, N
<1>5. findMin(t) \in 1 .. N /\ \A m \in 1 .. N : Floor(t[findMin(t)]) <= Floor(t[m])
  BY <1>1, <1>4, FindMinLeast
<1>6. getBlock(p) = colormap[findMin(t)]
  BY DEF getBlock, t
<1>. HIDE DEF t
<1>7. t[findMin(t)] = ColorDistance(p, getBlock(p).color)
  BY <1>4, <1>5, <1>6
<1>8. ASSUME NEW e \in ToSet(colormap)
      PROVE  Floor(ColorDistance(p, getBlock(p).color)) <= Floor(ColorDistance(p, e.color))
  <2>1. PICK m \in 1 .. N : e = colormap[m]
    BY <1>1 DEF ToSet
  <2>. QED
    BY <1>4, <1>5, <1>7, <2>1
<1>. QED
  BY <1>1, <1>5, <1>6, <1>8
-----------------------------------------------------------------------------
(* What is built is what is in the file *)

\* A job of a file that is not stopped has filled what was pushed.
LEMMA TilesBuilt ==
    ASSUME IInv, Ended, kind = "custom"
    PROVE  /\ source \in Files /\ Custom(source, lp) # NoList /\ plan = Custom(source, lp)
           /\ Tiles = {[at |-> e.at, name |-> e.name, data |-> e.data] : e \in ToSet(plan)}
           /\ Places(ToSet(sort)) = {e.at : e \in ToSet(plan)}
<1>1. CustomJob
  BY DEF IInv, JobInv, SimpleJob, CurveJob
<1>2. PlanOK /\ TypeOK /\ TileInv /\ PushInv
  BY PlanTyped DEF IInv
<1>3. ToSet(sort) = 1 .. Len(plan)
  BY <1>2 DEF PushInv, Ended
<1>4. ToSet(fills) = ToSet(sort)
  <2>1. tile = Len(sort) /\ late = {}
    BY <1>2 DEF Ended, TileInv
  <2>2. ToSet(fills) \cup late = {sort[k] : k \in 1 .. tile}
    BY <1>2 DEF TileInv
  <2>3. DOMAIN sort = 1 .. Len(sort)
    BY <1>2, LenProperties DEF TypeOK
  <2>. QED
    BY <2>1, <2>2, <2>3 DEF ToSet
<1>5. DOMAIN plan = 1 .. Len(plan)
  BY <1>2 DEF PlanOK
<1>6. Tiles = {[at |-> plan[n].at, name |-> plan[n].name, data |-> plan[n].data] : n \in ToSet(fills)}
  BY DEF Tiles, At, Name, ToSet
<1>7. ToSet(plan) = {plan[n] : n \in 1 .. Len(plan)}
  BY <1>5 DEF ToSet
<1>8. Tiles = {[at |-> e.at, name |-> e.name, data |-> e.data] : e \in ToSet(plan)}
  BY <1>3, <1>4, <1>6, <1>7
<1>9. Places(ToSet(sort)) = {e.at : e \in ToSet(plan)}
  BY <1>3, <1>7 DEF Places, At
<1>. QED
  BY <1>1, <1>8, <1>9 DEF CustomJob

\* The data of an entry comes from a state that fits its properties, if one does.
LEMMA MetaFits ==
    ASSUME NEW item, ~Throws(item), ~UpperDoor(item)
    PROVE  LET fit == {e \in ToSet(States(item)) : ~Contradicts(e.state, item.props)}
           IN IF fit = {} THEN Meta(item) = 0 ELSE \E e \in fit : Meta(item) = e.meta
<1>. DEFINE s == States(item)
            fit == {e \in ToSet(s) : ~Contradicts(e.state, item.props)}
<1>1. DOMAIN s \subseteq Nat \ {0} /\ (s # <<>> => 1 \in DOMAIN s) /\ (s = <<>> => DOMAIN s = {})
  <2>1. CASE item.name \in DOMAIN palette_json
    <3>1. s \in Seq(ToSet(s))
      BY <2>1, PaletteAssumption DEF PaletteAssumption, States
    <3>2. Len(s) \in Nat /\ DOMAIN s = 1 .. Len(s) /\ (s # <<>> => Len(s) # 0)
      BY <3>1, LenProperties, EmptySeq
    <3>. HIDE DEF s
    <3>3. s = <<>> => Len(s) = 0
      OBVIOUS
    <3>. QED
      BY <3>2, <3>3
  <2>2. CASE item.name \notin DOMAIN palette_json
    BY <2>2 DEF States
  <2>. QED
    BY <2>1, <2>2
<1>2. Fits(item) = {n \in DOMAIN s : item.props = NoProperties \/ ~Contradicts(s[n].state, item.props)}
  BY DEF Fits
<1>3. Meta(item) = IF Fits(item) = {} THEN 0 ELSE s[Min(Fits(item))].meta
  BY DEF Meta
<1>4. Fits(item) \subseteq Nat
  BY <1>1, <1>2
<1>5. Fits(item) # {} => Min(Fits(item)) \in Fits(item) /\ \A m \in Fits(item) : Min(Fits(item)) <= m
  BY <1>4, MinOf
<1>6. CASE item.props # NoProperties
  <2>. HIDE DEF s
  <2>1. fit = {s[n] : n \in Fits(item)}
    BY <1>2, <1>6 DEF ToSet
  <2>. QED
    BY <1>3, <1>5, <2>1 DEF s
<1>7. CASE item.props = NoProperties
  <2>1. s = <<>> \/ DOMAIN s[1].state \ {"shape"} = {}
    BY <1>7 DEF Throws
  <2>. HIDE DEF s
  <2>2. CASE s = <<>>
    <3>1. fit = {} /\ Fits(item) = {}
      BY <1>1, <1>2, <2>2 DEF ToSet
    <3>. QED
      BY <1>3, <3>1 DEF s
  <2>3. CASE s # <<>>
    <3>1. 1 \in DOMAIN s /\ ~Contradicts(s[1].state, item.props)
      BY <1>1, <2>1, <2>3 DEF Contradicts
    <3>2. s[1] \in fit /\ 1 \in Fits(item)
      BY <1>2, <3>1 DEF ToSet
    <3>3. Min(Fits(item)) = 1
      <4>1. \A m \in Fits(item) : m \in Nat \ {0}
        BY <1>1, <1>2
      <4>2. Min(Fits(item)) <= 1 /\ Min(Fits(item)) \in Nat \ {0}
        BY <1>5, <3>2, <4>1
      <4>. QED
        BY <4>2
    <3>4. Meta(item) = s[1].meta
      BY <1>3, <3>2, <3>3
    <3>. QED
      BY <3>2, <3>4 DEF s
  <2>. QED
    BY <2>2, <2>3
<1>. QED
  BY <1>6, <1>7

LEMMA StructureHolds == IInv => StructureTrue
<1>. SUFFICES ASSUME IInv, kind = "custom", lp, Ended PROVE StructureTrue
  BY DEF StructureTrue
<1>. DEFINE f == source
            solid == {b \in ToSet(source.blocks) : b.state \in DOMAIN source.palette
                        /\ LET item == source.palette[b.state] IN
                            item.name # "air" /\ ~(item.door /\ item.half = "upper")}
            Strip(e) == [at |-> e.at, name |-> e.name, data |-> e.data]
<1>1. /\ f \in Files /\ buildNBT(f, 0, 0, 0) # NoList /\ plan = buildNBT(f, 0, 0, 0)
      /\ Tiles = {Strip(e) : e \in ToSet(plan)}
  BY TilesBuilt DEF Custom
<1>2. /\ f.kind = "nbt" /\ \A e \in DOMAIN f.palette : ~Throws(f.palette[e])
      /\ ToSet(plan) = {EntryOf(f, b) : b \in Built(f)}
  <2>1. /\ f.kind = "nbt" /\ \A e \in DOMAIN f.palette : ~Throws(f.palette[e])
        /\ ToSet(buildNBT(f, 0, 0, 0)) = {EntryOf(f, b) : b \in Built(f)}
    BY <1>1, NBTPlan
  <2>. QED
    BY <1>1, <2>1
<1>3. /\ \A b \in ToSet(f.blocks) : b \in [state : Int, pos : Int \X Int \X Int]
  <2>1. f.blocks \in Seq([state : Int, pos : Int \X Int \X Int])
    BY <1>1, <1>2, FilesAssumption DEF FilesAssumption, Structure
  <2>. QED
    BY <2>1, ToSetTyped
<1>4. Built(f) = solid
  BY DEF Built, IsBuilt, Resolved, resolvedPalettes, UpperDoor
<1>5. ASSUME NEW b \in solid
      PROVE  /\ EntryOf(f, b).at = b.pos /\ EntryOf(f, b).name = f.palette[b.state].name
             /\ EntryOf(f, b).data = Meta(f.palette[b.state])
             /\ ~Throws(f.palette[b.state]) /\ ~UpperDoor(f.palette[b.state])
  <2>1. b \in ToSet(f.blocks) /\ b.state \in DOMAIN f.palette
    OBVIOUS
  <2>2. b.pos \in Int \X Int \X Int
    BY <1>3, <2>1
  <2>3. <<0 + b.pos[1], 0 + b.pos[2], 0 + b.pos[3]>> = b.pos
    BY <2>2
  <2>4. ~UpperDoor(f.palette[b.state])
    BY DEF UpperDoor
  <2>5. Resolved(f, b) = [block |-> b.state, name |-> f.palette[b.state].name,
                          data |-> Meta(f.palette[b.state])]
    BY <2>1, <2>4 DEF Resolved, resolvedPalettes
  <2>. QED
    BY <1>2, <2>1, <2>3, <2>4, <2>5 DEF EntryOf
<1>. HIDE DEF solid, f
<1>6. Tiles = {Strip(EntryOf(f, b)) : b \in solid}
  BY <1>1, <1>2, <1>4
<1>7. {t.at : t \in Tiles} = {b.pos : b \in solid}
  <2>1. \A b \in solid : Strip(EntryOf(f, b)).at = b.pos
    BY <1>5
  <2>. HIDE DEF Strip
  <2>. QED
    BY <1>6, <2>1
<1>8. ASSUME NEW b \in solid
      PROVE  \E t \in Tiles :
                LET item == f.palette[b.state] IN
                /\ t.at = b.pos /\ t.name = item.name
                /\ LET fit == {e \in ToSet(States(item)) : ~Contradicts(e.state, item.props)}
                   IN IF fit = {} THEN t.data = 0 ELSE \E e \in fit : t.data = e.meta
  <2>. DEFINE t == Strip(EntryOf(f, b))  item == f.palette[b.state]
              fit == {e \in ToSet(States(item)) : ~Contradicts(e.state, item.props)}
  <2>1. t \in Tiles
    BY <1>6
  <2>2. t.at = b.pos /\ t.name = item.name /\ t.data = Meta(item)
    BY <1>5
  <2>3. IF fit = {} THEN Meta(item) = 0 ELSE \E e \in fit : Meta(item) = e.meta
    BY <1>5, MetaFits
  <2>. HIDE DEF t, item
  <2>4. IF fit = {} THEN t.data = 0 ELSE \E e \in fit : t.data = e.meta
    BY <2>2, <2>3
  <2>. QED
    BY <2>1, <2>2, <2>4 DEF item
<1>. QED
  BY <1>7, <1>8 DEF StructureTrue, solid, f
\* The number of a cell of m rows of n cells names its row and its place there.
LEMMA CellNumber ==
    ASSUME NEW m \in Nat \ {0}, NEW n \in Nat \ {0}, NEW i \in 0 .. m - 1, NEW j \in 0 .. n - 1
    PROVE  /\ n * i + j \in 0 .. m * n - 1
           /\ (n * i + j) \div n = i /\ (n * i + j) % n = j
<1>1. \A x, y \in Nat : x * y \in Nat
  OBVIOUS
<1>2. n * i \in Nat /\ n * (m - 1 - i) \in Nat /\ m * n \in Nat
  <2>1. m - 1 - i \in Nat /\ i \in Nat
    OBVIOUS
  <2>. QED
    BY <1>1, <2>1
<1>3. n * i + n * (m - 1 - i) + n = m * n
  OBVIOUS
<1>4. n * i + j \in 0 .. m * n - 1
  <2>. DEFINE a == n * i  b == n * (m - 1 - i)  s == m * n
  <2>1. a \in Nat /\ b \in Nat /\ s \in Nat /\ a + b + n = s
    BY <1>2, <1>3
  <2>. HIDE DEF a, b, s
  <2>2. a + j \in 0 .. s - 1
    BY <2>1
  <2>. QED
    BY <2>2 DEF a, s
<1>5. (n * i + j) \div n = i /\ (n * i + j) % n = j
  <2>. DEFINE k == n * i + j  q == k \div n  e == k % n
  <2>1. k \in Int
    BY <1>2
  <2>2. k = n * i + j
    OBVIOUS
  <2>. HIDE DEF k
  <2>3. q \in Int /\ e \in 0 .. n - 1 /\ k = n * q + e
    BY <2>1, DivMod
  <2>. HIDE DEF q, e
  <2>4. i \in Int
    OBVIOUS
  <2>6. n * q + e = n * i + j
    BY <2>2, <2>3
  <2>5. q = i /\ e = j
    BY <2>3, <2>4, <2>6, DivModUnique
  <2>. QED
    BY <2>5 DEF q, e, k
<1>. QED
  BY <1>4, <1>5

\* Where draw puts the cells of a picture: the last row first
LEMMA CellDrawn ==
    ASSUME NEW w \in Nat \ {0}, NEW h \in Nat \ {0}, NEW r \in 1 .. h, NEW c \in 1 .. w
    PROVE  /\ w * (h - r) + c \in 1 .. w * h
           /\ Drawn(w * (h - r) + c, w, h) = <<c - 1, 0, r - 1>>
<1>. DEFINE k == w * (h - r) + (c - 1)
<1>1. h - r \in 0 .. h - 1 /\ c - 1 \in 0 .. w - 1
  OBVIOUS
<1>2. k \in 0 .. h * w - 1 /\ k \div w = h - r /\ k % w = c - 1
  <2>. DEFINE i == h - r  j == c - 1
  <2>. HIDE DEF i, j
  <2>1. i \in 0 .. h - 1 /\ j \in 0 .. w - 1
    BY <1>1 DEF i, j
  <2>2. w * i + j \in 0 .. h * w - 1 /\ (w * i + j) \div w = i /\ (w * i + j) % w = j
    BY <2>1, CellNumber
  <2>. QED
    BY <2>2 DEF i, j
<1>3. w * (h - r) \in Int /\ h * w = w * h /\ w * h \in Int
  OBVIOUS
<1>4. (w * (h - r) + c) - 1 = k /\ w * (h - r) + c = k + 1
  BY <1>3
<1>. HIDE DEF k
<1>5. k + 1 \in 1 .. w * h
  BY <1>2, <1>3
<1>6. h - 1 - (h - r) = r - 1
  OBVIOUS
<1>7. Drawn(w * (h - r) + c, w, h) = <<c - 1, 0, r - 1>>
  BY <1>2, <1>4, <1>6 DEF Drawn
<1>. QED
  BY <1>4, <1>5, <1>7

\* No two blocks of a picture are at one place.
LEMMA PlacesDrawn ==
    ASSUME NEW w \in Nat \ {0}, NEW h \in Nat \ {0}
    PROVE  Cardinality({Drawn(t, w, h) : t \in 1 .. w * h}) = w * h
<1>. DEFINE N == w * h  S == {Drawn(t, w, h) : t \in 1 .. N}  f == [t \in 1 .. N |-> Drawn(t, w, h)]
<1>1. N \in Nat
  OBVIOUS
<1>2. ASSUME NEW s \in 1 .. N, NEW t \in 1 .. N, Drawn(s, w, h) = Drawn(t, w, h) PROVE s = t
  <2>1. s - 1 \in Int /\ t - 1 \in Int
    BY <1>1
  <2>. DEFINE a == (s - 1) \div w  b == (s - 1) % w  d == (t - 1) \div w  e == (t - 1) % w
  <2>2. a \in Int /\ d \in Int /\ s - 1 = w * a + b /\ t - 1 = w * d + e
    BY <2>1, DivMod
  <2>3. b = e /\ h - 1 - a = h - 1 - d
    BY <1>2 DEF Drawn
  <2>. HIDE DEF a, b, d, e
  <2>4. a = d
    BY <2>2, <2>3
  <2>5. s - 1 = t - 1
    BY <2>2, <2>3, <2>4
  <2>. QED
    BY <1>1, <2>5
<1>. HIDE DEF N
<1>3. f \in Bijection(1 .. N, S)
  BY <1>2 DEF Bijection, Injection, Surjection, IsInjective
<1>4. ExistsBijection(1 .. N, S)
  BY <1>3, Zenon DEF ExistsBijection
<1>. HIDE DEF S
<1>5. Cardinality(S) = N
  BY <1>1, <1>4, FS_CountingElements
<1>. QED
  BY <1>5 DEF S, N
\* The bytes Paint takes for a pixel of a picture of byte channels are the pixel's.
LEMMA PixelRead ==
    ASSUME NEW f \in Files, f.kind = "png", f.channels >= 3, f.bitDepth = 8,
           NEW r \in 1 .. f.height, NEW c \in 1 .. f.width
    PROVE  /\ PixelColor(f, f.width * (f.height - r) + c)
                = [k \in 1 .. 3 |-> f.rows[r][(c - 1) * f.channels + k]]
           /\ \A k \in 1 .. 3 : f.rows[r][(c - 1) * f.channels + k] \in Byte
<1>. DEFINE w == f.width  h == f.height  ch == f.channels
<1>1. /\ w \in Nat \ {0} /\ h \in Nat \ {0} /\ ch \in Nat \ {0} /\ ch >= 3
      /\ r \in 1 .. h /\ c \in 1 .. w
      /\ f.rows \in Seq(Seq(Byte)) /\ Len(f.rows) = h
      /\ \A row \in ToSet(f.rows) : Len(row) = (w * 8 * ch) \div 8
  BY FilesAssumption DEF FilesAssumption, Picture
<1>. DEFINE S == w * ch
<1>2. Stride(f) = (w * 8 * ch) \div 8
  BY DEF Stride
<1>3. S \in Nat \ {0}
  BY <1>1
<1>. HIDE DEF w, h, ch
<1>4. (w * 8 * ch) \div 8 = S
  <2>1. w * 8 * ch = 8 * S
    BY <1>1
  <2>. HIDE DEF S
  <2>2. (8 * S) \div 8 = S
    BY <1>3
  <2>. QED
    BY <2>1, <2>2
<1>5. f.rows[r] \in Seq(Byte) /\ Len(f.rows[r]) = S
  <2>1. r \in DOMAIN f.rows
    BY <1>1, LenProperties
  <2>. QED
    BY <1>1, <1>4, <2>1, ToSetTyped DEF ToSet
<1>6. Data(f) = [k \in 0 .. h * S - 1 |-> f.rows[h - (k \div S)][1 + (k % S)]]
  BY <1>2, <1>4 DEF Data, h
<1>7. PixelColor(f, w * (h - r) + c) = [k \in 1 .. 3 |-> Data(f)[((w * (h - r) + c) - 1) * ch + k - 1]]
  BY DEF PixelColor, ch
<1>8. ASSUME NEW k \in 1 .. 3
      PROVE  /\ Data(f)[((w * (h - r) + c) - 1) * ch + k - 1] = f.rows[r][(c - 1) * ch + k]
             /\ f.rows[r][(c - 1) * ch + k] \in Byte
  <2>. DEFINE i == c - 1  j == k - 1  b == ch * i + j  a == h - r
  <2>1. i \in 0 .. w - 1 /\ j \in 0 .. ch - 1 /\ a \in 0 .. h - 1 /\ h - a = r
    BY <1>1
  <2>2. b \in 0 .. w * ch - 1
    <3>. HIDE DEF i, j
    <3>. QED
      BY <1>1, <2>1, CellNumber
  <2>3. b \in 0 .. S - 1
    BY <2>2
  <2>4. ((w * (h - r) + c) - 1) * ch + k - 1 = S * a + b
    <3>1. (w * (h - r) + c) - 1 = w * a + i
      BY <1>1
    <3>2. a \in Int /\ i \in Int
      BY <2>1
    <3>. HIDE DEF a, i
    <3>3. (w * a + i) * ch + k - 1 = (w * ch) * a + (ch * i + (k - 1))
      BY <1>1, <3>2
    <3>. QED
      BY <3>1, <3>3
  <2>5. (c - 1) * ch + k = 1 + b
    <3>1. i \in Int
      BY <2>1
    <3>. HIDE DEF i
    <3>2. i * ch + k = 1 + (ch * i + (k - 1))
      BY <1>1, <3>1
    <3>. QED
      BY <3>2 DEF i
  <2>. HIDE DEF a, b, S
  <2>6. S * a + b \in 0 .. h * S - 1 /\ (S * a + b) \div S = a /\ (S * a + b) % S = b
    <3>1. \A m, n \in Nat \ {0} : \A x \in 0 .. m - 1, y \in 0 .. n - 1 :
             /\ n * x + y \in 0 .. m * n - 1
             /\ (n * x + y) \div n = x /\ (n * x + y) % n = y
      BY CellNumber
    <3>2. h \in Nat \ {0} /\ S \in Nat \ {0} /\ a \in 0 .. h - 1 /\ b \in 0 .. S - 1
      BY <1>1, <1>3, <2>1, <2>3
    <3>. QED
      <4>. HIDE DEF i, j
      <4>1. \A x \in 0 .. h - 1, y \in 0 .. S - 1 :
               /\ S * x + y \in 0 .. h * S - 1
               /\ (S * x + y) \div S = x /\ (S * x + y) % S = y
        BY <3>1, <3>2, Zenon
      <4>. QED
        BY <3>2, <4>1, Zenon
  <2>7. Data(f)[S * a + b] = f.rows[h - a][1 + b]
    BY <1>6, <2>6
  <2>8. 1 + b \in 1 .. Len(f.rows[r])
    BY <1>3, <1>5, <2>3
  <2>9. f.rows[r][1 + b] \in Byte
    BY <1>5, <2>8, LenProperties
  <2>10. Data(f)[((w * (h - r) + c) - 1) * ch + k - 1] = f.rows[r][1 + b]
    BY <2>1, <2>4, <2>7, Zenon
  <2>. QED
    BY <2>5, <2>9, <2>10, Zenon
<1>9. PixelColor(f, w * (h - r) + c) = [k \in 1 .. 3 |-> f.rows[r][(c - 1) * ch + k]]
  BY <1>7, <1>8
<1>. QED
  BY <1>8, <1>9 DEF w, h, ch

LEMMA PictureHolds == IInv => PictureTrue
<1>. SUFFICES ASSUME IInv, kind = "custom", ~lp, Ended, source.bitDepth = 8 PROVE PictureTrue
  BY DEF PictureTrue
<1>. DEFINE f == source  w == f.width  h == f.height
            Strip(e) == [at |-> e.at, name |-> e.name, data |-> e.data]
<1>1. /\ f \in Files /\ Paint(f, 0, 0, 0) # NoList /\ plan = Paint(f, 0, 0, 0)
      /\ Tiles = {Strip(e) : e \in ToSet(plan)}
      /\ Places(ToSet(sort)) = {e.at : e \in ToSet(plan)}
  BY TilesBuilt DEF Custom
<1>2. /\ f.kind = "png" /\ f.channels >= 3
      /\ w \in Nat \ {0} /\ h \in Nat \ {0}
      /\ plan = Drawing(Blocks(f), w * h, w, h)
  <2>1. /\ f.kind = "png" /\ f.channels >= 3
        /\ w \in Nat \ {0} /\ h \in Nat \ {0}
        /\ Paint(f, 0, 0, 0) = Drawing(Blocks(f), w * h, w, h)
    BY <1>1, PaintPlan
  <2>. QED
    BY <1>1, <2>1
<1>. HIDE DEF f
<1>3. DOMAIN plan = 1 .. w * h
      /\ \A t \in 1 .. w * h :
            plan[t] = [at |-> Drawn(t, w, h), block |-> t,
                       name |-> Blocks(f)[t].name, data |-> Blocks(f)[t].data]
  <2>. HIDE DEF w, h
  <2>. QED
    BY <1>2 DEF Drawing
<1>4. ToSet(plan) = {plan[t] : t \in 1 .. w * h}
  BY <1>3 DEF ToSet
<1>5. Cardinality(Places(ToSet(sort))) = w * h
  <2>. HIDE DEF w, h
  <2>1. Places(ToSet(sort)) = {plan[t].at : t \in 1 .. w * h}
    BY <1>1, <1>4
  <2>2. \A t \in 1 .. w * h : plan[t].at = Drawn(t, w, h)
    BY <1>3
  <2>3. {plan[t].at : t \in 1 .. w * h} = {Drawn(t, w, h) : t \in 1 .. w * h}
    BY <2>2
  <2>4. Cardinality({Drawn(t, w, h) : t \in 1 .. w * h}) = w * h
    BY <1>2, PlacesDrawn
  <2>. QED
    BY <2>1, <2>3, <2>4
<1>6. ASSUME NEW r \in 1 .. h, NEW c \in 1 .. w
      PROVE  LET pixel == [k \in 1 .. 3 |-> f.rows[r][(c - 1) * f.channels + k]]
                 away(e) == Floor(ColorDistance(pixel, e.color))
             IN \E e \in ToSet(colormap) :
                 /\ [at |-> <<c - 1, 0, r - 1>>, name |-> e.name, data |-> e.data] \in Tiles
                 /\ \A d \in ToSet(colormap) : away(e) <= away(d)
  <2>. DEFINE pixel == [k \in 1 .. 3 |-> f.rows[r][(c - 1) * f.channels + k]]
              t == w * (h - r) + c  e == getBlock(pixel)
  <2>1. t \in 1 .. w * h /\ Drawn(t, w, h) = <<c - 1, 0, r - 1>>
    <3>. HIDE DEF w, h
    <3>. QED
      BY <1>2, CellDrawn
  <2>2. f.bitDepth = 8
    BY DEF f
  <2>3. /\ PixelColor(f, t) = pixel
        /\ \A k \in 1 .. 3 : f.rows[r][(c - 1) * f.channels + k] \in Byte
    BY <1>1, <1>2, <2>2, PixelRead
  <2>4. pixel[1] \in Byte /\ pixel[2] \in Byte /\ pixel[3] \in Byte
    BY <2>3
  <2>. HIDE DEF t, pixel
  <2>5. Blocks(f)[t] = e
    BY <2>1, <2>3 DEF Blocks
  <2>6. /\ e \in ToSet(colormap)
        /\ \A d \in ToSet(colormap) :
              Floor(ColorDistance(pixel, e.color)) <= Floor(ColorDistance(pixel, d.color))
    BY <2>4, NearestBlock
  <2>. HIDE DEF e
  <2>7. Strip(plan[t]) = [at |-> <<c - 1, 0, r - 1>>, name |-> e.name, data |-> e.data]
    BY <1>3, <2>1, <2>5
  <2>8. Strip(plan[t]) \in Tiles
    BY <1>1, <1>4, <2>1
  <2>. QED
    BY <2>6, <2>7, <2>8 DEF pixel
<1>. QED
  BY <1>5, <1>6 DEF PictureTrue, f

\* A picture has at each pixel a block that is nearest to it, and a structure each
\* of its blocks that is to be built: for every file and every table.
THEOREM FilesAsGiven == Spec => []FilesTrue
<1>1. IInv => FilesTrue
  BY PictureHolds, StructureHolds DEF FilesTrue
<1>. QED
  BY <1>1, Inductive, PTL
=============================================================================
