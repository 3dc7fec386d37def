---------------------------- MODULE MCJsonValues ----------------------------
(* Small instances of JsonValues for TLC. *)
EXTENDS JsonValues

-----------------------------------------------------------------------------
(* Documents *)

V(type) == [type |-> type, comments |-> <<>>]
I(n) == IntValue(n) @@ [comments |-> <<>>]
U(n) == UIntValue(n) @@ [comments |-> <<>>]
Real(x) == RealValue(x) @@ [comments |-> <<>>]
Bool(b) == V("bool") @@ [b |-> b]
Str(cps) == V("string") @@ [s |-> FlattenSeq([n \in DOMAIN cps |-> codePointToUTF8(cps[n])])]
Raw(bytes) == V("string") @@ [s |-> bytes]
Arr(m) == V("array") @@ [m |-> m]
List(vs) == Arr([n \in 0 .. Len(vs) - 1 |-> vs[n + 1]])
Obj(m) == V("object") @@ [m |-> m]
With(v, placement, items) == [v EXCEPT !.comments = placement :> items @@ @]

Line(name) == [type |-> "//", name |-> name]
Block == [type |-> "/**/", name |-> "c"]
A == <<97>>
B == <<98>>
ANulB == <<97, 0, 98>>

Null1 == V("null")
Ints == {minLargestInt, minInt - 1, minInt, -1, 0, 1, maxInt, maxInt + 1, maxUInt, maxUInt + 1, maxLargestInt}
UInts == {0, maxInt, maxInt + 1, maxUInt, maxUInt + 1, maxLargestInt, maxLargestInt + 1, maxLargestUInt}
Reals ==
    {2 * n : n \in Ints \cup UInts \cup {minLargestInt - 1, maxLargestUInt + 1}}
    \cup {1, -1, 2 * maxInt + 1, 2 * minInt - 1, 2 * maxLargestInt + 1, NaN, Infinity, NegInfinity}
Strings ==
    {<<>>, <<97>>, <<Quote>>, <<Backslash, Quote>>, <<97, 0, 98>>, <<1, 127>>, <<10, 47>>,
     <<128>>, <<233, 97>>, <<2047, 2048>>, <<8364>>, <<55295, 57344>>, <<65535>>, <<65536>>, <<128512, 97>>,
     <<262143>>}
\* Beyond Unicode, above the code points the writers can tell, and cut or no UTF-8
RawStrings ==
    {<<195>>, <<226, 130>>, <<169, 97>>, <<255, 97, 98>>, <<237, 160, 128>>, <<241, 128, 128, 128>>,
     <<244, 143, 191, 191>>, <<244, 144, 128, 128>>}

Scalars1 ==
    {Null1, Bool(TRUE), Bool(FALSE)} \cup {I(n) : n \in Ints} \cup {U(n) : n \in UInts}
    \cup {Real(x) : x \in Reals} \cup {Str(s) : s \in Strings} \cup {Raw(s) : s \in RawStrings}

Lists ==
    {List(<<>>), Obj(<<>>), List(<<I(1), Null1>>), List(<<Null1>>), Arr(2 :> I(1)),
     List(<<List(<<>>), Obj(<<>>)>>), List(<<List(<<I(1)>>), I(1)>>),
     Obj(A :> I(1)), Obj(A :> I(2) @@ B :> I(1)), Obj(A :> Null1 @@ <<>> :> List(<<I(1)>>)),
     Obj(B :> Obj(A :> I(1))), Obj(ANulB :> I(1)), List(<<Str(<<97, 97, 97>>), I(1)>>),
     Obj(A :> List(<<I(1), Obj(<<>>)>>) @@ B :> Null1)}

\* A comment on the root, a child or a grandchild
Comments1 == {<<Line("c")>>, <<Block>>, <<[type |-> "/*\n*/", name |-> "c"]>>, <<Line(Trailing)>>}
Comments2 == {<<Line("c"), Block>>, <<Block, Line("d")>>, <<Line("c"), Line("d")>>}
Noting ==
    {[placement |-> q, comments |-> k] : q \in {"before", "sameLine"}, k \in Comments1}
    \cup {[placement |-> "before", comments |-> k] : k \in Comments2}
Noted1(v, n) == [v EXCEPT !.comments = n.placement :> n.comments @@ @]
Few == {I(1), List(<<>>), List(<<I(1), Bool(TRUE)>>), Obj(A :> I(1))}
Commented ==
    {Noted1(v, n) : v \in Few, n \in Noting \cup {[placement |-> "after", comments |-> k] : k \in Comments1}}
    \cup UNION {{List(<<Noted1(v, n), I(1)>>), List(<<I(1), Noted1(v, n)>>),
                 Obj(A :> Noted1(v, n) @@ B :> I(1)), Obj(A :> I(1) @@ B :> Noted1(v, n)),
                 List(<<Noted1(v, n), Noted1(I(1), m)>>)} :
                v \in Few, n \in Noting, m \in Noting}

\* All of some scalars, for their order
All(vs) == List(FoldSet(LAMBDA v, s : Append(s, v), <<>>, vs))
Ordering ==
    {All({v \in Scalars1 : v.type \in {"null", "bool", "int", "uint"}}),
     All({v \in Scalars1 : v.type = "real"}), All({v \in Scalars1 : v.type = "string"}),
     All({Null1, Bool(TRUE), I(1), U(1), Real(2), Str(A), Str(B), List(<<I(1)>>), List(<<I(2)>>),
          Arr(2 :> I(1)), List(<<I(1), I(2), I(1)>>), List(<<I(1), Real(2)>>), List(<<Str(B), I(1)>>),
          Obj(A :> I(1)), Obj(B :> I(1)), Obj(A :> Str(B)), Obj(A :> I(2) @@ B :> I(1)),
          Obj(A :> I(1) @@ B :> I(2)), Obj(A :> I(1) @@ ANulB :> I(1))})}

MCWritten ==
    {Obj(A :> v @@ B :> v) : v \in Scalars1} \cup {List(<<v, I(1)>>) : v \in Scalars1}
    \cup Lists \cup Commented \cup Ordering

-----------------------------------------------------------------------------
(* Calls *)

MCRoots ==
    {Null1, Obj(A :> List(<<I(1), Noted1(Null1, [placement |-> "before", comments |-> <<Block>>]), I(2)>>)),
     Arr(0 :> I(1) @@ 3 :> Obj(A :> I(1) @@ B :> I(2)))}
MCOthers == {I(3)}
MCPaths == {<<>>, <<Key(A)>>, <<Index(0)>>, <<Key(A), Index(1)>>, <<Index(3), Key(B)>>}
MCNames == {A, ANulB}
MCGiven == {Null1, I(1), Obj(ANulB :> I(1) @@ A :> I(2))}
MCNotes == {[placement |-> "before", comments |-> <<Line("c")>>],
            [placement |-> "sameLine", comments |-> <<Block>>]}
MCEmpty == <<>>
MCNegInfinity == -1000

-----------------------------------------------------------------------------
(* What the comments of the library say of its values and writers, and a     *)
(* document for each that shows otherwise                                    *)

Unindented == newStreamWriter(TRUE, FALSE, FALSE, FALSE)
Lost(c, v) == ~ReadBack(v, OurParse(Text(c, v), Reader(c)))

ASSUME DocumentedOtherwise ==
    \* A string is a "UTF-8 string value" (value.h:98): here U+40000.
    /\ \A c \in AllWriters : Lost(c, List(<<Raw(<<241, 128, 128, 128>>), I(1)>>))
    \* A name "may contain embedded nulls" (value.h:498, 502).
    /\ \A c \in {StyledWriter, StyledStreamWriter} : Lost(c, Obj(ANulB :> I(1)))
    \* Comments "are outputed according to their #CommentPlacement" (writer.h:212-213).
    /\ Lost(StyledWriter, List(<<I(1), With(I(1), "sameLine", <<Line(Trailing)>>)>>))
    \* The indentation may be "<anything>" (writer.h:96).
    /\ Lost(Unindented, With(I(1), "before", <<Line("c")>>))
=============================================================================
