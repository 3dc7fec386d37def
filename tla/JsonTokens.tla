----------------------------- MODULE JsonTokens -----------------------------
(***************************************************************************)
(* What the readers and writers of jsoncpp 1.8.4 share: texts as sequences *)
(* of tokens, and documents as functions on paths.                         *)
(*                                                                         *)
(* A token is what Reader::readToken delivers: its type, the name that a   *)
(* string or number decodes to, or Bad, and whether a new line is in front *)
(* of it.  Its characters are in JsonText.  A location is a number of      *)
(* tokens.  A token "end" is a NUL in the text; an "error" is one          *)
(* character that begins no token, and so are, for Reader, "'" and "I".    *)
(* OurReader takes some of them together with what stands right behind     *)
(* them.                                                                   *)
(***************************************************************************)
EXTENDS Integers, Sequences, SequencesExt, FiniteSets

CONSTANTS
    Bad,            \* the name of a string or number that does not decode
    Huge,           \* of a number like 1e999, which decodeDouble of Reader refuses
    Lone,           \* of a "-" without digits, which decodes to 0
    Empty,          \* the empty string
    NoValue         \* 0, of a Value*

Scalars == {"string", "number", "literal"}
Comments == {"/**/", "//", "/*\n*/"}     \* the last two have or follow a new line
Lines == {"//", "/*\n*/"}
ErrorTokens == {"error", "'", "I"}
Types == Scalars \cup Comments \cup ErrorTokens \cup {"{", "}", "[", "]", ",", ":", "end"}
End == [type |-> "end", name |-> Empty, nl |-> FALSE]

From(s, n) == SubSeq(s, n, Len(s))

\* containsNewLine: from location s up to the comment after location c
NewLineBetween(t, s, c) ==
    \/ \E n \in s + 1 .. c : t[n].type \in Lines
    \/ \E n \in s + 1 .. c + 1 : t[n].nl

-----------------------------------------------------------------------------
(* Values: a path names the members and indices below the root, and a      *)
(* document has per path the type, the name and the offsets of a value.    *)

Key(name) == [key |-> name]
Index(n) == [index |-> n]
IsIndex(k) == "index" \in DOMAIN k

Root == <<>>
Null == [type |-> "null", name |-> Empty, start |-> 0, limit |-> 0]
NewRoot == [r \in {Root} |-> Null]

Above(q, r) == Len(q) < Len(r) /\ IsPrefix(q, r)

\* Slip: only the type and the name change.
PayloadOnTop(d, q, k) == [d EXCEPT ![q].type = k.type, ![q].name = k.name]

\* swapPayload: what was below is destroyed.
Payload(d, q, k) ==
    [r \in {r \in DOMAIN d : ~Above(q, r)} |->
        IF r = q THEN [d[q] EXCEPT !.type = k.type, !.name = k.name] ELSE d[r]]
Started(d, q, s) == [d EXCEPT ![q].start = s]
Limited(d, q, l) == [d EXCEPT ![q].limit = l]

\* currentValue()[name]: a null member, if there is none
Member(d, q) == [r \in DOMAIN d \cup {q} |-> IF r \in DOMAIN d THEN d[r] ELSE Null]

\* setComment: a comment replaces the one that is there.
Noted(N, q, placement, c) ==
    {n \in N : n.on # q \/ n.placement # placement}
    \cup {[on |-> q, placement |-> placement, comments |-> c]}

\* The comments of values that are left
Kept(N, d) == {n \in N : n.on \in DOMAIN d}

\* The payloads that are not tokens
Container(type) == [type |-> type, name |-> Empty]
NullLiteral == [type |-> "literal", name |-> "null"]
=============================================================================
