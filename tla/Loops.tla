-------------------------------- MODULE Loops --------------------------------
(***************************************************************************)
(* What a loop over a list pushes: the lists its passes push, one after    *)
(* the other.  The body of a loop is a function.                           *)
(***************************************************************************)
EXTENDS Integers, Sequences, SequencesExt

For(s, body) ==
    LET done[n \in 0 .. Len(s)] ==
            IF n = 0 THEN <<>> ELSE done[n - 1] \o body[s[n]]
    IN  done[Len(s)]

\* Two loops, the second in the first.  Where the body is not defined, an if
\* refuses the pair.
Nested(a, b, body) ==
    LET pass(o) == IF o \in DOMAIN body THEN body[o] ELSE <<>>
    IN  For(a, [x \in ToSet(a) |-> For(b, [y \in ToSet(b) |-> pass(<<x, y>>)])])

Nested3(a, b, c, body) ==
    LET pass(o) == IF o \in DOMAIN body THEN body[o] ELSE <<>>
    IN  For(a, [x \in ToSet(a) |->
            Nested(b, c, [o \in ToSet(b) \X ToSet(c) |-> pass(<<x, o[1], o[2]>>)])])
=============================================================================
