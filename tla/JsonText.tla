------------------------------ MODULE JsonText ------------------------------
(***************************************************************************)
(* The characters of strings and numbers in jsoncpp 1.8.4: how json_writer *)
(* writes and json_reader reads them.  A string is a sequence of bytes, an *)
(* integer is as wide as the constants say, and a double is a number of    *)
(* halves, NaN or an infinity.                                             *)
(***************************************************************************)
EXTENDS JsonNumbers

Quote == 34
Backslash == 92
Point == 46
Minus == 45
Digit(d) == 48 + d
IsDigit(c) == c \in 48 .. 57

-----------------------------------------------------------------------------
(* UTF-8 *)

\* The lower six bits of cp without its last n times six bits, in a next byte
Next6(cp, n) == 128 + ((cp \div 64 ^ n) % 64)

codePointToUTF8(cp) ==
    CASE cp <= 127 -> <<cp>>
      [] cp \in 128 .. 2047 -> <<192 + (cp \div 64), Next6(cp, 0)>>
      [] cp \in 2048 .. 65535 -> <<224 + (cp \div 4096), Next6(cp, 1), Next6(cp, 0)>>
      [] cp \in 65536 .. 1114111 ->
            <<240 + (cp \div 262144), Next6(cp, 2), Next6(cp, 1), Next6(cp, 0)>>

REPLACEMENT == 65533
Codepoint(cp, n) == [cp |-> cp, length |-> n]

\* Slip: the bits of a second byte are not taken from the first.
utf8ToCodepointLoose(s) ==
    IF s[1] < 128 THEN Codepoint(s[1], 1)
    ELSE IF Len(s) < 2 THEN Codepoint(REPLACEMENT, 1)
    ELSE Codepoint((s[1] % 64) * 64 + (s[2] % 64), 2)

\* The code point s begins with.  A byte that cannot be the first of a sequence
\* counts as the first of two, and the bits of four bytes are put too high.
utf8ToCodepoint(s) ==
    LET first == s[1]
        bits(n) == s[n] % 64
        read(n, cp, least) ==
            IF Len(s) < n THEN Codepoint(REPLACEMENT, 1)
            ELSE Codepoint(IF cp < least \/ cp \in 55296 .. 57343 THEN REPLACEMENT ELSE cp, n)
    IN CASE first < 128 -> Codepoint(first, 1)
         [] first \in 128 .. 223 -> read(2, (first % 32) * 64 + bits(2), 128)
         [] first \in 224 .. 239 ->
                read(3, (first % 16) * 4096 + bits(2) * 64 + bits(3), 2048)
         [] first \in 240 .. 247 ->
                read(4, (first % 8) * 2 ^ 24 + bits(2) * 4096 + bits(3) * 64 + bits(4), 65536)
         [] OTHER -> Codepoint(REPLACEMENT, 1)

-----------------------------------------------------------------------------
(* Strings *)

HexDigit(d) == IF d < 10 THEN Digit(d) ELSE 87 + d
toHex16Bit(x) == [n \in 1 .. 4 |-> HexDigit((x \div 16 ^ (4 - n)) % 16)]
Escape(x) == <<Backslash, 117>> \o toHex16Bit(x)

\* \b \f \n \r \t and the characters that stand for themselves
Short == 8 :> 98 @@ 12 :> 102 @@ 10 :> 110 @@ 13 :> 114 @@ 9 :> 116
         @@ Quote :> Quote @@ Backslash :> Backslash

EscapedCodepoint(cp) ==
    CASE cp \in 32 .. 127 -> <<cp>>
      [] cp < 32 \/ cp \in 128 .. 65535 -> Escape(cp)
      [] OTHER -> Escape(((cp - 65536) \div 1024) + 55296) \o Escape(((cp - 65536) % 1024) + 56320)

RECURSIVE Escaped(_)
Escaped(s) ==
    IF s = <<>> THEN <<>>
    ELSE IF s[1] \in DOMAIN Short THEN <<Backslash, Short[s[1]]>> \o Escaped(Tail(s))
    ELSE LET u == utf8ToCodepoint(s)
         IN EscapedCodepoint(u.cp) \o Escaped(From(s, u.length + 1))

\* With signed characters, every string but the empty one needs quoting.
valueToQuotedStringN(s) == <<Quote>> \o Escaped(s) \o <<Quote>>

\* The length of the string that t begins with, or 0 if it does not end
RECURSIVE StringEnd(_, _)
StringEnd(t, n) ==
    CASE n > Len(t) -> 0
      [] n <= Len(t) /\ t[n] = Quote -> n
      [] OTHER -> StringEnd(t, IF t[n] = Backslash THEN n + 2 ELSE n + 1)
readString(t) == StringEnd(t, 2)

HexValue(c) ==
    CASE IsDigit(c) -> c - 48 [] c \in 97 .. 102 -> c - 87 [] c \in 65 .. 70 -> c - 55

decodeUnicodeEscapeSequence(s) ==
    IF Len(s) < 4 \/ \E n \in 1 .. 4 : ~IsDigit(s[n]) /\ s[n] \notin 97 .. 102 \cup 65 .. 70
    THEN Bad
    ELSE FoldLeft(LAMBDA x, c : 16 * x + HexValue(c), 0, SubSeq(s, 1, 4))

\* The second half of a pair may be any code.
decodeUnicodeCodePoint(s) ==
    LET unicode == decodeUnicodeEscapeSequence(s)
        pair == decodeUnicodeEscapeSequence(From(s, 7))
    IN CASE unicode = Bad -> Bad
         [] unicode # Bad /\ unicode \notin 55296 .. 56319 -> Codepoint(unicode, 4)
         [] OTHER -> IF Len(s) < 10 \/ s[5] # Backslash \/ s[6] # 117 \/ pair = Bad THEN Bad
                     ELSE Codepoint(65536 + (unicode % 1024) * 1024 + (pair % 1024), 10)

Join(s, r) == IF r = Bad THEN Bad ELSE s \o r
Long(c) == CHOOSE l \in DOMAIN Short : Short[l] = c

RECURSIVE Unescaped(_)
Unescaped(s) ==
    CASE s = <<>> -> <<>>
      [] s # <<>> /\ s[1] = Quote -> <<>>
      [] s # <<>> /\ s[1] = Backslash ->
            IF Len(s) = 1 THEN Bad
            ELSE IF s[2] \in Range(Short) THEN Join(<<Long(s[2])>>, Unescaped(From(s, 3)))
            ELSE IF s[2] = 47 THEN Join(<<47>>, Unescaped(From(s, 3)))
            ELSE IF s[2] # 117 THEN Bad
            ELSE LET u == decodeUnicodeCodePoint(From(s, 3)) IN
                 IF u = Bad THEN Bad
                 ELSE Join(codePointToUTF8(u.cp), Unescaped(From(s, 3 + u.length)))
      [] OTHER -> Join(<<s[1]>>, Unescaped(Tail(s)))

\* t with its quotes
decodeString(t) == Unescaped(SubSeq(t, 2, Len(t) - 1))

-----------------------------------------------------------------------------
(* Numbers *)

RECURSIVE uintToString(_)
uintToString(n) ==
    (IF n < 10 THEN <<>> ELSE uintToString(n \div 10)) \o <<Digit(n % 10)>>

valueToString(n) == IF n < 0 THEN <<Minus>> \o uintToString(-n) ELSE uintToString(n)

\* %.17g, and .0 after a number without a point; "1e+9999" of an infinity
doubleToString(x) ==
    CASE x = Infinity -> <<49, 101>>
      [] x = NegInfinity -> <<Minus, 49, 101>>
      [] OTHER -> (IF x < 0 THEN <<Minus>> ELSE <<>>)
                  \o uintToString((IF x < 0 THEN -x ELSE x) \div 2)
                  \o <<Point, Digit(IF x % 2 = 0 THEN 0 ELSE 5)>>

RECURSIVE DigitsValue(_)
DigitsValue(t) == IF t = <<>> THEN 0 ELSE 10 * DigitsValue(Front(t)) + Last(t) - 48

\* sscanf; of what follows the point only halves are ever written
decodeDouble(t) ==
    LET negative == t[1] = Minus
        s == IF negative THEN Tail(t) ELSE t
        p == SelectInSeq(s, LAMBDA c : c = Point)
        halves == 2 * DigitsValue(SubSeq(s, 1, p - 1)) + (IF s[p + 1] = Digit(5) THEN 1 ELSE 0)
    IN CASE 101 \in Range(s) -> RealValue(IF negative THEN NegInfinity ELSE Infinity)
         [] 101 \notin Range(s) /\ p > 0 -> RealValue(IF negative THEN -halves ELSE halves)
         [] OTHER -> RealValue(IF negative THEN -2 * DigitsValue(s) ELSE 2 * DigitsValue(s))

\* Whether one more digit leaves value an integer
Fits(value, last, digit, most) ==
    value < most \div 10 \/ (value = most \div 10 /\ last /\ digit <= most % 10)

RECURSIVE decodeInteger(_, _, _)
decodeInteger(s, value, most) ==
    IF s = <<>> THEN value
    ELSE IF IsDigit(s[1]) /\ Fits(value, Len(s) = 1, s[1] - 48, most)
    THEN decodeInteger(Tail(s), 10 * value + s[1] - 48, most)
    ELSE Bad

\* What is no integer, or too large for one, is a double.
decodeNumber(t) ==
    LET negative == t[1] = Minus
        value == decodeInteger(IF negative THEN Tail(t) ELSE t, 0,
                               IF negative THEN maxLargestInt + 1 ELSE maxLargestUInt)
    IN CASE value = Bad -> decodeDouble(t)
         [] value # Bad /\ negative -> IntValue(-value)
         [] OTHER -> IF value <= maxInt THEN IntValue(value) ELSE UIntValue(value)
=============================================================================
