---------------------------- MODULE MCJsonReader ----------------------------
(* Small instances of JsonReaders for TLC. *)
EXTENDS JsonReaders

T(type) == [type |-> type, name |-> "", nl |-> FALSE]
Nl(type) == [type |-> type, name |-> "", nl |-> TRUE]
Str(name) == [type |-> "string", name |-> name, nl |-> FALSE]
Num(name) == [type |-> "number", name |-> name, nl |-> FALSE]
A == Str("a")
One == Num("1")

Alphabet ==
    {T(type) : type \in {"{", "}", "[", "]", ",", ":", "error", "end", "literal"} \cup Comments}
    \cup {Nl("/**/"), A, Str("b"), Str(""), Str(Bad), One, Num(Bad), Num(Huge), Num(Lone)}

\* What OurReader reads as one token
Odd == {<<T("'"), T(k)>> : k \in {"{", "]", ",", "//"}}
       \cup {<<T("'")>>, <<Num(Lone), T("I")>>, <<Num(Lone), T("error")>>}

\* All texts of up to three tokens of an alphabet without variants
Few == {T(type) : type \in {"{", "}", "[", "]", ",", "/**/", "error"}} \cup {A, One}
Short == UNION {[1 .. n -> Few] : n \in 0 .. 3}

\* Texts of the language: members, nesting, comments at every place they can be
Object1(v) == <<T("{"), A, T(":")>> \o v \o <<T("}")>>
Object2(v, n, w) == <<T("{"), A, T(":")>> \o v \o <<T(","), n, T(":")>> \o w \o <<T("}")>>
Array1(v) == <<T("[")>> \o v \o <<T("]")>>
Array2(v, w) == <<T("[")>> \o v \o <<T(",")>> \o w \o <<T("]")>>
Atoms == {<<One>>, <<T("{"), T("}")>>, <<T("["), T("]")>>}
Long ==
    LET inner == Atoms \cup {Array1(<<One>>), Object1(<<One>>)} IN
    {Array2(v, <<One>>) : v \in inner} \cup {Array1(Array1(Array1(<<One>>)))}
    \cup {Object2(v, n, <<One>>) : v \in inner, n \in {A, Str("")}}
    \cup {Array1(Object1(v)) : v \in Atoms} \cup {Object1(Array2(<<One>>, v)) : v \in Atoms}

\* One token more, one less, another one, or two comments
Put(t, n, s) == SubSeq(t, 1, n) \o s \o From(t, n + 1)
Insert(t, n, k) == Put(t, n, <<k>>)
Edited(t) ==
    {Insert(t, n, k) : n \in 0 .. Len(t), k \in Alphabet}
    \cup {SubSeq(t, 1, n - 1) \o From(t, n + 1) : n \in DOMAIN t}
    \cup {[t EXCEPT ![n] = k] : n \in DOMAIN t, k \in Alphabet}
Commented(t) ==
    {Insert(Insert(t, n, T(k)), m, T("/**/")) : n, m \in 1 .. Len(t), k \in Comments}

MCNames == {"a", "b", "1", "", Bad, Huge, Lone}
MCTexts ==
    Short \cup Long \cup UNION {Edited(t) \cup Commented(t) : t \in Long}
    \cup UNION {{Put(t, n, s) : n \in 0 .. Len(t), s \in Odd} : t \in Long \cup Atoms}
MCAgain == {<<One>>, <<T("["), One, T("error")>>, Array1(Array1(Array1(<<One>>))),
            Object1(Array2(<<One>>, <<T("["), T("]")>>))}

Features(c, s, d, n) ==
    [allowComments |-> c, collectComments |-> c, strictRoot |-> s,
     allowDroppedNullPlaceholders |-> d, allowNumericKeys |-> n]
MCAllFeatures == {Features(TRUE, FALSE, FALSE, FALSE), Features(FALSE, TRUE, FALSE, FALSE),
                  Features(TRUE, FALSE, TRUE, TRUE)}

-----------------------------------------------------------------------------
(* What the comments of the library say of its readers, and the texts of the *)
(* runs that show otherwise                                                  *)

All == Features(TRUE, FALSE, FALSE, FALSE)
Strict == Features(FALSE, TRUE, FALSE, FALSE)
Our(t) == OurParse(t, strictMode(stackLimit_g))

\* "Comments are forbidden" in strictMode, which is "strictly compatible with the
\* JSON specification" (features.h:31-33).
Lenient == {<<T("{"), T("/**/"), T("}")>>, <<T("["), Num(Lone), T("]")>>,
            <<T("{"), Str(""), T(":"), One, T(","), T("}")>>,
            <<T("{"), A, T(":"), One, T("/**/"), T("["), Str("b"), T(":"), One, T("}")>>}

\* "C & C++ comments are allowed" (features.h:25).
Refused == <<T("["), T("/**/"), T("]")>>

\* With failIfExtra, parse fails "when extra non-whitespace trails the JSON value"
\* (reader.h:325-326).
Trailed == <<T("["), One, T("]"), T("end"), One>>

\* OurReader is an "exact copy of Reader" (json_reader.cpp:919): it reads a number
\* out of the range of double, and takes an apostrophe for the start of a comment.
Uncopied == {<<Num(Huge)>>, <<T("["), One, T("'"), T("//"), T("]")>>}

ASSUME DocumentedOtherwise ==
    /\ \A t \in Lenient : InLanguage(t, Strict) /\ Our(t).ok /\ ~IsJson(t)
    /\ ~InLanguage(Refused, All) /\ IsJson(Bare(Refused))
    /\ Our(Trailed).ok
    /\ \A t \in Uncopied : OurParse(t, Settings(All)).ok /\ ~InLanguage(t, All)
=============================================================================
