---------------------------- MODULE JsonReaders ----------------------------
(***************************************************************************)
(* The reader of JsonReader beside the two things it is to agree with: the *)
(* language it is meant to accept, and OurReader.                          *)
(***************************************************************************)
EXTENDS JsonReader, OurReader

-----------------------------------------------------------------------------
(* The settings of newCharReader that correspond to Features *)

Settings(f) ==
    [allowComments |-> f.allowComments, collectComments |-> f.collectComments,
     strictRoot |-> f.strictRoot,
     allowDroppedNullPlaceholders |-> f.allowDroppedNullPlaceholders,
     allowNumericKeys |-> f.allowNumericKeys, stackLimit |-> stackLimit_g,
     failIfExtra |-> FALSE, rejectDupKeys |-> FALSE]

-----------------------------------------------------------------------------
(* JSON, and what in a text is beyond it *)

RECURSIVE IsJson(_), AreElements(_), AreMembers(_)

IsJson(s) ==
    LET inner == SubSeq(s, 2, Len(s) - 1) IN
    \/ Len(s) = 1 /\ s[1].type \in Scalars /\ s[1].name \notin {Bad, Lone}
    \/ /\ Len(s) > 1 /\ s[1].type = "[" /\ Last(s).type = "]"
       /\ inner = <<>> \/ AreElements(inner)
    \/ /\ Len(s) > 1 /\ s[1].type = "{" /\ Last(s).type = "}"
       /\ inner = <<>> \/ AreMembers(inner)

AreElements(s) ==
    \E k \in DOMAIN s :
        /\ IsJson(SubSeq(s, 1, k))
        /\ k = Len(s) \/ (s[k + 1].type = "," /\ AreElements(From(s, k + 2)))

AreMembers(s) ==
    /\ Len(s) > 2 /\ s[1].type = "string" /\ s[1].name # Bad /\ s[2].type = ":"
    /\ \E k \in 3 .. Len(s) :
          /\ IsJson(SubSeq(s, 3, k))
          /\ k = Len(s) \/ (s[k + 1].type = "," /\ AreMembers(From(s, k + 2)))

IsContainer(s) == s # <<>> /\ s[1].type \in {"[", "{"}

\* The text begins with a value.
JsonInFront(t) == \E k \in DOMAIN t : IsJson(SubSeq(t, 1, k))

Bare(t) == SelectSeq(t, LAMBDA k : k.type \notin Comments)
HasComment(t) == \E n \in DOMAIN t : t[n].type \in Comments
HasHuge(t) == \E n \in DOMAIN t : t[n].name = Huge

\* No name is empty, and no "-" is a number.
Usual(t) == \A n \in DOMAIN t : (t[n].type = "string" => t[n].name # Empty) /\ t[n].name # Lone

\* After a value and a comment there is no token in the place of a comma.
CommasKept(t) ==
    \A m, n \in DOMAIN t :
        /\ m + 1 < n /\ t[m].type \in Scalars \cup {"}", "]"}
        /\ \A k \in m + 1 .. n - 1 : t[k].type \in Comments
        => t[n].type \in Comments \cup {",", "}", "]"}

-----------------------------------------------------------------------------
(* What the readers accept, with each thing that is beyond JSON *)

RECURSIVE WithoutComments(_)
WithoutComments(s) ==
    IF s # <<>> /\ Head(s).type \in Comments THEN WithoutComments(Tail(s)) ELSE s

Trim(s, f) == IF f.allowComments THEN WithoutComments(s) ELSE s
Named(k) == k.type = "string" /\ k.name # Bad

\* In containers comments are read whether they are allowed or not, ...
Gap(s) == WithoutComments(s)

\* ... after the name "" and a comma an object may end, ...
EndsAfterComma(rest, last) == rest = <<>> /\ last = Empty

\* ... after a comment any token but the end of the object does for a comma, and ...
AnyComma(rest) ==
    /\ rest # <<>> /\ rest[1].type \in Comments
    /\ Gap(rest) # <<>> /\ Gap(rest)[1].type # "}"

\* ... with placeholders, a root may be dropped too.
DroppedRoot(first, f) ==
    /\ f.allowDroppedNullPlaceholders /\ ~f.strictRoot
    /\ first # <<>> /\ first[1].type \in {",", "}", "]"}

RECURSIVE IsValue(_, _), IsElements(_, _), IsMembers(_, _, _)

\* A value, after comments
IsValue(s, f) ==
    LET t == Trim(s, f)  inner == SubSeq(t, 2, Len(t) - 1) IN
    \/ Len(t) = 1 /\ t[1].type \in Scalars /\ t[1].name \notin {Bad, Huge}
    \/ /\ Len(t) > 1 /\ t[1].type = "[" /\ Last(t).type = "]"
       /\ inner = <<>> \/ IsElements(inner, f)
    \/ Len(t) > 1 /\ t[1].type = "{" /\ Last(t).type = "}" /\ IsMembers(inner, f, Empty)

IsElements(s, f) ==
    LET goesOn(r) == r = <<>> \/ (r[1].type = "," /\ IsElements(Tail(r), f)) IN
    \/ f.allowDroppedNullPlaceholders /\ goesOn(Trim(s, f))
    \/ \E k \in DOMAIN s : IsValue(SubSeq(s, 1, k), f) /\ goesOn(Gap(From(s, k + 1)))

IsMembers(s, f, last) ==
    LET t == Gap(s)
        more(r) == IsMembers(r, f, t[1].name)
        goesOn(r) ==
            \/ r = <<>>
            \/ r[1].type = "," /\ more(Tail(r))
            \/ r[1].type \in Comments /\ Gap(r) = <<>>
            \/ AnyComma(r) /\ more(Tail(Gap(r)))
        dropped == Trim(From(t, 3), f)
    IN \/ EndsAfterComma(t, last)
       \/ /\ Len(t) >= 2 /\ Named(t[1]) /\ t[2].type = ":"
          /\ \/ \E k \in 3 .. Len(t) : IsValue(SubSeq(t, 3, k), f) /\ goesOn(From(t, k + 1))
             \/ /\ f.allowDroppedNullPlaceholders
                /\ dropped = <<>> \/ (dropped[1].type = "," /\ more(Tail(dropped)))

\* The value begins the text.  What follows it is not looked at.
InLanguage(t, f) ==
    \/ /\ \E k \in DOMAIN t : IsValue(SubSeq(t, 1, k), f)
       /\ f.strictRoot => IsContainer(Trim(t, f))
    \/ DroppedRoot(Trim(t, f), f)

-----------------------------------------------------------------------------
(* Properties *)

Returned == Parsed /\ pc = "done"
WithNulls == features_.allowDroppedNullPlaceholders

\* Every JSON text is read, and of texts without comments no others but those that
\* an empty name or a lone "-" is in ...
ReadsJson ==
    Returned /\ ~WithNulls /\ ~HasComment(text) /\ ~HasHuge(text) =>
        LET json == JsonInFront(text) /\ (features_.strictRoot => IsContainer(text)) IN
        (json => successful) /\ (successful /\ Usual(text) => json)

\* ... and what is read is JSON without its comments, if no comment was followed by
\* another token than a comma.
JsonBetweenComments ==
    Returned /\ ~WithNulls /\ successful /\ Usual(text) /\ CommasKept(text) =>
        JsonInFront(Bare(text)) /\ (features_.strictRoot => IsContainer(Bare(text)))

\* parse reads JSON, and accepts beyond it what is named above and nothing else,
\* however errors, recovery and comments interleave; it returns false if and only if
\* it reports an error (json_reader.cpp:126-170, 458-553, 747-767).
Verdict ==
    /\ Reported
    /\ ReadsJson /\ JsonBetweenComments
    /\ Returned => successful = InLanguage(text, features_)

Same(our) ==
    IF pc = "thrown" THEN our.thrown
    ELSE /\ ~our.thrown /\ our.ok = successful
         /\ our.doc = doc /\ our.errors = errors_ /\ our.notes = notes

\* Texts that OurReader takes apart as Reader does
SameTokens(t) ==
    /\ ~HasHuge(t)
    /\ \A n \in DOMAIN t : t[n].type # "'" /\ (n < Len(t) /\ t[n].name = Lone => t[n + 1].type # "I")

\* Of texts with the same tokens and numbers, the copy of the class behind
\* CharReaderBuilder gives the same verdict, values, offsets, errors and comments,
\* also where it throws; numbers as names, at which only Reader throws, are left out.
SameVerdict ==
    Parsed /\ ~features_.allowNumericKeys /\ SameTokens(text) =>
        Same(OurParse(text, Settings(features_)))

\* As many members as there are colons after names
Colons(t) == {n \in DOMAIN t : n > 1 /\ t[n].type = ":" /\ t[n - 1].type = "string"}
NamesDiffer(t) ==
    \E all \in {OurParse(t, [strictMode(stackLimit_g) EXCEPT !.rejectDupKeys = FALSE])} :
        Cardinality({q \in DOMAIN all.doc : q # Root /\ ~IsIndex(Last(q))})
            = Cardinality(Colons(t))

UpToNul(t) ==
    LET n == SelectInSeq(t, LAMBDA k : k.type = "end")
    IN IF n = 0 THEN t ELSE SubSeq(t, 1, n - 1)

\* With the settings of strictMode the copy reads a text to its end, or to a NUL, or
\* not at all, and none in which an object has a name twice.
StrictlyRead(t, our) ==
    our.thrown \/
        LET json(s) == IsJson(s) /\ IsContainer(s) /\ NamesDiffer(t) IN
        /\ ~HasComment(t) => (json(t) => our.ok) /\ (our.ok /\ Usual(t) => json(t))
        /\ our.ok /\ Usual(t) /\ CommasKept(t) => json(Bare(t))

StrictVerdict ==
    Parsed /\ Apostrophes(text) /\ (\A n \in DOMAIN text : text[n].type # "'") =>
        StrictlyRead(UpToNul(text), OurParse(text, strictMode(stackLimit_g)))

\* OurReader is Reader where their tokens are the same; its strictMode looks at all
\* of the text and at names given twice (json_reader.cpp:1066-1071, 1490-1493).
OurVerdict == SameVerdict /\ StrictVerdict

\* A call returns, by the end of the text if not before, also from nested
\* recoveries (recoverFromError, json_reader.cpp:755-767).
ReadsEnd == pc # "idle" ~> pc \in Ends
=============================================================================
