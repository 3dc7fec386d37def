----------------------------- MODULE JsonValues -----------------------------
(***************************************************************************)
(* The values of JsonValue beside what is to agree with them: their order, *)
(* their conversions, and what OurReader makes of what is written.         *)
(***************************************************************************)
EXTENDS JsonValue, OurReader

-----------------------------------------------------------------------------
(* compare *)

Rank(type) ==
    SelectInSeq(<<"null", "int", "uint", "real", "string", "bool", "array", "object">>,
                LAMBDA t : t = type)

RealLess(x, y) == x # NaN /\ y # NaN /\ x < y

\* What std::map goes through: keys and values
Entries(v) == Sorted(Present(v), LAMBDA a, b : IF IsArray(v) THEN a < b ELSE Before(a, b))

KeyLess(v, a, b) == IF IsArray(v) THEN a < b ELSE Before(a, b)

RECURSIVE LessThan(_, _), Equal(_, _)

\* Slip: only the values are compared.
MapLessValues(v, w) ==
    LET a == Entries(v)  b == Entries(w) IN
    \E n \in DOMAIN a :
        /\ LessThan(v.m[a[n]], w.m[b[n]])
        /\ \A k \in 1 .. n - 1 : ~LessThan(w.m[b[k]], v.m[a[k]])

PairLess(v, a, w, b) ==
    KeyLess(v, a, b) \/ (~KeyLess(v, b, a) /\ LessThan(v.m[a], w.m[b]))

\* std::lexicographical_compare of two maps of the same size
MapLess(v, w) ==
    LET a == Entries(v)  b == Entries(w) IN
    \E n \in DOMAIN a :
        /\ PairLess(v, a[n], w, b[n])
        /\ \A k \in 1 .. n - 1 : ~PairLess(w, b[k], v, a[k])

LessThan(v, w) ==
    IF v.type # w.type THEN Rank(v.type) < Rank(w.type)
    ELSE CASE v.type = "null" -> FALSE
           [] v.type \in {"int", "uint"} -> v.n < w.n
           [] v.type = "real" -> RealLess(v.x, w.x)
           [] v.type = "bool" -> ~v.b /\ w.b
           [] v.type = "string" -> Before(v.s, w.s)
           [] IsContainer(v) ->
                LET delta == Cardinality(Present(v)) - Cardinality(Present(w))
                IN delta < 0 \/ (delta = 0 /\ MapLess(v, w))

Equal(v, w) ==
    /\ v.type = w.type
    /\ CASE v.type = "null" -> TRUE
         [] v.type \in {"int", "uint"} -> v.n = w.n
         [] v.type = "real" -> v.x # NaN /\ w.x # NaN /\ v.x = w.x
         [] v.type = "bool" -> v.b = w.b
         [] v.type = "string" -> v.s = w.s
         [] IsContainer(v) -> /\ Present(v) = Present(w)
                              /\ \A k \in Present(v) : Equal(v.m[k], w.m[k])

-----------------------------------------------------------------------------
(* Conversions to strings; those to numbers are in JsonNumbers *)

\* true, false and NaN have their names.
asString(v) ==
    CASE v.type = "null" -> Number(<<>>)
      [] v.type = "string" -> Number(v.s)
      [] v.type = "bool" \/ (v.type = "real" /\ v.x = NaN) -> Number(Literal(v, <<>>)[1].name)
      [] isNumeric(v) /\ (v.type = "real" => v.x # NaN) -> Number(Literal(v, <<>>)[1].name)
      [] OTHER -> NotConvertible

-----------------------------------------------------------------------------
(* Pieces as the tokens a reader takes them for *)

\* After //, everything up to a new line belongs to the comment.
RECURSIVE Lex(_, _)
Lex(ps, nl) ==
    IF ps = <<>> THEN <<>>
    ELSE IF ps[1] = NewLine THEN Lex(Tail(ps), TRUE)
    ELSE IF ps[1] = Blank THEN Lex(Tail(ps), nl)
    ELSE IF ps[1].type = "//"
    THEN LET n == SelectInSeq(ps, LAMBDA p : p = NewLine)
             line == IF n = 0 THEN ps ELSE SubSeq(ps, 1, n - 1)
             swallowed == \E k \in 2 .. Len(line) : line[k] # Blank
         IN <<[type |-> "//", name |-> IF swallowed THEN Bad ELSE ps[1].name, nl |-> nl]>>
            \o (IF n = 0 THEN <<>> ELSE Lex(From(ps, n + 1), FALSE))
    ELSE <<[type |-> ps[1].type, nl |-> nl,
            name |-> IF ps[1].type # "string" THEN ps[1].name
                     ELSE IF readString(ps[1].name) # Len(ps[1].name) THEN Bad
                     ELSE decodeString(ps[1].name)]>>
         \o Lex(Tail(ps), FALSE)

Text(c, v) == Lex(write(c, v), FALSE)

-----------------------------------------------------------------------------
(* What a value is for someone who reads it *)

RECURSIVE PathsOf(_)
PathsOf(v) ==
    {<<>>} \cup UNION {{<<IF IsArray(v) THEN Index(k) ELSE Key(k)>> \o p : p \in PathsOf(Const(v, k))} :
                        k \in Range(Keys(v))}

Parts(v) == {resolve(v, p) : p \in PathsOf(v)}

Nexts(s, n) == \A k \in 2 .. n : s[k] \in 128 .. 191

\* UTF-8
RECURSIVE WellFormed(_)
WellFormed(s) ==
    \/ s = <<>>
    \/ /\ Len(s) >= 1 /\ s[1] \in 0 .. 127 /\ WellFormed(Tail(s))
    \/ /\ Len(s) >= 2 /\ s[1] \in 194 .. 223 /\ Nexts(s, 2)
       /\ WellFormed(From(s, 3))
    \/ /\ Len(s) >= 3 /\ Nexts(s, 3) /\ WellFormed(From(s, 4))
       /\ \/ s[1] \in 225 .. 236 \cup {238, 239}
          \/ s[1] = 224 /\ s[2] >= 160
          \/ s[1] = 237 /\ s[2] < 160
    \/ /\ Len(s) >= 4 /\ Nexts(s, 4) /\ WellFormed(From(s, 5))
       /\ \/ s[1] = 240 /\ s[2] >= 144
          \/ s[1] \in 241 .. 243
          \/ s[1] = 244 /\ s[2] < 144

\* The strings and names in a value
NamesOf(v) == UNION {Present(p) : p \in {p \in Parts(v) : IsObject(p)}}
StringsOf(v) == NamesOf(v) \cup {p.s : p \in {p \in Parts(v) : p.type = "string"}}

\* A number may be read as int that was written as uint, and the other way round.
Same(v, item) ==
    CASE v.type = "null" \/ (v.type = "real" /\ v.x = NaN) ->
            item.type = "literal" /\ item.name = "null"
      [] v.type \in {"int", "uint"} ->
            /\ item.type = "number"
            /\ decodeNumber(item.name).type \in {"int", "uint"}
            /\ decodeNumber(item.name).n = v.n
      [] v.type = "real" /\ v.x # NaN ->
            item.type = "number" /\ decodeNumber(item.name) = RealValue(v.x)
      [] v.type = "bool" -> item.type = "literal" /\ item.name = IF v.b THEN "true" ELSE "false"
      [] v.type = "string" -> item.type = "string" /\ item.name = v.s
      [] IsContainer(v) -> item.type = v.type

ReadBack(v, r) ==
    /\ r.ok /\ ~r.thrown /\ r.errors = <<>>
    /\ DOMAIN r.doc = PathsOf(v)
    /\ \A p \in DOMAIN r.doc : Same(resolve(v, p), r.doc[p])

Named(k) == [type |-> k.type, name |-> k.name]

\* The comments of the text t that r notes for the value at p
NotesAt(t, r, p) ==
    {[placement |-> n.placement,
      comments |-> [k \in DOMAIN n.comments |-> Named(t[n.comments[k] + 1])]] :
        n \in {n \in r.notes : n.on = p}}
CommentsAt(v) ==
    {[placement |-> q, comments |-> [k \in DOMAIN v.comments[q] |-> Named(v.comments[q][k])]] :
        q \in DOMAIN v.comments}

-----------------------------------------------------------------------------
(* Properties *)

AllWriters ==
    {FastWriter(FALSE), FastWriter(TRUE), StyledWriter, StyledStreamWriter,
     newStreamWriter(TRUE, TRUE, FALSE, FALSE), newStreamWriter(TRUE, FALSE, FALSE, FALSE),
     newStreamWriter(FALSE, TRUE, TRUE, FALSE), newStreamWriter(FALSE, FALSE, FALSE, TRUE)}

Reader(c) == [setDefaults(9) EXCEPT !.allowDroppedNullPlaceholders = (c.null = <<>>)]

CommentsOf(v) == UNION {UNION {Range(p.comments[q]) : q \in DOMAIN p.comments} : p \in Parts(v)}

Utf8(v) == \A s \in StringsOf(v) : WellFormed(s)

\* What each writer is known not to write so that it can be read: code points from
\* U+40000 on, whose upper bits utf8ToCodepoint shifts too far;
BitsInPlace(v) == \A s \in StringsOf(v) : \A n \in DOMAIN s : s[n] < 241

\* names with a NUL, which end there;
NamesWhole(c, v) ==
    c.class \in {"StyledWriter", "StyledStreamWriter"} =>
        \A name \in NamesOf(v) : 0 \notin Range(name)

\* comments of a line that ends with a blank, after which it takes the next one to
\* be indented;
BlanksTold(c, v) == c.class = "StyledWriter" => \A k \in CommentsOf(v) : k.name # Trailing

\* comments of a line, if no lines are written;
LinesEnd(c, v) ==
    c.class = "BuiltStyledStreamWriter" /\ c.comments /\ ~c.indentation =>
        \A k \in CommentsOf(v) : k.type # "//"

\* and a null that is dropped and leaves nothing or [].
NullsTold(c, v) ==
    c.null = <<>> =>
        /\ v.type # "null"
        /\ \A p \in Parts(v) : ~(IsArray(p) /\ size(p) = 1 /\ Const(p, 0).type = "null")

Legible(c, v) ==
    Utf8(v) /\ BitsInPlace(v) /\ NamesWhole(c, v) /\ BlanksTold(c, v) /\ LinesEnd(c, v)
    /\ NullsTold(c, v)

ReadsBackWith(c) == ReadBack(root, OurParse(Text(c, root), Reader(c)))

\* compare is a total order of the values of each type, of the types, and of the
\* containers, those with gaps included, and == is its equality
\* (json_value.cpp:566-664).  NaN is not in any order.
Ordered ==
    LET ps == {v \in Parts(root) \cup Parts(other) :
                  \A p \in Parts(v) : p.type = "real" => p.x # NaN}
    IN \A v, w \in ps :
          /\ Cardinality({r \in {"<", ">", "=="} :
                            CASE r = "<" -> LessThan(v, w)
                              [] r = ">" -> LessThan(w, v)
                              [] r = "==" -> Equal(v, w)}) = 1
          /\ \A u \in ps : LessThan(v, w) /\ LessThan(w, u) => LessThan(v, u)

\* Converts, of every value there is (json_value.cpp:686-932, 1306-1406).
Conversions ==
    \A v \in Parts(root) :
        Converts(v) /\ (asString(v).ok <=> isConvertibleTo(v, "string"))

\* A document sent by one side is the document the other one gets: what a writer
\* writes (json_writer.cpp) of strings in UTF-8 can be read and gives the same
\* values, but for what Legible says of that writer.
ReadsBack == \A c \in AllWriters : Legible(c, root) => ReadsBackWith(c)

\* Comments where a reader puts them
Placed(v) ==
    \A p \in PathsOf(v) :
        LET comments == resolve(v, p).comments IN
        /\ "after" \in DOMAIN comments => p = Root
        /\ "sameLine" \in DOMAIN comments =>
              Len(comments["sameLine"]) = 1 /\ comments["sameLine"][1].type # "/*\n*/"

\* And with the writers that indent streams, the same comments at the same values
\* (json_writer.cpp:801-828, 1088-1120; json_reader.cpp:349-401).
CommentsReadBack ==
    \A c \in {StyledStreamWriter, newStreamWriter(TRUE, TRUE, FALSE, FALSE)} :
        Legible(c, root) /\ Placed(root) =>
            LET t == Text(c, root)
                r == OurParse(t, Reader(c))
            IN \A p \in PathsOf(root) : NotesAt(t, r, p) = CommentsAt(resolve(root, p))

\* Equal, with the comments
RECURSIVE Alike(_, _)
Alike(v, w) ==
    /\ v.type = w.type /\ v.comments = w.comments
    /\ IF IsContainer(v)
       THEN Present(v) = Present(w) /\ \A k \in Present(v) : Alike(v.m[k], w.m[k])
       ELSE v = w

AllAlike(s, t) == DOMAIN s = DOMAIN t /\ \A k \in DOMAIN s : Alike(s[k], t[k])

Elements(v) == [n \in 1 .. size(v) |-> Const(v, n - 1)]
Padded(s, n) == [k \in 1 .. n |-> IF k \in DOMAIN s THEN s[k] ELSE Absent]
Removed(at, new, name) ==
    \A p \in PathsOf(at) \ {Root} :
        Alike(resolve(new, p), IF p[1] = Key(name) THEN Absent ELSE resolve(at, p))
BeforeNul(name) == SubSeq(name, 1, Min({n \in 1 .. Len(name) + 1 : n > Len(name) \/ name[n] = 0}) - 1)
Apart(p, q) == ~IsPrefix(p, q) /\ ~IsPrefix(q, p)

\* What a call returns and leaves at its path.  An array is a sequence, with
\* nulls where nothing is in the map; removeIndex may make it shorter by more
\* than one, when only gaps are in front of the last element, and so may resize,
\* which throws exactly then, against value.h:411-415.  removeMember(key) removes what
\* its name up to a NUL names, against value.h:526 (json_value.cpp:967-1226).
Effect(at, new) ==
    CASE call'.op = "append" /\ call'.ok -> AllAlike(Front(Elements(new)), Elements(at))
      [] call'.op = "clear" /\ call'.ok -> size(new) = 0
      [] call'.op = "resize" /\ Accepts(at, Index(0)) ->
            /\ AllAlike(Padded(Elements(new), call'.key), Padded(Elements(at), call'.key))
            /\ call'.ok <=> size(new) = call'.key
      [] call'.op = "removeIndex" /\ call'.ok ->
            /\ Alike(other', Elements(at)[call'.key + 1])
            /\ size(new) < size(at)
            /\ AllAlike(Padded(Elements(new), size(at) - 1),
                        RemoveAt(Elements(at), call'.key + 1))
      [] call'.op = "removeMemberInto" /\ call'.ok ->
            Alike(other', Const(at, call'.key)) /\ Removed(at, new, call'.key)
      [] call'.op = "removeMember" /\ call'.ok -> Removed(at, new, BeforeNul(call'.key))
      [] call'.op = "swapPayload" -> Equal(new, other) /\ Equal(other', at)
      [] OTHER -> TRUE

\* And it changes no value that is neither above nor below that path, whatever
\* operator[] put in on its way there (json_value.cpp:1001-1072, 1642-1659).
CallEffects ==
    [][/\ Effect(Node(call'.path), resolve(root', call'.path))
       /\ \A p \in PathsOf(root) : Apart(p, call'.path) =>
                Alike(resolve(root', p), resolve(root, p))]_vars
=============================================================================
