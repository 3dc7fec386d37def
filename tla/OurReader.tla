----------------------------- MODULE OurReader ------------------------------
(***************************************************************************)
(* Json::OurReader of jsoncpp 1.8.4 (lib_json/json_reader.cpp), "exact     *)
(* copy of Reader" with more settings, behind CharReaderBuilder.           *)
(*                                                                         *)
(* It is written as the recursion it is: its members are fields of a       *)
(* record st, and each operator gives the st its function leaves, with ok  *)
(* for what the function returns and thrown for an exception.              *)
(***************************************************************************)
EXTENDS JsonTokens

-----------------------------------------------------------------------------
(* OurReader: st = [current, doc, errors, last, lastEnd, before, notes, ok, thrown] *)

TokenAt(t, n) == IF n < Len(t) THEN t[n + 1] ELSE End

\* Two tokens of Reader are one here: without allowSingleQuotes an apostrophe falls
\* through to readComment, which takes one more character, and "-I" is -Infinity,
\* which is not allowed.
Taken2(t, st) ==
    LET k == TokenAt(t, st.current) IN
    /\ st.current + 2 <= Len(t)
    /\ k.type = "'" \/ (k.name = Lone /\ TokenAt(t, st.current + 1).type = "I")

OurToken(t, st) ==
    LET k == TokenAt(t, st.current) IN
    CASE Taken2(t, st) ->
            [k EXCEPT !.type = IF k.type = "'" /\ TokenAt(t, st.current + 1).type = "//"
                               THEN "//" ELSE "error"]
      [] ~Taken2(t, st) /\ k.type \in ErrorTokens -> [k EXCEPT !.type = "error"]
      [] OTHER -> k

\* What stands behind an apostrophe is one character or a comment up to the end of
\* a line.
Apostrophes(t) ==
    \A n \in DOMAIN t : t[n].type = "'" /\ n < Len(t) =>
        t[n + 1].type \in ErrorTokens \cup {"//", "{", "}", "[", "]", ",", ":", "end"}

\* readComment and addComment
OurComment(t, o, st) ==
    LET k == OurToken(t, st)
        onSameLine ==
            /\ st.last # NoValue /\ k.type # "/*\n*/"
            /\ ~NewLineBetween(t, st.lastEnd, st.current)
    IN IF k.type \notin Comments \/ ~o.collectComments THEN st
       ELSE IF onSameLine
       THEN [st EXCEPT !.notes = Noted(st.notes, st.last, "sameLine", <<st.current>>)]
       ELSE [st EXCEPT !.before = Append(@, st.current)]

\* readToken
OurNext(t, o, st) ==
    [OurComment(t, o, st) EXCEPT
        !.current = IF st.current < Len(t) THEN @ + (IF Taken2(t, st) THEN 2 ELSE 1) ELSE @]

RECURSIVE OurSkip(_, _, _)
OurSkip(t, o, st) ==
    IF OurToken(t, st).type \in Comments THEN OurSkip(t, o, OurNext(t, o, st)) ELSE st

skipCommentTokens(t, o, st) == IF o.allowComments THEN OurSkip(t, o, st) ELSE st

OurError(st, s, l) ==
    [st EXCEPT !.errors = Append(@, [start |-> s, limit |-> l]), !.ok = FALSE]

\* recoverFromError: up to the token sought or the end
RECURSIVE OurRecover(_, _, _, _)
OurRecover(t, o, st, sought) ==
    IF OurToken(t, st).type \in {sought, "end"} THEN [OurNext(t, o, st) EXCEPT !.ok = FALSE]
    ELSE OurRecover(t, o, OurNext(t, o, st), sought)

\* addErrorAndRecover, the token being the one between st and n
OurRefused(t, o, st, n, sought) ==
    OurRecover(t, o, OurError(n, st.current, n.current), sought)
OurRefuse(t, o, st, sought) == OurRefused(t, o, st, OurNext(t, o, st), sought)

OurPut(st, q, k) ==
    LET d == Payload(st.doc, q, k)
    IN [st EXCEPT !.doc = d, !.notes = Kept(@, d)]
OurStart(st, q, s) == [st EXCEPT !.doc = Started(@, q, s)]
OurLimit(st, q, l) == [st EXCEPT !.doc = Limited(@, q, l)]
OurRemember(o, st, q) ==
    IF o.collectComments THEN [st EXCEPT !.last = q, !.lastEnd = st.current] ELSE st
OurCollected(o, st, q) ==
    IF o.collectComments /\ st.before # <<>>
    THEN [st EXCEPT !.notes = Noted(st.notes, q, "before", st.before), !.before = <<>>]
    ELSE st

IsName(k, o) == k.type = "string" \/ (k.type = "number" /\ o.allowNumericKeys)

RECURSIVE OurValue(_, _, _, _), OurObject(_, _, _, _, _), OurArray(_, _, _, _, _)

\* readObject after the value of a member: a comma, or any token after a comment
OurNextMember(t, o, s, q, name) ==
    IF OurToken(t, s).type = "}" THEN [OurNext(t, o, s) EXCEPT !.ok = TRUE]
    ELSE OurObject(t, o, OurNext(t, o, s), q, name)

OurComma(t, o, value, q, name) ==
    CASE value.thrown -> value
      [] ~value.thrown /\ ~value.ok -> OurRecover(t, o, value, "}")
      [] OTHER -> IF OurToken(t, value).type \in {"}", ","} \cup Comments
                  THEN OurNextMember(t, o, OurSkip(t, o, value), q, name)
                  ELSE OurRefuse(t, o, value, "}")

\* ... after its name, which is between s and n
OurColon(t, o, s, n, q, name) ==
    IF OurToken(t, n).type # ":" THEN OurRefuse(t, o, n, "}")
    ELSE IF o.rejectDupKeys /\ Append(q, Key(name)) \in DOMAIN n.doc
    THEN OurRecover(t, o, OurError(OurNext(t, o, n), s.current, n.current), "}")
    ELSE OurComma(t, o, OurValue(t, o, [OurNext(t, o, n) EXCEPT
                                            !.doc = Member(@, Append(q, Key(name)))],
                                 Append(q, Key(name))), q, name)

OurName(t, o, s, k, q, name) ==
    CASE k.type = "}" /\ name = Empty -> [OurNext(t, o, s) EXCEPT !.ok = TRUE]
      [] IsName(k, o) /\ k.name # Bad -> OurColon(t, o, s, OurNext(t, o, s), q, k.name)
      [] OTHER -> OurRefuse(t, o, s, "}")

\* readObject's loop, name being the last one
OurObject(t, o, st, q, name) ==
    OurName(t, o, OurSkip(t, o, st), OurToken(t, OurSkip(t, o, st)), q, name)

\* readArray's loop, and in it after an element
OurSeparator(t, o, s, q, index) ==
    CASE OurToken(t, s).type = "]" -> [OurNext(t, o, s) EXCEPT !.ok = TRUE]
      [] OurToken(t, s).type = "," -> OurArray(t, o, OurNext(t, o, s), q, index + 1)
      [] OTHER -> OurRefuse(t, o, s, "]")

OurElement(t, o, value, q, index) ==
    CASE value.thrown -> value
      [] ~value.thrown /\ ~value.ok -> OurRecover(t, o, value, "]")
      [] OTHER -> OurSeparator(t, o, OurSkip(t, o, value), q, index)

OurArray(t, o, st, q, index) ==
    OurElement(t, o, OurValue(t, o, [st EXCEPT !.doc = Member(@, Append(q, Index(index)))],
                              Append(q, Index(index))), q, index)

OurArrayBegun(t, o, st, q) ==
    IF OurToken(t, st).type = "]" THEN [OurNext(t, o, st) EXCEPT !.ok = TRUE]
    ELSE OurArray(t, o, st, q, 0)

\* The end of readValue for a container
OurContainer(o, r, q) ==
    IF r.thrown THEN r ELSE OurRemember(o, OurLimit(r, q, r.current), q)

\* readValue after its comments: s is before and n after the token k.
OurRead(t, o, s, n, k, q) ==
    CASE k.type = "{" ->
            OurContainer(o, OurObject(t, o, OurStart(OurPut(n, q, Container("object")), q, s.current),
                                      q, Empty), q)
      [] k.type = "[" ->
            OurContainer(o, OurArrayBegun(t, o, OurStart(OurPut(n, q, Container("array")), q, s.current),
                                          q), q)
      [] k.type \in Scalars ->
            OurRemember(o, IF k.name = Bad THEN OurError(n, s.current, n.current)
                           ELSE [OurLimit(OurStart(OurPut(n, q, k), q, s.current),
                                          q, n.current) EXCEPT !.ok = TRUE], q)
      [] k.type \in {",", "}", "]"} /\ o.allowDroppedNullPlaceholders ->
            OurRemember(o, [OurLimit(OurStart(OurPut(s, q, NullLiteral), q, s.current - 1),
                                     q, s.current) EXCEPT !.ok = TRUE], q)
      [] OTHER -> OurError(OurLimit(OurStart(n, q, s.current), q, n.current),
                           s.current, n.current)

OurCollect(t, o, s, q) == OurRead(t, o, s, OurNext(t, o, s), OurToken(t, s), q)

OurValue(t, o, st, q) ==
    IF Len(q) + 1 > o.stackLimit THEN [st EXCEPT !.thrown = TRUE]
    ELSE OurCollect(t, o, OurCollected(o, skipCommentTokens(t, o, st), q), q)

\* The end of parse: the comments left go to the root, which must be a container.
OurAfter(o, s) ==
    IF o.collectComments /\ s.before # <<>>
    THEN [s EXCEPT !.notes = Noted(s.notes, Root, "after", s.before)] ELSE s

OurStrict(t, o, s) ==
    IF o.strictRoot /\ s.doc[Root].type \notin {"array", "object"}
    THEN OurError(s, 0, Len(t)) ELSE s

\* Slip: a comment at the end is not extra.
OurExtraComments(t, o, s) ==
    IF o.failIfExtra /\ OurToken(t, OurSkip(t, o, s)).type # "end"
    THEN OurError(OurNext(t, o, s), s.current, OurNext(t, o, s).current)
    ELSE OurStrict(t, o, OurAfter(o, OurNext(t, o, s)))

\* A token that is an error is extra only with strictRoot.
OurExtra(t, o, s) ==
    IF /\ o.failIfExtra /\ OurToken(t, s).type # "end"
       /\ o.strictRoot \/ OurToken(t, s).type # "error"
    THEN OurError(OurNext(t, o, s), s.current, OurNext(t, o, s).current)
    ELSE OurStrict(t, o, OurAfter(o, OurNext(t, o, s)))

OurFinish(t, o, read) ==
    IF read.thrown THEN read ELSE OurExtra(t, o, skipCommentTokens(t, o, read))

Clean ==
    [current |-> 0, doc |-> NewRoot, errors |-> <<>>, last |-> NoValue, lastEnd |-> 0,
     before |-> <<>>, notes |-> {}, ok |-> TRUE, thrown |-> FALSE]

\* parse
OurParse(t, o) == OurFinish(t, o, OurValue(t, o, Clean, Root))

-----------------------------------------------------------------------------
(* CharReaderBuilder *)

strictMode(stackLimit) ==
    [allowComments |-> FALSE, collectComments |-> FALSE, strictRoot |-> TRUE,
     allowDroppedNullPlaceholders |-> FALSE, allowNumericKeys |-> FALSE,
     stackLimit |-> stackLimit, failIfExtra |-> TRUE, rejectDupKeys |-> TRUE]

setDefaults(stackLimit) ==
    [allowComments |-> TRUE, collectComments |-> TRUE, strictRoot |-> FALSE,
     allowDroppedNullPlaceholders |-> FALSE, allowNumericKeys |-> FALSE,
     stackLimit |-> stackLimit, failIfExtra |-> FALSE, rejectDupKeys |-> FALSE]
=============================================================================
