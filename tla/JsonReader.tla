----------------------------- MODULE JsonReader -----------------------------
(***************************************************************************)
(* Json::Reader of jsoncpp 1.8.4 (lib_json/json_reader.cpp), by which      *)
(* FBNative reads the messages of the game client and its own tables:      *)
(* calls of parse, each with a new root, and of pushError between them.    *)
(*                                                                         *)
(* The recursion of readValue, readObject and readArray is the stack       *)
(* `frames'; a Value* is a path from the root.                             *)
(***************************************************************************)
EXTENDS JsonTokens

CONSTANTS
    Names,          \* what strings and numbers decode to, with Bad and Empty
    Texts,
    Again,          \* the texts of which a Reader reads two
    AllFeatures,    \* records of collectComments and the members of Features
    stackLimit_g

Tokens == [type : Types, name : Names, nl : BOOLEAN]

ASSUME StackAssumption == stackLimit_g \in Nat \ {0}
ASSUME TextsAssumption ==
    /\ Empty \in Names
    /\ \A t \in Texts \cup Again : t \in Seq(Tokens)
    /\ AllFeatures \subseteq [allowComments : BOOLEAN, collectComments : BOOLEAN,
                             strictRoot : BOOLEAN, allowNumericKeys : BOOLEAN,
                             allowDroppedNullPlaceholders : BOOLEAN]

VARIABLES
    text, features_,
    calls,          \* history: calls of parse and of pushError
    current_,
    frames,         \* readObject and readArray: [kind, name]
    pc,             \* the token waited for
    successful,     \* what the calls return
    doc,            \* per path [type, start, limit]
    errors_,        \* [start, limit]
    lastValue_, lastValueEnd_,
    commentsBefore_,  \* locations of comments
    notes           \* comments set: [on, placement, comments]

given == <<text, features_, calls>>
comments == <<lastValue_, lastValueEnd_, commentsBefore_, notes>>
vars == <<given, current_, frames, pc, successful, doc, errors_, comments>>

Pcs == {"idle", "value", "name", "colon", "comma", "commented", "separator", "recover",
        "extra", "done", "thrown"}

-----------------------------------------------------------------------------
(* readToken *)

\* At the end of the text getNextChar stays where it is.
Token(n) == IF n < Len(text) THEN text[n + 1] ELSE End
token == Token(current_)
end == IF current_ < Len(text) THEN current_ + 1 ELSE current_

Is(type) == token.type = type

\* decodeString and decodeNumber fail.
Undecoded == token.name \in {Bad, Huge}
IsComment == token.type \in Comments

-----------------------------------------------------------------------------
(* nodes_ *)

Object(name) == [kind |-> "object", name |-> Key(name)]
Array(n) == [kind |-> "array", name |-> Index(n)]

Path(fs) == [n \in DOMAIN fs |-> fs[n].name]
Node == Path(frames)
Nodes == Len(frames) + 1

-----------------------------------------------------------------------------
(* readComment and addComment *)

OnSameLine ==
    /\ lastValue_ # NoValue /\ token.type # "/*\n*/"
    /\ ~NewLineBetween(text, lastValueEnd_, current_)

addComment ==
    IF ~features_.collectComments THEN UNCHANGED comments
    ELSE IF OnSameLine
    THEN /\ notes' = Noted(notes, lastValue_, "sameLine", <<current_>>)
         /\ UNCHANGED <<lastValue_, lastValueEnd_, commentsBefore_>>
    ELSE /\ commentsBefore_' = Append(commentsBefore_, current_)
         /\ UNCHANGED <<lastValue_, lastValueEnd_, notes>>

\* skipCommentTokens looks at allowComments; the loops over names, commas and
\* separators and recoverFromError do not.
Skips ==
    IF pc \in {"value", "extra"} THEN features_.allowComments
    ELSE pc \in {"name", "comma", "commented", "separator", "recover"}

\* readValue is called with one node more than there are frames.
Exceeded == pc = "value" /\ Nodes > stackLimit_g

ReadComment ==
    /\ IsComment /\ Skips /\ ~Exceeded
    /\ addComment
    /\ current_' = end
    /\ pc' = IF pc = "comma" THEN "commented" ELSE pc
    /\ UNCHANGED <<given, frames, successful, doc, errors_>>

-----------------------------------------------------------------------------
(* Returning *)

Throw == pc' = "thrown" /\ UNCHANGED <<given, frames, successful, doc, errors_, comments>>

\* What readValue, called for the node of fs, returns to
Return(fs, ok) ==
    /\ frames' = fs
    /\ pc' = CASE fs = <<>> -> "extra"
               [] fs # <<>> /\ ~ok -> "recover"
               [] fs # <<>> /\ ok -> IF Last(fs).kind = "object" THEN "comma" ELSE "separator"

addError(s, l) == errors_' = Append(errors_, [start |-> s, limit |-> l])

\* Slip: containers are not remembered.
RememberScalars(q) ==
    IF features_.collectComments /\ pc = "value"
    THEN lastValue_' = q /\ lastValueEnd_' = current_'
    ELSE UNCHANGED <<lastValue_, lastValueEnd_>>

\* The last lines of readValue
Remember(q) ==
    IF features_.collectComments
    THEN lastValue_' = q /\ lastValueEnd_' = current_'
    ELSE UNCHANGED <<lastValue_, lastValueEnd_>>

\* readObject or readArray returns to the readValue that called it.
Leave(ok) ==
    LET fs == Front(frames)  own == Path(fs) IN
    /\ current_' = end
    /\ Return(fs, ok)
    /\ doc' = Limited(doc, own, end)
    /\ Remember(own)
    /\ UNCHANGED <<given, commentsBefore_, notes>>

-----------------------------------------------------------------------------
(* readValue *)

Value == pc = "value" /\ ~(IsComment /\ Skips) /\ ~Exceeded

\* The comments collected go to the value, which gets the payload d.
Collected(d) ==
    IF features_.collectComments /\ commentsBefore_ # <<>>
    THEN /\ notes' = Kept(Noted(notes, Node, "before", commentsBefore_), d)
         /\ commentsBefore_' = <<>>
    ELSE notes' = Kept(notes, d) /\ UNCHANGED commentsBefore_

StackExceeded == Exceeded /\ Throw /\ UNCHANGED current_

BeginObject ==
    /\ Value /\ Is("{")
    /\ current_' = end
    /\ frames' = Append(frames, Object(Empty))
    /\ pc' = "name"
    /\ doc' = Started(Payload(doc, Node, Container("object")), Node, current_)
    /\ Collected(doc')
    /\ UNCHANGED <<given, successful, errors_, lastValue_, lastValueEnd_>>

\* readArray looks for the end of an empty array and calls readValue for the
\* first element otherwise.
BeginArray ==
    /\ Value /\ Is("[")
    /\ LET begun == Started(Payload(doc, Node, Container("array")), Node, current_) IN
       IF Token(end).type = "]"
       THEN /\ current_' = end + 1
            /\ Return(frames, TRUE)
            /\ doc' = Limited(begun, Node, end + 1)
            /\ Remember(Node)
       ELSE /\ current_' = end
            /\ frames' = Append(frames, Array(0))
            /\ doc' = Member(begun, Append(Node, Index(0)))
            /\ pc' = "value"
            /\ UNCHANGED <<lastValue_, lastValueEnd_>>
    /\ Collected(doc')
    /\ UNCHANGED <<given, successful, errors_>>

\* decodeString, decodeNumber, true, false and null
ReadScalar ==
    /\ Value /\ token.type \in Scalars
    /\ current_' = end
    /\ IF Undecoded
       THEN addError(current_, end) /\ doc' = doc /\ successful' = FALSE
       ELSE /\ doc' = Limited(Started(Payload(doc, Node, token), Node, current_), Node, end)
            /\ UNCHANGED <<successful, errors_>>
    /\ Collected(doc')
    /\ Remember(Node)
    /\ Return(frames, ~Undecoded)
    /\ UNCHANGED given

\* Slip: what is un-read goes back to the end of the last value.
DropNullBack ==
    /\ Value /\ token.type \in {",", "}", "]"} /\ features_.allowDroppedNullPlaceholders
    /\ doc' = Limited(Started(Payload(doc, Node, NullLiteral), Node, current_ - 1), Node, current_)
    /\ Collected(doc')
    /\ current_' = lastValueEnd_
    /\ Remember(Node)
    /\ Return(frames, TRUE)
    /\ UNCHANGED <<given, successful, errors_>>

\* allowDroppedNullPlaceholders: the token is read once more.
DropNull ==
    /\ Value /\ token.type \in {",", "}", "]"} /\ features_.allowDroppedNullPlaceholders
    /\ doc' = Limited(Started(Payload(doc, Node, NullLiteral), Node, current_ - 1), Node, current_)
    /\ Collected(doc')
    /\ current_' = current_
    /\ Remember(Node)
    /\ Return(frames, TRUE)
    /\ UNCHANGED <<given, successful, errors_>>

NoValueThere ==
    /\ Value /\ token.type \notin Scalars \cup {"{", "["}
    /\ token.type \in {",", "}", "]"} => ~features_.allowDroppedNullPlaceholders
    /\ current_' = end
    /\ doc' = Limited(Started(doc, Node, current_), Node, end)
    /\ Collected(doc')
    /\ addError(current_, end)
    /\ successful' = FALSE
    /\ Return(frames, FALSE)
    /\ UNCHANGED <<given, lastValue_, lastValueEnd_>>

-----------------------------------------------------------------------------
(* readObject and readArray *)

Top == Last(frames)
Waits(where) == pc = where /\ ~(IsComment /\ Skips)

\* Slip: the error is forgotten.
RefuseSilently ==
    /\ current_' = end
    /\ pc' = "recover"
    /\ successful' = FALSE
    /\ UNCHANGED <<given, frames, doc, errors_, comments>>

\* addErrorAndRecover
Refuse ==
    /\ current_' = end
    /\ pc' = "recover"
    /\ addError(current_, end) /\ successful' = FALSE
    /\ IF IsComment THEN addComment ELSE UNCHANGED comments
    /\ UNCHANGED <<given, frames, doc>>

\* The object ends before a name, if the last name was the empty string.
EndObjectEarly ==
    /\ Waits("name") /\ Is("}") /\ Top.name = Key(Empty)
    /\ Leave(TRUE)
    /\ UNCHANGED <<successful, errors_>>

ReadName ==
    /\ Waits("name") /\ Is("string") /\ ~Undecoded
    /\ current_' = end
    /\ frames' = Append(Front(frames), Object(token.name))
    /\ pc' = "colon"
    /\ UNCHANGED <<given, successful, doc, errors_, comments>>

\* asCString of a number throws.
ReadNumericName ==
    /\ Waits("name") /\ Is("number") /\ ~Undecoded /\ features_.allowNumericKeys
    /\ current_' = end
    /\ Throw

NoName ==
    /\ Waits("name")
    /\ Is("}") => Top.name # Key(Empty)
    /\ Is("string") => Undecoded
    /\ Is("number") => Undecoded \/ ~features_.allowNumericKeys
    /\ Refuse

ReadColon ==
    /\ Waits("colon") /\ Is(":")
    /\ current_' = end
    /\ doc' = Member(doc, Node)
    /\ pc' = "value"
    /\ UNCHANGED <<given, frames, successful, errors_, comments>>

NoColon == Waits("colon") /\ ~Is(":") /\ Refuse

ReadComma ==
    /\ Waits("comma") /\ Is(",")
    /\ current_' = end
    /\ pc' = "name"
    /\ UNCHANGED <<given, frames, successful, doc, errors_, comments>>

\* After a comment, any token but the end of the object does for a comma.
ReadAnyComma ==
    /\ Waits("commented") /\ ~Is("}")
    /\ current_' = end
    /\ pc' = "name"
    /\ UNCHANGED <<given, frames, successful, doc, errors_, comments>>

NoComma == Waits("comma") /\ token.type \notin {"}", ","} /\ Refuse

EndObject ==
    /\ Waits("comma") \/ Waits("commented")
    /\ Is("}")
    /\ Leave(TRUE)
    /\ UNCHANGED <<successful, errors_>>

ReadSeparator ==
    /\ Waits("separator") /\ Is(",")
    /\ current_' = end
    /\ frames' = Append(Front(frames), Array(Top.name.index + 1))
    /\ doc' = Member(doc, Path(frames'))
    /\ pc' = "value"
    /\ UNCHANGED <<given, successful, errors_, comments>>

NoSeparator == Waits("separator") /\ token.type \notin {"]", ","} /\ Refuse

EndArray ==
    /\ Waits("separator") /\ Is("]")
    /\ Leave(TRUE)
    /\ UNCHANGED <<successful, errors_>>

-----------------------------------------------------------------------------
(* recoverFromError *)

Sought == IF Top.kind = "object" THEN "}" ELSE "]"

Skip ==
    /\ Waits("recover") /\ token.type \notin {Sought, "end"}
    /\ current_' = end
    /\ UNCHANGED <<given, frames, pc, successful, doc, errors_, comments>>

\* Slip: the end of the text is not looked for.
RecoveredLate ==
    /\ Waits("recover") /\ Is(Sought)
    /\ Leave(FALSE)
    /\ UNCHANGED <<successful, errors_>>

Recovered ==
    /\ Waits("recover") /\ token.type \in {Sought, "end"}
    /\ Leave(FALSE)
    /\ UNCHANGED <<successful, errors_>>

-----------------------------------------------------------------------------
(* parse and pushError *)

Ends == {"done", "thrown"}

Init ==
    /\ text \in Texts /\ features_ \in AllFeatures
    /\ calls = <<>>
    /\ pc = "idle"
    /\ current_ = 0 /\ frames = <<>> /\ successful = TRUE
    /\ doc = NewRoot /\ errors_ = <<>>
    /\ lastValue_ = NoValue /\ lastValueEnd_ = 0 /\ commentsBefore_ = <<>> /\ notes = {}

Begin(t) ==
    /\ text' = t
    /\ calls' = Append(calls, "parse")
    /\ pc' = "value"
    /\ current_' = 0 /\ frames' = <<>> /\ successful' = TRUE
    /\ doc' = NewRoot /\ notes' = {}
    /\ lastValue_' = NoValue /\ lastValueEnd_' = 0 /\ commentsBefore_' = <<>>
    /\ UNCHANGED features_

Called ==
    \/ pc = "idle"
    \/ pc \in Ends /\ calls = <<"parse">> /\ text \in Again

\* Slip: errors_ is not cleared.
ParseOn ==
    /\ Called
    /\ \E t \in IF pc = "idle" THEN {text} ELSE Again : Begin(t)
    /\ UNCHANGED errors_

\* nodes_ is emptied, which an exception does not do.
Parse ==
    /\ Called
    /\ \E t \in IF pc = "idle" THEN {text} ELSE Again : Begin(t)
    /\ errors_' = <<>>

\* Without strictRoot the token after the value is not looked at.
Finish ==
    /\ Waits("extra")
    /\ current_' = end
    /\ pc' = "done"
    /\ notes' = IF features_.collectComments /\ commentsBefore_ # <<>>
                THEN Noted(notes, Root, "after", commentsBefore_) ELSE notes
    /\ IF features_.strictRoot /\ doc[Root].type \notin {"array", "object"}
       THEN addError(0, Len(text)) /\ successful' = FALSE
       ELSE UNCHANGED <<successful, errors_>>
    /\ UNCHANGED <<given, frames, doc, lastValue_, lastValueEnd_, commentsBefore_>>

\* pushError(value, message) counts the limit from the end of the text.
PushError ==
    /\ pc = "done" /\ calls = <<"parse">> /\ text \in Again
    /\ \E q \in DOMAIN doc :
          /\ doc[q].start <= Len(text) /\ doc[q].limit <= Len(text)
          /\ addError(doc[q].start, Len(text) + doc[q].limit)
    /\ calls' = Append(calls, "pushError")
    /\ UNCHANGED <<text, features_, current_, frames, pc, successful, doc, comments>>

\* pushError(value, message, extra)
PushErrorExtra ==
    /\ pc = "done" /\ calls = <<"parse">> /\ text \in Again
    /\ \E q \in DOMAIN doc :
          /\ doc[q].start <= Len(text) /\ doc[q].limit <= Len(text)
          /\ addError(doc[q].start, doc[q].limit)
    /\ calls' = Append(calls, "pushErrorExtra")
    /\ UNCHANGED <<text, features_, current_, frames, pc, successful, doc, comments>>

Step ==
    \/ ReadComment \/ StackExceeded
    \/ BeginObject \/ BeginArray \/ ReadScalar \/ DropNull \/ NoValueThere
    \/ EndObjectEarly \/ ReadName \/ ReadNumericName \/ NoName
    \/ ReadColon \/ NoColon \/ ReadComma \/ ReadAnyComma \/ NoComma \/ EndObject
    \/ ReadSeparator \/ NoSeparator \/ EndArray
    \/ Skip \/ Recovered \/ Finish

Next == Parse \/ Step \/ PushError \/ PushErrorExtra

Spec == Init /\ [][Next]_vars

\* One thread runs the call until it returns.
FairSpec == Spec /\ WF_vars(Step)

-----------------------------------------------------------------------------
(* Properties *)

Parsed == pc \in Ends /\ Last(calls) = "parse"
Read == Parsed /\ pc = "done" /\ successful
Paths == DOMAIN doc

\* The recursion is as deep as the containers that are open and never deeper
\* than stackLimit_g; and the values that there are form a tree, in which those
\* with members are objects and those with elements arrays.
TypeOK ==
    /\ pc \in Pcs /\ current_ \in 0 .. Len(text)
    /\ Len(frames) <= stackLimit_g
    /\ \A n \in DOMAIN frames : frames[n].kind \in {"object", "array"}
    /\ pc \in {"name", "colon", "comma", "commented", "separator", "recover"} => frames # <<>>
    /\ Root \in Paths
    /\ \A q \in Paths : q # Root =>
          /\ Front(q) \in Paths
          /\ doc[Front(q)].type = IF IsIndex(Last(q)) THEN "array" ELSE "object"
    /\ pc = "value" => Node \in Paths

\* parse reports an error if and only if it fails (good()), and more than one only
\* for a root that is not allowed (json_reader.cpp:158-168, 747-767).
Reported ==
    Parsed /\ pc = "done" =>
        /\ successful <=> errors_ = <<>>
        /\ Len(errors_) <= IF features_.strictRoot THEN 2 ELSE 1

Apart(q, r) == doc[q].limit <= doc[r].start \/ doc[r].limit <= doc[q].start
Once == \A m, n \in DOMAIN text :
    m # n /\ text[m].type = "string" /\ text[n].type = "string" => text[m].name # text[n].name

\* lastValue_ is never left pointing at a value that was destroyed.
LastValueLives == lastValue_ # NoValue => lastValue_ \in Paths

\* The offsets of a value lie within those of its container and apart from those
\* of its neighbours.
OffsetsNest ==
    \A q, r \in Paths : q # r =>
        IF Above(q, r) THEN doc[q].start < doc[r].start /\ doc[r].limit < doc[q].limit
        ELSE Above(r, q) \/ Apart(q, r)

\* A comment is set to the value it follows, or the first that follows it.
CommentsBeside ==
    \A n \in notes : \A c \in ToSet(n.comments) :
        CASE n.placement = "sameLine" ->
                /\ doc[n.on].limit <= c
                /\ \A q \in Paths : doc[q].limit > c \/ doc[q].limit <= doc[n.on].limit
          [] n.placement = "before" ->
                /\ c < doc[n.on].start
                /\ \A q \in Paths : doc[q].start < c \/ doc[q].start >= doc[n.on].start
          [] n.placement = "after" -> \A q \in Paths \ {Root} : doc[q].start < c

\* lastValue_ lives, and in a text that was read, without placeholders for null, the
\* offsets nest; if it has no name twice, the comments are where they belong
\* (json_reader.cpp:186-189, 248-256, 373-385).
Located ==
    /\ LastValueLives
    /\ Read /\ ~features_.allowDroppedNullPlaceholders => OffsetsNest
    /\ Read /\ Once /\ ~features_.allowDroppedNullPlaceholders => CommentsBeside

\* How far a call is from its return, where it reads no token
Rank == 5 * Len(frames) + CASE pc = "value" -> 4
                            [] pc = "commented" -> 3
                            [] pc \in {"name", "colon", "comma", "separator"} -> 2
                            [] pc \in {"recover", "extra"} -> 1
                            [] OTHER -> 0

\* A call goes through the tokens in their order and never back: a step that takes
\* none, as at the end of the text, where getNextChar stays, or for a dropped null,
\* whose token is read once more, leads nearer to the return (json_reader.cpp:195-208,
\* 762-773, 784-788).
Advances == [][Step => current_' > current_ \/ (current_' = current_ /\ Rank' < Rank)]_vars
=============================================================================
