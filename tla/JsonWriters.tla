---------------------------- MODULE JsonWriters -----------------------------
(***************************************************************************)
(* The four writers of jsoncpp 1.8.4 (lib_json/json_writer.cpp).           *)
(*                                                                         *)
(* A value is a record: its type, its comments per placement, and n, x, b  *)
(* or s for a scalar, or m, a function on the indices or names that are in *)
(* the map, for a container.  A text is a sequence of pieces: tokens,      *)
(* comments, blanks and new lines.  The layout is kept as far as a reader  *)
(* sees it: the indentation is a blank, or nothing at the margin.          *)
(***************************************************************************)
EXTENDS JsonText

CONSTANTS
    rightMargin_,   \* 74 columns
    Trailing        \* the name of a comment that ends with a blank

-----------------------------------------------------------------------------
(* Values *)

Absent == [type |-> "null", comments |-> <<>>]      \* nullSingleton()

\* The size of an array is its highest index + 1, of an object its members.
size(v) ==
    CASE IsArray(v) -> IF Present(v) = {} THEN 0 ELSE Max(Present(v)) + 1
      [] IsObject(v) -> Cardinality(Present(v))
      [] OTHER -> 0

\* operator[] const
Const(v, k) == IF IsContainer(v) /\ k \in Present(v) THEN v.m[k] ELSE Absent

\* CZString::operator<, of indices, or of strings byte by byte
Before(a, b) ==
    \/ Len(a) < Len(b) /\ IsPrefix(a, b)
    \/ \E n \in DOMAIN a \cap DOMAIN b :
          a[n] < b[n] /\ SubSeq(a, 1, n - 1) = SubSeq(b, 1, n - 1)

\* A set in its order, as a std::map goes through it
Sorted(S, Less(_, _)) ==
    [n \in 1 .. Cardinality(S) |-> CHOOSE k \in S : Cardinality({j \in S : Less(j, k)}) = n - 1]

getMemberNames(v) == Sorted(Present(v), Before)

\* What a writer goes through: the keys, an array without gaps
Keys(v) == IF IsArray(v) THEN [n \in 1 .. size(v) |-> n - 1] ELSE getMemberNames(v)

hasComment(v, placement) == placement \in DOMAIN v.comments
HasComments(v) == DOMAIN v.comments # {}

-----------------------------------------------------------------------------
(* Pieces *)

Piece(type) == [type |-> type, name |-> Empty]
P(types) == [n \in DOMAIN types |-> Piece(types[n])]
NewLine == Piece("\n")
Blank == Piece(" ")

UpToNul(s) == IF 0 \in Range(s) THEN SubSeq(s, 1, SelectInSeq(s, LAMBDA c : c = 0) - 1) ELSE s

QuotedPiece(s) == [type |-> "string", name |-> valueToQuotedStringN(s)]

NullSymbol == <<NullLiteral>>

\* A scalar or an empty container as text
Literal(v, null) ==
    CASE v.type = "null" -> null
      [] v.type = "int" -> <<[type |-> "number", name |-> valueToString(v.n)]>>
      [] v.type = "uint" -> <<[type |-> "number", name |-> uintToString(v.n)]>>
      [] v.type = "real" -> IF v.x = NaN THEN NullSymbol
                            ELSE <<[type |-> "number", name |-> doubleToString(v.x)]>>
      [] v.type = "bool" -> <<[type |-> "literal", name |-> IF v.b THEN "true" ELSE "false"]>>
      [] v.type = "string" -> <<QuotedPiece(v.s)>>
      [] v.type = "array" -> P(<<"[", "]">>)
      [] v.type = "object" -> P(<<"{", "}">>)

\* The characters of it: of null, true and false 4 or 5
Length(p) ==
    CASE p.type = "literal" -> IF p.name = "false" THEN 5 ELSE 4
      [] p.type \in {"number", "string"} -> Len(p.name)
      [] OTHER -> 1
LengthOf(ps) == FoldLeft(LAMBDA n, p : n + Length(p), 0, ps)

-----------------------------------------------------------------------------
(* FastWriter *)

RECURSIVE FastValue(_, _), FastMembers(_, _, _)

FastMembers(v, keys, dropNull) ==
    IF keys = <<>> THEN <<>>
    ELSE (IF IsObject(v) THEN <<QuotedPiece(keys[1]), Piece(":")>> ELSE <<>>)
         \o FastValue(Const(v, keys[1]), dropNull)
         \o (IF Len(keys) > 1 THEN P(<<",">>) ELSE <<>>)
         \o FastMembers(v, Tail(keys), dropNull)

FastValue(v, dropNull) ==
    IF IsContainer(v)
    THEN P(<<IF IsArray(v) THEN "[" ELSE "{">>) \o FastMembers(v, Keys(v), dropNull)
         \o P(<<IF IsArray(v) THEN "]" ELSE "}">>)
    ELSE Literal(v, IF dropNull THEN <<>> ELSE NullSymbol)

FastWrite(root, dropNull) == FastValue(root, dropNull) \o <<NewLine>>

-----------------------------------------------------------------------------
(* StyledWriter, StyledStreamWriter and BuiltStyledStreamWriter differ in  *)
(* where they start a line, write comments and cut names.  c says which it *)
(* is and how it was built, w = [out, depth, indented] is its state.       *)

IndentString(w) == IF w.depth = 0 THEN <<>> ELSE <<Blank>>
Put(w, ps) == [w EXCEPT !.out = @ \o ps]
Indented(w, b) == [w EXCEPT !.indented = b]

EndsWithBlank(p) == p.type = " " \/ (p.type = "//" /\ p.name = Trailing)

\* StyledWriter looks at the last character it has written.
StyledIndent(w) ==
    CASE w.out = <<>> -> Put(w, IndentString(w))
      [] w.out # <<>> /\ EndsWithBlank(Last(w.out)) -> w
      [] OTHER -> Put(w, (IF Last(w.out) = NewLine THEN <<>> ELSE <<NewLine>>) \o IndentString(w))

StreamIndent(w) == Put(w, <<NewLine>> \o IndentString(w))

\* Without indentation there are no new lines either.
BuiltIndent(c, w) == IF c.indentation THEN Put(w, <<NewLine>> \o IndentString(w)) ELSE w

writeIndent(c, w) ==
    CASE c.class = "StyledWriter" -> StyledIndent(w)
      [] c.class = "StyledStreamWriter" -> StreamIndent(w)
      [] c.class = "BuiltStyledStreamWriter" -> BuiltIndent(c, w)

\* Only StyledWriter does not remember that it is indented.
IndentIfNot(c, w) == IF c.class # "StyledWriter" /\ w.indented THEN w ELSE writeIndent(c, w)

writeWithIndent(c, w, ps) == Indented(Put(IndentIfNot(c, w), ps), FALSE)

\* The comments of a value: the new line at the end is not kept.
RECURSIVE CommentPieces(_, _)
CommentPieces(items, indent) ==
    IF Len(items) <= 1 THEN items
    ELSE <<items[1]>> \o (IF items[1].type = "//" THEN <<NewLine>> \o indent ELSE <<>>)
         \o CommentPieces(Tail(items), indent)

StyledCommentBefore(w, v) ==
    LET begun == StyledIndent(Put(w, <<NewLine>>)) IN
    Put(begun, CommentPieces(v.comments["before"], IndentString(w)) \o <<NewLine>>)

StreamCommentBefore(c, w, v) ==
    Indented(Put(IndentIfNot(c, w), CommentPieces(v.comments["before"], IndentString(w))), FALSE)

writeCommentBeforeValue(c, w, v) ==
    CASE ~c.comments \/ ~hasComment(v, "before") -> w
      [] c.comments /\ hasComment(v, "before") /\ c.class = "StyledWriter" ->
            StyledCommentBefore(w, v)
      [] OTHER -> StreamCommentBefore(c, w, v)

SameLine(w, v) ==
    IF hasComment(v, "sameLine")
    THEN Put(w, <<Blank>> \o CommentPieces(v.comments["sameLine"], <<>>)) ELSE w

\* BuiltStyledStreamWriter does not touch indented_.
writeCommentAfterValueOnSameLine(c, w, v) ==
    LET s == SameLine(w, v)
        after == CommentPieces(v.comments["after"], <<>>)
        noted ==
            CASE ~hasComment(v, "after") -> s
              [] hasComment(v, "after") /\ c.class = "StyledWriter" ->
                    Put(s, <<NewLine>> \o after \o <<NewLine>>)
              [] OTHER -> Put(writeIndent(c, s), after)
    IN CASE ~c.comments -> w
         [] c.comments /\ c.class = "StyledStreamWriter" -> Indented(noted, FALSE)
         [] OTHER -> noted

\* Slip: the comment is written before the comma.
CommaLate(c, w, v, last) ==
    LET noted == writeCommentAfterValueOnSameLine(c, w, v)
    IN IF last THEN noted ELSE Put(noted, P(<<",">>))

Comma(c, w, v, last) ==
    writeCommentAfterValueOnSameLine(c, IF last THEN w ELSE Put(w, P(<<",">>)), v)

\* With comments BuiltStyledStreamWriter writes every array on several lines.
isMultilineArray(c, v) ==
    LET children == [n \in 1 .. size(v) |-> Const(v, n - 1)]
        text(n) == Literal(children[n], c.null)
        lineLength == FoldLeft(LAMBDA l, n : l + LengthOf(text(n)), 4 + (size(v) - 1) * 2,
                               [n \in DOMAIN children |-> n])
    IN \/ c.class = "BuiltStyledStreamWriter" /\ c.comments
       \/ size(v) * 3 >= rightMargin_
       \/ \E n \in DOMAIN children : size(children[n]) > 0 \/ HasComments(children[n])
       \/ lineLength >= rightMargin_

\* Slip: the name is written to its first NUL by every writer.
NameCut(c, name) == UpToNul(name)

\* valueToQuotedString(name.c_str()), or all of it
Name(c, name) == IF c.class = "BuiltStyledStreamWriter" THEN name ELSE UpToNul(name)

RECURSIVE writeValue(_, _, _), writeMembers(_, _, _, _)

\* The loops of writeValue and writeArrayValue over the children.  An array that
\* was measured before has its children as text, which comes to the same.
writeMembers(c, w, v, keys) ==
    IF keys = <<>> THEN w
    ELSE LET child == Const(v, keys[1])
             noted == writeCommentBeforeValue(c, w, child)
             begun == IF IsObject(v)
                      THEN Put(writeWithIndent(c, noted, <<QuotedPiece(Name(c, keys[1]))>>), c.colon)
                      ELSE Indented(IndentIfNot(c, noted), TRUE)
             written == writeValue(c, begun, child)
             value == IF IsArray(v) THEN Indented(written, FALSE) ELSE written
         IN writeMembers(c, Comma(c, value, child, Len(keys) = 1), v, Tail(keys))

\* writeArrayValue on a single line
writeLine(c, w, v) ==
    Put(w, P(<<"[", " ">>)
           \o FlattenSeq([n \in 1 .. size(v) |->
                 (IF n > 1 THEN P(<<",", " ">>) ELSE <<>>) \o Literal(Const(v, n - 1), c.null)])
           \o P(<<" ", "]">>))

writeValue(c, w, v) ==
    CASE size(v) = 0 -> Put(w, Literal(v, c.null))
      [] size(v) > 0 /\ IsArray(v) /\ ~isMultilineArray(c, v) -> writeLine(c, w, v)
      [] OTHER ->
            LET begun == writeWithIndent(c, w, P(<<IF IsArray(v) THEN "[" ELSE "{">>))
                members == writeMembers(c, [begun EXCEPT !.depth = @ + 1], v, Keys(v))
            IN writeWithIndent(c, [members EXCEPT !.depth = w.depth],
                               P(<<IF IsArray(v) THEN "]" ELSE "}">>))

StyledWrite(c, root) ==
    LET begun == writeCommentBeforeValue(c, [out |-> <<>>, depth |-> 0, indented |-> FALSE], root)
    IN writeCommentAfterValueOnSameLine(c, writeValue(c, begun, root), root).out \o <<NewLine>>

StreamWrite(c, root) ==
    LET begun == writeCommentBeforeValue(c, [out |-> <<>>, depth |-> 0, indented |-> TRUE], root)
        w == Indented(IndentIfNot(c, begun), TRUE)
    IN writeCommentAfterValueOnSameLine(c, writeValue(c, w, root), root).out
       \o (IF c.class = "StyledStreamWriter" THEN <<NewLine>> ELSE <<>>)

write(c, root) ==
    CASE c.class = "FastWriter" -> FastWrite(root, c.null = <<>>)
      [] c.class = "StyledWriter" -> StyledWrite(c, root)
      [] OTHER -> StreamWrite(c, root)

-----------------------------------------------------------------------------
(* Built *)

Colon == P(<<" ", ":", " ">>)
FastWriter(dropNull) ==
    [class |-> "FastWriter", null |-> IF dropNull THEN <<>> ELSE NullSymbol, comments |-> FALSE]
StyledWriter ==
    [class |-> "StyledWriter", null |-> NullSymbol, comments |-> TRUE, colon |-> Colon]
StyledStreamWriter ==
    [class |-> "StyledStreamWriter", null |-> NullSymbol, comments |-> TRUE, colon |-> Colon]

\* StreamWriterBuilder's settings: commentStyle All or None, indentation or none,
\* enableYAMLCompatibility, dropNullPlaceholders
newStreamWriter(all, indentation, yaml, dropNull) ==
    [class |-> "BuiltStyledStreamWriter", null |-> IF dropNull THEN <<>> ELSE NullSymbol,
     comments |-> all, indentation |-> indentation,
     colon |-> IF yaml THEN P(<<":", " ">>) ELSE IF indentation THEN Colon ELSE P(<<":">>)]
=============================================================================
