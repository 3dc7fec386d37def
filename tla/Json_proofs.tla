----------------------------- MODULE Json_proofs -----------------------------
(***************************************************************************)
(* Json::Reader, for all texts, features and limits of the stack, and the  *)
(* conversions of numbers, for integers of any width.                      *)
(*                                                                         *)
(* The invariant of the reader says what is true between two tokens: which *)
(* values are open, pending or finished, where each of them lies, and      *)
(* where the last value and the comments that wait for one are.            *)
(***************************************************************************)
EXTENDS JsonReader, JsonNumbers, SequenceTheorems, TLAPS

Steps == [key : Names] \cup [index : Nat]
Frames == [kind : {"object", "array"}, name : Steps]
Payloads == Types \cup {"null", "object", "array"}
ValueRecs == [type : Payloads, name : Names \cup {"null"}, start : Int, limit : Int]
Errors == [start : Int, limit : Int]
Notes == [on : Seq(Steps), placement : {"sameLine", "before", "after"}, comments : Seq(Nat)]

InObject == {"name", "colon", "comma", "commented"}

CommentsTyped ==
    /\ lastValue_ \in Seq(Steps) \cup {NoValue}
    /\ lastValueEnd_ \in Nat
    /\ commentsBefore_ \in Seq(Nat)
    /\ notes \in SUBSET Notes

Typed ==
    /\ text \in Texts \cup Again /\ text \in Seq(Tokens)
    /\ features_ \in AllFeatures
    /\ calls \in Seq({"parse", "pushError", "pushErrorExtra"})
    /\ pc \in Pcs /\ current_ \in 0 .. Len(text)
    /\ frames \in Seq(Frames)
    /\ successful \in BOOLEAN
    /\ Paths \in SUBSET Seq(Steps) /\ doc \in [Paths -> ValueRecs]
    /\ errors_ \in Seq(Errors)
    /\ CommentsTyped

\* The containers that are open are those that contain the value at hand.
Opened == {q \in Paths : Above(q, Node)}
Placed == IF pc = "value" THEN Paths \ {Node} ELSE Paths
Finished == Placed \ Opened

StackInv ==
    /\ Len(frames) <= stackLimit_g
    /\ \A n \in DOMAIN frames : frames[n].kind = "array" <=> IsIndex(frames[n].name)
    /\ pc \in InObject \cup {"separator", "recover"} => frames # <<>>
    /\ pc \in InObject => Top.kind = "object"
    /\ pc = "separator" => Top.kind = "array"
    /\ pc \in {"idle", "extra", "done"} => frames = <<>>

TreeInv ==
    /\ Root \in Paths
    /\ \A q \in Paths : q # Root =>
          /\ Front(q) \in Paths
          /\ doc[Front(q)].type = IF IsIndex(Last(q)) THEN "array" ELSE "object"
    /\ \A n \in DOMAIN frames :
          /\ SubSeq(Node, 1, n - 1) \in Paths
          /\ doc[SubSeq(Node, 1, n - 1)].type = frames[n].kind
    /\ pc = "value" => Node \in Paths

PartsInv == \A q \in Paths : \A n \in 0 .. Len(q) - 1 : SubSeq(q, 1, n) \in Paths

CalledInv == pc # "idle" => calls # <<>>

\* A failure is reported once, and nothing but the way out follows it.
ErrorInv ==
    /\ ~successful => pc \in {"recover", "extra"} \cup Ends
    /\ pc = "recover" => ~successful
    /\ calls # <<>> /\ Last(calls) = "parse" =>
          /\ successful <=> errors_ = <<>>
          /\ Len(errors_) <= IF pc = "done" /\ features_.strictRoot THEN 2 ELSE 1

\* The last value is not below a value that can still be read again.
LastInv ==
    /\ ~features_.collectComments => lastValue_ = NoValue
    /\ lastValue_ # NoValue =>
          /\ lastValue_ \in Paths
          /\ frames # <<>> /\ Above(Front(Node), lastValue_) => Len(lastValue_) = Len(Node)
          /\ frames = <<>> => pc # "value"

\* What is said of a text read without an error and without placeholders
Good == successful /\ ~features_.allowDroppedNullPlaceholders /\ pc \notin {"idle", "thrown"}

\* Of the offsets in d: what is open and what is finished before location c nests.
Nests(d, open, finished, c) ==
    /\ \A q \in open : d[q].start < c
    /\ \A q \in finished : d[q].start < d[q].limit /\ d[q].limit <= c
    /\ \A q, r \in open \cup finished : Above(q, r) =>
          /\ d[q].start < d[r].start
          /\ q \in finished => d[r].limit < d[q].limit
    /\ \A q, r \in finished : q # r /\ ~Above(q, r) /\ ~Above(r, q) =>
          d[q].limit <= d[r].start \/ d[r].limit <= d[q].start
    /\ \A q \in open, r \in finished : ~Above(q, r) => d[r].limit <= d[q].start

OrderInv == Good => Nests(doc, Opened, Finished, current_)

\* A path is made of the names read so far and of the indices counted so far.
NamesRead == {Key(text[m].name) : m \in {m \in 1 .. current_ : text[m].type = "string"}}
NameInv ==
    /\ \A q \in Paths : \A n \in DOMAIN q : IsIndex(q[n]) \/ q[n] \in NamesRead
    /\ pc \in {"colon", "value"} /\ frames # <<>> => IsIndex(Top.name) \/ Top.name \in NamesRead
    /\ Once /\ pc = "colon" => Node \notin Paths
CountInv ==
    \A n \in DOMAIN frames : frames[n].kind = "array" =>
        \A q \in Paths : Len(q) = n /\ Front(q) = SubSeq(Node, 1, n - 1) =>
            q[n].index <= frames[n].name.index

QuietInv == ~features_.collectComments => commentsBefore_ = <<>>

NotesLive == \A n \in notes : n.on \in Paths

\* Without a name twice, the value to be read is new.
Anew == pc = "value" => \A q \in Paths : ~Above(Node, q)

LastEnds ==
    lastValue_ # NoValue =>
        /\ lastValue_ \in Finished /\ doc[lastValue_].limit = lastValueEnd_
        /\ \A q \in Finished : doc[q].limit <= lastValueEnd_

\* The comments that wait follow all the values that have begun.
WaitingInv ==
    \A c \in ToSet(commentsBefore_) : c < current_ /\ \A q \in Placed : doc[q].start < c

\* Comment c is beside the value it is set to.
Beside(on, placement, c) ==
    CASE placement = "sameLine" ->
            /\ on \in Finished /\ doc[on].limit <= c
            /\ \A q \in Finished : doc[q].limit > c \/ doc[q].limit <= doc[on].limit
      [] placement = "before" ->
            /\ c < doc[on].start
            /\ \A q \in Placed : doc[q].start < c \/ doc[q].start >= doc[on].start
      [] placement = "after" -> pc = "done" /\ \A q \in Paths \ {Root} : doc[q].start < c

BesideInv ==
    \A n \in notes :
        /\ n.on \in Placed
        /\ \A c \in ToSet(n.comments) : c < current_ /\ Beside(n.on, n.placement, c)

CommentInv == Good /\ Once => Anew /\ LastEnds /\ WaitingInv /\ BesideInv

IInv ==
    /\ Typed /\ StackInv /\ TreeInv /\ PartsInv /\ CalledInv /\ ErrorInv /\ LastInv
    /\ QuietInv /\ NotesLive /\ NameInv /\ CountInv /\ OrderInv /\ CommentInv

-----------------------------------------------------------------------------
(* Sequences *)

\* The first n elements
LEMMA FirstPart ==
    ASSUME NEW S, NEW s \in Seq(S), NEW n \in 0 .. Len(s)
    PROVE  /\ SubSeq(s, 1, n) \in Seq(S) /\ Len(SubSeq(s, 1, n)) = n
           /\ \A k \in 1 .. n : SubSeq(s, 1, n)[k] = s[k]
<1>1. Len(s) \in Nat /\ \A k \in 1 .. Len(s) : s[k] \in S
  BY LenProperties
<1>2. \A k \in 1 .. n : s[k] \in S
  BY <1>1
<1>. QED
  BY <1>1, <1>2, SubSeqProperties

\* The last element of a sequence, and what is before it
LEMMA FrontAndLast ==
    ASSUME NEW S, NEW s \in Seq(S), s # <<>>
    PROVE  /\ Len(s) \in Nat \ {0}
           /\ Front(s) \in Seq(S) /\ Len(Front(s)) = Len(s) - 1
           /\ \A k \in 1 .. Len(s) - 1 : Front(s)[k] = s[k]
           /\ Last(s) \in S /\ Last(s) = s[Len(s)]
<1>1. Len(s) \in Nat /\ Len(s) # 0 /\ \A k \in 1 .. Len(s) : s[k] \in S
  BY LenProperties, EmptySeq
<1>2. Len(s) - 1 \in 0 .. Len(s)
  BY <1>1
<1>3. /\ SubSeq(s, 1, Len(s) - 1) \in Seq(S) /\ Len(SubSeq(s, 1, Len(s) - 1)) = Len(s) - 1
      /\ \A k \in 1 .. Len(s) - 1 : SubSeq(s, 1, Len(s) - 1)[k] = s[k]
  BY <1>2, FirstPart
<1>. QED
  BY <1>1, <1>3 DEF Front, Last

\* A sequence with one more element
LEMMA AppendParts ==
    ASSUME NEW S, NEW s \in Seq(S), NEW e \in S
    PROVE  /\ Append(s, e) \in Seq(S) /\ Append(s, e) # <<>>
           /\ Len(Append(s, e)) = Len(s) + 1
           /\ \A k \in 1 .. Len(s) : Append(s, e)[k] = s[k]
           /\ Front(Append(s, e)) = s /\ Last(Append(s, e)) = e
<1>1. /\ Append(s, e) \in Seq(S) /\ Append(s, e) # <<>>
      /\ Len(Append(s, e)) = Len(s) + 1
      /\ \A k \in 1 .. Len(s) : Append(s, e)[k] = s[k]
      /\ Append(s, e)[Len(s) + 1] = e
  BY AppendProperties
<1>2. Len(s) \in Nat
  BY LenProperties
<1>3. /\ Front(Append(s, e)) \in Seq(S) /\ Len(Front(Append(s, e))) = Len(s)
      /\ \A k \in 1 .. Len(s) : Front(Append(s, e))[k] = s[k]
      /\ Last(Append(s, e)) = e
  <2>. DEFINE t == Append(s, e)
  <2>. HIDE DEF t
  <2>1. t \in Seq(S) /\ t # <<>> /\ Len(t) - 1 = Len(s) /\ t[Len(t)] = e
        /\ \A k \in 1 .. Len(s) : t[k] = s[k]
    BY <1>1, <1>2 DEF t
  <2>2. /\ Front(t) \in Seq(S) /\ Len(Front(t)) = Len(t) - 1
        /\ \A k \in 1 .. Len(t) - 1 : Front(t)[k] = t[k]
        /\ Last(t) = t[Len(t)]
    BY <2>1, FrontAndLast
  <2>. QED
    BY <2>1, <2>2 DEF t
<1>4. Front(Append(s, e)) = s
  BY <1>3, SeqEqual
<1>. QED
  BY <1>1, <1>3, <1>4

\* Sequences that agree on their first m elements
LEMMA SamePart ==
    ASSUME NEW S, NEW s \in Seq(S), NEW t \in Seq(S), NEW m \in Nat, m <= Len(s), m <= Len(t),
           \A k \in 1 .. m : s[k] = t[k]
    PROVE  SubSeq(s, 1, m) = SubSeq(t, 1, m)
<1>1. m \in 0 .. Len(s) /\ m \in 0 .. Len(t)
  BY LenProperties
<1>2. /\ SubSeq(s, 1, m) \in Seq(S) /\ Len(SubSeq(s, 1, m)) = m
      /\ \A k \in 1 .. m : SubSeq(s, 1, m)[k] = s[k]
  BY <1>1, FirstPart
<1>3. /\ SubSeq(t, 1, m) \in Seq(S) /\ Len(SubSeq(t, 1, m)) = m
      /\ \A k \in 1 .. m : SubSeq(t, 1, m)[k] = t[k]
  BY <1>1, FirstPart
<1>4. \A k \in 1 .. m : SubSeq(s, 1, m)[k] = SubSeq(t, 1, m)[k]
  BY <1>2, <1>3
<1>. QED
  BY <1>2, <1>3, <1>4, SeqEqual

\* A sequence is its front and its last element.
LEMMA FrontLastAppend ==
    ASSUME NEW S, NEW s \in Seq(S), s # <<>>
    PROVE  s = Append(Front(s), Last(s))
<1>1. /\ Len(s) \in Nat \ {0} /\ Front(s) \in Seq(S) /\ Len(Front(s)) = Len(s) - 1
      /\ \A k \in 1 .. Len(s) - 1 : Front(s)[k] = s[k]
      /\ Last(s) \in S /\ Last(s) = s[Len(s)]
  BY FrontAndLast
<1>2. /\ Append(Front(s), Last(s)) \in Seq(S) /\ Len(Append(Front(s), Last(s))) = Len(s)
      /\ \A k \in 1 .. Len(s) - 1 : Append(Front(s), Last(s))[k] = s[k]
      /\ Append(Front(s), Last(s))[Len(s)] = s[Len(s)]
  BY <1>1, AppendProperties
<1>3. \A k \in 1 .. Len(s) : Append(Front(s), Last(s))[k] = s[k]
  BY <1>1, <1>2
<1>. QED
  BY <1>2, <1>3, SeqEqual

-----------------------------------------------------------------------------
(* Paths above each other *)

\* Above, element by element
LEMMA AboveMeans ==
    ASSUME NEW S, NEW q \in Seq(S), NEW r \in Seq(S)
    PROVE  Above(q, r) <=> Len(q) < Len(r) /\ \A k \in 1 .. Len(q) : q[k] = r[k]
<1>1. Len(q) \in Nat /\ Len(r) \in Nat
  BY LenProperties
<1>2. /\ SubSeq(q, 1, Len(q)) \in Seq(S) /\ Len(SubSeq(q, 1, Len(q))) = Len(q)
      /\ \A k \in 1 .. Len(q) : SubSeq(q, 1, Len(q))[k] = q[k]
  BY <1>1, FirstPart
<1>3. CASE Len(q) < Len(r)
  <2>1. /\ SubSeq(r, 1, Len(q)) \in Seq(S) /\ Len(SubSeq(r, 1, Len(q))) = Len(q)
        /\ \A k \in 1 .. Len(q) : SubSeq(r, 1, Len(q))[k] = r[k]
    BY <1>1, <1>3, FirstPart
  <2>2. (\A k \in 1 .. Len(q) : q[k] = r[k]) => SubSeq(q, 1, Len(q)) = SubSeq(r, 1, Len(q))
    <3>1. ASSUME \A k \in 1 .. Len(q) : q[k] = r[k]
          PROVE  \A k \in 1 .. Len(q) : SubSeq(q, 1, Len(q))[k] = SubSeq(r, 1, Len(q))[k]
      BY <1>2, <2>1, <3>1
    <3>. QED
      BY <1>2, <2>1, <3>1, SeqEqual
  <2>3. SubSeq(q, 1, Len(q)) = SubSeq(r, 1, Len(q)) => \A k \in 1 .. Len(q) : q[k] = r[k]
    BY <1>2, <2>1
  <2>4. Len(q) <= Len(r)
    BY <1>1, <1>3
  <2>. QED
    BY <1>3, <2>2, <2>3, <2>4 DEF Above, IsPrefix
<1>4. CASE ~(Len(q) < Len(r))
  BY <1>4 DEF Above
<1>. QED
  BY <1>3, <1>4

\* Above orders paths; those above one path lie above each other.
LEMMA AboveOrder ==
    ASSUME NEW S
    PROVE  /\ \A q \in Seq(S) : ~Above(q, q) /\ ~Above(q, <<>>) /\ (q # <<>> => Above(<<>>, q))
           /\ \A q, r, t \in Seq(S) : Above(q, r) /\ Above(r, t) => Above(q, t)
           /\ \A q, r \in Seq(S) : Above(q, r) => ~Above(r, q) /\ Len(q) < Len(r)
           /\ \A q, r, t \in Seq(S) : Above(q, t) /\ Above(r, t) => q = r \/ Above(q, r) \/ Above(r, q)
<1>1. \A q \in Seq(S) : Len(q) \in Nat
  BY LenProperties
<1>2. <<>> \in Seq(S) /\ Len(<<>>) = 0 /\ \A q \in Seq(S) : q # <<>> => Len(q) # 0
  BY EmptySeq
<1>3. ASSUME NEW q \in Seq(S)
      PROVE  ~Above(q, q) /\ ~Above(q, <<>>) /\ (q # <<>> => Above(<<>>, q))
  <2>1. \A r, t \in Seq(S) : Above(r, t) <=> Len(r) < Len(t) /\ \A k \in 1 .. Len(r) : r[k] = t[k]
    BY AboveMeans
  <2>2. Above(q, q) => Len(q) < Len(q)
    BY <2>1
  <2>3. Above(q, <<>>) => Len(q) < 0
    BY <1>2, <2>1
  <2>4. ASSUME q # <<>> PROVE Above(<<>>, q)
    <3>1. 0 < Len(q) /\ \A k \in 1 .. 0 : <<>>[k] = q[k]
      BY <1>1, <1>2, <2>4
    <3>. QED
      BY <1>2, <2>1, <3>1
  <2>. QED
    BY <1>1, <2>2, <2>3, <2>4
<1>4. ASSUME NEW q \in Seq(S), NEW r \in Seq(S), NEW t \in Seq(S), Above(q, r), Above(r, t)
      PROVE  Above(q, t)
  <2>1. /\ Len(q) < Len(r) /\ \A k \in 1 .. Len(q) : q[k] = r[k]
        /\ Len(r) < Len(t) /\ \A k \in 1 .. Len(r) : r[k] = t[k]
    BY <1>4, AboveMeans
  <2>2. \A k \in 1 .. Len(q) : q[k] = t[k]
    BY <1>1, <2>1
  <2>. QED
    BY <1>1, <2>1, <2>2, AboveMeans
<1>5. \A q, r \in Seq(S) : Above(q, r) => ~Above(r, q) /\ Len(q) < Len(r)
  BY <1>1, AboveMeans
<1>6. ASSUME NEW q \in Seq(S), NEW r \in Seq(S), NEW t \in Seq(S), Above(q, t), Above(r, t)
      PROVE  q = r \/ Above(q, r) \/ Above(r, q)
  <2>1. /\ \A k \in 1 .. Len(q) : q[k] = t[k]
        /\ \A k \in 1 .. Len(r) : r[k] = t[k]
    BY <1>6, AboveMeans
  <2>2. CASE Len(q) < Len(r)
    BY <1>1, <2>1, <2>2, AboveMeans
  <2>3. CASE Len(r) < Len(q)
    BY <1>1, <2>1, <2>3, AboveMeans
  <2>4. CASE Len(r) = Len(q)
    BY <1>1, <2>1, <2>4, SeqEqual
  <2>. QED
    BY <1>1, <2>2, <2>3, <2>4
<1>. QED
  BY <1>3, <1>4, <1>5, <1>6

\* Above a longer path is the path it extends, and what is above that.
LEMMA AboveAppend ==
    ASSUME NEW S, NEW s \in Seq(S), NEW e \in S, NEW q \in Seq(S)
    PROVE  Above(q, Append(s, e)) <=> q = s \/ Above(q, s)
<1>1. Len(q) \in Nat /\ Len(s) \in Nat
  BY LenProperties
<1>2. /\ Append(s, e) \in Seq(S) /\ Len(Append(s, e)) = Len(s) + 1
      /\ \A k \in 1 .. Len(s) : Append(s, e)[k] = s[k]
  BY AppendProperties
<1>3. Above(q, Append(s, e)) <=> Len(q) < Len(s) + 1 /\ \A k \in 1 .. Len(q) : q[k] = Append(s, e)[k]
  <2>1. \A t \in Seq(S) : Above(q, t) <=> Len(q) < Len(t) /\ \A k \in 1 .. Len(q) : q[k] = t[k]
    BY AboveMeans
  <2>. QED
    BY <1>2, <2>1
<1>4. Above(q, s) <=> Len(q) < Len(s) /\ \A k \in 1 .. Len(q) : q[k] = s[k]
  BY AboveMeans
<1>5. ASSUME Len(q) <= Len(s), \A k \in 1 .. Len(q) : q[k] = s[k] PROVE q = s \/ Above(q, s)
  <2>1. CASE Len(q) = Len(s)
    BY <1>5, <2>1, SeqEqual
  <2>. QED
    BY <1>1, <1>4, <1>5, <2>1
<1>6. ASSUME Len(q) <= Len(s) PROVE \A k \in 1 .. Len(q) : k \in 1 .. Len(s)
  BY <1>1, <1>6
<1>. QED
  BY <1>1, <1>2, <1>3, <1>4, <1>5, <1>6

\* The same, from the longer path
LEMMA AboveFront ==
    ASSUME NEW S, NEW s \in Seq(S), s # <<>>, NEW q \in Seq(S)
    PROVE  Above(q, s) <=> q = Front(s) \/ Above(q, Front(s))
<1>1. Front(s) \in Seq(S) /\ Last(s) \in S /\ s = Append(Front(s), Last(s))
  BY FrontAndLast, FrontLastAppend
<1>. QED
  BY <1>1, AboveAppend

-----------------------------------------------------------------------------
(* The path of a stack *)

\* The path of a stack has the names of its frames.
LEMMA PathOf ==
    ASSUME NEW fs \in Seq(Frames)
    PROVE  /\ Path(fs) \in Seq(Steps) /\ Len(Path(fs)) = Len(fs) /\ Len(fs) \in Nat
           /\ \A k \in 1 .. Len(fs) : Path(fs)[k] = fs[k].name /\ fs[k] \in Frames
           /\ Path(fs) = <<>> <=> fs = <<>>
<1>1. Len(fs) \in Nat /\ DOMAIN fs = 1 .. Len(fs) /\ \A k \in 1 .. Len(fs) : fs[k] \in Frames
  BY LenProperties
<1>2. \A k \in 1 .. Len(fs) : fs[k].name \in Steps
  BY <1>1 DEF Frames
<1>3. Path(fs) = [k \in 1 .. Len(fs) |-> fs[k].name]
  BY <1>1 DEF Path
<1>4. Path(fs) \in Seq(Steps) /\ Len(Path(fs)) = Len(fs)
  BY <1>1, <1>2, <1>3
<1>5. Path(fs) = <<>> <=> fs = <<>>
  BY <1>1, <1>4, EmptySeq
<1>. QED
  BY <1>1, <1>3, <1>4, <1>5

\* Without its last frame, a stack leads to the container of its value.
LEMMA PathFront ==
    ASSUME NEW fs \in Seq(Frames), fs # <<>>
    PROVE  /\ Path(Front(fs)) = Front(Path(fs)) /\ Path(fs) # <<>>
           /\ Last(Path(fs)) = Last(fs).name /\ Last(fs) \in Frames
           /\ Front(fs) \in Seq(Frames) /\ Len(Front(fs)) = Len(fs) - 1
           /\ Path(fs) = Append(Path(Front(fs)), Last(fs).name)
<1>1. /\ Len(fs) \in Nat \ {0} /\ Front(fs) \in Seq(Frames) /\ Len(Front(fs)) = Len(fs) - 1
      /\ \A k \in 1 .. Len(fs) - 1 : Front(fs)[k] = fs[k]
      /\ Last(fs) \in Frames /\ Last(fs) = fs[Len(fs)]
  BY FrontAndLast
<1>2. /\ Path(fs) \in Seq(Steps) /\ Len(Path(fs)) = Len(fs) /\ Path(fs) # <<>>
      /\ \A k \in 1 .. Len(fs) : Path(fs)[k] = fs[k].name
  BY PathOf
<1>3. /\ Path(Front(fs)) \in Seq(Steps) /\ Len(Path(Front(fs))) = Len(fs) - 1
      /\ \A k \in 1 .. Len(fs) - 1 : Path(Front(fs))[k] = Front(fs)[k].name
  BY <1>1, PathOf
<1>4. /\ Front(Path(fs)) \in Seq(Steps) /\ Len(Front(Path(fs))) = Len(fs) - 1
      /\ \A k \in 1 .. Len(fs) - 1 : Front(Path(fs))[k] = Path(fs)[k]
      /\ Last(Path(fs)) = Path(fs)[Len(fs)]
  BY <1>2, FrontAndLast
<1>5. ASSUME NEW k \in 1 .. Len(fs) - 1 PROVE Path(Front(fs))[k] = Front(Path(fs))[k]
  <2>1. Path(Front(fs))[k] = fs[k].name
    BY <1>1, <1>3
  <2>2. Front(Path(fs))[k] = fs[k].name
    BY <1>1, <1>2, <1>4
  <2>. QED
    BY <2>1, <2>2
<1>6. Path(Front(fs)) = Front(Path(fs))
  BY <1>3, <1>4, <1>5, SeqEqual
<1>7. Last(Path(fs)) = Last(fs).name
  BY <1>1, <1>2, <1>4
<1>. QED
  BY <1>1, <1>2, <1>6, <1>7, FrontLastAppend

\* With one more frame, it leads to a value in the value at hand.
LEMMA PathAppend ==
    ASSUME NEW fs \in Seq(Frames), NEW f \in Frames
    PROVE  /\ Append(fs, f) \in Seq(Frames) /\ Append(fs, f) # <<>>
           /\ Path(Append(fs, f)) = Append(Path(fs), f.name)
           /\ Len(Append(fs, f)) = Len(fs) + 1
           /\ Last(Append(fs, f)) = f /\ Front(Append(fs, f)) = fs
<1>. DEFINE gs == Append(fs, f)
<1>1. gs \in Seq(Frames) /\ gs # <<>> /\ Last(gs) = f /\ Front(gs) = fs /\ Len(gs) = Len(fs) + 1
  BY AppendParts
<1>. HIDE DEF gs
<1>2. Path(gs) = Append(Path(Front(gs)), Last(gs).name)
  BY <1>1, PathFront
<1>. QED
  BY <1>1, <1>2 DEF gs

-----------------------------------------------------------------------------
(* Documents *)

\* The paths that are left when a value gets a new payload
Left(q) == {r \in Paths : ~Above(q, r)}

\* swapPayload changes one value, and what was below it is gone.
LEMMA PayloadOf ==
    ASSUME Typed, NEW q \in Paths,
           NEW k, k.type \in Payloads, k.name \in Names \cup {"null"}
    PROVE  /\ DOMAIN Payload(doc, q, k) = Left(q) /\ Payload(doc, q, k) \in [Left(q) -> ValueRecs]
           /\ q \in Left(q)
           /\ \A r \in Left(q) : r # q => Payload(doc, q, k)[r] = doc[r]
           /\ Payload(doc, q, k)[q].type = k.type
<1>. DEFINE v == [doc[q] EXCEPT !.type = k.type, !.name = k.name]
<1>1. Paths \in SUBSET Seq(Steps) /\ doc \in [Paths -> ValueRecs]
  BY DEF Typed
<1>2. q \in Left(q)
  BY <1>1, AboveOrder DEF Left
<1>3. Payload(doc, q, k) = [r \in Left(q) |-> IF r = q THEN v ELSE doc[r]]
  BY DEF Payload, Left, Paths
<1>4. doc[q] \in ValueRecs /\ \A r \in Left(q) : doc[r] \in ValueRecs
  BY <1>1 DEF Left
<1>5. v \in ValueRecs /\ v.type = k.type
  BY <1>4 DEF ValueRecs
<1>. HIDE DEF v
<1>. QED
  BY <1>2, <1>3, <1>4, <1>5

\* setOffsetStart changes the start of one value.
LEMMA StartedOf ==
    ASSUME NEW P, NEW d \in [P -> ValueRecs], NEW q \in P, NEW s \in Int
    PROVE  LET e == Started(d, q, s) IN
           /\ DOMAIN e = P /\ e \in [P -> ValueRecs]
           /\ \A r \in P : r # q => e[r] = d[r]
           /\ e[q].type = d[q].type /\ e[q].start = s /\ e[q].limit = d[q].limit
<1>1. d[q] \in ValueRecs
  OBVIOUS
<1>2. LET v == [d[q] EXCEPT !.start = s] IN
      v \in ValueRecs /\ v.type = d[q].type /\ v.start = s /\ v.limit = d[q].limit
  BY <1>1 DEF ValueRecs
<1>. QED
  BY <1>2 DEF Started

\* setOffsetLimit changes the end of one value.
LEMMA LimitedOf ==
    ASSUME NEW P, NEW d \in [P -> ValueRecs], NEW q \in P, NEW l \in Int
    PROVE  LET e == Limited(d, q, l) IN
           /\ DOMAIN e = P /\ e \in [P -> ValueRecs]
           /\ \A r \in P : r # q => e[r] = d[r]
           /\ e[q].type = d[q].type /\ e[q].start = d[q].start /\ e[q].limit = l
<1>1. d[q] \in ValueRecs
  OBVIOUS
<1>2. LET v == [d[q] EXCEPT !.limit = l] IN
      v \in ValueRecs /\ v.type = d[q].type /\ v.start = d[q].start /\ v.limit = l
  BY <1>1 DEF ValueRecs
<1>. QED
  BY <1>2 DEF Limited

\* operator[] puts a value where there was none, and changes no other.
LEMMA MemberOf ==
    ASSUME NEW P \in SUBSET Seq(Steps), NEW d \in [P -> ValueRecs], NEW q \in Seq(Steps)
    PROVE  LET e == Member(d, q) IN
           /\ DOMAIN e = P \cup {q} /\ e \in [P \cup {q} -> ValueRecs]
           /\ \A r \in P : e[r] = d[r]
<1>1. Null \in ValueRecs
  BY TextsAssumption DEF Null, ValueRecs, Payloads
<1>2. DOMAIN d = P /\ \A r \in P : d[r] \in ValueRecs
  OBVIOUS
<1>. HIDE DEF ValueRecs
<1>. QED
  BY <1>1, <1>2 DEF Member

-----------------------------------------------------------------------------
(* What a step does, told by the invariants' words *)

\* Where the reader is: the token at hand, the end of it and the value at hand
LEMMA NowFacts ==
    ASSUME Typed
    PROVE  /\ Len(text) \in Nat /\ current_ \in Nat /\ current_ <= Len(text)
           /\ token \in Tokens
           /\ end \in Nat /\ current_ <= end /\ end <= Len(text)
           /\ token.type # "end" =>
                 current_ < Len(text) /\ end = current_ + 1 /\ token = text[current_ + 1]
           /\ Node \in Seq(Steps) /\ Len(Node) = Len(frames) /\ Len(frames) \in Nat
           /\ Node = <<>> <=> frames = <<>>
<1>1. Len(text) \in Nat /\ \A n \in 1 .. Len(text) : text[n] \in Tokens
  BY LenProperties DEF Typed
<1>2. current_ \in Nat /\ current_ <= Len(text)
  BY <1>1 DEF Typed
<1>3. End \in Tokens /\ End.type = "end"
  BY TextsAssumption DEF End, Tokens, Types
<1>4. token \in Tokens /\ (current_ < Len(text) => token = text[current_ + 1])
      /\ (~(current_ < Len(text)) => token = End)
  BY <1>1, <1>2, <1>3 DEF token, Token
<1>5. /\ end \in Nat /\ current_ <= end /\ end <= Len(text)
      /\ current_ < Len(text) => end = current_ + 1
  BY <1>1, <1>2 DEF end
<1>6. /\ Node \in Seq(Steps) /\ Len(Node) = Len(frames) /\ Len(frames) \in Nat
      /\ Node = <<>> <=> frames = <<>>
  BY PathOf DEF Typed, Node
<1>. QED
  BY <1>1, <1>2, <1>3, <1>4, <1>5, <1>6

\* What a token is made of
LEMMA TokenFields ==
    ASSUME NEW k \in Tokens PROVE k.type \in Types /\ k.name \in Names
BY DEF Tokens

\* What the features are made of
LEMMA FeatureFields ==
    ASSUME Typed
    PROVE  /\ features_.allowComments \in BOOLEAN /\ features_.collectComments \in BOOLEAN
           /\ features_.strictRoot \in BOOLEAN
           /\ features_.allowNumericKeys \in BOOLEAN
           /\ features_.allowDroppedNullPlaceholders \in BOOLEAN
BY TextsAssumption DEF Typed

\* A container begins.
Opens(kind, name) ==
    /\ pc = "value" /\ ~Exceeded
    /\ current_' > current_
    /\ frames' = Append(frames, [kind |-> kind, name |-> name])
    /\ kind = "array" <=> IsIndex(name)
    /\ kind = "object" => name = Key(Empty) /\ pc' = "name" /\ DOMAIN doc' = Left(Node)
    /\ kind = "array" => /\ name = Index(0) /\ pc' = "value"
                         /\ DOMAIN doc' = Left(Node) \cup {Append(Node, name)}
    /\ doc' \in [DOMAIN doc' -> ValueRecs]
    /\ \A r \in Left(Node) : r # Node => doc'[r] = doc[r]
    /\ doc'[Node].type = kind /\ doc'[Node].start = current_
    /\ Collected(doc')
    /\ UNCHANGED <<given, successful, errors_, lastValue_, lastValueEnd_>>

\* A value without members is read.
Reads ==
    /\ pc = "value" /\ frames' = frames
    /\ Return(frames, TRUE)
    /\ DOMAIN doc' = Left(Node) /\ doc' \in [DOMAIN doc' -> ValueRecs]
    /\ \A r \in Left(Node) : r # Node => doc'[r] = doc[r]
    /\ Collected(doc') /\ Remember(Node)
    /\ UNCHANGED <<given, successful, errors_>>

\* It is read at the place of its token.
ReadsToken ==
    /\ Reads
    /\ current_' > current_ /\ doc'[Node].start = current_ /\ doc'[Node].limit = current_'

\* There is no value.
Fails ==
    /\ pc = "value" /\ Return(frames, FALSE)
    /\ DOMAIN doc' = Paths /\ doc' \in [Paths -> ValueRecs]
    /\ \A r \in Paths : doc'[r].type = doc[r].type
    /\ Collected(doc')
    /\ Remember(Node) \/ UNCHANGED <<lastValue_, lastValueEnd_>>
    /\ addError(current_, end) /\ successful' = FALSE
    /\ UNCHANGED given

\* A container ends.
Leaves(ok) ==
    /\ frames # <<>> /\ Return(Front(frames), ok)
    /\ pc \in InObject \cup {"separator", "recover"}
    /\ DOMAIN doc' = Paths /\ doc' \in [Paths -> ValueRecs]
    /\ \A r \in Paths : r # Front(Node) => doc'[r] = doc[r]
    /\ doc'[Front(Node)].type = doc[Front(Node)].type
    /\ doc'[Front(Node)].start = doc[Front(Node)].start
    /\ doc'[Front(Node)].limit = current_'
    /\ Remember(Front(Node))
    /\ UNCHANGED <<given, commentsBefore_, notes, successful, errors_>>

\* A "{" puts an object on the stack.
LEMMA OpensObject ==
    ASSUME Typed, TreeInv, BeginObject PROVE Opens("object", Key(Empty)) /\ current_' = end
<1>. DEFINE k == Container("object")  d == Payload(doc, Node, k)
<1>1. /\ pc = "value" /\ ~Exceeded
      /\ frames' = Append(frames, [kind |-> "object", name |-> Key(Empty)])
      /\ pc' = "name" /\ Collected(doc')
      /\ UNCHANGED <<given, successful, errors_, lastValue_, lastValueEnd_>>
  BY DEF BeginObject, Value, Object
<1>2. current_' = end /\ token.type # "end"
  BY DEF BeginObject, Is
<1>3. current_' > current_
  <2>1. end = current_ + 1 /\ current_ \in Nat
    BY <1>2, NowFacts
  <2>. QED
    BY <1>2, <2>1
<1>4. ~IsIndex(Key(Empty))
  BY DEF IsIndex, Key
<1>5. k.type = "object" /\ k.type \in Payloads /\ k.name \in Names \cup {"null"}
  BY TextsAssumption DEF Container, Payloads
<1>6. doc' = Started(d, Node, current_)
  BY DEF BeginObject
<1>7. Paths \in SUBSET Seq(Steps) /\ doc \in [Paths -> ValueRecs] /\ Node \in Paths
  BY <1>1 DEF Typed, TreeInv
<1>. HIDE DEF k
<1>8. /\ DOMAIN d = Left(Node) /\ d \in [Left(Node) -> ValueRecs] /\ Node \in Left(Node)
      /\ \A r \in Left(Node) : r # Node => d[r] = doc[r]
      /\ d[Node].type = "object"
  BY <1>5, <1>7, PayloadOf
<1>. HIDE DEF d
<1>9. current_ \in Int
  BY NowFacts
<1>10. /\ DOMAIN doc' = Left(Node) /\ doc' \in [Left(Node) -> ValueRecs]
       /\ \A r \in Left(Node) : r # Node => doc'[r] = d[r]
       /\ doc'[Node].type = d[Node].type /\ doc'[Node].start = current_
  BY <1>6, <1>8, <1>9, StartedOf
<1>. QED
  BY <1>1, <1>2, <1>3, <1>4, <1>8, <1>10 DEF Opens

\* A value gets its payload and its two offsets at once.
LEMMA PlaceOf ==
    ASSUME Typed, Node \in Paths, NEW k, k.type \in Payloads, k.name \in Names \cup {"null"},
           NEW s \in Int, NEW l \in Int,
           doc' = Limited(Started(Payload(doc, Node, k), Node, s), Node, l)
    PROVE  /\ DOMAIN doc' = Left(Node) /\ doc' \in [DOMAIN doc' -> ValueRecs]
           /\ \A r \in Left(Node) : r # Node => doc'[r] = doc[r]
           /\ doc'[Node].type = k.type /\ doc'[Node].start = s /\ doc'[Node].limit = l
<1>. DEFINE d == Payload(doc, Node, k)  e == Started(d, Node, s)
<1>1. /\ DOMAIN d = Left(Node) /\ d \in [Left(Node) -> ValueRecs] /\ Node \in Left(Node)
      /\ \A r \in Left(Node) : r # Node => d[r] = doc[r]
      /\ d[Node].type = k.type
  BY PayloadOf
<1>. HIDE DEF d
<1>2. /\ e \in [Left(Node) -> ValueRecs]
      /\ \A r \in Left(Node) : r # Node => e[r] = d[r]
      /\ e[Node].type = d[Node].type /\ e[Node].start = s
  BY <1>1, StartedOf
<1>3. doc' = Limited(e, Node, l)
  BY DEF d
<1>. HIDE DEF e
<1>4. /\ DOMAIN doc' = Left(Node) /\ doc' \in [Left(Node) -> ValueRecs]
      /\ \A r \in Left(Node) : r # Node => doc'[r] = e[r]
      /\ doc'[Node].type = e[Node].type /\ doc'[Node].start = e[Node].start /\ doc'[Node].limit = l
  BY <1>1, <1>2, <1>3, LimitedOf
<1>. QED
  BY <1>1, <1>2, <1>4

\* A scalar that decodes is read.
LEMMA ScalarReads ==
    ASSUME Typed, TreeInv, ReadScalar, ~Undecoded
    PROVE  ReadsToken /\ current_' = end
<1>1. /\ pc = "value" /\ current_' = end /\ token.type \in Scalars
      /\ doc' = Limited(Started(Payload(doc, Node, token), Node, current_), Node, end)
  BY DEF ReadScalar, Value
<1>2. /\ successful' = successful /\ errors_' = errors_ /\ Collected(doc') /\ Remember(Node)
      /\ Return(frames, TRUE) /\ UNCHANGED given
  BY DEF ReadScalar
<1>3. token.type # "end" /\ token.type \in Payloads /\ token.name \in Names \cup {"null"}
  BY <1>1, NowFacts, TokenFields DEF Scalars, Payloads
<1>4. end = current_ + 1 /\ current_ \in Int /\ end \in Int
  BY <1>3, NowFacts
<1>5. Node \in Paths
  BY <1>1 DEF TreeInv
<1>6. /\ DOMAIN doc' = Left(Node) /\ doc' \in [DOMAIN doc' -> ValueRecs]
      /\ \A r \in Left(Node) : r # Node => doc'[r] = doc[r]
      /\ doc'[Node].start = current_ /\ doc'[Node].limit = end
  BY <1>1, <1>3, <1>4, <1>5, PlaceOf
<1>7. current_' > current_ /\ frames' = frames
  BY <1>1, <1>2, <1>4 DEF Return
<1>8. Reads
  BY <1>1, <1>2, <1>6, <1>7 DEF Reads
<1>. QED
  BY <1>1, <1>6, <1>7, <1>8 DEF ReadsToken

\* A dropped null is read where it would stand.
LEMMA NullDrops ==
    ASSUME Typed, TreeInv, DropNull PROVE Reads /\ current_' = current_
<1>1. /\ pc = "value" /\ current_' = current_
      /\ doc' = Limited(Started(Payload(doc, Node, NullLiteral), Node, current_ - 1), Node, current_)
  BY DEF DropNull, Value
<1>2. /\ UNCHANGED <<given, successful, errors_>> /\ Collected(doc') /\ Remember(Node)
      /\ Return(frames, TRUE)
  BY DEF DropNull
<1>. DEFINE k == NullLiteral
<1>3. k.type \in Payloads /\ k.name \in Names \cup {"null"}
  BY DEF NullLiteral, Payloads, Types, Scalars
<1>4. current_ - 1 \in Int /\ current_ \in Int
  BY NowFacts
<1>5. Node \in Paths
  BY <1>1 DEF TreeInv
<1>6. doc' = Limited(Started(Payload(doc, Node, k), Node, current_ - 1), Node, current_)
  BY <1>1
<1>. HIDE DEF k
<1>7. /\ DOMAIN doc' = Left(Node) /\ doc' \in [DOMAIN doc' -> ValueRecs]
      /\ \A r \in Left(Node) : r # Node => doc'[r] = doc[r]
  BY <1>3, <1>4, <1>5, <1>6, PlaceOf
<1>8. frames' = frames
  BY <1>2 DEF Return
<1>. QED
  BY <1>1, <1>2, <1>7, <1>8 DEF Reads

\* An array is read as a whole if it is empty, and begins with an element if not.
LEMMA ArrayBegins ==
    ASSUME Typed, TreeInv, BeginArray
    PROVE  \/ ReadsToken /\ current_' = end + 1 /\ end + 1 <= Len(text)
           \/ Opens("array", Index(0)) /\ current_' = end
<1>. DEFINE k == Container("array")  d == Payload(doc, Node, k)  e == Started(d, Node, current_)
<1>1. /\ pc = "value" /\ ~Exceeded /\ token.type # "end"
      /\ UNCHANGED <<given, successful, errors_>> /\ Collected(doc')
  BY DEF BeginArray, Value, Is
<1>2. end = current_ + 1 /\ current_ \in Int /\ end \in Nat /\ end + 1 \in Int
  BY <1>1, NowFacts
<1>3. k.type = "array" /\ k.type \in Payloads /\ k.name \in Names \cup {"null"}
  BY TextsAssumption DEF Container, Payloads
<1>4. Node \in Paths
  BY <1>1 DEF TreeInv
<1>5. CASE Token(end).type = "]"
  <2>1. /\ current_' = end + 1 /\ Return(frames, TRUE) /\ Remember(Node)
        /\ doc' = Limited(e, Node, end + 1)
    BY <1>5 DEF BeginArray
  <2>2. end < Len(text)
    <3>1. Token(end).type # End.type
      BY <1>5 DEF End
    <3>. QED
      BY <3>1 DEF Token
  <2>3. doc' = Limited(Started(Payload(doc, Node, k), Node, current_), Node, end + 1)
    BY <2>1
  <2>. HIDE DEF k
  <2>4. /\ DOMAIN doc' = Left(Node) /\ doc' \in [DOMAIN doc' -> ValueRecs]
        /\ \A r \in Left(Node) : r # Node => doc'[r] = doc[r]
        /\ doc'[Node].start = current_ /\ doc'[Node].limit = end + 1
    BY <1>2, <1>3, <1>4, <2>3, PlaceOf
  <2>5. frames' = frames
    BY <2>1 DEF Return
  <2>6. Reads
    BY <1>1, <2>1, <2>4, <2>5 DEF Reads
  <2>7. current_' > current_ /\ end + 1 <= Len(text)
    BY <1>2, <2>1, <2>2, NowFacts
  <2>. QED
    BY <2>1, <2>4, <2>6, <2>7 DEF ReadsToken
<1>6. CASE Token(end).type # "]"
  <2>1. /\ current_' = end
        /\ frames' = Append(frames, [kind |-> "array", name |-> Index(0)])
        /\ doc' = Member(e, Append(Node, Index(0))) /\ pc' = "value"
        /\ UNCHANGED <<lastValue_, lastValueEnd_>>
    BY <1>6 DEF BeginArray, Array
  <2>. HIDE DEF k
  <2>2. /\ DOMAIN d = Left(Node) /\ d \in [Left(Node) -> ValueRecs] /\ Node \in Left(Node)
        /\ \A r \in Left(Node) : r # Node => d[r] = doc[r]
        /\ d[Node].type = "array"
    BY <1>3, <1>4, PayloadOf
  <2>. HIDE DEF d
  <2>3. /\ e \in [Left(Node) -> ValueRecs]
        /\ \A r \in Left(Node) : r # Node => e[r] = d[r]
        /\ e[Node].type = d[Node].type /\ e[Node].start = current_
    BY <1>2, <2>2, StartedOf
  <2>. HIDE DEF e
  <2>. DEFINE q == Append(Node, Index(0))  P == Left(Node)
  <2>4. q \in Seq(Steps) /\ P \in SUBSET Seq(Steps)
    <3>1. Index(0) \in Steps /\ Node \in Seq(Steps)
      BY NowFacts DEF Index, Steps
    <3>2. P \in SUBSET Seq(Steps)
      BY DEF Left, Typed
    <3>. QED
      BY <3>1, <3>2, AppendProperties
  <2>5. doc' = Member(e, q) /\ e \in [P -> ValueRecs] /\ Node \in P
    BY <2>1, <2>2, <2>3
  <2>. HIDE DEF q, P
  <2>6. /\ DOMAIN doc' = P \cup {q} /\ doc' \in [P \cup {q} -> ValueRecs]
        /\ \A r \in P : doc'[r] = e[r]
    BY <2>4, <2>5, MemberOf
  <2>7. IsIndex(Index(0))
    BY DEF IsIndex, Index
  <2>8. /\ doc'[Node].type = "array" /\ doc'[Node].start = current_
        /\ \A r \in P : r # Node => doc'[r] = doc[r]
    BY <2>2, <2>3, <2>5, <2>6 DEF P
  <2>9. current_' > current_
    BY <1>2, <2>1
  <2>. QED
    BY <1>1, <2>1, <2>6, <2>7, <2>8, <2>9 DEF Opens, q, P
<1>. QED
  BY <1>5, <1>6

\* A scalar that does not decode is an error.
LEMMA ScalarFails ==
    ASSUME Typed, TreeInv, ReadScalar, Undecoded PROVE Fails /\ current_' = end
<1>1. /\ pc = "value" /\ current_' = end /\ doc' = doc
      /\ addError(current_, end) /\ successful' = FALSE
  BY DEF ReadScalar, Value
<1>2. Collected(doc') /\ Remember(Node) /\ Return(frames, FALSE) /\ UNCHANGED given
  BY DEF ReadScalar
<1>3. doc \in [Paths -> ValueRecs]
  BY DEF Typed
<1>4. DOMAIN doc' = Paths /\ doc' \in [Paths -> ValueRecs] /\ \A r \in Paths : doc'[r].type = doc[r].type
  BY <1>1, <1>3 DEF Paths
<1>. QED
  BY <1>1, <1>2, <1>4 DEF Fails

\* A token that begins no value is an error.
LEMMA NothingFails ==
    ASSUME Typed, TreeInv, NoValueThere PROVE Fails /\ current_' = end
<1>1. /\ pc = "value" /\ current_' = end
      /\ doc' = Limited(Started(doc, Node, current_), Node, end)
      /\ addError(current_, end) /\ successful' = FALSE
  BY DEF NoValueThere, Value
<1>2. /\ Collected(doc') /\ Return(frames, FALSE) /\ UNCHANGED given
      /\ UNCHANGED <<lastValue_, lastValueEnd_>>
  BY DEF NoValueThere
<1>. DEFINE P == Paths  e == Started(doc, Node, current_)
<1>3. doc \in [P -> ValueRecs] /\ Node \in P /\ current_ \in Int /\ end \in Int
  BY <1>1, NowFacts DEF Typed, TreeInv
<1>. HIDE DEF P
<1>4. e \in [P -> ValueRecs] /\ e[Node].type = doc[Node].type /\ \A r \in P : r # Node => e[r] = doc[r]
  BY <1>3, StartedOf
<1>5. doc' = Limited(e, Node, end)
  BY <1>1
<1>. HIDE DEF e
<1>6. /\ DOMAIN doc' = P /\ doc' \in [P -> ValueRecs]
      /\ doc'[Node].type = e[Node].type /\ \A r \in P : r # Node => doc'[r] = e[r]
  BY <1>3, <1>4, <1>5, LimitedOf
<1>7. \A r \in P : doc'[r].type = doc[r].type
  BY <1>4, <1>6
<1>. QED
  BY <1>1, <1>2, <1>6, <1>7 DEF Fails, P

\* The container of the value at hand is in the document, of the kind of its frame.
LEMMA OwnPath ==
    ASSUME Typed, StackInv, TreeInv, frames # <<>>
    PROVE  /\ Path(Front(frames)) = Front(Node) /\ Front(Node) = SubSeq(Node, 1, Len(frames) - 1)
           /\ Front(Node) \in Paths /\ doc[Front(Node)].type = Top.kind
           /\ Node \in Seq(Steps) /\ Node # <<>> /\ Last(Node) = Top.name
           /\ Top.kind = "array" <=> IsIndex(Top.name)
           /\ Top \in Frames /\ Top = frames[Len(frames)] /\ Len(frames) \in DOMAIN frames
<1>1. frames \in Seq(Frames) /\ DOMAIN frames = 1 .. Len(frames)
  BY LenProperties DEF Typed
<1>2. Len(frames) \in Nat \ {0} /\ Len(frames) \in DOMAIN frames /\ Top = frames[Len(frames)]
  <2>1. Len(frames) \in Nat \ {0} /\ Last(frames) = frames[Len(frames)]
    BY <1>1, FrontAndLast
  <2>2. Len(frames) \in 1 .. Len(frames)
    BY <2>1
  <2>. QED
    BY <1>1, <2>1, <2>2 DEF Top
<1>3. /\ Path(Front(frames)) = Front(Node) /\ Node # <<>> /\ Last(Node) = Top.name
      /\ Top \in Frames /\ Node \in Seq(Steps) /\ Len(Node) = Len(frames)
  BY <1>1, PathFront, PathOf DEF Node, Top
<1>4. Front(Node) = SubSeq(Node, 1, Len(frames) - 1)
  BY <1>3 DEF Front
<1>5. Front(Node) \in Paths /\ doc[Front(Node)].type = Top.kind
  BY <1>2, <1>4 DEF TreeInv
<1>6. Top.kind = "array" <=> IsIndex(Top.name)
  BY <1>2 DEF StackInv
<1>. QED
  BY <1>2, <1>3, <1>4, <1>5, <1>6

\* A container is left in one way, with or without an error.
LEMMA LeaveLeaves ==
    ASSUME Typed, StackInv, TreeInv, frames # <<>>, NEW ok, Leave(ok),
           pc \in InObject \cup {"separator", "recover"}, UNCHANGED <<successful, errors_>>
    PROVE  Leaves(ok) /\ current_' = end
<1>. DEFINE P == Paths  own == Front(Node)
<1>1. Path(Front(frames)) = own /\ own \in P
  BY OwnPath
<1>2. /\ current_' = end /\ Return(Front(frames), ok) /\ doc' = Limited(doc, own, end)
      /\ Remember(own) /\ UNCHANGED <<given, commentsBefore_, notes>>
  BY <1>1 DEF Leave
<1>3. doc \in [P -> ValueRecs] /\ end \in Int
  BY NowFacts DEF Typed
<1>. HIDE DEF P, own
<1>4. /\ DOMAIN doc' = P /\ doc' \in [P -> ValueRecs]
      /\ \A r \in P : r # own => doc'[r] = doc[r]
      /\ doc'[own].type = doc[own].type /\ doc'[own].start = doc[own].start /\ doc'[own].limit = end
  BY <1>1, <1>2, <1>3, LimitedOf
<1>. QED
  BY <1>2, <1>4 DEF Leaves, P, own

\* A member or an element is there before it is read.
Adds ==
    /\ frames # <<>> /\ pc \in {"colon", "separator"} /\ pc' = "value"
    /\ frames' \in Seq(Frames) /\ frames' # <<>>
    /\ Front(frames') = Front(frames) /\ Last(frames').kind = Top.kind
    /\ IsIndex(Last(frames').name) <=> IsIndex(Top.name)
    /\ pc = "colon" => Last(frames') = Top /\ frames' = frames
    /\ pc = "separator" => Last(frames').name = Index(Top.name.index + 1)
    /\ current_' > current_
    /\ Node' \in Seq(Steps) /\ Node' # <<>> /\ Front(Node') = Front(Node)
    /\ Last(Node') = Last(frames').name
    /\ DOMAIN doc' = Paths \cup {Node'} /\ doc' \in [DOMAIN doc' -> ValueRecs]
    /\ \A r \in Paths : doc'[r] = doc[r]
    /\ UNCHANGED <<given, successful, errors_, comments>>

\* A member or element is put where there was none.
LEMMA MemberAdds ==
    ASSUME Typed, NEW fs \in Seq(Frames), fs # <<>>, doc' = Member(doc, Path(fs))
    PROVE  /\ DOMAIN doc' = Paths \cup {Path(fs)} /\ doc' \in [DOMAIN doc' -> ValueRecs]
           /\ \A r \in Paths : doc'[r] = doc[r]
<1>. DEFINE P == Paths  q == Path(fs)
<1>1. P \in SUBSET Seq(Steps) /\ doc \in [P -> ValueRecs] /\ q \in Seq(Steps)
  BY PathOf DEF Typed
<1>. HIDE DEF P, q
<1>2. doc' = Member(doc, q)
  BY DEF q
<1>. DEFINE e == Member(doc, q)
<1>3. DOMAIN e = P \cup {q} /\ e \in [P \cup {q} -> ValueRecs] /\ \A r \in P : e[r] = doc[r]
  BY <1>1, MemberOf
<1>4. doc' = e
  BY <1>2
<1>. HIDE DEF e
<1>. QED
  BY <1>3, <1>4 DEF P, q

\* A ":" puts the member in.
LEMMA ColonAdds ==
    ASSUME Typed, StackInv, TreeInv, ReadColon PROVE Adds /\ current_' = end
<1>1. /\ pc = "colon" /\ pc' = "value" /\ token.type # "end" /\ current_' = end
      /\ doc' = Member(doc, Node) /\ frames' = frames
      /\ UNCHANGED <<given, successful, errors_, comments>>
  BY DEF ReadColon, Waits, Is
<1>2. frames # <<>> /\ frames \in Seq(Frames)
  BY <1>1 DEF StackInv, InObject, Typed
<1>3. /\ DOMAIN doc' = Paths \cup {Node} /\ doc' \in [DOMAIN doc' -> ValueRecs]
      /\ \A r \in Paths : doc'[r] = doc[r]
  BY <1>1, <1>2, MemberAdds DEF Node
<1>4. Node' = Node
  BY <1>1 DEF Node
<1>5. /\ Node \in Seq(Steps) /\ Node # <<>> /\ Last(Node) = Top.name
  BY <1>2, OwnPath
<1>6. current_' > current_
  <2>1. end = current_ + 1 /\ current_ \in Nat
    BY <1>1, NowFacts
  <2>. QED
    BY <1>1, <2>1
<1>. QED
  BY <1>1, <1>2, <1>3, <1>4, <1>5, <1>6 DEF Adds, Top

\* A "," puts the next element in.
LEMMA SeparatorAdds ==
    ASSUME Typed, StackInv, TreeInv, ReadSeparator PROVE Adds /\ current_' = end
<1>. DEFINE f == Array(Top.name.index + 1)
<1>1. /\ pc = "separator" /\ pc' = "value" /\ token.type # "end" /\ current_' = end
      /\ frames' = Append(Front(frames), f) /\ doc' = Member(doc, Path(frames'))
      /\ UNCHANGED <<given, successful, errors_, comments>>
  BY DEF ReadSeparator, Waits, Is
<1>2. frames # <<>> /\ frames \in Seq(Frames) /\ Top.kind = "array"
  BY <1>1 DEF StackInv, Typed
<1>3. IsIndex(Top.name) /\ Top.name \in Steps
  BY <1>2, OwnPath DEF Frames
<1>4. Top.name.index \in Nat
  BY <1>3 DEF Steps, IsIndex
<1>5. f \in Frames /\ f.kind = "array" /\ f.name = Index(Top.name.index + 1) /\ IsIndex(f.name)
  BY <1>4 DEF Array, Frames, Index, Steps, IsIndex
<1>6. Front(frames) \in Seq(Frames)
  BY <1>2, FrontAndLast
<1>. HIDE DEF f
<1>7. /\ frames' \in Seq(Frames) /\ frames' # <<>> /\ Path(frames') = Append(Path(Front(frames)), f.name)
      /\ Last(frames') = f /\ Front(frames') = Front(frames)
  BY <1>1, <1>5, <1>6, PathAppend
<1>8. Path(frames') \in Seq(Steps) /\ Path(frames') # <<>> /\ Last(Path(frames')) = f.name
      /\ Front(Path(frames')) = Path(Front(frames))
  BY <1>7, PathFront, PathOf
<1>9. /\ DOMAIN doc' = Paths \cup {Path(frames')} /\ doc' \in [DOMAIN doc' -> ValueRecs]
      /\ \A r \in Paths : doc'[r] = doc[r]
  BY <1>1, <1>7, MemberAdds
<1>10. Node' = Path(frames') /\ Path(Front(frames)) = Front(Node)
  BY <1>2, OwnPath DEF Node
<1>11. current_' > current_
  <2>1. end = current_ + 1 /\ current_ \in Nat
    BY <1>1, NowFacts
  <2>. QED
    BY <1>1, <2>1
<1>. QED
  BY <1>1, <1>2, <1>3, <1>5, <1>7, <1>8, <1>9, <1>10, <1>11 DEF Adds

\* The values and the stack stay, and the reader waits where it waited, moves on to
\* a name or gives up.
Moves ==
    /\ UNCHANGED <<text, features_, frames, doc, lastValue_, lastValueEnd_>>
    /\ current_ <= current_'
    /\ successful' => successful
    /\ pc # "idle" /\ pc' \in Pcs \ {"idle"}
    /\ pc' # "thrown" =>
          /\ pc # "thrown"
          /\ pc' = pc \/ (pc' = "recover" /\ pc \in InObject \cup {"separator"})
             \/ (pc' \in {"name", "commented"} /\ pc \in {"comma", "commented"})
             \/ (pc' = "done" /\ pc = "extra")

Passing ==
    \/ ReadComment \/ StackExceeded \/ ReadNumericName
    \/ NoName \/ NoColon \/ NoComma \/ NoSeparator
    \/ ReadComma \/ ReadAnyComma \/ Skip \/ Finish \/ PushError \/ PushErrorExtra

Kinds ==
    /\ current_' \in current_ .. Len(text)
    /\ \/ (Moves /\ Passing)
       \/ ReadName \/ Adds
       \/ Opens("object", Key(Empty)) \/ Opens("array", Index(0))
       \/ ReadsToken
       \/ (Reads /\ features_.allowDroppedNullPlaceholders)
       \/ Fails
       \/ (Leaves(TRUE) /\ pc # "recover" /\ current_' > current_)
       \/ (Leaves(FALSE) /\ pc = "recover")

\* An error inside a container leaves the document alone.
LEMMA RefuseMoves ==
    ASSUME Typed, pc \in InObject \cup {"separator"}, Refuse
    PROVE  Moves /\ current_' = end
<1>1. /\ current_' = end /\ pc' = "recover" /\ successful' = FALSE
      /\ UNCHANGED <<text, features_, frames, doc>>
  BY DEF Refuse, given
<1>2. UNCHANGED <<lastValue_, lastValueEnd_>>
  BY DEF Refuse, addComment, comments
<1>3. current_ <= end
  BY NowFacts
<1>. QED
  BY <1>1, <1>2, <1>3 DEF Moves, InObject, Pcs

\* A step between values leaves the document alone.
LEMMA MovesOn ==
    ASSUME Typed, StackInv, TreeInv,
           Passing
    PROVE  Moves /\ current_' \in {current_, end}
<1>0. current_ \in Nat /\ end \in Nat /\ current_ <= end
  BY NowFacts
<1>1. CASE ReadComment
  <2>1. /\ current_' = end /\ UNCHANGED <<text, features_, frames, doc, successful>>
        /\ pc' = IF pc = "comma" THEN "commented" ELSE pc
        /\ UNCHANGED <<lastValue_, lastValueEnd_>>
    BY <1>1 DEF ReadComment, addComment, given, comments
  <2>2. pc \in {"value", "extra", "name", "comma", "commented", "separator", "recover"}
    BY <1>1 DEF ReadComment, Skips
  <2>. QED
    BY <1>0, <2>1, <2>2 DEF Moves, Pcs
<1>2. CASE StackExceeded
  BY <1>0, <1>2 DEF StackExceeded, Exceeded, Throw, Moves, Pcs, given, comments
<1>3. CASE ReadNumericName
  BY <1>0, <1>3 DEF ReadNumericName, Waits, Throw, Moves, Pcs, given, comments
<1>4. CASE NoName \/ NoColon \/ NoComma \/ NoSeparator
  BY <1>4, RefuseMoves DEF NoName, NoColon, NoComma, NoSeparator, Waits, InObject
<1>5. CASE ReadComma \/ ReadAnyComma
  <2>1. /\ pc \in {"comma", "commented"} /\ pc' = "name" /\ current_' = end
        /\ UNCHANGED <<text, features_, frames, successful, doc, lastValue_, lastValueEnd_>>
    BY <1>5 DEF ReadComma, ReadAnyComma, Waits, given, comments
  <2>. QED
    BY <1>0, <2>1 DEF Moves, Pcs
<1>6. CASE Skip
  BY <1>0, <1>6 DEF Skip, Waits, Moves, Pcs, given, comments
<1>7. CASE Finish
  BY <1>0, <1>7 DEF Finish, Waits, Moves, Pcs, given
<1>8. CASE PushError \/ PushErrorExtra
  BY <1>0, <1>8 DEF PushError, PushErrorExtra, Moves, Pcs, comments
<1>. QED
  BY <1>1, <1>2, <1>3, <1>4, <1>5, <1>6, <1>7, <1>8 DEF Passing

\* Every step of a call is of one of these kinds.
LEMMA StepKinds ==
    ASSUME Typed, StackInv, TreeInv, Next, ~Parse PROVE Kinds
<1>1. current_ \in current_ .. Len(text) /\ end \in current_ .. Len(text)
  BY NowFacts
<1>2. CASE Passing
  BY <1>1, <1>2, MovesOn DEF Kinds
<1>3. CASE ReadName
  <2>1. current_' = end
    BY <1>3 DEF ReadName
  <2>. QED
    BY <1>1, <1>3, <2>1 DEF Kinds
<1>4. CASE ReadColon \/ ReadSeparator
  BY <1>1, <1>4, ColonAdds, SeparatorAdds DEF Kinds
<1>5. CASE BeginObject
  BY <1>1, <1>5, OpensObject DEF Kinds
<1>6. CASE BeginArray
  <2>1. \/ ReadsToken /\ current_' = end + 1 /\ end + 1 <= Len(text)
        \/ Opens("array", Index(0)) /\ current_' = end
    BY <1>6, ArrayBegins
  <2>2. end \in Nat /\ Len(text) \in Nat /\ current_ \in Nat
    BY NowFacts
  <2>3. current_' \in current_ .. Len(text)
    BY <1>1, <2>1, <2>2
  <2>. QED
    BY <2>1, <2>3 DEF Kinds
<1>7. CASE ReadScalar
  BY <1>1, <1>7, ScalarReads, ScalarFails DEF Kinds
<1>8. CASE DropNull
  <2>1. features_.allowDroppedNullPlaceholders
    BY <1>8 DEF DropNull
  <2>. QED
    BY <1>1, <1>8, <2>1, NullDrops DEF Kinds
<1>9. CASE NoValueThere
  BY <1>1, <1>9, NothingFails DEF Kinds
<1>10. CASE EndObjectEarly \/ EndObject \/ EndArray
  <2>1. /\ Leave(TRUE) /\ UNCHANGED <<successful, errors_>>
        /\ pc \in InObject \cup {"separator"} /\ token.type # "end"
    BY <1>10 DEF EndObjectEarly, EndObject, EndArray, Waits, Is, InObject
  <2>2. frames # <<>>
    BY <2>1 DEF StackInv
  <2>3. Leaves(TRUE) /\ current_' = end
    BY <2>1, <2>2, LeaveLeaves
  <2>4. current_ \in Nat /\ end = current_ + 1
    BY <2>1, NowFacts
  <2>5. current_' > current_
    BY <2>3, <2>4
  <2>. QED
    BY <1>1, <2>1, <2>3, <2>5 DEF Kinds, InObject
<1>11. CASE Recovered
  <2>1. Leave(FALSE) /\ UNCHANGED <<successful, errors_>> /\ pc = "recover"
    BY <1>11 DEF Recovered, Waits
  <2>2. frames # <<>>
    BY <2>1 DEF StackInv
  <2>3. Leaves(FALSE) /\ current_' = end
    BY <2>1, <2>2, LeaveLeaves
  <2>. QED
    BY <1>1, <2>1, <2>3 DEF Kinds
<1>. QED
  BY <1>2, <1>3, <1>4, <1>5, <1>6, <1>7, <1>8, <1>9, <1>10, <1>11 DEF Next, Step, Passing

-----------------------------------------------------------------------------
(* The stack and the tree *)

\* What stays of the paths of the containers when the stack keeps its first m frames
LEMMA FramesKept ==
    ASSUME Typed, frames' \in Seq(Frames), NEW m \in Nat, m <= Len(frames), m <= Len(frames'),
           \A n \in 1 .. m : frames'[n] = frames[n]
    PROVE  /\ \A n \in 1 .. m + 1 :
                 /\ SubSeq(Node', 1, n - 1) = SubSeq(Node, 1, n - 1)
                 /\ SubSeq(Node, 1, n - 1) \in Seq(Steps) /\ Len(SubSeq(Node, 1, n - 1)) = n - 1
           /\ Node' = Path(frames') /\ Node' \in Seq(Steps) /\ Len(Node') = Len(frames')
<1>1. /\ Node \in Seq(Steps) /\ Len(Node) = Len(frames) /\ Len(frames) \in Nat
      /\ \A k \in 1 .. Len(frames) : Node[k] = frames[k].name
  BY PathOf DEF Typed, Node
<1>2. Node' = Path(frames')
  BY DEF Node
<1>3. /\ Node' \in Seq(Steps) /\ Len(Node') = Len(frames') /\ Len(frames') \in Nat
      /\ \A k \in 1 .. Len(frames') : Node'[k] = frames'[k].name
  BY <1>2, PathOf
<1>4. ASSUME NEW n \in 1 .. m + 1
      PROVE  /\ SubSeq(Node', 1, n - 1) = SubSeq(Node, 1, n - 1)
             /\ SubSeq(Node, 1, n - 1) \in Seq(Steps) /\ Len(SubSeq(Node, 1, n - 1)) = n - 1
  <2>1. n - 1 \in Nat /\ n - 1 <= Len(Node) /\ n - 1 <= Len(Node')
    BY <1>1, <1>3
  <2>2. \A k \in 1 .. n - 1 : Node'[k] = Node[k]
    BY <1>1, <1>3
  <2>3. SubSeq(Node', 1, n - 1) = SubSeq(Node, 1, n - 1)
    BY <1>1, <1>3, <2>1, <2>2, SamePart
  <2>4. n - 1 \in 0 .. Len(Node)
    BY <1>1, <2>1
  <2>. QED
    BY <1>1, <2>3, <2>4, FirstPart
<1>. QED
  BY <1>2, <1>3, <1>4

\* The stack with one more frame
LEMMA Pushed ==
    ASSUME Typed, NEW f \in Frames, frames' = Append(frames, f)
    PROVE  /\ frames' \in Seq(Frames) /\ frames' # <<>> /\ Last(frames') = f
           /\ Len(frames') = Len(frames) + 1
           /\ \A n \in 1 .. Len(frames) : frames'[n] = frames[n]
           /\ frames'[Len(frames) + 1] = f
           /\ Node' = Append(Node, f.name) /\ Node' \in Seq(Steps)
           /\ \A n \in 1 .. Len(frames) + 1 : SubSeq(Node', 1, n - 1) = SubSeq(Node, 1, n - 1)
           /\ SubSeq(Node, 1, Len(frames)) = Node
<1>1. frames \in Seq(Frames) /\ Len(frames) \in Nat /\ Node \in Seq(Steps) /\ Len(Node) = Len(frames)
  BY NowFacts DEF Typed
<1>2. /\ frames' \in Seq(Frames) /\ frames' # <<>> /\ Path(frames') = Append(Path(frames), f.name)
      /\ Len(frames') = Len(frames) + 1 /\ Last(frames') = f
  BY <1>1, PathAppend
<1>3. /\ \A n \in 1 .. Len(frames) : frames'[n] = frames[n]
      /\ frames'[Len(frames) + 1] = f
  BY <1>1, AppendProperties
<1>4. Len(frames) <= Len(frames) /\ Len(frames) <= Len(frames')
  BY <1>1, <1>2
<1>5. /\ \A n \in 1 .. Len(frames) + 1 : SubSeq(Node', 1, n - 1) = SubSeq(Node, 1, n - 1)
      /\ Node' = Path(frames') /\ Node' \in Seq(Steps)
  BY <1>1, <1>2, <1>3, <1>4, FramesKept
<1>6. SubSeq(Node, 1, Len(frames)) = Node
  <2>1. Len(frames) \in 0 .. Len(Node)
    BY <1>1
  <2>2. /\ SubSeq(Node, 1, Len(frames)) \in Seq(Steps)
        /\ Len(SubSeq(Node, 1, Len(frames))) = Len(frames)
        /\ \A k \in 1 .. Len(frames) : SubSeq(Node, 1, Len(frames))[k] = Node[k]
    BY <1>1, <2>1, FirstPart
  <2>. QED
    BY <1>1, <2>2, SeqEqual
<1>. QED
  BY <1>2, <1>3, <1>5, <1>6 DEF Node

\* The stack without its last frame
LEMMA Popped ==
    ASSUME Typed, frames # <<>>, frames' = Front(frames)
    PROVE  /\ frames' \in Seq(Frames) /\ Len(frames') = Len(frames) - 1 /\ Len(frames) \in Nat \ {0}
           /\ \A n \in 1 .. Len(frames) - 1 :
                 frames'[n] = frames[n] /\ SubSeq(Node', 1, n - 1) = SubSeq(Node, 1, n - 1)
           /\ Node' = Front(Node) /\ Node' \in Seq(Steps)
<1>1. frames \in Seq(Frames)
  BY DEF Typed
<1>2. /\ frames' \in Seq(Frames) /\ Len(frames') = Len(frames) - 1 /\ Len(frames) \in Nat \ {0}
      /\ \A n \in 1 .. Len(frames) - 1 : frames'[n] = frames[n]
      /\ Path(frames') = Front(Path(frames))
  BY <1>1, FrontAndLast, PathFront
<1>. DEFINE m == Len(frames) - 1
<1>3. m \in Nat /\ m <= Len(frames) /\ m <= Len(frames') /\ \A n \in 1 .. m : frames'[n] = frames[n]
  BY <1>2
<1>. HIDE DEF m
<1>4. /\ \A n \in 1 .. m + 1 : SubSeq(Node', 1, n - 1) = SubSeq(Node, 1, n - 1)
      /\ Node' = Path(frames') /\ Node' \in Seq(Steps)
  BY <1>2, <1>3, FramesKept
<1>5. \A n \in 1 .. Len(frames) - 1 : n \in 1 .. m + 1
  BY <1>2 DEF m
<1>6. Node = Path(frames)
  BY DEF Node
<1>. QED
  BY <1>2, <1>4, <1>5, <1>6

\* The stack with another last frame
LEMMA Replaced ==
    ASSUME Typed, frames # <<>>, frames' \in Seq(Frames), frames' # <<>>,
           Front(frames') = Front(frames)
    PROVE  /\ Len(frames') = Len(frames) /\ Len(frames) \in Nat \ {0}
           /\ \A n \in 1 .. Len(frames) - 1 : frames'[n] = frames[n]
           /\ Last(frames') = frames'[Len(frames)] /\ Top = frames[Len(frames)]
           /\ \A n \in 1 .. Len(frames) : SubSeq(Node', 1, n - 1) = SubSeq(Node, 1, n - 1)
           /\ Front(Node') = Front(Node) /\ Node' # <<>> /\ Node' \in Seq(Steps)
           /\ Last(Node') = Last(frames').name
<1>1. frames \in Seq(Frames)
  BY DEF Typed
<1>2. /\ Len(frames) \in Nat \ {0} /\ Len(Front(frames)) = Len(frames) - 1
      /\ \A n \in 1 .. Len(frames) - 1 : Front(frames)[n] = frames[n]
      /\ Last(frames) = frames[Len(frames)]
  BY <1>1, FrontAndLast
<1>3. /\ Len(frames') \in Nat \ {0} /\ Len(Front(frames')) = Len(frames') - 1
      /\ \A n \in 1 .. Len(frames') - 1 : Front(frames')[n] = frames'[n]
      /\ Last(frames') = frames'[Len(frames')]
  BY FrontAndLast
<1>4. Len(frames') = Len(frames) /\ \A n \in 1 .. Len(frames) - 1 : frames'[n] = frames[n]
  BY <1>2, <1>3
<1>5. /\ Path(frames') # <<>> /\ Front(Path(frames')) = Path(Front(frames))
      /\ Last(Path(frames')) = Last(frames').name
      /\ Front(Path(frames)) = Path(Front(frames))
  BY <1>1, PathFront
<1>. DEFINE m == Len(frames) - 1
<1>6. m \in Nat /\ m <= Len(frames) /\ m <= Len(frames') /\ \A n \in 1 .. m : frames'[n] = frames[n]
  BY <1>2, <1>4
<1>. HIDE DEF m
<1>7. /\ \A n \in 1 .. m + 1 : SubSeq(Node', 1, n - 1) = SubSeq(Node, 1, n - 1)
      /\ Node' = Path(frames') /\ Node' \in Seq(Steps)
  BY <1>6, FramesKept
<1>8. \A n \in 1 .. Len(frames) : n \in 1 .. m + 1
  BY <1>2 DEF m
<1>9. Node = Path(frames) /\ Top = Last(frames)
  BY DEF Node, Top
<1>. QED
  BY <1>2, <1>3, <1>4, <1>5, <1>7, <1>8, <1>9

\* A name is read.
LEMMA NameReads ==
    ASSUME Typed, StackInv, ReadName
    PROVE  /\ frames # <<>> /\ Top.kind = "object" /\ pc = "name" /\ pc' = "colon"
           /\ frames' \in Seq(Frames) /\ frames' # <<>> /\ Front(frames') = Front(frames)
           /\ Last(frames').kind = "object" /\ Last(frames').name = Key(token.name)
           /\ token.name \in Names /\ token.type = "string"
           /\ current_ < Len(text) /\ current_' = current_ + 1 /\ token = text[current_ + 1]
           /\ doc' = doc /\ UNCHANGED <<given, successful, errors_, comments>>
<1>. DEFINE f == Object(token.name)
<1>1. /\ pc = "name" /\ pc' = "colon" /\ token.type = "string" /\ current_' = end
      /\ frames' = Append(Front(frames), f) /\ doc' = doc
      /\ UNCHANGED <<given, successful, errors_, comments>>
  BY DEF ReadName, Waits, Is
<1>2. frames # <<>> /\ Top.kind = "object" /\ frames \in Seq(Frames)
  BY <1>1 DEF StackInv, InObject, Typed
<1>3. /\ token.name \in Names /\ current_ < Len(text) /\ end = current_ + 1
      /\ token = text[current_ + 1]
  BY <1>1, NowFacts, TokenFields
<1>4. f \in Frames /\ f.kind = "object" /\ f.name = Key(token.name)
  BY <1>3 DEF Object, Frames, Steps, Key
<1>5. Front(frames) \in Seq(Frames)
  BY <1>2, FrontAndLast
<1>. HIDE DEF f
<1>6. frames' \in Seq(Frames) /\ frames' # <<>> /\ Last(frames') = f /\ Front(frames') = Front(frames)
  BY <1>1, <1>4, <1>5, PathAppend
<1>. QED
  BY <1>1, <1>2, <1>3, <1>4, <1>6

\* A call of parse
LEMMA Begun ==
    ASSUME Typed, Parse
    PROVE  \E t \in Texts \cup Again :
              /\ text' = t /\ pc' = "value" /\ current_' = 0 /\ frames' = <<>>
              /\ successful' = TRUE /\ doc' = NewRoot /\ errors_' = <<>>
              /\ calls' = Append(calls, "parse") /\ features_' = features_
              /\ notes' = {} /\ lastValue_' = NoValue /\ lastValueEnd_' = 0 /\ commentsBefore_' = <<>>
<1>1. PICK t \in IF pc = "idle" THEN {text} ELSE Again : Begin(t)
  BY DEF Parse
<1>2. t \in Texts \cup Again
  BY <1>1 DEF Typed
<1>. QED
  BY <1>1, <1>2 DEF Begin, Parse

\* A frame that replaces the one at the top
LEMMA StackReplaced ==
    ASSUME Typed, StackInv, frames # <<>>, frames' \in Seq(Frames), frames' # <<>>,
           Front(frames') = Front(frames), Last(frames').kind = Top.kind,
           IsIndex(Last(frames').name) <=> IsIndex(Top.name),
           pc' \in {"value", "colon"}, pc' = "colon" => Top.kind = "object"
    PROVE  StackInv'
<1>1. /\ Len(frames') = Len(frames) /\ Len(frames) \in Nat \ {0}
      /\ \A n \in 1 .. Len(frames) - 1 : frames'[n] = frames[n]
      /\ Last(frames') = frames'[Len(frames)] /\ Top = frames[Len(frames)]
  BY Replaced
<1>2. DOMAIN frames = 1 .. Len(frames) /\ DOMAIN frames' = 1 .. Len(frames)
  BY <1>1, LenProperties DEF Typed
<1>3. ASSUME NEW n \in DOMAIN frames'
      PROVE  frames'[n].kind = "array" <=> IsIndex(frames'[n].name)
  <2>1. frames[n].kind = "array" <=> IsIndex(frames[n].name)
    BY <1>2 DEF StackInv
  <2>2. CASE n = Len(frames)
    BY <1>1, <2>1, <2>2
  <2>3. CASE n # Len(frames)
    <3>1. n \in 1 .. Len(frames) - 1
      BY <1>1, <1>2, <2>3
    <3>. QED
      BY <1>1, <2>1, <3>1
  <2>. QED
    BY <2>2, <2>3
<1>4. Len(frames') <= stackLimit_g
  BY <1>1 DEF StackInv
<1>5. Top' = Last(frames')
  BY DEF Top
<1>. QED
  BY <1>3, <1>4, <1>5 DEF StackInv, InObject

\* What a frame is made of
LEMMA FrameFields ==
    ASSUME NEW f \in Frames PROVE f.kind \in {"object", "array"} /\ f.name \in Steps
BY DEF Frames

\* What a call of readValue returns to
LEMMA StackReturns ==
    ASSUME Typed, StackInv, NEW fs \in Seq(Frames), NEW ok, Return(fs, ok),
           Len(fs) <= stackLimit_g,
           \A n \in DOMAIN fs : fs[n].kind = "array" <=> IsIndex(fs[n].name)
    PROVE  StackInv'
<1>1. frames' = fs
  BY DEF Return
<1>2. CASE fs = <<>>
  <2>1. pc' = "extra"
    BY <1>2 DEF Return
  <2>. QED
    BY <1>1, <1>2, <2>1 DEF StackInv, InObject
<1>3. CASE fs # <<>>
  <2>1. Last(fs).kind \in {"object", "array"}
    BY <1>3, FrontAndLast, FrameFields
  <2>2. \/ pc' = "recover"
        \/ pc' = "comma" /\ Last(fs).kind = "object"
        \/ pc' = "separator" /\ Last(fs).kind = "array"
    BY <1>3, <2>1 DEF Return
  <2>3. Top' = Last(fs)
    BY <1>1 DEF Top
  <2>. QED
    BY <1>1, <1>3, <2>1, <2>2, <2>3 DEF StackInv, InObject
<1>. QED
  BY <1>2, <1>3

\* The stack fits the place of the call, and stackLimit_g holds.
LEMMA StackStays ==
    ASSUME Typed, StackInv, TreeInv, Next PROVE StackInv'
<1>1. CASE Parse
  <2>1. frames' = <<>> /\ pc' = "value"
    BY <1>1, Begun
  <2>2. Len(<<>>) <= stackLimit_g /\ DOMAIN <<>> = {}
    BY StackAssumption
  <2>. QED
    BY <2>1, <2>2 DEF StackInv, InObject
<1>2. CASE ~Parse
  <2>0. Kinds
    BY <1>2, StepKinds
  <2>1. CASE Moves
    <3>1. frames' = frames /\ Top' = Top /\ pc' # "idle"
      BY <2>1 DEF Moves, Top
    <3>2. pc' \in InObject \cup {"separator", "recover"} => frames # <<>>
      BY <2>1 DEF Moves, StackInv, InObject
    <3>3. pc' \in InObject => Top.kind = "object"
      BY <2>1 DEF Moves, StackInv, InObject
    <3>4. (pc' = "separator" => Top.kind = "array") /\ (pc' \in {"extra", "done"} => frames = <<>>)
      BY <2>1 DEF Moves, StackInv, InObject
    <3>. QED
      BY <3>1, <3>2, <3>3, <3>4 DEF StackInv
  <2>2. CASE ReadName
    <3>1. Top \in Frames /\ (Top.kind = "array" <=> IsIndex(Top.name))
      BY <2>2, NameReads, OwnPath
    <3>2. ~IsIndex(Key(token.name))
      BY DEF IsIndex, Key
    <3>3. IsIndex(Last(frames').name) <=> IsIndex(Top.name)
      BY <2>2, <3>1, <3>2, NameReads
    <3>. QED
      BY <2>2, <3>3, NameReads, StackReplaced
  <2>3. CASE Adds
    BY <2>3, StackReplaced DEF Adds
  <2>4. ASSUME NEW kind \in {"object", "array"}, NEW name \in Steps, Opens(kind, name)
        PROVE  StackInv'
    <3>. DEFINE f == [kind |-> kind, name |-> name]
    <3>1. f \in Frames /\ f.kind = kind /\ f.name = name
      BY DEF Frames
    <3>2. /\ frames' = Append(frames, f) /\ (kind = "array" <=> IsIndex(name))
          /\ \/ kind = "object" /\ pc' = "name"
             \/ kind = "array" /\ pc' = "value"
          /\ Nodes <= stackLimit_g
      <4>1. Nodes \in Nat /\ stackLimit_g \in Nat
        BY StackAssumption, NowFacts DEF Nodes
      <4>2. ~(Nodes > stackLimit_g)
        BY <2>4 DEF Opens, Exceeded
      <4>. QED
        BY <2>4, <4>1, <4>2 DEF Opens
    <3>. HIDE DEF f
    <3>3. /\ frames' \in Seq(Frames) /\ frames' # <<>> /\ Last(frames') = f
          /\ Len(frames') = Nodes
          /\ \A n \in 1 .. Len(frames) : frames'[n] = frames[n]
          /\ frames'[Len(frames) + 1] = f
      BY <3>1, <3>2, Pushed DEF Nodes
    <3>4. Len(frames) \in Nat /\ DOMAIN frames = 1 .. Len(frames) /\ DOMAIN frames' = 1 .. Len(frames) + 1
      BY <3>3, NowFacts, LenProperties DEF Typed, Nodes
    <3>5. ASSUME NEW n \in DOMAIN frames'
          PROVE  frames'[n].kind = "array" <=> IsIndex(frames'[n].name)
      <4>1. CASE n = Len(frames) + 1
        BY <3>1, <3>2, <3>3, <4>1
      <4>2. CASE n # Len(frames) + 1
        <5>1. n \in 1 .. Len(frames)
          BY <3>4, <4>2
        <5>. QED
          BY <3>3, <3>4, <5>1 DEF StackInv
      <4>. QED
        BY <4>1, <4>2
    <3>6. Top' = f
      BY <3>3 DEF Top
    <3>. QED
      BY <3>1, <3>2, <3>3, <3>5, <3>6 DEF StackInv, InObject
  <2>5. CASE Reads \/ Fails
    <3>1. Return(frames, TRUE) \/ Return(frames, FALSE)
      BY <2>5 DEF Reads, Fails
    <3>2. frames \in Seq(Frames)
      BY DEF Typed
    <3>. QED
      BY <3>1, <3>2, StackReturns DEF StackInv
  <2>6. CASE Leaves(TRUE) \/ Leaves(FALSE)
    <3>1. frames # <<>> /\ (Return(Front(frames), TRUE) \/ Return(Front(frames), FALSE))
      BY <2>6 DEF Leaves
    <3>2. frames' = Front(frames)
      BY <3>1 DEF Return
    <3>3. /\ Front(frames) \in Seq(Frames) /\ Len(Front(frames)) = Len(frames) - 1
          /\ Len(frames) \in Nat \ {0}
          /\ \A n \in 1 .. Len(frames) - 1 : Front(frames)[n] = frames[n]
      BY <3>1, <3>2, Popped
    <3>4. DOMAIN Front(frames) = 1 .. Len(frames) - 1 /\ DOMAIN frames = 1 .. Len(frames)
      BY <3>3, LenProperties DEF Typed
    <3>5. Len(Front(frames)) <= stackLimit_g
      BY <3>3, StackAssumption DEF StackInv
    <3>6. ASSUME NEW n \in DOMAIN Front(frames)
          PROVE  Front(frames)[n].kind = "array" <=> IsIndex(Front(frames)[n].name)
      <4>1. n \in DOMAIN frames /\ Front(frames)[n] = frames[n]
        BY <3>3, <3>4
      <4>. QED
        BY <4>1 DEF StackInv
    <3>. QED
      BY <3>1, <3>3, <3>5, <3>6, StackReturns
  <2>7. Key(Empty) \in Steps /\ Index(0) \in Steps
    BY TextsAssumption DEF Key, Index, Steps
  <2>. QED
    BY <2>0, <2>1, <2>2, <2>3, <2>4, <2>5, <2>6, <2>7 DEF Kinds, ReadsToken
<1>. QED
  BY <1>1, <1>2

\* What is left when the value at hand gets a payload is a tree, and no container
\* that is open is lost.
LEMMA TreeLeft ==
    ASSUME Typed, TreeInv, Node \in Paths,
           \A r \in Left(Node) : r # Node => doc'[r] = doc[r]
    PROVE  /\ Root \in Left(Node) /\ Node \in Left(Node) /\ Left(Node) \in SUBSET Paths
           /\ \A q \in Left(Node) : q # Root =>
                 /\ Front(q) \in Left(Node) /\ Front(q) # Node
                 /\ doc'[Front(q)].type = IF IsIndex(Last(q)) THEN "array" ELSE "object"
           /\ \A n \in DOMAIN frames :
                 /\ SubSeq(Node, 1, n - 1) \in Left(Node)
                 /\ doc'[SubSeq(Node, 1, n - 1)].type = frames[n].kind
<1>1. Paths \in SUBSET Seq(Steps) /\ Node \in Seq(Steps) /\ Root \in Paths
  BY DEF Typed, TreeInv
<1>2. Root \in Left(Node) /\ Node \in Left(Node)
  BY <1>1, AboveOrder DEF Left, Root
<1>3. ASSUME NEW q \in Left(Node), q # Root
      PROVE  /\ Front(q) \in Left(Node) /\ Front(q) # Node
             /\ doc'[Front(q)].type = IF IsIndex(Last(q)) THEN "array" ELSE "object"
  <2>1. /\ q \in Paths /\ q \in Seq(Steps) /\ q # <<>> /\ ~Above(Node, q)
        /\ Front(q) \in Paths
        /\ doc[Front(q)].type = IF IsIndex(Last(q)) THEN "array" ELSE "object"
    BY <1>1, <1>3 DEF Left, Root, TreeInv
  <2>2. Above(Node, q) <=> Node = Front(q) \/ Above(Node, Front(q))
    BY <1>1, <2>1, AboveFront
  <2>3. Front(q) \in Left(Node) /\ Front(q) # Node
    BY <2>1, <2>2 DEF Left
  <2>. QED
    BY <2>1, <2>3
<1>4. ASSUME NEW n \in DOMAIN frames
      PROVE  /\ SubSeq(Node, 1, n - 1) \in Left(Node)
             /\ doc'[SubSeq(Node, 1, n - 1)].type = frames[n].kind
  <2>. DEFINE p == SubSeq(Node, 1, n - 1)
  <2>1. p \in Paths /\ doc[p].type = frames[n].kind
    BY DEF TreeInv
  <2>2. Len(Node) = Len(frames) /\ n \in 1 .. Len(frames) /\ Len(frames) \in Nat
    BY NowFacts, LenProperties DEF Typed
  <2>3. n - 1 \in 0 .. Len(Node)
    BY <2>2
  <2>4. Len(p) = n - 1
    BY <1>1, <2>3, FirstPart
  <2>5. Len(p) < Len(Node) /\ p # Node
    BY <2>2, <2>4
  <2>. HIDE DEF p
  <2>6. ~Above(Node, p)
    <3>1. Above(Node, p) => Len(Node) < Len(p)
      BY DEF Above
    <3>. QED
      BY <2>2, <2>4, <2>5, <3>1
  <2>7. p \in Left(Node) /\ p # Node
    BY <2>1, <2>5, <2>6 DEF Left
  <2>. QED
    BY <2>1, <2>7 DEF p
<1>. QED
  BY <1>2, <1>3, <1>4 DEF Left

\* Where the types of the values stay
LEMMA TreeTypes ==
    ASSUME Typed, TreeInv, DOMAIN doc' = Paths, \A r \in Paths : doc'[r].type = doc[r].type,
           frames' \in Seq(Frames),
           \A n \in DOMAIN frames' : /\ n \in DOMAIN frames /\ frames'[n].kind = frames[n].kind
                                     /\ SubSeq(Node', 1, n - 1) = SubSeq(Node, 1, n - 1),
           pc' = "value" => Node' \in Paths
    PROVE  TreeInv'
<1>1. Paths' = Paths
  BY DEF Paths
<1>2. \A n \in DOMAIN frames' :
        /\ SubSeq(Node', 1, n - 1) \in Paths
        /\ doc'[SubSeq(Node', 1, n - 1)].type = frames'[n].kind
  BY DEF TreeInv
<1>. QED
  BY <1>1, <1>2 DEF TreeInv

\* Values are in containers, and those on the stack are there.
LEMMA TreeStays ==
    ASSUME Typed, StackInv, TreeInv, Next PROVE TreeInv'
<1>0. /\ Paths \in SUBSET Seq(Steps) /\ doc \in [Paths -> ValueRecs] /\ frames \in Seq(Frames)
      /\ DOMAIN frames = 1 .. Len(frames) /\ Len(frames) \in Nat /\ Node \in Seq(Steps)
      /\ DOMAIN doc = Paths
  BY NowFacts, LenProperties DEF Typed, Paths
<1>1. CASE Parse
  <2>1. frames' = <<>> /\ doc' = NewRoot
    BY <1>1, Begun
  <2>2. Paths' = {Root} /\ DOMAIN frames' = {}
    BY <2>1 DEF Paths, NewRoot
  <2>3. Node' = Root
    BY <2>1, <2>2 DEF Node, Path, Root
  <2>. QED
    BY <2>2, <2>3 DEF TreeInv
<1>2. CASE ~Parse
  <2>0. Kinds
    BY <1>2, StepKinds
  <2>1. CASE Moves
    <3>1. doc' = doc /\ frames' = frames /\ Node' = Node /\ (pc' = "value" => pc = "value")
      BY <2>1 DEF Moves, Node
    <3>2. pc' = "value" => Node' \in Paths
      BY <3>1 DEF TreeInv
    <3>. QED
      BY <1>0, <3>1, <3>2, TreeTypes DEF Paths
  <2>2. CASE ReadName
    <3>1. /\ doc' = doc /\ frames' \in Seq(Frames) /\ frames # <<>> /\ frames' # <<>>
          /\ Front(frames') = Front(frames) /\ Last(frames').kind = Top.kind /\ pc' # "value"
      BY <2>2, NameReads
    <3>2. /\ Len(frames') = Len(frames)
          /\ \A n \in 1 .. Len(frames) - 1 : frames'[n] = frames[n]
          /\ Last(frames') = frames'[Len(frames)] /\ Top = frames[Len(frames)]
          /\ \A n \in 1 .. Len(frames) : SubSeq(Node', 1, n - 1) = SubSeq(Node, 1, n - 1)
      BY <3>1, Replaced
    <3>3. DOMAIN frames' = 1 .. Len(frames)
      BY <3>1, <3>2, LenProperties
    <3>4. \A n \in DOMAIN frames' : n \in 1 .. Len(frames) - 1 \/ n = Len(frames)
      BY <1>0, <3>3
    <3>5. \A n \in DOMAIN frames' : frames'[n].kind = frames[n].kind
      BY <3>1, <3>2, <3>4
    <3>. QED
      BY <1>0, <3>1, <3>2, <3>3, <3>5, TreeTypes
  <2>3. CASE Adds
    <3>1. /\ frames' \in Seq(Frames) /\ frames # <<>> /\ frames' # <<>>
          /\ Front(frames') = Front(frames) /\ Last(frames').kind = Top.kind
          /\ IsIndex(Last(frames').name) <=> IsIndex(Top.name)
          /\ Paths' = Paths \cup {Node'} /\ \A r \in Paths : doc'[r] = doc[r]
      BY <2>3 DEF Adds, Paths
    <3>2. /\ Len(frames') = Len(frames) /\ Len(frames) \in Nat \ {0}
          /\ \A n \in 1 .. Len(frames) - 1 : frames'[n] = frames[n]
          /\ Last(frames') = frames'[Len(frames)] /\ Top = frames[Len(frames)]
          /\ \A n \in 1 .. Len(frames) : SubSeq(Node', 1, n - 1) = SubSeq(Node, 1, n - 1)
          /\ Front(Node') = Front(Node) /\ Last(Node') = Last(frames').name
      BY <3>1, Replaced
    <3>3. /\ Front(Node) \in Paths /\ doc[Front(Node)].type = Top.kind
          /\ Top.kind = "array" <=> IsIndex(Top.name)
          /\ Top.kind \in {"object", "array"}
      BY <3>1, OwnPath, FrameFields
    <3>4. ASSUME NEW q \in Paths', q # Root
          PROVE  /\ Front(q) \in Paths'
                 /\ doc'[Front(q)].type = IF IsIndex(Last(q)) THEN "array" ELSE "object"
      <4>1. CASE q \in Paths
        BY <3>1, <3>4, <4>1 DEF TreeInv
      <4>2. CASE q = Node'
        BY <3>1, <3>2, <3>3, <4>2
      <4>. QED
        BY <3>1, <4>1, <4>2
    <3>5. ASSUME NEW n \in DOMAIN frames'
          PROVE  /\ SubSeq(Node', 1, n - 1) \in Paths'
                 /\ doc'[SubSeq(Node', 1, n - 1)].type = frames'[n].kind
      <4>1. n \in DOMAIN frames /\ (n \in 1 .. Len(frames) - 1 \/ n = Len(frames))
        BY <1>0, <3>1, <3>2, LenProperties
      <4>2. frames'[n].kind = frames[n].kind
        BY <3>1, <3>2, <4>1
      <4>3. SubSeq(Node, 1, n - 1) \in Paths /\ doc[SubSeq(Node, 1, n - 1)].type = frames[n].kind
        BY <4>1 DEF TreeInv
      <4>4. SubSeq(Node', 1, n - 1) = SubSeq(Node, 1, n - 1)
        BY <1>0, <3>2, <4>1
      <4>. QED
        BY <3>1, <4>2, <4>3, <4>4
    <3>6. Root \in Paths' /\ Node' \in Paths'
      BY <3>1 DEF TreeInv
    <3>. QED
      BY <3>4, <3>5, <3>6 DEF TreeInv
  <2>4. CASE Reads
    <3>1. /\ pc = "value" /\ frames' = frames /\ Paths' = Left(Node)
          /\ \A r \in Left(Node) : r # Node => doc'[r] = doc[r]
      BY <2>4 DEF Reads, Paths
    <3>2. Node \in Paths /\ Node' = Node
      BY <3>1 DEF TreeInv, Node
    <3>3. /\ Root \in Paths' /\ Node \in Paths'
          /\ \A q \in Paths' : q # Root =>
                 /\ Front(q) \in Paths'
                 /\ doc'[Front(q)].type = IF IsIndex(Last(q)) THEN "array" ELSE "object"
          /\ \A n \in DOMAIN frames :
                 /\ SubSeq(Node, 1, n - 1) \in Paths'
                 /\ doc'[SubSeq(Node, 1, n - 1)].type = frames[n].kind
      BY <3>1, <3>2, TreeLeft
    <3>. QED
      BY <3>1, <3>2, <3>3 DEF TreeInv
  <2>5. ASSUME NEW kind \in {"object", "array"}, NEW name \in Steps, Opens(kind, name)
        PROVE  TreeInv'
    <3>. DEFINE f == [kind |-> kind, name |-> name]  q0 == Append(Node, name)
    <3>1. f \in Frames /\ f.kind = kind /\ f.name = name /\ frames' = Append(frames, f)
      BY <2>5 DEF Frames, Opens
    <3>2. /\ pc = "value" /\ doc'[Node].type = kind
          /\ \A r \in Left(Node) : r # Node => doc'[r] = doc[r]
          /\ \/ Paths' = Left(Node) /\ pc' = "name"
             \/ Paths' = Left(Node) \cup {q0} /\ kind = "array" /\ IsIndex(name)
      BY <2>5 DEF Opens, Paths
    <3>. HIDE DEF f
    <3>3. /\ frames' \in Seq(Frames) /\ Len(frames') = Len(frames) + 1
          /\ \A n \in 1 .. Len(frames) : frames'[n] = frames[n]
          /\ frames'[Len(frames) + 1] = f
          /\ Node' = q0
          /\ \A n \in 1 .. Len(frames) + 1 : SubSeq(Node', 1, n - 1) = SubSeq(Node, 1, n - 1)
          /\ SubSeq(Node, 1, Len(frames)) = Node
      BY <3>1, Pushed
    <3>4. Node \in Paths
      BY <3>2 DEF TreeInv
    <3>5. /\ Root \in Left(Node) /\ Node \in Left(Node)
          /\ \A q \in Left(Node) : q # Root =>
                 /\ Front(q) \in Left(Node)
                 /\ doc'[Front(q)].type = IF IsIndex(Last(q)) THEN "array" ELSE "object"
          /\ \A n \in DOMAIN frames :
                 /\ SubSeq(Node, 1, n - 1) \in Left(Node)
                 /\ doc'[SubSeq(Node, 1, n - 1)].type = frames[n].kind
      BY <3>2, <3>4, TreeLeft
    <3>6. Front(q0) = Node /\ Last(q0) = name
      BY <1>0, AppendParts
    <3>. HIDE DEF q0
    <3>7. ASSUME NEW q \in Paths', q # Root
          PROVE  /\ Front(q) \in Paths'
                 /\ doc'[Front(q)].type = IF IsIndex(Last(q)) THEN "array" ELSE "object"
      <4>1. CASE q \in Left(Node)
        BY <3>2, <3>5, <3>7, <4>1
      <4>2. CASE q \notin Left(Node)
        BY <3>2, <3>5, <3>6, <4>2
      <4>. QED
        BY <4>1, <4>2
    <3>8. ASSUME NEW n \in DOMAIN frames'
          PROVE  /\ SubSeq(Node', 1, n - 1) \in Paths'
                 /\ doc'[SubSeq(Node', 1, n - 1)].type = frames'[n].kind
      <4>1. n \in 1 .. Len(frames) + 1
        BY <3>3, LenProperties
      <4>2. SubSeq(Node', 1, n - 1) = SubSeq(Node, 1, n - 1)
        BY <3>3, <4>1
      <4>3. CASE n = Len(frames) + 1
        <5>1. SubSeq(Node', 1, n - 1) = Node
          BY <1>0, <3>3, <4>2, <4>3
        <5>. QED
          BY <3>1, <3>2, <3>3, <3>5, <4>3, <5>1
      <4>4. CASE n # Len(frames) + 1
        <5>1. n \in DOMAIN frames /\ frames'[n] = frames[n]
          BY <1>0, <3>3, <4>1, <4>4
        <5>. QED
          BY <3>2, <3>5, <4>2, <5>1
      <4>. QED
        BY <4>3, <4>4
    <3>9. Root \in Paths' /\ (pc' = "value" => Node' \in Paths')
      BY <3>2, <3>3, <3>5
    <3>. QED
      BY <3>7, <3>8, <3>9 DEF TreeInv
  <2>6. CASE Fails
    <3>1. /\ DOMAIN doc' = Paths /\ \A r \in Paths : doc'[r].type = doc[r].type
          /\ Return(frames, FALSE)
      BY <2>6 DEF Fails
    <3>2. frames' = frames /\ pc' # "value"
      BY <3>1 DEF Return
    <3>3. Node' = Node
      BY <3>2 DEF Node
    <3>. QED
      BY <1>0, <3>1, <3>2, <3>3, TreeTypes
  <2>7. CASE Leaves(TRUE) \/ Leaves(FALSE)
    <3>1. /\ frames # <<>> /\ DOMAIN doc' = Paths
          /\ (Return(Front(frames), TRUE) \/ Return(Front(frames), FALSE))
          /\ \A r \in Paths : r # Front(Node) => doc'[r] = doc[r]
          /\ doc'[Front(Node)].type = doc[Front(Node)].type
      BY <2>7 DEF Leaves
    <3>2. frames' = Front(frames) /\ pc' # "value"
      BY <3>1 DEF Return
    <3>3. /\ frames' \in Seq(Frames) /\ Len(frames') = Len(frames) - 1 /\ Len(frames) \in Nat \ {0}
          /\ \A n \in 1 .. Len(frames) - 1 :
                frames'[n] = frames[n] /\ SubSeq(Node', 1, n - 1) = SubSeq(Node, 1, n - 1)
      BY <3>1, <3>2, Popped
    <3>4. \A n \in DOMAIN frames' : n \in 1 .. Len(frames) - 1
      BY <3>3, LenProperties
    <3>5. \A n \in DOMAIN frames' : n \in DOMAIN frames
      BY <1>0, <3>3, <3>4
    <3>6. \A r \in Paths : doc'[r].type = doc[r].type
      BY <3>1
    <3>7. \A n \in DOMAIN frames' :
             /\ n \in DOMAIN frames /\ frames'[n].kind = frames[n].kind
             /\ SubSeq(Node', 1, n - 1) = SubSeq(Node, 1, n - 1)
      BY <3>3, <3>4, <3>5
    <3>. QED
      BY <3>1, <3>2, <3>3, <3>6, <3>7, TreeTypes
  <2>8. Key(Empty) \in Steps /\ Index(0) \in Steps
    BY TextsAssumption DEF Key, Index, Steps
  <2>. QED
    BY <2>0, <2>1, <2>2, <2>3, <2>4, <2>5, <2>6, <2>7, <2>8 DEF Kinds, ReadsToken
<1>. QED
  BY <1>1, <1>2

-----------------------------------------------------------------------------
(* Types *)

\* What setComment leaves is again a set of comments.
LEMMA NotedTyped ==
    ASSUME NEW N \in SUBSET Notes, NEW q \in Seq(Steps),
           NEW p \in {"sameLine", "before", "after"}, NEW c \in Seq(Nat)
    PROVE  Noted(N, q, p, c) \in SUBSET Notes
BY DEF Noted, Notes

\* A comment is set to the last value or waits for the next one.
LEMMA CommentAdded ==
    ASSUME Typed, addComment PROVE CommentsTyped'
<1>1. /\ current_ \in Nat /\ lastValue_ \in Seq(Steps) \cup {NoValue} /\ lastValueEnd_ \in Nat
      /\ commentsBefore_ \in Seq(Nat) /\ notes \in SUBSET Notes
  BY NowFacts DEF Typed, CommentsTyped
<1>2. CASE UNCHANGED comments
  BY <1>1, <1>2 DEF CommentsTyped, comments
<1>3. CASE /\ OnSameLine
           /\ notes' = Noted(notes, lastValue_, "sameLine", <<current_>>)
           /\ UNCHANGED <<lastValue_, lastValueEnd_, commentsBefore_>>
  <2>1. lastValue_ \in Seq(Steps)
    BY <1>1, <1>3 DEF OnSameLine
  <2>2. <<current_>> \in Seq(Nat)
    BY <1>1
  <2>3. notes' \in SUBSET Notes
    BY <1>1, <1>3, <2>1, <2>2, NotedTyped
  <2>. QED
    BY <1>1, <1>3, <2>3 DEF CommentsTyped
<1>4. CASE /\ commentsBefore_' = Append(commentsBefore_, current_)
           /\ UNCHANGED <<lastValue_, lastValueEnd_, notes>>
  <2>1. commentsBefore_' \in Seq(Nat)
    BY <1>1, <1>4, AppendProperties
  <2>. QED
    BY <1>1, <1>4, <2>1 DEF CommentsTyped
<1>. QED
  BY <1>2, <1>3, <1>4 DEF addComment

\* A value that is read takes what waits for it.
LEMMA CommentsCollected ==
    ASSUME Typed, Collected(doc'), current_' \in Nat,
           Remember(Node) \/ UNCHANGED <<lastValue_, lastValueEnd_>>
    PROVE  CommentsTyped'
<1>1. /\ lastValue_ \in Seq(Steps) \cup {NoValue} /\ lastValueEnd_ \in Nat
      /\ commentsBefore_ \in Seq(Nat) /\ notes \in SUBSET Notes /\ Node \in Seq(Steps)
  BY NowFacts DEF Typed, CommentsTyped
<1>2. lastValue_' \in Seq(Steps) \cup {NoValue} /\ lastValueEnd_' \in Nat
  BY <1>1 DEF Remember
<1>3. Noted(notes, Node, "before", commentsBefore_) \in SUBSET Notes
  BY <1>1, NotedTyped
<1>4. \A N \in SUBSET Notes : Kept(N, doc') \in SUBSET Notes
  BY DEF Kept
<1>5. <<>> \in Seq(Nat)
  BY EmptySeq
<1>6. notes' \in SUBSET Notes /\ commentsBefore_' \in Seq(Nat)
  BY <1>1, <1>3, <1>4, <1>5 DEF Collected
<1>. QED
  BY <1>2, <1>6 DEF CommentsTyped

\* Comments and the last value keep their types.
LEMMA CommentsStay ==
    ASSUME Typed, StackInv, TreeInv, Kinds PROVE CommentsTyped'
<1>0. /\ lastValue_ \in Seq(Steps) \cup {NoValue} /\ lastValueEnd_ \in Nat
      /\ commentsBefore_ \in Seq(Nat) /\ notes \in SUBSET Notes
  BY DEF Typed, CommentsTyped
<1>1. current_' \in Nat
  BY NowFacts DEF Kinds
<1>2. CASE UNCHANGED comments
  BY <1>0, <1>2 DEF CommentsTyped, comments
<1>3. CASE Finish
  <2>1. UNCHANGED <<lastValue_, lastValueEnd_, commentsBefore_>>
    BY <1>3 DEF Finish
  <2>2. Root \in Seq(Steps)
    BY EmptySeq DEF Root
  <2>3. Noted(notes, Root, "after", commentsBefore_) \in SUBSET Notes
    BY <1>0, <2>2, NotedTyped
  <2>4. notes' \in SUBSET Notes
    BY <1>0, <1>3, <2>3 DEF Finish
  <2>. QED
    BY <1>0, <2>1, <2>4 DEF CommentsTyped
<1>4. CASE Passing /\ ~Finish
  <2>1. addComment \/ UNCHANGED comments
    BY <1>4 DEF Passing, ReadComment, StackExceeded, ReadNumericName, Throw, NoName, NoColon,
                NoComma, NoSeparator, Refuse, ReadComma, ReadAnyComma, Skip, PushError, PushErrorExtra
  <2>. QED
    BY <1>2, <2>1, CommentAdded
<1>5. CASE ReadName \/ Adds
  BY <1>2, <1>5 DEF ReadName, Adds
<1>6. CASE \/ Opens("object", Key(Empty)) \/ Opens("array", Index(0)) \/ Reads \/ Fails
  BY <1>1, <1>6, CommentsCollected DEF Opens, Reads, Fails
<1>7. CASE Leaves(TRUE) \/ Leaves(FALSE)
  <2>1. frames # <<>> /\ Remember(Front(Node)) /\ UNCHANGED <<commentsBefore_, notes>>
    BY <1>7 DEF Leaves
  <2>2. Front(Node) \in Seq(Steps)
    BY <2>1, OwnPath, FrontAndLast
  <2>3. lastValue_' \in Seq(Steps) \cup {NoValue} /\ lastValueEnd_' \in Nat
    BY <1>0, <1>1, <2>1, <2>2 DEF Remember
  <2>. QED
    BY <1>0, <2>1, <2>3 DEF CommentsTyped
<1>. QED
  BY <1>3, <1>4, <1>5, <1>6, <1>7 DEF Kinds, ReadsToken

\* The document stays a function on paths.
LEMMA DocStays ==
    ASSUME Typed, StackInv, TreeInv, Kinds
    PROVE  Paths' \in SUBSET Seq(Steps) /\ doc' \in [Paths' -> ValueRecs]
<1>1. Paths \in SUBSET Seq(Steps) /\ doc \in [Paths -> ValueRecs] /\ Left(Node) \in SUBSET Paths
  BY DEF Typed, Left
<1>2. doc' = doc \/ doc' \in [DOMAIN doc' -> ValueRecs]
  BY DEF Kinds, Moves, ReadName, Adds, Opens, ReadsToken, Reads, Fails, Leaves
<1>3. \/ doc' = doc
      \/ DOMAIN doc' \in SUBSET Paths
      \/ Adds \/ Opens("array", Index(0))
  BY <1>1 DEF Kinds, Moves, ReadName, Opens, ReadsToken, Reads, Fails, Leaves
<1>4. CASE Adds
  <2>1. Node' \in Seq(Steps) /\ DOMAIN doc' = Paths \cup {Node'}
    BY <1>4 DEF Adds
  <2>. QED
    BY <1>1, <1>2, <2>1 DEF Paths
<1>5. CASE Opens("array", Index(0))
  <2>1. DOMAIN doc' = Left(Node) \cup {Append(Node, Index(0))}
    BY <1>5 DEF Opens
  <2>2. Append(Node, Index(0)) \in Seq(Steps)
    BY NowFacts, AppendProperties DEF Index, Steps
  <2>. QED
    BY <1>1, <1>2, <2>1, <2>2 DEF Paths
<1>. QED
  BY <1>1, <1>2, <1>3, <1>4, <1>5 DEF Paths

\* The stack stays a sequence of frames.
LEMMA FramesStay ==
    ASSUME Typed, StackInv, TreeInv, Kinds PROVE frames' \in Seq(Frames)
<1>1. frames \in Seq(Frames)
  BY DEF Typed
<1>2. CASE Moves \/ Reads \/ Fails
  BY <1>1, <1>2 DEF Moves, Reads, Fails, Return
<1>3. CASE ReadName
  BY <1>3, NameReads
<1>4. CASE Adds
  BY <1>4 DEF Adds
<1>5. ASSUME NEW kind \in {"object", "array"}, NEW name \in Steps, Opens(kind, name)
      PROVE  frames' \in Seq(Frames)
  <2>1. [kind |-> kind, name |-> name] \in Frames
    BY DEF Frames
  <2>. QED
    BY <1>1, <1>5, <2>1, AppendProperties DEF Opens
<1>6. CASE Leaves(TRUE) \/ Leaves(FALSE)
  BY <1>1, <1>6, FrontAndLast DEF Leaves, Return
<1>7. Key(Empty) \in Steps /\ Index(0) \in Steps
  BY TextsAssumption DEF Key, Index, Steps
<1>. QED
  BY <1>2, <1>3, <1>4, <1>5, <1>6, <1>7 DEF Kinds, ReadsToken

\* The place of the call is one of those there are.
LEMMA PcStays ==
    ASSUME Typed, StackInv, TreeInv, Kinds PROVE pc' \in Pcs
<1>1. CASE Moves
  BY <1>1 DEF Moves
<1>2. \A fs, ok : Return(fs, ok) => pc' \in {"extra", "recover", "comma", "separator"}
  BY DEF Return
<1>3. pc' \in {"extra", "recover", "comma", "separator", "colon", "value", "name"} \/ Moves
  BY <1>2 DEF Kinds, ReadName, Adds, Opens, ReadsToken, Reads, Fails, Leaves
<1>. QED
  BY <1>1, <1>3 DEF Pcs

\* addError appends to errors_.
LEMMA ErrorAdded ==
    ASSUME Typed, NEW s \in Int, NEW l \in Int, addError(s, l)
    PROVE  /\ errors_' \in Seq(Errors) /\ errors_' # <<>>
           /\ Len(errors_') = Len(errors_) + 1 /\ Len(errors_) \in Nat
           /\ errors_ = <<>> => Len(errors_) = 0
<1>1. [start |-> s, limit |-> l] \in Errors
  BY DEF Errors
<1>2. errors_ \in Seq(Errors) /\ Len(errors_) \in Nat
  BY LenProperties DEF Typed
<1>3. /\ errors_' \in Seq(Errors) /\ errors_' # <<>> /\ Len(errors_') = Len(errors_) + 1
  BY <1>1, <1>2, AppendParts DEF addError
<1>. QED
  BY <1>2, <1>3, EmptySeq

\* A call appends to the history.
LEMMA Called1 ==
    ASSUME Typed, NEW c \in {"parse", "pushError", "pushErrorExtra"}, calls' = Append(calls, c)
    PROVE  /\ calls' \in Seq({"parse", "pushError", "pushErrorExtra"})
           /\ calls' # <<>> /\ Last(calls') = c
BY AppendParts DEF Typed

\* Who changes errors_
LEMMA Reporting ==
    ASSUME Typed, StackInv, TreeInv, Kinds
    PROVE  \/ /\ UNCHANGED <<calls, successful, errors_>>
              /\ \/ pc' # "recover" /\ pc' # "done" /\ pc \notin {"recover", "extra"} \cup Ends
                 \/ pc = "recover" /\ pc' \in {"recover", "extra"}
                 \/ pc = "extra" /\ pc' \in {"extra", "done"}
                 \/ pc' = "thrown"
           \/ /\ calls' = calls /\ addError(current_, end) /\ successful' = FALSE
              /\ pc \notin {"recover", "extra"} \cup Ends /\ pc' \in {"recover", "extra"}
           \/ /\ calls' = calls /\ addError(0, Len(text)) /\ successful' = FALSE
              /\ features_.strictRoot /\ pc = "extra" /\ pc' = "done"
           \/ /\ PushError \/ PushErrorExtra
              /\ pc = "done" /\ UNCHANGED <<pc, successful>>
              /\ \E s, l \in Int : addError(s, l)
<1>. DEFINE Quiet == UNCHANGED <<calls, successful, errors_>>
<1>1. CASE ReadComment
  <2>1. Quiet /\ pc' = IF pc = "comma" THEN "commented" ELSE pc
    BY <1>1 DEF ReadComment, given
  <2>2. pc \in {"value", "extra", "name", "comma", "commented", "separator", "recover"}
    BY <1>1 DEF ReadComment, Skips
  <2>. QED
    BY <2>1, <2>2 DEF Ends
<1>2. CASE StackExceeded \/ ReadNumericName
  BY <1>2 DEF StackExceeded, ReadNumericName, Throw, given
<1>3. CASE NoName \/ NoColon \/ NoComma \/ NoSeparator
  <2>1. pc \in InObject \cup {"separator"} /\ Refuse
    BY <1>3 DEF NoName, NoColon, NoComma, NoSeparator, Waits, InObject
  <2>. QED
    BY <2>1 DEF Refuse, InObject, Ends, given
<1>4. CASE ReadComma \/ ReadAnyComma \/ Skip
  <2>1. /\ Quiet
        /\ \/ pc \in {"comma", "commented"} /\ pc' = "name"
           \/ pc = "recover" /\ pc' = "recover"
    BY <1>4 DEF ReadComma, ReadAnyComma, Skip, Waits, given
  <2>. QED
    BY <2>1 DEF Ends
<1>5. CASE Finish
  <2>1. calls' = calls /\ pc = "extra" /\ pc' = "done"
    BY <1>5 DEF Finish, Waits, given
  <2>2. \/ features_.strictRoot /\ addError(0, Len(text)) /\ successful' = FALSE
        \/ UNCHANGED <<successful, errors_>>
    BY <1>5 DEF Finish
  <2>. QED
    BY <2>1, <2>2
<1>6. CASE PushError \/ PushErrorExtra
  <2>1. pc = "done" /\ UNCHANGED <<pc, successful>>
    BY <1>6 DEF PushError, PushErrorExtra
  <2>2. PICK q \in Paths : addError(doc[q].start, Len(text) + doc[q].limit)
                           \/ addError(doc[q].start, doc[q].limit)
    BY <1>6 DEF PushError, PushErrorExtra, Paths
  <2>3. doc[q] \in ValueRecs
    BY DEF Typed
  <2>4. doc[q].start \in Int /\ doc[q].limit \in Int
    BY <2>3 DEF ValueRecs
  <2>5. Len(text) + doc[q].limit \in Int
    BY <2>4, NowFacts
  <2>. QED
    BY <1>6, <2>1, <2>2, <2>4, <2>5
<1>7. \A fs : Return(fs, TRUE) => pc' \in {"extra", "comma", "separator"}
  BY DEF Return
<1>8. \A fs : Return(fs, FALSE) => pc' \in {"extra", "recover"}
  BY DEF Return
<1>9. CASE ReadName \/ Adds \/ Opens("object", Key(Empty)) \/ Opens("array", Index(0)) \/ Reads
  <2>1. Quiet /\ pc \in {"name", "colon", "separator", "value"} /\ pc' # "recover" /\ pc' # "done"
    BY <1>7, <1>9 DEF ReadName, Waits, Adds, Opens, Reads, given
  <2>. QED
    BY <2>1 DEF Ends
<1>10. CASE Fails
  <2>1. /\ pc = "value" /\ addError(current_, end) /\ successful' = FALSE /\ calls' = calls
        /\ pc' \in {"extra", "recover"}
    BY <1>8, <1>10 DEF Fails, given
  <2>. QED
    BY <2>1 DEF Ends
<1>11. CASE Leaves(TRUE) /\ pc # "recover"
  <2>1. Quiet /\ pc \in InObject \cup {"separator"} /\ pc' \in {"extra", "comma", "separator"}
    BY <1>7, <1>11 DEF Leaves, given
  <2>. QED
    BY <2>1 DEF Ends, InObject
<1>12. CASE Leaves(FALSE) /\ pc = "recover"
  BY <1>8, <1>12 DEF Leaves, given
<1>. QED
  BY <1>1, <1>2, <1>3, <1>4, <1>5, <1>6, <1>9, <1>10, <1>11, <1>12 DEF Kinds, Passing, ReadsToken

\* A call that goes on has reported nothing, and one that recovers has.
LEMMA ErrorStays ==
    ASSUME Typed, StackInv, TreeInv, ErrorInv, Next PROVE ErrorInv'
<1>1. CASE Parse
  <2>1. /\ pc' = "value" /\ successful' = TRUE /\ errors_' = <<>>
    BY <1>1, Begun
  <2>2. Len(<<>>) = 0
    BY EmptySeq
  <2>. QED
    BY <2>1, <2>2 DEF ErrorInv
<1>2. CASE ~Parse
  <2>0. Kinds
    BY <1>2, StepKinds
  <2>1. CASE /\ UNCHANGED <<calls, successful, errors_>>
             /\ \/ pc' # "recover" /\ pc' # "done" /\ pc \notin {"recover", "extra"} \cup Ends
                \/ pc = "recover" /\ pc' \in {"recover", "extra"}
                \/ pc = "extra" /\ pc' \in {"extra", "done"}
                \/ pc' = "thrown"
    <3>1. ~successful' => pc' \in {"recover", "extra"} \cup Ends
      BY <2>1 DEF ErrorInv, Ends
    <3>2. pc' = "recover" => ~successful'
      BY <2>1 DEF ErrorInv
    <3>3. ASSUME calls' # <<>>, Last(calls') = "parse"
          PROVE  /\ successful' <=> errors_' = <<>>
                 /\ Len(errors_') <= IF pc' = "done" /\ features_'.strictRoot THEN 2 ELSE 1
      <4>1. /\ successful <=> errors_ = <<>>
            /\ Len(errors_) <= IF pc = "done" /\ features_.strictRoot THEN 2 ELSE 1
        BY <2>1, <3>3 DEF ErrorInv
      <4>2. features_' = features_
        BY <2>0 DEF Kinds, Moves, ReadName, Adds, Opens, ReadsToken, Reads, Fails, Leaves, given
      <4>3. Len(errors_) \in Nat
        BY LenProperties DEF Typed
      <4>4. (pc = "done" => pc' = "thrown") \/ pc' = "done"
        BY <2>1 DEF Ends
      <4>5. ~(pc = "done" /\ pc' = "thrown")
        BY <2>0 DEF Kinds, Passing, ReadComment, Skips, StackExceeded, Exceeded, ReadNumericName,
                    NoName, NoColon, NoComma, NoSeparator, ReadComma, ReadAnyComma, Skip, Finish, Waits,
                    PushError, PushErrorExtra, ReadName, Adds, Opens, ReadsToken, Reads, Fails, Leaves,
                    InObject
      <4>. QED
        BY <2>1, <4>1, <4>2, <4>3, <4>4, <4>5
    <3>. QED
      BY <3>1, <3>2, <3>3 DEF ErrorInv
  <2>2. CASE /\ calls' = calls /\ addError(current_, end) /\ successful' = FALSE
             /\ pc \notin {"recover", "extra"} \cup Ends /\ pc' \in {"recover", "extra"}
    <3>1. /\ errors_' # <<>> /\ Len(errors_') = Len(errors_) + 1 /\ Len(errors_) \in Nat
          /\ errors_ = <<>> => Len(errors_) = 0
      BY <2>2, NowFacts, ErrorAdded
    <3>2. calls' # <<>> /\ Last(calls') = "parse" => errors_ = <<>>
      BY <2>2 DEF ErrorInv
    <3>3. calls' # <<>> /\ Last(calls') = "parse" => Len(errors_') <= 1
      BY <3>1, <3>2
    <3>. QED
      BY <2>2, <3>1, <3>3 DEF ErrorInv
  <2>3. CASE /\ calls' = calls /\ addError(0, Len(text)) /\ successful' = FALSE
             /\ features_.strictRoot /\ pc = "extra" /\ pc' = "done"
    <3>1. /\ errors_' # <<>> /\ Len(errors_') = Len(errors_) + 1 /\ Len(errors_) \in Nat
      <4>1. 0 \in Int /\ Len(text) \in Int /\ addError(0, Len(text))
        BY <2>3, NowFacts
      <4>. QED
        BY <4>1, ErrorAdded
    <3>2. calls' # <<>> /\ Last(calls') = "parse" => Len(errors_) <= 1
      BY <2>3 DEF ErrorInv
    <3>3. features_' = features_
      BY <2>0 DEF Kinds, Moves, ReadName, Adds, Opens, ReadsToken, Reads, Fails, Leaves, given
    <3>4. calls' # <<>> /\ Last(calls') = "parse" => Len(errors_') <= 2
      BY <3>1, <3>2
    <3>. QED
      BY <2>3, <3>1, <3>3, <3>4 DEF ErrorInv, Ends
  <2>4. CASE (PushError \/ PushErrorExtra) /\ pc = "done" /\ UNCHANGED <<pc, successful>>
    <3>1. Last(calls') # "parse"
      BY <2>4, Called1 DEF PushError, PushErrorExtra
    <3>. QED
      BY <2>4, <3>1 DEF ErrorInv, Ends
  <2>. QED
    BY <2>0, <2>1, <2>2, <2>3, <2>4, Reporting
<1>. QED
  BY <1>1, <1>2

\* Every variable keeps its type.
LEMMA TypedStays ==
    ASSUME Typed, StackInv, TreeInv, Next PROVE Typed'
<1>1. CASE Parse
  <2>1. PICK t \in Texts \cup Again :
              /\ text' = t /\ pc' = "value" /\ current_' = 0 /\ frames' = <<>>
              /\ successful' = TRUE /\ doc' = NewRoot /\ errors_' = <<>>
              /\ calls' = Append(calls, "parse") /\ features_' = features_
              /\ notes' = {} /\ lastValue_' = NoValue /\ lastValueEnd_' = 0 /\ commentsBefore_' = <<>>
    BY <1>1, Begun
  <2>2. text' \in Texts \cup Again /\ text' \in Seq(Tokens)
    BY <2>1, TextsAssumption
  <2>3. current_' \in 0 .. Len(text') /\ pc' \in Pcs
    BY <2>1, <2>2, LenProperties DEF Pcs
  <2>4. calls' \in Seq({"parse", "pushError", "pushErrorExtra"})
    BY <2>1, Called1
  <2>5. frames' \in Seq(Frames) /\ errors_' \in Seq(Errors) /\ commentsBefore_' \in Seq(Nat)
    BY <2>1, EmptySeq
  <2>6. Paths' \in SUBSET Seq(Steps) /\ doc' \in [Paths' -> ValueRecs]
    <3>1. Null \in ValueRecs
      BY TextsAssumption DEF Null, ValueRecs, Payloads
    <3>2. Root \in Seq(Steps)
      BY EmptySeq DEF Root
    <3>. QED
      BY <2>1, <3>1, <3>2 DEF NewRoot, Paths
  <2>7. CommentsTyped'
    BY <2>1, <2>5 DEF CommentsTyped
  <2>. QED
    BY <2>1, <2>2, <2>3, <2>4, <2>5, <2>6, <2>7 DEF Typed
<1>2. CASE ~Parse
  <2>0. Kinds
    BY <1>2, StepKinds
  <2>1. text' = text /\ features_' = features_
    BY <2>0 DEF Kinds, Moves, ReadName, Adds, Opens, ReadsToken, Reads, Fails, Leaves, given
  <2>2. /\ CommentsTyped' /\ Paths' \in SUBSET Seq(Steps) /\ doc' \in [Paths' -> ValueRecs]
        /\ frames' \in Seq(Frames) /\ pc' \in Pcs
    BY <2>0, CommentsStay, DocStays, FramesStay, PcStays
  <2>3. current_' \in 0 .. Len(text')
    BY <2>0, <2>1, NowFacts DEF Kinds
  <2>4. successful' \in BOOLEAN
    BY <2>0, Reporting DEF Typed
  <2>5. errors_' \in Seq(Errors)
    <3>1. current_ \in Int /\ end \in Int /\ 0 \in Int /\ Len(text) \in Int
      BY NowFacts
    <3>2. \/ UNCHANGED errors_ \/ addError(current_, end) \/ addError(0, Len(text))
          \/ \E s, l \in Int : addError(s, l)
      BY <2>0, Reporting
    <3>3. \A s, l \in Int : addError(s, l) => errors_' \in Seq(Errors)
      BY ErrorAdded
    <3>. QED
      BY <3>1, <3>2, <3>3 DEF Typed
  <2>6. calls' \in Seq({"parse", "pushError", "pushErrorExtra"})
    <3>1. calls' = calls \/ calls' = Append(calls, "pushError") \/ calls' = Append(calls, "pushErrorExtra")
      BY <2>0, Reporting DEF PushError, PushErrorExtra
    <3>. QED
      BY <3>1, Called1 DEF Typed
  <2>. QED
    BY <2>1, <2>2, <2>3, <2>4, <2>5, <2>6 DEF Typed
<1>. QED
  BY <1>1, <1>2

-----------------------------------------------------------------------------
(* The last value *)

\* A call does not change its text or the features.
LEMMA FeaturesStay ==
    ASSUME Kinds PROVE text' = text /\ features_' = features_
BY DEF Kinds, Moves, ReadName, Adds, Opens, ReadsToken, Reads, Fails, Leaves, given

\* The last value is left when the value at hand gets a payload.
LEMMA LastIsLeft ==
    ASSUME Typed, LastInv, pc = "value", lastValue_ # NoValue
    PROVE  lastValue_ \in Left(Node) /\ ~Above(Node, lastValue_) /\ frames # <<>>
<1>1. /\ lastValue_ \in Paths /\ frames # <<>>
      /\ Above(Front(Node), lastValue_) => Len(lastValue_) = Len(Node)
  BY DEF LastInv
<1>2. lastValue_ \in Seq(Steps) /\ Node \in Seq(Steps) /\ Node # <<>>
  BY <1>1, NowFacts DEF Typed
<1>3. ASSUME Above(Node, lastValue_) PROVE FALSE
  <2>1. Front(Node) \in Seq(Steps) /\ Above(Front(Node), Node)
    BY <1>2, FrontAndLast, AboveFront
  <2>2. Above(Front(Node), lastValue_) /\ Len(Node) < Len(lastValue_)
    BY <1>2, <1>3, <2>1, AboveOrder
  <2>3. Len(lastValue_) = Len(Node) /\ Len(Node) \in Nat
    BY <1>1, <2>2, NowFacts
  <2>. QED
    BY <2>2, <2>3
<1>. QED
  BY <1>1, <1>3 DEF Left

\* After the value at hand, which is the last or does not change it
LEMMA LastRead ==
    ASSUME Typed, LastInv, pc = "value", frames' = frames, pc' # "value",
           Node \in Paths', Left(Node) \in SUBSET Paths', features_' = features_,
           Remember(Node) \/ UNCHANGED <<lastValue_, lastValueEnd_>>
    PROVE  LastInv'
<1>1. Node' = Node
  BY DEF Node
<1>2. lastValue_' = lastValue_ \/ (features_.collectComments /\ lastValue_' = Node)
  BY DEF Remember
<1>3. CASE lastValue_' = lastValue_
  <2>1. lastValue_ # NoValue => lastValue_ \in Paths'
    BY LastIsLeft
  <2>. QED
    BY <1>1, <1>3, <2>1 DEF LastInv
<1>4. CASE features_.collectComments /\ lastValue_' = Node
  BY <1>1, <1>4 DEF LastInv
<1>. QED
  BY <1>2, <1>3, <1>4

\* The last value is there, and no value that is open or at hand.
LEMMA LastStays ==
    ASSUME Typed, StackInv, TreeInv, LastInv, Next PROVE LastInv'
<1>1. CASE Parse
  BY <1>1, Begun DEF LastInv
<1>2. CASE ~Parse
  <2>0. Kinds /\ features_' = features_
    BY <1>2, StepKinds, FeaturesStay
  <2>1. CASE Moves
    <3>1. /\ lastValue_' = lastValue_ /\ doc' = doc /\ frames' = frames /\ Node' = Node
          /\ pc' = "value" => pc = "value"
      BY <2>1 DEF Moves, Node
    <3>. QED
      BY <2>0, <3>1 DEF LastInv, Paths
  <2>2. CASE ReadName \/ Adds
    <3>1. /\ lastValue_' = lastValue_ /\ Paths \in SUBSET Paths'
          /\ frames # <<>> /\ frames' \in Seq(Frames) /\ frames' # <<>> /\ Front(frames') = Front(frames)
      BY <2>2, NameReads DEF Adds, comments, Paths
    <3>2. Front(Node') = Front(Node) /\ Node' \in Seq(Steps) /\ Len(Node') = Len(Node)
      <4>1. Len(frames') = Len(frames) /\ Front(Node') = Front(Node) /\ Node' \in Seq(Steps)
        BY <3>1, Replaced
      <4>2. Len(Node') = Len(frames') /\ Len(Node) = Len(frames)
        BY <3>1, PathOf DEF Node, Typed
      <4>. QED
        BY <4>1, <4>2
    <3>. QED
      BY <2>0, <3>1, <3>2 DEF LastInv
  <2>3. ASSUME NEW kind \in {"object", "array"}, NEW name \in Steps, Opens(kind, name)
        PROVE  LastInv'
    <3>1. /\ pc = "value" /\ lastValue_' = lastValue_ /\ Left(Node) \in SUBSET Paths'
          /\ frames' = Append(frames, [kind |-> kind, name |-> name])
      BY <2>3 DEF Opens, Paths
    <3>. DEFINE f == [kind |-> kind, name |-> name]
    <3>2. f \in Frames /\ frames' = Append(frames, f)
      BY <3>1 DEF Frames
    <3>3. f.name \in Steps /\ Node \in Seq(Steps)
      BY NowFacts
    <3>. HIDE DEF f
    <3>4. frames' # <<>> /\ Node' = Append(Node, f.name)
      BY <3>2, Pushed
    <3>5. Front(Node') = Node
      BY <3>3, <3>4, AppendParts
    <3>6. lastValue_ # NoValue => lastValue_ \in Paths' /\ ~Above(Node, lastValue_)
      BY <3>1, LastIsLeft
    <3>. QED
      BY <2>0, <3>1, <3>4, <3>5, <3>6 DEF LastInv
  <2>4. CASE Reads
    <3>1. /\ pc = "value" /\ frames' = frames /\ Paths' = Left(Node) /\ Remember(Node)
          /\ Return(frames, TRUE)
      BY <2>4 DEF Reads, Paths
    <3>2. pc' # "value" /\ Node \in Paths'
      <4>1. Node \in Paths /\ Node \in Seq(Steps)
        BY <3>1, NowFacts DEF TreeInv
      <4>. QED
        BY <3>1, <4>1, AboveOrder DEF Return, Left
    <3>. QED
      BY <2>0, <3>1, <3>2, LastRead
  <2>5. CASE Fails
    <3>1. /\ pc = "value" /\ Paths' = Paths /\ Return(frames, FALSE)
          /\ Remember(Node) \/ UNCHANGED <<lastValue_, lastValueEnd_>>
      BY <2>5 DEF Fails, Paths
    <3>2. pc' # "value" /\ frames' = frames /\ Node \in Paths' /\ Left(Node) \in SUBSET Paths'
      BY <3>1 DEF Return, TreeInv, Left
    <3>. QED
      BY <2>0, <3>1, <3>2, LastRead
  <2>6. CASE Leaves(TRUE) \/ Leaves(FALSE)
    <3>1. /\ frames # <<>> /\ Paths' = Paths /\ Remember(Front(Node))
          /\ (Return(Front(frames), TRUE) \/ Return(Front(frames), FALSE))
      BY <2>6 DEF Leaves, Paths
    <3>2. frames' = Front(frames) /\ pc' # "value"
      BY <3>1 DEF Return
    <3>3. Node' = Front(Node) /\ Front(Node) \in Paths
      BY <3>1, <3>2, Popped, OwnPath
    <3>4. lastValue_' # NoValue => features_.collectComments /\ lastValue_' = Node'
      BY <3>1, <3>3 DEF Remember, LastInv
    <3>5. features_.collectComments => features_'.collectComments
      BY <2>0
    <3>. QED
      BY <2>0, <3>1, <3>2, <3>3, <3>4, <3>5 DEF LastInv
  <2>7. Key(Empty) \in Steps /\ Index(0) \in Steps
    BY TextsAssumption DEF Key, Index, Steps
  <2>. QED
    BY <2>0, <2>1, <2>2, <2>3, <2>4, <2>5, <2>6, <2>7 DEF Kinds, ReadsToken
<1>. QED
  BY <1>1, <1>2

\* Comments are set to values that are there.
LEMMA NotesStay ==
    ASSUME Typed, StackInv, TreeInv, LastInv, NotesLive, Next PROVE NotesLive'
<1>1. CASE Parse
  BY <1>1, Begun DEF NotesLive
<1>2. CASE ~Parse
  <2>0. Kinds
    BY <1>2, StepKinds
  <2>1. CASE Moves /\ Passing
    <3>1. Paths' = Paths
      BY <2>1 DEF Moves, Paths
    <3>2. \/ notes' = notes
          \/ lastValue_ # NoValue /\ notes' = Noted(notes, lastValue_, "sameLine", <<current_>>)
          \/ notes' = Noted(notes, Root, "after", commentsBefore_)
      <4>1. CASE Finish
        BY <4>1 DEF Finish
      <4>2. CASE ~Finish
        <5>1. addComment \/ UNCHANGED comments
          BY <2>1, <4>2 DEF Passing, ReadComment, StackExceeded, ReadNumericName, Throw, NoName, NoColon,
                 NoComma, NoSeparator, Refuse, ReadComma, ReadAnyComma, Skip, PushError, PushErrorExtra
        <5>. QED
          BY <5>1 DEF addComment, comments, OnSameLine
      <4>. QED
        BY <4>1, <4>2
    <3>3. Root \in Paths /\ (lastValue_ # NoValue => lastValue_ \in Paths)
      BY DEF TreeInv, LastInv
    <3>. QED
      BY <3>1, <3>2, <3>3 DEF NotesLive, Noted
  <2>2. CASE ReadName \/ Adds
    <3>1. notes' = notes /\ Paths \in SUBSET Paths'
      BY <2>2 DEF ReadName, Adds, comments, Paths
    <3>. QED
      BY <3>1 DEF NotesLive
  <2>3. CASE Opens("object", Key(Empty)) \/ Opens("array", Index(0)) \/ Reads \/ Fails
    <3>1. Collected(doc')
      BY <2>3 DEF Opens, Reads, Fails
    <3>. QED
      BY <3>1 DEF Collected, Kept, NotesLive, Paths
  <2>4. CASE Leaves(TRUE) \/ Leaves(FALSE)
    <3>1. notes' = notes /\ Paths' = Paths
      BY <2>4 DEF Leaves, Paths
    <3>. QED
      BY <3>1 DEF NotesLive
  <2>. QED
    BY <2>0, <2>1, <2>2, <2>3, <2>4 DEF Kinds, ReadsToken
<1>. QED
  BY <1>1, <1>2

-----------------------------------------------------------------------------
(* Names and indices *)

\* What was read stays read.
LEMMA ReadStays ==
    ASSUME Typed, current_' \in Nat, current_ <= current_', text' = text, NEW k \in NamesRead
    PROVE  k \in NamesRead'
<1>1. PICK m \in 1 .. current_ : text[m].type = "string" /\ k = Key(text[m].name)
  BY DEF NamesRead
<1>2. m \in 1 .. current_'
  BY <1>1, NowFacts
<1>. QED
  BY <1>1, <1>2 DEF NamesRead

\* A name that was read stands for a token that was read.
LEMMA NewName ==
    ASSUME Typed, Once, ReadName, StackInv PROVE Key(token.name) \notin NamesRead
<1>1. /\ token.type = "string" /\ current_ < Len(text) /\ token = text[current_ + 1]
  BY NameReads
<1>2. DOMAIN text = 1 .. Len(text) /\ Len(text) \in Nat /\ current_ \in Nat
  BY NowFacts, LenProperties DEF Typed
<1>3. SUFFICES ASSUME NEW m \in 1 .. current_, text[m].type = "string", Key(token.name) = Key(text[m].name)
               PROVE  FALSE
  BY DEF NamesRead
<1>4. m \in DOMAIN text /\ current_ + 1 \in DOMAIN text /\ m # current_ + 1
  BY <1>1, <1>2
<1>5. text[m].name # text[current_ + 1].name
  BY <1>1, <1>3, <1>4 DEF Once
<1>6. Key(token.name).key = Key(text[m].name).key
  BY <1>3
<1>. QED
  BY <1>1, <1>5, <1>6 DEF Key

\* The elements of a path that goes on by one
LEMMA Longer ==
    ASSUME NEW s \in Seq(Steps), s # <<>>, NEW n \in DOMAIN s
    PROVE  \/ n \in DOMAIN Front(s) /\ s[n] = Front(s)[n]
           \/ s[n] = Last(s)
<1>1. /\ Len(s) \in Nat \ {0} /\ Front(s) \in Seq(Steps) /\ Len(Front(s)) = Len(s) - 1
      /\ \A k \in 1 .. Len(s) - 1 : Front(s)[k] = s[k]
      /\ Last(s) = s[Len(s)]
  BY FrontAndLast
<1>2. DOMAIN s = 1 .. Len(s) /\ DOMAIN Front(s) = 1 .. Len(s) - 1
  BY <1>1, LenProperties
<1>3. CASE n = Len(s)
  BY <1>1, <1>3
<1>4. CASE n # Len(s)
  <2>1. n \in 1 .. Len(s) - 1
    BY <1>1, <1>2, <1>4
  <2>. QED
    BY <1>1, <1>2, <2>1
<1>. QED
  BY <1>3, <1>4

\* Every name in the document has been read, and a new one is not there yet.
LEMMA NamesStay ==
    ASSUME Typed, StackInv, TreeInv, NameInv, Next PROVE NameInv'
<1>0. /\ Paths \in SUBSET Seq(Steps) /\ Node \in Seq(Steps) /\ frames \in Seq(Frames)
      /\ \A q \in Paths : \A n \in DOMAIN q : IsIndex(q[n]) \/ q[n] \in NamesRead
  BY NowFacts DEF Typed, NameInv
<1>1. CASE Parse
  <2>1. frames' = <<>> /\ pc' = "value" /\ doc' = NewRoot
    BY <1>1, Begun
  <2>2. Paths' = {Root} /\ DOMAIN Root = {}
    BY <2>1 DEF NewRoot, Paths, Root
  <2>. QED
    BY <2>1, <2>2 DEF NameInv
<1>2. CASE ~Parse
  <2>0. Kinds /\ text' = text /\ Once' = Once
    BY <1>2, StepKinds, FeaturesStay DEF Once
  <2>1. NamesRead \in SUBSET NamesRead'
    <3>1. current_' \in Nat /\ current_ <= current_'
      BY <2>0, NowFacts DEF Kinds
    <3>. QED
      BY <2>0, <3>1, ReadStays
  <2>2. \A q \in Paths : \A n \in DOMAIN q : IsIndex(q[n]) \/ q[n] \in NamesRead'
    BY <1>0, <2>1
  <2>3. CASE Moves
    <3>1. /\ Paths' = Paths /\ frames' = frames /\ Node' = Node /\ Top' = Top
          /\ pc' \in {"value", "colon"} => pc' = pc
      BY <2>3 DEF Moves, Paths, Node, Top
    <3>3. pc' \in {"colon", "value"} /\ frames' # <<>> => IsIndex(Top'.name) \/ Top'.name \in NamesRead'
      BY <2>1, <3>1 DEF NameInv
    <3>4. Once' /\ pc' = "colon" => Node' \notin Paths'
      BY <2>0, <3>1 DEF NameInv
    <3>. QED
      BY <2>2, <3>1, <3>3, <3>4 DEF NameInv
  <2>4. CASE ReadName
    <3>1. /\ pc' = "colon" /\ Paths' = Paths /\ Last(frames').name = Key(token.name)
          /\ token.type = "string" /\ current_' = current_ + 1 /\ token = text[current_ + 1]
          /\ frames # <<>> /\ frames' \in Seq(Frames) /\ frames' # <<>> /\ Front(frames') = Front(frames)
      BY <2>4, NameReads DEF Paths
    <3>2. current_ + 1 \in 1 .. current_'
      BY <3>1, NowFacts
    <3>3. Top'.name = Key(token.name)
      BY <3>1 DEF Top
    <3>4. Top'.name \in NamesRead'
      <4>1. text'[current_ + 1].type = "string" /\ Top'.name = Key(text'[current_ + 1].name)
        BY <2>0, <3>1, <3>3
      <4>. QED
        BY <3>2, <4>1 DEF NamesRead
    <3>5. ASSUME Once, Node' \in Paths PROVE FALSE
      <4>1. /\ Node' \in Seq(Steps) /\ Node' # <<>> /\ Last(Node') = Key(token.name)
        BY <3>1, Replaced
      <4>2. Len(Node') \in DOMAIN Node' /\ Node'[Len(Node')] = Key(token.name)
        <5>1. Len(Node') \in Nat \ {0} /\ Last(Node') = Node'[Len(Node')] /\ DOMAIN Node' = 1 .. Len(Node')
          BY <4>1, FrontAndLast, LenProperties
        <5>. QED
          BY <4>1, <5>1
      <4>3. IsIndex(Key(token.name)) \/ Key(token.name) \in NamesRead
        BY <1>0, <3>5, <4>2
      <4>4. ~IsIndex(Key(token.name))
        BY DEF IsIndex, Key
      <4>. QED
        BY <2>4, <3>5, <4>3, <4>4, NewName
    <3>. QED
      BY <2>0, <2>2, <3>1, <3>4, <3>5 DEF NameInv
  <2>5. CASE Adds
    <3>1. /\ pc' = "value" /\ Paths' = Paths \cup {Node'}
          /\ frames # <<>> /\ frames' \in Seq(Frames) /\ frames' # <<>> /\ Front(frames') = Front(frames)
          /\ Node' \in Seq(Steps) /\ Node' # <<>> /\ Front(Node') = Front(Node)
          /\ Last(Node') = Last(frames').name
      BY <2>5 DEF Adds, Paths
    <3>2. IsIndex(Last(frames').name) \/ Last(frames').name \in NamesRead'
      <4>1. CASE pc = "colon"
        <5>1. Last(frames') = Top
          BY <2>5, <4>1 DEF Adds
        <5>2. IsIndex(Top.name) \/ Top.name \in NamesRead
          BY <3>1, <4>1 DEF NameInv
        <5>. QED
          BY <2>1, <5>1, <5>2
      <4>2. CASE pc = "separator"
        BY <2>5, <4>2 DEF Adds, IsIndex, Index
      <4>. QED
        BY <2>5, <4>1, <4>2 DEF Adds
    <3>3. Front(Node) \in Paths
      BY <3>1, OwnPath
    <3>4. \A n \in DOMAIN Node' : IsIndex(Node'[n]) \/ Node'[n] \in NamesRead'
      <4>1. ASSUME NEW n \in DOMAIN Node' PROVE IsIndex(Node'[n]) \/ Node'[n] \in NamesRead'
        <5>1. \/ n \in DOMAIN Front(Node) /\ Node'[n] = Front(Node)[n]
              \/ Node'[n] = Last(frames').name
          BY <3>1, Longer
        <5>. QED
          BY <2>2, <3>2, <3>3, <5>1
      <4>. QED
        BY <4>1
    <3>5. IsIndex(Top'.name) \/ Top'.name \in NamesRead'
      BY <3>2 DEF Top
    <3>. QED
      BY <2>2, <3>1, <3>4, <3>5 DEF NameInv
  <2>6. CASE Opens("object", Key(Empty))
    <3>1. pc' = "name" /\ Paths' \in SUBSET Paths
      BY <2>6 DEF Opens, Left, Paths
    <3>. QED
      BY <2>2, <3>1 DEF NameInv
  <2>7. CASE Opens("array", Index(0))
    <3>. DEFINE f == [kind |-> "array", name |-> Index(0)]  q0 == Append(Node, Index(0))
    <3>1. /\ pc = "value" /\ pc' = "value" /\ Paths' = Left(Node) \cup {q0} /\ frames' = Append(frames, f)
      BY <2>7 DEF Opens, Paths
    <3>2. f \in Frames /\ f.name = Index(0) /\ Index(0) \in Steps /\ IsIndex(Index(0))
      BY DEF Frames, Steps, Index, IsIndex
    <3>. HIDE DEF f
    <3>3. Last(frames') = f
      BY <3>1, <3>2, Pushed
    <3>4. q0 \in Seq(Steps) /\ q0 # <<>> /\ Front(q0) = Node /\ Last(q0) = Index(0)
      BY <1>0, <3>2, AppendParts
    <3>5. Node \in Paths /\ Left(Node) \in SUBSET Paths
      BY <3>1 DEF TreeInv, Left
    <3>. HIDE DEF q0
    <3>6. \A n \in DOMAIN q0 : IsIndex(q0[n]) \/ q0[n] \in NamesRead'
      <4>1. ASSUME NEW n \in DOMAIN q0 PROVE IsIndex(q0[n]) \/ q0[n] \in NamesRead'
        <5>1. \/ n \in DOMAIN Node /\ q0[n] = Node[n]
              \/ q0[n] = Index(0)
          BY <3>4, Longer
        <5>. QED
          BY <2>2, <3>2, <3>5, <5>1
      <4>. QED
        BY <4>1
    <3>7. IsIndex(Top'.name)
      BY <3>2, <3>3 DEF Top
    <3>. QED
      BY <2>2, <3>1, <3>5, <3>6, <3>7 DEF NameInv
  <2>8. CASE Reads \/ Fails \/ Leaves(TRUE) \/ Leaves(FALSE)
    <3>1. Paths' \in SUBSET Paths
      BY <2>8 DEF Reads, Fails, Leaves, Left, Paths
    <3>2. \A fs, ok : Return(fs, ok) => pc' \notin {"colon", "value"}
      BY DEF Return
    <3>3. pc' \notin {"colon", "value"}
      BY <2>8, <3>2 DEF Reads, Fails, Leaves
    <3>. QED
      BY <2>2, <3>1, <3>3 DEF NameInv
  <2>. QED
    BY <2>0, <2>3, <2>4, <2>5, <2>6, <2>7, <2>8 DEF Kinds, ReadsToken
<1>. QED
  BY <1>1, <1>2

\* The containers counted stay, and so does what was counted, but for the value added.
LEMMA CountsKept ==
    ASSUME Typed, CountInv, frames' \in Seq(Frames), NEW n \in DOMAIN frames', n \in DOMAIN frames,
           frames'[n] = frames[n], frames'[n].kind = "array",
           SubSeq(Node', 1, n - 1) = SubSeq(Node, 1, n - 1),
           NEW q \in Paths, Len(q) = n, Front(q) = SubSeq(Node', 1, n - 1)
    PROVE  q[n].index <= frames'[n].name.index
BY DEF CountInv

\* No index in an open array is beyond the one at hand.
LEMMA CountsStay ==
    ASSUME Typed, StackInv, TreeInv, CountInv, Next PROVE CountInv'
<1>0. /\ Paths \in SUBSET Seq(Steps) /\ Node \in Seq(Steps) /\ frames \in Seq(Frames)
      /\ DOMAIN frames = 1 .. Len(frames) /\ Len(frames) \in Nat /\ Len(Node) = Len(frames)
      /\ Left(Node) \in SUBSET Paths
  BY NowFacts, LenProperties DEF Typed, Left
<1>1. CASE Parse
  <2>1. frames' = <<>>
    BY <1>1, Begun
  <2>. QED
    BY <2>1 DEF CountInv
<1>2. CASE ~Parse
  <2>0. Kinds
    BY <1>2, StepKinds
  <2>1. CASE Moves \/ Reads \/ Fails
    <3>1. frames' = frames /\ Node' = Node /\ Paths' \in SUBSET Paths
      BY <1>0, <2>1 DEF Moves, Reads, Fails, Return, Node, Paths
    <3>. QED
      BY <3>1 DEF CountInv
  <2>2. CASE ReadName
    <3>1. /\ Paths' = Paths /\ Last(frames').kind = "object"
          /\ frames # <<>> /\ frames' \in Seq(Frames) /\ frames' # <<>> /\ Front(frames') = Front(frames)
      BY <2>2, NameReads DEF Paths
    <3>2. /\ Len(frames') = Len(frames) /\ Last(frames') = frames'[Len(frames)]
          /\ \A n \in 1 .. Len(frames) - 1 : frames'[n] = frames[n]
          /\ \A n \in 1 .. Len(frames) : SubSeq(Node', 1, n - 1) = SubSeq(Node, 1, n - 1)
      BY <3>1, Replaced
    <3>3. ASSUME NEW n \in DOMAIN frames', frames'[n].kind = "array",
                 NEW q \in Paths', Len(q) = n, Front(q) = SubSeq(Node', 1, n - 1)
          PROVE  q[n].index <= frames'[n].name.index
      <4>1. n \in 1 .. Len(frames)
        BY <3>1, <3>2, LenProperties
      <4>2. n # Len(frames)
        BY <3>1, <3>2, <3>3
      <4>3. n \in 1 .. Len(frames) - 1
        BY <1>0, <4>1, <4>2
      <4>. QED
        BY <1>0, <3>1, <3>2, <3>3, <4>1, <4>3, CountsKept
    <3>. QED
      BY <3>3 DEF CountInv
  <2>3. CASE Adds
    <3>1. /\ frames # <<>> /\ frames' \in Seq(Frames) /\ frames' # <<>> /\ Front(frames') = Front(frames)
          /\ Paths' = Paths \cup {Node'} /\ Last(frames').kind = Top.kind
      BY <2>3 DEF Adds, Paths
    <3>2. /\ Len(frames') = Len(frames) /\ Last(frames') = frames'[Len(frames)]
          /\ Top = frames[Len(frames)]
          /\ \A n \in 1 .. Len(frames) - 1 : frames'[n] = frames[n]
          /\ \A n \in 1 .. Len(frames) : SubSeq(Node', 1, n - 1) = SubSeq(Node, 1, n - 1)
          /\ Last(Node') = Last(frames').name /\ Node' \in Seq(Steps) /\ Node' # <<>>
      BY <3>1, Replaced
    <3>3. /\ Len(Node') = Len(frames) /\ DOMAIN frames' = 1 .. Len(frames)
      BY <3>1, <3>2, PathOf, LenProperties DEF Node
    <3>4. Node'[Len(frames)] = Last(frames').name
      BY <3>2, <3>3, FrontAndLast
    <3>5. ASSUME NEW n \in DOMAIN frames', frames'[n].kind = "array",
                 NEW q \in Paths', Len(q) = n, Front(q) = SubSeq(Node', 1, n - 1)
          PROVE  q[n].index <= frames'[n].name.index
      <4>1. CASE n # Len(frames)
        <5>1. n \in 1 .. Len(frames) - 1
          BY <1>0, <3>3, <4>1
        <5>2. q \in Paths
          BY <3>1, <3>3, <3>5, <4>1
        <5>. QED
          BY <1>0, <3>1, <3>2, <3>3, <3>5, <5>1, <5>2, CountsKept
      <4>2. CASE n = Len(frames)
        <5>1. Top.kind = "array" /\ pc = "separator"
          BY <2>3, <3>1, <3>2, <3>5, <4>2 DEF Adds, StackInv, InObject
        <5>2. frames'[n].name = Index(Top.name.index + 1) /\ Top.name.index \in Nat
          <6>1. IsIndex(Top.name) /\ Top.name \in Steps
            BY <3>1, <5>1, OwnPath, FrameFields
          <6>2. Top.name.index \in Nat
            BY <6>1 DEF Steps, IsIndex
          <6>. QED
            BY <2>3, <3>2, <4>2, <5>1, <6>2 DEF Adds
        <5>3. frames'[n].name.index = Top.name.index + 1
          BY <5>2 DEF Index
        <5>4. CASE q = Node'
          <6>1. q[n] = frames'[n].name
            BY <3>2, <3>4, <4>2, <5>4
          <6>. QED
            BY <5>2, <5>3, <6>1
        <5>5. CASE q \in Paths
          <6>1. q[n].index <= Top.name.index
            BY <1>0, <3>2, <3>3, <3>5, <4>2, <5>1, <5>5 DEF CountInv
          <6>2. q[n].index \in Nat
            <7>1. q \in Seq(Steps) /\ n \in 1 .. Len(q) /\ q # <<>>
              BY <1>0, <3>3, <3>5, <5>5, EmptySeq
            <7>2. q[n] \in Steps /\ q[n] = Last(q)
              BY <3>5, <7>1, FrontAndLast
            <7>3. Front(q) = Front(Node) /\ Front(Node) \in Paths /\ doc[Front(Node)].type = "array"
              BY <1>0, <3>1, <3>2, <3>3, <3>5, <4>2, <5>1, OwnPath
            <7>4. IsIndex(Last(q))
              BY <5>5, <7>1, <7>3 DEF TreeInv, Root
            <7>. QED
              BY <7>2, <7>4 DEF Steps, IsIndex
          <6>. QED
            BY <5>2, <5>3, <6>1, <6>2
        <5>. QED
          BY <3>1, <5>4, <5>5
      <4>. QED
        BY <4>1, <4>2
    <3>. QED
      BY <3>5 DEF CountInv
  <2>4. ASSUME NEW kind \in {"object", "array"}, NEW name \in Steps, Opens(kind, name)
        PROVE  CountInv'
    <3>. DEFINE f == [kind |-> kind, name |-> name]  q0 == Append(Node, name)
    <3>1. f \in Frames /\ f.kind = kind /\ f.name = name /\ frames' = Append(frames, f)
      BY <2>4 DEF Opens, Frames
    <3>2. \/ kind = "object" /\ Paths' = Left(Node)
          \/ kind = "array" /\ name = Index(0) /\ Paths' = Left(Node) \cup {q0}
      BY <2>4 DEF Opens, Paths
    <3>. HIDE DEF f
    <3>3. /\ frames' \in Seq(Frames) /\ Len(frames') = Len(frames) + 1
          /\ \A n \in 1 .. Len(frames) : frames'[n] = frames[n]
          /\ frames'[Len(frames) + 1] = f
          /\ \A n \in 1 .. Len(frames) + 1 : SubSeq(Node', 1, n - 1) = SubSeq(Node, 1, n - 1)
          /\ SubSeq(Node, 1, Len(frames)) = Node
      BY <3>1, Pushed
    <3>4. Len(q0) = Len(frames) + 1 /\ q0[Len(frames) + 1] = name
      BY <1>0, AppendProperties
    <3>. HIDE DEF q0
    <3>5. ASSUME NEW n \in DOMAIN frames', frames'[n].kind = "array",
                 NEW q \in Paths', Len(q) = n, Front(q) = SubSeq(Node', 1, n - 1)
          PROVE  q[n].index <= frames'[n].name.index
      <4>1. CASE n \in 1 .. Len(frames)
        <5>1. n # Len(frames) + 1 /\ n \in 1 .. Len(frames) + 1
          BY <1>0, <4>1
        <5>2. q \in Paths
          BY <1>0, <3>2, <3>4, <3>5, <5>1
        <5>. QED
          BY <1>0, <3>3, <3>5, <4>1, <5>1, <5>2, CountsKept
      <4>2. CASE n \notin 1 .. Len(frames)
        <5>1. n = Len(frames) + 1 /\ n - 1 = Len(frames)
          BY <1>0, <3>3, <4>2, LenProperties
        <5>2. Front(q) = Node /\ n \in 1 .. Len(frames) + 1
          BY <1>0, <3>3, <3>5, <5>1
        <5>3. q \notin Left(Node)
          <6>1. ASSUME q \in Left(Node) PROVE FALSE
            <7>1. q \in Seq(Steps) /\ ~Above(Node, q)
              BY <1>0, <6>1 DEF Left
            <7>2. q # <<>>
              BY <1>0, <3>5, <5>1, <7>1, EmptySeq
            <7>. QED
              BY <1>0, <5>2, <7>1, <7>2, AboveFront
          <6>. QED
            BY <6>1
        <5>4. q = q0 /\ name = Index(0)
          BY <3>2, <5>3
        <5>5. q[n] = name /\ frames'[n].name = name
          BY <3>1, <3>3, <3>4, <5>1, <5>4
        <5>. QED
          BY <5>4, <5>5 DEF Index
      <4>. QED
        BY <4>1, <4>2
    <3>. QED
      BY <3>5 DEF CountInv
  <2>5. CASE Leaves(TRUE) \/ Leaves(FALSE)
    <3>1. frames # <<>> /\ Paths' = Paths /\ frames' = Front(frames)
      BY <2>5 DEF Leaves, Return, Paths
    <3>2. /\ frames' \in Seq(Frames) /\ Len(frames') = Len(frames) - 1 /\ Len(frames) \in Nat \ {0}
          /\ \A n \in 1 .. Len(frames) - 1 :
                 frames'[n] = frames[n] /\ SubSeq(Node', 1, n - 1) = SubSeq(Node, 1, n - 1)
      BY <3>1, Popped
    <3>3. \A n \in DOMAIN frames' : n \in 1 .. Len(frames) - 1 /\ n \in DOMAIN frames
      BY <1>0, <3>2, LenProperties
    <3>4. ASSUME NEW n \in DOMAIN frames', frames'[n].kind = "array",
                 NEW q \in Paths', Len(q) = n, Front(q) = SubSeq(Node', 1, n - 1)
          PROVE  q[n].index <= frames'[n].name.index
      BY <3>1, <3>2, <3>3, <3>4, CountsKept
    <3>. QED
      BY <3>4 DEF CountInv
  <2>6. Key(Empty) \in Steps /\ Index(0) \in Steps
    BY TextsAssumption DEF Key, Index, Steps
  <2>. QED
    BY <2>0, <2>1, <2>2, <2>3, <2>4, <2>5, <2>6 DEF Kinds, ReadsToken
<1>. QED
  BY <1>1, <1>2

-----------------------------------------------------------------------------
(* Every path with a value has values above it. *)

\* What is above a value of the document is in the document.
LEMMA UpTo ==
    ASSUME Typed, PartsInv, NEW p \in Seq(Steps), NEW q \in Paths, Above(p, q)
    PROVE  p \in Paths
<1>1. q \in Seq(Steps) /\ Len(q) \in Nat /\ Len(p) \in Nat
  BY LenProperties DEF Typed
<1>2. Len(p) < Len(q) /\ \A k \in 1 .. Len(p) : p[k] = q[k]
  BY <1>1, AboveMeans
<1>3. Len(p) \in 0 .. Len(q) - 1 /\ Len(p) \in 0 .. Len(q)
  BY <1>1, <1>2
<1>4. /\ SubSeq(q, 1, Len(p)) \in Seq(Steps) /\ Len(SubSeq(q, 1, Len(p))) = Len(p)
      /\ \A k \in 1 .. Len(p) : SubSeq(q, 1, Len(p))[k] = q[k]
  BY <1>1, <1>3, FirstPart
<1>5. \A k \in 1 .. Len(p) : SubSeq(q, 1, Len(p))[k] = p[k]
  BY <1>2, <1>4
<1>6. SubSeq(q, 1, Len(p)) = p
  BY <1>4, <1>5, SeqEqual
<1>7. SubSeq(q, 1, Len(p)) \in Paths
  BY <1>3 DEF PartsInv
<1>. QED
  BY <1>6, <1>7

\* The parts of a path are above it.
LEMMA PartAbove ==
    ASSUME NEW q \in Seq(Steps), NEW n \in 0 .. Len(q) - 1
    PROVE  SubSeq(q, 1, n) \in Seq(Steps) /\ Above(SubSeq(q, 1, n), q)
<1>1. Len(q) \in Nat
  BY LenProperties
<1>2. n \in 0 .. Len(q) /\ n < Len(q)
  BY <1>1
<1>. DEFINE p == SubSeq(q, 1, n)
<1>3. p \in Seq(Steps) /\ Len(p) = n /\ \A k \in 1 .. n : p[k] = q[k]
  BY <1>2, FirstPart
<1>. HIDE DEF p
<1>4. Above(p, q)
  BY <1>2, <1>3, AboveMeans
<1>. QED
  BY <1>3, <1>4 DEF p

\* What is left keeps what is above it.
LEMMA PartsLeft ==
    ASSUME Typed, PartsInv, NEW q \in Left(Node), NEW p \in Seq(Steps), Above(p, q)
    PROVE  p \in Left(Node)
<1>1. q \in Paths /\ q \in Seq(Steps) /\ ~Above(Node, q) /\ Node \in Seq(Steps)
  BY NowFacts DEF Left, Typed
<1>2. p \in Paths
  BY <1>1, UpTo
<1>3. ~Above(Node, p)
  BY <1>1, AboveOrder
<1>. QED
  BY <1>2, <1>3 DEF Left

\* Whatever leads to a value is a value.
LEMMA PartsStay ==
    ASSUME Typed, StackInv, TreeInv, PartsInv, Next PROVE PartsInv'
<1>0. Paths \in SUBSET Seq(Steps) /\ Node \in Seq(Steps)
  BY NowFacts DEF Typed
<1>. SUFFICES ASSUME NEW q \in Paths', NEW n \in 0 .. Len(q) - 1
              PROVE  SubSeq(q, 1, n) \in Paths'
  BY DEF PartsInv
<1>. DEFINE p == SubSeq(q, 1, n)
<1>1. CASE Parse
  <2>1. doc' = NewRoot
    BY <1>1, Begun
  <2>2. q = <<>>
    BY <2>1 DEF NewRoot, Paths, Root
  <2>. QED
    BY <2>2, EmptySeq
<1>2. CASE ~Parse
  <2>0. Kinds
    BY <1>2, StepKinds
  <2>1. q \in Seq(Steps)
    BY <2>0, DocStays
  <2>2. p \in Seq(Steps) /\ Above(p, q)
    BY <2>1, PartAbove
  <2>. HIDE DEF p
  <2>3. CASE Paths' = Paths
    BY <2>2, <2>3, UpTo DEF p
  <2>4. CASE Adds
    <3>1. /\ Paths' = Paths \cup {Node'} /\ Node' \in Seq(Steps) /\ Node' # <<>>
          /\ Front(Node') = Front(Node) /\ frames # <<>>
      BY <2>4 DEF Adds, Paths
    <3>2. Front(Node) \in Paths
      BY <3>1, OwnPath
    <3>3. CASE q = Node'
      <4>1. p = Front(Node) \/ Above(p, Front(Node))
        BY <2>2, <3>1, <3>3, AboveFront
      <4>. QED
        BY <2>2, <3>1, <3>2, <4>1, UpTo DEF p
    <3>4. CASE q \in Paths
      BY <2>2, <3>1, <3>4, UpTo DEF p
    <3>. QED
      BY <3>1, <3>3, <3>4
  <2>5. CASE Paths' = Left(Node)
    BY <2>2, <2>5, PartsLeft DEF p
  <2>6. CASE Opens("array", Index(0))
    <3>1. Paths' = Left(Node) \cup {Append(Node, Index(0))} /\ Node \in Paths
      BY <2>6 DEF Opens, Paths, TreeInv
    <3>2. Node \in Left(Node)
      BY <1>0, <3>1, AboveOrder DEF Left
    <3>3. CASE q = Append(Node, Index(0))
      <4>1. Index(0) \in Steps
        BY DEF Index, Steps
      <4>2. p = Node \/ Above(p, Node)
        BY <1>0, <2>2, <3>3, <4>1, AboveAppend
      <4>. QED
        BY <2>2, <3>1, <3>2, <4>2, PartsLeft DEF p
    <3>4. CASE q \in Left(Node)
      BY <2>2, <3>1, <3>4, PartsLeft DEF p
    <3>. QED
      BY <3>1, <3>3, <3>4
  <2>7. \/ Paths' = Paths \/ Adds \/ Paths' = Left(Node) \/ Opens("array", Index(0))
    BY <2>0 DEF Kinds, Moves, ReadName, Opens, ReadsToken, Reads, Fails, Leaves, Paths
  <2>. QED
    BY <2>3, <2>4, <2>5, <2>6, <2>7
<1>. QED
  BY <1>1, <1>2

\* No comment waits where comments are not collected.
LEMMA QuietStays ==
    ASSUME Typed, StackInv, TreeInv, QuietInv, Next PROVE QuietInv'
<1>1. CASE Parse
  BY <1>1, Begun DEF QuietInv
<1>2. CASE ~Parse
  <2>0. Kinds /\ features_' = features_
    BY <1>2, StepKinds, FeaturesStay
  <2>1. CASE commentsBefore_' = commentsBefore_
    BY <2>0, <2>1 DEF QuietInv
  <2>2. CASE addComment
    BY <2>0, <2>2 DEF QuietInv, addComment, comments
  <2>3. CASE Collected(doc')
    BY <2>0, <2>3 DEF QuietInv, Collected
  <2>4. CASE Passing
    BY <2>1, <2>2, <2>4 DEF Passing, ReadComment, StackExceeded, ReadNumericName, Throw, NoName, NoColon,
        NoComma, NoSeparator, Refuse, ReadComma, ReadAnyComma, Skip, Finish, PushError, PushErrorExtra,
        comments
  <2>. QED
    BY <2>0, <2>1, <2>3, <2>4 DEF Kinds, ReadName, Adds, Opens, ReadsToken, Reads, Fails, Leaves, comments
<1>. QED
  BY <1>1, <1>2

-----------------------------------------------------------------------------
(* What is open and what is finished, in a text read without an error *)

\* The steps of a call that has reported no error
LEMMA GoodKinds ==
    ASSUME Typed, StackInv, TreeInv, ErrorInv, Next, ~Parse, Good'
    PROVE  /\ Good /\ current_' \in current_ .. Len(text) /\ pc' # "thrown"
           /\ text' = text /\ features_' = features_
           /\ \/ Moves /\ Passing
              \/ ReadName
              \/ Adds
              \/ Opens("object", Key(Empty))
              \/ Opens("array", Index(0))
              \/ ReadsToken
              \/ Leaves(TRUE) /\ pc # "recover" /\ current_' > current_
<1>1. Kinds /\ text' = text /\ features_' = features_
  BY StepKinds, FeaturesStay
<1>2. successful' /\ ~features_'.allowDroppedNullPlaceholders /\ pc' \notin {"idle", "thrown"}
  BY DEF Good
<1>3. ~(Reads /\ features_.allowDroppedNullPlaceholders)
  BY <1>1, <1>2
<1>4. ~Fails
  BY <1>2 DEF Fails
<1>5. ~(Leaves(FALSE) /\ pc = "recover")
  BY <1>2 DEF Leaves, ErrorInv
<1>6. successful
  BY <1>1, <1>2, <1>3, <1>4, <1>5 DEF Kinds, Moves, ReadName, Adds, Opens, ReadsToken, Reads, Leaves
<1>7. pc \notin {"idle", "thrown"}
  BY <1>1, <1>2, <1>3, <1>4, <1>5 DEF Kinds, Moves, ReadName, Waits, Adds, Opens, ReadsToken, Reads,
                                      Leaves, InObject
<1>. QED
  BY <1>1, <1>2, <1>3, <1>4, <1>5, <1>6, <1>7 DEF Kinds, Good

\* A value that has a place is open or finished.
LEMMA SetFacts ==
    ASSUME Typed
    PROVE  /\ Opened \in SUBSET Placed /\ Finished \in SUBSET Placed /\ Placed \in SUBSET Paths
           /\ Opened \cup Finished = Placed
           /\ \A q \in Opened : Above(q, Node)
           /\ \A q \in Finished : ~Above(q, Node)
           /\ \A q \in Placed : q \in Seq(Steps) /\ doc[q].start \in Int /\ doc[q].limit \in Int
           /\ pc = "value" => Node \notin Placed
<1>1. Paths \in SUBSET Seq(Steps) /\ Node \in Seq(Steps) /\ doc \in [Paths -> ValueRecs]
  BY NowFacts DEF Typed
<1>2. ~Above(Node, Node)
  BY <1>1, AboveOrder
<1>3. Opened \in SUBSET Placed
  BY <1>2 DEF Opened, Placed
<1>4. \A q \in Paths : doc[q].start \in Int /\ doc[q].limit \in Int
  BY <1>1 DEF ValueRecs
<1>. QED
  BY <1>1, <1>3, <1>4 DEF Opened, Placed, Finished

\* Between values, nothing is opened or finished.
LEMMA SetsSame ==
    ASSUME Typed, StackInv, TreeInv, pc' # "thrown", Moves \/ ReadName
    PROVE  /\ Opened' = Opened /\ Placed' = Placed /\ Finished' = Finished
           /\ doc' = doc /\ Paths' = Paths
<1>0. Paths \in SUBSET Seq(Steps) /\ Node \in Seq(Steps)
  BY NowFacts DEF Typed
<1>1. doc' = doc /\ Paths' = Paths
  BY NameReads DEF Moves, Paths
<1>2. Placed' = Placed
  <2>1. CASE Moves
    <3>1. Node' = Node /\ (pc' = "value" <=> pc = "value")
      BY <2>1 DEF Moves, Node, InObject
    <3>. QED
      BY <1>1, <3>1 DEF Placed
  <2>2. CASE ReadName
    BY <1>1, <2>2, NameReads DEF Placed
  <2>. QED
    BY <2>1, <2>2
<1>3. \A q \in Paths : Above(q, Node') <=> Above(q, Node)
  <2>1. CASE Moves
    BY <2>1 DEF Moves, Node
  <2>2. CASE ReadName
    <3>1. /\ frames # <<>> /\ frames' \in Seq(Frames) /\ frames' # <<>> /\ Front(frames') = Front(frames)
      BY <2>2, NameReads
    <3>2. Front(Node') = Front(Node) /\ Node' # <<>> /\ Node' \in Seq(Steps) /\ Node # <<>>
      BY <3>1, Replaced, OwnPath
    <3>. QED
      BY <1>0, <3>2, AboveFront
  <2>. QED
    BY <2>1, <2>2
<1>4. Opened' = Opened
  BY <1>1, <1>3 DEF Opened
<1>. QED
  BY <1>1, <1>2, <1>4 DEF Finished

\* A value that is put in is pending.
LEMMA SetsAdds ==
    ASSUME Typed, StackInv, TreeInv, Adds
    PROVE  /\ Opened' = Opened /\ Placed = Paths /\ Placed' = Paths \ {Node'}
           /\ Finished' = Finished \ {Node'} /\ Paths' = Paths \cup {Node'}
           /\ \A q \in Paths : doc'[q] = doc[q]
<1>0. Paths \in SUBSET Seq(Steps) /\ Node \in Seq(Steps)
  BY NowFacts DEF Typed
<1>1. /\ pc # "value" /\ pc' = "value" /\ Paths' = Paths \cup {Node'} /\ frames # <<>>
      /\ Node' \in Seq(Steps) /\ Node' # <<>> /\ Front(Node') = Front(Node)
      /\ \A q \in Paths : doc'[q] = doc[q]
  BY DEF Adds, Paths
<1>2. Node # <<>>
  BY <1>1, OwnPath
<1>3. \A q \in Seq(Steps) : Above(q, Node') <=> Above(q, Node)
  BY <1>0, <1>1, <1>2, AboveFront
<1>4. ~Above(Node', Node')
  BY <1>1, AboveOrder
<1>5. Placed = Paths /\ Placed' = Paths \ {Node'}
  BY <1>1 DEF Placed
<1>6. Opened' = Opened
  BY <1>0, <1>1, <1>3, <1>4 DEF Opened
<1>. QED
  BY <1>1, <1>5, <1>6 DEF Finished

\* The value at hand is opened, and what was below it is gone.
LEMMA SetsOpens ==
    ASSUME Typed, StackInv, TreeInv, NEW kind \in {"object", "array"}, NEW name \in Steps,
           Opens(kind, name)
    PROVE  /\ Opened' = Opened \cup {Node} /\ Placed' = Left(Node)
           /\ Finished' = Finished \cap Left(Node)
           /\ Opened \in SUBSET Left(Node) /\ Node \in Left(Node)
           /\ \A q \in Left(Node) : q # Node => doc'[q] = doc[q]
           /\ doc'[Node].start = current_ /\ pc = "value"
           /\ Paths' = Left(Node) \/ Paths' = Left(Node) \cup {Append(Node, name)}
           /\ Node' = Append(Node, name)
<1>0. Paths \in SUBSET Seq(Steps) /\ Node \in Seq(Steps) /\ Left(Node) \in SUBSET Paths
  BY NowFacts DEF Typed, Left
<1>. DEFINE f == [kind |-> kind, name |-> name]  q0 == Append(Node, name)
<1>1. /\ pc = "value" /\ frames' = Append(frames, f)
      /\ \/ Paths' = Left(Node) /\ pc' = "name"
         \/ Paths' = Left(Node) \cup {q0} /\ pc' = "value"
      /\ \A q \in Left(Node) : q # Node => doc'[q] = doc[q]
      /\ doc'[Node].start = current_
  BY DEF Opens, Paths
<1>2. f \in Frames /\ f.name = name
  BY DEF Frames
<1>. HIDE DEF f
<1>3. Node' = q0 /\ q0 \in Seq(Steps) /\ \A q \in Seq(Steps) : Above(q, q0) <=> q = Node \/ Above(q, Node)
  BY <1>0, <1>1, <1>2, Pushed, AboveAppend
<1>. HIDE DEF q0
<1>4. /\ Node \in Paths /\ ~Above(Node, Node) /\ ~Above(q0, q0) /\ Above(Node, q0)
      /\ \A q \in Seq(Steps) : Above(q, Node) => ~Above(Node, q)
  BY <1>0, <1>1, <1>3, AboveOrder DEF TreeInv
<1>5. Node \in Left(Node) /\ q0 \notin Left(Node) /\ Opened \in SUBSET Left(Node)
  BY <1>0, <1>4 DEF Left, Opened
<1>6. Placed = Paths \ {Node} /\ Placed' = Left(Node)
  BY <1>1, <1>3, <1>5 DEF Placed
<1>7. Opened' = Opened \cup {Node}
  <2>1. \A q \in Paths' : Above(q, Node') <=> q = Node \/ q \in Opened
    BY <1>0, <1>1, <1>3, <1>4, <1>5 DEF Opened
  <2>2. Opened \cup {Node} \in SUBSET Paths'
    BY <1>1, <1>5
  <2>. QED
    BY <2>1, <2>2 DEF Opened
<1>8. Finished' = Finished \cap Left(Node)
  BY <1>0, <1>6, <1>7 DEF Finished
<1>. QED
  BY <1>1, <1>3, <1>5, <1>6, <1>7, <1>8 DEF q0

\* The value at hand is finished, and what was below it is gone.
LEMMA SetsReads ==
    ASSUME Typed, StackInv, TreeInv, ReadsToken
    PROVE  /\ Opened' = Opened /\ Placed' = Left(Node) /\ Paths' = Left(Node)
           /\ Finished' = (Finished \cap Left(Node)) \cup {Node}
           /\ Opened \in SUBSET Left(Node) /\ Node \in Left(Node)
           /\ \A q \in Left(Node) : q # Node => doc'[q] = doc[q]
           /\ doc'[Node].start = current_ /\ doc'[Node].limit = current_' /\ current_' > current_
           /\ pc = "value"
<1>0. Paths \in SUBSET Seq(Steps) /\ Node \in Seq(Steps) /\ Left(Node) \in SUBSET Paths
  BY NowFacts DEF Typed, Left
<1>1. /\ pc = "value" /\ frames' = frames /\ Return(frames, TRUE) /\ Paths' = Left(Node)
      /\ \A q \in Left(Node) : q # Node => doc'[q] = doc[q]
      /\ doc'[Node].start = current_ /\ doc'[Node].limit = current_' /\ current_' > current_
  BY DEF ReadsToken, Reads, Paths
<1>2. pc' # "value" /\ Node' = Node
  BY <1>1 DEF Return, Node
<1>3. Node \in Paths /\ ~Above(Node, Node) /\ \A q \in Seq(Steps) : Above(q, Node) => ~Above(Node, q)
  BY <1>0, <1>1, AboveOrder DEF TreeInv
<1>4. Node \in Left(Node) /\ Opened \in SUBSET Left(Node)
  BY <1>0, <1>3 DEF Left, Opened
<1>5. Placed = Paths \ {Node} /\ Placed' = Left(Node)
  BY <1>1, <1>2 DEF Placed
<1>6. Opened' = Opened
  BY <1>0, <1>1, <1>2, <1>4 DEF Opened
<1>7. Node \notin Opened
  BY <1>3 DEF Opened
<1>8. Finished' = (Finished \cap Left(Node)) \cup {Node}
  BY <1>0, <1>4, <1>5, <1>6, <1>7 DEF Finished
<1>. QED
  BY <1>1, <1>4, <1>5, <1>6, <1>8

\* The innermost of the open containers is finished.
LEMMA SetsLeaves ==
    ASSUME Typed, StackInv, TreeInv, Leaves(TRUE)
    PROVE  LET own == Front(Node) IN
           /\ own \in Opened /\ Opened' = Opened \ {own} /\ Placed' = Placed /\ Placed = Paths
           /\ Finished' = Finished \cup {own} /\ Paths' = Paths
           /\ \A q \in Opened : q = own \/ Above(q, own)
           /\ \A q \in Finished : ~Above(q, own)
           /\ \A q \in Paths : q # own => doc'[q] = doc[q]
           /\ doc'[own].start = doc[own].start /\ doc'[own].limit = current_'
<1>. DEFINE own == Front(Node)
<1>0. Paths \in SUBSET Seq(Steps) /\ Node \in Seq(Steps)
  BY NowFacts DEF Typed
<1>1. /\ frames # <<>> /\ Return(Front(frames), TRUE) /\ pc # "value" /\ Paths' = Paths
      /\ \A q \in Paths : q # own => doc'[q] = doc[q]
      /\ doc'[own].start = doc[own].start /\ doc'[own].limit = current_'
  BY DEF Leaves, Paths, InObject
<1>2. pc' # "value" /\ frames' = Front(frames)
  BY <1>1 DEF Return
<1>3. Node' = own /\ own \in Paths /\ Node # <<>> /\ own \in Seq(Steps)
  BY <1>0, <1>1, <1>2, Popped, OwnPath
<1>4. \A q \in Seq(Steps) : Above(q, Node) <=> q = own \/ Above(q, own)
  BY <1>0, <1>3, AboveFront
<1>. HIDE DEF own
<1>5. ~Above(own, own)
  BY <1>3, AboveOrder
<1>6. Placed = Paths /\ Placed' = Paths
  BY <1>1, <1>2 DEF Placed
<1>7. own \in Opened /\ \A q \in Opened : q = own \/ Above(q, own)
  BY <1>0, <1>3, <1>4 DEF Opened
<1>8. Opened' = Opened \ {own}
  BY <1>0, <1>1, <1>3, <1>4, <1>5 DEF Opened
<1>9. Finished' = Finished \cup {own} /\ \A q \in Finished : ~Above(q, own)
  BY <1>0, <1>3, <1>4, <1>6, <1>7, <1>8 DEF Finished, Opened
<1>. QED
  BY <1>1, <1>6, <1>7, <1>8, <1>9 DEF own

-----------------------------------------------------------------------------
(* Offsets *)

Offsets(d, P) == \A q \in P : q \in Seq(Steps) /\ d[q].start \in Int /\ d[q].limit \in Int

\* Offsets that nest do so at a later location.
LEMMA NestsOn ==
    ASSUME NEW d, NEW e, NEW O, NEW F, NEW G \in SUBSET F, NEW b \in Int, NEW c \in Int, b <= c,
           Offsets(d, O \cup F), Nests(d, O, F, b), \A q \in O \cup G : e[q] = d[q]
    PROVE  Nests(e, O, G, c)
<1>1. \A q \in O \cup G : q \in O \cup F /\ d[q].start \in Int /\ d[q].limit \in Int
  BY DEF Offsets
<1>2. ASSUME NEW q \in O PROVE e[q].start < c
  <2>1. d[q].start < b
    BY DEF Nests
  <2>. QED
    BY <1>1, <2>1
<1>3. ASSUME NEW q \in G PROVE e[q].start < e[q].limit /\ e[q].limit <= c
  <2>1. d[q].start < d[q].limit /\ d[q].limit <= b
    BY DEF Nests
  <2>. QED
    BY <1>1, <2>1
<1>4. ASSUME NEW q \in O \cup G, NEW r \in O \cup G, Above(q, r)
      PROVE  e[q].start < e[r].start /\ (q \in G => e[r].limit < e[q].limit)
  <2>1. d[q].start < d[r].start /\ (q \in G => d[r].limit < d[q].limit)
    BY <1>1, <1>4 DEF Nests
  <2>. QED
    BY <2>1
<1>5. ASSUME NEW q \in G, NEW r \in G, q # r, ~Above(q, r), ~Above(r, q)
      PROVE  e[q].limit <= e[r].start \/ e[r].limit <= e[q].start
  <2>1. d[q].limit <= d[r].start \/ d[r].limit <= d[q].start
    BY <1>5 DEF Nests
  <2>. QED
    BY <2>1
<1>6. ASSUME NEW q \in O, NEW r \in G, ~Above(q, r) PROVE e[r].limit <= e[q].start
  <2>1. d[r].limit <= d[q].start
    BY <1>6 DEF Nests
  <2>. QED
    BY <2>1
<1>. QED
  BY <1>2, <1>3, <1>4, <1>5, <1>6 DEF Nests

\* A container begins after what is finished and within what is open.
LEMMA NestsOpened ==
    ASSUME NEW d, NEW e, NEW O, NEW F, NEW G \in SUBSET F, NEW k \in Seq(Steps),
           NEW b \in Int, NEW c \in Int, b < c,
           Offsets(d, O \cup F), Nests(d, O, F, b), \A q \in O \cup G : e[q] = d[q],
           k \notin O \cup F, \A q \in O : Above(q, k), \A q \in G : ~Above(k, q) /\ ~Above(q, k),
           e[k].start = b
    PROVE  Nests(e, O \cup {k}, G, c)
<1>1. Nests(e, O, G, c)
  <2>1. b <= c
    OBVIOUS
  <2>. QED
    BY <2>1, NestsOn
<1>2. \A q \in O : ~Above(k, q)
  BY AboveOrder DEF Offsets
<1>3. ~Above(k, k)
  BY AboveOrder
<1>4. \A q \in O : e[q].start < b
  BY DEF Nests
<1>5. \A q \in G : e[q].limit <= b
  BY DEF Nests
<1>6. \A q \in O \cup {k} : e[q].start < c
  BY <1>4 DEF Offsets
<1>7. \A q, r \in O \cup {k} \cup G : Above(q, r) =>
          /\ e[q].start < e[r].start
          /\ q \in G => e[r].limit < e[q].limit
  <2>1. ASSUME NEW q \in O \cup {k} \cup G, NEW r \in O \cup {k} \cup G, Above(q, r)
        PROVE  e[q].start < e[r].start /\ (q \in G => e[r].limit < e[q].limit)
    <3>1. CASE q # k /\ r # k
      BY <1>1, <2>1, <3>1 DEF Nests
    <3>2. CASE q = k
      BY <1>2, <1>3, <2>1, <3>2
    <3>3. CASE r = k
      BY <1>3, <1>4, <2>1, <3>3
    <3>. QED
      BY <3>1, <3>2, <3>3
  <2>. QED
    BY <2>1
<1>8. \A q \in O \cup {k}, r \in G : ~Above(q, r) => e[r].limit <= e[q].start
  BY <1>1, <1>5 DEF Nests
<1>. QED
  BY <1>1, <1>6, <1>7, <1>8 DEF Nests

\* A value is read after what is finished and within what is open.
LEMMA NestsRead ==
    ASSUME NEW e, NEW O, NEW G, NEW k \in Seq(Steps), NEW b \in Int, NEW c \in Int, b < c,
           Offsets(e, O \cup G), Nests(e, O, G, b),
           k \notin O, \A q \in O : Above(q, k), \A q \in G : ~Above(k, q) /\ ~Above(q, k),
           e[k].start = b, e[k].limit = c
    PROVE  Nests(e, O, G \cup {k}, c)
<1>1. Nests(e, O, G, c)
  BY DEF Nests, Offsets
<1>2. \A q \in O : ~Above(k, q)
  BY AboveOrder DEF Offsets
<1>3. ~Above(k, k)
  BY AboveOrder
<1>4. \A q \in O : e[q].start < b
  BY DEF Nests
<1>5. \A q \in G : e[q].limit <= b
  BY DEF Nests
<1>6. \A q, r \in O \cup (G \cup {k}) : Above(q, r) =>
          /\ e[q].start < e[r].start
          /\ q \in G \cup {k} => e[r].limit < e[q].limit
  <2>1. ASSUME NEW q \in O \cup (G \cup {k}), NEW r \in O \cup (G \cup {k}), Above(q, r)
        PROVE  e[q].start < e[r].start /\ (q \in G \cup {k} => e[r].limit < e[q].limit)
    <3>1. CASE q # k /\ r # k
      BY <1>1, <2>1, <3>1 DEF Nests
    <3>2. CASE q = k
      BY <1>2, <1>3, <2>1, <3>2
    <3>3. CASE r = k /\ q # k
      <4>1. q \in O /\ q \notin G
        BY <2>1, <3>3, <1>2
      <4>. QED
        BY <1>4, <3>3, <4>1
    <3>. QED
      BY <3>1, <3>2, <3>3
  <2>. QED
    BY <2>1
<1>7. \A q, r \in G \cup {k} : q # r /\ ~Above(q, r) /\ ~Above(r, q) =>
          e[q].limit <= e[r].start \/ e[r].limit <= e[q].start
  BY <1>1, <1>5 DEF Nests
<1>8. \A q \in O, r \in G \cup {k} : ~Above(q, r) => e[r].limit <= e[q].start
  BY <1>1 DEF Nests
<1>9. \A q \in G \cup {k} : e[q].start < e[q].limit /\ e[q].limit <= c
  BY <1>1 DEF Nests
<1>. QED
  BY <1>1, <1>6, <1>7, <1>8, <1>9 DEF Nests

\* The container at the top ends after what is finished.
LEMMA NestsEnded ==
    ASSUME NEW d, NEW e, NEW O, NEW F, NEW k \in O, NEW b \in Int, NEW c \in Int, b < c,
           Offsets(d, O \cup F), Nests(d, O, F, b), \A q \in O \cup F : q # k => e[q] = d[q],
           k \notin F, \A q \in O : q = k \/ Above(q, k), \A q \in F : ~Above(q, k),
           e[k].start = d[k].start, e[k].limit = c
    PROVE  Nests(e, O \ {k}, F \cup {k}, c)
<1>1. Nests(e, O \ {k}, F, c)
  <2>1. Nests(d, O \ {k}, F, b) /\ Offsets(d, (O \ {k}) \cup F)
    BY DEF Nests, Offsets
  <2>2. \A q \in (O \ {k}) \cup F : e[q] = d[q]
    OBVIOUS
  <2>. QED
    BY <2>1, <2>2, NestsOn
<1>2. ~Above(k, k) /\ \A q \in O : ~Above(k, q)
  BY AboveOrder DEF Offsets
<1>3. e[k].start \in Int /\ e[k].start < b
  BY DEF Nests, Offsets
<1>4. \A q \in F : Above(k, q) => e[k].start < e[q].start
  BY DEF Nests
<1>5. \A q \in F : ~Above(k, q) => e[q].limit <= e[k].start
  BY DEF Nests
<1>6. \A q \in F : e[q].limit < c
  BY DEF Nests, Offsets
<1>7. \A q \in O \ {k} : e[q].start < e[k].start
  BY DEF Nests
<1>8. \A q, r \in (O \ {k}) \cup (F \cup {k}) : Above(q, r) =>
          /\ e[q].start < e[r].start
          /\ q \in F \cup {k} => e[r].limit < e[q].limit
  <2>1. ASSUME NEW q \in (O \ {k}) \cup (F \cup {k}), NEW r \in (O \ {k}) \cup (F \cup {k}), Above(q, r)
        PROVE  e[q].start < e[r].start /\ (q \in F \cup {k} => e[r].limit < e[q].limit)
    <3>1. CASE q # k /\ r # k
      BY <1>1, <2>1, <3>1 DEF Nests
    <3>2. CASE q = k
      <4>1. r \in F
        BY <1>2, <2>1, <3>2
      <4>. QED
        BY <1>4, <1>6, <2>1, <3>2, <4>1
    <3>3. CASE r = k /\ q # k
      <4>1. q \in O \ {k} /\ q \notin F
        BY <2>1, <3>3
      <4>. QED
        BY <1>7, <3>3, <4>1
    <3>. QED
      BY <3>1, <3>2, <3>3
  <2>. QED
    BY <2>1
<1>9. \A q, r \in F \cup {k} : q # r /\ ~Above(q, r) /\ ~Above(r, q) =>
          e[q].limit <= e[r].start \/ e[r].limit <= e[q].start
  BY <1>1, <1>5 DEF Nests
<1>10. \A q \in O \ {k}, r \in F \cup {k} : ~Above(q, r) => e[r].limit <= e[q].start
  BY <1>1 DEF Nests
<1>11. \A q \in F \cup {k} : e[q].start < e[q].limit /\ e[q].limit <= c
  BY <1>1, <1>3 DEF Nests
<1>. QED
  BY <1>1, <1>8, <1>9, <1>10, <1>11 DEF Nests

\* Offsets nest as long as no error was reported.
LEMMA OrderStays ==
    ASSUME Typed, StackInv, TreeInv, ErrorInv, OrderInv, Next PROVE OrderInv'
<1>. SUFFICES ASSUME Good' PROVE Nests(doc', Opened', Finished', current_')
  BY DEF OrderInv
<1>0. /\ Opened \cup Finished = Placed /\ Offsets(doc, Opened \cup Finished)
      /\ \A q \in Opened : Above(q, Node)
      /\ \A q \in Finished : ~Above(q, Node)
      /\ pc = "value" => Node \notin Opened \cup Finished
      /\ current_ \in Int /\ Node \in Seq(Steps)
  BY SetFacts, NowFacts DEF Offsets
<1>1. CASE Parse
  <2>1. frames' = <<>> /\ pc' = "value" /\ doc' = NewRoot
    BY <1>1, Begun
  <2>2. Paths' = {<<>>} /\ Node' = <<>>
    BY <2>1, EmptySeq DEF NewRoot, Paths, Root, Node, Path
  <2>3. ~Above(<<>>, <<>>)
    <3>1. <<>> \in Seq(Steps)
      BY EmptySeq
    <3>. QED
      BY <3>1, AboveOrder
  <2>4. Opened' = {} /\ Finished' = {}
    BY <2>1, <2>2, <2>3 DEF Opened, Placed, Finished
  <2>. QED
    BY <2>4 DEF Nests
<1>2. CASE ~Parse
  <2>0. /\ Good /\ current_' \in current_ .. Len(text) /\ pc' # "thrown"
        /\ \/ Moves /\ Passing
           \/ ReadName
           \/ Adds
           \/ Opens("object", Key(Empty))
           \/ Opens("array", Index(0))
           \/ ReadsToken
           \/ Leaves(TRUE) /\ pc # "recover" /\ current_' > current_
    BY <1>2, GoodKinds
  <2>1. Nests(doc, Opened, Finished, current_) /\ current_' \in Int /\ current_ <= current_'
    BY <1>0, <2>0, NowFacts DEF OrderInv
  <2>2. ASSUME doc' = doc, Opened' = Opened, Finished' = Finished
        PROVE  Nests(doc', Opened', Finished', current_')
    BY <1>0, <2>1, <2>2, NestsOn
  <2>3. CASE Adds
    <3>. DEFINE G == Finished \ {Node'}
    <3>1. /\ Opened' = Opened /\ Finished' = G /\ \A q \in Placed : doc'[q] = doc[q]
      BY <2>3, SetsAdds
    <3>2. G \in SUBSET Finished /\ \A q \in Opened \cup G : doc'[q] = doc[q]
      BY <1>0, <3>1
    <3>. HIDE DEF G
    <3>3. Nests(doc', Opened, G, current_')
      BY <1>0, <2>1, <3>2, NestsOn
    <3>. QED
      BY <3>1, <3>3
  <2>4. ASSUME NEW kind \in {"object", "array"}, NEW name \in Steps, Opens(kind, name)
        PROVE  Nests(doc', Opened', Finished', current_')
    <3>. DEFINE G == Finished \cap Left(Node)
    <3>1. /\ Opened' = Opened \cup {Node} /\ Finished' = G
          /\ Opened \in SUBSET Left(Node) /\ pc = "value"
          /\ \A q \in Left(Node) : q # Node => doc'[q] = doc[q]
          /\ doc'[Node].start = current_ /\ current_' > current_
      BY <2>4, SetsOpens DEF Opens
    <3>2. /\ G \in SUBSET Finished /\ \A q \in G : ~Above(Node, q) /\ ~Above(q, Node)
          /\ Node \notin Opened \cup Finished
      BY <1>0, <3>1 DEF Left
    <3>3. \A q \in Opened \cup G : doc'[q] = doc[q]
      BY <3>1, <3>2
    <3>4. current_ < current_'
      BY <1>0, <2>1, <3>1
    <3>. HIDE DEF G
    <3>5. Nests(doc', Opened \cup {Node}, G, current_')
      BY <1>0, <2>1, <3>1, <3>2, <3>3, <3>4, NestsOpened
    <3>. QED
      BY <3>1, <3>5
  <2>5. CASE ReadsToken
    <3>. DEFINE G == Finished \cap Left(Node)
    <3>1. /\ Opened' = Opened /\ Finished' = G \cup {Node}
          /\ Opened \in SUBSET Left(Node) /\ pc = "value"
          /\ \A q \in Left(Node) : q # Node => doc'[q] = doc[q]
          /\ doc'[Node].start = current_ /\ doc'[Node].limit = current_' /\ current_' > current_
      BY <2>5, SetsReads
    <3>2. /\ G \in SUBSET Finished /\ \A q \in G : ~Above(Node, q) /\ ~Above(q, Node)
          /\ Node \notin Opened \cup Finished
      BY <1>0, <3>1 DEF Left
    <3>3. \A q \in Opened \cup G : doc'[q] = doc[q]
      BY <3>1, <3>2
    <3>4. current_ < current_'
      BY <1>0, <2>1, <3>1
    <3>. HIDE DEF G
    <3>5. Nests(doc', Opened, G, current_) /\ Offsets(doc', Opened \cup G)
      <4>1. Nests(doc', Opened, G, current_)
        BY <1>0, <2>1, <3>2, <3>3, NestsOn
      <4>. QED
        BY <1>0, <3>2, <3>3, <4>1 DEF Offsets
    <3>6. Nests(doc', Opened, G \cup {Node}, current_')
      BY <1>0, <2>1, <3>1, <3>2, <3>4, <3>5, NestsRead
    <3>. QED
      BY <3>1, <3>6
  <2>6. CASE Leaves(TRUE) /\ current_' > current_
    <3>. DEFINE own == Front(Node)
    <3>1. /\ own \in Opened /\ Opened' = Opened \ {own} /\ Placed = Paths
          /\ Finished' = Finished \cup {own}
          /\ \A q \in Opened : q = own \/ Above(q, own)
          /\ \A q \in Finished : ~Above(q, own)
          /\ \A q \in Paths : q # own => doc'[q] = doc[q]
          /\ doc'[own].start = doc[own].start /\ doc'[own].limit = current_'
      BY <2>6, SetsLeaves
    <3>2. own \notin Finished
      BY <3>1 DEF Finished
    <3>3. current_ < current_'
      BY <1>0, <2>1, <2>6
    <3>4. \A q \in Opened \cup Finished : q # own => doc'[q] = doc[q]
      BY <1>0, <3>1
    <3>. HIDE DEF own
    <3>5. Nests(doc', Opened \ {own}, Finished \cup {own}, current_')
      BY <1>0, <2>1, <3>1, <3>2, <3>3, <3>4, NestsEnded
    <3>. QED
      BY <3>1, <3>5
  <2>7. Key(Empty) \in Steps /\ Index(0) \in Steps
    BY TextsAssumption DEF Key, Index, Steps
  <2>. QED
    BY <2>0, <2>2, <2>3, <2>4, <2>5, <2>6, <2>7, SetsSame
<1>. QED
  BY <1>1, <1>2

-----------------------------------------------------------------------------
(* Comments *)

\* What has begun began before the current location, and what has ended ended there.
LEMMA BeforeNow ==
    ASSUME Typed, OrderInv, Good
    PROVE  /\ current_ \in Nat
           /\ \A q \in Placed : doc[q].start \in Int /\ doc[q].start < current_
           /\ \A q \in Finished : doc[q].limit \in Int /\ doc[q].limit <= current_
<1>1. Nests(doc, Opened, Finished, current_) /\ current_ \in Nat
  BY NowFacts DEF OrderInv
<1>2. Opened \cup Finished = Placed /\ \A q \in Placed : doc[q].start \in Int /\ doc[q].limit \in Int
  BY SetFacts
<1>3. ASSUME NEW q \in Finished PROVE doc[q].start < current_ /\ doc[q].limit <= current_
  <2>1. doc[q].start < doc[q].limit /\ doc[q].limit <= current_
    BY <1>1 DEF Nests
  <2>. QED
    BY <1>1, <1>2, <2>1
<1>4. \A q \in Opened : doc[q].start < current_
  BY <1>1 DEF Nests
<1>. QED
  BY <1>1, <1>2, <1>3, <1>4

\* Nothing is below a value that is new.
LEMMA AnewLeft ==
    ASSUME Typed, Anew, pc = "value"
    PROVE  /\ Left(Node) = Paths /\ Finished \cap Left(Node) = Finished
           /\ Placed = Paths \ {Node}
BY DEF Anew, Left, Finished, Placed

\* The member or element that is added was not there.
LEMMA AddsNew ==
    ASSUME Typed, StackInv, TreeInv, NameInv, CountInv, Once, Adds
    PROVE  Node' \notin Paths
<1>1. /\ frames # <<>> /\ pc \in {"colon", "separator"} /\ frames \in Seq(Frames)
      /\ Node' \in Seq(Steps) /\ Node' # <<>> /\ Front(Node') = Front(Node)
      /\ Last(Node') = Last(frames').name
  BY DEF Adds, Typed
<1>2. CASE pc = "colon"
  BY <1>2 DEF Adds, NameInv, Node
<1>3. CASE pc = "separator"
  <2>1. Top.kind = "array" /\ Last(Node') = Index(Top.name.index + 1)
    BY <1>1, <1>3 DEF StackInv, Adds
  <2>2. Len(frames) \in DOMAIN frames /\ Top = frames[Len(frames)] /\ Top \in Frames /\ Len(frames) \in Nat
    BY <1>1, FrontAndLast, LenProperties DEF Top
  <2>3. Top.name.index \in Nat
    <3>1. IsIndex(Top.name) /\ Top.name \in Steps
      BY <2>1, <2>2 DEF StackInv, Frames
    <3>. QED
      BY <3>1 DEF Steps, IsIndex
  <2>4. /\ Len(Node') = Len(frames) /\ Node'[Len(frames)] = Last(Node')
    <3>1. Node \in Seq(Steps) /\ Node # <<>> /\ Len(Node) = Len(frames)
      BY <1>1, NowFacts
    <3>2. Len(Front(Node)) = Len(Node) - 1 /\ Len(Node) \in Nat
      BY <3>1, FrontAndLast
    <3>3. /\ Len(Front(Node')) = Len(Node') - 1 /\ Len(Node') \in Nat
          /\ Last(Node') = Node'[Len(Node')]
      BY <1>1, FrontAndLast
    <3>. QED
      BY <1>1, <3>1, <3>2, <3>3
  <2>5. Front(Node') = SubSeq(Node, 1, Len(frames) - 1)
    <3>1. Len(Node) = Len(frames)
      BY NowFacts
    <3>. QED
      BY <1>1, <3>1 DEF Front
  <2>6. ASSUME Node' \in Paths PROVE Node'[Len(frames)].index <= Top.name.index
    BY <2>1, <2>2, <2>4, <2>5, <2>6 DEF CountInv
  <2>7. Node'[Len(frames)].index = Top.name.index + 1
    BY <2>1, <2>4 DEF Index
  <2>. QED
    BY <2>3, <2>6, <2>7
<1>. QED
  BY <1>1, <1>2, <1>3

\* The value to be read has nothing below it.
LEMMA AnewStays ==
    ASSUME Typed, StackInv, TreeInv, PartsInv, ErrorInv, NameInv, CountInv, Once, Anew,
           Next, ~Parse, Good'
    PROVE  Anew'
<1>. SUFFICES ASSUME pc' = "value", NEW q \in Paths', Above(Node', q) PROVE FALSE
  BY DEF Anew
<1>0. Paths \in SUBSET Seq(Steps) /\ Node \in Seq(Steps)
  BY NowFacts DEF Typed
<1>1. \/ Moves /\ Passing
      \/ ReadName
      \/ Adds
      \/ Opens("object", Key(Empty))
      \/ Opens("array", Index(0))
      \/ ReadsToken
      \/ Leaves(TRUE)
  BY GoodKinds
<1>2. CASE Moves
  <2>1. pc = "value" /\ Paths' = Paths /\ Node' = Node
    BY <1>2 DEF Moves, Paths, Node, Good
  <2>. QED
    BY <2>1 DEF Anew
<1>3. CASE ReadName \/ ReadsToken \/ Leaves(TRUE) \/ Opens("object", Key(Empty))
  BY <1>3 DEF ReadName, ReadsToken, Reads, Leaves, Return, Opens
<1>4. CASE Adds
  <2>1. Node' \notin Paths /\ Paths' = Paths \cup {Node'} /\ Node' \in Seq(Steps)
    BY <1>4, AddsNew DEF Adds, Paths
  <2>2. q \in Paths
    BY <2>1, AboveOrder
  <2>. QED
    BY <2>1, <2>2, UpTo
<1>5. CASE Opens("array", Index(0))
  <2>1. Index(0) \in Steps
    BY DEF Index, Steps
  <2>2. /\ Node' = Append(Node, Index(0)) /\ pc = "value" /\ q \in Paths \cup {Node'}
    BY <1>5, <2>1, SetsOpens DEF Left
  <2>3. Above(Node, Node') /\ Node' \in Seq(Steps) /\ ~Above(Node', Node')
    BY <1>0, <2>1, <2>2, AboveAppend, AppendParts, AboveOrder
  <2>4. Above(Node, q) /\ q \in Paths
    BY <1>0, <2>2, <2>3, AboveOrder
  <2>. QED
    BY <2>2, <2>4 DEF Anew
<1>. QED
  BY <1>1, <1>2, <1>3, <1>4, <1>5

\* What a step that reads no value does to the comments
LEMMA PassingComments ==
    ASSUME Typed, StackInv, TreeInv, Moves, Passing, Good'
    PROVE  /\ pc = "done" => pc' = "done"
           /\ \/ UNCHANGED comments
              \/ addComment /\ current_' = current_ + 1 /\ pc # "done"
              \/ Finish /\ pc = "extra" /\ pc' = "done"
<1>1. successful' /\ pc' # "thrown"
  BY DEF Good
<1>2. pc = "done" => pc' = "done"
  BY <1>1 DEF Moves, InObject
<1>3. CASE ReadComment
  <2>1. addComment /\ current_' = end /\ token.type \in Comments
    BY <1>3 DEF ReadComment, IsComment
  <2>2. token.type # "end" /\ pc # "done"
    BY <1>3, <2>1 DEF Comments, ReadComment, Skips
  <2>. QED
    BY <1>2, <2>1, <2>2, NowFacts
<1>4. CASE NoName \/ NoColon \/ NoComma \/ NoSeparator
  BY <1>1, <1>4 DEF NoName, NoColon, NoComma, NoSeparator, Refuse
<1>5. CASE StackExceeded \/ ReadNumericName
  BY <1>1, <1>5 DEF StackExceeded, ReadNumericName, Throw
<1>6. CASE ReadComma \/ ReadAnyComma \/ Skip \/ PushError \/ PushErrorExtra
  BY <1>2, <1>6 DEF ReadComma, ReadAnyComma, Skip, PushError, PushErrorExtra
<1>7. CASE Finish
  BY <1>2, <1>7 DEF Finish, Waits
<1>. QED
  BY <1>3, <1>4, <1>5, <1>6, <1>7 DEF Passing

\* A value that gets a payload takes all the comments that wait.
LEMMA Taken ==
    ASSUME QuietInv, Collected(doc')
    PROVE  /\ commentsBefore_' = <<>>
           /\ \A n \in notes' :
                 \/ n \in notes
                 \/ n = [on |-> Node, placement |-> "before", comments |-> commentsBefore_]
<1>1. commentsBefore_' = <<>>
  BY DEF Collected, QuietInv
<1>2. notes' \in {Kept(notes, doc'), Kept(Noted(notes, Node, "before", commentsBefore_), doc')}
  BY DEF Collected
<1>. QED
  BY <1>1, <1>2 DEF Kept, Noted

\* The last value is the one that ended last.
LEMMA LastEndsStays ==
    ASSUME Typed, StackInv, TreeInv, ErrorInv, LastInv, NameInv, CountInv, OrderInv, Once,
           LastEnds, Next, ~Parse, Good'
    PROVE  LastEnds'
<1>. SUFFICES ASSUME lastValue_' # NoValue
              PROVE  /\ lastValue_' \in Finished' /\ doc'[lastValue_'].limit = lastValueEnd_'
                     /\ \A q \in Finished' : doc'[q].limit <= lastValueEnd_'
  BY DEF LastEnds
<1>1. /\ Good /\ current_' \in current_ .. Len(text) /\ pc' # "thrown"
      /\ \/ Moves /\ Passing
         \/ ReadName
         \/ Adds
         \/ Opens("object", Key(Empty))
         \/ Opens("array", Index(0))
         \/ ReadsToken
         \/ Leaves(TRUE) /\ pc # "recover" /\ current_' > current_
  BY GoodKinds
<1>2. /\ Finished \in SUBSET Placed /\ Placed \in SUBSET Paths /\ Opened \cap Finished = {}
      /\ pc = "value" => Node \notin Placed
  BY SetFacts DEF Finished
<1>3. /\ current_ \in Nat /\ current_' \in Nat /\ current_ <= current_'
      /\ \A q \in Finished : doc[q].limit \in Int /\ doc[q].limit <= current_
  BY <1>1, BeforeNow, NowFacts
<1>4. ASSUME UNCHANGED <<lastValue_, lastValueEnd_>>, lastValue_ \in Finished',
             Finished' \in SUBSET Finished, \A q \in Finished' : doc'[q] = doc[q]
      PROVE  /\ lastValue_' \in Finished' /\ doc'[lastValue_'].limit = lastValueEnd_'
             /\ \A q \in Finished' : doc'[q].limit <= lastValueEnd_'
  BY <1>4 DEF LastEnds
<1>5. ASSUME NEW q0, Remember(q0), q0 \in Finished', doc'[q0].limit = current_',
             \A q \in Finished' : q = q0 \/ (q \in Finished /\ doc'[q] = doc[q])
      PROVE  /\ lastValue_' \in Finished' /\ doc'[lastValue_'].limit = lastValueEnd_'
             /\ \A q \in Finished' : doc'[q].limit <= lastValueEnd_'
  <2>1. lastValue_' = q0 /\ lastValueEnd_' = current_'
    BY <1>5 DEF Remember, LastInv
  <2>2. \A q \in Finished' : doc'[q].limit <= current_'
    BY <1>3, <1>5
  <2>. QED
    BY <1>5, <2>1, <2>2
<1>6. CASE Moves \/ ReadName
  <2>1. Finished' = Finished /\ doc' = doc /\ UNCHANGED <<lastValue_, lastValueEnd_>>
    BY <1>1, <1>6, SetsSame DEF Moves, ReadName, comments
  <2>2. lastValue_ \in Finished
    BY <2>1 DEF LastEnds
  <2>. QED
    BY <1>4, <2>1, <2>2
<1>7. CASE Adds
  <2>1. /\ Finished' = Finished /\ UNCHANGED <<lastValue_, lastValueEnd_>>
        /\ \A q \in Paths : doc'[q] = doc[q]
    BY <1>2, <1>7, AddsNew, SetsAdds DEF Adds, comments
  <2>2. lastValue_ \in Finished
    BY <2>1 DEF LastEnds
  <2>. QED
    BY <1>2, <1>4, <2>1, <2>2
<1>8. ASSUME NEW kind \in {"object", "array"}, NEW name \in Steps, Opens(kind, name)
      PROVE  /\ lastValue_' \in Finished' /\ doc'[lastValue_'].limit = lastValueEnd_'
             /\ \A q \in Finished' : doc'[q].limit <= lastValueEnd_'
  <2>1. /\ Finished' = Finished \cap Left(Node) /\ pc = "value"
        /\ \A q \in Left(Node) : q # Node => doc'[q] = doc[q]
    BY <1>8, SetsOpens
  <2>2. UNCHANGED <<lastValue_, lastValueEnd_>>
    BY <1>8 DEF Opens
  <2>3. lastValue_ \in Finished /\ lastValue_ \in Left(Node)
    BY <2>1, <2>2, LastIsLeft DEF LastEnds
  <2>. QED
    BY <1>2, <1>4, <2>1, <2>2, <2>3
<1>9. CASE ReadsToken
  <2>1. /\ Finished' = (Finished \cap Left(Node)) \cup {Node} /\ pc = "value"
        /\ \A q \in Left(Node) : q # Node => doc'[q] = doc[q]
        /\ doc'[Node].limit = current_'
    BY <1>9, SetsReads
  <2>2. Remember(Node)
    BY <1>9 DEF ReadsToken, Reads
  <2>. QED
    BY <1>2, <1>5, <2>1, <2>2
<1>10. CASE Leaves(TRUE)
  <2>. DEFINE own == Front(Node)
  <2>1. /\ Finished' = Finished \cup {own} /\ own \in Opened
        /\ \A q \in Paths : q # own => doc'[q] = doc[q]
        /\ doc'[own].limit = current_'
    BY <1>10, SetsLeaves
  <2>2. Remember(own)
    BY <1>10 DEF Leaves
  <2>. HIDE DEF own
  <2>. QED
    BY <1>2, <1>5, <2>1, <2>2
<1>11. Key(Empty) \in Steps /\ Index(0) \in Steps
  BY TextsAssumption DEF Key, Index, Steps
<1>. QED
  BY <1>1, <1>6, <1>7, <1>8, <1>9, <1>10, <1>11

\* The comments that wait lie behind the values that have begun.
LEMMA WaitingStays ==
    ASSUME Typed, StackInv, TreeInv, ErrorInv, QuietInv, NameInv, CountInv, OrderInv, Once,
           WaitingInv, Next, ~Parse, Good'
    PROVE  WaitingInv'
<1>. SUFFICES ASSUME NEW c \in ToSet(commentsBefore_')
              PROVE  c < current_' /\ \A q \in Placed' : doc'[q].start < c
  BY DEF WaitingInv
<1>1. /\ Good /\ current_' \in current_ .. Len(text) /\ pc' # "thrown"
      /\ \/ Moves /\ Passing
         \/ ReadName
         \/ Adds
         \/ Opens("object", Key(Empty))
         \/ Opens("array", Index(0))
         \/ ReadsToken
         \/ Leaves(TRUE) /\ pc # "recover" /\ current_' > current_
  BY GoodKinds
<1>2. commentsBefore_ \in Seq(Nat) /\ \A b \in ToSet(commentsBefore_) : b \in Nat
  BY LenProperties DEF Typed, CommentsTyped, ToSet
<1>3. /\ current_ \in Nat /\ current_' \in Nat /\ current_ <= current_'
      /\ \A q \in Placed : doc[q].start \in Int /\ doc[q].start < current_
  BY <1>1, BeforeNow, NowFacts
<1>4. ASSUME c \in ToSet(commentsBefore_), Placed' \in SUBSET Placed,
             \A q \in Placed' : doc'[q].start = doc[q].start
      PROVE  c < current_' /\ \A q \in Placed' : doc'[q].start < c
  <2>1. c < current_ /\ \A q \in Placed : doc[q].start < c
    BY <1>4 DEF WaitingInv
  <2>. QED
    BY <1>2, <1>3, <1>4, <2>1
<1>5. ToSet(<<>>) = {}
  BY EmptySeq DEF ToSet
<1>6. CASE Moves /\ Passing
  <2>1. Placed' = Placed /\ doc' = doc
    BY <1>1, <1>6, SetsSame
  <2>2. CASE commentsBefore_' = commentsBefore_
    BY <1>4, <2>1, <2>2
  <2>3. CASE commentsBefore_' = Append(commentsBefore_, current_) /\ current_' = current_ + 1
    <3>1. c \in ToSet(commentsBefore_) \/ c = current_
      <4>. DEFINE s == Append(commentsBefore_, current_)
      <4>1. /\ Len(s) = Len(commentsBefore_) + 1 /\ s[Len(commentsBefore_) + 1] = current_
            /\ \A k \in 1 .. Len(commentsBefore_) : s[k] = commentsBefore_[k]
            /\ s \in Seq(Nat)
        BY <1>2, <1>3, AppendProperties
      <4>2. DOMAIN s = 1 .. Len(s) /\ DOMAIN commentsBefore_ = 1 .. Len(commentsBefore_)
            /\ Len(commentsBefore_) \in Nat
        BY <1>2, <4>1, LenProperties
      <4>3. c \in ToSet(s)
        BY <2>3
      <4>. HIDE DEF s
      <4>4. PICK k \in 1 .. Len(commentsBefore_) + 1 : c = s[k]
        BY <4>1, <4>2, <4>3 DEF ToSet
      <4>. QED
        BY <4>1, <4>2, <4>4 DEF ToSet
    <3>2. CASE c = current_
      BY <1>3, <2>1, <2>3, <3>2
    <3>. QED
      BY <1>4, <2>1, <3>1, <3>2
  <2>4. \/ UNCHANGED comments
        \/ addComment /\ current_' = current_ + 1
        \/ Finish
    BY <1>6, PassingComments
  <2>5. \/ commentsBefore_' = commentsBefore_
        \/ commentsBefore_' = Append(commentsBefore_, current_) /\ current_' = current_ + 1
    BY <2>4 DEF comments, addComment, Finish
  <2>. QED
    BY <2>2, <2>3, <2>5
<1>7. CASE ReadName
  <2>1. Placed' = Placed /\ doc' = doc /\ commentsBefore_' = commentsBefore_
    BY <1>1, <1>7, SetsSame DEF ReadName, comments
  <2>. QED
    BY <1>4, <2>1
<1>8. CASE Adds
  <2>1. /\ Placed = Paths /\ Placed' = Paths \ {Node'} /\ commentsBefore_' = commentsBefore_
        /\ \A q \in Paths : doc'[q] = doc[q]
    BY <1>8, SetsAdds DEF Adds, comments
  <2>. QED
    BY <1>4, <2>1
<1>9. CASE Opens("object", Key(Empty)) \/ Opens("array", Index(0)) \/ ReadsToken
  <2>1. commentsBefore_' = <<>>
    BY <1>9, Taken DEF Opens, ReadsToken, Reads
  <2>. QED
    BY <1>5, <2>1
<1>10. CASE Leaves(TRUE)
  <2>1. /\ Placed' = Placed /\ commentsBefore_' = commentsBefore_ /\ Placed = Paths
        /\ \A q \in Paths : q # Front(Node) => doc'[q] = doc[q]
        /\ doc'[Front(Node)].start = doc[Front(Node)].start
    BY <1>10, SetsLeaves DEF Leaves
  <2>2. \A q \in Paths : doc'[q].start = doc[q].start
    BY <2>1
  <2>. QED
    BY <1>4, <2>1, <2>2
<1>. QED
  BY <1>1, <1>6, <1>7, <1>8, <1>9, <1>10

\* A comment stays beside its value when values begin and end after it.
LEMMA StillBeside ==
    ASSUME Typed, OrderInv, Good,
           NEW on \in Placed, NEW placement \in {"sameLine", "before", "after"}, NEW c \in Nat,
           c < current_, Beside(on, placement, c),
           current_' \in Nat, current_ <= current_',
           Placed \in SUBSET Placed', Finished \in SUBSET Finished',
           \A q \in Placed' : \/ q \in Placed /\ doc'[q].start = doc[q].start
                              \/ q \notin Placed /\ doc'[q].start = current_,
           \A q \in Finished' : \/ q \in Finished /\ doc'[q].limit = doc[q].limit
                                \/ q \notin Finished /\ doc'[q].limit = current_',
           pc = "done" => pc' = "done" /\ doc' = doc
    PROVE  on \in Placed' /\ c < current_' /\ Beside(on, placement, c)'
<1>1. /\ current_ \in Nat
      /\ \A q \in Placed : doc[q].start \in Int /\ doc[q].start < current_
      /\ \A q \in Finished : doc[q].limit \in Int /\ doc[q].limit <= current_
  BY BeforeNow
<1>2. on \in Placed' /\ c < current_'
  BY <1>1
<1>3. CASE placement = "sameLine"
  <2>1. /\ on \in Finished /\ doc[on].limit <= c
        /\ \A q \in Finished : doc[q].limit > c \/ doc[q].limit <= doc[on].limit
    BY <1>3 DEF Beside
  <2>2. on \in Finished' /\ doc'[on].limit = doc[on].limit
    BY <2>1
  <2>3. ASSUME NEW q \in Finished' PROVE doc'[q].limit > c \/ doc'[q].limit <= doc'[on].limit
    BY <1>2, <2>1, <2>2
  <2>. QED
    BY <1>2, <1>3, <2>1, <2>2, <2>3 DEF Beside
<1>4. CASE placement = "before"
  <2>1. /\ c < doc[on].start
        /\ \A q \in Placed : doc[q].start < c \/ doc[q].start >= doc[on].start
    BY <1>4 DEF Beside
  <2>2. doc'[on].start = doc[on].start
    OBVIOUS
  <2>3. ASSUME NEW q \in Placed' PROVE doc'[q].start < c \/ doc'[q].start >= doc'[on].start
    BY <1>1, <2>1, <2>2
  <2>. QED
    BY <1>2, <1>4, <2>1, <2>2, <2>3 DEF Beside
<1>5. CASE placement = "after"
  <2>1. pc = "done" /\ \A q \in Paths \ {Root} : doc[q].start < c
    BY <1>5 DEF Beside
  <2>. QED
    BY <1>2, <1>5, <2>1 DEF Beside, Paths
<1>. QED
  BY <1>2, <1>3, <1>4, <1>5

\* What a comment is made of
LEMMA NoteFields ==
    ASSUME Typed, NEW n \in notes
    PROVE  /\ n.placement \in {"sameLine", "before", "after"}
           /\ \A c \in ToSet(n.comments) : c \in Nat
<1>1. n.comments \in Seq(Nat) /\ n.placement \in {"sameLine", "before", "after"}
  BY DEF Typed, CommentsTyped, Notes
<1>. QED
  BY <1>1, LenProperties DEF ToSet

\* A comment that was set is beside its value.
LEMMA BesideStays ==
    ASSUME Typed, StackInv, TreeInv, ErrorInv, QuietInv, NameInv, CountInv, OrderInv, Once,
           Anew, LastEnds, WaitingInv, BesideInv, Next, ~Parse, Good'
    PROVE  BesideInv'
<1>1. /\ Good /\ current_' \in current_ .. Len(text) /\ pc' # "thrown"
      /\ \/ Moves /\ Passing
         \/ ReadName
         \/ Adds
         \/ Opens("object", Key(Empty))
         \/ Opens("array", Index(0))
         \/ ReadsToken
         \/ Leaves(TRUE) /\ pc # "recover" /\ current_' > current_
  BY GoodKinds
<1>2. /\ Finished \in SUBSET Placed /\ Placed \in SUBSET Paths /\ Opened \cap Finished = {}
      /\ pc = "value" => Node \notin Placed
  BY SetFacts DEF Finished
<1>3. /\ current_ \in Nat /\ current_' \in Nat /\ current_ <= current_'
      /\ \A q \in Placed : doc[q].start \in Int /\ doc[q].start < current_
      /\ \A q \in Finished : doc[q].limit \in Int /\ doc[q].limit <= current_
  BY <1>1, BeforeNow, NowFacts
<1>4. \A n \in notes : /\ n.on \in Placed
                       /\ \A c \in ToSet(n.comments) : c < current_ /\ Beside(n.on, n.placement, c)
  BY DEF BesideInv
<1>. DEFINE Stays ==
         /\ Placed \in SUBSET Placed' /\ Finished \in SUBSET Finished'
         /\ \A q \in Placed' : \/ q \in Placed /\ doc'[q].start = doc[q].start
                               \/ q \notin Placed /\ doc'[q].start = current_
         /\ \A q \in Finished' : \/ q \in Finished /\ doc'[q].limit = doc[q].limit
                                 \/ q \notin Finished /\ doc'[q].limit = current_'
         /\ pc = "done" => pc' = "done" /\ doc' = doc
       Well(n) == /\ n.on \in Placed'
                  /\ \A c \in ToSet(n.comments) : c < current_' /\ Beside(n.on, n.placement, c)'
<1>5. ASSUME Stays, NEW n \in notes PROVE Well(n)
  <2>1. /\ n.on \in Placed /\ n.on \in Placed' /\ n.placement \in {"sameLine", "before", "after"}
        /\ \A c \in ToSet(n.comments) : c \in Nat /\ c < current_ /\ Beside(n.on, n.placement, c)
    BY <1>4, <1>5, NoteFields
  <2>2. ASSUME NEW c \in ToSet(n.comments)
        PROVE  c < current_' /\ Beside(n.on, n.placement, c)'
    <3>1. c \in Nat /\ c < current_ /\ Beside(n.on, n.placement, c)
      BY <2>1
    <3>. QED
      BY <1>1, <1>3, <1>5, <2>1, <3>1, StillBeside
  <2>. QED
    BY <2>1, <2>2
<1>6. ASSUME NEW n \in notes', Well(n)
      PROVE  /\ n.on \in Placed'
             /\ \A c \in ToSet(n.comments) : c < current_' /\ Beside(n.on, n.placement, c)'
  BY <1>6
<1>. SUFFICES \A n \in notes' : Well(n)
  BY DEF BesideInv
<1>. HIDE DEF Well
<1>7. ASSUME Stays, \A n \in notes' : n \in notes \/ Well(n) PROVE \A n \in notes' : Well(n)
  BY <1>5, <1>7
<1>8. CASE Moves /\ Passing
  <2>1. Placed' = Placed /\ Finished' = Finished /\ doc' = doc /\ Paths' = Paths /\ Node' = Node
    BY <1>1, <1>8, SetsSame DEF Moves, Node
  <2>2. Stays
    BY <1>8, <2>1, PassingComments
  <2>. HIDE DEF Stays
  <2>3. CASE notes' = notes
    BY <1>7, <2>2, <2>3
  <2>4. CASE addComment /\ current_' = current_ + 1 /\ notes' # notes
    <3>1. /\ lastValue_ # NoValue
          /\ \A n \in notes' :
                \/ n \in notes
                \/ n.on = lastValue_ /\ n.placement = "sameLine" /\ n.comments = <<current_>>
      BY <2>4 DEF addComment, OnSameLine, Noted, comments
    <3>2. /\ lastValue_ \in Finished /\ doc[lastValue_].limit <= current_
          /\ \A q \in Finished : doc[q].limit <= doc[lastValue_].limit
      BY <1>3, <3>1 DEF LastEnds
    <3>3. ToSet(<<current_>>) = {current_}
      BY DEF ToSet
    <3>4. ASSUME NEW n \in notes', n.on = lastValue_, n.placement = "sameLine", n.comments = <<current_>>
          PROVE  Well(n)
      <4>1. ASSUME NEW c \in ToSet(n.comments) PROVE c < current_' /\ Beside(n.on, n.placement, c)'
        <5>1. c = current_ /\ c < current_'
          BY <1>3, <2>4, <3>3, <3>4, <4>1
        <5>. QED
          BY <2>1, <3>2, <3>4, <5>1 DEF Beside
      <4>. QED
        BY <1>2, <2>1, <3>2, <3>4, <4>1 DEF Well
    <3>. QED
      BY <1>7, <2>2, <3>1, <3>4
  <2>5. CASE Finish /\ pc = "extra" /\ pc' = "done"
    <3>. DEFINE n0 == [on |-> Root, placement |-> "after", comments |-> commentsBefore_]
    <3>1. \A n \in notes' : n \in notes \/ n = n0
      BY <2>5 DEF Finish, Noted
    <3>2. Root \in Placed' /\ Placed = Paths
      BY <2>1, <2>5 DEF Placed, TreeInv
    <3>3. \A c \in ToSet(commentsBefore_) : c < current_ /\ \A q \in Paths : doc[q].start < c
      BY <3>2 DEF WaitingInv
    <3>4. commentsBefore_ \in Seq(Nat) /\ \A c \in ToSet(commentsBefore_) : c \in Nat
      BY LenProperties DEF Typed, CommentsTyped, ToSet
    <3>5. \A c \in ToSet(commentsBefore_) : c < current_'
      BY <1>3, <3>3, <3>4
    <3>6. \A c \in ToSet(commentsBefore_) : Beside(Root, "after", c)'
      BY <2>1, <2>5, <3>3 DEF Beside
    <3>7. Well(n0)
      BY <3>2, <3>5, <3>6 DEF Well
    <3>. HIDE DEF n0
    <3>. QED
      BY <1>7, <2>2, <3>1, <3>7
  <2>. QED
    BY <1>8, <2>3, <2>4, <2>5, PassingComments DEF comments
<1>9. CASE ReadName \/ Adds \/ Leaves(TRUE)
  <2>1. notes' = notes /\ pc # "done"
    BY <1>9, NameReads DEF ReadName, Adds, Leaves, comments, InObject
  <2>2. CASE ReadName
    <3>1. Placed' = Placed /\ Finished' = Finished /\ doc' = doc
      BY <1>1, <2>2, SetsSame
    <3>. QED
      BY <1>7, <2>1, <3>1
  <2>3. CASE Adds
    <3>1. Placed' = Placed /\ Placed = Paths /\ Finished' = Finished /\ \A q \in Paths : doc'[q] = doc[q]
      BY <1>2, <2>3, SetsAdds, AddsNew
    <3>2. Stays
      BY <1>2, <2>1, <3>1
    <3>. HIDE DEF Stays
    <3>. QED
      BY <1>7, <2>1, <3>2
  <2>4. CASE Leaves(TRUE)
    <3>. DEFINE own == Front(Node)
    <3>1. /\ own \in Opened /\ Placed' = Placed /\ Placed = Paths /\ Finished' = Finished \cup {own}
          /\ \A q \in Paths : q # own => doc'[q] = doc[q]
          /\ doc'[own].start = doc[own].start /\ doc'[own].limit = current_'
      BY <2>4, SetsLeaves
    <3>. HIDE DEF own
    <3>2. own \notin Finished /\ \A q \in Paths : doc'[q].start = doc[q].start
      BY <1>2, <3>1
    <3>3. Stays
      BY <1>2, <2>1, <3>1, <3>2
    <3>. HIDE DEF Stays
    <3>. QED
      BY <1>7, <2>1, <3>3
  <2>. QED
    BY <1>9, <2>2, <2>3, <2>4
<1>10. CASE Opens("object", Key(Empty)) \/ Opens("array", Index(0)) \/ ReadsToken
  <2>1. Key(Empty) \in Steps /\ Index(0) \in Steps
    BY TextsAssumption DEF Key, Index, Steps
  <2>2. /\ pc = "value" /\ Placed' = Left(Node) /\ doc'[Node].start = current_
        /\ \A q \in Left(Node) : q # Node => doc'[q] = doc[q]
        /\ Node \in Left(Node)
        /\ \/ Finished' = Finished \cap Left(Node)
           \/ Finished' = (Finished \cap Left(Node)) \cup {Node} /\ doc'[Node].limit = current_'
    BY <1>10, <2>1, SetsOpens, SetsReads
  <2>3. Placed' = Paths /\ Placed = Paths \ {Node} /\ Left(Node) = Paths /\ Finished \cap Left(Node) = Finished
    BY <2>2, AnewLeft
  <2>4. Stays
    BY <1>2, <2>2, <2>3
  <2>. HIDE DEF Stays
  <2>5. \A n \in notes' :
            \/ n \in notes
            \/ n.on = Node /\ n.placement = "before" /\ n.comments = commentsBefore_
    <3>1. Collected(doc')
      BY <1>10 DEF Opens, ReadsToken, Reads
    <3>2. ASSUME NEW n \in notes', n \notin notes
          PROVE  n = [on |-> Node, placement |-> "before", comments |-> commentsBefore_]
      BY <3>1, <3>2, Taken
    <3>. QED
      BY <3>2
  <2>6. commentsBefore_ \in Seq(Nat) /\ \A c \in ToSet(commentsBefore_) : c \in Nat
    BY LenProperties DEF Typed, CommentsTyped, ToSet
  <2>7. ASSUME NEW n \in notes', n.on = Node, n.placement = "before", n.comments = commentsBefore_
        PROVE  Well(n)
    <3>1. ASSUME NEW c \in ToSet(n.comments) PROVE c < current_' /\ Beside(n.on, n.placement, c)'
      <4>1. c < current_ /\ c \in Nat /\ \A q \in Placed : doc[q].start < c
        BY <2>6, <2>7, <3>1 DEF WaitingInv
      <4>2. \A q \in Placed' : doc'[q].start < c \/ doc'[q].start >= doc'[n.on].start
        BY <1>3, <2>2, <2>3, <2>7, <4>1
      <4>. QED
        BY <1>3, <2>2, <2>7, <4>1, <4>2 DEF Beside
    <3>. QED
      BY <2>2, <2>7, <3>1 DEF Well
  <2>. QED
    BY <1>7, <2>4, <2>5, <2>7
<1>. QED
  BY <1>1, <1>8, <1>9, <1>10

\* So it is for the values and comments of every text without an error.
LEMMA CommentStays ==
    ASSUME Typed, StackInv, TreeInv, PartsInv, ErrorInv, LastInv, QuietInv, NameInv, CountInv, OrderInv,
           CommentInv, Next
    PROVE  CommentInv'
<1>. SUFFICES ASSUME Good', Once' PROVE Anew' /\ LastEnds' /\ WaitingInv' /\ BesideInv'
  BY DEF CommentInv
<1>1. CASE Parse
  <2>1. /\ doc' = NewRoot /\ frames' = <<>> /\ pc' = "value"
        /\ notes' = {} /\ lastValue_' = NoValue /\ commentsBefore_' = <<>>
    BY <1>1, Begun
  <2>2. Paths' = {<<>>} /\ Node' = <<>>
    BY <2>1, EmptySeq DEF NewRoot, Paths, Root, Node, Path
  <2>3. ~Above(<<>>, <<>>)
    <3>1. <<>> \in Seq(Steps)
      BY EmptySeq
    <3>. QED
      BY <3>1, AboveOrder
  <2>4. ToSet(<<>>) = {}
    BY EmptySeq DEF ToSet
  <2>. QED
    BY <2>1, <2>2, <2>3, <2>4 DEF Anew, LastEnds, WaitingInv, BesideInv
<1>2. CASE ~Parse
  <2>1. Good /\ text' = text
    BY <1>2, GoodKinds
  <2>2. Once
    BY <2>1 DEF Once
  <2>3. Anew /\ LastEnds /\ WaitingInv /\ BesideInv
    BY <2>1, <2>2 DEF CommentInv
  <2>. QED
    BY <1>2, <2>2, <2>3, AnewStays, LastEndsStays, WaitingStays, BesideStays
<1>. QED
  BY <1>1, <1>2

\* A Reader whose call has ended or goes on has had a call.
LEMMA CalledStays ==
    ASSUME Typed, StackInv, TreeInv, CalledInv, Next PROVE CalledInv'
<1>0. calls \in Seq({"parse", "pushError", "pushErrorExtra"})
  BY DEF Typed
<1>1. CASE Parse
  <2>1. calls' = Append(calls, "parse")
    BY <1>1, Begun
  <2>. QED
    BY <1>0, <2>1, AppendParts DEF CalledInv
<1>2. CASE PushError \/ PushErrorExtra
  <2>1. calls' = Append(calls, "pushError") \/ calls' = Append(calls, "pushErrorExtra")
    BY <1>2 DEF PushError, PushErrorExtra
  <2>. QED
    BY <1>0, <2>1, AppendParts DEF CalledInv
<1>3. CASE Step
  <2>1. pc # "idle"
    BY <1>3 DEF Step, ReadComment, Skips, StackExceeded, Exceeded, BeginObject, BeginArray, ReadScalar,
        DropNull, NoValueThere, Value, EndObjectEarly, ReadName, ReadNumericName, NoName, ReadColon,
        NoColon, ReadComma, ReadAnyComma, NoComma, EndObject, ReadSeparator, NoSeparator, EndArray, Skip,
        Recovered, Finish, Waits
  <2>2. calls' = calls
    BY <1>3 DEF Step, ReadComment, StackExceeded, BeginObject, BeginArray, ReadScalar,
        DropNull, NoValueThere, EndObjectEarly, ReadName, ReadNumericName, NoName, ReadColon,
        NoColon, ReadComma, ReadAnyComma, NoComma, EndObject, ReadSeparator, NoSeparator, EndArray, Skip,
        Recovered, Finish, Throw, Leave, Refuse, given
  <2>. QED
    BY <2>1, <2>2 DEF CalledInv
<1>. QED
  BY <1>1, <1>2, <1>3 DEF Next

-----------------------------------------------------------------------------
(* The invariant *)

\* All of it holds before the first call.
LEMMA InitInv ==
    ASSUME Init PROVE IInv
<1>1. /\ text \in Texts /\ features_ \in AllFeatures /\ calls = <<>> /\ pc = "idle"
      /\ current_ = 0 /\ frames = <<>> /\ successful = TRUE /\ doc = NewRoot /\ errors_ = <<>>
      /\ lastValue_ = NoValue /\ lastValueEnd_ = 0 /\ commentsBefore_ = <<>> /\ notes = {}
  BY DEF Init
<1>2. text \in Seq(Tokens) /\ Len(text) \in Nat
  BY <1>1, TextsAssumption, LenProperties
<1>3. Len(<<>>) = 0 /\ DOMAIN <<>> = {} /\ \A S : <<>> \in Seq(S)
  BY EmptySeq
<1>4. Paths = {<<>>} /\ Node = <<>> /\ doc \in [Paths -> ValueRecs]
  <2>1. Null \in ValueRecs
    BY TextsAssumption DEF Null, ValueRecs, Payloads
  <2>. QED
    BY <1>1, <1>3, <2>1 DEF NewRoot, Paths, Root, Node, Path
<1>5. Typed
  BY <1>1, <1>2, <1>3, <1>4 DEF Typed, CommentsTyped, Pcs
<1>6. StackInv /\ TreeInv
  BY <1>1, <1>3, <1>4, StackAssumption DEF StackInv, TreeInv, Root, InObject
<1>7. PartsInv
  BY <1>3, <1>4 DEF PartsInv
<1>8. CalledInv /\ ErrorInv /\ LastInv /\ QuietInv /\ NotesLive
  BY <1>1 DEF CalledInv, ErrorInv, LastInv, QuietInv, NotesLive
<1>9. NameInv /\ CountInv
  BY <1>1, <1>3, <1>4 DEF NameInv, CountInv
<1>10. OrderInv /\ CommentInv
  BY <1>1 DEF OrderInv, CommentInv, Good
<1>. QED
  BY <1>5, <1>6, <1>7, <1>8, <1>9, <1>10 DEF IInv

\* It speaks of the variables only.
LEMMA StutterInv ==
    ASSUME IInv, UNCHANGED vars PROVE IInv'
<1>1. /\ UNCHANGED <<text, features_, calls, current_, frames, pc, successful, doc, errors_>>
      /\ UNCHANGED <<lastValue_, lastValueEnd_, commentsBefore_, notes>>
  BY DEF vars, given, comments
<1>2. Paths' = Paths /\ Node' = Node /\ NamesRead' = NamesRead /\ Top' = Top
  BY <1>1 DEF Paths, Node, NamesRead, Top
<1>3. Placed' = Placed /\ Opened' = Opened
  BY <1>1, <1>2 DEF Placed, Opened
<1>4. Finished' = Finished /\ Good' = Good /\ Once' = Once
  BY <1>1, <1>3 DEF Finished, Good, Once
<1>5. Typed' /\ StackInv' /\ TreeInv' /\ PartsInv'
  BY <1>1, <1>2 DEF IInv, Typed, CommentsTyped, StackInv, TreeInv, PartsInv
<1>6. CalledInv' /\ ErrorInv' /\ LastInv' /\ QuietInv' /\ NotesLive'
  BY <1>1, <1>2 DEF IInv, CalledInv, ErrorInv, LastInv, QuietInv, NotesLive
<1>7. NameInv' /\ CountInv' /\ OrderInv'
  BY <1>1, <1>2, <1>3, <1>4 DEF IInv, NameInv, CountInv, OrderInv
<1>8. CommentInv'
  BY <1>1, <1>2, <1>3, <1>4
     DEF IInv, CommentInv, Anew, LastEnds, WaitingInv, BesideInv, Beside
<1>. QED
  BY <1>5, <1>6, <1>7, <1>8 DEF IInv

\* Whatever is parsed, and whatever errors are pushed in between: the parts of the
\* invariant hold after every token.
THEOREM Inductive == Spec => []IInv
<1>1. Init => IInv
  BY InitInv
<1>2. IInv /\ [Next]_vars => IInv'
  <2>1. CASE UNCHANGED vars
    BY <2>1, StutterInv
  <2>2. ASSUME IInv, Next PROVE IInv'
    <3>1. Typed' /\ StackInv' /\ TreeInv' /\ PartsInv'
      BY <2>2, TypedStays, StackStays, TreeStays, PartsStay DEF IInv
    <3>2. CalledInv' /\ ErrorInv' /\ LastInv' /\ QuietInv' /\ NotesLive'
      BY <2>2, CalledStays, ErrorStays, LastStays, QuietStays, NotesStay DEF IInv
    <3>3. NameInv' /\ CountInv' /\ OrderInv' /\ CommentInv'
      BY <2>2, NamesStay, CountsStay, OrderStays, CommentStays DEF IInv
    <3>. QED
      BY <3>1, <3>2, <3>3 DEF IInv
  <2>. QED
    BY <2>1, <2>2
<1>. QED
  BY <1>1, <1>2, PTL DEF Spec

\* For every text, set of features and limit: the values form a tree, and readValue
\* is never deeper in itself than stackLimit_g.
THEOREM TypeCorrect == Spec => []TypeOK
<1>1. IInv => TypeOK
  <2>. SUFFICES ASSUME Typed, StackInv, TreeInv PROVE TypeOK
    BY DEF IInv
  <2>1. DOMAIN frames = 1 .. Len(frames) /\ \A n \in 1 .. Len(frames) : frames[n] \in Frames
    BY LenProperties DEF Typed
  <2>2. \A n \in DOMAIN frames : frames[n].kind \in {"object", "array"}
    BY <2>1 DEF Frames
  <2>. QED
    BY <2>2 DEF Typed, StackInv, TreeInv, TypeOK, InObject
<1>. QED
  BY <1>1, Inductive, PTL

\* parse fails if and only if it reports an error, and it never reports a second one
\* but the one of a root that strictRoot does not allow.
THEOREM ReportsFailure == Spec => []Reported
<1>1. IInv => Reported
  BY DEF IInv, CalledInv, ErrorInv, Parsed, Reported
<1>. QED
  BY <1>1, Inductive, PTL

\* When parse has returned, every value is finished.
LEMMA AllFinished ==
    ASSUME Typed, StackInv, pc = "done" PROVE Opened = {} /\ Finished = Paths /\ Placed = Paths
<1>1. Node = <<>> /\ Paths \in SUBSET Seq(Steps)
  BY NowFacts DEF StackInv, Typed
<1>2. \A q \in Paths : ~Above(q, <<>>)
  BY <1>1, AboveOrder
<1>. QED
  BY <1>1, <1>2 DEF Opened, Finished, Placed

\* lastValue_ is never a value that was destroyed; in a text that was read, the
\* offsets of the values nest like the values, and every comment is set to the value
\* it stands beside.
THEOREM ValuesLocated == Spec => []Located
<1>1. IInv => Located
  <2>. SUFFICES ASSUME IInv PROVE Located
    OBVIOUS
  <2>1. LastValueLives
    BY DEF IInv, LastInv, LastValueLives
  <2>2. ASSUME Read, ~features_.allowDroppedNullPlaceholders PROVE OffsetsNest
    <3>1. Good /\ Opened = {} /\ Finished = Paths
      BY <2>2, AllFinished DEF IInv, Good, Read
    <3>2. Nests(doc, {}, Paths, current_)
      BY <3>1 DEF IInv, OrderInv
    <3>. QED
      BY <3>2 DEF Nests, OffsetsNest, Apart
  <2>3. ASSUME Read, Once, ~features_.allowDroppedNullPlaceholders PROVE CommentsBeside
    <3>1. Good /\ Finished = Paths /\ Placed = Paths
      BY <2>3, AllFinished DEF IInv, Good, Read
    <3>2. BesideInv
      BY <2>3, <3>1 DEF IInv, CommentInv
    <3>3. ASSUME NEW n \in notes, NEW c \in ToSet(n.comments)
          PROVE  CASE n.placement = "sameLine" ->
                         /\ doc[n.on].limit <= c
                         /\ \A q \in Paths : doc[q].limit > c \/ doc[q].limit <= doc[n.on].limit
                   [] n.placement = "before" ->
                         /\ c < doc[n.on].start
                         /\ \A q \in Paths : doc[q].start < c \/ doc[q].start >= doc[n.on].start
                   [] n.placement = "after" -> \A q \in Paths \ {Root} : doc[q].start < c
      <4>1. Beside(n.on, n.placement, c)
        BY <3>2 DEF BesideInv
      <4>2. n.placement \in {"sameLine", "before", "after"}
        BY NoteFields DEF IInv
      <4>3. CASE n.placement = "sameLine"
        BY <3>1, <4>1, <4>3 DEF Beside
      <4>4. CASE n.placement = "before"
        BY <3>1, <4>1, <4>4 DEF Beside
      <4>5. CASE n.placement = "after"
        BY <4>1, <4>5 DEF Beside
      <4>. QED
        BY <4>2, <4>3, <4>4, <4>5
    <3>. QED
      BY <3>3 DEF CommentsBeside
  <2>. QED
    BY <2>1, <2>2, <2>3 DEF Located
<1>. QED
  BY <1>1, Inductive, PTL

\* Every step of a call takes a token or leads nearer to the return.
THEOREM StepsAdvance == Spec => Advances
<1>1. ASSUME IInv, Step PROVE current_' > current_ \/ (current_' = current_ /\ Rank' < Rank)
  <2>0. Typed /\ StackInv /\ TreeInv
    BY <1>1 DEF IInv
  <2>1. /\ current_ \in Nat /\ end \in Nat /\ current_ <= end /\ Len(frames) \in Nat
        /\ token.type # "end" => end = current_ + 1
    BY <2>0, NowFacts
  <2>2. CASE current_' = end /\ token.type # "end"
    BY <2>1, <2>2
  <2>3. ASSUME current_' \in {current_, end}, frames' = frames, Rank' < Rank
        PROVE  current_' > current_ \/ (current_' = current_ /\ Rank' < Rank)
    BY <2>1, <2>3
  <2>4. CASE ReadComment
    BY <2>2, <2>4 DEF ReadComment, IsComment, Comments
  <2>5. CASE StackExceeded
    BY <2>1, <2>5 DEF StackExceeded, Exceeded, Throw, Rank
  <2>6. CASE BeginObject \/ BeginArray
    <3>1. Opens("object", Key(Empty)) \/ ReadsToken \/ Opens("array", Index(0))
      BY <2>0, <2>6, OpensObject, ArrayBegins
    <3>. QED
      BY <3>1 DEF Opens, ReadsToken
  <2>7. CASE ReadScalar
    BY <2>2, <2>7 DEF ReadScalar, Scalars
  <2>8. CASE DropNull \/ NoValueThere
    <3>1. /\ pc = "value" /\ frames' = frames /\ current_' \in {current_, end}
          /\ pc' \in {"extra", "recover", "comma", "separator"}
      BY <2>8 DEF DropNull, NoValueThere, Value, Return
    <3>2. Rank' < Rank
      BY <2>1, <3>1 DEF Rank
    <3>. QED
      BY <2>3, <3>1, <3>2
  <2>9. CASE \/ EndObjectEarly \/ ReadName \/ ReadNumericName \/ ReadColon \/ ReadComma
             \/ EndObject \/ ReadSeparator \/ EndArray
    BY <2>2, <2>9 DEF EndObjectEarly, ReadName, ReadNumericName, ReadColon, ReadComma, EndObject,
                      ReadSeparator, EndArray, Leave, Is
  <2>10. CASE NoName \/ NoColon \/ NoComma \/ NoSeparator \/ ReadAnyComma \/ Finish
    <3>1. /\ frames' = frames /\ current_' = end
          /\ \/ pc \in {"name", "colon", "comma", "separator"} /\ pc' = "recover"
             \/ pc = "commented" /\ pc' = "name"
             \/ pc = "extra" /\ pc' = "done"
      BY <2>10 DEF NoName, NoColon, NoComma, NoSeparator, ReadAnyComma, Finish, Refuse, Waits, given
    <3>2. Rank' < Rank
      BY <2>1, <3>1 DEF Rank
    <3>. QED
      BY <2>3, <3>1, <3>2
  <2>11. CASE Skip
    BY <2>2, <2>11 DEF Skip
  <2>12. CASE Recovered
    <3>1. pc = "recover" /\ frames # <<>> /\ frames' = Front(frames) /\ current_' = end
          /\ pc' \in {"extra", "recover"}
      BY <2>0, <2>12 DEF Recovered, Waits, StackInv, Leave, Return
    <3>2. Len(frames') = Len(frames) - 1 /\ Len(frames) \in Nat \ {0}
      BY <2>0, <3>1, Popped
    <3>3. Rank = 5 * Len(frames) + 1 /\ Rank' = 5 * (Len(frames) - 1) + 1
      BY <3>1, <3>2 DEF Rank
    <3>. QED
      BY <2>1, <3>1, <3>2, <3>3
  <2>. QED
    BY <1>1, <2>4, <2>5, <2>6, <2>7, <2>8, <2>9, <2>10, <2>11, <2>12 DEF Step
<1>2. IInv /\ [Next]_vars => [Step => current_' > current_ \/ (current_' = current_ /\ Rank' < Rank)]_vars
  BY <1>1
<1>. QED
  BY <1>2, Inductive, PTL DEF Spec, Advances

-----------------------------------------------------------------------------
(* Conversions of numbers *)

\* A number has the range of its type; an infinity is a double beyond the others.
IsValue(v) ==
    /\ v.type \in {"null", "int", "uint", "real", "string", "bool", "array", "object"}
    /\ v.type = "int" => v.n \in minLargestInt .. maxLargestInt
    /\ v.type = "uint" => v.n \in 0 .. maxLargestUInt
    /\ v.type = "real" => v.x \in Int \cup {NaN}

\* How the bounds of the four ranges lie
LEMMA Bounds ==
    /\ maxInt \in Nat /\ minInt = -maxInt - 1 /\ maxUInt = 2 * maxInt + 1
    /\ maxLargestInt \in Nat /\ minLargestInt = -maxLargestInt - 1
    /\ maxLargestUInt = 2 * maxLargestInt + 1
    /\ maxInt64AsDouble = maxLargestInt + 1 /\ maxUInt64AsDouble = maxLargestUInt + 1
    /\ maxInt < maxLargestInt
BY WidthAssumption
   DEF minInt, maxUInt, minLargestInt, maxLargestUInt, maxInt64AsDouble, maxUInt64AsDouble

\* A double that is whole is its truncation, and a truncation stays in a range of
\* whole bounds.
LEMMA TruncatedIn ==
    ASSUME NEW x \in Int
    PROVE  /\ Truncated(x) \in Int
           /\ x % 2 = 0 => 2 * Truncated(x) = x
           /\ \A least, most \in Int :
                 least <= 0 /\ 0 <= most /\ 2 * least <= x /\ x <= 2 * most => Truncated(x) \in least .. most
BY DEF Truncated

\* A whole number of a range is twice an integer.
LEMMA WholeIn ==
    ASSUME NEW x \in Int, NEW least \in Int, NEW most \in Int
    PROVE  (\E n \in least .. most : x = 2 * n) <=> 2 * least <= x /\ x <= 2 * most /\ x % 2 = 0
<1>1. ASSUME x % 2 = 0, 2 * least <= x, x <= 2 * most PROVE \E n \in least .. most : x = 2 * n
  <2>1. x \div 2 \in least .. most /\ x = 2 * (x \div 2)
    BY <1>1
  <2>. QED
    BY <2>1
<1>. QED
  BY <1>1

Whole(v, least, most) == isNumeric(v) /\ \E n \in least .. most : asDouble(v).n = 2 * n
Exact(v, r) == r.ok /\ 2 * r.n = asDouble(v).n

\* Converts, one conversion at a time
Ranges(v) ==
    /\ isInt(v) <=> Whole(v, minInt, maxInt)
    /\ isUInt(v) <=> Whole(v, 0, maxUInt)
    /\ isInt64(v) <=> Whole(v, minLargestInt, maxLargestInt)
    /\ isUInt64(v) <=> Whole(v, 0, maxLargestUInt)
    /\ isIntegral(v) <=> Whole(v, minLargestInt, maxLargestUInt)
Exactly(v) ==
    /\ isInt(v) => Exact(v, asInt(v))
    /\ isUInt(v) => Exact(v, asUInt(v))
    /\ isInt64(v) => Exact(v, asInt64(v))
    /\ isUInt64(v) => Exact(v, asUInt64(v))
Throwing(v) ==
    /\ asInt(v).ok <=> isConvertibleTo(v, "int")
    /\ asUInt(v).ok <=> isConvertibleTo(v, "uint")
    /\ asDouble(v).ok <=> isConvertibleTo(v, "real")
    /\ asBool(v).ok <=> isConvertibleTo(v, "bool")
Undefined(v) ==
    /\ asInt(v).n # Bad /\ asUInt(v).n # Bad
    /\ asInt64(v).n = Bad <=> v.type = "real" /\ v.x = 2 * maxInt64AsDouble
    /\ asUInt64(v).n = Bad <=> v.type = "real" /\ v.x = 2 * maxUInt64AsDouble

\* An integer of 64 bits is in one of the ranges, and stays what it is.
LEMMA IntegersConvert ==
    ASSUME NEW v, IsValue(v), v.type \in {"int", "uint"}
    PROVE  Ranges(v) /\ Exactly(v) /\ Throwing(v) /\ Undefined(v)
<1> USE Bounds
<1>1. /\ v.n \in minLargestInt .. maxLargestUInt
      /\ v.type = "int" => v.n <= maxLargestInt
      /\ v.type = "uint" => v.n >= 0
  BY DEF IsValue
<1>2. asDouble(v) = Number(2 * v.n) /\ isNumeric(v)
  BY DEF asDouble, isNumeric
<1>3. \A least, most \in Int : Whole(v, least, most) <=> v.n \in least .. most
  BY <1>1, <1>2 DEF Whole, Number
<1>4. /\ isInt(v) <=> v.n \in minInt .. maxInt
      /\ isUInt(v) <=> v.n \in 0 .. maxUInt
      /\ isInt64(v) <=> v.n <= maxLargestInt
      /\ isUInt64(v) <=> v.n >= 0
      /\ isIntegral(v)
  BY <1>1 DEF isInt, isUInt, isInt64, isUInt64, isIntegral
<1>5. /\ asInt(v) = IF isInt(v) THEN Number(v.n) ELSE NotConvertible
      /\ asUInt(v) = IF isUInt(v) THEN Number(v.n) ELSE NotConvertible
      /\ asInt64(v) = IF isInt64(v) THEN Number(v.n) ELSE NotConvertible
      /\ asUInt64(v) = IF isUInt64(v) THEN Number(v.n) ELSE NotConvertible
  BY DEF asInt, asUInt, asInt64, asUInt64
<1>6. Ranges(v)
  BY <1>1, <1>3, <1>4 DEF Ranges
<1>7. Exactly(v)
  BY <1>2, <1>5 DEF Exactly, Exact, Number
<1>8. Throwing(v)
  <2>1. asInt(v).ok <=> isInt(v)
    BY <1>5 DEF Number, NotConvertible
  <2>2. asUInt(v).ok <=> isUInt(v)
    BY <1>5 DEF Number, NotConvertible
  <2>3. asDouble(v).ok /\ asBool(v).ok
    BY <1>2 DEF asBool, Number
  <2>. QED
    BY <1>2, <2>1, <2>2, <2>3 DEF Throwing, isConvertibleTo
<1>9. Undefined(v)
  BY <1>1, <1>5, NoNumberAssumption DEF Undefined, Number, NotConvertible
<1>. QED
  BY <1>6, <1>7, <1>8, <1>9

\* A double is in a range if it is whole and in it, and is cut to it if it is not whole.
LEMMA DoublesConvert ==
    ASSUME NEW v, IsValue(v), v.type = "real", v.x # NaN
    PROVE  Ranges(v) /\ Exactly(v) /\ Throwing(v) /\ Undefined(v)
<1> USE Bounds
<1>1. v.x \in Int
  BY DEF IsValue
<1>2. asDouble(v) = Number(v.x) /\ isNumeric(v)
  BY DEF asDouble, isNumeric
<1>3. \A least, most \in Int :
         Whole(v, least, most) <=> 2 * least <= v.x /\ v.x <= 2 * most /\ v.x % 2 = 0
  BY <1>1, <1>2, WholeIn DEF Whole, Number
<1>4. /\ isInt(v) <=> 2 * minInt <= v.x /\ v.x <= 2 * maxInt /\ v.x % 2 = 0
      /\ isUInt(v) <=> 0 <= v.x /\ v.x <= 2 * maxUInt /\ v.x % 2 = 0
      /\ isInt64(v) <=> 2 * minLargestInt <= v.x /\ v.x < 2 * maxInt64AsDouble /\ v.x % 2 = 0
      /\ isUInt64(v) <=> 0 <= v.x /\ v.x < 2 * maxUInt64AsDouble /\ v.x % 2 = 0
      /\ isIntegral(v) <=> 2 * minLargestInt <= v.x /\ v.x < 2 * maxUInt64AsDouble /\ v.x % 2 = 0
  BY <1>1 DEF isInt, isUInt, isInt64, isUInt64, isIntegral, InRange, IsIntegral
<1>5. /\ asInt(v) = IF 2 * minInt <= v.x /\ v.x <= 2 * maxInt THEN Number(Truncated(v.x))
                    ELSE NotConvertible
      /\ asUInt(v) = IF 0 <= v.x /\ v.x <= 2 * maxUInt THEN Number(Truncated(v.x))
                     ELSE NotConvertible
  BY <1>1, TruncatedIn DEF asInt, asUInt, InRange, Cast
<1>6. /\ asInt64(v) = IF 2 * minLargestInt <= v.x /\ v.x <= 2 * maxInt64AsDouble
                      THEN Cast(v.x, minLargestInt, maxLargestInt) ELSE NotConvertible
      /\ asUInt64(v) = IF 0 <= v.x /\ v.x <= 2 * maxUInt64AsDouble
                       THEN Cast(v.x, 0, maxLargestUInt) ELSE NotConvertible
  BY <1>1 DEF asInt64, asUInt64, InRange
<1>7. /\ Truncated(v.x) \in Int
      /\ v.x % 2 = 0 => 2 * Truncated(v.x) = v.x
      /\ 2 * minLargestInt <= v.x /\ v.x <= 2 * maxInt64AsDouble =>
            (Truncated(v.x) \in minLargestInt .. maxLargestInt <=> v.x # 2 * maxInt64AsDouble)
      /\ 0 <= v.x /\ v.x <= 2 * maxUInt64AsDouble =>
            (Truncated(v.x) \in 0 .. maxLargestUInt <=> v.x # 2 * maxUInt64AsDouble)
  BY <1>1 DEF Truncated
<1>8. Ranges(v)
  <2>1. \A k \in Int : v.x % 2 = 0 => (v.x < 2 * (k + 1) <=> v.x <= 2 * k)
    BY <1>1
  <2>2. /\ isInt64(v) <=> 2 * minLargestInt <= v.x /\ v.x <= 2 * maxLargestInt /\ v.x % 2 = 0
        /\ isUInt64(v) <=> 0 <= v.x /\ v.x <= 2 * maxLargestUInt /\ v.x % 2 = 0
        /\ isIntegral(v) <=> 2 * minLargestInt <= v.x /\ v.x <= 2 * maxLargestUInt /\ v.x % 2 = 0
    BY <1>1, <1>4, <2>1
  <2>3. /\ isInt(v) <=> Whole(v, minInt, maxInt)
        /\ isUInt(v) <=> Whole(v, 0, maxUInt)
    BY <1>3, <1>4
  <2>4. /\ isInt64(v) <=> Whole(v, minLargestInt, maxLargestInt)
        /\ isUInt64(v) <=> Whole(v, 0, maxLargestUInt)
        /\ isIntegral(v) <=> Whole(v, minLargestInt, maxLargestUInt)
    BY <1>3, <2>2
  <2>. QED
    BY <2>3, <2>4 DEF Ranges
<1>9. Exactly(v)
  BY <1>1, <1>2, <1>4, <1>5, <1>6, <1>7 DEF Exactly, Exact, Number, Cast
<1>10. Throwing(v)
  <2>1. asInt(v).ok <=> 2 * minInt <= v.x /\ v.x <= 2 * maxInt
    BY <1>5 DEF Number, NotConvertible
  <2>2. asUInt(v).ok <=> 0 <= v.x /\ v.x <= 2 * maxUInt
    BY <1>5 DEF Number, NotConvertible
  <2>3. asDouble(v).ok /\ asBool(v).ok
    BY <1>2 DEF asBool, Number
  <2>. QED
    BY <1>1, <1>2, <1>4, <2>1, <2>2, <2>3 DEF Throwing, isConvertibleTo, InRange
<1>11. Undefined(v)
  BY <1>1, <1>5, <1>6, <1>7, NoNumberAssumption DEF Undefined, Number, NotConvertible, Cast
<1>. QED
  BY <1>8, <1>9, <1>10, <1>11

\* NaN is in no range, and no integer.
LEMMA NaNConverts ==
    ASSUME NEW v, IsValue(v), v.type = "real", v.x = NaN
    PROVE  Ranges(v) /\ Exactly(v) /\ Throwing(v) /\ Undefined(v)
<1> USE Bounds
<1>1. asDouble(v) = Number(NaN) /\ isNumeric(v)
  BY DEF asDouble, isNumeric
<1>2. \A least, most \in Int : ~Whole(v, least, most)
  BY <1>1, NoNumberAssumption DEF Whole, Number
<1>3. ~isInt(v) /\ ~isUInt(v) /\ ~isInt64(v) /\ ~isUInt64(v) /\ ~isIntegral(v)
  BY DEF isInt, isUInt, isInt64, isUInt64, isIntegral, InRange
<1>4. /\ asInt(v) = NotConvertible /\ asUInt(v) = NotConvertible
      /\ asInt64(v) = NotConvertible /\ asUInt64(v) = NotConvertible
  BY DEF asInt, asUInt, asInt64, asUInt64, InRange
<1>5. Ranges(v) /\ Exactly(v)
  BY <1>2, <1>3 DEF Ranges, Exactly
<1>6. asDouble(v).ok /\ asBool(v).ok
  BY <1>1 DEF asBool, Number
<1>7. Throwing(v)
  BY <1>1, <1>3, <1>4, <1>6 DEF Throwing, isConvertibleTo, NotConvertible, InRange
<1>8. Undefined(v)
  BY <1>4, NoNumberAssumption DEF Undefined, NotConvertible
<1>. QED
  BY <1>5, <1>7, <1>8

\* What is not a number is in no range; null and the two truth values convert.
LEMMA OthersConvert ==
    ASSUME NEW v, IsValue(v), v.type \notin {"int", "uint", "real"}
    PROVE  Ranges(v) /\ Exactly(v) /\ Throwing(v) /\ Undefined(v)
<1>1. ~isNumeric(v) /\ v.type \in {"null", "string", "bool", "array", "object"}
  BY DEF isNumeric, IsValue
<1>2. ~isInt(v) /\ ~isUInt(v) /\ ~isInt64(v) /\ ~isUInt64(v) /\ ~isIntegral(v)
  BY <1>1 DEF isInt, isUInt, isInt64, isUInt64, isIntegral
<1>3. Ranges(v) /\ Exactly(v)
  BY <1>1, <1>2 DEF Ranges, Exactly, Whole
<1>4. /\ asInt(v) = asOther(v) /\ asUInt(v) = asOther(v)
      /\ asInt64(v) = asOther(v) /\ asUInt64(v) = asOther(v)
  BY <1>1 DEF asInt, asUInt, asInt64, asUInt64
<1>5. /\ asOther(v).ok <=> v.type \in {"null", "bool"}
      /\ asDouble(v).ok <=> v.type \in {"null", "bool"}
      /\ asBool(v).ok <=> v.type \in {"null", "bool"}
      /\ asOther(v).n \in Int
  BY <1>1 DEF asOther, asDouble, asBool, Number, NotConvertible
<1>6. Throwing(v)
  BY <1>1, <1>2, <1>4, <1>5 DEF Throwing, isConvertibleTo
<1>7. Undefined(v)
  BY <1>1, <1>4, <1>5, NoNumberAssumption DEF Undefined
<1>. QED
  BY <1>3, <1>6, <1>7

\* For integers of every width: isInt and the like say exactly which numbers are in
\* a range, the conversions to it are exact, isConvertibleTo says which do not
\* throw, and a double is the argument of an undefined cast in one place each.
THEOREM NumbersConvert == \A v : IsValue(v) => Converts(v)
<1> SUFFICES ASSUME NEW v, IsValue(v) PROVE Converts(v)
  OBVIOUS
<1>1. Ranges(v) /\ Exactly(v) /\ Throwing(v) /\ Undefined(v)
  BY IntegersConvert, DoublesConvert, NaNConverts, OthersConvert
<1>. QED
  BY <1>1 DEF Converts, Ranges, Exactly, Throwing, Undefined, Whole, Exact
=============================================================================
