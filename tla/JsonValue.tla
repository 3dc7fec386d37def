----------------------------- MODULE JsonValue ------------------------------
(***************************************************************************)
(* Json::Value of jsoncpp 1.8.4 (lib_json/json_value.cpp): calls on a      *)
(* document, each for the value at a path that operator[] leads to.  The   *)
(* history `call' is the last one, with what it returned.                  *)
(***************************************************************************)
EXTENDS JsonWriters

CONSTANTS
    Roots, Others,  \* the documents there are before the calls
    Written,        \* documents that are only written
    Paths,          \* of at most two keys
    Names, Indices, Sizes,
    Given,          \* the values that are assigned or appended
    Notes,          \* the comments that are set: [placement, comments]
    MaxCalls

VARIABLES root, other, call, calls

vars == <<root, other, call, calls>>

-----------------------------------------------------------------------------
(* operator[] *)

Kind(k) == IF IsIndex(k) THEN "array" ELSE "object"
In(k) == IF IsIndex(k) THEN k.index ELSE k.key

Accepts(v, k) == v.type \in {"null", Kind(k)}

\* A null value becomes a container, and loses its comments.
Opened(v, k) ==
    IF v.type = "null" THEN [type |-> Kind(k), comments |-> <<>>, m |-> <<>>] ELSE v

\* resolveReference and operator[](ArrayIndex): a null value is put there.
Reference(v, k) ==
    [Opened(v, k) EXCEPT !.m = IF In(k) \in DOMAIN @ THEN @ ELSE In(k) :> Absent @@ @]

\* find, get, operator[] const, and resolve of a Path: nothing is put anywhere.
RECURSIVE resolve(_, _)
resolve(v, path) ==
    IF path = <<>> THEN v
    ELSE IF v.type # Kind(path[1]) THEN Absent
    ELSE resolve(Const(v, In(path[1])), Tail(path))

\* make of a Path, or operator[] again and again: whether no assertion fails,
RECURSIVE Leads(_, _)
Leads(v, path) ==
    IF path = <<>> THEN TRUE
    ELSE Accepts(v, path[1]) /\ Leads(resolve(v, <<path[1]>>), Tail(path))

\* and what v is when new is then at the end.
RECURSIVE make(_, _, _)
make(v, path, new) ==
    IF path = <<>> THEN new
    ELSE [Reference(v, path[1]) EXCEPT !.m[In(path[1])] = make(@, Tail(path), new)]

-----------------------------------------------------------------------------
(* Calls *)

Node(path) == resolve(root, path)

Called(op, path, key, ok) ==
    /\ calls < MaxCalls /\ calls' = calls + 1
    /\ call' = [op |-> op, path |-> path, key |-> key, ok |-> ok]

\* The value at path is now v.
Becomes(path, v) == root' = make(root, path, v)

\* A failed assertion throws LogicError.
Throws(op, path, key) ==
    /\ Called(op, path, key, FALSE)
    /\ UNCHANGED <<root, other>>

Unreachable == \E path \in Paths : ~Leads(root, path) /\ Throws("operator[]", path, 0)

Assign ==
    \E path \in Paths, v \in Given :
        /\ Leads(root, path)
        /\ Becomes(path, v)
        /\ Called("=", path, 0, TRUE) /\ UNCHANGED other

\* operator[] alone
Refer ==
    \E path \in Paths :
        /\ Leads(root, path)
        /\ Becomes(path, Node(path))
        /\ Called("operator[]", path, 0, TRUE) /\ UNCHANGED other

Append1 ==
    \E path \in Paths, v \in Given :
        LET at == Node(path)  last == Index(size(at)) IN
        /\ Leads(root, path)
        /\ IF Accepts(at, last)
           THEN /\ Becomes(path, make(at, <<last>>, v))
                /\ Called("append", path, 0, TRUE) /\ UNCHANGED other
           ELSE Throws("append", path, 0)

Cleared(v) == IF IsContainer(v) THEN [v EXCEPT !.m = <<>>] ELSE v

clear ==
    \E path \in Paths :
        LET at == Node(path) IN
        /\ Leads(root, path)
        /\ IF IsContainer(at) \/ at.type = "null"
           THEN /\ Becomes(path, Cleared(at))
                /\ Called("clear", path, 0, TRUE) /\ UNCHANGED other
           ELSE Throws("clear", path, 0)

\* Slip: the element put there is one too far.
ResizedLong(v, n) ==
    LET a == Opened(v, Index(0)) IN
    CASE n = 0 -> Cleared(a)
      [] n > size(a) -> Reference(a, Index(n))
      [] OTHER -> [a EXCEPT !.m = [i \in {i \in DOMAIN @ : i < n} |-> @[i]]]

Resized(v, n) ==
    LET a == Opened(v, Index(0)) IN
    CASE n = 0 -> Cleared(a)
      [] n > size(a) -> Reference(a, Index(n - 1))
      [] OTHER -> [a EXCEPT !.m = [i \in {i \in DOMAIN @ : i < n} |-> @[i]]]

\* The size is asserted at the end, when the elements have been erased.
resize ==
    \E path \in Paths, n \in Sizes :
        LET at == Node(path) IN
        /\ Leads(root, path)
        /\ IF Accepts(at, Index(0))
           THEN /\ Becomes(path, Resized(at, n))
                /\ Called("resize", path, n, n <= size(Opened(at, Index(0))) =>
                                                size(Resized(at, n)) = n)
                /\ UNCHANGED other
           ELSE Throws("resize", path, n)

Without(m, k) == [i \in DOMAIN m \ {k} |-> m[i]]

\* From n on every element gets the next one, null where there is none.
Shifted(v, n) ==
    [v EXCEPT !.m = [i \in {i \in DOMAIN @ : i < n} \cup (n .. size(v) - 2) |->
                        IF i < n THEN @[i] ELSE Const(v, i + 1)]]

removeIndex ==
    \E path \in Paths, n \in Indices :
        LET at == Node(path) IN
        /\ Leads(root, path)
        /\ IF IsArray(at) /\ n \in Present(at)
           THEN /\ Becomes(path, Shifted(at, n))
                /\ other' = at.m[n]
                /\ Called("removeIndex", path, n, TRUE)
           ELSE /\ Becomes(path, at) /\ UNCHANGED other
                /\ Called("removeIndex", path, n, FALSE)

\* removeMember(key, removed)
RemoveMemberInto ==
    \E path \in Paths, name \in Names :
        LET at == Node(path) IN
        /\ Leads(root, path)
        /\ IF IsObject(at) /\ name \in Present(at)
           THEN /\ Becomes(path, [at EXCEPT !.m = Without(@, name)])
                /\ other' = at.m[name]
                /\ Called("removeMemberInto", path, name, TRUE)
           ELSE /\ Becomes(path, at) /\ UNCHANGED other
                /\ Called("removeMemberInto", path, name, FALSE)

\* removeMember(key): the name ends at its first NUL.
RemoveMember ==
    \E path \in Paths, name \in Names :
        LET at == Node(path) IN
        /\ Leads(root, path)
        /\ IF IsObject(at) \/ at.type = "null"
           THEN /\ Becomes(path, IF IsObject(at)
                                 THEN [at EXCEPT !.m = Without(@, UpToNul(name))] ELSE at)
                /\ Called("removeMember", path, name, TRUE) /\ UNCHANGED other
           ELSE Throws("removeMember", path, name)

\* The new line at the end of the comment is dropped, which CommentPieces does.
setComment ==
    \E path \in Paths, c \in Notes :
        /\ Leads(root, path)
        /\ Becomes(path, [Node(path) EXCEPT !.comments = c.placement :> c.comments @@ @])
        /\ Called("setComment", path, 0, TRUE) /\ UNCHANGED other

swap ==
    \E path \in Paths :
        /\ Leads(root, path)
        /\ Becomes(path, other) /\ other' = Node(path)
        /\ Called("swap", path, 0, TRUE)

\* The comments stay.
Payload1(v, w) == [w EXCEPT !.comments = v.comments]
swapPayload ==
    \E path \in Paths :
        /\ Leads(root, path)
        /\ Becomes(path, Payload1(Node(path), other)) /\ other' = Payload1(other, Node(path))
        /\ Called("swapPayload", path, 0, TRUE)

Copy ==
    \E path \in Paths :
        /\ Leads(root, path)
        /\ Becomes(path, Node(path)) /\ other' = Node(path)
        /\ Called("copy", path, 0, TRUE)

NoCall == [op |-> "none", path |-> <<>>, key |-> 0, ok |-> TRUE]

Init ==
    /\ \/ root \in Roots /\ calls = 0
       \/ root \in Written /\ calls = MaxCalls
    /\ other \in Others
    /\ call = NoCall

Next ==
    \/ Unreachable \/ Assign \/ Refer \/ Append1 \/ clear \/ resize
    \/ removeIndex \/ RemoveMemberInto \/ RemoveMember
    \/ setComment \/ swap \/ swapPayload \/ Copy

Spec == Init /\ [][Next]_vars
=============================================================================
