----------------------------- MODULE MCArgInput -----------------------------
(* Small instances of ArgInput for TLC: an unsigned short has 3 bits, an int 16. *)
EXTENDS ArgInput, TLC

CONSTANTS t1, t2

MCIntOf == ("5" :> 5) @@ ("-1" :> -1) @@ ("12" :> 12) @@
           [x \in {"", "wool", "block", "data", "pos", "99", ".5", "round", "get", "let",
                   "stop", "paint", "x", "zoo", "ellipse", "-b", "-bd", "-r", "-f", "-t", "-w", "-d", "z"} |-> NoNumber]
MCTexts == DOMAIN MCIntOf
MCReals == {"5", "-1", "12", "99", ".5"}
MCCharOf == [x \in MCTexts |-> IF x = "wool" THEN "x" ELSE x]

Plain(texts) == [dash |-> TRUE, words |-> [j \in DOMAIN texts |-> [text |-> texts[j], quotes |-> 0]]]
Quoted(qs, texts) ==
    [dash |-> TRUE, words |-> [j \in DOMAIN qs |-> [text |-> texts[j], quotes |-> qs[j]]]]

\* Options with numbers of every kind, one after the other, up to four words
Args == {"-b", "-bd", "-r", "-t", "wool", "5", "-1", "99"}
Builds == {Plain(<<"round">> \o a) : a \in SeqOf(Args, 3)}
    \cup {Plain(<<"paint", a, b, c, d>>) : a, c \in {"-b", "-f", "-d"}, b, d \in {"-f", "12", ".5"}}
\* Quotes at every place
Quotes == {Quoted(<<q[1], q[2], q[3], q[4]>>, x) : q \in [1 .. 4 -> 0 .. 2],
             x \in {<<"round", "-b", "", "5">>, <<"let", "block", "wool", "x">>}}
Others == {Plain(<<"get">>), Plain(<<"get", "x">>), Plain(<<"zoo", "-b">>),
           [dash |-> FALSE, words |-> <<>>]}
Short == {Plain(<<"stop">>), Plain(<<"let", "block", "5">>), Plain(<<"get", "pos">>), Plain(<<"round", "wool">>),
          Plain(<<"round", "-b", "wool">>), Plain(<<"round", "-bd", "5">>)}
Lets == {Plain(<<"let">> \o a) : a \in {<<>>, <<"block", "wool">>, <<"data", "12">>,
                                        <<"data", "99">>, <<"x", "5">>}}

\* The second thread meets only short commands of the first.
MCBound == pc[t2] # "idle" => cmd[t1] \in Short \cup {NoMessage}

MCMessages == (t1 :> Builds \cup Quotes \cup Others \cup Short) @@ (t2 :> Lets \cup {Plain(<<"round">>)})

\* Two commands at once
MCRadius == (t1 :> {Plain(<<"round", "-r", "5">>)}) @@ (t2 :> {Plain(<<"let", "data", "12">>)})
=============================================================================
