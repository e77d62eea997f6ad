------------------------------ MODULE MCSsiPage ------------------------------
(* Pages for model checking SsiPage. *)
EXTENDS SsiPage

Text(s) == [text |-> s, name |-> NoTag, params |-> <<>>]

Tag(s, n, ps) == [text |-> s, name |-> n, params |-> ps]

\* Rendered lengths.
InsertLengths == [n \in {"t", "u", "v"} |-> IF n = "t" THEN 3 ELSE IF n = "u" THEN 2 ELSE 0]

\* More than the send buffer holds, then a block with a tag.
FullPage ==
    { <<Text([k \in 1 .. 2 * MAX_SEND |-> "a"]), Tag(<<"b">>, "t", <<>>),
        Text(<<"c">>)>> }

\* Two tags with parameters in a block of 24 bytes, or over blocks of 6; tags
\* that straddle blocks, after a text that only looks like one; an unknown tag.
FittingPages ==
    { <<Tag(<<>>, "t", <<"p">>), Tag(<<"a">>, "u", <<"q">>), Text(<<"b">>)>>,
      <<Tag(<<"a", "<", "b", "!">>, "t", <<>>), Tag(<<"a", "b", "c">>, "u", <<>>),
        Text(<<"d", "e">>)>>,
      <<Tag(<<"a">>, "x", <<>>), Text(<<"b", "a", "-">>)>> }

\* A tag that renders to nothing, with parameters that are freed or without, in front
\* of another one that is parsed in the same call.
EmptyPages ==
    { <<Tag(<<>>, "v", ps), Tag(<<"a">>, "u", <<"q">>), Text(<<"b">>)>> : ps \in {<<"p">>, <<>>} }

\* A tag that ends with a block of 6.
EndingPage == { <<Tag(<<"a", "b", "c">>, "t", <<>>), Text(<<"d">>)>> }

AllTokens ==
    {"<", "!", "-", "#", ">", " ", "a", "b", "c", "d", "e", "p", "q", "t", "u", "v", "x"}

AllPages == FittingPages \cup EmptyPages \cup FullPage \cup EndingPage
=============================================================================
