-------------------------- MODULE MCMessageFormat --------------------------
(* Small inputs for MessageFormat. *)
EXTENDS MessageFormat

SomeCharacters ==
    {"x", "y", "g", "h", "u", "e", "p", "q", "sp", "cr", "nl", "bad", "/", ":", ".", "[", "]",
     "Endpoint", "URL", "Description", "Errors", "triggered", "TRIGGERED", "RESOLVED"}

\* Names with every placement of white space and a colon, states of both forms
\* and of neither, fields that look like another line.
SomeAlerts ==
    [state       : {<<"TRIGGERED">>, <<"[", "sp", "RESOLVED", "]">>, <<"sp", "TRIGGERED", "nl", "x">>,
                    <<"triggered">>, <<"cr">>},
     name        : BoundedSeq({"x", "sp", "nl", ":"}, 2),
     group       : {<<>>, <<"sp", "g", "nl", "Endpoint", ":", "h", "sp">>},
     url         : {<<>>, <<"u">>},
     description : {<<>>, <<"x", "cr", "nl", "Endpoint", ":", "sp", "y">>},
     errors      : {<<>>, <<"e">>}]

\* Every short text, alone and under a line with a state, and one not in UTF-8
\* (in JSON, decoding has replaced such bytes).
SomeTexts ==
    LET short == BoundedSeq({"x", "sp", "cr", "nl", "Endpoint", ":"}, 3)
    IN  short \cup {<<"TRIGGERED", "cr", "nl">> \o s : s \in short} \cup {<<"x", "bad">>}

SomePrefixes == {<<"sp">>, <<"p">>, <<"p", "nl", "q", "sp">>}

\* None, the lengths up to that of the suffix and past it, and enough for all.
SomeLimits == {0, 1, 3, 4, 7, 12, 60}
=============================================================================
