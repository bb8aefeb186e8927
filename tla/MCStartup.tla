------------------------------ MODULE MCStartup ------------------------------
(* Short lists of all kinds of arguments, and longer ones of those that make *)
(* getopt_long exchange segments of argv.                                  *)
EXTENDS Startup

Lists(elements, n) == UNION {[1..k -> elements] : k \in 0..n}

All == {Plain(<<"in">>), Plain(<<"never">>), Plain(<<"c99">>), Plain(<<"explain">>),
        Plain(<<"explain", "in">>), Plain(<<"in", "put">>), Plain(<<"none">>),
        Dash, DashDash, Short(<<"C">>, <<>>), Short(<<"t">>, <<>>), Short(<<"v">>, <<>>),
        Short(<<"q", "?">>, <<>>), Short(<<"i", "f">>, <<"in">>), Short(<<"f">>, <<>>),
        Short(<<"f">>, <<"none">>), Short(<<"c">>, <<"none">>), Short(<<"o">>, <<>>),
        Short(<<"i", "o">>, <<"in">>), Short(<<"k">>, <<"in">>),
        Long(<<"co", "lor">>, <<"tty">>), Long(<<"co">>, <<"tty">>),
        Long(<<"co", "nfig">>, <<>>), Long(<<"l">>, <<>>), Long(<<"h">>, <<>>),
        Long(<<"q", "uiet">>, <<"in">>)}

Mixed == {Plain(<<"in">>), Short(<<"s">>, <<>>), Short(<<"i", "o">>, <<>>), DashDash}

MCArguments == Lists(All, 2) \cup Lists(Mixed, 6)
MCNames == {Plain(<<"cdecl">>), Plain(<<"explain">>)}
MCReadable == {Plain(<<"in">>), Default}
MCCreatable == {Plain(<<"in">>), Plain(<<"c99">>), DashDash}
=============================================================================
