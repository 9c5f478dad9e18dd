----------------------------- MODULE MCClients -----------------------------
(***************************************************************************)
(* YfsClients for TLC: names and pathnames are sequences of characters.    *)
(***************************************************************************)
EXTENDS YfsClients

MCSlash   == "/"
MCPeriod  == "."
MCLetters == {"a", "b"}
MCNames   == {<<"a">>, <<"b">>}
MCDot     == <<".">>
MCDotDot  == <<".", ".">>

MCClientSet == {"c1", "c2"}

A  == <<"a">>
B  == <<"b">>
AS == <<"a", "/">>

MCCalls ==
  [c1 |-> { <<"Create", A, A>>, <<"Open", A, A>>, <<"Read", A, A>>, <<"Write", A, A>>,
            <<"Seek", A, A>>, <<"Unlink", A, A>> },
   c2 |-> { <<"MkDir", A, A>>, <<"RmDir", A, A>>, <<"Link", A, B>>, <<"Unlink", A, A>>,
            <<"Unlink", B, B>>, <<"ChDir", AS, A>>, <<"Shutdown", A, A>> }]
=============================================================================
