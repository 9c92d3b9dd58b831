-------------------------- MODULE MCTsunamiSession --------------------------
EXTENDS TsunamiSession

\* what the server may list: nothing, two files, a file that is gone
MCListings == {<<>>, <<"a", "b">>, <<"c">>}
=============================================================================
