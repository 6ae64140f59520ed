----------------------------- MODULE MCCommandLine -----------------------------
(* CommandLine for TLC: a few directories, two of them unrelated to the      *)
(* others, and numbers of tokens around the sizes of the argument arrays.    *)
EXTENDS CommandLine

Home  == <<"/", "h">>
Below == <<"/", "h", "/", "a">>
SomeDirs == { <<"/">>, Home, Below, <<"/", "x">>, <<"/", "x", "/", "y">> }
Starts == { <<"/">>, Home }
Counts == {0, 1, 2, 63, 64, 65, 127, 128, 129}
=============================================================================
