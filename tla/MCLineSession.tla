----------------------------- MODULE MCLineSession -----------------------------
(* LineSession for TLC: two users and the files they put. *)
EXTENDS LineSession

TwoClients == {"c1", "c2"}

\* Both files are commands, should the server take them for lines; the first
\* does not end with a newline.
Files == [c1 |-> <<"wall", SP, "y">>, c2 |-> <<"get", SP, "f", NL>>]
Digits == [n \in 3..4 |-> IF n = 3 THEN "3" ELSE "4"]

TheWords == {"wall", "y", "get", "put", "f", "m", "cd", "d", "ls", "exit", "3", "4"}

Put == <<"put", "f">>
TheScripts ==
    { [c1 |-> << <<"wall", "m">>, Put >>,      c2 |-> << Put >>],
      [c1 |-> << <<"cd", "d">>, <<"get", "f">> >>, c2 |-> << <<"ls">>, Put >>],
      [c1 |-> << Put >>,                       c2 |-> << Put, <<"exit">> >>],
      [c1 |-> << Put >>,                       c2 |-> << <<"ls">>, Put >>] }
=============================================================================
