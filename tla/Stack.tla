--------------------------------- MODULE Stack ---------------------------------
(***************************************************************************)
(* What vec.h promises its user: a stack of values without a limit.  The   *)
(* example in the header (lines 13-24) is all a user needs to know.        *)
(***************************************************************************)
EXTENDS Integers, Sequences

CONSTANTS Values

VARIABLES
    stack,       \* the values, the bottom one first
    answer       \* what the last vecPop() or vecTop() returned

Put(x) == stack' = Append(stack, x) /\ UNCHANGED answer

Take ==
    /\ stack # <<>>
    /\ answer' = stack[Len(stack)]
    /\ stack' = SubSeq(stack, 1, Len(stack) - 1)

Look ==
    /\ stack # <<>>
    /\ answer' = stack[Len(stack)]
    /\ UNCHANGED stack

\* vecClear(), or vecRelease() and a later vecInit()
Empty == stack' = <<>> /\ UNCHANGED answer

Init == stack = <<>> /\ answer \in Values

Next == (\E x \in Values : Put(x)) \/ Take \/ Look \/ Empty

Spec == Init /\ [][Next]_<<stack, answer>>
=============================================================================
