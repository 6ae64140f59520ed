---------------------------------- MODULE Vec ----------------------------------
(***************************************************************************)
(* The growable vector, vec.c and vec.h (array.c and array.h are the same  *)
(* code under another name).  A vector is a block of memory with a header; *)
(* its user holds pointers to it, and the macros of vec.h store the result *)
(* of a call in the one they are given.  realloc() moves the block or not. *)
(* An expression vecPush(p) = x is two steps: the call reserves an item,   *)
(* the assignment stores x in it.                                          *)
(*                                                                         *)
(* The user keeps the rules of vec.h (27-36): a pointer is used only while *)
(* it points to the block, and nothing is taken from an empty vector.      *)
(***************************************************************************)
EXTENDS Integers, Sequences

CONSTANTS
    Values,        \* what may be stored
    Pointers,      \* the user's pointer variables
    Addresses,     \* where malloc() and realloc() may put a block
    Null,
    StartCap,      \* vecInit() asks for 8 items
    MaxRoom        \* items that fit in memory; realloc() fails above (bound)

ASSUME VecAssumption ==
    /\ Values # {}
    /\ Null \notin Addresses
    /\ StartCap \in Nat \ {0}
    /\ MaxRoom \in Nat

VARIABLES
    block,         \* the address of the vector, or Null
    len, cap,      \* its header
    item,          \* its memory: a function on 0 .. (items allocated) - 1
    reserved,      \* was the last item reserved and not yet stored?
    ptr,           \* the user's pointers
    answer,        \* what the last vecPop() or vecTop() returned
    exited         \* did realloc() fail?

vars == <<block, len, cap, item, reserved, ptr, answer, exited>>
header == <<len, cap>>

Usable(p) == ~exited /\ block # Null /\ ptr[p] = block

\* New memory holds anything.
Room(n) == [0..n - 1 -> Values]

Init ==
    /\ block = Null
    /\ len = 0 /\ cap = 0 /\ item \in Room(0)
    /\ reserved = FALSE
    /\ ptr = [p \in Pointers |-> Null]
    /\ answer \in Values
    /\ exited = FALSE

\* vecInit(p); without memory p becomes NULL.  One vector at a time (bound).
vecInit(p) ==
    /\ ~exited /\ block = Null
    /\ \/ /\ block' \in Addresses
          /\ ptr' = [ptr EXCEPT ![p] = block']
          /\ len' = 0 /\ cap' = StartCap
          /\ item' \in Room(StartCap)
       \/ /\ ptr' = [ptr EXCEPT ![p] = Null]
          /\ UNCHANGED <<block, header, item>>
    /\ UNCHANGED <<reserved, answer, exited>>

\* The other pointers still hold the address.
vecRelease(p) ==
    /\ Usable(p) /\ ~reserved
    /\ block' = Null
    /\ len' = 0 /\ cap' = 0 /\ item' \in Room(0)
    /\ UNCHANGED <<reserved, ptr, answer, exited>>

\* A second pointer to the vector.
Copy(p, q) ==
    /\ Usable(p) /\ ~reserved
    /\ ptr' = [ptr EXCEPT ![q] = block]
    /\ UNCHANGED <<block, header, item, reserved, answer, exited>>

\* Mutant of Grow: realloc() is called before cap is doubled.
GrowFirst(p) ==
    /\ cap' = 2 * cap
    /\ item' \in {m \in Room(cap) : \A i \in DOMAIN item : m[i] = item[i]}
    /\ block' \in Addresses
    /\ ptr' = [ptr EXCEPT ![p] = block']

\* Mutant of Grow: malloc() instead of realloc(), the items are not copied.
GrowAnew(p) ==
    /\ cap' = 2 * cap
    /\ item' \in Room(cap')
    /\ block' \in Addresses
    /\ ptr' = [ptr EXCEPT ![p] = block']

\* cap is doubled; realloc() keeps what the block holds, and may move it.
Grow(p) ==
    /\ cap' = 2 * cap
    /\ item' \in {m \in Room(cap') : \A i \in DOMAIN item : m[i] = item[i]}
    /\ block' \in Addresses
    /\ ptr' = [ptr EXCEPT ![p] = block']

\* Mutant of vecPush: the vector grows one item early.
vecPushEarly(p) ==
    /\ Usable(p) /\ ~reserved
    /\ IF len + 1 = cap
       THEN 2 * cap <= MaxRoom /\ Grow(p)
       ELSE UNCHANGED <<block, cap, item, ptr>>
    /\ len' = len + 1
    /\ reserved' = TRUE
    /\ UNCHANGED <<answer, exited>>

\* if (hdr->len == hdr->cap) ...; ++hdr->len;
vecPush(p) ==
    /\ Usable(p) /\ ~reserved
    /\ IF len = cap
       THEN 2 * cap <= MaxRoom /\ Grow(p)
       ELSE UNCHANGED <<block, cap, item, ptr>>
    /\ len' = len + 1
    /\ reserved' = TRUE
    /\ UNCHANGED <<answer, exited>>

\* "program ran out of heap memory"
vecPushExits(p) ==
    /\ Usable(p) /\ ~reserved
    /\ len = cap
    /\ exited' = TRUE
    /\ UNCHANGED <<block, header, item, reserved, ptr, answer>>

\* vecPush(p) = x: the macro's (p)+vecLen(p)-1.
Store(p, x) ==
    /\ Usable(p) /\ reserved
    /\ item' = [item EXCEPT ![len - 1] = x]
    /\ reserved' = FALSE
    /\ UNCHANGED <<block, header, ptr, answer, exited>>

\* vecPop(p): the item is read where it was, above the new length.
vecPop(p) ==
    /\ Usable(p) /\ ~reserved
    /\ len > 0
    /\ len' = len - 1
    /\ answer' = item[len']
    /\ UNCHANGED <<block, cap, item, reserved, ptr, exited>>

vecTop(p) ==
    /\ Usable(p) /\ ~reserved
    /\ len > 0
    /\ answer' = item[len - 1]
    /\ UNCHANGED <<block, header, item, reserved, ptr, exited>>

vecClear(p) ==
    /\ Usable(p) /\ ~reserved
    /\ len' = 0
    /\ UNCHANGED <<block, cap, item, reserved, ptr, answer, exited>>

Next ==
    \E p \in Pointers :
        \/ vecInit(p) \/ vecRelease(p) \/ \E q \in Pointers : Copy(p, q)
        \/ vecPush(p) \/ vecPushExits(p) \/ \E x \in Values : Store(p, x)
        \/ vecPop(p) \/ vecTop(p) \/ vecClear(p)

Spec == Init /\ [][Next]_vars

-----------------------------------------------------------------------------
(* Properties *)

\* The header tells the truth about the memory: cap items are allocated, and
\* the first len of them are the vector; a cap of 0 could not be doubled.  So no item is stored or read outside
\* the block (vec.c 35-47, the macros of vec.h).
TypeOK ==
    /\ block \in Addresses \cup {Null}
    /\ len \in Nat /\ cap \in Nat
    /\ len <= cap
    /\ item \in Room(cap)
    /\ reserved \in BOOLEAN
    /\ reserved => len > 0
    /\ ptr \in [Pointers -> Addresses \cup {Null}]
    /\ answer \in Values
    /\ exited \in BOOLEAN
    /\ IF block = Null THEN len = 0 /\ cap = 0 ELSE cap > 0

\* "jede Vergroesserung des Vektors [invalidiert] alle Zeiger auf und in den
\* Vektor potentiell" (vec.h 28-31): what invalidates a second pointer is
\* growth and release, and the vector grows only when it is full.
StaysUsable ==
    [][\A p \in Pointers :
          Usable(p) /\ ptr'[p] = ptr[p] /\ len < cap /\ block' # Null => ptr'[p] = block']_vars

\* The values stored so far.
contents == [i \in 1..(IF reserved THEN len - 1 ELSE len) |-> item[i - 1]]

StackOf == INSTANCE Stack WITH stack <- contents

\* The vector is the stack of the header's example (13-24), however often it
\* grows and moves.
IsStack == StackOf!Spec
=============================================================================
