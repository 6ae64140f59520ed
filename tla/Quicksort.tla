------------------------------- MODULE Quicksort -------------------------------
(***************************************************************************)
(* quicksort() and partition() of Threadpool/Work/quicksort.c.  The calls  *)
(* of quicksort() that are still to be made are a stack of sublists; the   *)
(* local variables are those of the one partition() that runs.  Positions  *)
(* l, r and the pivot's, n - 1, count from the start of the sublist, as in *)
(* the code, where they are unsigned.                                      *)
(***************************************************************************)
EXTENDS Integers, Sequences

CONSTANTS
    Values,      \* the integers a list may hold
    MaxLen       \* bound on the length of the list

ASSUME SortAssumption == Values \subseteq Int /\ MaxLen \in Nat

VARIABLES
    list,        \* list[0], ..., list[list_len - 1]
    given,       \* the list as main() made it (history)
    calls,       \* the sublists quicksort() is called for next, first one first
    base, n,     \* the sublist partition() works on: its start and length
    l, r,
    at           \* where the program is

vars == <<list, given, calls, base, n, l, r, at>>

Sublist(first, length) == [base |-> first, len |-> length]

list_len == Len(given)
Index == 0..list_len - 1

\* list[] is indexed from 0, the sequence `given' from 1.
Init ==
    /\ \E k \in 1..MaxLen : given \in [1..k -> Values]
    /\ list = [i \in Index |-> given[i + 1]]
    /\ calls = <<Sublist(0, list_len)>>
    /\ base = 0 /\ n = 0
    /\ l = 0 /\ r = 0
    /\ at = "call"

v(i) == list[base + i]
pivot == n - 1

SwapItems(i, j) ==
    list' = [list EXCEPT ![base + i] = v(j), ![base + j] = v(i)]

\* if (len <= 1) return;
Return ==
    /\ at = "call" /\ calls # <<>>
    /\ Head(calls).len <= 1
    /\ calls' = Tail(calls)
    /\ UNCHANGED <<list, given, base, n, l, r, at>>

\* partition() is called: r = len - 2.
Begin ==
    /\ at = "call" /\ calls # <<>>
    /\ Head(calls).len > 1
    /\ base' = Head(calls).base
    /\ n' = Head(calls).len
    /\ l' = 0 /\ r' = n' - 2
    /\ calls' = Tail(calls)
    /\ at' = "left"
    /\ UNCHANGED <<list, given>>

\* while (l < r && v[l] < v[pivot]) ++l;
ScanLeft ==
    /\ at = "left"
    /\ IF l < r /\ v(l) < v(pivot)
       THEN l' = l + 1 /\ at' = at
       ELSE l' = l /\ at' = "right"
    /\ UNCHANGED <<list, given, calls, base, n, r>>

\* Mutant of ScanRight: r may pass l.
ScanRightUnbounded ==
    /\ at = "right"
    /\ IF v(r) >= v(pivot)
       THEN r' = r - 1 /\ at' = at
       ELSE r' = r /\ at' = IF l >= r THEN "place" ELSE "swap"
    /\ UNCHANGED <<list, given, calls, base, n, l>>

\* Mutant of ScanRight: a value that equals the pivot's stops the scan.
ScanRightStopsAtPivot ==
    /\ at = "right"
    /\ IF l < r /\ v(r) > v(pivot)
       THEN r' = r - 1 /\ at' = at
       ELSE r' = r /\ at' = IF l >= r THEN "place" ELSE "swap"
    /\ UNCHANGED <<list, given, calls, base, n, l>>

\* while (l < r && v[r] >= v[pivot]) --r;  if (l >= r) break;
ScanRight ==
    /\ at = "right"
    /\ IF l < r /\ v(r) >= v(pivot)
       THEN r' = r - 1 /\ at' = at
       ELSE r' = r /\ at' = IF l >= r THEN "place" ELSE "swap"
    /\ UNCHANGED <<list, given, calls, base, n, l>>

\* t = v[l]; v[l] = v[r]; v[r] = t;
Swap ==
    /\ at = "swap"
    /\ SwapItems(l, r)
    /\ at' = "left"
    /\ UNCHANGED <<given, calls, base, n, l, r>>

\* Mutant of SwapPivot: the value at l is lost.
SwapPivotLoses(mid) ==
    IF mid = pivot THEN UNCHANGED list ELSE list' = [list EXCEPT ![base + mid] = v(pivot)]

\* The pivot is moved to position mid, unless it stays.
SwapPivot(mid) ==
    IF mid = pivot THEN UNCHANGED list ELSE SwapItems(mid, pivot)

\* Mutant of Recurse: the pivot's position belongs to the left sublist.
RecurseWithPivot(mid) ==
    calls' = <<Sublist(base, mid + 1), Sublist(base + mid + 1, n - mid - 1)>> \o calls

\* Mutant of Recurse: only the left sublist is sorted.
RecurseLeft(mid) == calls' = <<Sublist(base, mid)>> \o calls

\* quicksort(list, mid); quicksort(list + mid + 1, len - mid - 1);
Recurse(mid) ==
    calls' = <<Sublist(base, mid), Sublist(base + mid + 1, n - mid - 1)>> \o calls

\* if (v[l] >= v[pivot]) swap and return l, else return pivot.
Place ==
    /\ at = "place"
    /\ LET mid == IF v(l) >= v(pivot) THEN l ELSE pivot
       IN  SwapPivot(mid) /\ Recurse(mid)
    /\ at' = "call"
    /\ UNCHANGED <<given, base, n, l, r>>

Next == Return \/ Begin \/ ScanLeft \/ ScanRight \/ Swap \/ Place

Spec == Init /\ [][Next]_vars

\* The program runs until it is done.
FairSpec == Spec /\ WF_vars(Next)

-----------------------------------------------------------------------------
(* Properties *)

\* Every sublist lies in the list, and so do l, r and the pivot; l <= r holds
\* throughout, so that neither unsigned position wraps around below 0.
TypeOK ==
    /\ given \in Seq(Values)
    /\ list \in [Index -> Values]
    /\ calls \in Seq([base : Nat, len : Nat])
    /\ \A k \in DOMAIN calls : calls[k].base + calls[k].len <= list_len
    /\ at \in {"call", "left", "right", "swap", "place"}
    /\ base \in Nat /\ n \in Nat /\ l \in Nat /\ r \in Nat
    /\ at # "call" => l <= r /\ r <= n - 2 /\ base + n <= list_len

\* While partition() runs, what l has passed is smaller than the pivot and what
\* r has passed is not (lines 24-33).
Scanned ==
    at # "call" =>
        /\ \A i \in 0..l - 1 : v(i) < v(pivot)
        /\ \A i \in r + 1..n - 2 : v(i) >= v(pivot)

\* The two sublists pushed last meet at a position with nothing larger to its
\* left and nothing smaller to its right.
SplitAround ==
    LET left == calls'[1]
        right == calls'[2]
        mid == right.base - 1
    IN  /\ left.base = base /\ left.base + left.len = mid
        /\ right.base + right.len = base + n
        /\ \A i \in base..mid - 1 : list'[i] <= list'[mid]
        /\ \A i \in mid + 1..base + n - 1 : list'[i] >= list'[mid]

\* partition() leaves its sublist split around the position it returns
\* (lines 35-42).
Split == [][at = "place" => SplitAround]_vars

\* A rearrangement of the positions.
IsRearrangement(p) ==
    /\ p \in [Index -> Index]
    /\ \A i, j \in Index : p[i] = p[j] => i = j
    /\ \A j \in Index : \E i \in Index : p[i] = j

\* At every moment the list holds the values main() put into it, rearranged
\* (lines 30-32, 36-38).
Rearranged ==
    \E p \in [Index -> Index] :
        IsRearrangement(p) /\ \A i \in Index : list[i] = given[p[i] + 1]

\* Once nothing is left to do the list is what list_is_sorted() (lines 59-66)
\* accepts: no item is larger than the next.
Sorted ==
    at = "call" /\ calls = <<>> =>
        \A i \in 0..list_len - 2 : list[i] <= list[i + 1]

\* quicksort() returns.
Terminates == <>(at = "call" /\ calls = <<>>)
=============================================================================
