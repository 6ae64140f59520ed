---------------------------- MODULE QuicksortProofs ----------------------------
(***************************************************************************)
(* Proofs about Quicksort, for every set of integers and every length.     *)
(*                                                                         *)
(* TypeOK is inductive by itself.  Scanned needs Stopped: what is known of *)
(* the items at l and r when a scan ends.  Both give Split.  Rearranged    *)
(* composes the rearrangement so far with one exchange.  Sorted follows    *)
(* from Ordered: two items are in order unless both lie in one sublist     *)
(* still to be sorted.  Ordered is kept because the sublists are Disjoint, *)
(* and an exchange inside one does not change how its items as a whole     *)
(* compare with the items before and behind it.                            *)
(***************************************************************************)
EXTENDS Quicksort, SequenceTheorems, TLAPS

Sublists == [base : Nat, len : Nat]

\* list_len is a natural number and the items are integers.
LEMMA ListFacts ==
  ASSUME TypeOK
  PROVE  /\ list_len \in Nat
         /\ \A i \in Index : list[i] \in Values /\ list[i] \in Int
<1>1. given \in Seq(Values) /\ list \in [Index -> Values]
  BY DEF TypeOK
<1>2. Len(given) \in Nat
  BY <1>1, LenProperties
<1>3. QED
  BY <1>1, <1>2, SortAssumption DEF list_len

\* Popping the first call.
LEMMA PopCall ==
  ASSUME TypeOK, calls # <<>>
  PROVE  /\ Head(calls) = calls[1] /\ 1 \in DOMAIN calls
         /\ Head(calls) \in Sublists
         /\ Head(calls).base + Head(calls).len <= list_len
         /\ Tail(calls) \in Seq(Sublists)
         /\ \A k \in DOMAIN Tail(calls) :
               k + 1 \in DOMAIN calls /\ Tail(calls)[k] = calls[k + 1]
         /\ \A k \in DOMAIN calls : k # 1 =>
               k - 1 \in DOMAIN Tail(calls) /\ Tail(calls)[k - 1] = calls[k]
<1> DEFINE t == Tail(calls)
<1>1. calls \in Seq(Sublists)
  BY DEF TypeOK, Sublists
<1>2. /\ t \in Seq(Sublists) /\ Len(t) = Len(calls) - 1
      /\ \A i \in 1..Len(t) : t[i] = calls[i + 1]
  BY <1>1, HeadTailProperties
<1>3. Len(calls) \in Nat \ {0} /\ DOMAIN calls = 1..Len(calls) /\ DOMAIN t = 1..Len(t)
  BY <1>1, <1>2, EmptySeq, LenProperties
<1>4. Head(calls) = calls[1] /\ calls[1] \in Sublists
  BY <1>1, <1>3
<1>5. 1 \in DOMAIN calls
  BY <1>3
<1>6. calls[1].base + calls[1].len <= list_len
  BY <1>5 DEF TypeOK
<1>7. QED
  BY <1>2, <1>3, <1>4, <1>5, <1>6

\* Pushing the two sublists of a split.
LEMMA PushCalls ==
  ASSUME TypeOK, NEW a \in Sublists, NEW b \in Sublists
  PROVE  LET s == <<a, b>> \o calls
         IN  /\ s \in Seq(Sublists)
             /\ DOMAIN s = 1..Len(calls) + 2 /\ DOMAIN calls = 1..Len(calls)
             /\ Len(calls) \in Nat
             /\ s[1] = a /\ s[2] = b
             /\ \A k \in DOMAIN calls : s[k + 2] = calls[k]
             /\ \A k \in DOMAIN s : k > 2 => k - 2 \in DOMAIN calls /\ s[k] = calls[k - 2]
<1>1. calls \in Seq(Sublists) /\ <<a, b>> \in Seq(Sublists)
  BY DEF TypeOK, Sublists
<1>2. Len(<<a, b>>) = 2 /\ <<a, b>>[1] = a /\ <<a, b>>[2] = b
  OBVIOUS
<1>3. Len(calls) \in Nat /\ DOMAIN calls = 1..Len(calls)
  BY <1>1, LenProperties
<1> DEFINE s == <<a, b>> \o calls
<1>4. /\ s \in Seq(Sublists) /\ Len(s) = 2 + Len(calls)
      /\ \A i \in 1..2 + Len(calls) : s[i] = IF i <= 2 THEN <<a, b>>[i] ELSE calls[i - 2]
  BY <1>1, <1>2, ConcatProperties
<1>5. DOMAIN s = 1..Len(calls) + 2
  BY <1>3, <1>4, LenProperties
<1> HIDE DEF s
<1>6. /\ s \in Seq(Sublists)
      /\ DOMAIN s = 1..Len(calls) + 2
      /\ s[1] = a /\ s[2] = b
      /\ \A k \in DOMAIN calls : s[k + 2] = calls[k]
      /\ \A k \in DOMAIN s : k > 2 => k - 2 \in DOMAIN calls /\ s[k] = calls[k - 2]
  BY <1>2, <1>3, <1>4, <1>5
<1>7. QED
  BY <1>3, <1>6 DEF s

\* partition() only looks at and exchanges items of its own sublist.
LEMMA InRange ==
  ASSUME TypeOK, at # "call"
  PROVE  /\ n >= 2 /\ n \in Nat /\ pivot \in Nat
         /\ l \in Nat /\ r \in Nat /\ base \in Nat /\ list_len \in Nat
         /\ l <= r /\ r <= n - 2 /\ base + n <= list_len
         /\ \A i \in 0..n - 1 : base + i \in Index /\ v(i) \in Int
<1>1. l \in Nat /\ r \in Nat /\ n \in Nat /\ base \in Nat /\ list_len \in Nat
  BY ListFacts DEF TypeOK
<1>2. l <= r /\ r <= n - 2 /\ base + n <= list_len
  BY DEF TypeOK
<1>3. \A i \in 0..n - 1 : base + i \in Index
  BY <1>1, <1>2 DEF Index
<1>4. QED
  BY <1>1, <1>2, <1>3, ListFacts DEF v, pivot

-----------------------------------------------------------------------------
(* Types and bounds *)

\* The list main() made is one sublist to sort.
LEMMA TypeInit == Init => TypeOK
<1> SUFFICES ASSUME Init PROVE TypeOK
  OBVIOUS
<1>1. PICK k \in 1..MaxLen : given \in [1..k -> Values]
  BY DEF Init
<1>2. given \in Seq(Values) /\ k \in Nat
  BY <1>1, SortAssumption, SeqDef
<1>3. Len(given) = k
  BY <1>1, <1>2, LenProperties
<1>4. list \in [Index -> Values]
  BY <1>1, <1>2, <1>3 DEF Init, Index, list_len
<1>5. list_len \in Nat /\ Sublist(0, list_len) \in Sublists
  BY <1>2, <1>3 DEF list_len, Sublist, Sublists
<1>6. calls \in Seq(Sublists) /\ DOMAIN calls = {1} /\ calls[1] = Sublist(0, list_len)
  BY <1>5 DEF Init
<1>7. \A j \in DOMAIN calls : calls[j].base + calls[j].len <= list_len
  BY <1>5, <1>6 DEF Sublist
<1>8. QED
  BY <1>2, <1>4, <1>6, <1>7 DEF Init, TypeOK, Sublists

\* An exchange of two items of the current sublist keeps the list's type.
LEMMA SwapType ==
  ASSUME TypeOK, at # "call", NEW i \in 0..n - 1, NEW j \in 0..n - 1, SwapItems(i, j)
  PROVE  /\ list' \in [Index -> Values]
         /\ list'[base + i] = v(j) /\ list'[base + j] = v(i)
         /\ \A k \in Index : k # base + i /\ k # base + j => list'[k] = list[k]
<1>1. base + i \in Index /\ base + j \in Index
  BY InRange
<1>2. list \in [Index -> Values]
  BY DEF TypeOK
<1>3. QED
  BY <1>1, <1>2 DEF SwapItems, v

\* Each step keeps the positions inside the sublist; with l <= r this is inductive.
LEMMA TypeNext == TypeOK /\ [Next]_vars => TypeOK'
<1> SUFFICES ASSUME TypeOK, [Next]_vars PROVE TypeOK'
  OBVIOUS
<1>0. calls \in Seq(Sublists)
  BY DEF TypeOK, Sublists
<1>a. given' = given => list_len' = list_len /\ Index' = Index
  BY DEF list_len, Index
<1>1. CASE Return
  <2>1. \A k \in DOMAIN calls' : calls'[k].base + calls'[k].len <= list_len
    BY <1>1, PopCall DEF TypeOK, Return
  <2>2. calls' \in Seq(Sublists)
    BY <1>1, PopCall DEF Return
  <2>3. QED
    BY <1>1, <1>a, <2>1, <2>2 DEF TypeOK, Return, Sublists
<1>2. CASE Begin
  <2>1. \A k \in DOMAIN calls' : calls'[k].base + calls'[k].len <= list_len
    BY <1>2, PopCall DEF TypeOK, Begin
  <2>2. calls' \in Seq(Sublists)
    BY <1>2, PopCall DEF Begin
  <2>3. /\ base' \in Nat /\ n' \in Nat /\ l' \in Nat /\ r' \in Nat
        /\ l' <= r' /\ r' <= n' - 2 /\ base' + n' <= list_len
    BY <1>2, PopCall DEF Begin, Sublists
  <2>4. QED
    BY <1>2, <1>a, <2>1, <2>2, <2>3 DEF TypeOK, Begin, Sublists
<1>3. CASE ScanLeft
  <2>1. l' \in Nat /\ l' <= r /\ at' \in {"left", "right"}
    BY <1>3, InRange DEF ScanLeft
  <2>2. QED
    BY <1>3, <1>a, <2>1 DEF TypeOK, ScanLeft
<1>4. CASE ScanRight
  <2>1. r' \in Nat /\ l <= r' /\ r' <= n - 2 /\ at' \in {"right", "place", "swap"}
    BY <1>4, InRange DEF ScanRight
  <2>2. QED
    BY <1>4, <1>a, <2>1 DEF TypeOK, ScanRight
<1>5. CASE Swap
  <2>1. list' \in [Index -> Values]
    BY <1>5, InRange, SwapType DEF Swap
  <2>2. QED
    BY <1>5, <1>a, <2>1 DEF TypeOK, Swap
<1>6. CASE Place
  <2>1. PICK mid \in {l, pivot} : SwapPivot(mid) /\ Recurse(mid)
    BY <1>6 DEF Place
  <2>2. mid \in 0..n - 1 /\ pivot \in 0..n - 1 /\ n \in Nat
    BY <1>6, InRange DEF Place, pivot
  <2>3. list' \in [Index -> Values]
    BY <1>6, <2>1, <2>2, SwapType DEF Place, SwapPivot, TypeOK
  <2> DEFINE a == Sublist(base, mid)
             b == Sublist(base + mid + 1, n - mid - 1)
  <2>4. /\ a \in Sublists /\ b \in Sublists
        /\ a.base + a.len <= list_len /\ b.base + b.len <= list_len
    BY <1>6, <2>2, InRange DEF Place, Sublist, Sublists
  <2>5. calls' = <<a, b>> \o calls
    BY <2>1 DEF Recurse
  <2> HIDE DEF a, b
  <2>6. calls' \in Seq(Sublists)
    BY <2>4, <2>5, PushCalls
  <2>7. \A k \in DOMAIN calls' : calls'[k].base + calls'[k].len <= list_len
    <3> SUFFICES ASSUME NEW k \in DOMAIN calls'
                 PROVE  calls'[k].base + calls'[k].len <= list_len
      OBVIOUS
    <3>1. k \in Nat /\ k > 0
      BY <2>4, <2>5, PushCalls
    <3>2. CASE k = 1
      BY <2>4, <2>5, <3>2, PushCalls
    <3>3. CASE k = 2
      BY <2>4, <2>5, <3>3, PushCalls
    <3>4. CASE k > 2
      BY <2>4, <2>5, <3>4, PushCalls DEF TypeOK
    <3>5. QED
      BY <3>1, <3>2, <3>3, <3>4
  <2>8. QED
    BY <1>6, <1>a, <2>3, <2>6, <2>7 DEF TypeOK, Place, Sublists
<1>7. CASE UNCHANGED vars
  BY <1>7, <1>a DEF TypeOK, vars
<1>8. QED
  BY <1>1, <1>2, <1>3, <1>4, <1>5, <1>6, <1>7 DEF Next

\* Every position partition() uses lies in its sublist and every sublist in
\* the list; r never wraps around below 0 (quicksort.c:20-28, 30-42).
THEOREM TypeCorrect == Spec => []TypeOK
<1>1. QED
  BY TypeInit, TypeNext, PTL DEF Spec

-----------------------------------------------------------------------------
(* partition() *)

\* What stopped the two scans.  An item equal to the pivot stops l but not r,
\* so that the item r points to is known unless r has never moved.
Stopped ==
    /\ at = "left"  => r = n - 2 \/ v(r) >= v(pivot)
    /\ at = "right" => v(l) >= v(pivot) \/ (l = r /\ r = n - 2)
    /\ at = "swap"  => l < r /\ v(l) >= v(pivot) /\ v(r) < v(pivot)
    /\ at = "place" => l = r /\ (v(l) >= v(pivot) \/ r = n - 2)

\* Nothing has been scanned at first.
LEMMA ScanInit == Init => Scanned /\ Stopped
BY DEF Init, Scanned, Stopped

\* A scan passes only what is on its side, and an exchange puts two items on theirs.
LEMMA ScanNext ==
  TypeOK /\ Scanned /\ Stopped /\ [Next]_vars => Scanned' /\ Stopped'
<1> SUFFICES ASSUME TypeOK, Scanned, Stopped, [Next]_vars
             PROVE  Scanned' /\ Stopped'
  OBVIOUS
<1>1. CASE Return
  BY <1>1 DEF Return, Scanned, Stopped
<1>2. CASE Begin
  <2>1. l' = 0 /\ r' = n' - 2 /\ at' = "left" /\ n' \in Nat
    BY <1>2, PopCall DEF Begin, Sublists
  <2>2. (\A i \in 0..l' - 1 : FALSE) /\ (\A i \in r' + 1..n' - 2 : FALSE)
    <3>1. l' - 1 < 0 /\ l' - 1 \in Int
      BY <2>1
    <3>2. n' - 2 \in Int /\ r' = n' - 2
      BY <2>1
    <3>3. \A m \in Int : ~(m + 1 <= m)
      OBVIOUS
    <3>4. ~(r' + 1 <= n' - 2) /\ r' + 1 \in Int
      BY <3>2, <3>3
    <3>5. QED
      BY <3>1, <3>2, <3>4
  <2>3. Scanned'
    BY <2>2 DEF Scanned, v, pivot
  <2>4. Stopped'
    BY <2>1 DEF Stopped
  <2>5. QED
    BY <2>3, <2>4
<1>3. CASE ScanLeft
  <2>1. /\ list' = list /\ base' = base /\ n' = n /\ r' = r /\ at = "left"
        /\ pivot' = pivot /\ \A i \in Int : v(i)' = v(i)
    BY <1>3 DEF ScanLeft, v, pivot
  <2>2. CASE l < r /\ v(l) < v(pivot)
    BY <1>3, <2>1, <2>2, InRange DEF ScanLeft, Scanned, Stopped, v, pivot
  <2>3. CASE ~(l < r /\ v(l) < v(pivot))
    <3>1. l' = l /\ at' = "right"
      BY <1>3, <2>3 DEF ScanLeft
    <3>2. v(l) \in Int /\ v(pivot) \in Int
      BY <2>1, InRange DEF pivot
    <3>3. v(l) >= v(pivot) \/ (l = r /\ r = n - 2)
      BY <2>1, <2>3, <3>2, InRange DEF Stopped
    <3>4. QED
      BY <2>1, <3>1, <3>3 DEF Scanned, Stopped, v, pivot
  <2>4. QED
    BY <2>2, <2>3
<1>4. CASE ScanRight
  <2>1. list' = list /\ base' = base /\ n' = n /\ l' = l /\ at = "right"
    BY <1>4 DEF ScanRight
  <2>2. CASE l < r /\ v(r) >= v(pivot)
    <3>1. r' = r - 1 /\ at' = "right"
      BY <1>4, <2>1, <2>2 DEF ScanRight
    <3>2. \A i \in r'+1..n - 2 : i = r \/ i \in r + 1..n - 2
      BY <2>1, <3>1, InRange
    <3>3. QED
      BY <2>1, <2>2, <3>1, <3>2, InRange DEF Scanned, Stopped, v, pivot
  <2>3. CASE ~(l < r /\ v(r) >= v(pivot))
    <3>1. r' = r /\ at' = IF l >= r THEN "place" ELSE "swap"
      BY <1>4, <2>3 DEF ScanRight
    <3>2. v(r) \in Int /\ v(pivot) \in Int /\ l \in Nat /\ r \in Nat /\ l <= r
      BY <2>1, InRange DEF pivot
    <3>3. QED
      BY <2>1, <2>3, <3>1, <3>2 DEF Scanned, Stopped, v, pivot
  <2>4. QED
    BY <2>2, <2>3
<1>5. CASE Swap
  <2>1. base' = base /\ n' = n /\ l' = l /\ r' = r /\ at = "swap" /\ at' = "left"
    BY <1>5 DEF Swap
  <2>2. /\ l \in 0..n - 1 /\ r \in 0..n - 1 /\ n \in Nat /\ r <= n - 2 /\ base \in Nat
        /\ l < r
    BY <2>1, InRange DEF Stopped
  <2>3. SwapItems(l, r)
    BY <1>5 DEF Swap
  <2>4. /\ list'[base + r] = v(l)
        /\ \A k \in Index : k # base + l /\ k # base + r => list'[k] = list[k]
    BY <2>1, <2>2, <2>3, SwapType
  <2>5. \A i \in 0..n - 1 : base + i \in Index
    BY <2>1, InRange
  <2>6. \A i \in 0..n - 1 : i # l /\ i # r => v(i)' = v(i)
    BY <2>1, <2>2, <2>4, <2>5 DEF v
  <2>7. pivot' = pivot /\ v(pivot)' = v(pivot) /\ v(r)' = v(l)
    BY <2>1, <2>2, <2>4, <2>6 DEF v, pivot
  <2>8. \A i \in 0..l - 1 : v(i)' < v(pivot)'
    BY <2>1, <2>2, <2>6, <2>7 DEF Scanned
  <2>9. \A i \in r + 1..n - 2 : v(i)' >= v(pivot)'
    BY <2>1, <2>2, <2>6, <2>7 DEF Scanned
  <2>10. v(r)' >= v(pivot)'
    BY <2>1, <2>7 DEF Stopped
  <2>11. Scanned'
    BY <2>1, <2>8, <2>9 DEF Scanned, v, pivot
  <2>12. Stopped'
    BY <2>1, <2>10 DEF Stopped, v, pivot
  <2>13. QED
    BY <2>11, <2>12
<1>6. CASE Place
  BY <1>6 DEF Place, Scanned, Stopped
<1>7. CASE UNCHANGED vars
  BY <1>7 DEF vars, Scanned, Stopped, v, pivot
<1>8. QED
  BY <1>1, <1>2, <1>3, <1>4, <1>5, <1>6, <1>7 DEF Next

\* What Place does to the list and to the calls.
LEMMA PlaceSplits ==
  ASSUME TypeOK, Scanned, Stopped, Place
  PROVE  \E mid \in 0..n - 1 :
           /\ calls' = <<Sublist(base, mid), Sublist(base + mid + 1, n - mid - 1)>> \o calls
           /\ SwapPivot(mid)
           /\ \A i \in 0..mid - 1 : list'[base + i] <= list'[base + mid]
           /\ \A i \in mid + 1..n - 1 : list'[base + i] >= list'[base + mid]
<1> DEFINE new(i) == list'[base + i]
           mid == IF v(l) >= v(pivot) THEN l ELSE pivot
<1>1. SwapPivot(mid) /\ Recurse(mid) /\ at = "place" /\ base' = base
  BY DEF Place
<1>2. /\ n \in Nat /\ n >= 2 /\ l \in Nat /\ l = r /\ l <= n - 2 /\ base \in Nat
      /\ \A i \in 0..n - 1 : base + i \in Index /\ v(i) \in Int
  BY <1>1, InRange DEF Stopped
<1>3. pivot = n - 1 /\ mid \in 0..n - 1
  BY <1>2 DEF pivot
<1>4. /\ \A i \in 0..l - 1 : v(i) < v(pivot)
      /\ \A i \in l + 1..n - 2 : v(i) >= v(pivot)
      /\ v(l) >= v(pivot) \/ l = n - 2
  BY <1>1, <1>2 DEF Scanned, Stopped
<1>5. CASE v(l) >= v(pivot)
  <2>1. mid = l /\ l # pivot
    BY <1>2, <1>3, <1>5
  <2>2. SwapItems(l, pivot)
    BY <1>1, <2>1 DEF SwapPivot
  <2>3. /\ list'[base + l] = v(pivot) /\ list'[base + pivot] = v(l)
        /\ \A k \in Index : k # base + l /\ k # base + pivot => list'[k] = list[k]
    BY <1>1, <1>2, <1>3, <2>2, SwapType
  <2>4. new(l) = v(pivot) /\ new(n - 1) = v(l)
    BY <1>3, <2>3
  <2>5. \A i \in 0..n - 1 : i # l /\ i # n - 1 => new(i) = v(i)
    BY <1>2, <1>3, <2>3 DEF v
  <2>6. \A i \in 0..l - 1 : new(i) <= new(l)
    BY <1>2, <1>3, <1>4, <2>4, <2>5
  <2>7. \A i \in l + 1..n - 1 : new(i) >= new(l)
    BY <1>2, <1>3, <1>4, <1>5, <2>4, <2>5
  <2>8. QED
    BY <1>1, <1>3, <2>1, <2>6, <2>7 DEF Recurse, Place
<1>6. CASE ~(v(l) >= v(pivot))
  <2>1. mid = pivot /\ l = n - 2 /\ v(l) < v(pivot)
    BY <1>2, <1>3, <1>4, <1>6
  <2>2. list' = list
    BY <1>1, <2>1 DEF SwapPivot
  <2>3. \A i \in 0..n - 1 : new(i) = v(i)
    BY <2>2 DEF v
  <2> HIDE DEF mid, new
  <2>4. \A i \in 0..n - 2 : new(i) <= new(n - 1)
    <3>1. new(n - 1) = v(n - 1)
      BY <1>2, <2>3
    <3>2. \A i \in 0..n - 2 : v(i) < v(n - 1)
      BY <1>2, <1>3, <1>4, <2>1
    <3>3. QED
      BY <1>2, <2>3, <3>1, <3>2
  <2>5. mid = n - 1 /\ mid + 1..n - 1 = {} /\ 0..mid - 1 = 0..n - 2
    BY <1>2, <1>3, <2>1
  <2>6. calls' = <<Sublist(base, mid), Sublist(base + mid + 1, n - mid - 1)>> \o calls
    BY <1>1 DEF Recurse
  <2>7. QED
    BY <1>1, <1>3, <2>4, <2>5, <2>6 DEF new
<1>7. QED
  BY <1>5, <1>6

\* The action property Split, step by step.
LEMMA SplitStep == TypeOK /\ Scanned /\ Stopped /\ [Next]_vars =>
    [at = "place" => SplitAround]_vars
<1> SUFFICES ASSUME TypeOK, Scanned, Stopped, [Next]_vars, at = "place", vars' # vars
             PROVE  SplitAround
  OBVIOUS
<1>1. Place
  BY DEF Next, Return, Begin, ScanLeft, ScanRight, Swap
<1>2. PICK mid \in 0..n - 1 :
           /\ calls' = <<Sublist(base, mid), Sublist(base + mid + 1, n - mid - 1)>> \o calls
           /\ \A i \in 0..mid - 1 : list'[base + i] <= list'[base + mid]
           /\ \A i \in mid + 1..n - 1 : list'[base + i] >= list'[base + mid]
  BY <1>1, PlaceSplits
<1>3. base \in Nat /\ n \in Nat
  BY InRange
<1> DEFINE a == Sublist(base, mid)
           b == Sublist(base + mid + 1, n - mid - 1)
<1>4. a \in Sublists /\ b \in Sublists
  BY <1>3 DEF Sublist, Sublists
<1>5. calls'[1] = a /\ calls'[2] = b
  <2>1. calls' = <<a, b>> \o calls
    BY <1>2
  <2> HIDE DEF a, b
  <2>2. QED
    BY <1>4, <2>1, PushCalls
<1>6. /\ calls'[1].base = base /\ calls'[1].len = mid
      /\ calls'[2].base - 1 = base + mid
      /\ calls'[2].base + calls'[2].len = base + n
  BY <1>3, <1>5 DEF Sublist
<1>7. \A i \in base..base + mid - 1 : list'[i] <= list'[base + mid]
  <2> TAKE i \in base..base + mid - 1
  <2>1. i - base \in 0..mid - 1 /\ base + (i - base) = i
    BY <1>3
  <2>2. QED
    BY <1>2, <2>1
<1>8. \A i \in base + mid + 1..base + n - 1 : list'[i] >= list'[base + mid]
  <2> TAKE i \in base + mid + 1..base + n - 1
  <2>1. i - base \in mid + 1..n - 1 /\ base + (i - base) = i
    BY <1>3
  <2>2. QED
    BY <1>2, <2>1
<1>9. QED
  BY <1>3, <1>6, <1>7, <1>8 DEF SplitAround

\* partition() splits its sublist around the position it returns
\* (quicksort.c:35-42).
THEOREM SplitHolds == Spec => Split
<1>1. Spec => [](TypeOK /\ Scanned /\ Stopped)
  BY TypeInit, TypeNext, ScanInit, ScanNext, PTL DEF Spec
<1>2. QED
  BY <1>1, SplitStep, PTL DEF Spec, Split

\* What the two scans have passed is on its side of the pivot
\* (quicksort.c:24-33).
THEOREM ScannedHolds == Spec => []Scanned
<1>1. QED
  BY TypeInit, TypeNext, ScanInit, ScanNext, PTL DEF Spec

-----------------------------------------------------------------------------
(* Rearrangement *)

Covers(s, i) == s.base <= i /\ i < s.base + s.len
Current == Sublist(base, n)

\* An exchange of two items of the current sublist, or none.
Exchange == (\E i, j \in 0..n - 1 : SwapItems(i, j)) \/ UNCHANGED list

\* An exchange of two items composes the rearrangement with a transposition.
LEMMA ExchangeRearranges ==
  ASSUME TypeOK, at # "call", Exchange
  PROVE  \E q \in [Index -> Index] :
            /\ IsRearrangement(q)
            /\ \A i \in Index : list'[i] = list[q[i]]
            /\ \A i \in Index : q[i] = i \/ (Covers(Current, i) /\ Covers(Current, q[i]))
<1>1. CASE UNCHANGED list
  <2> DEFINE q == [i \in Index |-> i]
  <2>1. q \in [Index -> Index] /\ \A i \in Index : q[i] = i
    OBVIOUS
  <2> HIDE DEF q
  <2>2. IsRearrangement(q)
    BY <2>1 DEF IsRearrangement
  <2>3. QED
    BY <1>1, <2>1, <2>2
<1>2. ASSUME NEW i \in 0..n - 1, NEW j \in 0..n - 1, SwapItems(i, j)
      PROVE  \E q \in [Index -> Index] :
                /\ IsRearrangement(q)
                /\ \A k \in Index : list'[k] = list[q[k]]
                /\ \A k \in Index : q[k] = k \/ (Covers(Current, k) /\ Covers(Current, q[k]))
  <2> DEFINE a == base + i
             b == base + j
             q == [k \in Index |-> IF k = a THEN b ELSE IF k = b THEN a ELSE k]
  <2>1. a \in Index /\ b \in Index
    BY InRange
  <2>2. Covers(Current, a) /\ Covers(Current, b)
    BY InRange DEF Covers, Current, Sublist
  <2>3. /\ list'[a] = list[b] /\ list'[b] = list[a]
        /\ \A k \in Index : k # a /\ k # b => list'[k] = list[k]
    BY <1>2, SwapType DEF v
  <2> HIDE DEF a, b
  <2>4. /\ q \in [Index -> Index] /\ q[a] = b /\ q[b] = a
        /\ \A k \in Index : k # a /\ k # b => q[k] = k
    BY <2>1
  <2> HIDE DEF q
  <2>5. \A k, m \in Index : q[k] = q[m] => k = m
    BY <2>1, <2>4
  <2>6. \A m \in Index : \E k \in Index : q[k] = m
    BY <2>1, <2>4
  <2>7. IsRearrangement(q)
    BY <2>4, <2>5, <2>6 DEF IsRearrangement
  <2>8. \A k \in Index : list'[k] = list[q[k]]
    BY <2>1, <2>3, <2>4
  <2>9. \A k \in Index : q[k] = k \/ (Covers(Current, k) /\ Covers(Current, q[k]))
    BY <2>1, <2>2, <2>4
  <2>10. QED
    BY <2>4, <2>7, <2>8, <2>9
<1>3. QED
  BY <1>1, <1>2 DEF Exchange

\* The list only changes by exchanges.
LEMMA OnlyExchanges ==
  ASSUME TypeOK, Scanned, Stopped, [Next]_vars
  PROVE  /\ given' = given /\ Index' = Index
         /\ list' = list \/ (at # "call" /\ Exchange)
<1>1. given' = given
  BY DEF Next, vars, Return, Begin, ScanLeft, ScanRight, Swap, Place
<1>2. CASE Swap
  <2>1. at = "swap" /\ SwapItems(l, r)
    BY <1>2 DEF Swap
  <2>2. l \in 0..n - 1 /\ r \in 0..n - 1
    BY <2>1, InRange
  <2>3. QED
    BY <1>1, <2>1, <2>2 DEF Exchange, Index, list_len
<1>3. CASE Place
  <2>1. PICK mid \in 0..n - 1 : SwapPivot(mid)
    BY <1>3, PlaceSplits
  <2>2. at = "place" /\ pivot \in 0..n - 1
    BY <1>3, InRange DEF Place, pivot
  <2>3. QED
    BY <1>1, <2>1, <2>2 DEF Exchange, SwapPivot, Index, list_len
<1>4. CASE ~Swap /\ ~Place
  BY <1>1, <1>4 DEF Next, vars, Return, Begin, ScanLeft, ScanRight, Index, list_len
<1>5. QED
  BY <1>2, <1>3, <1>4

\* The list is a rearrangement of itself.
LEMMA RearrangedInit == Init => Rearranged
<1> SUFFICES ASSUME Init PROVE Rearranged
  OBVIOUS
<1> DEFINE p == [i \in Index |-> i]
<1>1. p \in [Index -> Index] /\ \A i \in Index : p[i] = i
  OBVIOUS
<1>2. \A i \in Index : list[i] = given[i + 1]
  BY DEF Init
<1> HIDE DEF p
<1>3. IsRearrangement(p)
  BY <1>1 DEF IsRearrangement
<1>4. QED
  BY <1>1, <1>2, <1>3 DEF Rearranged

\* Only exchanges change the list.
LEMMA RearrangedNext ==
  TypeOK /\ Scanned /\ Stopped /\ Rearranged /\ [Next]_vars => Rearranged'
<1> SUFFICES ASSUME TypeOK, Scanned, Stopped, Rearranged, [Next]_vars
             PROVE  Rearranged'
  OBVIOUS
<1>1. given' = given /\ Index' = Index
  BY OnlyExchanges
<1>2. CASE list' = list
  BY <1>1, <1>2 DEF Rearranged, IsRearrangement
<1>3. CASE at # "call" /\ Exchange
  <2>1. PICK p \in [Index -> Index] :
            IsRearrangement(p) /\ \A i \in Index : list[i] = given[p[i] + 1]
    BY DEF Rearranged
  <2>2. PICK q \in [Index -> Index] :
            IsRearrangement(q) /\ \A i \in Index : list'[i] = list[q[i]]
    BY <1>3, ExchangeRearranges
  <2> DEFINE s == [i \in Index |-> p[q[i]]]
  <2>3. s \in [Index -> Index] /\ \A i \in Index : s[i] = p[q[i]]
    OBVIOUS
  <2> HIDE DEF s
  <2>4. \A i, j \in Index : s[i] = s[j] => i = j
    BY <2>1, <2>2, <2>3 DEF IsRearrangement
  <2>5. \A j \in Index : \E i \in Index : s[i] = j
    BY <2>1, <2>2, <2>3 DEF IsRearrangement
  <2>6. \A i \in Index : list'[i] = given[s[i] + 1]
    BY <2>1, <2>2, <2>3
  <2>7. /\ s \in [Index' -> Index']
        /\ \A i, j \in Index' : s[i] = s[j] => i = j
        /\ \A j \in Index' : \E i \in Index' : s[i] = j
        /\ \A i \in Index' : list'[i] = given'[s[i] + 1]
    BY <1>1, <2>3, <2>4, <2>5, <2>6
  <2>8. QED
    BY <2>7, Zenon DEF Rearranged, IsRearrangement
<1>4. QED
  BY <1>2, <1>3, OnlyExchanges

\* No item is lost or made up (quicksort.c:30-32, 36-38).
THEOREM RearrangedHolds == Spec => []Rearranged
<1>1. QED
  BY TypeInit, TypeNext, ScanInit, ScanNext, RearrangedInit, RearrangedNext, PTL DEF Spec

-----------------------------------------------------------------------------
(* Order *)

\* No position belongs to two sublists that are still to be sorted.
Disjoint ==
    /\ \A k, m \in DOMAIN calls : k # m =>
          \A i \in Index : ~(Covers(calls[k], i) /\ Covers(calls[m], i))
    /\ at # "call" => \A k \in DOMAIN calls :
          \A i \in Index : ~(Covers(calls[k], i) /\ Covers(Current, i))

\* Two positions of one sublist that is still to be sorted.
Together(i, j) ==
    \/ at # "call" /\ Covers(Current, i) /\ Covers(Current, j)
    \/ \E k \in DOMAIN calls : Covers(calls[k], i) /\ Covers(calls[k], j)

\* Two items are in order unless a sublist that contains both is still to be
\* sorted: sorting the sublists is all that is left to do.
Ordered ==
    \A i, j \in Index : i < j => list[i] <= list[j] \/ Together(i, j)

\* The positions of Current are those of the two sublists and the pivot.
LEMMA CoversSplit ==
  ASSUME TypeOK, at # "call", NEW mid \in 0..n - 1, NEW i \in Index
  PROVE  LET a == Sublist(base, mid)
             b == Sublist(base + mid + 1, n - mid - 1)
         IN  /\ Covers(Current, i) <=> Covers(a, i) \/ i = base + mid \/ Covers(b, i)
             /\ ~(Covers(a, i) /\ Covers(b, i))
             /\ Covers(a, i) <=> i < base + mid /\ base <= i
             /\ Covers(b, i) <=> i > base + mid /\ i < base + n
BY InRange DEF Covers, Current, Sublist, Index

\* There is one sublist at first.
LEMMA DisjointInit == Init => Disjoint
<1> SUFFICES ASSUME Init PROVE Disjoint
  OBVIOUS
<1>1. DOMAIN calls = {1}
  BY DEF Init
<1>2. QED
  BY <1>1 DEF Init, Disjoint

\* A call that returns leaves two sublists inside its own, on both sides of the split.
LEMMA DisjointNext ==
  TypeOK /\ Scanned /\ Stopped /\ Disjoint /\ [Next]_vars => Disjoint'
<1> SUFFICES ASSUME TypeOK, Scanned, Stopped, Disjoint, [Next]_vars
             PROVE  Disjoint'
  OBVIOUS
<1>0. Index' = Index
  BY OnlyExchanges
<1>1. CASE Return
  <2>1. calls' = Tail(calls) /\ at = "call" /\ at' = "call" /\ calls # <<>>
    BY <1>1 DEF Return
  <2>2. \A k \in DOMAIN calls' : k + 1 \in DOMAIN calls /\ calls'[k] = calls[k + 1] /\ k \in Int
    <3>1. DOMAIN Tail(calls) = 1..Len(Tail(calls))
      BY <2>1, PopCall, LenProperties
    <3>2. QED
      BY <2>1, <3>1, PopCall
  <2>3. \A k, m \in DOMAIN calls' : k # m =>
          \A i \in Index : ~(Covers(calls'[k], i) /\ Covers(calls'[m], i))
    <3> SUFFICES ASSUME NEW k \in DOMAIN calls', NEW m \in DOMAIN calls', k # m, NEW i \in Index
                 PROVE  ~(Covers(calls'[k], i) /\ Covers(calls'[m], i))
      OBVIOUS
    <3>1. k + 1 # m + 1 /\ k + 1 \in DOMAIN calls /\ m + 1 \in DOMAIN calls
      BY <2>2
    <3>2. QED
      BY <2>2, <3>1 DEF Disjoint
  <2>4. QED
    BY <1>0, <2>1, <2>3 DEF Disjoint, Covers
<1>2. CASE Begin
  <2>1. /\ calls' = Tail(calls) /\ calls # <<>>
        /\ base' = Head(calls).base /\ n' = Head(calls).len
    BY <1>2 DEF Begin
  <2>2. \A k \in DOMAIN calls' :
          k + 1 \in DOMAIN calls /\ calls'[k] = calls[k + 1] /\ k \in Nat /\ k > 0
    <3>1. DOMAIN Tail(calls) = 1..Len(Tail(calls))
      BY <2>1, PopCall, LenProperties
    <3>2. QED
      BY <2>1, <3>1, PopCall
  <2>3. \A k, m \in DOMAIN calls' : k # m =>
          \A i \in Index : ~(Covers(calls'[k], i) /\ Covers(calls'[m], i))
    <3> SUFFICES ASSUME NEW k \in DOMAIN calls', NEW m \in DOMAIN calls', k # m, NEW i \in Index
                 PROVE  ~(Covers(calls'[k], i) /\ Covers(calls'[m], i))
      OBVIOUS
    <3>1. k + 1 # m + 1 /\ k + 1 \in DOMAIN calls /\ m + 1 \in DOMAIN calls
      BY <2>2
    <3>2. QED
      BY <2>2, <3>1 DEF Disjoint
  <2>4. \A i \in Index : Covers(Current, i)' <=> Covers(calls[1], i)
    BY <1>0, <2>1, PopCall DEF Covers, Current, Sublist
  <2>5. \A k \in DOMAIN calls' : \A i \in Index :
          ~(Covers(calls'[k], i) /\ Covers(calls[1], i))
    <3> SUFFICES ASSUME NEW k \in DOMAIN calls', NEW i \in Index
                 PROVE  ~(Covers(calls'[k], i) /\ Covers(calls[1], i))
      OBVIOUS
    <3>1. k + 1 # 1 /\ k + 1 \in DOMAIN calls /\ 1 \in DOMAIN calls
      BY <2>1, <2>2, PopCall
    <3>2. QED
      BY <2>2, <3>1 DEF Disjoint
  <2>6. QED
    BY <1>0, <2>3, <2>4, <2>5 DEF Disjoint, Covers
<1>3. CASE ScanLeft \/ ScanRight \/ Swap \/ UNCHANGED vars
  BY <1>0, <1>3 DEF ScanLeft, ScanRight, Swap, vars, Disjoint, Covers, Current
<1>4. CASE Place
  <2>1. PICK mid \in 0..n - 1 :
          calls' = <<Sublist(base, mid), Sublist(base + mid + 1, n - mid - 1)>> \o calls
    BY <1>4, PlaceSplits
  <2>2. at = "place" /\ at' = "call"
    BY <1>4 DEF Place
  <2> DEFINE a == Sublist(base, mid)
             b == Sublist(base + mid + 1, n - mid - 1)
  <2>3. a \in Sublists /\ b \in Sublists
    BY <2>2, InRange DEF Sublist, Sublists
  <2>4. \A i \in Index :
          /\ Covers(a, i) => Covers(Current, i)
          /\ Covers(b, i) => Covers(Current, i)
          /\ ~(Covers(a, i) /\ Covers(b, i))
    BY <2>2, CoversSplit
  <2>5. calls' = <<a, b>> \o calls
    BY <2>1
  <2> HIDE DEF a, b
  <2>6. /\ DOMAIN calls' \subseteq Nat /\ calls'[1] = a /\ calls'[2] = b
        /\ \A k \in DOMAIN calls' : k = 1 \/ k = 2 \/
              (k > 2 /\ k - 2 \in DOMAIN calls /\ calls'[k] = calls[k - 2])
    BY <2>3, <2>5, PushCalls
  <2>7. \A k \in DOMAIN calls : \A i \in Index : ~(Covers(calls[k], i) /\ Covers(Current, i))
    BY <2>2 DEF Disjoint
  <2>8. ASSUME NEW k \in DOMAIN calls', NEW m \in DOMAIN calls', k < m, NEW i \in Index
        PROVE  ~(Covers(calls'[k], i) /\ Covers(calls'[m], i))
    <3>1. k \in Nat /\ m \in Nat
      BY <2>6
    <3>2. CASE m <= 2
      <4>1. k = 1 \/ k = 2 \/ k > 2
        BY <2>6
      <4>2. k = 1 /\ m = 2
        BY <2>8, <3>1, <3>2, <4>1
      <4>3. QED
        BY <2>4, <2>6, <4>2
    <3>3. CASE m > 2 /\ k <= 2
      <4>1. m - 2 \in DOMAIN calls /\ calls'[m] = calls[m - 2]
        BY <2>6, <3>1, <3>3
      <4>2. calls'[k] = a \/ calls'[k] = b
        BY <2>6, <3>1, <3>3
      <4>3. QED
        BY <2>4, <2>7, <4>1, <4>2
    <3>4. CASE k > 2
      <4>1. /\ m - 2 \in DOMAIN calls /\ calls'[m] = calls[m - 2]
            /\ k - 2 \in DOMAIN calls /\ calls'[k] = calls[k - 2]
        BY <2>6, <2>8, <3>1, <3>4
      <4>2. k - 2 # m - 2
        BY <2>8, <3>1
      <4>3. QED
        BY <4>1, <4>2 DEF Disjoint
    <3>5. QED
      BY <3>1, <3>2, <3>3, <3>4
  <2>9. \A k, m \in DOMAIN calls' : k # m => k < m \/ m < k
    BY <2>6
  <2>10. QED
    BY <1>0, <2>2, <2>8, <2>9 DEF Disjoint, Covers
<1>5. QED
  BY <1>1, <1>2, <1>3, <1>4 DEF Next

\* All items lie in the first sublist.
LEMMA OrderedInit == Init => Ordered
<1> SUFFICES ASSUME Init PROVE Ordered
  OBVIOUS
<1>1. DOMAIN calls = {1} /\ calls[1] = Sublist(0, list_len)
  BY DEF Init
<1>2. TypeOK
  BY TypeInit
<1>3. \A i \in Index : Covers(calls[1], i)
  BY <1>1, <1>2, ListFacts DEF Covers, Sublist, Index
<1>4. QED
  BY <1>1, <1>3 DEF Ordered, Together

\* An exchange inside the current sublist keeps its items in order with those
\* outside, as no other sublist overlaps it.
LEMMA ExchangeKeepsOrder ==
  ASSUME TypeOK, Disjoint, Ordered, at # "call", Exchange,
         NEW i \in Index, NEW j \in Index, i < j, ~Together(i, j)
  PROVE  list'[i] <= list'[j]
<1>1. PICK q \in [Index -> Index] :
            /\ \A k \in Index : list'[k] = list[q[k]]
            /\ \A k \in Index : q[k] = k \/ (Covers(Current, k) /\ Covers(Current, q[k]))
  BY ExchangeRearranges
<1>2. base \in Nat /\ n \in Nat /\ list_len \in Nat
  BY InRange
<1>3. \A k \in Index : Covers(Current, k) <=> base <= k /\ k < base + n
  BY DEF Covers, Current, Sublist
<1>4. ~(Covers(Current, i) /\ Covers(Current, j))
  BY DEF Together
<1>5. q[i] \in Index /\ q[j] \in Index /\ list'[i] = list[q[i]] /\ list'[j] = list[q[j]]
  BY <1>1
<1>6. CASE ~Covers(Current, i) /\ ~Covers(Current, j)
  BY <1>1, <1>5, <1>6 DEF Ordered
<1>7. CASE Covers(Current, i)
  <2>1. q[j] = j /\ Covers(Current, q[i]) /\ ~Covers(Current, j)
    BY <1>1, <1>4, <1>7
  <2>2. q[i] < j
    BY <1>2, <1>3, <1>5, <1>7, <2>1 DEF Index
  <2>3. ~Together(q[i], j)
    BY <1>5, <2>1 DEF Together, Disjoint
  <2>4. QED
    BY <1>5, <2>1, <2>2, <2>3 DEF Ordered
<1>8. CASE Covers(Current, j)
  <2>1. q[i] = i /\ Covers(Current, q[j]) /\ ~Covers(Current, i)
    BY <1>1, <1>4, <1>8
  <2>2. i < q[j]
    BY <1>2, <1>3, <1>5, <1>8, <2>1 DEF Index
  <2>3. ~Together(i, q[j])
    BY <1>5, <2>1 DEF Together, Disjoint
  <2>4. QED
    BY <1>5, <2>1, <2>2, <2>3 DEF Ordered
<1>9. QED
  BY <1>6, <1>7, <1>8

\* Items leave a common sublist only when they are split in order, and stay so.
LEMMA OrderedNext ==
  TypeOK /\ Scanned /\ Stopped /\ Disjoint /\ Ordered /\ [Next]_vars => Ordered'
<1> SUFFICES ASSUME TypeOK, Scanned, Stopped, Disjoint, Ordered, [Next]_vars
             PROVE  Ordered'
  OBVIOUS
<1>0. Index' = Index
  BY OnlyExchanges
<1> SUFFICES ASSUME NEW i \in Index, NEW j \in Index, i < j
             PROVE  list'[i] <= list'[j] \/ Together(i, j)'
  BY <1>0 DEF Ordered
<1>1. list[i] <= list[j] \/ Together(i, j)
  BY DEF Ordered
<1>2. i \in Nat /\ j \in Nat
  BY ListFacts DEF Index
<1>3. CASE Return
  <2>1. calls' = Tail(calls) /\ list' = list /\ at = "call" /\ calls # <<>> /\ Head(calls).len <= 1
    BY <1>3 DEF Return
  <2>2. ~(Covers(calls[1], i) /\ Covers(calls[1], j))
    BY <1>2, <2>1, PopCall DEF Covers, Sublists
  <2>3. ASSUME NEW k \in DOMAIN calls, Covers(calls[k], i), Covers(calls[k], j)
        PROVE  Together(i, j)'
    <3>1. k # 1
      BY <2>2, <2>3
    <3>2. k - 1 \in DOMAIN calls' /\ calls'[k - 1] = calls[k]
      BY <2>1, <3>1, PopCall
    <3>3. QED
      BY <2>3, <3>2 DEF Together, Covers
  <2>4. QED
    BY <1>1, <2>1, <2>3 DEF Together
<1>4. CASE Begin
  <2>1. /\ calls' = Tail(calls) /\ list' = list /\ at = "call" /\ at' = "left" /\ calls # <<>>
        /\ base' = Head(calls).base /\ n' = Head(calls).len
    BY <1>4 DEF Begin
  <2>2. ASSUME NEW k \in DOMAIN calls, Covers(calls[k], i), Covers(calls[k], j)
        PROVE  Together(i, j)'
    <3>1. CASE k = 1
      BY <2>1, <2>2, <3>1, PopCall DEF Together, Covers, Current, Sublist
    <3>2. CASE k # 1
      <4>1. k - 1 \in DOMAIN calls' /\ calls'[k - 1] = calls[k]
        BY <2>1, <3>2, PopCall
      <4>2. QED
        BY <2>2, <4>1 DEF Together, Covers
    <3>3. QED
      BY <3>1, <3>2
  <2>3. QED
    BY <1>1, <2>1, <2>2 DEF Together
<1>5. CASE ScanLeft \/ ScanRight \/ UNCHANGED vars
  <2>1. list' = list /\ calls' = calls /\ base' = base /\ n' = n /\ (at # "call" => at' # "call")
    BY <1>5 DEF ScanLeft, ScanRight, vars
  <2>2. Together(i, j) => Together(i, j)'
    BY <2>1 DEF Together, Covers, Current
  <2>3. QED
    BY <1>1, <2>1, <2>2
<1>6. CASE Swap
  <2>1. calls' = calls /\ base' = base /\ n' = n /\ at = "swap" /\ at' = "left"
    BY <1>6 DEF Swap
  <2>2. Together(i, j) => Together(i, j)'
    BY <2>1 DEF Together, Covers, Current
  <2>3. Exchange
    BY <1>6, <2>1, InRange DEF Swap, Exchange
  <2>4. QED
    BY <2>1, <2>2, <2>3, ExchangeKeepsOrder
<1>7. CASE Place
  <2>1. PICK mid \in 0..n - 1 :
           /\ calls' = <<Sublist(base, mid), Sublist(base + mid + 1, n - mid - 1)>> \o calls
           /\ SwapPivot(mid)
           /\ \A k \in 0..mid - 1 : list'[base + k] <= list'[base + mid]
           /\ \A k \in mid + 1..n - 1 : list'[base + k] >= list'[base + mid]
    BY <1>7, PlaceSplits
  <2>2. at = "place" /\ base \in Nat /\ n \in Nat
    BY <1>7, InRange DEF Place
  <2>3. Exchange
    BY <2>1, <2>2, InRange DEF Exchange, SwapPivot, pivot
  <2> DEFINE a == Sublist(base, mid)
             b == Sublist(base + mid + 1, n - mid - 1)
  <2>4. a \in Sublists /\ b \in Sublists
    BY <2>2 DEF Sublist, Sublists
  <2>5. calls' = <<a, b>> \o calls
    BY <2>1
  <2>6. \A k \in Index :
          /\ Covers(Current, k) <=> base <= k /\ k < base + n
          /\ Covers(a, k) <=> base <= k /\ k < base + mid
          /\ Covers(b, k) <=> base + mid < k /\ k < base + n
    BY <2>2, CoversSplit, ListFacts DEF Covers, Current, Sublist, Index
  <2> HIDE DEF a, b
  <2>7. /\ 1 \in DOMAIN calls' /\ 2 \in DOMAIN calls' /\ calls'[1] = a /\ calls'[2] = b
        /\ \A k \in DOMAIN calls : k + 2 \in DOMAIN calls' /\ calls'[k + 2] = calls[k]
    BY <2>4, <2>5, PushCalls
  <2>8. CASE ~Together(i, j)
    BY <2>2, <2>3, <2>8, ExchangeKeepsOrder
  <2>9. ASSUME NEW k \in DOMAIN calls, Covers(calls[k], i), Covers(calls[k], j)
        PROVE  Together(i, j)'
    <3>1. k + 2 \in DOMAIN calls' /\ calls'[k + 2] = calls[k]
      BY <2>7
    <3>2. QED
      BY <2>9, <3>1 DEF Together, Covers
  <2>10. CASE Covers(Current, i) /\ Covers(Current, j)
    <3>1. CASE j < base + mid
      <4>1. Covers(a, i) /\ Covers(a, j)
        BY <1>2, <2>2, <2>6, <2>10, <3>1
      <4>2. QED
        BY <2>7, <4>1 DEF Together, Covers
    <3>2. CASE base + mid < i
      <4>1. Covers(b, i) /\ Covers(b, j)
        BY <1>2, <2>2, <2>6, <2>10, <3>2
      <4>2. QED
        BY <2>7, <4>1 DEF Together, Covers
    <3>3. CASE i <= base + mid /\ base + mid <= j
      <4>1. /\ base <= i /\ i <= base + mid /\ base + mid <= j /\ j < base + n
            /\ \A k \in Index : list'[k] \in Int
        <5>1. TypeOK' /\ Index' = Index
          BY TypeNext, OnlyExchanges
        <5>2. list' \in [Index -> Values]
          BY <5>1 DEF TypeOK
        <5>3. QED
          BY <2>2, <2>6, <2>10, <3>3, <5>2, SortAssumption
      <4>2. base + mid \in Index
        BY <2>2, InRange
      <4>3. list'[i] <= list'[base + mid]
        <5>1. CASE i = base + mid
          BY <4>1, <4>2, <5>1
        <5>2. CASE i # base + mid
          <6>1. i - base \in 0..mid - 1 /\ base + (i - base) = i
            BY <1>2, <2>2, <4>1, <5>2
          <6>2. QED
            BY <2>1, <6>1
        <5>3. QED
          BY <5>1, <5>2
      <4>4. list'[base + mid] <= list'[j]
        <5>1. CASE j = base + mid
          BY <4>1, <4>2, <5>1
        <5>2. CASE j # base + mid
          <6>1. j - base \in mid + 1..n - 1 /\ base + (j - base) = j
            BY <1>2, <2>2, <4>1, <5>2
          <6>2. list'[j] >= list'[base + mid]
            BY <2>1, <6>1
          <6>3. QED
            BY <4>1, <4>2, <6>2
        <5>3. QED
          BY <5>1, <5>2
      <4>5. QED
        BY <4>1, <4>2, <4>3, <4>4
    <3>4. QED
      BY <1>2, <2>2, <3>1, <3>2, <3>3
  <2>11. QED
    BY <2>8, <2>9, <2>10 DEF Together
<1>8. QED
  BY <1>3, <1>4, <1>5, <1>6, <1>7 DEF Next

\* When quicksort() returns, no item is larger than the next one: its caller
\* prints 1 for list_is_sorted() (quicksort.c:59-66, 109-112).
THEOREM SortedHolds == Spec => []Sorted
<1>1. TypeOK /\ Ordered => Sorted
  <2> SUFFICES ASSUME TypeOK, Ordered, at = "call", calls = <<>>, NEW i \in 0..list_len - 2
               PROVE  list[i] <= list[i + 1]
    BY DEF Sorted
  <2>1. i \in Index /\ i + 1 \in Index /\ i < i + 1
    BY ListFacts DEF Index
  <2>2. ~Together(i, i + 1)
    BY DEF Together
  <2>3. QED
    BY <2>1, <2>2 DEF Ordered
<1>2. QED
  BY <1>1, TypeInit, TypeNext, ScanInit, ScanNext, DisjointInit, DisjointNext,
     OrderedInit, OrderedNext, PTL DEF Spec
=============================================================================
