------------------------------- MODULE VecProofs -------------------------------
(***************************************************************************)
(* Proofs about Vec, for every set of values, pointers and addresses and   *)
(* every first capacity but 0: the header is right about the memory, only  *)
(* growth invalidates pointers, and the vector is a stack.  Each action    *)
(* maps to one action of Stack or leaves the stack alone; TypeOK is        *)
(* inductive and all the refinement needs.                                 *)
(***************************************************************************)
EXTENDS Vec, SequenceTheorems, TLAPS

\* TypeOK holds in the initial state.
LEMMA InitType == Init => TypeOK
<1> SUFFICES ASSUME Init PROVE TypeOK
  OBVIOUS
<1>1. len = 0 /\ cap = 0 /\ item \in Room(cap) /\ answer \in Values
  BY DEF Init
<1>2. block = Null /\ ptr \in [Pointers -> Addresses \cup {Null}]
  BY DEF Init
<1>3. reserved = FALSE /\ exited = FALSE
  BY DEF Init
<1>4. len \in Nat /\ cap \in Nat /\ len <= cap
  BY <1>1
<1>5. QED
  BY <1>1, <1>2, <1>3, <1>4, Zenon DEF TypeOK

\* Growing doubles the memory and keeps the items.
LEMMA GrowFacts ==
  ASSUME TypeOK, NEW p \in Pointers, len = cap, Usable(p), Grow(p)
  PROVE  /\ cap' = 2 * cap /\ cap' > len
         /\ item' \in Room(cap')
         /\ \A i \in 0..cap - 1 : item'[i] = item[i]
         /\ block' \in Addresses
         /\ ptr' \in [Pointers -> Addresses \cup {Null}]
<1>1. cap \in Nat /\ cap > 0 /\ DOMAIN item = 0..cap - 1
  BY DEF TypeOK, Usable, Room
<1>2. /\ cap' = 2 * cap /\ block' \in Addresses
      /\ ptr' = [ptr EXCEPT ![p] = block']
      /\ item' \in Room(cap') /\ \A i \in DOMAIN item : item'[i] = item[i]
  BY DEF Grow
<1>3. ptr' \in [Pointers -> Addresses \cup {Null}]
  BY <1>2 DEF TypeOK
<1>4. cap' > len
  BY <1>1, <1>2
<1>5. QED
  BY <1>1, <1>2, <1>3, <1>4

\* TypeOK is inductive.
LEMMA NextType ==
  ASSUME TypeOK, [Next]_vars
  PROVE  TypeOK'
<1> USE VecAssumption
<1>1. CASE UNCHANGED vars
  BY <1>1 DEF TypeOK, vars, header
<1>2. ASSUME NEW p \in Pointers, vecInit(p)
      PROVE  TypeOK'
  <2>1. CASE block' \in Addresses /\ len' = 0 /\ cap' = StartCap
    BY <1>2, <2>1 DEF vecInit, TypeOK, Room, header
  <2>2. CASE UNCHANGED <<block, header, item>>
    BY <1>2, <2>2 DEF vecInit, TypeOK, header
  <2>3. QED
    BY <1>2, <2>1, <2>2 DEF vecInit
<1>3. ASSUME NEW p \in Pointers, vecRelease(p)
      PROVE  TypeOK'
  BY <1>3 DEF vecRelease, TypeOK, Room
<1>4. ASSUME NEW p \in Pointers, NEW q \in Pointers, Copy(p, q)
      PROVE  TypeOK'
  BY <1>4 DEF Copy, TypeOK, header
<1>5. ASSUME NEW p \in Pointers, vecPush(p)
      PROVE  TypeOK'
  <2>1. CASE len = cap
    <3>1. Grow(p) /\ Usable(p)
      BY <1>5, <2>1 DEF vecPush
    <3>2. QED
      BY <1>5, <2>1, <3>1, GrowFacts DEF vecPush, TypeOK
  <2>2. CASE len # cap
    BY <1>5, <2>2 DEF vecPush, TypeOK, Usable
  <2>3. QED
    BY <2>1, <2>2
<1>6. ASSUME NEW p \in Pointers, vecPushExits(p)
      PROVE  TypeOK'
  BY <1>6 DEF vecPushExits, TypeOK, header
<1>7. ASSUME NEW p \in Pointers, NEW x \in Values, Store(p, x)
      PROVE  TypeOK'
  <2>1. item' \in Room(cap)
    BY <1>7 DEF Store, TypeOK, Room
  <2>2. QED
    BY <1>7, <2>1 DEF Store, TypeOK, header
<1>8. ASSUME NEW p \in Pointers, vecPop(p)
      PROVE  TypeOK'
  <2>1. len' \in Nat /\ len' < cap
    BY <1>8 DEF vecPop, TypeOK
  <2>2. answer' \in Values
    BY <1>8, <2>1 DEF vecPop, TypeOK, Room
  <2>3. QED
    BY <1>8, <2>1, <2>2 DEF vecPop, TypeOK, Usable
<1>9. ASSUME NEW p \in Pointers, vecTop(p)
      PROVE  TypeOK'
  <2>1. answer' \in Values
    BY <1>9 DEF vecTop, TypeOK, Room
  <2>2. QED
    BY <1>9, <2>1 DEF vecTop, TypeOK, header
<1>10. ASSUME NEW p \in Pointers, vecClear(p)
       PROVE  TypeOK'
  BY <1>10 DEF vecClear, TypeOK, Usable
<1>11. QED
  BY <1>1, <1>2, <1>3, <1>4, <1>5, <1>6, <1>7, <1>8, <1>9, <1>10 DEF Next

\* The header is right about the memory: no item is stored or read outside the
\* block, whatever its user does within the rules (vec.c 35-53).
THEOREM TypeCorrect == Spec => []TypeOK
BY InitType, NextType, PTL DEF Spec

\* Only growth of a full vector and release invalidate a pointer (vec.c 38-47).
THEOREM PointersStay == Spec => StaysUsable
<1> DEFINE Kept ==
      \A p \in Pointers :
          Usable(p) /\ ptr'[p] = ptr[p] /\ len < cap /\ block' # Null => ptr'[p] = block'
<1>1. ASSUME TypeOK, Next
      PROVE  Kept
  <2> SUFFICES ASSUME NEW q \in Pointers, Usable(q), len < cap, block' # Null
               PROVE  block' = block
    BY DEF Usable
  <2>1. block # Null /\ len # cap
    <3>1. len \in Nat /\ cap \in Nat
      BY <1>1 DEF TypeOK
    <3>2. QED
      BY <3>1 DEF Usable
  <2>2. PICK p \in Pointers :
          \/ vecInit(p) \/ vecRelease(p) \/ \E r \in Pointers : Copy(p, r)
          \/ vecPush(p) \/ vecPushExits(p) \/ \E x \in Values : Store(p, x)
          \/ vecPop(p) \/ vecTop(p) \/ vecClear(p)
    BY <1>1 DEF Next
  <2>3. ~vecInit(p) /\ ~vecRelease(p)
    BY <2>1 DEF vecInit, vecRelease
  <2>4. vecPush(p) => block' = block
    BY <2>1 DEF vecPush
  <2>5. (\E r \in Pointers : Copy(p, r)) \/ vecPushExits(p) => block' = block
    BY DEF Copy, vecPushExits
  <2>6. (\E x \in Values : Store(p, x)) \/ vecPop(p) \/ vecTop(p) \/ vecClear(p)
           => block' = block
    BY DEF Store, vecPop, vecTop, vecClear
  <2>7. QED
    BY <2>2, <2>3, <2>4, <2>5, <2>6
<1>2. TypeOK /\ [Next]_vars => [Kept]_vars
  BY <1>1
<1>3. QED
  BY <1>2, TypeCorrect, PTL DEF Spec, StaysUsable

-----------------------------------------------------------------------------
(* The vector implements Stack *)

\* The number of values stored.
stored == IF reserved THEN len - 1 ELSE len

\* What `contents' is, in terms of the number of values stored.
LEMMA StoredFacts ==
  ASSUME TypeOK
  PROVE  /\ stored \in Nat /\ stored <= cap
         /\ \A i \in 1..stored : i - 1 \in DOMAIN item /\ item[i - 1] \in Values
         /\ contents = [i \in 1..stored |-> item[i - 1]]
         /\ contents \in Seq(Values) /\ Len(contents) = stored
         /\ DOMAIN contents = 1..stored
<1>1. stored \in Nat /\ stored <= cap
  BY DEF TypeOK, stored
<1>2. \A i \in 1..stored : i - 1 \in DOMAIN item /\ item[i - 1] \in Values
  BY <1>1 DEF TypeOK, Room
<1>3. contents = [i \in 1..stored |-> item[i - 1]]
  BY DEF contents, stored
<1>4. contents \in Seq(Values) /\ Len(contents) = stored
  BY <1>1, <1>2, <1>3
<1>5. QED
  BY <1>1, <1>2, <1>3, <1>4

\* A vector without values is the empty stack.
LEMMA NoValues ==
  ASSUME NEW m
  PROVE  [i \in 1..0 |-> m[i - 1]] = <<>>
OBVIOUS

\* Without items the contents are empty.
LEMMA NothingStored ==
  ASSUME stored = 0
  PROVE  contents = <<>>
BY NoValues DEF contents, stored

\* The same of the next state.
LEMMA NothingStoredNext ==
  ASSUME stored' = 0
  PROVE  contents' = <<>>
BY NoValues DEF contents, stored

\* The same number of values at the same places is the same stack.
LEMMA SameContents ==
  ASSUME TypeOK, TypeOK', stored' = stored,
         \A i \in 0..stored - 1 : item'[i] = item[i]
  PROVE  contents' = contents
<1>1. stored \in Nat
  BY StoredFacts
<1>2. \A i \in 1..stored : item'[i - 1] = item[i - 1]
  BY <1>1
<1>3. contents' = [i \in 1..stored |-> item'[i - 1]]
  BY DEF contents, stored
<1>4. QED
  BY <1>2, <1>3, StoredFacts

\* The initial states are those of Stack.
LEMMA InitImplements == Init => StackOf!Init
<1> SUFFICES ASSUME Init PROVE StackOf!Init
  OBVIOUS
<1>1. TypeOK /\ stored = 0
  BY InitType DEF Init, stored
<1>2. QED
  BY <1>1, NothingStored DEF Init, StackOf!Init

\* Every step is a step of Stack or leaves it alone.
LEMMA NextImplements ==
  ASSUME TypeOK, TypeOK', [Next]_vars
  PROVE  [StackOf!Next]_<<contents, answer>>
<1> USE DEF StackOf!Next
<1>1. CASE UNCHANGED vars
  BY <1>1 DEF vars, header, contents
<1>2. ASSUME NEW p \in Pointers, vecInit(p)
      PROVE  UNCHANGED <<contents, answer>>
  <2>1. stored = 0 /\ stored' = 0
    BY <1>2 DEF vecInit, header, stored, TypeOK
  <2>2. contents = <<>> /\ contents' = <<>>
    BY <2>1, NothingStored, NothingStoredNext
  <2>3. QED
    BY <1>2, <2>2 DEF vecInit
<1>3. ASSUME NEW p \in Pointers, vecRelease(p) \/ vecClear(p)
      PROVE  StackOf!Empty
  <2>1. stored' = 0
    BY <1>3 DEF vecRelease, vecClear, stored
  <2>2. contents' = <<>>
    BY <2>1, NothingStoredNext
  <2>3. QED
    BY <1>3, <2>2 DEF vecRelease, vecClear, StackOf!Empty
<1>4. ASSUME NEW p \in Pointers, vecPushExits(p) \/ \E q \in Pointers : Copy(p, q)
      PROVE  UNCHANGED <<contents, answer>>
  BY <1>4 DEF vecPushExits, Copy, header, contents
<1>5. ASSUME NEW p \in Pointers, vecPush(p)
      PROVE  UNCHANGED <<contents, answer>>
  <2>1. stored = len /\ stored' = len /\ len \in Nat /\ len <= cap /\ cap \in Nat
    BY <1>5 DEF vecPush, stored, TypeOK
  <2>2. \A i \in 0..cap - 1 : item'[i] = item[i]
    BY <1>5, GrowFacts DEF vecPush
  <2>3. \A i \in 0..stored - 1 : item'[i] = item[i]
    BY <2>1, <2>2
  <2>4. contents' = contents
    BY <2>1, <2>3, SameContents
  <2>5. QED
    BY <1>5, <2>4 DEF vecPush
<1>6. ASSUME NEW p \in Pointers, NEW x \in Values, Store(p, x)
      PROVE  StackOf!Put(x)
  <2>1. stored \in Nat /\ stored' = stored + 1 /\ len - 1 = stored
    BY <1>6 DEF Store, stored, TypeOK, header
  <2>2. stored \in DOMAIN item
    BY <1>6, <2>1 DEF Store, TypeOK, Room
  <2>3. /\ item'[stored] = x
        /\ \A i \in 1..stored : item'[i - 1] = item[i - 1]
    BY <1>6, <2>1, <2>2, StoredFacts DEF Store
  <2>4. contents' = [i \in 1..stored + 1 |-> item'[i - 1]]
    BY <2>1 DEF contents, stored
  <2>5. Append(contents, x) = [i \in 1..stored + 1 |-> item'[i - 1]]
    <3>1. /\ Append(contents, x) \in Seq(Values)
          /\ Len(Append(contents, x)) = stored + 1
          /\ \A i \in 1..stored : Append(contents, x)[i] = contents[i]
          /\ Append(contents, x)[stored + 1] = x
      BY StoredFacts, AppendProperties
    <3> DEFINE f == [i \in 1..stored + 1 |-> item'[i - 1]]
    <3>2. \A i \in 1..stored + 1 : item'[i - 1] \in Values
      BY <2>1, <2>3, StoredFacts
    <3>3. f \in Seq(Values) /\ Len(f) = stored + 1
      BY <2>1, <3>2
    <3>4. \A i \in 1..stored + 1 : Append(contents, x)[i] = f[i]
      BY <2>1, <2>3, <3>1, StoredFacts
    <3>5. QED
      BY <3>1, <3>3, <3>4, SeqEqual
  <2>6. QED
    BY <1>6, <2>4, <2>5 DEF Store, StackOf!Put
<1>7. ASSUME NEW p \in Pointers, vecPop(p)
      PROVE  StackOf!Take
  <2>1. stored \in Nat \ {0} /\ stored = len /\ stored' = stored - 1
    BY <1>7 DEF vecPop, stored, TypeOK
  <2>2. contents # <<>> /\ Len(contents) = stored
    BY <2>1, StoredFacts, EmptySeq
  <2>3. answer' = contents[stored]
    BY <1>7, <2>1, StoredFacts DEF vecPop
  <2>4. contents' = [i \in 1..stored - 1 |-> item[i - 1]]
    BY <1>7, <2>1 DEF contents, stored, vecPop
  <2>5. SubSeq(contents, 1, stored - 1) = [i \in 1..stored - 1 |-> contents[i]]
    BY <2>1, StoredFacts
  <2>6. \A i \in 1..stored - 1 : contents[i] = item[i - 1]
    BY <2>1, StoredFacts
  <2>7. QED
    BY <2>2, <2>3, <2>4, <2>5, <2>6 DEF StackOf!Take
<1>8. ASSUME NEW p \in Pointers, vecTop(p)
      PROVE  StackOf!Look
  <2>1. stored \in Nat \ {0} /\ stored = len
    BY <1>8 DEF vecTop, stored, TypeOK
  <2>2. contents # <<>> /\ Len(contents) = stored
    BY <2>1, StoredFacts, EmptySeq
  <2>3. answer' = contents[stored]
    BY <1>8, <2>1, StoredFacts DEF vecTop
  <2>4. contents' = contents
    BY <1>8 DEF vecTop, header, contents
  <2>5. QED
    BY <2>2, <2>3, <2>4 DEF StackOf!Look
<1>9. QED
  BY <1>1, <1>2, <1>3, <1>4, <1>5, <1>6, <1>7, <1>8 DEF Next

\* The vector is the stack of the example in vec.h (13-24).
THEOREM VecImplementsStack == Spec => IsStack
<1>1. TypeOK /\ TypeOK' /\ [Next]_vars => [StackOf!Next]_<<contents, answer>>
  BY NextImplements
<1>2. QED
  BY <1>1, InitImplements, TypeCorrect, PTL DEF Spec, IsStack, StackOf!Spec
=============================================================================
