--------------------------- MODULE LineSessionProofs ---------------------------
(***************************************************************************)
(* Proofs about what the users of LineSession see, for any number of       *)
(* clients, whatever they type.                                            *)
(*                                                                         *)
(* Inv: output reaches its own client because descriptor 1 belongs to the  *)
(* one worker inside a command (Routed); wall messages come whole and in   *)
(* order because a worker that was not raced looks at the slot only while  *)
(* nobody holds the lock (Locked, Seen).                                   *)
(*                                                                         *)
(* Typed: the values the state takes, with what strtok() and fgets() give  *)
(* of a sequence of symbols.                                               *)
(*                                                                         *)
(* Framing: files arrive whole because in what is on its way every "put"   *)
(* that can begin a command has its own header and its own file behind it, *)
(* and because one worker at a time goes through the tokens of a line.     *)
(***************************************************************************)
EXTENDS LineSession, SequenceTheorems, WellFoundedInduction, TLAPS

\* A sequence, whatever its elements are.
IsList(s) == s \in Seq({s[i] : i \in DOMAIN s})

\* The shapes of the state the invariants speak of.
Shapes ==
    /\ DOMAIN shown = Clients /\ \A c \in Clients : IsList(shown[c])
    /\ DOMAIN worker = Clients
    /\ \A c \in Clients :
         /\ DOMAIN worker[c] = {"at", "done", "line", "args", "got", "last", "raced"}
         /\ worker[c].last \in Nat /\ worker[c].raced \in BOOLEAN
    /\ DOMAIN shared = {"alive", "out", "scan", "held", "cwd", "port", "overlap"}
    /\ shared.overlap \in BOOLEAN
    /\ wall \in [lock : Clients \cup {None}, text : [1..2 -> Nat], stamp : Nat, clock : Nat,
                 count : Nat]

\* A worker that has redirected descriptor 1 for the command it is inside.
Routes(v) == Inside(v) /\ worker[v].at # "line"

\* Descriptor 1 belongs to that worker, so there is one only, and what was
\* printed went where it belongs.
Routed ==
    ~shared.overlap =>
        /\ \A v \in Clients : Routes(v) => shared.out = v
        /\ \A c \in Clients : \A i \in DOMAIN shown[c] :
             shown[c][i].kind = "output" => shown[c][i].of = c

\* The lock is held by the worker that writes the text; the text is whole
\* except between its halves; nothing is younger than the clock.
Locked ==
    /\ \A w \in Clients : wall.lock = w <=> worker[w].at \in {"half", "wall"}
    /\ wall.text[1] = wall.count
    /\ (\A w \in Clients : worker[w].at # "half") => wall.text[2] = wall.count
    /\ wall.stamp <= wall.clock
    /\ \A w \in Clients : worker[w].last <= wall.clock

\* What a client has seen: whole messages in order, none from the future, and
\* the latest only if its worker has taken note of the time stamp, or will.  A
\* worker that is about to show the message has not shown it, and it is whole.
SeenBy(c) ==
    /\ \A i \in DOMAIN shown[c] : shown[c][i].kind = "wall" =>
         LET text == shown[c][i].text IN
         /\ text[1] \in Nat /\ text[1] = text[2] /\ text[1] <= wall.count
         /\ text[1] = wall.count =>
              wall.lock = None /\ (worker[c].at = "stamp" \/ wall.stamp <= worker[c].last)
         /\ \A j \in DOMAIN shown[c] :
              shown[c][j].kind = "wall" /\ i < j => text[1] < shown[c][j].text[1]
    /\ worker[c].at = "show" => wall.lock = None /\ worker[c].last < wall.stamp

Seen == \A c \in Clients : ~worker[c].raced => SeenBy(c)

Inv == Shapes /\ Routed /\ Locked /\ Seen

-----------------------------------------------------------------------------
(* Sequences and answers *)

\* Appending to a list gives a list, one longer, with the same elements before.
LEMMA AppendList ==
  ASSUME NEW s, NEW e, IsList(s)
  PROVE  /\ IsList(Append(s, e))
         /\ Len(s) \in Nat /\ DOMAIN s = 1..Len(s)
         /\ DOMAIN Append(s, e) = 1..Len(s) + 1
         /\ \A i \in 1..Len(s) : Append(s, e)[i] = s[i]
         /\ Append(s, e)[Len(s) + 1] = e
<1> DEFINE S == {s[i] : i \in DOMAIN s} \cup {e}
           t == Append(s, e)
<1>1. s \in Seq({s[i] : i \in DOMAIN s}) /\ {s[i] : i \in DOMAIN s} \subseteq S
  BY DEF IsList
<1>2. s \in Seq(S)
  BY <1>1, SeqMonotonic
<1> HIDE DEF S
<1>3. Len(s) \in Nat /\ DOMAIN s = 1..Len(s)
  BY <1>2, LenProperties
<1>4. e \in S
  BY DEF S
<1>5. t \in Seq(S) /\ Len(t) = Len(s) + 1 /\ t[Len(s) + 1] = e
      /\ \A i \in 1..Len(s) : t[i] = s[i]
  BY <1>2, <1>4, AppendProperties
<1>6. DOMAIN t = 1..Len(s) + 1
  BY <1>5, LenProperties
<1>7. t \in Seq({t[i] : i \in DOMAIN t})
  BY <1>3, <1>5, <1>6
<1>8. QED
  BY <1>3, <1>5, <1>6, <1>7 DEF IsList

\* What the child of client d printed is the answer at the end, or nothing.
LEMMA AnswerShown ==
  ASSUME Shapes, NEW d, NEW a, Answer(d, a)
  PROVE  /\ DOMAIN shown' = Clients /\ \A c \in Clients : IsList(shown'[c])
         /\ \A c \in Clients : \A i \in DOMAIN shown'[c] :
              \/ i \in DOMAIN shown[c] /\ shown'[c][i] = shown[c][i]
              \/ c = d /\ shown'[c][i] = a /\ i = Len(shown[c]) + 1
         /\ \A c \in Clients : Len(shown[c]) \in Nat /\ DOMAIN shown[c] = 1..Len(shown[c])
<1>1. DOMAIN shown = Clients
      /\ shown' = [shown EXCEPT ![d] = IF client[d].child = "reads" THEN Append(@, a) ELSE @]
  BY DEF Shapes, Answer
<1>2. ASSUME NEW c \in Clients
      PROVE  shown'[c] = shown[c] \/ (c = d /\ shown'[c] = Append(shown[c], a))
  BY <1>1
<1>3. ASSUME NEW c \in Clients
      PROVE  /\ IsList(shown[c]) /\ IsList(Append(shown[c], a))
             /\ \A i \in DOMAIN Append(shown[c], a) :
                  \/ i \in DOMAIN shown[c] /\ Append(shown[c], a)[i] = shown[c][i]
                  \/ Append(shown[c], a)[i] = a /\ i = Len(shown[c]) + 1
             /\ Len(shown[c]) \in Nat /\ DOMAIN shown[c] = 1..Len(shown[c])
  <2>1. IsList(shown[c])
    BY DEF Shapes
  <2>2. QED
    BY <2>1, AppendList
<1>4. QED
  BY <1>1, <1>2, <1>3

-----------------------------------------------------------------------------
(* Steps that do not concern the invariants *)

\* The worker changes fields other than `last' and `raced', and enters or
\* leaves none of the four places where the wall message is at stake.
Apart(v) ==
    /\ DOMAIN worker'[v] = DOMAIN worker[v]
    /\ worker'[v].last = worker[v].last /\ worker'[v].raced = worker[v].raced
    /\ \A p \in {"show", "stamp", "half", "wall"} : worker'[v].at = p <=> worker[v].at = p

\* A step that leaves the wall message alone and shows none.
WallsKept ==
    /\ wall' = wall
    /\ DOMAIN worker' = Clients /\ \A v \in Clients : Apart(v)
    /\ \A c \in Clients : \A i \in DOMAIN shown'[c] :
         shown'[c][i].kind = "wall" => i \in DOMAIN shown[c] /\ shown'[c][i] = shown[c][i]

\* A step that redirects nothing and prints no output.
RouteKept ==
    /\ shared'.out = shared.out /\ shared'.overlap = shared.overlap
    /\ \A v \in Clients : Routes(v)' => Routes(v)
    /\ \A c \in Clients : \A i \in DOMAIN shown'[c] :
         shown'[c][i].kind = "output" => i \in DOMAIN shown[c] /\ shown'[c][i] = shown[c][i]

\* A step of the first kind keeps what is known of the walls.
LEMMA KeepsWalls == Locked /\ Seen /\ WallsKept => Locked' /\ Seen'
BY DEF Locked, Seen, SeenBy, WallsKept, Apart

\* A step of the second kind keeps what is known of the routes.
LEMMA KeepsRoute == Routed /\ RouteKept => Routed'
BY DEF Routed, RouteKept

\* Such steps keep the invariant when they keep the shapes.
LEMMA KeepsInv == Inv /\ Shapes' /\ WallsKept /\ RouteKept => Inv'
BY KeepsWalls, KeepsRoute DEF Inv

\* The state the users start in.
LEMMA InitInv == Init => Inv
<1> SUFFICES ASSUME Init
             PROVE  Inv
  OBVIOUS
<1>1. shown = [c \in Clients |-> <<>>] /\ IsList(<<>>)
  BY DEF Init, IsList
<1>2. \A c \in Clients :
        worker[c] = [at |-> "top", done |-> FALSE, line |-> <<>>, args |-> <<>>,
                     got |-> <<>>, last |-> 0, raced |-> FALSE]
  BY DEF Init
<1>3. /\ wall.lock = None /\ wall.text = <<0, 0>> /\ wall.stamp = 0 /\ wall.clock = 0
      /\ wall.count = 0
      /\ wall \in [lock : Clients \cup {None}, text : [1..2 -> Nat], stamp : Nat,
                   clock : Nat, count : Nat]
  BY DEF Init
<1>4. Shapes
  BY <1>1, <1>2, <1>3 DEF Init, Shapes
<1>5. Routed
  BY <1>1, <1>2 DEF Routed, Routes, Inside
<1>6. Locked
  BY <1>2, <1>3, SessionAssumption DEF SessionAssumption, Locked
<1>7. Seen
  BY <1>1, <1>2 DEF Seen, SeenBy
<1>8. QED
  BY <1>4, <1>5, <1>6, <1>7 DEF Inv

-----------------------------------------------------------------------------
(* Parts of steps *)

\* A worker that goes on changes its place and nothing else.
LEMMA GoesOn ==
  ASSUME Shapes, NEW w \in Clients, NEW p, Goes(w, p)
  PROVE  /\ DOMAIN worker' = Clients
         /\ \A v \in Clients :
              /\ DOMAIN worker'[v] = DOMAIN worker[v]
              /\ worker'[v].last = worker[v].last /\ worker'[v].raced = worker[v].raced
              /\ worker'[v].at = IF v = w THEN p ELSE worker[v].at
BY DEF Goes, Shapes

\* The echo leaves descriptor 1 as it was, and the worker its command.
LEMMA Echoed ==
  ASSUME Shapes, NEW w \in Clients, NEW sh, Echo(w, sh),
         DOMAIN sh = DOMAIN shared, sh.out = shared.out, sh.overlap = shared.overlap
  PROVE  /\ DOMAIN worker' = Clients
         /\ \A v \in Clients :
              /\ DOMAIN worker'[v] = DOMAIN worker[v]
              /\ worker'[v].last = worker[v].last /\ worker'[v].raced = worker[v].raced
              /\ v # w => worker'[v].at = worker[v].at
         /\ worker'[w].at \in {"top", "closed"}
         /\ DOMAIN shared' = DOMAIN shared
         /\ shared'.out = shared.out /\ shared'.overlap = shared.overlap
<1>1. shared' = [sh EXCEPT !.held = @ \cup {w}]
  BY DEF Echo
<1>2. DOMAIN sh = {"alive", "out", "scan", "held", "cwd", "port", "overlap"}
  BY DEF Shapes
<1>3. DOMAIN shared' = DOMAIN shared
      /\ shared'.out = shared.out /\ shared'.overlap = shared.overlap
  BY <1>1, <1>2
<1>4. worker' = [worker EXCEPT ![w] =
        [worker[w] EXCEPT !.at = IF worker[w].done THEN "closed" ELSE "top",
                          !.args = <<>>, !.line = <<>>, !.got = <<>>]]
  BY DEF Echo
<1>5. QED
  BY <1>3, <1>4 DEF Shapes

\* A server that dies stops; what was shown stays.
LEMMA DiesInv == Inv /\ ServerDies => Inv'
<1> SUFFICES ASSUME Inv, ServerDies
             PROVE  Inv'
  OBVIOUS
<1>1. shared' = [shared EXCEPT !.alive = FALSE] /\ shown' = shown /\ worker' = worker
      /\ wall' = wall
  BY DEF ServerDies, client_side
<1>2. Shapes'
  BY <1>1 DEF Inv, Shapes
<1>3. WallsKept /\ RouteKept
  BY <1>1 DEF Inv, Shapes, WallsKept, Apart, RouteKept, Routes, Inside
<1>4. QED
  BY <1>2, <1>3, KeepsInv

\* A user's step changes nothing the invariant speaks of, but may kill the server.
LEMMA UserInv ==
  ASSUME Inv, NEW c \in Clients, UserStep(c)
  PROVE  Inv'
<1>1. shown' = shown /\ worker' = worker /\ wall' = wall
  BY DEF UserStep, ClientLaunch, ClientPut, ClientPutFaults, ClientGet, ClientExit, ClientKilled
<1>2. shared' = shared \/ \E b : shared' = [shared EXCEPT !.alive = b]
  BY DEF UserStep, ClientLaunch, ClientPut, ClientPutFaults, ClientGet, ClientExit, ClientKilled
<1>3. Shapes'
  BY <1>1, <1>2 DEF Inv, Shapes
<1>4. WallsKept /\ RouteKept
  BY <1>1, <1>2 DEF Inv, Shapes, WallsKept, Apart, RouteKept, Routes, Inside
<1>5. QED
  BY <1>3, <1>4, KeepsInv

-----------------------------------------------------------------------------
(* The steps of a worker that concern the invariant *)

\* A worker that looks at the slot shows it only when nobody holds the lock.
LEMMA TopInv ==
  ASSUME Inv, NEW w \in Clients, WorkerTop(w)
  PROVE  Inv'
<1> USE DEF Inv
<1>1. /\ shown' = shown /\ shared' = shared /\ wall' = wall
      /\ worker[w].at = "top"
      /\ worker' = [worker EXCEPT ![w] =
           [worker[w] EXCEPT !.at = IF wall.stamp > worker[w].last THEN "show" ELSE "read",
                             !.raced = @ \/ wall.lock # None]]
  BY DEF WorkerTop, At, client_side
<1>2. /\ DOMAIN worker' = Clients
      /\ \A v \in Clients :
           /\ DOMAIN worker'[v] = DOMAIN worker[v] /\ worker'[v].last = worker[v].last
           /\ v # w => worker'[v] = worker[v]
      /\ worker'[w].at = IF wall.stamp > worker[w].last THEN "show" ELSE "read"
      /\ worker'[w].raced = (worker[w].raced \/ wall.lock # None)
  BY <1>1 DEF Shapes
<1>3. Shapes'
  BY <1>1, <1>2 DEF Shapes
<1>4. RouteKept
  BY <1>1, <1>2 DEF RouteKept, Routes, Inside
<1>5. Locked'
  BY <1>1, <1>2 DEF Locked
<1>6. ASSUME NEW c \in Clients, ~worker'[c].raced
      PROVE  SeenBy(c)'
  <2>1. ~worker[c].raced /\ SeenBy(c)
    BY <1>2, <1>6 DEF Seen
  <2>2. CASE c # w
    BY <1>1, <1>2, <2>1, <2>2 DEF SeenBy
  <2>3. CASE c = w
    <3>1. wall.lock = None /\ wall.stamp \in Nat /\ worker[c].last \in Nat
      BY <1>2, <1>6, <2>3 DEF Shapes
    <3>2. QED
      BY <1>1, <1>2, <2>1, <2>3, <3>1 DEF SeenBy
  <2>4. QED
    BY <2>2, <2>3
<1>7. QED
  BY <1>3, <1>4, <1>5, <1>6, KeepsRoute DEF Seen

\* What is shown is the latest message, which was not shown before.
LEMMA ShowInv ==
  ASSUME Inv, NEW w \in Clients, WorkerShow(w)
  PROVE  Inv'
<1> USE DEF Inv
<1> DEFINE a == [kind |-> "wall", of |-> w, words |-> {}, text |-> wall.text]
<1>1. /\ Answer(w, a) /\ Goes(w, "stamp") /\ worker[w].at = "show"
      /\ shared' = shared /\ wall' = wall
  BY DEF WorkerShow, At
<1>2. /\ DOMAIN worker' = Clients
      /\ \A v \in Clients :
           /\ DOMAIN worker'[v] = DOMAIN worker[v]
           /\ worker'[v].last = worker[v].last /\ worker'[v].raced = worker[v].raced
           /\ worker'[v].at = IF v = w THEN "stamp" ELSE worker[v].at
  BY <1>1, GoesOn
<1>3. /\ DOMAIN shown' = Clients /\ \A c \in Clients : IsList(shown'[c])
      /\ \A c \in Clients : \A i \in DOMAIN shown'[c] :
           \/ i \in DOMAIN shown[c] /\ shown'[c][i] = shown[c][i]
           \/ c = w /\ shown'[c][i] = a /\ i = Len(shown[c]) + 1
      /\ \A c \in Clients : Len(shown[c]) \in Nat /\ DOMAIN shown[c] = 1..Len(shown[c])
  BY <1>1, AnswerShown
<1>4. a.kind = "wall" /\ a.text = wall.text
  OBVIOUS
<1> HIDE DEF a
<1>5. Shapes'
  BY <1>1, <1>2, <1>3 DEF Shapes
<1>6. RouteKept
  BY <1>1, <1>2, <1>3, <1>4 DEF RouteKept, Routes, Inside
<1>7. Locked'
  BY <1>1, <1>2 DEF Locked
<1>8. ASSUME NEW c \in Clients, ~worker'[c].raced
      PROVE  SeenBy(c)'
  <2>1. ~worker[c].raced /\ SeenBy(c)
    BY <1>2, <1>8 DEF Seen
  <2>2. CASE c # w
    BY <1>1, <1>2, <1>3, <2>1, <2>2 DEF SeenBy
  <2>3. CASE c = w
    <3>1. wall.lock = None /\ worker[w].last < wall.stamp
      BY <1>1, <2>1, <2>3 DEF SeenBy
    <3>2. wall.text[1] = wall.count /\ wall.text[2] = wall.count /\ wall.count \in Nat
      BY <3>1, SessionAssumption DEF SessionAssumption, Locked, Shapes
    <3>3. wall.stamp \in Nat /\ worker[w].last \in Nat
      BY DEF Shapes
    <3>4. ASSUME NEW i \in DOMAIN shown[w], shown[w][i].kind = "wall"
          PROVE  shown[w][i].text[1] \in Nat /\ shown[w][i].text[1] < wall.count
      BY <1>1, <2>1, <2>3, <3>1, <3>2, <3>3, <3>4 DEF SeenBy
    <3>5. ASSUME NEW i \in DOMAIN shown'[w], shown'[w][i].kind = "wall"
          PROVE  LET text == shown'[w][i].text IN
                 /\ text[1] \in Nat /\ text[1] = text[2] /\ text[1] <= wall.count
                 /\ \A j \in DOMAIN shown'[w] :
                      shown'[w][j].kind = "wall" /\ i < j => text[1] < shown'[w][j].text[1]
      <4>1. CASE i \in DOMAIN shown[w] /\ shown'[w][i] = shown[w][i]
        BY <1>3, <1>4, <2>1, <2>3, <3>2, <3>4, <3>5, <4>1 DEF SeenBy
      <4>2. CASE shown'[w][i] = a /\ i = Len(shown[w]) + 1
        <5>1. \A j \in DOMAIN shown'[w] : ~(i < j)
          BY <1>3, <4>2
        <5>2. QED
          BY <1>4, <3>2, <4>2, <5>1
      <4>3. QED
        BY <1>3, <3>5, <4>1, <4>2
    <3>6. worker'[w].at = "stamp" /\ wall'.lock = None /\ wall' = wall
      BY <1>1, <1>2, <3>1
    <3>7. QED
      BY <2>3, <3>5, <3>6 DEF SeenBy
  <2>4. QED
    BY <2>2, <2>3
<1>9. QED
  BY <1>5, <1>6, <1>7, <1>8, KeepsRoute DEF Seen

\* Once a worker has taken the time, nothing that was shown is new to it.
LEMMA StampInv ==
  ASSUME Inv, NEW w \in Clients, WorkerStamp(w)
  PROVE  Inv'
<1> USE DEF Inv
<1>0. PICK t \in 0..MaxClock :
        /\ Clock(t)
        /\ wall' = [wall EXCEPT !.clock = t]
        /\ worker' = [worker EXCEPT ![w].at = "read", ![w].last = t]
  BY DEF WorkerStamp
<1>1. wall.clock <= t
  BY <1>0, SessionAssumption DEF SessionAssumption, Clock, Shapes
<1>2. /\ shown' = shown /\ shared' = shared /\ worker[w].at = "stamp"
  BY DEF WorkerStamp, At, client_side
<1>3. /\ DOMAIN worker' = Clients
      /\ \A v \in Clients :
           /\ DOMAIN worker'[v] = DOMAIN worker[v] /\ worker'[v].raced = worker[v].raced
           /\ v # w => worker'[v] = worker[v]
      /\ worker'[w].at = "read" /\ worker'[w].last = t
  BY <1>0 DEF Shapes
<1>4. /\ wall'.lock = wall.lock /\ wall'.text = wall.text /\ wall'.stamp = wall.stamp
      /\ wall'.count = wall.count /\ wall'.clock = t
      /\ t \in Nat /\ wall.clock \in Nat /\ wall.stamp \in Nat
      /\ wall' \in [lock : Clients \cup {None}, text : [1..2 -> Nat], stamp : Nat,
                    clock : Nat, count : Nat]
  BY <1>0 DEF Shapes
<1>5. Shapes'
  BY <1>2, <1>3, <1>4 DEF Shapes
<1>6. RouteKept
  BY <1>2, <1>3 DEF RouteKept, Routes, Inside
<1>7. Locked'
  <2>1. \A v \in Clients : worker'[v].last <= t
    BY <1>1, <1>3, <1>4 DEF Locked, Shapes
  <2>2. wall.stamp <= t
    BY <1>1, <1>4 DEF Locked
  <2>3. QED
    BY <1>2, <1>3, <1>4, <2>1, <2>2 DEF Locked
<1>8. ASSUME NEW c \in Clients, ~worker'[c].raced
      PROVE  SeenBy(c)'
  <2>1. SeenBy(c)
    BY <1>3, <1>8 DEF Seen
  <2>2. wall.stamp <= t
    BY <1>1, <1>4 DEF Locked
  <2>3. CASE c # w
    BY <1>2, <1>3, <1>4, <2>1, <2>3 DEF SeenBy
  <2>4. CASE c = w
    BY <1>2, <1>3, <1>4, <2>1, <2>2, <2>4 DEF SeenBy
  <2>5. QED
    BY <2>3, <2>4
<1>9. QED
  BY <1>5, <1>6, <1>7, <1>8, KeepsRoute DEF Seen

\* A new message is numbered after all that were shown; who was about to show
\* the old text has been raced.
LEMMA WallCopiesInv ==
  ASSUME Inv, NEW w \in Clients, WorkerWallCopies(w)
  PROVE  Inv'
<1> USE DEF Inv
<1>1. /\ wall.lock = None /\ worker[w].at = "execute"
      /\ wall' = [wall EXCEPT !.lock = w, !.count = @ + 1,
                              !.text = [wall.text EXCEPT ![1] = wall.count + 1]]
      /\ worker' = [v \in Clients |->
           [worker[v] EXCEPT !.at = IF v = w THEN "half" ELSE @,
                             !.raced = @ \/ worker[v].at \in {"show", "stamp"}]]
      /\ shown' = shown /\ shared' = shared
  BY DEF WorkerWallCopies, Executes, At, client_side
<1>2. /\ DOMAIN worker' = Clients
      /\ \A v \in Clients :
           /\ DOMAIN worker'[v] = DOMAIN worker[v] /\ worker'[v].last = worker[v].last
           /\ worker'[v].at = IF v = w THEN "half" ELSE worker[v].at
           /\ worker'[v].raced = (worker[v].raced \/ worker[v].at \in {"show", "stamp"})
  BY <1>1 DEF Shapes
<1>3. /\ wall'.lock = w /\ wall'.count = wall.count + 1 /\ wall'.text[1] = wall.count + 1
      /\ wall'.stamp = wall.stamp /\ wall'.clock = wall.clock /\ wall.count \in Nat
      /\ wall' \in [lock : Clients \cup {None}, text : [1..2 -> Nat], stamp : Nat,
                    clock : Nat, count : Nat]
  <2>1. wall.count + 1 \in Nat /\ wall.text \in [1..2 -> Nat] /\ 1 \in 1..2
    BY DEF Shapes
  <2> DEFINE text == [wall.text EXCEPT ![1] = wall.count + 1]
  <2>2. text \in [1..2 -> Nat] /\ text[1] = wall.count + 1
    BY <2>1
  <2> HIDE DEF text
  <2>3. wall' = [wall EXCEPT !.lock = w, !.count = wall.count + 1, !.text = text]
    BY <1>1 DEF text
  <2>4. QED
    BY <2>1, <2>2, <2>3 DEF Shapes
<1>4. Shapes'
  <2>1. DOMAIN shown' = Clients /\ \A c \in Clients : IsList(shown'[c])
    BY <1>1 DEF Shapes
  <2>2. \A c \in Clients :
          /\ DOMAIN worker'[c] = {"at", "done", "line", "args", "got", "last", "raced"}
          /\ worker'[c].last \in Nat /\ worker'[c].raced \in BOOLEAN
    BY <1>2 DEF Shapes
  <2>3. /\ DOMAIN shared' = {"alive", "out", "scan", "held", "cwd", "port", "overlap"}
        /\ shared'.overlap \in BOOLEAN
    BY <1>1 DEF Shapes
  <2>4. QED
    BY <1>2, <1>3, <2>1, <2>2, <2>3 DEF Shapes
<1>5. RouteKept
  BY ZenonT(40), <1>1, <1>2 DEF RouteKept, Routes, Inside
<1>6. Locked'
  <2>1. \A v \in Clients : worker[v].at \notin {"half", "wall"}
    BY <1>1, SessionAssumption DEF SessionAssumption, Locked
  <2>2. QED
    BY <1>2, <1>3, <2>1 DEF Locked
<1>7. ASSUME NEW c \in Clients, ~worker'[c].raced
      PROVE  SeenBy(c)'
  <2>1. SeenBy(c) /\ worker'[c].at # "show"
    BY <1>2, <1>7 DEF Seen
  <2>2. shown' = shown
    BY <1>1
  <2>3. \A i \in DOMAIN shown[c] : shown[c][i].kind = "wall" =>
          shown[c][i].text[1] \in Nat /\ shown[c][i].text[1] < wall'.count
    BY <1>3, <2>1 DEF SeenBy
  <2>4. QED
    BY <1>3, <2>1, <2>2, <2>3 DEF SeenBy
<1>8. QED
  BY <1>4, <1>5, <1>6, <1>7, KeepsRoute DEF Seen

\* With the second half the message is whole.
LEMMA WallCopiedInv ==
  ASSUME Inv, NEW w \in Clients, WorkerWallCopied(w)
  PROVE  Inv'
<1> USE DEF Inv
<1>1. /\ Goes(w, "wall") /\ worker[w].at = "half"
      /\ wall' = [wall EXCEPT !.text = [wall.text EXCEPT ![2] = wall.count]]
      /\ shown' = shown /\ shared' = shared
  BY DEF WorkerWallCopied, At, client_side
<1>2. /\ DOMAIN worker' = Clients
      /\ \A v \in Clients :
           /\ DOMAIN worker'[v] = DOMAIN worker[v]
           /\ worker'[v].last = worker[v].last /\ worker'[v].raced = worker[v].raced
           /\ worker'[v].at = IF v = w THEN "wall" ELSE worker[v].at
  BY <1>1, GoesOn
<1>3. /\ wall'.lock = wall.lock /\ wall'.count = wall.count
      /\ wall'.stamp = wall.stamp /\ wall'.clock = wall.clock
      /\ wall'.text[1] = wall.text[1] /\ wall'.text[2] = wall.count
      /\ wall' \in [lock : Clients \cup {None}, text : [1..2 -> Nat], stamp : Nat,
                    clock : Nat, count : Nat]
  BY <1>1 DEF Shapes
<1>4. Shapes'
  BY <1>1, <1>2, <1>3 DEF Shapes
<1>5. RouteKept
  BY <1>1, <1>2 DEF RouteKept, Routes, Inside
<1>6. Locked'
  BY <1>1, <1>2, <1>3 DEF Locked
<1>7. Seen'
  BY <1>1, <1>2, <1>3 DEF Seen, SeenBy
<1>8. QED
  BY <1>4, <1>5, <1>6, <1>7, KeepsRoute

\* The time stamp is new to every worker that has not seen the message, and
\* none has.
LEMMA WallStampsInv ==
  ASSUME Inv, NEW w \in Clients, WorkerWallStamps(w)
  PROVE  Inv'
<1> USE DEF Inv
<1>0. PICK t \in 0..MaxClock :
        Clock(t) /\ wall' = [wall EXCEPT !.lock = None, !.clock = t, !.stamp = t]
  BY DEF WorkerWallStamps
<1>1. wall.clock <= t
  BY <1>0, SessionAssumption DEF SessionAssumption, Clock, Shapes
<1>2. Echo(w, shared) /\ worker[w].at = "wall" /\ shown' = shown
  BY DEF WorkerWallStamps, At, client_side
<1>3. /\ DOMAIN worker' = Clients
      /\ \A v \in Clients :
           /\ DOMAIN worker'[v] = DOMAIN worker[v]
           /\ worker'[v].last = worker[v].last /\ worker'[v].raced = worker[v].raced
           /\ v # w => worker'[v].at = worker[v].at
      /\ worker'[w].at \in {"top", "closed"}
      /\ DOMAIN shared' = DOMAIN shared
      /\ shared'.out = shared.out /\ shared'.overlap = shared.overlap
  BY <1>2, Echoed
<1>4. /\ wall'.lock = None /\ wall'.text = wall.text /\ wall'.count = wall.count
      /\ wall'.stamp = t /\ wall'.clock = t
      /\ t \in Nat /\ wall.clock \in Nat
      /\ wall' \in [lock : Clients \cup {None}, text : [1..2 -> Nat], stamp : Nat,
                    clock : Nat, count : Nat]
  <2>1. t \in Nat /\ wall.clock \in Nat
    BY DEF Shapes
  <2>2. wall' = [wall EXCEPT !.lock = None, !.clock = t, !.stamp = t]
    BY <1>0
  <2>3. None \in Clients \cup {None}
    OBVIOUS
  <2> HIDE DEF None
  <2>4. QED
    BY <2>1, <2>2, <2>3 DEF Shapes
<1>5. wall.lock = w /\ w # None
  BY <1>2, SessionAssumption DEF SessionAssumption, Locked
<1>6. Shapes'
  BY <1>2, <1>3, <1>4 DEF Shapes
<1>7. RouteKept
  BY <1>2, <1>3 DEF RouteKept, Routes, Inside
<1>8. Locked'
  <2>1. \A v \in Clients : worker'[v].last <= t
    BY <1>1, <1>3, <1>4 DEF Locked, Shapes
  <2>2. \A v \in Clients : worker'[v].at \notin {"half", "wall"}
    BY <1>3, <1>5 DEF Locked
  <2>3. wall.text[2] = wall.count
    BY <1>2, <1>5 DEF Locked
  <2>4. None \notin Clients
    BY SessionAssumption DEF SessionAssumption
  <2>5. QED
    BY <1>4, <2>1, <2>2, <2>3, <2>4 DEF Locked
<1>9. ASSUME NEW c \in Clients, ~worker'[c].raced
      PROVE  SeenBy(c)'
  <2>1. SeenBy(c)
    BY <1>3, <1>9 DEF Seen
  <2>2. worker'[c].at # "show"
    BY <1>3, <1>5, <2>1 DEF SeenBy
  <2>3. QED
    BY <1>2, <1>4, <1>5, <2>1, <2>2 DEF SeenBy
<1>10. QED
  BY <1>6, <1>7, <1>8, <1>9, KeepsRoute DEF Seen

\* Who redirects while nobody else is inside a command owns descriptor 1.
LEMMA RedirectInv ==
  ASSUME Inv, NEW w \in Clients, WorkerRedirect(w)
  PROVE  Inv'
<1> USE DEF Inv
<1>1. /\ shown' = shown /\ wall' = wall /\ worker[w].at = "line"
      /\ worker' = [worker EXCEPT ![w].at = "split", ![w].args = <<>>,
           ![w].done = worker[w].line \in {<<"exit">>, <<"shutdown">>}]
      /\ shared' = [shared EXCEPT !.out = w,
           !.overlap = @ \/ \E v \in Clients \ {w} : Inside(v)]
  BY DEF WorkerRedirect, At, client_side
<1>2. /\ DOMAIN worker' = Clients
      /\ \A v \in Clients :
           /\ DOMAIN worker'[v] = DOMAIN worker[v]
           /\ worker'[v].last = worker[v].last /\ worker'[v].raced = worker[v].raced
           /\ worker'[v].at = IF v = w THEN "split" ELSE worker[v].at
  BY <1>1 DEF Shapes
<1>3. /\ DOMAIN shared' = DOMAIN shared /\ shared'.out = w
      /\ shared'.overlap = (shared.overlap \/ \E v \in Clients \ {w} : Inside(v))
  <2> DEFINE others == \E v \in Clients \ {w} : Inside(v)
  <2>1. shared' = [shared EXCEPT !.out = w, !.overlap = @ \/ others]
    BY <1>1
  <2> HIDE DEF others
  <2>2. DOMAIN shared' = DOMAIN shared /\ shared'.out = w
        /\ shared'.overlap = (shared.overlap \/ others)
    BY <2>1 DEF Shapes
  <2>3. QED
    BY <2>2 DEF others
<1>4. Shapes'
  BY <1>1, <1>2, <1>3 DEF Shapes
<1>5. WallsKept
  BY <1>1, <1>2 DEF WallsKept, Apart
<1>6. Routed'
  <2>1. SUFFICES ASSUME ~shared'.overlap
                 PROVE  Routed'
    BY DEF Routed
  <2>2. ~shared.overlap /\ \A v \in Clients \ {w} : ~Inside(v)
    BY <1>3, <2>1
  <2>3. ASSUME NEW v \in Clients, Routes(v)'
        PROVE  v = w
    BY <1>2, <2>2, <2>3 DEF Routes, Inside
  <2>4. QED
    BY <1>1, <1>3, <2>2, <2>3 DEF Routed
<1>7. QED
  BY <1>4, <1>5, <1>6, KeepsWalls

\* Output goes to descriptor 1, which is the worker's own.
LEMMA LaunchInv ==
  ASSUME Inv, NEW w \in Clients, WorkerLaunch(w)
  PROVE  Inv'
<1> USE DEF Inv
<1>1. PICK a : a.kind \in {"output", "echo"} /\ a.of = w /\ Answer(shared.out, a)
  <2> DEFINE found == Command(w) \in {<<p>> : p \in Programs}
             a == [kind |-> IF found THEN "output" ELSE "echo", of |-> w,
                   words |-> IF found THEN {shared.cwd} ELSE shared.held, text |-> <<0, 0>>]
  <2>1. Answer(shared.out, a)
    BY DEF WorkerLaunch
  <2>2. a.kind \in {"output", "echo"} /\ a.of = w
    OBVIOUS
  <2> HIDE DEF a
  <2>3. QED
    BY <2>1, <2>2
<1>2. Echo(w, shared) /\ worker[w].at = "execute" /\ wall' = wall
  BY DEF WorkerLaunch, At
<1>3. /\ DOMAIN worker' = Clients
      /\ \A v \in Clients :
           /\ DOMAIN worker'[v] = DOMAIN worker[v]
           /\ worker'[v].last = worker[v].last /\ worker'[v].raced = worker[v].raced
           /\ v # w => worker'[v].at = worker[v].at
      /\ worker'[w].at \in {"top", "closed"}
      /\ DOMAIN shared' = DOMAIN shared
      /\ shared'.out = shared.out /\ shared'.overlap = shared.overlap
  BY <1>2, Echoed
<1>4. /\ DOMAIN shown' = Clients /\ \A c \in Clients : IsList(shown'[c])
      /\ \A c \in Clients : \A i \in DOMAIN shown'[c] :
           \/ i \in DOMAIN shown[c] /\ shown'[c][i] = shown[c][i]
           \/ c = shared.out /\ shown'[c][i] = a
  BY <1>1, AnswerShown
<1>5. Shapes'
  BY <1>2, <1>3, <1>4 DEF Shapes
<1>6. WallsKept
  BY <1>1, <1>2, <1>3, <1>4 DEF WallsKept, Apart
<1>7. Routed'
  <2>1. SUFFICES ASSUME ~shared.overlap
                 PROVE  Routed'
    BY <1>3 DEF Routed
  <2>2. \A v \in Clients : Routes(v)' => Routes(v)
    BY <1>3 DEF Routes, Inside
  <2>3. shared.out = w
    BY <1>2, <2>1 DEF Routed, Routes, Inside
  <2>4. ASSUME NEW c \in Clients, NEW i \in DOMAIN shown'[c], shown'[c][i].kind = "output"
        PROVE  shown'[c][i].of = c
    BY <1>1, <1>4, <2>1, <2>3, <2>4 DEF Routed
  <2>5. QED
    BY <1>3, <2>1, <2>2, <2>4 DEF Routed
<1>8. QED
  BY <1>5, <1>6, <1>7, KeepsWalls

-----------------------------------------------------------------------------
(* The steps of a worker that do not *)

\* Reading a line, and the end of file.
LEMMA ReadInv ==
  ASSUME Inv, NEW w \in Clients, WorkerReadLine(w) \/ WorkerReadEof(w)
  PROVE  Inv'
<1> USE DEF Inv
<1>1. shown' = shown /\ shared' = shared /\ wall' = wall /\ worker[w].at = "read"
  BY DEF WorkerReadLine, WorkerReadEof, At, client_side
<1>2. PICK place \in {"line", "top"} :
        /\ DOMAIN worker' = Clients
        /\ \A v \in Clients :
             /\ DOMAIN worker'[v] = DOMAIN worker[v]
             /\ worker'[v].last = worker[v].last /\ worker'[v].raced = worker[v].raced
             /\ worker'[v].at = IF v = w THEN place ELSE worker[v].at
  <2>1. CASE WorkerReadLine(w)
    <3> DEFINE line == SubSeq(up[w], 1, LineLen(w))
    <3>1. worker' = [worker EXCEPT ![w].at = "line", ![w].line = line]
      BY <2>1 DEF WorkerReadLine
    <3> HIDE DEF line
    <3>2. QED
      BY <3>1 DEF Shapes
  <2>2. CASE WorkerReadEof(w)
    BY <2>2, GoesOn DEF WorkerReadEof
  <2>3. QED
    BY <2>1, <2>2
<1>3. Shapes'
  BY <1>1, <1>2 DEF Shapes
<1>4. WallsKept /\ RouteKept
  BY <1>1, <1>2 DEF WallsKept, Apart, RouteKept, Routes, Inside
<1>5. QED
  BY <1>3, <1>4, KeepsInv

\* A call of strtok().
LEMMA SplitInv ==
  ASSUME Inv, NEW w \in Clients, WorkerSplit(w)
  PROVE  Inv'
<1> USE DEF Inv
<1>1. shown' = shown /\ wall' = wall /\ worker[w].at = "split"
  BY DEF WorkerSplit, At, client_side
<1> DEFINE str == IF worker[w].args = <<>> THEN worker[w].line ELSE shared.scan
           more == Letters(str) # {}
           place == IF more THEN "split" ELSE "execute"
           args == IF more THEN Append(worker[w].args, Token(str)) ELSE worker[w].args
           scan == IF more THEN Rest(str) ELSE <<>>
<1>2. /\ place \in {"split", "execute"}
      /\ worker' = [worker EXCEPT ![w].at = place, ![w].args = args]
      /\ shared' = [shared EXCEPT !.scan = scan]
  <2>1. shared' = [shared EXCEPT !.scan = scan]
    BY DEF WorkerSplit
  <2>2. worker' = [worker EXCEPT ![w].at = place, ![w].args = args]
    <3> HIDE DEF scan
    <3>1. worker' = [worker EXCEPT ![w].at = IF more THEN "split" ELSE "execute",
               ![w].args = IF more THEN Append(@, Token(str)) ELSE @]
      BY DEF WorkerSplit
    <3> HIDE DEF more, str
    <3>2. QED
      BY <3>1 DEF Shapes
  <2>3. place \in {"split", "execute"}
    OBVIOUS
  <2>4. QED
    BY <2>1, <2>2, <2>3
<1> HIDE DEF place, args, scan
<1>3. /\ DOMAIN worker' = Clients
      /\ \A v \in Clients :
           /\ DOMAIN worker'[v] = DOMAIN worker[v]
           /\ worker'[v].last = worker[v].last /\ worker'[v].raced = worker[v].raced
           /\ worker'[v].at = IF v = w THEN place ELSE worker[v].at
  BY <1>2 DEF Shapes
<1>4. /\ DOMAIN shared' = DOMAIN shared
      /\ shared'.out = shared.out /\ shared'.overlap = shared.overlap
  BY <1>2 DEF Shapes
<1>5. Shapes'
  BY <1>1, <1>3, <1>4 DEF Shapes
<1>6. WallsKept /\ RouteKept
  BY <1>1, <1>2, <1>3, <1>4 DEF WallsKept, Apart, RouteKept, Routes, Inside
<1>7. QED
  BY <1>5, <1>6, KeepsInv

\* The end of cd, of put, and of a get without a name.
LEMMA EchoInv ==
  ASSUME Inv, NEW w \in Clients, WorkerCd(w) \/ WorkerPutClose(w) \/ WorkerGetNeedsName(w)
  PROVE  Inv'
<1> USE DEF Inv
<1>1. shown' = shown /\ wall' = wall /\ worker[w].at \in {"execute", "put"}
  BY DEF WorkerCd, WorkerPutClose, WorkerGetNeedsName, Executes, At, client_side
<1>2. PICK sh : /\ Echo(w, sh)
                /\ DOMAIN sh = DOMAIN shared
                /\ sh.out = shared.out /\ sh.overlap = shared.overlap
  <2>1. CASE WorkerCd(w)
    <3>1. PICK to : Echo(w, [shared EXCEPT !.cwd = to])
      BY <2>1 DEF WorkerCd
    <3> DEFINE sh == [shared EXCEPT !.cwd = to]
    <3>2. Echo(w, sh)
      BY <3>1
    <3>3. DOMAIN sh = DOMAIN shared /\ sh.out = shared.out /\ sh.overlap = shared.overlap
      BY DEF Shapes
    <3> HIDE DEF sh
    <3>4. QED
      BY <3>2, <3>3
  <2>2. CASE WorkerPutClose(w) \/ WorkerGetNeedsName(w)
    BY <2>2 DEF WorkerPutClose, WorkerGetNeedsName
  <2>3. QED
    BY <2>1, <2>2
<1>3. /\ DOMAIN worker' = Clients
      /\ \A v \in Clients :
           /\ DOMAIN worker'[v] = DOMAIN worker[v]
           /\ worker'[v].last = worker[v].last /\ worker'[v].raced = worker[v].raced
           /\ v # w => worker'[v].at = worker[v].at
      /\ worker'[w].at \in {"top", "closed"}
      /\ DOMAIN shared' = DOMAIN shared
      /\ shared'.out = shared.out /\ shared'.overlap = shared.overlap
  BY <1>2, Echoed
<1>4. Shapes'
  BY <1>1, <1>3 DEF Shapes
<1>5. WallsKept /\ RouteKept
  BY <1>1, <1>3 DEF WallsKept, Apart, RouteKept, Routes, Inside
<1>6. QED
  BY <1>4, <1>5, KeepsInv

\* The beginning of put and get, and the bytes of the file.
LEMMA TransferInv ==
  ASSUME Inv, NEW w \in Clients,
         WorkerPutOpen(w) \/ WorkerPutReads(w) \/ WorkerGetListens(w)
  PROVE  Inv'
<1> USE DEF Inv
<1>1. shown' = shown /\ wall' = wall /\ worker[w].at \in {"execute", "put"}
  BY DEF WorkerPutOpen, WorkerPutReads, WorkerGetListens, Executes, At, client_side
<1>2. PICK place \in {"put", "accept"} :
        /\ DOMAIN worker' = Clients
        /\ \A v \in Clients :
             /\ DOMAIN worker'[v] = DOMAIN worker[v]
             /\ worker'[v].last = worker[v].last /\ worker'[v].raced = worker[v].raced
             /\ worker'[v].at = IF v = w THEN place ELSE worker[v].at
  <2>1. CASE WorkerPutOpen(w) \/ WorkerGetListens(w)
    BY <2>1, GoesOn DEF WorkerPutOpen, WorkerGetListens
  <2>2. CASE WorkerPutReads(w)
    <3> DEFINE n == Min({PutLength(w) - Len(worker[w].got), Len(up[w])})
               bytes == SubSeq(up[w], 1, n)
    <3>1. worker' = [worker EXCEPT ![w].got = @ \o bytes] /\ worker[w].at = "put"
      BY <2>2 DEF WorkerPutReads, At
    <3> HIDE DEF bytes
    <3>2. QED
      BY <3>1 DEF Shapes
  <2>3. QED
    BY <2>1, <2>2
<1>3. /\ DOMAIN shared' = DOMAIN shared
      /\ shared'.out = shared.out /\ shared'.overlap = shared.overlap
  <2>1. shared' = shared \/ shared' = [shared EXCEPT !.port = TRUE]
    BY DEF WorkerPutOpen, WorkerPutReads, WorkerGetListens
  <2>2. QED
    BY <2>1 DEF Shapes
<1>4. Shapes'
  BY <1>1, <1>2, <1>3 DEF Shapes
<1>5. WallsKept /\ RouteKept
  BY <1>1, <1>2, <1>3 DEF WallsKept, Apart, RouteKept, Routes, Inside
<1>6. QED
  BY <1>4, <1>5, KeepsInv

-----------------------------------------------------------------------------
(* The theorems *)

\* Inv is inductive.
LEMMA NextInv ==
  ASSUME Inv, [Next]_vars
  PROVE  Inv'
<1>1. CASE UNCHANGED vars
  BY <1>1 DEF vars, Inv, Shapes, Routed, Routes, Inside, Locked, Seen, SeenBy
<1>2. ASSUME NEW c \in Clients, UserStep(c)
      PROVE  Inv'
  BY <1>2, UserInv
<1>3. ASSUME NEW w \in Clients, WorkerStep(w)
      PROVE  Inv'
  <2>1. CASE WorkerShowDies(w) \/ WorkerDies(w)
    BY <2>1, DiesInv DEF WorkerShowDies, WorkerDies
  <2>2. CASE WorkerTop(w)
    BY <2>2, TopInv
  <2>3. CASE WorkerShow(w)
    BY <2>3, ShowInv
  <2>4. CASE WorkerStamp(w)
    BY <2>4, StampInv
  <2>5. CASE WorkerReadLine(w) \/ WorkerReadEof(w)
    BY <2>5, ReadInv
  <2>6. CASE WorkerRedirect(w)
    BY <2>6, RedirectInv
  <2>7. CASE WorkerSplit(w)
    BY <2>7, SplitInv
  <2>8. CASE WorkerLaunch(w)
    BY <2>8, LaunchInv
  <2>9. CASE WorkerCd(w) \/ WorkerPutClose(w) \/ WorkerGetNeedsName(w)
    BY <2>9, EchoInv
  <2>10. CASE WorkerPutOpen(w) \/ WorkerPutReads(w) \/ WorkerGetListens(w)
    BY <2>10, TransferInv
  <2>11. CASE WorkerWallCopies(w)
    BY <2>11, WallCopiesInv
  <2>12. CASE WorkerWallCopied(w)
    BY <2>12, WallCopiedInv
  <2>13. CASE WorkerWallStamps(w)
    BY <2>13, WallStampsInv
  <2>14. QED
    BY <1>3, <2>1, <2>2, <2>3, <2>4, <2>5, <2>6, <2>7, <2>8, <2>9, <2>10, <2>11, <2>12,
       <2>13 DEF WorkerStep
<1>4. QED
  BY <1>1, <1>2, <1>3 DEF Next

\* The invariant holds in every behaviour.
THEOREM InvHolds == Spec => []Inv
BY InitInv, NextInv, PTL DEF Spec

\* Output of a command is shown to the client that sent it, as long as no two
\* workers were inside a command at once, for any number of clients.
THEOREM OwnOutputHolds == Spec => []OwnOutput
<1>1. Inv => OwnOutput
  BY DEF Inv, Routed, OwnOutput
<1>2. QED
  BY InvHolds, <1>1, PTL

\* A client whose worker was not raced sees wall messages whole, in order and
\* each once, for any number of clients and messages.
THEOREM WallsInOrderHolds == Spec => []WallsInOrder
<1>1. Inv => WallsInOrder
  BY DEF Inv, Seen, SeenBy, WallsInOrder
<1>2. QED
  BY InvHolds, <1>1, PTL

-----------------------------------------------------------------------------
(* Types: the invariant *)

Places == {"top", "show", "stamp", "read", "line", "split", "execute",
           "put", "half", "wall", "accept", "closed"}

\* What the users may still type.
Left == UNION {Suffixes(t[v]) : t \in Scripts, v \in Clients}

ClientsTyped ==
    /\ client \in [Clients -> [parent : {"prompt", "stuck", "gone"}, child : {"reads", "gone"},
                               todo : Left, fresh : BOOLEAN, exited : BOOLEAN]]
    /\ up \in [Clients -> Seq(Symbols)]

WorkersTyped ==
    \A c \in Clients :
        /\ worker[c].at \in Places /\ worker[c].done \in BOOLEAN
        /\ worker[c].line \in Seq(Symbols) /\ worker[c].args \in Seq(Seq(Symbols))
        /\ worker[c].got \in Seq(Symbols)

\* Bytes of a file are with the worker only while it puts the file, and no more
\* than were announced.
GotTyped ==
    \A c \in Clients :
        IF worker[c].at = "put"
        THEN Len(worker[c].args) > 2 /\ Len(worker[c].got) <= PutLength(c)
        ELSE worker[c].got = <<>>

SharedTyped ==
    /\ shared.out \in Clients \cup {None} /\ shared.held \subseteq Clients
    /\ shared.scan \in Seq(Symbols) /\ shared.cwd \in Seq(Symbols)

AnswersTyped ==
    /\ wall.text[2] <= wall.count
    /\ \A c \in Clients : \A i \in DOMAIN shown[c] : IsAnswer(shown[c][i])

Typed ==
    /\ ClientsTyped /\ WorkersTyped /\ GotTyped /\ SharedTyped /\ AnswersTyped
    /\ stored \in Seq(Symbols)

-----------------------------------------------------------------------------
(* What steps do to the worker, field by field *)

Became(w, at, line, args, got) ==
    /\ \A v \in Clients : worker'[v].done \in BOOLEAN
    /\ \A v \in Clients \ {w} :
         /\ worker'[v].at = worker[v].at /\ worker'[v].line = worker[v].line
         /\ worker'[v].args = worker[v].args /\ worker'[v].got = worker[v].got
    /\ worker'[w].at = at /\ worker'[w].line = line
    /\ worker'[w].args = args /\ worker'[w].got = got

\* What no step but the worker's reading of the stream touches.
SharedBut(scan, cwd) ==
    /\ shared'.scan = scan /\ shared'.cwd = cwd
    /\ shared'.out = shared.out /\ shared'.overlap = shared.overlap

\* Going on changes the place.
LEMMA GoesBecomes ==
  ASSUME Shapes, WorkersTyped, NEW w \in Clients, NEW p, Goes(w, p)
  PROVE  Became(w, p, worker[w].line, worker[w].args, worker[w].got)
BY DEF Goes, Shapes, WorkersTyped, Became

\* The echo ends the command.
LEMMA EchoBecomes ==
  ASSUME Shapes, WorkersTyped, NEW w \in Clients, NEW sh, Echo(w, sh),
         DOMAIN sh = DOMAIN shared, sh.out = shared.out, sh.overlap = shared.overlap
  PROVE  /\ \E p \in {"top", "closed"} : Became(w, p, <<>>, <<>>, <<>>)
         /\ SharedBut(sh.scan, sh.cwd) /\ shared'.held = sh.held \cup {w}
<1>1. shared' = [sh EXCEPT !.held = @ \cup {w}]
  BY DEF Echo
<1>2. DOMAIN sh = {"alive", "out", "scan", "held", "cwd", "port", "overlap"}
  BY DEF Shapes
<1>3. SharedBut(sh.scan, sh.cwd) /\ shared'.held = sh.held \cup {w}
  BY <1>1, <1>2 DEF SharedBut
<1>4. worker' = [worker EXCEPT ![w] =
        [worker[w] EXCEPT !.at = IF worker[w].done THEN "closed" ELSE "top",
                          !.args = <<>>, !.line = <<>>, !.got = <<>>]]
  BY DEF Echo
<1>5. Became(w, IF worker[w].done THEN "closed" ELSE "top", <<>>, <<>>, <<>>)
  BY <1>4 DEF Shapes, WorkersTyped, Became
<1>6. QED
  BY <1>3, <1>5

\* A worker that did not stop and holds no bytes, or as many as it may, is typed.
LEMMA BecameTyped ==
  ASSUME WorkersTyped, GotTyped, NEW w \in Clients, NEW at \in Places,
         NEW line \in Seq(Symbols), NEW args \in Seq(Seq(Symbols)), NEW got \in Seq(Symbols),
         Became(w, at, line, args, got),
         IF at = "put" THEN Len(args) > 2 /\ Len(got) <= PutLength(w)' ELSE got = <<>>
  PROVE  WorkersTyped' /\ GotTyped'
<1>1. WorkersTyped'
  BY DEF WorkersTyped, Became
<1>2. ASSUME NEW v \in Clients, v # w
      PROVE  PutLength(v)' = PutLength(v)
  BY <1>2 DEF Became, PutLength, Arg
<1>3. GotTyped'
  BY <1>2 DEF GotTyped, Became
<1>4. QED
  BY <1>1, <1>3

\* The worker looks at the wall message.
LEMMA TopBecomes ==
  ASSUME Shapes, WorkersTyped, NEW w \in Clients, WorkerTop(w)
  PROVE  \E p \in {"show", "read"} :
           Became(w, p, worker[w].line, worker[w].args, worker[w].got)
<1>1. worker' = [worker EXCEPT ![w] =
           [worker[w] EXCEPT !.at = IF wall.stamp > worker[w].last THEN "show" ELSE "read",
                             !.raced = @ \/ wall.lock # None]]
  BY DEF WorkerTop
<1>2. Became(w, IF wall.stamp > worker[w].last THEN "show" ELSE "read",
             worker[w].line, worker[w].args, worker[w].got)
  BY <1>1 DEF Shapes, WorkersTyped, Became
<1>3. QED
  BY <1>2

\* The worker takes the time.
LEMMA StampBecomes ==
  ASSUME Shapes, WorkersTyped, NEW w \in Clients, WorkerStamp(w)
  PROVE  Became(w, "read", worker[w].line, worker[w].args, worker[w].got)
<1>1. PICK t : worker' = [worker EXCEPT ![w].at = "read", ![w].last = t]
  BY DEF WorkerStamp
<1>2. QED
  BY <1>1 DEF Shapes, WorkersTyped, Became

\* The worker takes a line from the stream.
LEMMA ReadLineBecomes ==
  ASSUME Shapes, WorkersTyped, NEW w \in Clients, WorkerReadLine(w)
  PROVE  Became(w, "line", SubSeq(up[w], 1, LineLen(w)), worker[w].args, worker[w].got)
<1> DEFINE line == SubSeq(up[w], 1, LineLen(w))
<1>1. worker' = [worker EXCEPT ![w].at = "line", ![w].line = line]
  BY DEF WorkerReadLine
<1> HIDE DEF line
<1>2. Became(w, "line", line, worker[w].args, worker[w].got)
  BY <1>1 DEF Shapes, WorkersTyped, Became
<1>3. QED
  BY <1>2 DEF line

\* The worker redirects descriptor 1.
LEMMA RedirectBecomes ==
  ASSUME Shapes, WorkersTyped, NEW w \in Clients, WorkerRedirect(w)
  PROVE  /\ Became(w, "split", worker[w].line, <<>>, worker[w].got)
         /\ shared'.scan = shared.scan /\ shared'.cwd = shared.cwd
         /\ shared'.held = shared.held /\ shared'.out = w
         /\ shared'.overlap = (shared.overlap \/ \E v \in Clients \ {w} : Inside(v))
<1> DEFINE done == worker[w].line \in {<<"exit">>, <<"shutdown">>}
           others == \E v \in Clients \ {w} : Inside(v)
<1>1. /\ worker' = [worker EXCEPT ![w].at = "split", ![w].args = <<>>, ![w].done = done]
      /\ done \in BOOLEAN
  BY DEF WorkerRedirect
<1>2. shared' = [shared EXCEPT !.out = w, !.overlap = @ \/ others]
  BY DEF WorkerRedirect
<1> HIDE DEF done, others
<1>3. Became(w, "split", worker[w].line, <<>>, worker[w].got)
  BY <1>1 DEF Shapes, WorkersTyped, Became
<1>4. /\ shared'.scan = shared.scan /\ shared'.cwd = shared.cwd
      /\ shared'.held = shared.held /\ shared'.out = w
      /\ shared'.overlap = (shared.overlap \/ others)
  BY <1>2 DEF Shapes
<1>5. QED
  BY <1>3, <1>4 DEF others

\* The string the next call of strtok() goes on with.
Scanned(w) == IF worker[w].args = <<>> THEN worker[w].line ELSE shared.scan

\* The worker calls strtok().
LEMMA SplitBecomes ==
  ASSUME Shapes, WorkersTyped, NEW w \in Clients, WorkerSplit(w)
  PROVE  /\ shared'.held = shared.held
         /\ \/ /\ Letters(Scanned(w)) # {}
               /\ Became(w, "split", worker[w].line,
                         Append(worker[w].args, Token(Scanned(w))), worker[w].got)
               /\ SharedBut(Rest(Scanned(w)), shared.cwd)
            \/ /\ Letters(Scanned(w)) = {}
               /\ Became(w, "execute", worker[w].line, worker[w].args, worker[w].got)
               /\ SharedBut(<<>>, shared.cwd)
<1> DEFINE more == Letters(Scanned(w)) # {}
           token == Token(Scanned(w))
           rest == Rest(Scanned(w))
<1>1. /\ worker' = [worker EXCEPT ![w].at = IF more THEN "split" ELSE "execute",
                                  ![w].args = IF more THEN Append(@, token) ELSE @]
      /\ shared' = [shared EXCEPT !.scan = IF more THEN rest ELSE <<>>]
  BY DEF WorkerSplit, Scanned
<1> HIDE DEF more, token, rest
<1>2. CASE more
  <2>1. shared' = [shared EXCEPT !.scan = rest]
    BY <1>1, <1>2
  <2>2. SharedBut(rest, shared.cwd) /\ shared'.held = shared.held
    BY <2>1 DEF Shapes, SharedBut
  <2>3. worker' = [worker EXCEPT ![w].at = "split", ![w].args = Append(@, token)]
    BY <1>1, <1>2
  <2>4. Became(w, "split", worker[w].line, Append(worker[w].args, token), worker[w].got)
    BY <2>3 DEF Shapes, WorkersTyped, Became
  <2>5. QED
    BY <1>2, <2>2, <2>4 DEF more, token, rest
<1>3. CASE ~more
  <2>1. shared' = [shared EXCEPT !.scan = <<>>]
    BY <1>1, <1>3
  <2>2. SharedBut(<<>>, shared.cwd) /\ shared'.held = shared.held
    BY <2>1 DEF Shapes, SharedBut
  <2>3. worker' = [worker EXCEPT ![w].at = "execute", ![w].args = @]
    BY <1>1, <1>3
  <2>4. Became(w, "execute", worker[w].line, worker[w].args, worker[w].got)
    BY <2>3 DEF Shapes, WorkersTyped, Became
  <2>5. QED
    BY <1>3, <2>2, <2>4 DEF more
<1>4. QED
  BY <1>2, <1>3

\* cd ends, in the same directory or the one that was named.
LEMMA CdBecomes ==
  ASSUME Shapes, WorkersTyped, NEW w \in Clients, WorkerCd(w)
  PROVE  /\ \E p \in {"top", "closed"} : Became(w, p, <<>>, <<>>, <<>>)
         /\ \E to \in {shared.cwd} \cup (IF Argc(w) > 1 THEN {Arg(w, 2)} ELSE {}) :
              SharedBut(shared.scan, to)
         /\ shared'.held = shared.held \cup {w}
<1>1. PICK to \in {shared.cwd} \cup (IF Argc(w) > 1 THEN {Arg(w, 2)} ELSE {}) :
        Echo(w, [shared EXCEPT !.cwd = to])
  BY DEF WorkerCd
<1> DEFINE sh == [shared EXCEPT !.cwd = to]
<1>2. Echo(w, sh)
  BY <1>1
<1>3. /\ DOMAIN sh = DOMAIN shared /\ sh.out = shared.out /\ sh.overlap = shared.overlap
      /\ sh.scan = shared.scan /\ sh.cwd = to /\ sh.held = shared.held
  BY DEF Shapes
<1> HIDE DEF sh
<1>4. /\ \E p \in {"top", "closed"} : Became(w, p, <<>>, <<>>, <<>>)
      /\ SharedBut(shared.scan, to) /\ shared'.held = shared.held \cup {w}
  BY <1>2, <1>3, EchoBecomes
<1>5. QED
  BY <1>4

\* Bytes of the file are read.
LEMMA PutReadsBecomes ==
  ASSUME Shapes, WorkersTyped, NEW w \in Clients, NEW bytes,
         worker' = [worker EXCEPT ![w].got = @ \o bytes]
  PROVE  Became(w, worker[w].at, worker[w].line, worker[w].args, worker[w].got \o bytes)
BY DEF Shapes, WorkersTyped, Became

\* The first half of the message is written.
LEMMA WallCopiesBecomes ==
  ASSUME Shapes, WorkersTyped, NEW w \in Clients, WorkerWallCopies(w)
  PROVE  Became(w, "half", worker[w].line, worker[w].args, worker[w].got)
<1>1. worker' = [v \in Clients |->
         [worker[v] EXCEPT !.at = IF v = w THEN "half" ELSE @,
                           !.raced = @ \/ worker[v].at \in {"show", "stamp"}]]
  BY DEF WorkerWallCopies
<1>2. QED
  BY <1>1 DEF Shapes, WorkersTyped, Became

-----------------------------------------------------------------------------
(* Least positions, tokens and lines *)

\* The order of the natural numbers, as a set of pairs.
Below == {p \in Nat \X Nat : p[1] < p[2]}

\* Min is the least element of a set of natural numbers.
LEMMA MinOf ==
  ASSUME NEW S, S \subseteq Nat, S # {}
  PROVE  Min(S) \in S /\ \A x \in S : Min(S) <= x
<1>1. IsWellFoundedOn(Below, Nat)
  BY NatLessThanWellFounded DEF OpToRel, Below
<1>2. PICK m \in S : \A x \in S : <<x, m>> \notin Below
  BY <1>1, WFMin
<1>3. ASSUME NEW x \in S
      PROVE  m <= x
  <2>1. x \in Nat /\ m \in Nat
    OBVIOUS
  <2>2. ~(x < m)
    BY <1>2, <2>1 DEF Below
  <2>3. QED
    BY <2>1, <2>2
<1>4. QED
  BY <1>3 DEF Min

\* There is one least element.
LEMMA MinIs ==
  ASSUME NEW S, S \subseteq Nat, NEW m \in S, \A x \in S : m <= x
  PROVE  Min(S) = m
<1>1. Min(S) \in S /\ Min(S) <= m
  BY MinOf
<1>2. Min(S) \in Nat /\ m \in Nat /\ m <= Min(S)
  BY <1>1
<1>3. QED
  BY <1>1, <1>2

\* A token is a part of the string that begins with its first letter.
LEMMA TokenFacts ==
  ASSUME NEW s \in Seq(Symbols), Letters(s) # {}
  PROVE  /\ Min(Letters(s)) \in Letters(s) /\ \A i \in Letters(s) : Min(Letters(s)) <= i
         /\ TokenEnd(s) \in Min(Letters(s)) + 1 .. Len(s) + 1
         /\ Token(s) \in Seq(Symbols) /\ Len(Token(s)) = TokenEnd(s) - Min(Letters(s))
         /\ Token(s)[1] = s[Min(Letters(s))]
         /\ Rest(s) \in Seq(Symbols)
<1> DEFINE m == Min(Letters(s))
           ends == {i \in m + 1 .. Len(s) + 1 : i \notin Letters(s)}
<1>1. Len(s) \in Nat /\ DOMAIN s = 1..Len(s) /\ \A i \in 1..Len(s) : s[i] \in Symbols
  BY LenProperties, ElementOfSeq
<1>2. m \in Letters(s) /\ \A i \in Letters(s) : m <= i
  <2>1. Letters(s) \subseteq Nat
    BY <1>1 DEF Letters
  <2>2. QED
    BY <2>1, MinOf
<1>3. m \in 1..Len(s)
  BY <1>1, <1>2 DEF Letters
<1> HIDE DEF m
<1>4. Len(s) + 1 \in ends
  BY <1>1, <1>3 DEF Letters
<1>5. Min(ends) \in ends
  <2>1. ends \subseteq Nat
    BY <1>1, <1>3
  <2> HIDE DEF ends
  <2>2. QED
    BY <1>4, <2>1, MinOf
<1>6. TokenEnd(s) = Min(ends)
  BY DEF TokenEnd, m
<1>7. TokenEnd(s) \in m + 1 .. Len(s) + 1
  BY <1>5, <1>6
<1>8. /\ Token(s) \in Seq(Symbols) /\ Len(Token(s)) = TokenEnd(s) - m
      /\ Token(s)[1] = s[m]
  <2>1. Token(s) = SubSeq(s, m, TokenEnd(s) - 1)
    BY DEF Token, m
  <2>2. \A i \in m .. TokenEnd(s) - 1 : s[i] \in Symbols
    BY <1>1, <1>3, <1>7
  <2> DEFINE e == TokenEnd(s) - 1
  <2>3. e \in Int /\ m \in Int /\ m <= e
    BY <1>1, <1>3, <1>7
  <2> HIDE DEF e
  <2>4. /\ SubSeq(s, m, e) \in Seq(Symbols) /\ Len(SubSeq(s, m, e)) = e - m + 1
        /\ \A i \in 1 .. e - m + 1 : SubSeq(s, m, e)[i] = s[m + i - 1]
    BY <2>2, <2>3, SubSeqProperties DEF e
  <2>5. SubSeq(s, m, e)[1] = s[m]
    BY <2>3, <2>4
  <2>6. QED
    BY <1>1, <1>3, <1>7, <2>1, <2>4, <2>5 DEF e
<1>9. Rest(s) \in Seq(Symbols)
  <2>1. \A i \in TokenEnd(s) + 1 .. Len(s) : s[i] \in Symbols
    BY <1>1, <1>3, <1>7
  <2>2. TokenEnd(s) + 1 \in Int /\ Len(s) \in Int
    BY <1>1, <1>3, <1>7
  <2>3. QED
    BY <2>1, <2>2, SubSeqProperties DEF Rest
<1>10. QED
  BY <1>2, <1>7, <1>8, <1>9 DEF m

\* What is left of a sequence begins with one of its elements.
LEMMA SuffixFacts ==
  ASSUME NEW S, NEW s \in Seq(S), NEW x \in Suffixes(s), x # <<>>
  PROVE  Tail(x) \in Suffixes(s) /\ \E l \in DOMAIN s : Head(x) = s[l]
<1>1. PICK l \in 1..Len(s) : x = SubSeq(s, l, Len(s))
  BY DEF Suffixes
<1>2. Len(s) \in Nat /\ DOMAIN s = 1..Len(s) /\ l \in DOMAIN s
  BY LenProperties
<1>3. Head(x) = s[l] /\ Tail(x) = SubSeq(s, l + 1, Len(s))
  BY <1>1, <1>2, HeadTailOfSubSeq
<1>4. CASE l = Len(s)
  BY <1>2, <1>3, <1>4, SubSeqEmpty DEF Suffixes
<1>5. CASE l < Len(s)
  <2>1. l + 1 \in 1..Len(s)
    BY <1>2, <1>5
  <2>2. SubSeq(s, l + 1, Len(s)) \in Suffixes(s)
    BY <2>1 DEF Suffixes
  <2>3. QED
    BY <1>2, <1>3, <2>2
<1>6. QED
  BY <1>2, <1>3, <1>4, <1>5

\* A line a user types, and what is left after it.
LEMMA TypedLine ==
  ASSUME ClientsTyped, NEW c \in Clients, NEW a, Types(c, a)
  PROVE  /\ a \in Seq(Words) /\ Len(a) \in Nat /\ Len(a) > 0
         /\ a[1] \in {"get", "put"} => Len(a) > 1
         /\ Tail(client[c].todo) \in Left
<1>1. client[c].todo \in Left /\ client[c].todo # <<>> /\ a = Head(client[c].todo)
  BY DEF ClientsTyped, Types
<1>2. PICK t \in Scripts, v \in Clients : client[c].todo \in Suffixes(t[v])
  BY <1>1 DEF Left
<1>3. t[v] \in Seq(Seq(Words))
  BY SessionAssumption DEF SessionAssumption
<1>4. PICK l \in DOMAIN t[v] : a = t[v][l]
  BY <1>1, <1>2, <1>3, SuffixFacts
<1>5. Tail(client[c].todo) \in Left
  BY <1>1, <1>2, <1>3, SuffixFacts DEF Left
<1>6. a # <<>> /\ (a[1] \in {"get", "put"} => Len(a) > 1)
  BY <1>4, SessionAssumption DEF SessionAssumption
<1>7. a \in Seq(Words)
  BY <1>3, <1>4, LenProperties, ElementOfSeq
<1>8. QED
  BY <1>5, <1>6, <1>7, LenProperties, EmptySeq

\* A word is neither a blank nor a newline.
LEMMA WordFacts ==
  /\ \A x \in Words : x \in Symbols /\ x # SP /\ x # NL
  /\ {"get", "put", "exit"} \subseteq Words /\ SP # NL /\ SP # "put" /\ NL # "put"
  /\ SP \in Symbols /\ NL \in Symbols
<1>1. SP # NL /\ SP # "put" /\ NL # "put"
  BY DEF SP, NL
<1>2. QED
  BY <1>1, SessionAssumption DEF SessionAssumption, Symbols

\* What the client sends of a command: it begins with the command and holds no
\* newline.
LEMMA LaunchText ==
  ASSUME NEW a \in Seq(Words), Len(a) > 0
  PROVE  LET text == [k \in 1..2 * Len(a) |-> IF k % 2 = 1 THEN a[(k + 1) \div 2] ELSE SP]
         IN /\ text \in Seq(Symbols) /\ Len(text) = 2 * Len(a) /\ text[1] = a[1]
            /\ \A k \in 1..Len(text) : text[k] # NL
<1> DEFINE n == 2 * Len(a)
           text == [k \in 1..n |-> IF k % 2 = 1 THEN a[(k + 1) \div 2] ELSE SP]
<1>1. Len(a) \in Nat /\ n \in Nat /\ 1 \in 1..n /\ \A i \in 1..Len(a) : a[i] \in Words
  BY LenProperties, ElementOfSeq
<1>2. ASSUME NEW k \in 1..n
      PROVE  text[k] \in Symbols /\ text[k] # NL
  <2>1. CASE k % 2 = 1
    <3>1. (k + 1) \div 2 \in 1..Len(a)
      BY <1>1
    <3>2. a[(k + 1) \div 2] \in Words /\ text[k] = a[(k + 1) \div 2]
      BY <1>1, <2>1, <3>1
    <3>3. QED
      BY <3>2, WordFacts
  <2>2. CASE k % 2 # 1
    <3>1. text[k] = SP
      BY <2>2
    <3>2. QED
      BY <3>1, WordFacts
  <2>3. QED
    BY <2>1, <2>2
<1>3. text[1] = a[1]
  BY <1>1
<1>4. text \in [1..n -> Symbols]
  BY <1>2
<1>5. text \in Seq(Symbols) /\ Len(text) = n
  <2> HIDE DEF text, n
  <2>1. QED
    BY <1>1, <1>4
<1>6. QED
  BY <1>2, <1>3, <1>5

\* A line ends with the first newline; without one, it is all or nothing.
LEMMA LineLenFacts ==
  ASSUME NEW w \in Clients, up[w] \in Seq(Symbols)
  PROVE  /\ LineLen(w) \in 0..Len(up[w])
         /\ \/ /\ LineLen(w) \in DOMAIN up[w] /\ up[w][LineLen(w)] = NL
               /\ \A i \in DOMAIN up[w] : up[w][i] = NL => LineLen(w) <= i
            \/ (\A i \in DOMAIN up[w] : up[w][i] # NL) /\ LineLen(w) \in {0, Len(up[w])}
<1> DEFINE newlines == {i \in DOMAIN up[w] : up[w][i] = NL}
<1>1. Len(up[w]) \in Nat /\ DOMAIN up[w] = 1..Len(up[w])
  BY LenProperties
<1>2. LineLen(w) = IF newlines # {} THEN Min(newlines)
                   ELSE IF Closed(w) THEN Len(up[w]) ELSE 0
  BY DEF LineLen
<1>3. CASE newlines # {}
  <2>1. newlines \subseteq Nat
    BY <1>1
  <2> HIDE DEF newlines
  <2>2. LineLen(w) \in newlines /\ \A i \in newlines : LineLen(w) <= i
    BY <1>2, <1>3, <2>1, MinOf
  <2>3. QED
    BY <1>1, <2>2 DEF newlines
<1>4. CASE newlines = {}
  BY <1>1, <1>2, <1>4
<1>5. QED
  BY <1>3, <1>4

\* What the client sends of put: the header and the file.
LEMMA PutText ==
  ASSUME NEW c \in Clients, NEW name \in Words
  PROVE  LET file == FileOf[c]
             text == <<"put", SP, name, SP, Size[Len(file)], NL>> \o file
         IN /\ text \in Seq(Symbols) /\ Len(file) \in Nat /\ Len(text) = 6 + Len(file)
            /\ text[1] = "put" /\ text[2] = SP /\ text[3] = name /\ text[4] = SP
            /\ text[5] = Size[Len(file)] /\ text[6] = NL
            /\ Size[Len(file)] \in Words
            /\ \A k \in 1..Len(file) : text[6 + k] = file[k]
<1> DEFINE file == FileOf[c]
           size == Size[Len(file)]
           header == <<"put", SP, name, SP, size, NL>>
           text == header \o file
<1>1. size \in Words /\ file \in Seq(Symbols)
  BY SessionAssumption DEF SessionAssumption, Sizes
<1> HIDE DEF size, file
<1>2. header \in Seq(Symbols) /\ Len(header) = 6
  BY <1>1, WordFacts
<1>3. /\ header[1] = "put" /\ header[2] = SP /\ header[3] = name /\ header[4] = SP
      /\ header[5] = size /\ header[6] = NL
  OBVIOUS
<1> HIDE DEF header
<1>4. /\ text \in Seq(Symbols) /\ Len(text) = 6 + Len(file) /\ Len(file) \in Nat
      /\ \A i \in 1..6 + Len(file) : text[i] = IF i <= 6 THEN header[i] ELSE file[i - 6]
  <2>1. Len(file) \in Nat
    BY <1>1, LenProperties
  <2>2. /\ header \o file \in Seq(Symbols) /\ Len(header \o file) = Len(header) + Len(file)
        /\ \A i \in 1..Len(header) + Len(file) :
             (header \o file)[i] = IF i <= Len(header) THEN header[i] ELSE file[i - Len(header)]
    BY <1>1, <1>2, ConcatProperties
  <2>3. QED
    BY <1>2, <2>1, <2>2
<1>5. \A k \in 1..Len(file) : 6 + k \in 1..6 + Len(file) /\ ~(6 + k <= 6) /\ (6 + k) - 6 = k
  BY <1>4
<1>6. \A k \in 1..Len(file) : text[6 + k] = file[k]
  BY <1>4, <1>5
<1>7. \A i \in 1..6 : text[i] = header[i]
  BY <1>4
<1> HIDE DEF text
<1>8. /\ text \in Seq(Symbols) /\ Len(file) \in Nat /\ Len(text) = 6 + Len(file)
      /\ text[1] = "put" /\ text[2] = SP /\ text[3] = name /\ text[4] = SP
      /\ text[5] = size /\ text[6] = NL
      /\ \A k \in 1..Len(file) : text[6 + k] = file[k]
  BY <1>3, <1>4, <1>6, <1>7
<1>9. QED
  BY <1>1, <1>8 DEF text, header, size, file

-----------------------------------------------------------------------------
(* Types: every step keeps them *)

\* The state the users start in is typed.
LEMMA InitTyped == Init => Typed
<1> SUFFICES ASSUME Init
             PROVE  Typed
  OBVIOUS
<1>1. PICK todo \in Scripts :
         client = [c \in Clients |->
           [parent |-> "prompt", child |-> "reads", todo |-> todo[c], fresh |-> TRUE,
            exited |-> FALSE]]
  BY DEF Init
<1>2. ASSUME NEW c \in Clients
      PROVE  todo[c] \in Left
  <2>1. todo[c] \in Seq(Seq(Words))
    BY SessionAssumption DEF SessionAssumption
  <2>2. todo[c] \in Suffixes(todo[c])
    <3>1. CASE todo[c] = <<>>
      BY <3>1 DEF Suffixes
    <3>2. CASE todo[c] # <<>>
      <4>1. Len(todo[c]) \in Nat \ {0} /\ SubSeq(todo[c], 1, Len(todo[c])) = todo[c]
        BY <2>1, <3>2, EmptySeq, SubSeqFull
      <4>2. 1 \in 1..Len(todo[c])
        BY <4>1
      <4>3. QED
        BY <4>1, <4>2 DEF Suffixes
    <3>3. QED
      BY <3>1, <3>2
  <2>3. QED
    BY <2>2 DEF Left
<1>3. ClientsTyped
  <2>1. up = [c \in Clients |-> <<>>] /\ <<>> \in Seq(Symbols)
    BY DEF Init
  <2>2. QED
    BY <1>1, <1>2, <2>1 DEF ClientsTyped
<1>4. \A c \in Clients :
        worker[c] = [at |-> "top", done |-> FALSE, line |-> <<>>, args |-> <<>>,
                     got |-> <<>>, last |-> 0, raced |-> FALSE]
  BY DEF Init
<1>5. WorkersTyped /\ GotTyped
  <2>1. <<>> \in Seq(Symbols) /\ <<>> \in Seq(Seq(Symbols))
    OBVIOUS
  <2>2. \A c \in Clients :
          /\ worker[c].at = "top" /\ worker[c].done = FALSE /\ worker[c].line = <<>>
          /\ worker[c].args = <<>> /\ worker[c].got = <<>>
    BY <1>4
  <2>3. QED
    BY <2>1, <2>2 DEF WorkersTyped, GotTyped, Places
<1>6. SharedTyped /\ stored \in Seq(Symbols)
  BY DEF Init, SharedTyped
<1>7. AnswersTyped
  BY DEF Init, AnswersTyped
<1>8. QED
  BY <1>3, <1>5, <1>6, <1>7 DEF Typed

\* What is sent joins the stream.
LEMMA SendTyped ==
  ASSUME ClientsTyped, NEW c \in Clients, NEW symbols \in Seq(Symbols), Send(c, symbols)
  PROVE  up' \in [Clients -> Seq(Symbols)]
<1>1. up[c] \o symbols \in Seq(Symbols) /\ up[c] \in Seq(Symbols)
  BY ConcatProperties DEF ClientsTyped
<1>2. QED
  BY <1>1 DEF Send, ClientsTyped

\* A user's step.
LEMMA UserTyped ==
  ASSUME Shapes, Typed, NEW c \in Clients, UserStep(c)
  PROVE  Typed'
<1> USE DEF Typed
<1>1. shown' = shown /\ worker' = worker /\ wall' = wall /\ stored' = stored
  BY DEF UserStep, ClientLaunch, ClientPut, ClientPutFaults, ClientGet, ClientExit, ClientKilled
<1>2. shared' = shared \/ \E b : shared' = [shared EXCEPT !.alive = b]
  BY DEF UserStep, ClientLaunch, ClientPut, ClientPutFaults, ClientGet, ClientExit, ClientKilled
<1>3. SharedTyped'
  BY <1>2 DEF Shapes, SharedTyped
<1>4. WorkersTyped' /\ GotTyped'
  BY <1>1 DEF WorkersTyped, GotTyped, PutLength, Arg
<1>5. AnswersTyped'
  BY <1>1 DEF AnswersTyped, IsAnswer
<1>6. ClientsTyped'
  <2>1. CASE ClientKilled(c)
    BY ZenonT(40), <2>1 DEF ClientKilled, ClientsTyped
  <2>2. ASSUME NEW a, Types(c, a),
               ClientLaunch(c, a) \/ ClientPut(c, a) \/ ClientPutFaults(c, a)
                 \/ ClientGet(c, a) \/ ClientExit(c, a)
        PROVE  ClientsTyped'
    <3>1. /\ a \in Seq(Words) /\ Len(a) \in Nat /\ Len(a) > 0
          /\ a[1] \in {"get", "put"} => Len(a) > 1
          /\ Tail(client[c].todo) \in Left
      BY <2>2, TypedLine
    <3>2. a[1] \in {"get", "put"} => a[2] \in Words
      BY <3>1, ElementOfSeq
    <3>3. CASE ClientLaunch(c, a)
      <4> DEFINE text == [k \in 1..2 * Len(a) |-> IF k % 2 = 1 THEN a[(k + 1) \div 2] ELSE SP]
      <4>1. text \in Seq(Symbols) /\ Send(c, text)
        BY <3>1, <3>3, LaunchText DEF ClientLaunch
      <4> HIDE DEF text
      <4>2. up' \in [Clients -> Seq(Symbols)]
        BY <4>1, SendTyped
      <4>3. client' = [client EXCEPT ![c].todo = Tail(@), ![c].fresh = FALSE]
        BY <3>3 DEF ClientLaunch
      <4>4. QED
        BY ZenonT(40), <3>1, <4>2, <4>3 DEF ClientsTyped
    <3>4. CASE ClientPut(c, a)
      <4> DEFINE text == <<"put", SP, a[2], SP, Size[Len(FileOf[c])], NL>> \o FileOf[c]
                 fresh == client[c].fresh \/ Last(<<NL>> \o FileOf[c]) = NL
      <4>1. text \in Seq(Symbols) /\ Send(c, text)
        BY <3>2, <3>4, PutText DEF ClientPut
      <4> HIDE DEF text
      <4>2. up' \in [Clients -> Seq(Symbols)]
        BY <4>1, SendTyped
      <4>3. /\ client' = [client EXCEPT ![c].todo = Tail(@), ![c].fresh = fresh]
            /\ fresh \in BOOLEAN
        BY <3>4 DEF ClientPut, ClientsTyped
      <4> HIDE DEF fresh
      <4>4. QED
        BY ZenonT(40), <3>1, <4>2, <4>3 DEF ClientsTyped
    <3>5. CASE ClientPutFaults(c, a)
      BY <3>5 DEF ClientPutFaults, ClientsTyped
    <3>6. CASE ClientGet(c, a)
      <4>1. <<"get", a[2]>> \in Seq(Symbols) /\ Send(c, <<"get", a[2]>>)
        BY <3>2, <3>6, WordFacts DEF ClientGet
      <4>2. up' \in [Clients -> Seq(Symbols)]
        BY <4>1, SendTyped
      <4>3. QED
        <5> DEFINE place == IF shared.alive /\ shared.port THEN "stuck" ELSE "gone"
        <5>1. /\ client' = [client EXCEPT ![c].parent = place, ![c].fresh = FALSE]
              /\ place \in {"stuck", "gone"}
          BY <3>6 DEF ClientGet
        <5> HIDE DEF place
        <5>2. QED
          BY ZenonT(40), <4>2, <5>1 DEF ClientsTyped
    <3>7. CASE ClientExit(c, a)
      <4>1. <<"exit">> \in Seq(Symbols) /\ Send(c, <<"exit">>)
        BY <3>7, WordFacts DEF ClientExit
      <4>2. up' \in [Clients -> Seq(Symbols)]
        BY <4>1, SendTyped
      <4>3. QED
        <5> DEFINE R == [parent : {"prompt", "stuck", "gone"}, child : {"reads", "gone"},
                         todo : Left, fresh : BOOLEAN, exited : BOOLEAN]
                   r == [client[c] EXCEPT !.parent = "gone", !.child = "gone", !.exited = TRUE]
        <5>1. client \in [Clients -> R] /\ client' = [client EXCEPT ![c] = r]
          BY <3>7 DEF ClientExit, ClientsTyped
        <5>2. client[c] \in R
          BY <5>1
        <5>3. r \in R
          BY <5>2
        <5> HIDE DEF r, R
        <5>4. client' \in [Clients -> R]
          BY <5>1, <5>3
        <5>5. QED
          BY <4>2, <5>4 DEF ClientsTyped, R
    <3>8. QED
      BY <2>2, <3>3, <3>4, <3>5, <3>6, <3>7
  <2>3. QED
    BY <2>1, <2>2 DEF UserStep, ClientLaunch, ClientPut, ClientPutFaults, ClientGet, ClientExit
<1>7. QED
  BY <1>1, <1>3, <1>4, <1>5, <1>6

\* Sizes are natural numbers, and a word stands for one of them at most.
LEMMA LengthFacts ==
  /\ Sizes \subseteq Nat
  /\ \A c \in Clients : FileOf[c] \in Seq(Symbols) /\ Len(FileOf[c]) \in Sizes
  /\ \A n, k \in Sizes : Size[n] = Size[k] => n = k
<1>1. \A c \in Clients : FileOf[c] \in Seq(Symbols)
  BY SessionAssumption DEF SessionAssumption
<1>2. \A c \in Clients : Len(FileOf[c]) \in Nat
  BY <1>1, LenProperties
<1>3. \A n \in Sizes : \A k \in Sizes \ {n} : Size[n] # Size[k]
  BY SessionAssumption DEF SessionAssumption
<1>4. QED
  BY <1>1, <1>2, <1>3 DEF Sizes

\* A step that shows nothing and leaves the text keeps the answers typed.
LEMMA AnswersKept ==
  ASSUME AnswersTyped, shown' = shown, wall'.text = wall.text, wall'.count = wall.count
  PROVE  AnswersTyped'
BY DEF AnswersTyped, IsAnswer

\* An answer that is shown is one.
LEMMA AnswerTyped ==
  ASSUME Shapes, AnswersTyped, NEW d, NEW a, Answer(d, a), IsAnswer(a), wall' = wall
  PROVE  AnswersTyped'
<1>1. \A c \in Clients : \A i \in DOMAIN shown'[c] :
        \/ i \in DOMAIN shown[c] /\ shown'[c][i] = shown[c][i]
        \/ shown'[c][i] = a
  BY AnswerShown
<1>2. QED
  BY <1>1 DEF AnswersTyped, IsAnswer

\* Steps that only take the worker to another place.
LEMMA WalkTyped ==
  ASSUME Shapes, Typed, NEW w \in Clients,
         \/ WorkerTop(w) \/ WorkerStamp(w) \/ WorkerReadEof(w) \/ WorkerGetListens(w)
         \/ WorkerWallCopied(w) \/ WorkerWallCopies(w)
  PROVE  Typed'
<1> USE DEF Typed
<1>1. client' = client /\ up' = up /\ shown' = shown /\ stored' = stored
  BY DEF WorkerTop, WorkerStamp, WorkerReadEof, WorkerGetListens, WorkerWallCopied,
         WorkerWallCopies, client_side
<1>2. worker[w].at \in {"top", "stamp", "read", "execute", "half"}
  BY DEF WorkerTop, WorkerStamp, WorkerReadEof, WorkerGetListens, WorkerWallCopied,
         WorkerWallCopies, Executes, At
<1>3. \E p \in Places \ {"put"} : Became(w, p, worker[w].line, worker[w].args, worker[w].got)
  <2>1. CASE WorkerTop(w)
    BY <2>1, TopBecomes DEF Places
  <2>2. CASE WorkerStamp(w)
    BY <2>2, StampBecomes DEF Places
  <2>3. CASE WorkerReadEof(w)
    BY <2>3, GoesBecomes DEF WorkerReadEof, Places
  <2>4. CASE WorkerGetListens(w)
    BY <2>4, GoesBecomes DEF WorkerGetListens, Places
  <2>5. CASE WorkerWallCopied(w)
    BY <2>5, GoesBecomes DEF WorkerWallCopied, Places
  <2>6. CASE WorkerWallCopies(w)
    BY <2>6, WallCopiesBecomes DEF Places
  <2>7. QED
    BY <2>1, <2>2, <2>3, <2>4, <2>5, <2>6
<1>4. worker[w].got = <<>>
  BY <1>2 DEF GotTyped
<1>5. WorkersTyped' /\ GotTyped'
  <2>1. /\ worker[w].line \in Seq(Symbols) /\ worker[w].args \in Seq(Seq(Symbols))
        /\ worker[w].got \in Seq(Symbols)
    BY DEF WorkersTyped
  <2>2. PICK p \in Places \ {"put"} :
          Became(w, p, worker[w].line, worker[w].args, worker[w].got)
    BY <1>3
  <2>3. QED
    BY <1>4, <2>1, <2>2, BecameTyped
<1>6. SharedTyped'
  <2>1. shared' = shared \/ shared' = [shared EXCEPT !.port = TRUE]
    BY DEF WorkerTop, WorkerStamp, WorkerReadEof, WorkerGetListens, WorkerWallCopied,
           WorkerWallCopies, client_side
  <2>2. QED
    BY <2>1 DEF Shapes, SharedTyped
<1>7. AnswersTyped'
  <2>1. CASE WorkerWallCopies(w)
    <3> DEFINE text == [wall.text EXCEPT ![1] = wall.count + 1]
    <3>1. wall' = [wall EXCEPT !.lock = w, !.count = @ + 1, !.text = text]
      BY <2>1 DEF WorkerWallCopies
    <3>2. wall.count \in Nat /\ wall.text \in [1..2 -> Nat] /\ text[2] = wall.text[2]
      BY DEF Shapes
    <3> HIDE DEF text
    <3>3. wall'.count = wall.count + 1 /\ wall'.text[2] = wall.text[2] /\ wall.text[2] \in Nat
      BY <3>1, <3>2 DEF Shapes
    <3>4. 0..wall.count \subseteq 0..wall'.count
      BY <3>2, <3>3
    <3>5. ASSUME NEW a, IsAnswer(a)
          PROVE  IsAnswer(a)'
      BY <3>4, <3>5 DEF IsAnswer
    <3>6. QED
      BY <1>1, <3>2, <3>3, <3>5 DEF AnswersTyped
  <2>2. CASE WorkerWallCopied(w)
    <3> DEFINE text == [wall.text EXCEPT ![2] = wall.count]
    <3>1. wall' = [wall EXCEPT !.text = text]
      BY <2>2 DEF WorkerWallCopied
    <3>2. wall.count \in Nat /\ wall.text \in [1..2 -> Nat] /\ text[2] = wall.count
      BY DEF Shapes
    <3> HIDE DEF text
    <3>3. wall'.count = wall.count /\ wall'.text[2] = wall.count
      BY <3>1, <3>2 DEF Shapes
    <3>4. QED
      BY <1>1, <3>2, <3>3 DEF AnswersTyped, IsAnswer
  <2>3. CASE ~WorkerWallCopies(w) /\ ~WorkerWallCopied(w)
    <3>1. wall' = wall \/ \E t : wall' = [wall EXCEPT !.clock = t]
      BY <2>3 DEF WorkerTop, WorkerStamp, WorkerReadEof, WorkerGetListens
    <3>2. wall'.text = wall.text /\ wall'.count = wall.count
      BY <3>1 DEF Shapes
    <3>3. QED
      BY <1>1, <3>2, AnswersKept
  <2>4. QED
    BY <2>1, <2>2, <2>3
<1>8. QED
  BY <1>1, <1>5, <1>6, <1>7 DEF ClientsTyped

\* The wall message is shown.
LEMMA ShowTyped ==
  ASSUME Shapes, Locked, Typed, NEW w \in Clients, WorkerShow(w)
  PROVE  Typed'
<1> USE DEF Typed
<1> DEFINE a == [kind |-> "wall", of |-> w, words |-> {}, text |-> wall.text]
<1>1. /\ Answer(w, a) /\ Goes(w, "stamp") /\ worker[w].at = "show" /\ client' = client
      /\ up' = up /\ shared' = shared /\ wall' = wall /\ stored' = stored
  BY DEF WorkerShow, At
<1>2. Became(w, "stamp", worker[w].line, worker[w].args, worker[w].got)
  BY <1>1, GoesBecomes
<1>3. worker[w].got = <<>>
  BY <1>1 DEF GotTyped
<1>4. WorkersTyped' /\ GotTyped'
  <2>1. /\ worker[w].line \in Seq(Symbols) /\ worker[w].args \in Seq(Seq(Symbols))
        /\ worker[w].got \in Seq(Symbols) /\ "stamp" \in Places
    BY DEF WorkersTyped, Places
  <2>2. QED
    BY <1>2, <1>3, <2>1, BecameTyped
<1>5. IsAnswer(a)
  <2>1. wall.text \in [1..2 -> Nat] /\ wall.count \in Nat
        /\ wall.text[1] <= wall.count /\ wall.text[2] <= wall.count
    BY DEF Shapes, Locked, AnswersTyped
  <2>2. \A i \in 1..2 : wall.text[i] \in 0..wall.count
    BY <2>1
  <2>3. wall.text \in [1..2 -> 0..wall.count]
    BY <2>1, <2>2
  <2>4. QED
    BY <2>3 DEF IsAnswer
<1>6. AnswersTyped'
  BY <1>1, <1>5, AnswerTyped
<1>7. QED
  BY <1>1, <1>4, <1>6 DEF ClientsTyped, SharedTyped

\* A line is taken from the stream.
LEMMA ReadLineTyped ==
  ASSUME Shapes, Typed, NEW w \in Clients, WorkerReadLine(w)
  PROVE  Typed'
<1> USE DEF Typed
<1> DEFINE line == SubSeq(up[w], 1, LineLen(w))
           rest == SubSeq(up[w], LineLen(w) + 1, Len(up[w]))
<1>1. /\ client' = client /\ shown' = shown /\ shared' = shared /\ wall' = wall
      /\ stored' = stored /\ worker[w].at = "read" /\ LineLen(w) > 0
      /\ up' = [up EXCEPT ![w] = rest]
  BY DEF WorkerReadLine, At
<1>2. LineLen(w) \in 0..Len(up[w])
  BY LineLenFacts DEF ClientsTyped
<1>3. line \in Seq(Symbols) /\ rest \in Seq(Symbols)
  <2>1. up[w] \in Seq(Symbols) /\ Len(up[w]) \in Nat
    BY LenProperties DEF ClientsTyped
  <2>2. \A i \in 1..Len(up[w]) : up[w][i] \in Symbols
    BY <2>1, ElementOfSeq
  <2> DEFINE n == LineLen(w)
  <2>3. n \in 0..Len(up[w])
    BY <1>2
  <2> HIDE DEF n
  <2>4. n \in Int /\ n + 1 \in Int /\ Len(up[w]) \in Int
    BY <2>1, <2>3
  <2>5. SubSeq(up[w], 1, n) \in Seq(Symbols)
    BY <2>1, <2>2, <2>3, <2>4, SubSeqProperties
  <2>6. SubSeq(up[w], n + 1, Len(up[w])) \in Seq(Symbols)
    BY <2>1, <2>2, <2>3, <2>4, SubSeqProperties
  <2>7. QED
    BY <2>5, <2>6 DEF n
<1>4. Became(w, "line", line, worker[w].args, worker[w].got)
  BY ReadLineBecomes
<1> HIDE DEF line, rest
<1>5. /\ worker[w].got = <<>> /\ worker[w].args \in Seq(Seq(Symbols))
      /\ worker[w].got \in Seq(Symbols) /\ "line" \in Places
  BY <1>1 DEF GotTyped, WorkersTyped, Places
<1>6. WorkersTyped' /\ GotTyped'
  BY <1>3, <1>4, <1>5, BecameTyped
<1>7. AnswersTyped'
  BY <1>1, AnswersKept
<1>8. QED
  BY <1>1, <1>3, <1>6, <1>7 DEF ClientsTyped, SharedTyped

\* The worker begins a command.
LEMMA RedirectTyped ==
  ASSUME Shapes, Typed, NEW w \in Clients, WorkerRedirect(w)
  PROVE  Typed'
<1> USE DEF Typed
<1>1. /\ client' = client /\ up' = up /\ shown' = shown /\ wall' = wall /\ stored' = stored
      /\ worker[w].at = "line"
  BY DEF WorkerRedirect, At, client_side
<1>2. /\ Became(w, "split", worker[w].line, <<>>, worker[w].got)
      /\ shared'.scan = shared.scan /\ shared'.cwd = shared.cwd
      /\ shared'.held = shared.held /\ shared'.out = w
  BY RedirectBecomes
<1>3. /\ worker[w].line \in Seq(Symbols) /\ <<>> \in Seq(Seq(Symbols))
      /\ worker[w].got \in Seq(Symbols) /\ worker[w].got = <<>> /\ "split" \in Places
  BY <1>1 DEF WorkersTyped, GotTyped, Places
<1>4. WorkersTyped' /\ GotTyped'
  BY <1>2, <1>3, BecameTyped
<1>5. AnswersTyped'
  BY <1>1, AnswersKept
<1>6. QED
  BY <1>1, <1>2, <1>4, <1>5 DEF ClientsTyped, SharedTyped

\* A token is taken, or there is none.
LEMMA SplitTyped ==
  ASSUME Shapes, Typed, NEW w \in Clients, WorkerSplit(w)
  PROVE  Typed'
<1> USE DEF Typed
<1>1. /\ client' = client /\ up' = up /\ shown' = shown /\ wall' = wall /\ stored' = stored
      /\ worker[w].at = "split"
  BY DEF WorkerSplit, At, client_side
<1>2. Scanned(w) \in Seq(Symbols)
  BY DEF Scanned, WorkersTyped, SharedTyped
<1>3. /\ worker[w].line \in Seq(Symbols) /\ worker[w].args \in Seq(Seq(Symbols))
      /\ worker[w].got \in Seq(Symbols) /\ worker[w].got = <<>>
      /\ "split" \in Places /\ "execute" \in Places
  BY <1>1 DEF WorkersTyped, GotTyped, Places
<1>4. AnswersTyped'
  BY <1>1, AnswersKept
<1>5. CASE /\ Letters(Scanned(w)) # {}
           /\ Became(w, "split", worker[w].line,
                     Append(worker[w].args, Token(Scanned(w))), worker[w].got)
           /\ SharedBut(Rest(Scanned(w)), shared.cwd)
  <2>1. Token(Scanned(w)) \in Seq(Symbols) /\ Rest(Scanned(w)) \in Seq(Symbols)
    BY <1>2, <1>5, TokenFacts
  <2>2. Append(worker[w].args, Token(Scanned(w))) \in Seq(Seq(Symbols))
    BY <1>3, <2>1, AppendProperties
  <2>3. WorkersTyped' /\ GotTyped'
    BY <1>3, <1>5, <2>2, BecameTyped
  <2>4. SharedTyped'
    BY <1>5, <2>1, SplitBecomes DEF SharedTyped, SharedBut
  <2>5. QED
    BY <1>1, <1>4, <2>3, <2>4 DEF ClientsTyped
<1>6. CASE /\ Became(w, "execute", worker[w].line, worker[w].args, worker[w].got)
           /\ SharedBut(<<>>, shared.cwd)
  <2>1. WorkersTyped' /\ GotTyped'
    BY <1>3, <1>6, BecameTyped
  <2>2. <<>> \in Seq(Symbols)
    OBVIOUS
  <2>3. SharedTyped'
    BY <1>6, <2>2, SplitBecomes DEF SharedTyped, SharedBut
  <2>4. QED
    BY <1>1, <1>4, <2>1, <2>3 DEF ClientsTyped
<1>7. QED
  BY <1>5, <1>6, SplitBecomes

\* At its end a command leaves the worker without line, arguments and bytes.
LEMMA EndTyped ==
  ASSUME WorkersTyped, GotTyped, NEW w \in Clients,
         \E p \in {"top", "closed"} : Became(w, p, <<>>, <<>>, <<>>)
  PROVE  WorkersTyped' /\ GotTyped'
<1>1. PICK p \in Places \ {"put"} : Became(w, p, <<>>, <<>>, <<>>)
  BY DEF Places
<1>2. <<>> \in Seq(Symbols) /\ <<>> \in Seq(Seq(Symbols))
  OBVIOUS
<1>3. QED
  BY <1>1, <1>2, BecameTyped

\* cd.
LEMMA CdTyped ==
  ASSUME Shapes, Typed, NEW w \in Clients, WorkerCd(w)
  PROVE  Typed'
<1> USE DEF Typed
<1>1. /\ client' = client /\ up' = up /\ shown' = shown /\ wall' = wall /\ stored' = stored
  BY DEF WorkerCd, client_side
<1>2. WorkersTyped' /\ GotTyped'
  BY CdBecomes, EndTyped
<1>3. PICK to \in {shared.cwd} \cup (IF Argc(w) > 1 THEN {Arg(w, 2)} ELSE {}) :
        SharedBut(shared.scan, to)
  BY CdBecomes
<1>4. to \in Seq(Symbols)
  <2>1. worker[w].args \in Seq(Seq(Symbols)) /\ Len(worker[w].args) \in Nat
    BY LenProperties DEF WorkersTyped
  <2>2. Argc(w) > 1 => Arg(w, 2) \in Seq(Symbols)
    BY <2>1, ElementOfSeq DEF Argc, Arg
  <2>3. QED
    BY <2>2 DEF SharedTyped
<1>5. SharedTyped'
  BY <1>3, <1>4, CdBecomes DEF SharedTyped, SharedBut
<1>6. AnswersTyped'
  BY <1>1, AnswersKept
<1>7. QED
  BY <1>1, <1>2, <1>5, <1>6 DEF ClientsTyped

\* A program, or a name that is none.
LEMMA LaunchTyped ==
  ASSUME Shapes, Typed, NEW w \in Clients, WorkerLaunch(w)
  PROVE  Typed'
<1> USE DEF Typed
<1> DEFINE found == Command(w) \in {<<p>> : p \in Programs}
           a == [kind |-> IF found THEN "output" ELSE "echo", of |-> w,
                 words |-> IF found THEN {shared.cwd} ELSE shared.held, text |-> <<0, 0>>]
<1>1. /\ client' = client /\ up' = up /\ wall' = wall /\ stored' = stored
      /\ Answer(shared.out, a) /\ Echo(w, shared)
  BY DEF WorkerLaunch
<1>2. IsAnswer(a)
  <2>1. <<0, 0>> \in [1..2 -> 0..wall.count]
    <3>1. 0 \in 0..wall.count
      BY DEF Shapes
    <3>2. QED
      BY <3>1
  <2>2. CASE found
    BY <2>1, <2>2 DEF IsAnswer, SharedTyped
  <2>3. CASE ~found
    BY <2>1, <2>3 DEF IsAnswer, SharedTyped
  <2>4. QED
    BY <2>2, <2>3
<1> HIDE DEF a
<1>3. AnswersTyped'
  BY <1>1, <1>2, AnswerTyped
<1>4. /\ \E p \in {"top", "closed"} : Became(w, p, <<>>, <<>>, <<>>)
      /\ SharedBut(shared.scan, shared.cwd) /\ shared'.held = shared.held \cup {w}
  BY <1>1, EchoBecomes
<1>5. WorkersTyped' /\ GotTyped'
  BY <1>4, EndTyped
<1>6. QED
  BY <1>1, <1>3, <1>4, <1>5 DEF ClientsTyped, SharedTyped, SharedBut

\* The file is opened, and emptied when it is the one that is looked at.
LEMMA PutOpenTyped ==
  ASSUME Shapes, Typed, NEW w \in Clients, WorkerPutOpen(w)
  PROVE  Typed'
<1> USE DEF Typed
<1>1. /\ client' = client /\ up' = up /\ shown' = shown /\ wall' = wall /\ shared' = shared
      /\ worker[w].at = "execute" /\ Goes(w, "put") /\ Len(worker[w].args) >= 3
      /\ (stored' = stored \/ stored' = <<>>)
  BY DEF WorkerPutOpen, Executes, At, client_side, Argc
<1>2. Became(w, "put", worker[w].line, worker[w].args, worker[w].got)
  BY <1>1, GoesBecomes
<1>3. /\ worker[w].line \in Seq(Symbols) /\ worker[w].args \in Seq(Seq(Symbols))
      /\ worker[w].got \in Seq(Symbols) /\ worker[w].got = <<>> /\ "put" \in Places
      /\ Len(worker[w].args) \in Nat
  BY <1>1, LenProperties DEF WorkersTyped, GotTyped, Places
<1>4. PutLength(w)' \in Nat
  BY LengthFacts DEF PutLength
<1>5. Len(worker[w].args) > 2 /\ Len(worker[w].got) <= PutLength(w)'
  BY <1>1, <1>3, <1>4
<1>6. WorkersTyped' /\ GotTyped'
  BY <1>2, <1>3, <1>5, BecameTyped
<1>7. AnswersTyped'
  BY <1>1, AnswersKept
<1>8. stored' \in Seq(Symbols)
  <2>1. <<>> \in Seq(Symbols)
    OBVIOUS
  <2>2. QED
    BY <1>1, <2>1
<1>9. QED
  BY <1>1, <1>6, <1>7, <1>8 DEF ClientsTyped, SharedTyped

\* What server_put() takes from what has arrived.
Taken(w) == Min({PutLength(w) - Len(worker[w].got), Len(up[w])})

\* It takes what is missing or what there is, whichever is less, and no more.
LEMMA TakenFacts ==
  ASSUME Typed, NEW w \in Clients, worker[w].at = "put"
  PROVE  /\ PutLength(w) \in Nat /\ Len(worker[w].got) \in Nat /\ Len(up[w]) \in Nat
         /\ Taken(w) \in Nat
         /\ Taken(w) <= PutLength(w) - Len(worker[w].got) /\ Taken(w) <= Len(up[w])
<1>1. PutLength(w) \in Nat
  BY LengthFacts DEF PutLength
<1>2. Len(worker[w].got) \in Nat /\ Len(up[w]) \in Nat
  BY LenProperties DEF Typed, WorkersTyped, ClientsTyped
<1>3. Len(worker[w].got) <= PutLength(w)
  BY DEF Typed, GotTyped
<1> DEFINE S == {PutLength(w) - Len(worker[w].got), Len(up[w])}
<1>4. S \subseteq Nat /\ S # {}
  BY <1>1, <1>2, <1>3
<1>5. Min(S) \in S /\ \A x \in S : Min(S) <= x
  <2> HIDE DEF S
  <2>1. QED
    BY <1>4, MinOf
<1>6. QED
  BY <1>1, <1>2, <1>4, <1>5 DEF Taken

\* Bytes of the file are taken from the stream.
LEMMA PutReadsTyped ==
  ASSUME Shapes, Typed, NEW w \in Clients, WorkerPutReads(w)
  PROVE  Typed'
<1> USE DEF Typed
<1> DEFINE n == Taken(w)
           bytes == SubSeq(up[w], 1, n)
           rest == SubSeq(up[w], n + 1, Len(up[w]))
<1>1. /\ client' = client /\ shown' = shown /\ wall' = wall /\ shared' = shared
      /\ stored' = stored /\ worker[w].at = "put" /\ n > 0
      /\ worker' = [worker EXCEPT ![w].got = @ \o bytes]
      /\ up' = [up EXCEPT ![w] = rest]
  BY DEF WorkerPutReads, At, Taken
<1>2. /\ PutLength(w) \in Nat /\ Len(worker[w].got) \in Nat /\ Len(up[w]) \in Nat
      /\ n \in Nat /\ n <= PutLength(w) - Len(worker[w].got) /\ n <= Len(up[w])
  BY <1>1, TakenFacts
<1>3. bytes \in Seq(Symbols) /\ Len(bytes) = n /\ rest \in Seq(Symbols)
  <2>1. up[w] \in Seq(Symbols) /\ \A i \in 1..Len(up[w]) : up[w][i] \in Symbols
    BY ElementOfSeq DEF ClientsTyped
  <2> HIDE DEF n
  <2>2. SubSeq(up[w], 1, n) \in Seq(Symbols) /\ Len(SubSeq(up[w], 1, n)) = n
    BY <1>1, <1>2, <2>1, SubSeqProperties
  <2>3. SubSeq(up[w], n + 1, Len(up[w])) \in Seq(Symbols)
    BY <1>2, <2>1, SubSeqProperties
  <2>4. QED
    BY <2>2, <2>3
<1> HIDE DEF bytes, rest, n
<1>4. Became(w, worker[w].at, worker[w].line, worker[w].args, worker[w].got \o bytes)
  BY <1>1, PutReadsBecomes
<1>5. /\ worker[w].line \in Seq(Symbols) /\ worker[w].args \in Seq(Seq(Symbols))
      /\ worker[w].got \in Seq(Symbols) /\ worker[w].at \in Places
      /\ Len(worker[w].args) > 2
  BY <1>1 DEF WorkersTyped, GotTyped
<1>6. /\ worker[w].got \o bytes \in Seq(Symbols)
      /\ Len(worker[w].got \o bytes) = Len(worker[w].got) + n
  BY <1>3, <1>5, ConcatProperties
<1>7. PutLength(w)' = PutLength(w)
  BY <1>4 DEF Became, PutLength, Arg
<1>8. Len(worker[w].got \o bytes) <= PutLength(w)'
  BY <1>2, <1>6, <1>7
<1>9. WorkersTyped' /\ GotTyped'
  BY <1>1, <1>4, <1>5, <1>6, <1>8, BecameTyped
<1>10. AnswersTyped'
  BY <1>1, AnswersKept
<1>11. up' \in [Clients -> Seq(Symbols)]
  BY <1>1, <1>3 DEF ClientsTyped
<1>12. QED
  BY <1>1, <1>9, <1>10, <1>11 DEF ClientsTyped, SharedTyped

\* The file is closed.
LEMMA PutCloseTyped ==
  ASSUME Shapes, Typed, NEW w \in Clients, WorkerPutClose(w)
  PROVE  Typed'
<1> USE DEF Typed
<1>1. /\ client' = client /\ up' = up /\ shown' = shown /\ wall' = wall
      /\ worker[w].at = "put" /\ Echo(w, shared)
      /\ stored' = IF Arg(w, 2) # <<"f">> THEN stored
                   ELSE worker[w].got \o SubSeq(stored, PutLength(w) + 1, Len(stored))
  BY DEF WorkerPutClose, At, client_side
<1>2. stored' \in Seq(Symbols)
  <2> DEFINE k == PutLength(w) + 1
  <2>1. k \in Nat /\ k >= 1
    BY <1>1, TakenFacts
  <2>2. stored \in Seq(Symbols) /\ Len(stored) \in Nat
        /\ \A i \in 1..Len(stored) : stored[i] \in Symbols
    BY LenProperties, ElementOfSeq
  <2> HIDE DEF k
  <2>3. SubSeq(stored, k, Len(stored)) \in Seq(Symbols)
    BY <2>1, <2>2, SubSeqProperties
  <2>4. worker[w].got \in Seq(Symbols)
    BY DEF WorkersTyped
  <2>5. worker[w].got \o SubSeq(stored, k, Len(stored)) \in Seq(Symbols)
    BY <2>3, <2>4, ConcatProperties
  <2>6. QED
    BY <1>1, <2>2, <2>5 DEF k
<1>3. /\ \E p \in {"top", "closed"} : Became(w, p, <<>>, <<>>, <<>>)
      /\ SharedBut(shared.scan, shared.cwd) /\ shared'.held = shared.held \cup {w}
  BY <1>1, EchoBecomes
<1>4. WorkersTyped' /\ GotTyped'
  BY <1>3, EndTyped
<1>5. AnswersTyped'
  BY <1>1, AnswersKept
<1>6. QED
  BY <1>1, <1>2, <1>3, <1>4, <1>5 DEF ClientsTyped, SharedTyped, SharedBut

\* The end of the wall command, and of a get without a name.
LEMMA EchoTyped ==
  ASSUME Shapes, Typed, NEW w \in Clients, WorkerWallStamps(w) \/ WorkerGetNeedsName(w)
  PROVE  Typed'
<1> USE DEF Typed
<1>1. /\ client' = client /\ up' = up /\ shown' = shown /\ stored' = stored
      /\ Echo(w, shared)
  BY DEF WorkerWallStamps, WorkerGetNeedsName, client_side
<1>2. wall' = wall \/ \E t : wall' = [wall EXCEPT !.lock = None, !.clock = t, !.stamp = t]
  BY DEF WorkerWallStamps, WorkerGetNeedsName
<1>3. wall'.text = wall.text /\ wall'.count = wall.count
  BY <1>2 DEF Shapes
<1>4. AnswersTyped'
  BY <1>1, <1>3, AnswersKept
<1>5. /\ \E p \in {"top", "closed"} : Became(w, p, <<>>, <<>>, <<>>)
      /\ SharedBut(shared.scan, shared.cwd) /\ shared'.held = shared.held \cup {w}
  BY <1>1, EchoBecomes
<1>6. WorkersTyped' /\ GotTyped'
  BY <1>5, EndTyped
<1>7. QED
  BY <1>1, <1>4, <1>5, <1>6 DEF ClientsTyped, SharedTyped, SharedBut

\* A server that dies stops, and its threads with it.
LEMMA DiesTyped ==
  ASSUME Shapes, Typed, ServerDies
  PROVE  Typed'
<1> USE DEF Typed
<1>1. /\ client' = client /\ up' = up /\ shown' = shown /\ stored' = stored
      /\ worker' = worker /\ wall' = wall /\ shared' = [shared EXCEPT !.alive = FALSE]
  BY DEF ServerDies, client_side
<1>2. SharedTyped'
  BY <1>1 DEF Shapes, SharedTyped
<1>3. WorkersTyped' /\ GotTyped'
  BY <1>1 DEF WorkersTyped, GotTyped, PutLength, Arg
<1>4. AnswersTyped'
  BY <1>1, AnswersKept
<1>5. QED
  BY <1>1, <1>2, <1>3, <1>4 DEF ClientsTyped

\* Typed is inductive, next to Inv.
LEMMA NextTyped ==
  ASSUME Inv, Typed, [Next]_vars
  PROVE  Typed'
<1>0. Shapes /\ Locked
  BY DEF Inv
<1>1. CASE UNCHANGED vars
  BY <1>1 DEF vars, Typed, ClientsTyped, WorkersTyped, GotTyped, SharedTyped, AnswersTyped,
              IsAnswer, PutLength, Arg
<1>2. ASSUME NEW c \in Clients, UserStep(c)
      PROVE  Typed'
  BY <1>0, <1>2, UserTyped
<1>3. ASSUME NEW w \in Clients, WorkerStep(w)
      PROVE  Typed'
  <2>1. CASE WorkerShowDies(w) \/ WorkerDies(w)
    BY <1>0, <2>1, DiesTyped DEF WorkerShowDies, WorkerDies
  <2>2. CASE \/ WorkerTop(w) \/ WorkerStamp(w) \/ WorkerReadEof(w) \/ WorkerGetListens(w)
             \/ WorkerWallCopied(w) \/ WorkerWallCopies(w)
    BY <1>0, <2>2, WalkTyped
  <2>3. CASE WorkerShow(w)
    BY <1>0, <2>3, ShowTyped
  <2>4. CASE WorkerReadLine(w)
    BY <1>0, <2>4, ReadLineTyped
  <2>5. CASE WorkerRedirect(w)
    BY <1>0, <2>5, RedirectTyped
  <2>6. CASE WorkerSplit(w)
    BY <1>0, <2>6, SplitTyped
  <2>7. CASE WorkerCd(w)
    BY <1>0, <2>7, CdTyped
  <2>8. CASE WorkerLaunch(w)
    BY <1>0, <2>8, LaunchTyped
  <2>9. CASE WorkerPutOpen(w)
    BY <1>0, <2>9, PutOpenTyped
  <2>10. CASE WorkerPutReads(w)
    BY <1>0, <2>10, PutReadsTyped
  <2>11. CASE WorkerPutClose(w)
    BY <1>0, <2>11, PutCloseTyped
  <2>12. CASE WorkerWallStamps(w) \/ WorkerGetNeedsName(w)
    BY <1>0, <2>12, EchoTyped
  <2>13. QED
    BY <1>3, <2>1, <2>2, <2>3, <2>4, <2>5, <2>6, <2>7, <2>8, <2>9, <2>10, <2>11, <2>12
       DEF WorkerStep
<1>4. QED
  BY <1>1, <1>2, <1>3 DEF Next

\* What the two invariants say of types is what TypeOK says.
LEMMA TypedOK == Inv /\ Typed => TypeOK
<1> SUFFICES ASSUME Inv, Typed
             PROVE  TypeOK
  OBVIOUS
<1> USE DEF Inv, Typed
<1>1. \A c \in Clients : up[c] \in Seq(Symbols)
  BY DEF ClientsTyped
<1>2. ASSUME NEW c \in Clients
      PROVE  /\ worker[c].last \in 0..wall.clock /\ worker[c].raced \in BOOLEAN
             /\ Len(worker[c].got) <= (IF worker[c].at = "put" THEN PutLength(c) ELSE 0)
  BY DEF Shapes, Locked, GotTyped
<1>3. /\ wall.lock \in Clients \cup {None} /\ wall.stamp \in 0..wall.clock
  BY DEF Shapes, Locked
<1>4. client \in [Clients ->
         [parent : {"prompt", "stuck", "gone"}, child : {"reads", "gone"},
          todo : UNION {Suffixes(t[v]) : t \in Scripts, v \in Clients},
          fresh : BOOLEAN, exited : BOOLEAN]]
  BY DEF ClientsTyped, Left
<1>5. ASSUME NEW c \in Clients
      PROVE  /\ \A i \in DOMAIN shown[c] : IsAnswer(shown[c][i])
             /\ worker[c].at \in {"top", "show", "stamp", "read", "line", "split", "execute",
                                  "put", "half", "wall", "accept", "closed"}
             /\ worker[c].line \in Seq(Symbols) /\ worker[c].args \in Seq(Seq(Symbols))
             /\ worker[c].done \in BOOLEAN /\ worker[c].got \in Seq(Symbols)
  BY DEF WorkersTyped, AnswersTyped, Places
<1>6. QED
  BY <1>1, <1>2, <1>3, <1>4, <1>5 DEF TypeOK, SharedTyped

\* Every part of the state has the values it is meant to have, for any number
\* of clients, lines and files; a put takes no more than was announced.
THEOREM TypeCorrect == Spec => []TypeOK
<1>1. Init => Inv /\ Typed
  BY InitInv, InitTyped
<1>2. Inv /\ Typed /\ [Next]_vars => (Inv /\ Typed)'
  BY NextInv, NextTyped
<1>3. Inv /\ Typed => TypeOK
  BY TypedOK
<1>4. QED
  BY <1>1, <1>2, <1>3, PTL DEF Spec

-----------------------------------------------------------------------------
(* Files: the invariant *)

\* Where the file ends whose header begins at h; the header and the file.
FileEnd(w, h) == h + 5 + Len(FileOf[w])

PutAt(s, w, h) ==
    /\ FileEnd(w, h) <= Len(s)
    /\ s[h] = "put" /\ s[h + 1] = SP /\ s[h + 2] \in Words /\ s[h + 3] = SP
    /\ s[h + 4] = Size[Len(FileOf[w])] /\ s[h + 5] = NL
    /\ \A k \in 1..Len(FileOf[w]) : s[h + 5 + k] = FileOf[w][k]

\* To a worker that reads on after b, the symbol at i is no command: its line
\* has begun with another.
Quiet(s, b, i) ==
    \E j \in DOMAIN s : /\ b < j /\ j < i /\ s[j] \notin {SP, NL}
                        /\ \A k \in DOMAIN s : j <= k /\ k <= i => s[k] # NL

\* Every "put" it takes for a command is one of the headers H.
Loud(s, b, H) == \A i \in DOMAIN s : b < i /\ s[i] = "put" => i \in H \/ Quiet(s, b, i)

\* A stream in which a worker that reads on after b finds a put only with its
\* file, and after that file again.
StreamFrom(s, w, b) ==
    \E H \in SUBSET {i \in DOMAIN s : s[i] = "put"} :
        /\ \A h \in H : PutAt(s, w, h) /\ Loud(s, FileEnd(w, h), H)
        /\ Loud(s, b, H)

\* The stream after n bytes of the file were taken.
FileFollows(s, w, n) ==
    /\ Len(FileOf[w]) - n <= Len(s)
    /\ \A k \in n + 1 .. Len(FileOf[w]) : s[k - n] = FileOf[w][k]
    /\ StreamFrom(s, w, Len(FileOf[w]) - n)

\* A line that is a put command, and what is left of it for the name and the size.
OpensPut(l) == Letters(l) # {} /\ Token(l) = <<"put">>

PutLine(l, w) ==
    \E m \in Letters(l) :
        /\ \A i \in Letters(l) : m <= i
        /\ Len(l) = m + 5
        /\ l[m] = "put" /\ l[m + 1] = SP /\ l[m + 2] \in Words /\ l[m + 3] = SP
        /\ l[m + 4] = Size[Len(FileOf[w])] /\ l[m + 5] = NL

NameLeft(s, w) ==
    /\ Len(s) = 4 /\ s[1] \in Words /\ s[2] = SP
    /\ s[3] = Size[Len(FileOf[w])] /\ s[4] = NL

SizeLeft(s, w) == Len(s) = 2 /\ s[1] = Size[Len(FileOf[w])] /\ s[2] = NL

\* What is on its way to a worker that is not putting a file.
Streams(w) == worker[w].at # "put" => StreamFrom(up[w], w, 0)

\* A put command has been read, its file is next.
PutNext(w) ==
    worker[w].at \in {"line", "split", "execute"} /\ OpensPut(worker[w].line) =>
        FileFollows(up[w], w, 0) /\ PutLine(worker[w].line, w)

\* The tokens so far.
Arguments(w) ==
    worker[w].at \in {"split", "execute"} =>
        LET args == worker[w].args
            splits == worker[w].at = "split"
        IN /\ args # <<>> => Letters(worker[w].line) # {} /\ args[1] = Token(worker[w].line)
           /\ OpensPut(worker[w].line) =>
                \/ splits /\ args = <<>>
                \/ splits /\ Len(args) = 1 /\ NameLeft(shared.scan, w)
                \/ splits /\ Len(args) = 2 /\ SizeLeft(shared.scan, w)
                \/ /\ Len(args) = 3 /\ args[3] = <<Size[Len(FileOf[w])]>>
                   /\ splits => shared.scan = <<>>

\* The bytes so far.
Putting(w) ==
    worker[w].at = "put" =>
        LET got == worker[w].got
            args == worker[w].args
        IN /\ Len(got) <= Len(FileOf[w]) /\ FileFollows(up[w], w, Len(got))
           /\ \A k \in DOMAIN got : got[k] = FileOf[w][k]
           /\ Len(args) = 3 /\ args[3] = <<Size[Len(FileOf[w])]>>
           /\ args[2] = <<"f">> => stored = <<>>

Framed(w) == Streams(w) /\ PutNext(w) /\ Arguments(w) /\ Putting(w)

Framing ==
    ~shared.overlap =>
        /\ stored \in {<<>>} \cup {FileOf[c] : c \in Clients}
        /\ \A w \in Clients : Framed(w)

-----------------------------------------------------------------------------
(* Files: streams *)

\* What a stream holds and how long a file is.
LEMMA StreamFacts ==
  ASSUME NEW s \in Seq(Symbols), NEW w \in Clients
  PROVE  /\ Len(s) \in Nat /\ DOMAIN s = 1..Len(s) /\ \A i \in 1..Len(s) : s[i] \in Symbols
         /\ FileOf[w] \in Seq(Symbols) /\ Len(FileOf[w]) \in Nat
         /\ DOMAIN FileOf[w] = 1..Len(FileOf[w])
         /\ Size[Len(FileOf[w])] \in Words
<1>1. FileOf[w] \in Seq(Symbols)
  BY SessionAssumption DEF SessionAssumption
<1>2. Len(FileOf[w]) \in Sizes
  BY LengthFacts
<1>3. Size[Len(FileOf[w])] \in Words
  BY <1>2, SessionAssumption DEF SessionAssumption
<1>4. QED
  BY <1>1, <1>3, LenProperties, ElementOfSeq

\* After a newline the line begins anew: nothing before it keeps a put quiet.
LEMMA LoudAfterNewline ==
  ASSUME NEW s \in Seq(Symbols), NEW b \in Nat, NEW n \in DOMAIN s, b <= n, s[n] = NL,
         NEW H, Loud(s, b, H)
  PROVE  Loud(s, n, H)
<1>1. Len(s) \in Nat /\ DOMAIN s = 1..Len(s)
  BY LenProperties
<1>2. ASSUME NEW i \in DOMAIN s, n < i, s[i] = "put", i \notin H
      PROVE  Quiet(s, n, i)
  <2>1. PICK j \in DOMAIN s : /\ b < j /\ j < i /\ s[j] \notin {SP, NL}
                              /\ \A k \in DOMAIN s : j <= k /\ k <= i => s[k] # NL
    BY <1>1, <1>2 DEF Loud, Quiet
  <2>2. n < j
    BY <1>1, <1>2, <2>1
  <2>3. QED
    BY <2>1, <2>2 DEF Quiet
<1>3. QED
  BY <1>2 DEF Loud

\* What is left of a sequence after c of its elements.
LEMMA DropFacts ==
  ASSUME NEW S, NEW s \in Seq(S), NEW c \in 0..Len(s)
  PROVE  LET t == SubSeq(s, c + 1, Len(s)) IN
         /\ t \in Seq(S) /\ Len(t) = Len(s) - c
         /\ \A i \in 1 .. Len(s) - c : c + i \in 1..Len(s) /\ t[i] = s[c + i]
<1> DEFINE m == c + 1
           n == Len(s)
           t == SubSeq(s, m, n)
<1>1. n \in Nat /\ m \in 1 .. n + 1 /\ \A i \in 1..n : s[i] \in S
  BY LenProperties, ElementOfSeq
<1> HIDE DEF n, m
<1>2. \A i \in m..n : s[i] \in S
  BY <1>1
<1>3. m \in Int /\ n \in Int
  BY <1>1
<1>4. /\ t \in Seq(S) /\ Len(t) = (IF m <= n THEN n - m + 1 ELSE 0)
      /\ \A i \in 1 .. n - m + 1 : t[i] = s[m + i - 1]
  BY <1>2, <1>3, SubSeqProperties
<1> HIDE DEF t
<1>5. Len(t) = n - c /\ n - m + 1 = n - c
  BY <1>1, <1>4 DEF m
<1>6. ASSUME NEW i \in 1 .. n - c
      PROVE  c + i \in 1..n /\ t[i] = s[c + i]
  BY <1>1, <1>4, <1>5, <1>6 DEF m
<1>7. QED
  BY <1>4, <1>5, <1>6 DEF t, m, n

\* A stream from which c symbols were taken.
LEMMA StreamCut ==
  ASSUME NEW s \in Seq(Symbols), NEW w \in Clients, NEW b \in Nat, NEW c \in Nat,
         c <= b, b <= Len(s), StreamFrom(s, w, b)
  PROVE  StreamFrom(SubSeq(s, c + 1, Len(s)), w, b - c)
<1> DEFINE t == SubSeq(s, c + 1, Len(s))
           n == Len(s) - c
<1>1. /\ Len(s) \in Nat /\ DOMAIN s = 1..Len(s) /\ Len(FileOf[w]) \in Nat
      /\ \A i \in 1..Len(s) : s[i] \in Symbols
  BY StreamFacts
<1>2. /\ n \in Nat /\ t \in Seq(Symbols) /\ Len(t) = n /\ DOMAIN t = 1..n
      /\ \A i \in 1..n : t[i] = s[c + i] /\ c + i \in DOMAIN s
  <2>1. c \in 0..Len(s)
    BY <1>1
  <2>2. /\ t \in Seq(Symbols) /\ Len(t) = n
        /\ \A i \in 1..n : c + i \in 1..Len(s) /\ t[i] = s[c + i]
    BY <2>1, DropFacts
  <2> HIDE DEF t
  <2>3. n \in Nat /\ DOMAIN t = 1..Len(t)
    BY <1>1, <2>1, <2>2, LenProperties
  <2>4. QED
    BY <1>1, <2>2, <2>3
<1>3. PICK H \in SUBSET {i \in DOMAIN s : s[i] = "put"} :
        /\ \A h \in H : PutAt(s, w, h) /\ Loud(s, FileEnd(w, h), H)
        /\ Loud(s, b, H)
  BY DEF StreamFrom
<1> DEFINE G == {g \in DOMAIN t : c + g \in H}
<1> HIDE DEF t, n
<1>4. ASSUME NEW e \in Nat, c <= e, Loud(s, e, H)
      PROVE  Loud(t, e - c, G)
  <2>1. ASSUME NEW i \in DOMAIN t, e - c < i, t[i] = "put", i \notin G
        PROVE  Quiet(t, e - c, i)
    <3>1. c + i \in DOMAIN s /\ e < c + i /\ s[c + i] = "put" /\ c + i \notin H /\ i \in Nat
      BY <1>1, <1>2, <1>4, <2>1
    <3>2. PICK j \in DOMAIN s : /\ e < j /\ j < c + i /\ s[j] \notin {SP, NL}
                                /\ \A k \in DOMAIN s : j <= k /\ k <= c + i => s[k] # NL
      BY <1>4, <3>1 DEF Loud, Quiet
    <3> DEFINE l == j - c
    <3>3. l \in 1..n /\ e - c < l /\ l < i /\ c + l = j
      BY <1>1, <1>2, <1>4, <2>1, <3>1, <3>2
    <3>4. t[l] \notin {SP, NL}
      BY <1>2, <3>2, <3>3
    <3>5. ASSUME NEW k \in DOMAIN t, l <= k, k <= i
          PROVE  t[k] # NL
      <4>1. c + k \in DOMAIN s /\ j <= c + k /\ c + k <= c + i /\ t[k] = s[c + k]
        BY SMTT(30), <1>1, <1>2, <3>1, <3>3, <3>5
      <4>2. QED
        BY <3>2, <4>1
    <3> HIDE DEF l
    <3>6. QED
      BY <1>2, <3>3, <3>4, <3>5 DEF Quiet
  <2>2. QED
    BY <2>1 DEF Loud
<1>5. G \in SUBSET {i \in DOMAIN t : t[i] = "put"}
  BY <1>2, <1>3
<1>6. ASSUME NEW g \in G
      PROVE  PutAt(t, w, g) /\ Loud(t, FileEnd(w, g), G)
  <2>1. g \in 1..n /\ c + g \in H /\ PutAt(s, w, c + g) /\ Loud(s, FileEnd(w, c + g), H)
    BY <1>2, <1>3, <1>6
  <2> DEFINE f == Len(FileOf[w])
  <2>2. f \in Nat /\ FileEnd(w, c + g) = c + g + 5 + f /\ FileEnd(w, g) = g + 5 + f
    BY <1>1 DEF FileEnd
  <2>3. c + g + 5 + f <= Len(s)
    BY <2>1, <2>2 DEF PutAt
  <2> HIDE DEF f
  <2>4. ASSUME NEW d \in 0 .. 5 + f
        PROVE  g + d \in 1..n /\ t[g + d] = s[(c + g) + d]
    <3>1. g \in Nat /\ g >= 1 /\ d \in Nat /\ d <= 5 + f /\ n \in Nat /\ Len(s) = n + c
      BY <1>1, <1>2, <2>1, <2>2 DEF n
    <3>2. g + d \in 1..n /\ c + (g + d) = (c + g) + d
      BY <2>2, <2>3, <3>1
    <3>3. QED
      BY <1>2, <3>2
  <2>5. PutAt(t, w, g)
    <3>1. g + 5 + f <= Len(t)
      BY <1>1, <1>2, <2>1, <2>2, <2>3 DEF n
    <3>2. /\ t[g] = s[c + g] /\ t[g + 1] = s[(c + g) + 1] /\ t[g + 2] = s[(c + g) + 2]
          /\ t[g + 3] = s[(c + g) + 3] /\ t[g + 4] = s[(c + g) + 4] /\ t[g + 5] = s[(c + g) + 5]
      BY <1>2, <2>1, <2>2, <2>4
    <3>3. ASSUME NEW k \in 1..f
          PROVE  t[g + 5 + k] = s[(c + g) + 5 + k]
      <4>1. 5 + k \in 0 .. 5 + f /\ g + (5 + k) = g + 5 + k
            /\ (c + g) + (5 + k) = (c + g) + 5 + k
        BY <1>2, <2>1, <2>2
      <4>2. QED
        BY <2>4, <4>1
    <3>4. QED
      BY <2>1, <2>2, <3>1, <3>2, <3>3 DEF PutAt, f
  <2>6. Loud(t, FileEnd(w, g), G)
    <3>1. FileEnd(w, c + g) \in Nat /\ c <= FileEnd(w, c + g)
          /\ FileEnd(w, c + g) - c = FileEnd(w, g)
      BY <1>2, <2>1, <2>2
    <3>2. QED
      BY <1>4, <2>1, <3>1
  <2>7. QED
    BY <2>5, <2>6
<1>7. Loud(t, b - c, G)
  BY <1>3, <1>4
<1>8. StreamFrom(t, w, b - c)
  BY <1>5, <1>6, <1>7 DEF StreamFrom
<1>9. QED
  BY <1>8 DEF t

\* What the client of w sends at a time: a put with its file, or something else
\* that begins with a word and holds no newline.
Chunk(t, w) ==
    /\ t \in Seq(Symbols) /\ Len(t) > 0
    /\ \/ PutAt(t, w, 1) /\ Len(t) = FileEnd(w, 1)
       \/ t[1] \notin {SP, NL, "put"} /\ \A k \in DOMAIN t : t[k] # NL

\* The symbols of the two parts of a stream.
LEMMA JoinFacts ==
  ASSUME NEW s \in Seq(Symbols), NEW t \in Seq(Symbols)
  PROVE  /\ Len(s) \in Nat /\ Len(t) \in Nat /\ s \o t \in Seq(Symbols)
         /\ Len(s \o t) = Len(s) + Len(t) /\ DOMAIN (s \o t) = 1 .. Len(s) + Len(t)
         /\ DOMAIN s = 1..Len(s) /\ DOMAIN t = 1..Len(t)
         /\ \A i \in 1..Len(s) : (s \o t)[i] = s[i]
         /\ \A i \in 1..Len(t) : (s \o t)[Len(s) + i] = t[i]
<1> DEFINE u == s \o t
<1>1. /\ u \in Seq(Symbols) /\ Len(u) = Len(s) + Len(t)
      /\ \A i \in 1 .. Len(s) + Len(t) : u[i] = IF i <= Len(s) THEN s[i] ELSE t[i - Len(s)]
  BY ConcatProperties
<1> HIDE DEF u
<1>2. Len(s) \in Nat /\ Len(t) \in Nat /\ DOMAIN s = 1..Len(s) /\ DOMAIN t = 1..Len(t)
  BY LenProperties
<1>3. DOMAIN u = 1..Len(u)
  BY <1>1, LenProperties
<1>4. \A i \in 1..Len(s) : u[i] = s[i]
  BY <1>1, <1>2
<1>5. ASSUME NEW i \in 1..Len(t)
      PROVE  u[Len(s) + i] = t[i]
  <2>1. Len(s) + i \in 1 .. Len(s) + Len(t) /\ ~(Len(s) + i <= Len(s))
        /\ (Len(s) + i) - Len(s) = i
    BY <1>2
  <2>2. QED
    BY <1>1, <2>1
<1>6. QED
  BY <1>1, <1>2, <1>3, <1>4, <1>5 DEF u

\* What the client sends may be appended to a stream.
LEMMA StreamGrows ==
  ASSUME PlainFiles, NEW w \in Clients, NEW s \in Seq(Symbols), NEW t, Chunk(t, w),
         NEW b \in Nat, b <= Len(s), StreamFrom(s, w, b)
  PROVE  StreamFrom(s \o t, w, b)
<1> DEFINE u == s \o t
           n == Len(s)
<1>1. /\ n \in Nat /\ Len(t) \in Nat /\ u \in Seq(Symbols) /\ Len(t) > 0
      /\ Len(u) = n + Len(t) /\ DOMAIN u = 1 .. n + Len(t)
      /\ DOMAIN s = 1..n /\ DOMAIN t = 1..Len(t)
      /\ \A i \in 1..n : u[i] = s[i]
      /\ \A i \in 1..Len(t) : u[n + i] = t[i]
  BY JoinFacts DEF Chunk
<1>2. /\ Len(FileOf[w]) \in Nat /\ \A i \in 1..Len(FileOf[w]) : FileOf[w][i] # "put"
      /\ SP # "put" /\ NL # "put" /\ SP # NL /\ Size[Len(FileOf[w])] \in Words
      /\ \A x \in Words : x # NL /\ x # SP
  BY StreamFacts, WordFacts DEF PlainFiles
<1>3. PICK H \in SUBSET {i \in DOMAIN s : s[i] = "put"} :
        /\ \A h \in H : PutAt(s, w, h) /\ Loud(s, FileEnd(w, h), H)
        /\ Loud(s, b, H)
  BY DEF StreamFrom
<1> DEFINE G == H \cup {i \in {n + 1} : t[1] = "put"}
<1> HIDE DEF u, n, G
<1>4. G \in SUBSET {i \in DOMAIN u : u[i] = "put"}
  <2>1. \A h \in H : h \in DOMAIN u /\ u[h] = "put"
    BY <1>1, <1>3
  <2>2. n + 1 \in DOMAIN u /\ u[n + 1] = t[1]
    BY <1>1
  <2>3. QED
    BY <2>1, <2>2 DEF G
<1>5. t[1] \notin {SP, NL}
  BY <1>1, <1>2 DEF Chunk, PutAt
<1>6. ASSUME NEW i \in 2..Len(t), t[i] = "put"
      PROVE  \A k \in 1..i : t[k] # NL
  <2>1. CASE t[1] \notin {SP, NL, "put"} /\ \A k \in DOMAIN t : t[k] # NL
    BY <1>1, <2>1
  <2>2. CASE PutAt(t, w, 1) /\ Len(t) = FileEnd(w, 1)
    <3> DEFINE f == Len(FileOf[w])
    <3>1. Len(t) = 6 + f /\ f \in Nat
      BY <1>2, <2>2 DEF FileEnd
    <3>2. /\ t[1] = "put" /\ t[2] = SP /\ t[3] \in Words /\ t[4] = SP
          /\ t[5] \in Words /\ t[6] = NL
      BY <1>2, <2>2 DEF PutAt
    <3>3. \A k \in 1..f : t[6 + k] = FileOf[w][k]
      BY <1>2, <2>2, <3>1 DEF PutAt
    <3> HIDE DEF f
    <3>4. ASSUME i > 6
          PROVE  FALSE
      <4>1. i - 6 \in 1..f /\ 6 + (i - 6) = i
        BY <3>1, <3>4
      <4>2. QED
        BY <1>2, <1>6, <3>3, <4>1 DEF f
    <3>5. i # 6
      BY <1>2, <1>6, <3>2
    <3>6. i \in 2..5
      BY <3>1, <3>4, <3>5
    <3>7. t[1] # NL /\ t[2] # NL /\ t[3] # NL /\ t[4] # NL /\ t[5] # NL
      BY <1>2, <3>2
    <3>8. \A k \in 1..i : k = 1 \/ k = 2 \/ k = 3 \/ k = 4 \/ k = 5
      BY <3>6
    <3>9. QED
      BY <3>7, <3>8
  <2>3. QED
    BY <2>1, <2>2 DEF Chunk
<1>7. ASSUME NEW e \in Nat, e <= n, Loud(s, e, H)
      PROVE  Loud(u, e, G)
  <2>1. ASSUME NEW i \in DOMAIN u, e < i, u[i] = "put", i \notin G
        PROVE  Quiet(u, e, i)
    <3>1. CASE i \in DOMAIN s
      <4>1. s[i] = "put" /\ i \notin H
        BY <1>1, <2>1, <3>1 DEF G
      <4>2. PICK j \in DOMAIN s : /\ e < j /\ j < i /\ s[j] \notin {SP, NL}
                                  /\ \A k \in DOMAIN s : j <= k /\ k <= i => s[k] # NL
        BY <1>7, <2>1, <3>1, <4>1 DEF Loud, Quiet
      <4>3. j \in DOMAIN u /\ u[j] \notin {SP, NL}
        BY <1>1, <4>2
      <4>4. ASSUME NEW k \in DOMAIN u, j <= k, k <= i
            PROVE  u[k] # NL
        <5>1. k \in DOMAIN s
          BY <1>1, <3>1, <4>4
        <5>2. QED
          BY <1>1, <4>2, <4>4, <5>1
      <4>5. QED
        BY <4>2, <4>3, <4>4 DEF Quiet
    <3>2. CASE i \notin DOMAIN s
      <4> DEFINE d == i - n
      <4>1. d \in 1..Len(t) /\ n + d = i
        BY <1>1, <3>2
      <4>2. t[d] = "put"
        BY <1>1, <2>1, <4>1
      <4>3. d # 1
        BY <2>1, <4>1, <4>2 DEF G
      <4>4. d \in 2..Len(t)
        BY <1>1, <4>1, <4>3
      <4> HIDE DEF d
      <4>5. \A k \in 1..d : t[k] # NL
        BY <1>6, <4>2, <4>4
      <4>6. n + 1 \in DOMAIN u /\ e < n + 1 /\ n + 1 < i /\ u[n + 1] = t[1]
        BY <1>1, <1>7, <4>1, <4>4
      <4>7. ASSUME NEW k \in DOMAIN u, n + 1 <= k, k <= i
            PROVE  u[k] # NL
        <5>1. k - n \in 1..d /\ k - n \in 1..Len(t) /\ n + (k - n) = k
          BY <1>1, <4>1, <4>7
        <5>2. u[k] = t[k - n]
          BY <1>1, <5>1
        <5>3. QED
          BY <4>5, <5>1, <5>2
      <4>8. QED
        BY <1>5, <4>6, <4>7 DEF Quiet
    <3>3. QED
      BY <3>1, <3>2
  <2>2. QED
    BY <2>1 DEF Loud
<1>8. ASSUME NEW g \in H
      PROVE  PutAt(u, w, g) /\ Loud(u, FileEnd(w, g), G)
  <2>1. PutAt(s, w, g) /\ Loud(s, FileEnd(w, g), H) /\ g \in 1..n
    BY <1>1, <1>3, <1>8
  <2> DEFINE f == Len(FileOf[w])
  <2>2. f \in Nat /\ FileEnd(w, g) = g + 5 + f /\ g + 5 + f <= n
    BY <1>2, <2>1 DEF FileEnd, PutAt, n
  <2> HIDE DEF f
  <2>3. \A d \in 0 .. 5 + f : g + d \in 1..n
    BY <1>1, <2>1, <2>2
  <2>4. \A d \in 0 .. 5 + f : u[g + d] = s[g + d]
    BY <1>1, <2>3
  <2>5. FileEnd(w, g) <= Len(u)
    BY <1>1, <2>2
  <2>6. /\ u[g] = s[g] /\ u[g + 1] = s[g + 1] /\ u[g + 2] = s[g + 2]
        /\ u[g + 3] = s[g + 3] /\ u[g + 4] = s[g + 4] /\ u[g + 5] = s[g + 5]
    BY <1>1, <2>1, <2>2, <2>4
  <2>7. \A k \in 1..f : u[g + 5 + k] = s[g + 5 + k]
    <3>1. \A k \in 1..f : 5 + k \in 0 .. 5 + f /\ g + (5 + k) = g + 5 + k
      BY <2>1, <2>2
    <3>2. QED
      BY <2>4, <3>1
  <2>8. PutAt(u, w, g)
    BY <2>1, <2>5, <2>6, <2>7 DEF PutAt, f
  <2>9. FileEnd(w, g) \in Nat /\ FileEnd(w, g) <= n
    BY <2>1, <2>2
  <2>10. QED
    BY <1>7, <2>1, <2>8, <2>9
<1>9. ASSUME t[1] = "put"
      PROVE  PutAt(u, w, n + 1) /\ Loud(u, FileEnd(w, n + 1), G)
  <2> DEFINE f == Len(FileOf[w])
  <2>1. f \in Nat /\ PutAt(t, w, 1) /\ Len(t) = 6 + f
    BY <1>2, <1>9 DEF Chunk, FileEnd
  <2> HIDE DEF f
  <2>2. FileEnd(w, n + 1) = Len(u)
    <3>1. FileEnd(w, n + 1) = (n + 1) + 5 + f
      BY DEF FileEnd, f
    <3>2. n \in Nat /\ f \in Nat /\ Len(u) = n + (6 + f)
      BY <1>1, <2>1
    <3>3. QED
      BY <3>1, <3>2
  <2>3. /\ u[n + 1] = t[1] /\ u[n + 2] = t[2] /\ u[n + 3] = t[3]
        /\ u[n + 4] = t[4] /\ u[n + 5] = t[5] /\ u[n + 6] = t[6]
    BY <1>1, <2>1
  <2>4. /\ (n + 1) + 1 = n + 2 /\ (n + 1) + 2 = n + 3 /\ (n + 1) + 3 = n + 4
        /\ (n + 1) + 4 = n + 5 /\ (n + 1) + 5 = n + 6 /\ Len(u) <= Len(u)
    BY <1>1
  <2>5. \A k \in 1..f : u[(n + 1) + 5 + k] = FileOf[w][k]
    <3>1. \A k \in 1..f : 6 + k \in 1..Len(t) /\ n + (6 + k) = (n + 1) + 5 + k
                          /\ 1 + 5 + k = 6 + k
      BY <1>1, <2>1
    <3>2. \A k \in 1..f : t[6 + k] = FileOf[w][k]
      BY <2>1, <3>1 DEF PutAt, f
    <3>3. QED
      BY <1>1, <3>1, <3>2
  <2>6. /\ t[1] = "put" /\ t[2] = SP /\ t[3] \in Words /\ t[4] = SP
        /\ t[5] = Size[Len(FileOf[w])] /\ t[6] = NL
    BY <2>1 DEF PutAt
  <2>7. PutAt(u, w, n + 1)
    BY <2>2, <2>3, <2>4, <2>5, <2>6 DEF PutAt, f
  <2>8. Loud(u, Len(u), G)
    BY <1>1 DEF Loud
  <2>9. QED
    BY <2>2, <2>7, <2>8
<1>10. \A g \in G : PutAt(u, w, g) /\ Loud(u, FileEnd(w, g), G)
  BY <1>8, <1>9 DEF G
<1>11. Loud(u, b, G)
  BY <1>3, <1>7 DEF n
<1>12. StreamFrom(u, w, b)
  BY <1>4, <1>10, <1>11 DEF StreamFrom
<1>13. QED
  BY <1>12 DEF u

\* A string whose first letter stands alone has that letter for its first token.
LEMMA LoneToken ==
  ASSUME NEW s \in Seq(Symbols), NEW m \in Letters(s), \A i \in Letters(s) : m <= i,
         m + 1 <= Len(s), s[m + 1] \in {SP, NL}
  PROVE  Letters(s) # {} /\ Token(s) = <<s[m]>> /\ Rest(s) = SubSeq(s, m + 2, Len(s))
<1>1. Len(s) \in Nat /\ DOMAIN s = 1..Len(s) /\ \A i \in 1..Len(s) : s[i] \in Symbols
  BY LenProperties, ElementOfSeq
<1>2. Letters(s) \subseteq Nat /\ m \in 1..Len(s)
  BY <1>1 DEF Letters
<1>3. Min(Letters(s)) = m
  BY <1>2, MinIs
<1>4. m + 1 \notin Letters(s)
  BY DEF Letters
<1>5. TokenEnd(s) = m + 1
  <2> DEFINE ends == {i \in m + 1 .. Len(s) + 1 : i \notin Letters(s)}
  <2>1. ends \subseteq Nat /\ m + 1 \in ends /\ \A x \in ends : m + 1 <= x
    BY <1>1, <1>2, <1>4
  <2>2. TokenEnd(s) = Min(ends)
    BY <1>3 DEF TokenEnd
  <2> HIDE DEF ends
  <2>3. QED
    BY <2>1, <2>2, MinIs
<1>6. Token(s) = <<s[m]>>
  <2>1. Token(s) = SubSeq(s, m, m)
    BY <1>2, <1>3, <1>5 DEF Token
  <2>2. /\ Len(SubSeq(s, m, m)) = 1 /\ SubSeq(s, m, m) \in Seq(Symbols)
        /\ SubSeq(s, m, m)[1] = s[m]
    BY <1>1, <1>2, SubSeqProperties
  <2> DEFINE x == s[m]
             t == SubSeq(s, m, m)
  <2>3. x \in Symbols
    BY <1>1, <1>2
  <2> HIDE DEF x, t
  <2>4. t \in Seq(Symbols) /\ <<x>> \in Seq(Symbols) /\ Len(t) = Len(<<x>>)
        /\ \A i \in 1..Len(t) : t[i] = <<x>>[i]
    BY <2>2, <2>3 DEF x, t
  <2>5. t = <<x>>
    BY <2>4, SeqEqual
  <2>6. QED
    BY <2>1, <2>5 DEF x, t
<1>7. Rest(s) = SubSeq(s, m + 2, Len(s))
  <2>1. (m + 1) + 1 = m + 2
    BY <1>2
  <2>2. QED
    BY <1>5, <2>1 DEF Rest
<1>8. QED
  BY <1>6, <1>7

\* The header begins the line, so "put" is the first token, and name and size
\* are left.
LEMMA PutLineToken ==
  ASSUME NEW w \in Clients, NEW l \in Seq(Symbols), PutLine(l, w)
  PROVE  /\ Letters(l) # {} /\ Token(l) = <<"put">>
         /\ Rest(l) \in Seq(Symbols) /\ NameLeft(Rest(l), w)
<1>1. PICK m \in Letters(l) :
        /\ \A i \in Letters(l) : m <= i
        /\ Len(l) = m + 5
        /\ l[m] = "put" /\ l[m + 1] = SP /\ l[m + 2] \in Words /\ l[m + 3] = SP
        /\ l[m + 4] = Size[Len(FileOf[w])] /\ l[m + 5] = NL
  BY DEF PutLine
<1>2. m \in Nat /\ m >= 1
  BY LenProperties DEF Letters
<1>3. m + 1 <= Len(l)
  BY <1>1, <1>2
<1>4. Letters(l) # {} /\ Token(l) = <<l[m]>> /\ Rest(l) = SubSeq(l, m + 2, Len(l))
  BY <1>1, <1>3, LoneToken
<1>5. m + 1 \in 0..Len(l) /\ (m + 1) + 1 = m + 2 /\ Len(l) - (m + 1) = 4
  BY <1>1, <1>2
<1>6. /\ Rest(l) \in Seq(Symbols) /\ Len(Rest(l)) = 4
      /\ \A i \in 1..4 : Rest(l)[i] = l[(m + 1) + i]
  BY <1>4, <1>5, DropFacts
<1>7. /\ (m + 1) + 1 = m + 2 /\ (m + 1) + 2 = m + 3 /\ (m + 1) + 3 = m + 4
      /\ (m + 1) + 4 = m + 5
  BY <1>2
<1>8. NameLeft(Rest(l), w)
  BY <1>1, <1>6, <1>7 DEF NameLeft
<1>9. QED
  BY <1>1, <1>4, <1>6, <1>8

\* The name is the next token, and the size is left.
LEMMA NameToken ==
  ASSUME NEW w \in Clients, NEW s \in Seq(Symbols), NameLeft(s, w)
  PROVE  Letters(s) # {} /\ SizeLeft(Rest(s), w)
<1>1. 1 \in Letters(s) /\ \A i \in Letters(s) : 1 <= i
  BY LenProperties, WordFacts DEF Letters, NameLeft
<1>2. Letters(s) # {} /\ Rest(s) = SubSeq(s, 1 + 2, Len(s))
  <2>1. 1 + 1 <= Len(s) /\ s[1 + 1] \in {SP, NL}
    BY DEF NameLeft
  <2>2. QED
    BY <1>1, <2>1, LoneToken
<1>3. 2 \in 0..Len(s) /\ Len(s) - 2 = 2
  BY DEF NameLeft
<1>4. /\ Len(Rest(s)) = 2 /\ \A i \in 1..2 : Rest(s)[i] = s[2 + i]
  <2> DEFINE t == SubSeq(s, 2 + 1, Len(s))
  <2>1. t \in Seq(Symbols) /\ Len(t) = Len(s) - 2 /\ \A i \in 1 .. Len(s) - 2 : t[i] = s[2 + i]
    BY <1>3, DropFacts
  <2>2. Rest(s) = t
    BY <1>2
  <2>3. QED
    BY <1>3, <2>1, <2>2
<1>5. SizeLeft(Rest(s), w)
  BY <1>4 DEF NameLeft, SizeLeft
<1>6. QED
  BY <1>2, <1>5

\* The size is the last token, and nothing is left.
LEMMA SizeToken ==
  ASSUME NEW w \in Clients, NEW s \in Seq(Symbols), SizeLeft(s, w)
  PROVE  Letters(s) # {} /\ Token(s) = <<Size[Len(FileOf[w])]>> /\ Rest(s) = <<>>
<1>1. s[1] \in Words
  BY StreamFacts DEF SizeLeft
<1>2. 1 \in Letters(s) /\ \A i \in Letters(s) : 1 <= i
  BY <1>1, LenProperties, WordFacts DEF Letters, SizeLeft
<1>3. 1 + 1 <= Len(s) /\ s[1 + 1] \in {SP, NL}
  BY DEF SizeLeft
<1>4. Letters(s) # {} /\ Token(s) = <<s[1]>> /\ Rest(s) = SubSeq(s, 1 + 2, Len(s))
  BY <1>2, <1>3, LoneToken
<1>5. SubSeq(s, 3, 2) = <<>>
  BY SubSeqEmpty
<1>6. QED
  BY <1>4, <1>5 DEF SizeLeft

\* What the worker finds when it reads a line: a put comes with its header, and
\* its file is next.
LEMMA LineFramed ==
  ASSUME NEW w \in Clients, up[w] \in Seq(Symbols), StreamFrom(up[w], w, 0), LineLen(w) > 0
  PROVE  LET l == SubSeq(up[w], 1, LineLen(w))
             r == SubSeq(up[w], LineLen(w) + 1, Len(up[w]))
         IN /\ StreamFrom(r, w, 0)
            /\ OpensPut(l) => FileFollows(r, w, 0) /\ PutLine(l, w)
<1> DEFINE s == up[w]
           n == LineLen(w)
           l == SubSeq(s, 1, n)
           r == SubSeq(s, n + 1, Len(s))
<1>1. /\ s \in Seq(Symbols) /\ Len(s) \in Nat /\ DOMAIN s = 1..Len(s)
      /\ \A i \in 1..Len(s) : s[i] \in Symbols
      /\ Len(FileOf[w]) \in Nat /\ Size[Len(FileOf[w])] \in Words
  BY StreamFacts
<1>2. /\ n \in 1..Len(s)
      /\ \/ s[n] = NL /\ \A i \in DOMAIN s : s[i] = NL => n <= i
         \/ (\A i \in DOMAIN s : s[i] # NL) /\ n = Len(s)
  BY LineLenFacts
<1>3. PICK H \in SUBSET {i \in DOMAIN s : s[i] = "put"} :
        /\ \A h \in H : PutAt(s, w, h) /\ Loud(s, FileEnd(w, h), H)
        /\ Loud(s, 0, H)
  BY DEF StreamFrom
<1> HIDE DEF s, n
<1>0. n \in Nat /\ 1 <= n /\ n <= Len(s) /\ Len(s) \in Nat /\ n \in DOMAIN s
  <2>1. n \in 1..Len(s) /\ Len(s) \in Nat /\ DOMAIN s = 1..Len(s)
    BY <1>1, <1>2
  <2>2. QED
    BY <2>1
<1>4. Loud(s, n, H)
  <2>1. CASE s[n] = NL
    <3>1. 0 \in Nat /\ 0 <= n
      BY <1>0
    <3>2. QED
      BY <1>0, <1>1, <1>3, <2>1, <3>1, LoudAfterNewline
  <2>2. CASE n = Len(s)
    BY <1>1, <2>2 DEF Loud
  <2>3. QED
    BY <1>2, <2>1, <2>2
<1>5. StreamFrom(s, w, n)
  BY <1>3, <1>4 DEF StreamFrom
<1>6. StreamFrom(r, w, 0)
  <2>1. n \in Nat /\ n <= n /\ n <= Len(s) /\ n - n = 0
    BY <1>0
  <2>2. QED
    BY <1>1, <1>5, <2>1, StreamCut
<1>7. l \in Seq(Symbols) /\ Len(l) = n /\ DOMAIN l = 1..n /\ \A i \in 1..n : l[i] = s[i]
  <2>1. \A i \in 1..n : i \in 1..Len(s)
    BY <1>0
  <2>2. n \in Int /\ n >= 1 /\ n - 1 + 1 = n /\ \A i \in 1..n : 1 + i - 1 = i
    BY <1>0
  <2>3. l \in Seq(Symbols) /\ Len(l) = n /\ \A i \in 1..n : l[i] = s[i]
    BY <1>1, <2>1, <2>2, SubSeqProperties
  <2> HIDE DEF l
  <2>4. QED
    BY <2>3, LenProperties
<1> HIDE DEF l
<1>8. ASSUME OpensPut(l)
      PROVE  FileFollows(r, w, 0) /\ PutLine(l, w)
  <2> DEFINE m == Min(Letters(l))
             f == Len(FileOf[w])
  <2>1. /\ m \in Letters(l) /\ \A i \in Letters(l) : m <= i
        /\ l[m] = "put"
    BY <1>7, <1>8, TokenFacts DEF OpensPut
  <2> HIDE DEF m, f
  <2>2. m \in 1..n /\ m \in DOMAIN s /\ s[m] = "put" /\ f \in Nat
    <3>1. m \in 1..n
      BY <1>7, <2>1 DEF Letters
    <3>2. m \in DOMAIN s /\ s[m] = l[m]
      BY <1>0, <1>1, <1>7, <3>1
    <3>3. QED
      BY <1>1, <2>1, <3>1, <3>2 DEF f
  <2>3. m \in H
    <3>1. ASSUME Quiet(s, 0, m)
          PROVE  FALSE
      <4>1. PICK j \in DOMAIN s : j < m /\ s[j] \notin {SP, NL}
        BY <3>1 DEF Quiet
      <4>2. j \in 1..n
        <5>1. j \in 1..Len(s) /\ m \in 1..n /\ j < m
          BY <1>1, <2>2, <4>1
        <5>2. QED
          BY <1>0, <5>1
      <4>3. j \in Letters(l)
        BY <1>7, <4>1, <4>2 DEF Letters
      <4>4. QED
        BY <2>1, <2>2, <4>1, <4>2, <4>3
    <3>2. QED
      BY <1>1, <1>3, <2>2, <3>1 DEF Loud
  <2>4. /\ m + 5 + f <= Len(s)
        /\ s[m] = "put" /\ s[m + 1] = SP /\ s[m + 2] \in Words /\ s[m + 3] = SP
        /\ s[m + 4] = Size[Len(FileOf[w])] /\ s[m + 5] = NL
        /\ \A k \in 1..f : s[m + 5 + k] = FileOf[w][k]
        /\ Loud(s, m + 5 + f, H)
    BY <1>3, <2>3 DEF PutAt, FileEnd, f
  <2>5. m + 5 \in DOMAIN s /\ n <= m + 5
    <3>1. m + 5 \in DOMAIN s
      BY <1>1, <2>2, <2>4
    <3>2. QED
      BY <1>2, <2>4, <3>1
  <2>6. s[n] = NL
    BY <1>2, <2>4, <2>5
  <2>7. n = m + 5
    <3>1. n # m /\ n # m + 1 /\ n # m + 2 /\ n # m + 3 /\ n # m + 4
      BY <1>1, <2>4, <2>6, WordFacts
    <3>2. m \in Nat /\ m <= n /\ n <= m + 5
      BY <1>0, <2>2, <2>5
    <3>3. QED
      BY <1>0, <3>1, <3>2
  <2>8. PutLine(l, w)
    <3>1. /\ m \in 1..n /\ m + 1 \in 1..n /\ m + 2 \in 1..n /\ m + 3 \in 1..n
          /\ m + 4 \in 1..n /\ m + 5 \in 1..n
      BY <2>2, <2>7
    <3>2. /\ l[m] = s[m] /\ l[m + 1] = s[m + 1] /\ l[m + 2] = s[m + 2] /\ l[m + 3] = s[m + 3]
          /\ l[m + 4] = s[m + 4] /\ l[m + 5] = s[m + 5]
      BY <1>7, <3>1
    <3>3. QED
      BY <1>7, <2>1, <2>4, <2>7, <3>2 DEF PutLine
  <2>9. FileFollows(r, w, 0)
    <3>1. n \in 0..Len(s) /\ n \in Nat /\ n <= n + f /\ n + f <= Len(s) /\ (n + f) - n = f
          /\ n + f \in Nat
      BY <1>1, <1>2, <2>2, <2>4, <2>7
    <3>2. /\ Len(r) = Len(s) - n
          /\ \A i \in 1 .. Len(s) - n : r[i] = s[n + i]
      BY <1>1, <3>1, DropFacts
    <3>3. StreamFrom(s, w, n + f)
      BY <1>3, <2>4, <2>7 DEF StreamFrom
    <3>4. StreamFrom(r, w, f)
      BY <1>1, <3>1, <3>3, StreamCut
    <3> HIDE DEF r
    <3>5. f <= Len(r) /\ \A k \in 1..f : k \in 1 .. Len(s) - n
      BY <1>1, <2>2, <3>1, <3>2
    <3>6. \A k \in 1..f : r[k] = FileOf[w][k]
      BY <2>4, <2>7, <3>2, <3>5
    <3>7. /\ f - 0 = f /\ 0 + 1 = 1 /\ \A k \in 1..f : k - 0 = k
      BY <2>2
    <3>8. QED
      BY <3>4, <3>5, <3>6, <3>7 DEF FileFollows, f
  <2>10. QED
    BY <2>8, <2>9
<1>9. QED
  BY <1>6, <1>8 DEF l, r, s, n

\* What was sent joins what is on its way, wherever the worker is.
LEMMA FollowsGrows ==
  ASSUME PlainFiles, NEW w \in Clients, NEW s \in Seq(Symbols), NEW t, Chunk(t, w),
         NEW n \in Nat, n <= Len(FileOf[w]), FileFollows(s, w, n)
  PROVE  FileFollows(s \o t, w, n)
<1> DEFINE f == Len(FileOf[w])
<1>1. f \in Nat /\ f - n \in Nat /\ f - n <= Len(s)
  BY StreamFacts DEF FileFollows
<1>2. StreamFrom(s \o t, w, f - n)
  BY <1>1, StreamGrows DEF FileFollows
<1>3. /\ Len(s) \in Nat /\ Len(t) \in Nat /\ Len(s \o t) = Len(s) + Len(t)
      /\ \A i \in 1..Len(s) : (s \o t)[i] = s[i]
  BY JoinFacts DEF Chunk
<1>4. \A k \in n + 1 .. f : s[k - n] = FileOf[w][k]
  BY DEF FileFollows
<1> HIDE DEF f
<1>5. f - n <= Len(s \o t)
  BY <1>1, <1>3
<1>6. \A k \in n + 1 .. f : k - n \in 1..Len(s)
  BY <1>1, <1>3
<1>7. QED
  BY <1>2, <1>3, <1>4, <1>5, <1>6 DEF FileFollows, f

-----------------------------------------------------------------------------
(* Files: every step keeps the invariant *)

\* Nothing of a client's stream or worker has changed.
Unmoved(v) ==
    /\ worker'[v].at = worker[v].at /\ worker'[v].line = worker[v].line
    /\ worker'[v].args = worker[v].args /\ worker'[v].got = worker[v].got
    /\ up'[v] = up[v]

\* A worker that relies on strtok()'s position and on the file as they are
\* finds them so.
LEMMA UnmovedFramed ==
  ASSUME NEW v \in Clients, Framed(v), Unmoved(v),
         Routes(v) => shared'.scan = shared.scan /\ stored' = stored
  PROVE  Framed(v)'
<1>1. worker[v].at \in {"split", "execute", "put"} =>
        shared'.scan = shared.scan /\ stored' = stored
  BY DEF Routes, Inside
<1>2. Streams(v)' /\ PutNext(v)'
  BY DEF Framed, Unmoved, Streams, PutNext
<1>3. Arguments(v)'
  BY <1>1 DEF Framed, Unmoved, Arguments
<1>4. Putting(v)'
  BY <1>1 DEF Framed, Unmoved, Putting
<1>5. QED
  BY <1>2, <1>3, <1>4 DEF Framed

\* One worker's step keeps the invariant when it keeps what is known of that
\* worker, and touches strtok()'s position and the file only inside a command.
LEMMA StepFramed ==
  ASSUME Inv, Framing, NEW w \in Clients,
         shared'.overlap \/ ~shared.overlap,
         \A v \in Clients \ {w} : Unmoved(v),
         Routes(w) \/ (shared'.scan = shared.scan /\ stored' = stored),
         ~shared.overlap /\ ~shared'.overlap =>
           Framed(w)' /\ stored' \in {<<>>} \cup {FileOf[c] : c \in Clients}
  PROVE  Framing'
<1> SUFFICES ASSUME ~shared'.overlap
             PROVE  \A v \in Clients : Framed(v)'
  BY DEF Framing
<1>1. ~shared.overlap /\ Framed(w)'
  OBVIOUS
<1>2. ASSUME NEW v \in Clients, v # w
      PROVE  Framed(v)'
  <2>1. Routes(v) => shared'.scan = shared.scan /\ stored' = stored
    BY <1>1, <1>2 DEF Inv, Routed
  <2>2. Framed(v) /\ Unmoved(v)
    BY <1>1, <1>2 DEF Framing
  <2>3. QED
    BY <2>1, <2>2, UnmovedFramed
<1>3. QED
  BY <1>1, <1>2

\* What a user's step sends.
LEMMA UserChunk ==
  ASSUME ClientsTyped, NEW c \in Clients, UserStep(c)
  PROVE  \/ up' = up
         \/ \E t : Chunk(t, c) /\ up' = [up EXCEPT ![c] = @ \o t]
<1>1. ASSUME NEW t, Chunk(t, c), Send(c, t)
      PROVE  up' = up \/ (Chunk(t, c) /\ up' = [up EXCEPT ![c] = @ \o t])
  BY <1>1 DEF Send, ClientsTyped
<1>2. ASSUME NEW a, Types(c, a), ClientLaunch(c, a)
      PROVE  \E t : Chunk(t, c) /\ Send(c, t)
  <2> DEFINE t == [k \in 1..2 * Len(a) |-> IF k % 2 = 1 THEN a[(k + 1) \div 2] ELSE SP]
  <2>1. a \in Seq(Words) /\ Len(a) \in Nat /\ Len(a) > 0
    BY <1>2, TypedLine
  <2>2. /\ t \in Seq(Symbols) /\ Len(t) = 2 * Len(a) /\ t[1] = a[1]
        /\ \A k \in 1..Len(t) : t[k] # NL
    BY <2>1, LaunchText
  <2>3. Send(c, t) /\ a[1] # "put"
    BY <1>2 DEF ClientLaunch
  <2>4. a[1] \in Words /\ a[1] # SP /\ a[1] # NL
    BY <2>1, ElementOfSeq, WordFacts
  <2> HIDE DEF t
  <2>5. DOMAIN t = 1..Len(t) /\ Len(t) > 0
    BY <2>1, <2>2, LenProperties
  <2>6. Chunk(t, c)
    BY <2>2, <2>3, <2>4, <2>5 DEF Chunk
  <2>7. QED
    BY <2>3, <2>6
<1>3. ASSUME NEW a, Types(c, a), ClientPut(c, a)
      PROVE  \E t : Chunk(t, c) /\ Send(c, t)
  <2> DEFINE t == <<"put", SP, a[2], SP, Size[Len(FileOf[c])], NL>> \o FileOf[c]
  <2>1. a \in Seq(Words) /\ Len(a) \in Nat /\ Len(a) > 1
    BY <1>3, TypedLine DEF ClientPut
  <2>2. a[2] \in Words
    BY <2>1, ElementOfSeq
  <2>3. /\ t \in Seq(Symbols) /\ Len(FileOf[c]) \in Nat /\ Len(t) = 6 + Len(FileOf[c])
        /\ t[1] = "put" /\ t[2] = SP /\ t[3] = a[2] /\ t[4] = SP
        /\ t[5] = Size[Len(FileOf[c])] /\ t[6] = NL
        /\ \A k \in 1..Len(FileOf[c]) : t[6 + k] = FileOf[c][k]
    BY <2>2, PutText
  <2>4. Send(c, t)
    BY <1>3 DEF ClientPut
  <2> HIDE DEF t
  <2>5. FileEnd(c, 1) = Len(t) /\ Len(t) > 0
    BY <2>3 DEF FileEnd
  <2>6. PutAt(t, c, 1)
    <3>1. FileEnd(c, 1) <= Len(t)
      BY <2>3, <2>5
    <3>2. /\ 1 + 1 = 2 /\ 1 + 2 = 3 /\ 1 + 3 = 4 /\ 1 + 4 = 5 /\ 1 + 5 = 6
      OBVIOUS
    <3>3. QED
      BY <2>2, <2>3, <3>1, <3>2 DEF PutAt
  <2>7. Chunk(t, c)
    BY <2>3, <2>5, <2>6 DEF Chunk
  <2>8. QED
    BY <2>4, <2>7
<1>4. ASSUME NEW a, Types(c, a), ClientGet(c, a)
      PROVE  \E t : Chunk(t, c) /\ Send(c, t)
  <2>1. a \in Seq(Words) /\ Len(a) \in Nat /\ Len(a) > 1
    BY <1>4, TypedLine DEF ClientGet
  <2>2. a[2] \in Words
    BY <2>1, ElementOfSeq
  <2>3. Chunk(<<"get", a[2]>>, c)
    BY <2>2, WordFacts DEF Chunk
  <2>4. QED
    BY <1>4, <2>3 DEF ClientGet
<1>5. Chunk(<<"exit">>, c)
  BY WordFacts DEF Chunk
<1>6. ASSUME NEW a, Types(c, a), ClientExit(c, a)
      PROVE  \E t : Chunk(t, c) /\ Send(c, t)
  BY <1>5, <1>6 DEF ClientExit
<1>7. ASSUME NEW a, ClientPutFaults(c, a)
      PROVE  up' = up
  BY <1>7 DEF ClientPutFaults
<1>8. CASE ClientKilled(c)
  BY <1>8 DEF ClientKilled
<1>9. ASSUME \E t : Chunk(t, c) /\ Send(c, t)
      PROVE  up' = up \/ \E t : Chunk(t, c) /\ up' = [up EXCEPT ![c] = @ \o t]
  BY <1>1, <1>9
<1>10. ASSUME NEW a, \/ ClientLaunch(c, a) \/ ClientPut(c, a) \/ ClientPutFaults(c, a)
                     \/ ClientGet(c, a) \/ ClientExit(c, a)
       PROVE  up' = up \/ \E t : Chunk(t, c) /\ Send(c, t)
  <2>1. Types(c, a) \/ ClientPutFaults(c, a)
    BY <1>10 DEF ClientLaunch, ClientPut, ClientGet, ClientExit
  <2>2. QED
    BY <1>2, <1>3, <1>4, <1>6, <1>7, <1>10, <2>1
<1>11. QED
  BY <1>8, <1>9, <1>10 DEF UserStep

\* A user's step.
LEMMA UserFramed ==
  ASSUME PlainFiles, Inv, Typed, Framing, NEW c \in Clients, UserStep(c)
  PROVE  Framing'
<1>1. worker' = worker /\ stored' = stored
  BY DEF UserStep, ClientLaunch, ClientPut, ClientPutFaults, ClientGet, ClientExit, ClientKilled
<1>2. shared'.overlap = shared.overlap /\ shared'.scan = shared.scan
  <2>1. shared' = shared \/ \E b : shared' = [shared EXCEPT !.alive = b]
    BY DEF UserStep, ClientLaunch, ClientPut, ClientPutFaults, ClientGet, ClientExit, ClientKilled
  <2>2. QED
    BY <2>1 DEF Inv, Shapes
<1>3. up \in [Clients -> Seq(Symbols)] /\ ClientsTyped
  BY DEF Typed, ClientsTyped
<1>4. \A v \in Clients \ {c} : Unmoved(v)
  <2>1. \A v \in Clients \ {c} : up'[v] = up[v]
    BY <1>3, UserChunk
  <2>2. QED
    BY <1>1, <2>1 DEF Unmoved
<1>5. ASSUME ~shared.overlap
      PROVE  Framed(c)'
  <2>1. Framed(c)
    BY <1>5 DEF Framing
  <2>2. CASE up' = up
    <3>1. Unmoved(c)
      BY <1>1, <2>2 DEF Unmoved
    <3>2. QED
      BY <1>1, <1>2, <2>1, <3>1, UnmovedFramed
  <2>3. ASSUME NEW t, Chunk(t, c), up' = [up EXCEPT ![c] = @ \o t]
        PROVE  Framed(c)'
    <3>1. up'[c] = up[c] \o t /\ up[c] \in Seq(Symbols) /\ Len(up[c]) \in Nat
      BY <1>3, <2>3, LenProperties
    <3>2. Streams(c)'
      <4>1. ASSUME worker[c].at # "put"
            PROVE  StreamFrom(up[c] \o t, c, 0)
        <5>1. StreamFrom(up[c], c, 0) /\ 0 <= Len(up[c]) /\ 0 \in Nat
          BY <2>1, <3>1, <4>1 DEF Framed, Streams
        <5>2. QED
          BY <2>3, <3>1, <5>1, StreamGrows
      <4>2. QED
        BY <1>1, <3>1, <4>1 DEF Streams
    <3>3. PutNext(c)'
      <4>1. ASSUME FileFollows(up[c], c, 0)
            PROVE  FileFollows(up[c] \o t, c, 0)
        <5>1. 0 \in Nat /\ 0 <= Len(FileOf[c])
          BY <3>1, StreamFacts
        <5>2. QED
          BY <2>3, <3>1, <4>1, <5>1, FollowsGrows
      <4>2. QED
        BY <1>1, <2>1, <3>1, <4>1 DEF Framed, PutNext
    <3>4. Arguments(c)'
      BY <1>1, <1>2, <2>1 DEF Framed, Arguments
    <3>5. Putting(c)'
      <4> DEFINE n == Len(worker[c].got)
      <4>1. ASSUME FileFollows(up[c], c, n), n <= Len(FileOf[c])
            PROVE  FileFollows(up[c] \o t, c, n)
        <5>1. n \in Nat
          BY LenProperties DEF Typed, WorkersTyped
        <5> HIDE DEF n
        <5>2. QED
          BY <2>3, <3>1, <4>1, <5>1, FollowsGrows
      <4>2. QED
        BY <1>1, <2>1, <3>1, <4>1 DEF Framed, Putting
    <3>6. QED
      BY <3>2, <3>3, <3>4, <3>5 DEF Framed
  <2>4. QED
    BY <1>3, <2>2, <2>3, UserChunk
<1>6. ~shared.overlap => stored' \in {<<>>} \cup {FileOf[v] : v \in Clients}
  BY <1>1 DEF Framing
<1>7. QED
  BY <1>1, <1>2, <1>4, <1>5, <1>6, StepFramed

\* A worker that is neither putting nor handling a command has its stream as it was.
LEMMA IdleFramed ==
  ASSUME NEW w \in Clients, Framed(w), worker[w].at # "put", up'[w] = up[w],
         worker'[w].at \notin {"line", "split", "execute", "put"}
  PROVE  Framed(w)'
BY DEF Framed, Streams, PutNext, Arguments, Putting

\* Steps that touch neither a stream nor strtok()'s position nor the file.
LEMMA ElsewhereFramed ==
  ASSUME Inv, Typed, Framing, NEW w \in Clients,
         \/ WorkerTop(w) \/ WorkerShow(w) \/ WorkerStamp(w) \/ WorkerReadEof(w)
         \/ WorkerGetListens(w) \/ WorkerWallCopied(w) \/ WorkerWallCopies(w)
         \/ WorkerCd(w) \/ WorkerLaunch(w) \/ WorkerWallStamps(w) \/ WorkerGetNeedsName(w)
  PROVE  Framing'
<1> USE DEF Typed
<1>0. Shapes
  BY DEF Inv
<1>1. up' = up /\ stored' = stored
  BY DEF WorkerTop, WorkerShow, WorkerStamp, WorkerReadEof, WorkerGetListens, WorkerWallCopied,
         WorkerWallCopies, WorkerCd, WorkerLaunch, WorkerWallStamps, WorkerGetNeedsName,
         client_side
<1>2. worker[w].at # "put"
  BY DEF WorkerTop, WorkerShow, WorkerStamp, WorkerReadEof, WorkerGetListens, WorkerWallCopied,
         WorkerWallCopies, WorkerCd, WorkerLaunch, WorkerWallStamps, WorkerGetNeedsName,
         Executes, At
<1>3. /\ \E p, l, a, g :
           p \notin {"line", "split", "execute", "put"} /\ Became(w, p, l, a, g)
      /\ shared'.scan = shared.scan /\ shared'.overlap = shared.overlap
  <2>1. CASE WorkerTop(w) \/ WorkerStamp(w)
    <3>1. shared' = shared
      BY <2>1 DEF WorkerTop, WorkerStamp
    <3>2. PICK p \in {"show", "read"} :
            Became(w, p, worker[w].line, worker[w].args, worker[w].got)
      BY <1>0, <2>1, TopBecomes, StampBecomes
    <3>3. QED
      BY <3>1, <3>2
  <2>2. CASE \/ WorkerShow(w) \/ WorkerReadEof(w) \/ WorkerGetListens(w) \/ WorkerWallCopied(w)
    <3>1. PICK p \in {"stamp", "top", "accept", "wall"} : Goes(w, p)
      BY <2>2 DEF WorkerShow, WorkerReadEof, WorkerGetListens, WorkerWallCopied
    <3>2. Became(w, p, worker[w].line, worker[w].args, worker[w].got)
      BY <1>0, <3>1, GoesBecomes
    <3>3. shared' = shared \/ shared' = [shared EXCEPT !.port = TRUE]
      BY <2>2 DEF WorkerShow, WorkerReadEof, WorkerGetListens, WorkerWallCopied, client_side
    <3>4. shared'.scan = shared.scan /\ shared'.overlap = shared.overlap
      BY <1>0, <3>3 DEF Shapes
    <3>5. QED
      BY <3>2, <3>4
  <2>3. CASE WorkerWallCopies(w)
    <3>1. shared' = shared
      BY <2>3 DEF WorkerWallCopies
    <3>2. Became(w, "half", worker[w].line, worker[w].args, worker[w].got)
      BY <1>0, <2>3, WallCopiesBecomes
    <3>3. QED
      BY <3>1, <3>2
  <2>4. CASE WorkerCd(w)
    <3>1. PICK p \in {"top", "closed"} : Became(w, p, <<>>, <<>>, <<>>)
      BY <1>0, <2>4, CdBecomes
    <3>2. shared'.scan = shared.scan /\ shared'.overlap = shared.overlap
      BY <1>0, <2>4, CdBecomes DEF SharedBut
    <3>3. QED
      BY <3>1, <3>2
  <2>5. CASE WorkerLaunch(w) \/ WorkerWallStamps(w) \/ WorkerGetNeedsName(w)
    <3>1. Echo(w, shared)
      BY <2>5 DEF WorkerLaunch, WorkerWallStamps, WorkerGetNeedsName
    <3>2. PICK p \in {"top", "closed"} : Became(w, p, <<>>, <<>>, <<>>)
      BY <1>0, <3>1, EchoBecomes
    <3>3. shared'.scan = shared.scan /\ shared'.overlap = shared.overlap
      BY <1>0, <3>1, EchoBecomes DEF SharedBut
    <3>4. QED
      BY <3>2, <3>3
  <2>6. QED
    BY <2>1, <2>2, <2>3, <2>4, <2>5
<1>4. PICK p, l, a, g : p \notin {"line", "split", "execute", "put"} /\ Became(w, p, l, a, g)
  BY <1>3
<1>5. \A v \in Clients \ {w} : Unmoved(v)
  BY <1>1, <1>4 DEF Became, Unmoved
<1>6. worker'[w].at \notin {"line", "split", "execute", "put"}
  BY <1>4 DEF Became
<1>7. ~shared.overlap => Framed(w)' /\ stored' \in {<<>>} \cup {FileOf[c] : c \in Clients}
  <2>1. ASSUME ~shared.overlap
        PROVE  Framed(w) /\ stored \in {<<>>} \cup {FileOf[c] : c \in Clients}
    BY <2>1 DEF Framing
  <2>2. QED
    BY <1>1, <1>2, <1>6, <2>1, IdleFramed
<1>8. QED
  BY <1>1, <1>3, <1>5, <1>7, StepFramed

\* A line is read.
LEMMA ReadLineFramed ==
  ASSUME Inv, Typed, Framing, NEW w \in Clients, WorkerReadLine(w)
  PROVE  Framing'
<1> USE DEF Typed
<1> DEFINE l == SubSeq(up[w], 1, LineLen(w))
           r == SubSeq(up[w], LineLen(w) + 1, Len(up[w]))
<1>0. Shapes
  BY DEF Inv
<1>1. /\ shared' = shared /\ stored' = stored /\ worker[w].at = "read" /\ LineLen(w) > 0
      /\ up' = [up EXCEPT ![w] = r]
  BY DEF WorkerReadLine, At
<1>2. Became(w, "line", l, worker[w].args, worker[w].got)
  BY <1>0, ReadLineBecomes
<1>3. up[w] \in Seq(Symbols) /\ up'[w] = r /\ \A v \in Clients \ {w} : up'[v] = up[v]
  BY <1>1 DEF ClientsTyped
<1>4. \A v \in Clients \ {w} : Unmoved(v)
  BY <1>2, <1>3 DEF Became, Unmoved
<1>5. ASSUME ~shared.overlap
      PROVE  Framed(w)' /\ stored' \in {<<>>} \cup {FileOf[c] : c \in Clients}
  <2>1. Framed(w) /\ stored \in {<<>>} \cup {FileOf[c] : c \in Clients}
    BY <1>5 DEF Framing
  <2>2. StreamFrom(up[w], w, 0)
    BY <1>1, <2>1 DEF Framed, Streams
  <2>3. StreamFrom(r, w, 0) /\ (OpensPut(l) => FileFollows(r, w, 0) /\ PutLine(l, w))
    BY <1>1, <1>3, <2>2, LineFramed
  <2>4. worker'[w].at = "line" /\ worker'[w].line = l
    BY <1>2 DEF Became
  <2> HIDE DEF l, r
  <2>5. Framed(w)'
    BY <1>3, <2>3, <2>4 DEF Framed, Streams, PutNext, Arguments, Putting
  <2>6. QED
    BY <1>1, <2>1, <2>5
<1>6. QED
  BY <1>1, <1>4, <1>5, StepFramed

\* A command begins, with strtok() at the beginning of the line.
LEMMA RedirectFramed ==
  ASSUME Inv, Typed, Framing, NEW w \in Clients, WorkerRedirect(w)
  PROVE  Framing'
<1> USE DEF Typed
<1>0. Shapes
  BY DEF Inv
<1>1. up' = up /\ stored' = stored /\ worker[w].at = "line"
  BY DEF WorkerRedirect, At, client_side
<1>2. /\ Became(w, "split", worker[w].line, <<>>, worker[w].got)
      /\ shared'.scan = shared.scan
      /\ shared'.overlap = (shared.overlap \/ \E v \in Clients \ {w} : Inside(v))
  BY <1>0, RedirectBecomes
<1>3. \A v \in Clients \ {w} : Unmoved(v)
  BY <1>1, <1>2 DEF Became, Unmoved
<1>4. ASSUME ~shared.overlap
      PROVE  Framed(w)' /\ stored' \in {<<>>} \cup {FileOf[c] : c \in Clients}
  <2>1. Framed(w) /\ stored \in {<<>>} \cup {FileOf[c] : c \in Clients}
    BY <1>4 DEF Framing
  <2>2. /\ worker'[w].at = "split" /\ worker'[w].args = <<>>
        /\ worker'[w].line = worker[w].line
    BY <1>2 DEF Became
  <2>3. Streams(w)' /\ PutNext(w)'
    BY <1>1, <2>1, <2>2 DEF Framed, Streams, PutNext
  <2>4. Arguments(w)' /\ Putting(w)'
    BY <2>2 DEF Arguments, Putting
  <2>5. QED
    BY <1>1, <2>1, <2>3, <2>4 DEF Framed
<1>5. shared'.overlap \/ ~shared.overlap
  BY <1>2
<1>6. QED
  BY <1>1, <1>2, <1>3, <1>4, <1>5, StepFramed

\* A token is taken, or there is none: after "put" come the name and the size.
LEMMA SplitFramed ==
  ASSUME Inv, Typed, Framing, NEW w \in Clients, WorkerSplit(w)
  PROVE  Framing'
<1> USE DEF Typed
<1> DEFINE args == worker[w].args
           line == worker[w].line
           scan == shared.scan
           size == Size[Len(FileOf[w])]
<1>0. Shapes
  BY DEF Inv
<1>1. up' = up /\ stored' = stored /\ worker[w].at = "split"
  BY DEF WorkerSplit, At, client_side
<1>2. /\ args \in Seq(Seq(Symbols)) /\ Len(args) \in Nat
      /\ line \in Seq(Symbols) /\ scan \in Seq(Symbols) /\ Scanned(w) \in Seq(Symbols)
  BY LenProperties DEF WorkersTyped, SharedTyped, Scanned
<1>3. \/ /\ Letters(Scanned(w)) # {}
         /\ Became(w, "split", line, Append(args, Token(Scanned(w))), worker[w].got)
         /\ SharedBut(Rest(Scanned(w)), shared.cwd)
      \/ /\ Letters(Scanned(w)) = {}
         /\ Became(w, "execute", line, args, worker[w].got)
         /\ SharedBut(<<>>, shared.cwd)
  BY <1>0, SplitBecomes
<1>4. \A v \in Clients \ {w} : Unmoved(v)
  BY <1>1, <1>3 DEF Became, Unmoved
<1>5. ASSUME ~shared.overlap
      PROVE  Framed(w)' /\ stored' \in {<<>>} \cup {FileOf[c] : c \in Clients}
  <2>1. Framed(w) /\ stored \in {<<>>} \cup {FileOf[c] : c \in Clients}
    BY <1>5 DEF Framing
  <2>2. Streams(w)' /\ PutNext(w)' /\ Putting(w)'
    BY <1>1, <1>3, <2>1 DEF Framed, Streams, PutNext, Putting, Became
  <2>3. /\ args # <<>> => Letters(line) # {} /\ args[1] = Token(line)
        /\ OpensPut(line) =>
             /\ PutLine(line, w)
             /\ \/ args = <<>>
                \/ Len(args) = 1 /\ NameLeft(scan, w)
                \/ Len(args) = 2 /\ SizeLeft(scan, w)
                \/ Len(args) = 3 /\ args[3] = <<size>> /\ scan = <<>>
    BY <1>1, <2>1 DEF Framed, Arguments, PutNext
  <2>4. Scanned(w) = IF args = <<>> THEN line ELSE scan
    BY DEF Scanned
  <2>5. Letters(<<>>) = {}
    BY DEF Letters
  <2> HIDE DEF size
  <2>6. CASE /\ Letters(Scanned(w)) # {}
             /\ Became(w, "split", line, Append(args, Token(Scanned(w))), worker[w].got)
             /\ SharedBut(Rest(Scanned(w)), shared.cwd)
    <3> DEFINE token == Token(Scanned(w))
               next == Append(args, token)
    <3>1. token \in Seq(Symbols)
      BY <1>2, <2>6, TokenFacts
    <3> HIDE DEF token
    <3>2. /\ next \in Seq(Seq(Symbols)) /\ Len(next) = Len(args) + 1
          /\ next[Len(args) + 1] = token /\ \A i \in 1..Len(args) : next[i] = args[i]
      BY <1>2, <3>1, AppendProperties
    <3> HIDE DEF next
    <3>3. /\ worker'[w].at = "split" /\ worker'[w].args = next /\ worker'[w].line = line
          /\ shared'.scan = Rest(Scanned(w))
      BY <2>6 DEF Became, SharedBut, next, token
    <3>4. Letters(line) # {} /\ next[1] = Token(line)
      <4>1. CASE args = <<>>
        BY <2>4, <2>6, <3>2, <4>1 DEF token
      <4>2. CASE args # <<>>
        <5>1. 1 \in 1..Len(args)
          BY <1>2, <4>2, EmptySeq
        <5>2. QED
          BY <2>3, <3>2, <4>2, <5>1
      <4>3. QED
        BY <4>1, <4>2
    <3>5. ASSUME OpensPut(line)
          PROVE  \/ Len(next) = 1 /\ NameLeft(shared'.scan, w)
                 \/ Len(next) = 2 /\ SizeLeft(shared'.scan, w)
                 \/ Len(next) = 3 /\ next[3] = <<size>> /\ shared'.scan = <<>>
      <4>1. CASE args = <<>>
        <5>1. NameLeft(Rest(line), w)
          BY <1>2, <2>3, <3>5, PutLineToken
        <5>2. QED
          BY <2>4, <3>2, <3>3, <4>1, <5>1
      <4>2. CASE Len(args) = 1 /\ NameLeft(scan, w)
        <5>1. SizeLeft(Rest(scan), w)
          BY <1>2, <4>2, NameToken
        <5>2. args # <<>>
          <6>1. args = <<>> => Len(args) = 0
            OBVIOUS
          <6>2. QED
            BY <4>2, <6>1
        <5>3. QED
          BY <2>4, <3>2, <3>3, <4>2, <5>1, <5>2
      <4>3. CASE Len(args) = 2 /\ SizeLeft(scan, w)
        <5>1. Token(scan) = <<size>> /\ Rest(scan) = <<>>
          BY <1>2, <4>3, SizeToken DEF size
        <5>2. args # <<>>
          BY <4>3
        <5>3. QED
          BY <2>4, <3>2, <3>3, <4>3, <5>1, <5>2 DEF token
      <4>4. CASE Len(args) = 3 /\ scan = <<>>
        <5>1. args # <<>>
          BY <4>4
        <5>2. QED
          BY <2>4, <2>5, <2>6, <4>4, <5>1
      <4>5. QED
        BY <2>3, <3>5, <4>1, <4>2, <4>3, <4>4
    <3>6. Arguments(w)'
      BY <3>3, <3>4, <3>5 DEF Arguments, size
    <3>7. QED
      BY <1>1, <2>1, <2>2, <3>6 DEF Framed
  <2>7. CASE /\ Letters(Scanned(w)) = {}
             /\ Became(w, "execute", line, args, worker[w].got)
             /\ SharedBut(<<>>, shared.cwd)
    <3>1. worker'[w].at = "execute" /\ worker'[w].args = args /\ worker'[w].line = line
      BY <2>7 DEF Became
    <3>2. ASSUME OpensPut(line)
          PROVE  Len(args) = 3 /\ args[3] = <<size>>
      <4>1. args # <<>>
        BY <2>4, <2>7, <3>2 DEF OpensPut
      <4>2. ~(Len(args) = 1 /\ NameLeft(scan, w))
        BY <1>2, <2>4, <2>7, <4>1, NameToken
      <4>3. ~(Len(args) = 2 /\ SizeLeft(scan, w))
        BY <1>2, <2>4, <2>7, <4>1, SizeToken
      <4>4. QED
        BY <2>3, <3>2, <4>1, <4>2, <4>3
    <3>3. Arguments(w)'
      BY <2>3, <3>1, <3>2 DEF Arguments, size
    <3>4. QED
      BY <1>1, <2>1, <2>2, <3>3 DEF Framed
  <2>8. QED
    BY <1>3, <2>6, <2>7
<1>6. Routes(w) /\ shared'.overlap = shared.overlap
  BY <1>1, <1>3 DEF Routes, Inside, SharedBut
<1>7. QED
  BY <1>4, <1>5, <1>6, StepFramed

\* The file is opened: all of its bytes are next in the stream.
LEMMA PutOpenFramed ==
  ASSUME Inv, Typed, Framing, NEW w \in Clients, WorkerPutOpen(w)
  PROVE  Framing'
<1> USE DEF Typed
<1>0. Shapes
  BY DEF Inv
<1>1. /\ up' = up /\ shared' = shared /\ worker[w].at = "execute" /\ Goes(w, "put")
      /\ Command(w) = <<"put">> /\ Argc(w) >= 3
      /\ stored' = IF Arg(w, 2) = <<"f">> THEN <<>> ELSE stored
  BY DEF WorkerPutOpen, Executes, At, client_side
<1>2. Became(w, "put", worker[w].line, worker[w].args, worker[w].got)
  BY <1>0, <1>1, GoesBecomes
<1>3. \A v \in Clients \ {w} : Unmoved(v)
  BY <1>1, <1>2 DEF Became, Unmoved
<1>4. ASSUME ~shared.overlap
      PROVE  Framed(w)' /\ stored' \in {<<>>} \cup {FileOf[c] : c \in Clients}
  <2>1. Framed(w) /\ stored \in {<<>>} \cup {FileOf[c] : c \in Clients}
    BY <1>4 DEF Framing
  <2>2. /\ worker'[w].at = "put" /\ worker'[w].args = worker[w].args
        /\ worker'[w].got = worker[w].got
    BY <1>2 DEF Became
  <2>3. worker[w].args # <<>> /\ worker[w].args[1] = <<"put">>
    <3>1. Len(worker[w].args) >= 3
      BY <1>1 DEF Argc
    <3>2. worker[w].args # <<>>
      BY <3>1
    <3>3. QED
      BY <1>1, <3>2 DEF Command
  <2>4. OpensPut(worker[w].line)
    BY <1>1, <2>1, <2>3 DEF Framed, Arguments, OpensPut
  <2>5. FileFollows(up[w], w, 0)
    BY <1>1, <2>1, <2>4 DEF Framed, PutNext
  <2>6. Len(worker[w].args) = 3 /\ worker[w].args[3] = <<Size[Len(FileOf[w])]>>
    BY <1>1, <2>1, <2>4 DEF Framed, Arguments
  <2>7. worker[w].got = <<>> /\ Len(worker[w].got) = 0 /\ DOMAIN worker[w].got = {}
        /\ 0 <= Len(FileOf[w])
    <3>1. worker[w].got = <<>>
      BY <1>1 DEF GotTyped
    <3>2. FileOf[w] \in Seq(Symbols)
      BY SessionAssumption DEF SessionAssumption
    <3>3. QED
      BY <3>1, <3>2, LenProperties
  <2>8. Putting(w)'
    BY <1>1, <2>2, <2>5, <2>6, <2>7 DEF Putting, Arg
  <2>9. Framed(w)'
    BY <2>2, <2>8 DEF Framed, Streams, PutNext, Arguments
  <2>10. QED
    BY <1>1, <2>1, <2>9
<1>5. Routes(w)
  BY <1>1 DEF Routes, Inside
<1>6. QED
  BY <1>1, <1>3, <1>4, <1>5, StepFramed

\* The number of bytes that were announced is that of the file.
LEMMA AnnouncedLength ==
  ASSUME NEW w \in Clients, worker[w].args[3] = <<Size[Len(FileOf[w])]>>
  PROVE  PutLength(w) = Len(FileOf[w])
<1> DEFINE f == Len(FileOf[w])
<1>1. f \in Sizes /\ \A n, k \in Sizes : Size[n] = Size[k] => n = k
  BY LengthFacts
<1>2. Arg(w, 3) = <<Size[f]>>
  BY DEF Arg
<1> HIDE DEF f
<1>3. \A n \in Sizes : Arg(w, 3) = <<Size[n]>> => n = f
  BY <1>1, <1>2
<1>4. PutLength(w) = CHOOSE n \in Sizes : Arg(w, 3) = <<Size[n]>>
  BY <1>1, <1>2 DEF PutLength
<1>5. QED
  BY <1>1, <1>2, <1>3, <1>4 DEF f

\* Bytes of the file are taken from the stream, in order.
LEMMA PutReadsFramed ==
  ASSUME Inv, Typed, Framing, NEW w \in Clients, WorkerPutReads(w)
  PROVE  Framing'
<1> USE DEF Typed
<1> DEFINE s == up[w]
           got == worker[w].got
           file == FileOf[w]
           f == Len(file)
           k == Len(got)
           n == Taken(w)
           bytes == SubSeq(s, 1, n)
           rest == SubSeq(s, n + 1, Len(s))
<1>0. Shapes
  BY DEF Inv
<1>1. /\ shared' = shared /\ stored' = stored /\ worker[w].at = "put" /\ n > 0
      /\ worker' = [worker EXCEPT ![w].got = @ \o bytes]
      /\ up' = [up EXCEPT ![w] = rest]
  BY DEF WorkerPutReads, At, Taken
<1>2. Became(w, worker[w].at, worker[w].line, worker[w].args, got \o bytes)
  <2> HIDE DEF bytes
  <2>1. QED
    BY <1>0, <1>1, PutReadsBecomes
<1>3. up'[w] = rest /\ \A v \in Clients \ {w} : up'[v] = up[v]
  BY <1>1 DEF ClientsTyped
<1>4. \A v \in Clients \ {w} : Unmoved(v)
  BY <1>2, <1>3 DEF Became, Unmoved
<1>5. ASSUME ~shared.overlap
      PROVE  Framed(w)' /\ stored' \in {<<>>} \cup {FileOf[c] : c \in Clients}
  <2>1. Framed(w) /\ stored \in {<<>>} \cup {FileOf[c] : c \in Clients}
    BY <1>5 DEF Framing
  <2>2. /\ k <= f /\ FileFollows(s, w, k) /\ \A i \in DOMAIN got : got[i] = file[i]
        /\ Len(worker[w].args) = 3 /\ worker[w].args[3] = <<Size[f]>>
        /\ worker[w].args[2] = <<"f">> => stored = <<>>
    BY <1>1, <2>1 DEF Framed, Putting
  <2>3. PutLength(w) = f
    BY <2>2, AnnouncedLength
  <2>4. /\ s \in Seq(Symbols) /\ got \in Seq(Symbols) /\ Len(s) \in Nat /\ f \in Nat
        /\ k \in Nat /\ DOMAIN s = 1..Len(s) /\ DOMAIN got = 1..k
        /\ \A i \in 1..Len(s) : s[i] \in Symbols
    BY StreamFacts DEF ClientsTyped, WorkersTyped
  <2>5. n \in Nat /\ n <= f - k /\ n <= Len(s)
    BY <1>1, <2>3, TakenFacts
  <2>6. /\ f - k <= Len(s) /\ \A i \in k + 1 .. f : s[i - k] = file[i]
        /\ StreamFrom(s, w, f - k)
    BY <2>2 DEF FileFollows
  <2> HIDE DEF n, s, got, file, f, k
  <2>7. /\ bytes \in Seq(Symbols) /\ Len(bytes) = n /\ \A i \in 1..n : bytes[i] = s[i]
    <3>1. \A i \in 1..n : i \in 1..Len(s) /\ 1 + i - 1 = i
      BY <2>4, <2>5
    <3>2. 1 \in Int /\ n \in Int /\ 1 <= n /\ n - 1 + 1 = n
      BY <1>1, <2>5
    <3>3. QED
      BY <2>4, <3>1, <3>2, SubSeqProperties
  <2>8. /\ n \in 0..Len(s) /\ Len(rest) = Len(s) - n
        /\ \A i \in 1 .. Len(s) - n : rest[i] = s[n + i]
    <3>1. n \in 0..Len(s)
      BY <2>4, <2>5
    <3>2. QED
      BY <2>4, <3>1, DropFacts
  <2> HIDE DEF bytes
  <2>9. /\ Len(got \o bytes) = k + n /\ DOMAIN (got \o bytes) = 1 .. k + n
        /\ \A i \in 1..k : (got \o bytes)[i] = got[i]
        /\ \A i \in 1..n : (got \o bytes)[k + i] = bytes[i]
    BY <2>4, <2>7, JoinFacts DEF k
  <2>10. k + n <= f
    BY <2>4, <2>5
  <2>11. ASSUME NEW i \in 1 .. k + n
         PROVE  (got \o bytes)[i] = file[i]
    <3>1. CASE i \in 1..k
      BY <2>2, <2>4, <2>9, <3>1 DEF got, file
    <3>2. CASE i \notin 1..k
      <4>1. i - k \in 1..n /\ k + (i - k) = i /\ i \in k + 1 .. f
        BY <2>4, <2>5, <3>2
      <4>2. (got \o bytes)[i] = bytes[i - k]
        BY <2>9, <4>1
      <4>3. QED
        BY <2>6, <2>7, <4>1, <4>2
    <3>3. QED
      BY <3>1, <3>2
  <2>12. FileFollows(rest, w, k + n)
    <3>1. (f - k) - n = f - (k + n) /\ f - k \in Nat /\ n <= f - k /\ f - k <= Len(s)
      BY <2>4, <2>5, <2>6
    <3>2. StreamFrom(rest, w, f - (k + n))
      <4>1. StreamFrom(rest, w, (f - k) - n)
        BY <2>4, <2>5, <2>6, <3>1, StreamCut
      <4>2. QED
        BY <3>1, <4>1
    <3>3. f - (k + n) <= Len(rest)
      <4>1. /\ f \in Nat /\ k \in Nat /\ n \in Nat /\ Len(s) \in Nat
            /\ f - k <= Len(s) /\ Len(rest) = Len(s) - n
        BY <2>4, <2>5, <2>6, <2>8
      <4>2. QED
        BY <4>1
    <3>4. ASSUME NEW i \in (k + n) + 1 .. f
          PROVE  rest[i - (k + n)] = file[i]
      <4>1. /\ i - (k + n) \in 1 .. Len(s) - n /\ n + (i - (k + n)) = i - k
            /\ i \in k + 1 .. f
        BY <2>4, <2>5, <2>6
      <4>2. rest[i - (k + n)] = s[i - k]
        BY <2>8, <4>1
      <4>3. QED
        BY <2>6, <4>1, <4>2
    <3> HIDE DEF rest
    <3>5. QED
      BY <3>2, <3>3, <3>4 DEF FileFollows, f, file
  <2>13. /\ worker'[w].at = "put" /\ worker'[w].args = worker[w].args
         /\ worker'[w].got = got \o bytes
    BY <1>1, <1>2 DEF Became, got, bytes, s, n
  <2> HIDE DEF rest
  <2>14. Putting(w)'
    BY <1>1, <1>3, <2>2, <2>9, <2>10, <2>11, <2>12, <2>13 DEF Putting, f, file
  <2>15. Framed(w)'
    BY <2>13, <2>14 DEF Framed, Streams, PutNext, Arguments
  <2>16. QED
    BY <1>1, <2>1, <2>15
<1>6. QED
  BY <1>1, <1>4, <1>5, StepFramed

\* The file is closed when all of it was taken, and what follows is a stream
\* again.
LEMMA PutCloseFramed ==
  ASSUME Inv, Typed, Framing, NEW w \in Clients, WorkerPutClose(w)
  PROVE  Framing'
<1> USE DEF Typed
<1> DEFINE got == worker[w].got
           file == FileOf[w]
<1>0. Shapes
  BY DEF Inv
<1>1. /\ up' = up /\ worker[w].at = "put" /\ Echo(w, shared) /\ Len(got) = PutLength(w)
      /\ stored' = IF Arg(w, 2) # <<"f">> THEN stored
                   ELSE got \o SubSeq(stored, PutLength(w) + 1, Len(stored))
  BY DEF WorkerPutClose, At, client_side
<1>2. /\ \E p \in {"top", "closed"} : Became(w, p, <<>>, <<>>, <<>>)
      /\ SharedBut(shared.scan, shared.cwd)
  BY <1>0, <1>1, EchoBecomes
<1>3. \A v \in Clients \ {w} : Unmoved(v)
  BY <1>1, <1>2 DEF Became, Unmoved
<1>4. worker'[w].at \in {"top", "closed"}
  BY <1>2 DEF Became
<1>5. ASSUME ~shared.overlap
      PROVE  Framed(w)' /\ stored' \in {<<>>} \cup {FileOf[c] : c \in Clients}
  <2>1. Framed(w) /\ stored \in {<<>>} \cup {FileOf[c] : c \in Clients}
    BY <1>5 DEF Framing
  <2>2. /\ FileFollows(up[w], w, Len(got)) /\ \A i \in DOMAIN got : got[i] = file[i]
        /\ worker[w].args[3] = <<Size[Len(file)]>>
        /\ Arg(w, 2) = <<"f">> => stored = <<>>
    BY <1>1, <2>1 DEF Framed, Putting, Arg
  <2>3. Len(got) = Len(file) /\ Len(file) \in Nat /\ file \in Seq(Symbols)
    BY <1>1, <2>2, AnnouncedLength, StreamFacts DEF ClientsTyped
  <2>4. got \in Seq(Symbols) /\ DOMAIN got = 1..Len(got)
    BY LenProperties DEF WorkersTyped
  <2>5. got = file
    <3> HIDE DEF got, file
    <3>1. QED
      BY <2>2, <2>3, <2>4, SeqEqual
  <2>6. StreamFrom(up[w], w, 0)
    <3>1. Len(file) - Len(got) = 0
      BY <2>3
    <3>2. QED
      BY <2>2, <3>1 DEF FileFollows
  <2>7. Framed(w)'
    BY <1>1, <1>4, <2>6 DEF Framed, Streams, PutNext, Arguments, Putting
  <2>8. Arg(w, 2) = <<"f">> => stored' = file
    <3>1. ASSUME Arg(w, 2) = <<"f">>
          PROVE  SubSeq(stored, PutLength(w) + 1, Len(stored)) = <<>>
      <4>1. stored = <<>> /\ Len(stored) = 0 /\ PutLength(w) \in Nat
        BY <1>1, <2>2, <2>3, <3>1
      <4>2. PutLength(w) + 1 \in Int /\ Len(stored) \in Int /\ Len(stored) < PutLength(w) + 1
        BY <4>1
      <4>3. QED
        BY <4>2, SubSeqEmpty
    <3>2. got \o <<>> = got
      BY <2>4
    <3>3. QED
      BY <1>1, <2>5, <3>1, <3>2
  <2>9. QED
    BY <1>1, <2>1, <2>7, <2>8
<1>6. Routes(w) /\ shared'.overlap = shared.overlap
  BY <1>1, <1>2 DEF Routes, Inside, SharedBut
<1>7. QED
  BY <1>3, <1>5, <1>6, StepFramed

\* Framing is inductive, next to Inv and Typed, when no file holds "put".
LEMMA NextFramed ==
  ASSUME PlainFiles, Inv, Typed, Framing, [Next]_vars
  PROVE  Framing'
<1>1. ASSUME worker' = worker, up' = up, stored' = stored,
             shared'.scan = shared.scan, shared'.overlap = shared.overlap
      PROVE  Framing'
  <2>1. \A v \in Clients : Unmoved(v)
    BY <1>1 DEF Unmoved
  <2>2. QED
    BY <1>1, <2>1, UnmovedFramed DEF Framing
<1>2. CASE UNCHANGED vars
  BY <1>1, <1>2 DEF vars
<1>3. ASSUME NEW c \in Clients, UserStep(c)
      PROVE  Framing'
  BY <1>3, UserFramed
<1>4. ASSUME ServerDies
      PROVE  Framing'
  <2>1. shared'.scan = shared.scan /\ shared'.overlap = shared.overlap
    BY <1>4 DEF ServerDies, Inv, Shapes
  <2>2. worker' = worker /\ up' = up /\ stored' = stored
    BY <1>4 DEF ServerDies, client_side
  <2>3. QED
    BY <1>1, <2>1, <2>2
<1>5. ASSUME NEW w \in Clients, WorkerStep(w)
      PROVE  Framing'
  <2>1. CASE WorkerShowDies(w) \/ WorkerDies(w)
    BY <1>4, <2>1 DEF WorkerShowDies, WorkerDies
  <2>2. CASE \/ WorkerTop(w) \/ WorkerShow(w) \/ WorkerStamp(w) \/ WorkerReadEof(w)
             \/ WorkerGetListens(w) \/ WorkerWallCopied(w) \/ WorkerWallCopies(w)
             \/ WorkerCd(w) \/ WorkerLaunch(w) \/ WorkerWallStamps(w) \/ WorkerGetNeedsName(w)
    BY <2>2, ElsewhereFramed
  <2>3. CASE WorkerReadLine(w)
    BY <2>3, ReadLineFramed
  <2>4. CASE WorkerRedirect(w)
    BY <2>4, RedirectFramed
  <2>5. CASE WorkerSplit(w)
    BY <2>5, SplitFramed
  <2>6. CASE WorkerPutOpen(w)
    BY <2>6, PutOpenFramed
  <2>7. CASE WorkerPutReads(w)
    BY <2>7, PutReadsFramed
  <2>8. CASE WorkerPutClose(w)
    BY <2>8, PutCloseFramed
  <2>9. QED
    BY <1>5, <2>1, <2>2, <2>3, <2>4, <2>5, <2>6, <2>7, <2>8 DEF WorkerStep
<1>6. QED
  BY <1>2, <1>3, <1>5 DEF Next

\* Nothing is on its way at the beginning.
LEMMA InitFramed == Init => Framing
<1> SUFFICES ASSUME Init
             PROVE  Framing
  OBVIOUS
<1>1. stored = <<>>
  BY DEF Init
<1>2. ASSUME NEW w \in Clients
      PROVE  Framed(w)
  <2>1. up[w] = <<>> /\ worker[w].at = "top"
    BY DEF Init
  <2>2. StreamFrom(<<>>, w, 0)
    BY SMTT(30) DEF StreamFrom, Loud
  <2>3. QED
    BY <2>1, <2>2 DEF Framed, Streams, PutNext, Arguments, Putting
<1>3. QED
  BY <1>1, <1>2 DEF Framing

\* Files arrive whole, or are just being written, for any number of clients and
\* any files that do not hold the word "put", wherever the stream is cut when it
\* is read, unless two workers were inside a command at once.
THEOREM FilesArriveWholeHolds == Spec => []FilesArriveWhole
<1>1. Init => Inv /\ Typed /\ Framing
  BY InitInv, InitTyped, InitFramed
<1>2. PlainFiles /\ Inv /\ Typed /\ Framing /\ [Next]_vars => (Inv /\ Typed /\ Framing)'
  BY NextInv, NextTyped, NextFramed
<1>3. Inv /\ Typed /\ Framing => FilesArriveWhole
  BY DEF Framing, FilesArriveWhole
<1>4. CASE PlainFiles
  <2>1. Inv /\ Typed /\ Framing /\ [Next]_vars => (Inv /\ Typed /\ Framing)'
    BY <1>2, <1>4
  <2>2. QED
    BY <1>1, <1>3, <2>1, PTL DEF Spec
<1>5. CASE ~PlainFiles
  <2>1. FilesArriveWhole /\ FilesArriveWhole'
    BY <1>5 DEF FilesArriveWhole
  <2>2. QED
    BY <2>1, PTL
<1>6. QED
  BY <1>4, <1>5
=============================================================================
