--------------------------- MODULE SessionSerial ---------------------------
(***************************************************************************)
(* Theorems about handlers that do not overlap: what the code promises     *)
(* when one handler runs at a time, for every number of clients, roles,    *)
(* objects, queue entries, data changes and tokens, and every limit, as    *)
(* long as no player asks for another role.                                *)
(*                                                                         *)
(* There is one stack, and its frames are named by their heights.          *)
(***************************************************************************)
EXTENDS SessionOverlap, SessionStore

\* One handler at a time, and no player asks for another role.
Serial == MaxTasks = 1 /\ "switch" \notin Triggers

F(k) == At(stack[1], k)
H    == Len(stack[1])

(***************************************************************************)
(* How the stack grows.                                                    *)
(***************************************************************************)
\* The height below the running frame.
Base(s) == IF s = <<>> THEN 0 ELSE Len(s) - 1

Piled0(s, r) == Kept(s, r, Base(s)) /\ Len(r) = Base(s)

Piled1(s, r, f) == /\ Kept(s, r, Base(s)) /\ Len(r) = Base(s) + 1
                   /\ At(r, Base(s) + 1) = f

Piled2(s, r, f, g) == /\ Kept(s, r, Base(s)) /\ Len(r) = Base(s) + 2
                      /\ At(r, Base(s) + 2) = f /\ At(r, Base(s) + 1) = g

Piled3(s, r, f, g, h) == /\ Kept(s, r, Base(s)) /\ Len(r) = Base(s) + 3
                         /\ At(r, Base(s) + 3) = f /\ At(r, Base(s) + 2) = g
                         /\ At(r, Base(s) + 1) = h

\* An error leaves the frames from the innermost delobject down.
Broken(s, r) == /\ s # <<>> /\ Kept(s, r, Len(r)) /\ Len(r) < Len(s)
                /\ r # <<>> => At(r, Len(r)).pc = "deleted"
                /\ \A k \in (Len(r) + 1)..(Len(s) - 1) : At(s, k).pc # "deleted"

\* newplayer hands its object to the frame below it.
Handed(s, r, x) == /\ Len(s) > 1 /\ Kept(s, r, Len(s) - 2) /\ Len(r) = Len(s) - 1
                   /\ At(r, Len(r)) = [At(s, Len(r)) EXCEPT !.dst = x]

LEMMA OneTask ==
    ASSUME Serial
    PROVE  /\ Tasks = {1}
           /\ Free = (IF stack[1] = <<>> THEN {1} ELSE {})
           /\ stack[1] = <<>> => NextFree = 1
<1>1. Tasks = {1}
  BY DEF Serial, Tasks
<1>2. Free = (IF stack[1] = <<>> THEN {1} ELSE {})
  BY <1>1 DEF Free
<1>3. ASSUME stack[1] = <<>> PROVE NextFree = 1
  <2>1. Free = {1}
    BY <1>2, <1>3
  <2>2. \A t \in Free : (\A u \in Free : t <= u) <=> t = 1
    BY <2>1
  <2> QED
    BY <2>1, <2>2 DEF NextFree
<1> QED
  BY <1>1, <1>2, <1>3

LEMMA StackType ==
    ASSUME IInv, Serial
    PROVE  /\ stack[1] \in Seq(FrameType) /\ Len(stack[1]) \in Nat
           /\ stack[1] # <<>> <=> Len(stack[1]) > 0
           /\ stack[1] # <<>> => stack[1][1] = At(stack[1], Len(stack[1]))
           /\ DOMAIN stack = {1}
<1>1. /\ stack[1] \in Seq(FrameType) /\ Len(stack[1]) \in Nat
      /\ stack[1] # <<>> <=> Len(stack[1]) > 0
      /\ DOMAIN stack = {1}
  BY OneTask, LenProperties, EmptySeq DEF IInv, StackInv
<1>2. Len(stack[1]) + 1 - Len(stack[1]) = 1
  BY <1>1
<1> QED
  BY <1>1, <1>2 DEF At

\* Frames take the place of the running one.
LEMMA Placed ==
    ASSUME NEW s \in Seq(FrameType), s # <<>>, NEW N, NEW p \in Seq(N), NEW r, r = p \o Tail(s)
    PROVE  /\ Kept(s, r, Base(s))
           /\ Len(r) = Base(s) + Len(p)
           /\ \A j \in 1..Len(p) : At(r, Base(s) + Len(p) + 1 - j) = p[j]
<1>1. Len(s) \in Nat \ {0} /\ Base(s) = Len(s) - 1 /\ Len(p) \in Nat
  BY LenProperties, EmptySeq DEF Base
<1>2. Kept(s, r, Len(s) - 1)
  BY Below
<1>3. Len(r) = Len(p) + Len(s) - 1
  BY Below
<1>4. ASSUME NEW j \in 1..Len(p)
      PROVE  At(r, Base(s) + Len(p) + 1 - j) = p[j]
  <2>1. /\ s \in Seq(FrameType \cup N) /\ p \in Seq(FrameType \cup N)
    BY SeqGrows
  <2>2. \A i \in 1..Len(r) : r[i] = IF i <= Len(p) THEN p[i] ELSE s[i - Len(p) + 1]
    BY <2>1, Replaced
  <2>3. Len(r) + 1 - (Base(s) + Len(p) + 1 - j) = j /\ j \in 1..Len(r) /\ j <= Len(p)
    BY <1>1, <1>3
  <2> QED
    BY <2>2, <2>3 DEF At
<1> QED
  BY <1>1, <1>2, <1>3, <1>4

LEMMA Stacked ==
    ASSUME NEW s \in Seq(FrameType), s # <<>>, NEW f, NEW g, NEW h
    PROVE  /\ Piled0(s, <<>> \o Tail(s))
           /\ Piled1(s, <<f>> \o Tail(s), f)
           /\ Piled2(s, <<f, g>> \o Tail(s), f, g)
           /\ Piled3(s, <<f, g, h>> \o Tail(s), f, g, h)
<1>1. Base(s) \in Nat
  BY LenProperties, EmptySeq DEF Base
<1>2. Piled0(s, <<>> \o Tail(s))
  <2> DEFINE p == <<>>
             r == p \o Tail(s)
  <2>1. p \in Seq({}) /\ Len(p) = 0
    OBVIOUS
  <2> HIDE DEF p
  <2>2. /\ Kept(s, r, Base(s))
        /\ Len(r) = Base(s) + Len(p)
        /\ \A j \in 1..Len(p) : At(r, Base(s) + Len(p) + 1 - j) = p[j]
    BY <2>1, Placed
  <2> HIDE DEF r
  <2>9. Piled0(s, r)
    BY <1>1, <2>1, <2>2 DEF Piled0
  <2> QED
    BY <2>9 DEF r, p
<1>3. Piled1(s, <<f>> \o Tail(s), f)
  <2> DEFINE p == <<f>>
             r == p \o Tail(s)
  <2>1. p \in Seq({f}) /\ Len(p) = 1 /\ p[1] = f
    OBVIOUS
  <2> HIDE DEF p
  <2>2. /\ Kept(s, r, Base(s))
        /\ Len(r) = Base(s) + Len(p)
        /\ \A j \in 1..Len(p) : At(r, Base(s) + Len(p) + 1 - j) = p[j]
    BY <2>1, Placed
  <2> HIDE DEF r
  <2>3. At(r, Base(s) + 1) = f
    <3>1. Base(s) + Len(p) + 1 - 1 = Base(s) + 1 /\ 1 \in 1..Len(p)
      BY <1>1, <2>1
    <3> QED
      BY <2>1, <2>2, <3>1
  <2>9. Piled1(s, r, f)
    BY <1>1, <2>1, <2>2, <2>3 DEF Piled1
  <2> QED
    BY <2>9 DEF r, p
<1>4. Piled2(s, <<f, g>> \o Tail(s), f, g)
  <2> DEFINE p == <<f, g>>
             r == p \o Tail(s)
  <2>1. p \in Seq({f, g}) /\ Len(p) = 2 /\ p[1] = f /\ p[2] = g
    OBVIOUS
  <2> HIDE DEF p
  <2>2. /\ Kept(s, r, Base(s))
        /\ Len(r) = Base(s) + Len(p)
        /\ \A j \in 1..Len(p) : At(r, Base(s) + Len(p) + 1 - j) = p[j]
    BY <2>1, Placed
  <2> HIDE DEF r
  <2>3. At(r, Base(s) + 2) = f
    <3>1. Base(s) + Len(p) + 1 - 1 = Base(s) + 2 /\ 1 \in 1..Len(p)
      BY <1>1, <2>1
    <3> QED
      BY <2>1, <2>2, <3>1
  <2>4. At(r, Base(s) + 1) = g
    <3>1. Base(s) + Len(p) + 1 - 2 = Base(s) + 1 /\ 2 \in 1..Len(p)
      BY <1>1, <2>1
    <3> QED
      BY <2>1, <2>2, <3>1
  <2>9. Piled2(s, r, f, g)
    BY <1>1, <2>1, <2>2, <2>3, <2>4 DEF Piled2
  <2> QED
    BY <2>9 DEF r, p
<1>5. Piled3(s, <<f, g, h>> \o Tail(s), f, g, h)
  <2> DEFINE p == <<f, g, h>>
             r == p \o Tail(s)
  <2>1. p \in Seq({f, g, h}) /\ Len(p) = 3 /\ p[1] = f /\ p[2] = g /\ p[3] = h
    OBVIOUS
  <2> HIDE DEF p
  <2>2. /\ Kept(s, r, Base(s))
        /\ Len(r) = Base(s) + Len(p)
        /\ \A j \in 1..Len(p) : At(r, Base(s) + Len(p) + 1 - j) = p[j]
    BY <2>1, Placed
  <2> HIDE DEF r
  <2>3. At(r, Base(s) + 3) = f
    <3>1. Base(s) + Len(p) + 1 - 1 = Base(s) + 3 /\ 1 \in 1..Len(p)
      BY <1>1, <2>1
    <3> QED
      BY <2>1, <2>2, <3>1
  <2>4. At(r, Base(s) + 2) = g
    <3>1. Base(s) + Len(p) + 1 - 2 = Base(s) + 2 /\ 2 \in 1..Len(p)
      BY <1>1, <2>1
    <3> QED
      BY <2>1, <2>2, <3>1
  <2>5. At(r, Base(s) + 1) = h
    <3>1. Base(s) + Len(p) + 1 - 3 = Base(s) + 1 /\ 3 \in 1..Len(p)
      BY <1>1, <2>1
    <3> QED
      BY <2>1, <2>2, <3>1
  <2>9. Piled3(s, r, f, g, h)
    BY <1>1, <2>1, <2>2, <2>3, <2>4, <2>5 DEF Piled3
  <2> QED
    BY <2>9 DEF r, p
<1> QED
  BY <1>2, <1>3, <1>4, <1>5

\* The first frames of a handler.
LEMMA Started ==
    ASSUME NEW f, NEW g, NEW h
    PROVE  /\ Piled1(<<>>, <<f>>, f)
           /\ Piled2(<<>>, <<f, g>>, f, g)
           /\ Piled3(<<>>, <<f, g, h>>, f, g, h)
<1>1. \A r : Len(r) \in Nat => Kept(<<>>, r, Base(<<>>))
  BY DEF Kept, Base
<1>2. Len(<<f>>) = 1 /\ Len(<<f, g>>) = 2 /\ Len(<<f, g, h>>) = 3 /\ Base(<<>>) = 0
  BY DEF Base
<1>3. At(<<f>>, 1) = f
  BY DEF At
<1>4. At(<<f, g>>, 2) = f /\ At(<<f, g>>, 1) = g
  BY DEF At
<1>5. At(<<f, g, h>>, 3) = f /\ At(<<f, g, h>>, 2) = g /\ At(<<f, g, h>>, 1) = h
  BY DEF At
<1> QED
  BY <1>1, <1>2, <1>3, <1>4, <1>5 DEF Piled1, Piled2, Piled3

LEMMA Goes ==
    ASSUME IInv, Serial, NEW t \in Tasks, stack[t] # <<>>, NEW f, NEW g, NEW h
    PROVE  /\ Continue(t, <<>>) => Piled0(stack[1], stack'[1])
           /\ Continue(t, <<f>>) \/ Suspend(t, <<f>>) => Piled1(stack[1], stack'[1], f)
           /\ Continue(t, <<f, g>>) \/ Suspend(t, <<f, g>>) => Piled2(stack[1], stack'[1], f, g)
           /\ Continue(t, <<f, g, h>>) \/ Suspend(t, <<f, g, h>>)
                => Piled3(stack[1], stack'[1], f, g, h)
<1>1. t = 1 /\ stack[1] \in Seq(FrameType) /\ stack[1] # <<>> /\ DOMAIN stack = {1}
  BY OneTask, StackType
<1>2. \A frames : Continue(t, frames) \/ Suspend(t, frames) => stack'[1] = frames \o Tail(stack[1])
  BY <1>1 DEF Continue, Suspend
<1>3. /\ Piled0(stack[1], <<>> \o Tail(stack[1]))
      /\ Piled1(stack[1], <<f>> \o Tail(stack[1]), f)
      /\ Piled2(stack[1], <<f, g>> \o Tail(stack[1]), f, g)
      /\ Piled3(stack[1], <<f, g, h>> \o Tail(stack[1]), f, g, h)
  BY <1>1, Stacked
<1>4. Continue(t, <<>>) => stack'[1] = <<>> \o Tail(stack[1])
  BY <1>2
<1>5. Continue(t, <<f>>) \/ Suspend(t, <<f>>) => stack'[1] = <<f>> \o Tail(stack[1])
  BY <1>2
<1>6. Continue(t, <<f, g>>) \/ Suspend(t, <<f, g>>) => stack'[1] = <<f, g>> \o Tail(stack[1])
  BY <1>2
<1>7. Continue(t, <<f, g, h>>) \/ Suspend(t, <<f, g, h>>)
        => stack'[1] = <<f, g, h>> \o Tail(stack[1])
  BY <1>2
<1> QED
  BY <1>3, <1>4, <1>5, <1>6, <1>7, Zenon

LEMMA Begins ==
    ASSUME IInv, Serial, NEW f, NEW g, NEW h
    PROVE  /\ Spawn(<<f>>) \/ SpawnWaiting(<<f>>)
                => stack[1] = <<>> /\ Piled1(stack[1], stack'[1], f)
           /\ Spawn(<<f, g>>) \/ SpawnWaiting(<<f, g>>)
                => stack[1] = <<>> /\ Piled2(stack[1], stack'[1], f, g)
           /\ Spawn(<<f, g, h>>) \/ SpawnWaiting(<<f, g, h>>)
                => stack[1] = <<>> /\ Piled3(stack[1], stack'[1], f, g, h)
<1>1. DOMAIN stack = {1} /\ (Free # {} => stack[1] = <<>> /\ NextFree = 1)
  BY OneTask, StackType
<1>2. \A frames : Spawn(frames) \/ SpawnWaiting(frames) =>
         stack[1] = <<>> /\ stack'[1] = frames
  BY <1>1 DEF Spawn, SpawnWaiting
<1>3. Spawn(<<f>>) \/ SpawnWaiting(<<f>>) => stack[1] = <<>> /\ stack'[1] = <<f>>
  BY <1>2
<1>4. Spawn(<<f, g>>) \/ SpawnWaiting(<<f, g>>) => stack[1] = <<>> /\ stack'[1] = <<f, g>>
  BY <1>2
<1>5. Spawn(<<f, g, h>>) \/ SpawnWaiting(<<f, g, h>>)
        => stack[1] = <<>> /\ stack'[1] = <<f, g, h>>
  BY <1>2
<1> QED
  BY <1>3, <1>4, <1>5, Started, Zenon

LEMMA UnwoundFirst ==
    ASSUME NEW s \in Seq(FrameType), s # <<>>
    PROVE  Broken(s, Unwind(s))
<1> DEFINE caught == {i \in 2..Len(s) : s[i].pc = "deleted"}
           first == CHOOSE i \in caught : \A j \in caught : i <= j
           u == Unwind(s)
<1>1. Len(s) \in Nat \ {0}
  BY LenProperties, EmptySeq
<1>2. Kept(s, u, Len(u))
  BY Unwound
<1>3. CASE caught = {}
  <2>1. u = <<>> /\ Len(<<>>) = 0
    BY <1>3 DEF Unwind
  <2>2. ASSUME NEW k \in (Len(u) + 1)..(Len(s) - 1)
        PROVE  At(s, k).pc # "deleted"
    <3>1. Len(s) + 1 - k \in 2..Len(s)
      BY <1>1, <2>1
    <3> QED
      BY <1>3, <3>1 DEF At
  <2> QED
    BY <1>1, <1>2, <2>1, <2>2 DEF Broken
<1>4. CASE caught # {}
  <2>1. u = SubSeq(s, first, Len(s))
    BY <1>4 DEF Unwind
  <2>2. \E i \in caught : \A j \in caught : i <= j
    <3>1. caught \in SUBSET Nat
      BY <1>1
    <3> HIDE DEF caught
    <3> QED
      BY <1>4, <3>1, LeastElement
  <2>3. first \in caught /\ \A j \in caught : first <= j
    <3> HIDE DEF caught
    <3> QED
      BY <2>2
  <2>4. first \in 2..Len(s) /\ s[first].pc = "deleted"
    BY <2>3
  <2>5. ASSUME NEW i \in 2..Len(s), s[i].pc = "deleted" PROVE first <= i
    BY <2>3, <2>5
  <2> HIDE DEF first, caught, u
  <2>6. \A i \in first..Len(s) : s[i] \in FrameType
    BY <1>1, <2>4, ElementOfSeq
  <2>7. Len(u) = Len(s) - first + 1 /\ \A i \in 1..Len(u) : u[i] = s[first + i - 1]
    BY <1>1, <2>1, <2>4, <2>6, SubSeqProperties
  <2>8. At(u, Len(u)).pc = "deleted"
    <3>1. Len(u) + 1 - Len(u) = 1 /\ 1 \in 1..Len(u) /\ first + 1 - 1 = first
      BY <1>1, <2>4, <2>7
    <3> QED
      BY <2>4, <2>7, <3>1 DEF At
  <2>9. ASSUME NEW k \in (Len(u) + 1)..(Len(s) - 1)
        PROVE  At(s, k).pc # "deleted"
    <3>1. Len(s) + 1 - k \in 2..Len(s) /\ Len(s) + 1 - k < first
      BY <1>1, <2>4, <2>7
    <3>2. s[Len(s) + 1 - k].pc # "deleted"
      BY <1>1, <2>4, <2>5, <3>1
    <3> QED
      BY <3>2 DEF At
  <2> QED
    <3>1. Len(u) \in Nat /\ Len(u) < Len(s)
      BY <1>1, <2>4, <2>7
    <3> QED
      BY <1>2, <2>8, <2>9, <3>1 DEF Broken, u
<1>5. Broken(s, u)
  BY <1>3, <1>4
<1> QED
  BY <1>5 DEF u

LEMMA Breaks ==
    ASSUME IInv, Serial, NEW t \in Tasks, stack[t] # <<>>, Raise(t)
    PROVE  Broken(stack[1], stack'[1])
<1>1. t = 1 /\ stack[1] \in Seq(FrameType) /\ stack[1] # <<>> /\ DOMAIN stack = {1}
  BY OneTask, StackType
<1>2. stack'[1] = Unwind(stack[1])
  BY <1>1 DEF Raise
<1> QED
  BY <1>1, <1>2, UnwoundFirst


LEMMA Handing ==
    ASSUME IInv, Serial, NEW t \in Tasks, NewPlayer(t)
    PROVE  Handed(stack[1], stack'[1], nobj + 1)
<1>1. t = 1 /\ stack[1] \in Seq(FrameType) /\ DOMAIN stack = {1} /\ Len(stack[1]) > 1
  BY OneTask, StackType DEF NewPlayer
<1>2. stack'[1] = <<[stack[1][2] EXCEPT !.dst = nobj + 1]>> \o SubSeq(stack[1], 3, Len(stack[1]))
  BY <1>1 DEF NewPlayer
<1> DEFINE s == stack[1]
           r == <<[s[2] EXCEPT !.dst = nobj + 1]>> \o SubSeq(s, 3, Len(s))
<1>3. stack'[1] = r
  BY <1>2
<1>4. /\ Kept(s, r, Len(s) - 2) /\ Len(r) = Len(s) - 1
      /\ At(r, Len(s) - 1) = [s[2] EXCEPT !.dst = nobj + 1]
      /\ At(s, Len(s) - 1) = s[2]
  <2> HIDE DEF s
  <2>1. s \in Seq(FrameType) /\ Len(s) > 1
    BY <1>1 DEF s
  <2> QED
    BY <2>1, HandedBelow
<1> HIDE DEF r
<1>5. Handed(s, r, nobj + 1)
  BY <1>1, <1>4 DEF Handed
<1> QED
  BY <1>3, <1>5

(***************************************************************************)
(* Which calls wait below which.                                           *)
(***************************************************************************)
\* Calls that cut a client off, and calls that unload an object.
Cutters   == {"kick", "protokick", "closed", "gosrv", "reentergame"}
Unloading == {"delobject", "saved", "deleted"}

Holding(f) == f.pc \in Takers /\ f.dst # None
LinkDelete(f) == f.pc = "delobject" /\ f.pid \in Agents

TopOnly(s) == \A k \in 1..Len(s) : At(s, k).pc \in {"delobject", "exitgame"} => k = Len(s)

Unnested(s) == \A j, k \in 1..Len(s) :
                  j < k /\ At(s, j).pc = "deleted" => At(s, k).pc \notin Cutters

FromLinks(s) == \A k \in 1..Len(s) :
                  At(s, k).pc \in {"sethome", "nettransfer"} => At(s, k).src \in Agents

\* A new object is held by the running frame, or while nettransfer deletes the link.
HeldTop(s) == \A k \in 1..Len(s) : Holding(At(s, k)) =>
                 k = Len(s) \/ (k = Len(s) - 1 /\ LinkDelete(At(s, Len(s))))

Shape(s) == TopOnly(s) /\ Unnested(s) /\ FromLinks(s) /\ HeldTop(s)

\* What the frames N above height m must be for the shape to last.
Shapely(s, r) ==
    LET m == Base(s)
        n == Len(r)
    IN /\ \A k \in (m + 1)..n : At(r, k).pc \in {"delobject", "exitgame"} => k = n
       /\ \A k \in (m + 1)..n : At(r, k).pc \in Cutters =>
             s = <<>> \/ At(s, Len(s)).pc \in Cutters
       /\ \A j, k \in (m + 1)..n : j < k /\ At(r, j).pc = "deleted" => At(r, k).pc \notin Cutters
       /\ \A k \in (m + 1)..n : At(r, k).pc \in {"sethome", "nettransfer"} => At(r, k).src \in Agents
       /\ \A k \in (m + 1)..n : Holding(At(r, k)) => k = n \/ (k = n - 1 /\ LinkDelete(At(r, n)))
       /\ n > m /\ s # <<>> => ~LinkDelete(At(s, Len(s)))

LEMMA BaseType ==
    ASSUME NEW s \in Seq(FrameType)
    PROVE  /\ Base(s) \in Nat /\ Len(s) \in Nat /\ Base(s) <= Len(s)
           /\ s = <<>> => Len(s) = 0 /\ Base(s) = 0
           /\ s # <<>> => Len(s) > 0 /\ Base(s) = Len(s) - 1
BY LenProperties, EmptySeq DEF Base

LEMMA ShapePiled ==
    ASSUME NEW s \in Seq(FrameType), NEW r, Len(r) \in Nat, Shape(s),
           Kept(s, r, Base(s)), Shapely(s, r)
    PROVE  Shape(r)
<1> DEFINE m == Base(s)
           n == Len(r)
<1>1. /\ m \in Nat /\ n \in Nat /\ Len(s) \in Nat /\ m <= Len(s) /\ m <= n
      /\ s # <<>> => Len(s) = m + 1
      /\ s = <<>> => Len(s) = m
  BY BaseType DEF Kept
<1>2. \A k \in 1..m : At(r, k) = At(s, k) /\ k \in 1..Len(s) /\ s # <<>>
  BY <1>1, BaseType DEF Kept
<1>3. \A k \in 1..n : k \in 1..m \/ k \in (m + 1)..n
  BY <1>1
<1> HIDE DEF m, n
<1>4. TopOnly(r)
  <2> SUFFICES ASSUME NEW k \in 1..n, At(r, k).pc \in {"delobject", "exitgame"} PROVE k = n
    BY DEF TopOnly, n
  <2>1. CASE k \in 1..m
    BY <1>1, <1>2, <2>1 DEF Shape, TopOnly
  <2>2. CASE k \in (m + 1)..n
    BY <2>2 DEF Shapely, m, n
  <2> QED
    BY <1>3, <2>1, <2>2
<1>5. Unnested(r)
  <2> SUFFICES ASSUME NEW j \in 1..n, NEW k \in 1..n, j < k, At(r, j).pc = "deleted"
               PROVE  At(r, k).pc \notin Cutters
    BY DEF Unnested, n
  <2>1. CASE k \in 1..m
    <3>1. j \in 1..m
      BY <1>1, <2>1
    <3> QED
      BY <1>2, <2>1, <3>1 DEF Shape, Unnested
  <2>2. CASE k \in (m + 1)..n /\ j \in (m + 1)..n
    BY <2>2 DEF Shapely, m, n
  <2>3. CASE k \in (m + 1)..n /\ j \in 1..m
    <3>1. At(s, Len(s)).pc \notin Cutters /\ s # <<>>
      BY <1>1, <1>2, <2>3 DEF Shape, Unnested
    <3> QED
      BY <2>3, <3>1 DEF Shapely, m, n
  <2> QED
    BY <1>3, <2>1, <2>2, <2>3
<1>6. FromLinks(r)
  <2> SUFFICES ASSUME NEW k \in 1..n, At(r, k).pc \in {"sethome", "nettransfer"}
               PROVE  At(r, k).src \in Agents
    BY DEF FromLinks, n
  <2>1. CASE k \in 1..m
    BY <1>2, <2>1 DEF Shape, FromLinks
  <2>2. CASE k \in (m + 1)..n
    BY <2>2 DEF Shapely, m, n
  <2> QED
    BY <1>3, <2>1, <2>2
<1>7. HeldTop(r)
  <2> SUFFICES ASSUME NEW k \in 1..n, Holding(At(r, k))
               PROVE  k = n \/ (k = n - 1 /\ LinkDelete(At(r, n)))
    BY DEF HeldTop, n
  <2>1. CASE k \in 1..m
    <3>1. k = m /\ LinkDelete(At(s, Len(s))) /\ s # <<>>
      BY <1>1, <1>2, <2>1 DEF Shape, HeldTop
    <3>2. ~(n > m)
      BY <3>1 DEF Shapely, m, n
    <3> QED
      BY <1>1, <3>1, <3>2
  <2>2. CASE k \in (m + 1)..n
    BY <2>2 DEF Shapely, m, n
  <2> QED
    BY <1>3, <2>1, <2>2
<1> QED
  BY <1>4, <1>5, <1>6, <1>7 DEF Shape


LEMMA ShapeBroken ==
    ASSUME NEW s \in Seq(FrameType), NEW r, Len(r) \in Nat, Shape(s), Broken(s, r)
    PROVE  Shape(r)
<1>1. Len(s) \in Nat /\ Len(r) < Len(s)
  BY LenProperties DEF Broken
<1>2. \A k \in 1..Len(r) : At(r, k) = At(s, k) /\ k \in 1..Len(s) /\ k # Len(s)
  BY <1>1 DEF Broken, Kept
<1>3. TopOnly(r) /\ FromLinks(r)
  BY <1>2 DEF Shape, TopOnly, FromLinks
<1>4. Unnested(r)
  BY <1>2 DEF Shape, Unnested
<1>5. HeldTop(r)
  <2> SUFFICES ASSUME NEW k \in 1..Len(r), Holding(At(r, k)) PROVE k = Len(r)
    BY DEF HeldTop
  <2>1. k = Len(s) - 1
    BY <1>2 DEF Shape, HeldTop
  <2> QED
    BY <1>1, <2>1
<1> QED
  BY <1>3, <1>4, <1>5 DEF Shape

LEMMA HandedFrame ==
    ASSUME NEW s \in Seq(FrameType), NEW r, NEW x, Handed(s, r, x)
    PROVE  /\ Len(r) \in Nat \ {0} /\ Len(s) = Len(r) + 1
           /\ At(s, Len(r)) \in FrameType
           /\ At(r, Len(r)).pc = At(s, Len(r)).pc /\ At(r, Len(r)).pid = At(s, Len(r)).pid
           /\ At(r, Len(r)).src = At(s, Len(r)).src /\ At(r, Len(r)).dst = x
           /\ \A k \in 1..Len(r) : k # Len(r) => At(r, k) = At(s, k)
<1>1. Len(s) \in Nat /\ Len(r) = Len(s) - 1 /\ Len(s) > 1
  BY LenProperties DEF Handed
<1>2. Len(s) + 1 - Len(r) = 2 /\ 2 \in 1..Len(s)
  BY <1>1
<1>3. At(s, Len(r)) \in FrameType
  BY <1>2, ElementOfSeq DEF At
<1>4. /\ At(r, Len(r)).pc = At(s, Len(r)).pc /\ At(r, Len(r)).pid = At(s, Len(r)).pid
      /\ At(r, Len(r)).src = At(s, Len(r)).src /\ At(r, Len(r)).dst = x
  BY <1>3 DEF Handed, FrameType
<1>5. ASSUME NEW k \in 1..Len(r), k # Len(r) PROVE At(r, k) = At(s, k)
  <2>1. k \in 1..(Len(s) - 2)
    BY <1>1, <1>5
  <2> QED
    BY <2>1 DEF Handed, Kept
<1> QED
  BY <1>1, <1>3, <1>4, <1>5

LEMMA ShapeHanded ==
    ASSUME NEW s \in Seq(FrameType), NEW r, NEW x, Shape(s), Handed(s, r, x)
    PROVE  Shape(r)
<1>1. /\ Len(r) \in Nat \ {0} /\ Len(s) = Len(r) + 1
      /\ At(r, Len(r)).pc = At(s, Len(r)).pc /\ At(r, Len(r)).src = At(s, Len(r)).src
      /\ \A k \in 1..Len(r) : k # Len(r) => At(r, k) = At(s, k)
  BY HandedFrame
<1>2. \A k \in 1..Len(r) : /\ At(r, k).pc = At(s, k).pc /\ At(r, k).src = At(s, k).src
                           /\ k \in 1..Len(s) /\ k # Len(s)
  BY <1>1
<1>3. TopOnly(r) /\ FromLinks(r)
  BY <1>2 DEF Shape, TopOnly, FromLinks
<1>4. Unnested(r)
  BY <1>2 DEF Shape, Unnested
<1>5. HeldTop(r)
  <2> SUFFICES ASSUME NEW k \in 1..Len(r), Holding(At(r, k)), k # Len(r) PROVE FALSE
    BY DEF HeldTop
  <2>1. At(r, k) = At(s, k) /\ k \in 1..Len(s)
    BY <1>1, <1>2
  <2>2. k = Len(s) \/ k = Len(s) - 1
    BY <2>1 DEF Shape, HeldTop
  <2> QED
    BY <1>1, <2>2
<1> QED
  BY <1>3, <1>4, <1>5 DEF Shape


\* The frame f may be put on the stack s.
Fits(s, f) == /\ f.pc \in Cutters => s = <<>> \/ At(s, Len(s)).pc \in Cutters
              /\ f.pc \in {"sethome", "nettransfer"} => f.src \in Agents

Rests(f) == f.pc \notin {"delobject", "exitgame"}

LEMMA ShapeNone ==
    ASSUME NEW s \in Seq(FrameType), NEW r, Len(r) \in Nat, Shape(s), Piled0(s, r)
    PROVE  Shape(r)
<1>1. Shapely(s, r)
  BY DEF Piled0, Shapely
<1> QED
  BY <1>1, ShapePiled DEF Piled0

LEMMA ShapeOne ==
    ASSUME NEW s \in Seq(FrameType), NEW r, Len(r) \in Nat, Shape(s), NEW f, Piled1(s, r, f),
           s # <<>> => ~LinkDelete(At(s, Len(s))), Fits(s, f)
    PROVE  Shape(r)
<1>1. Base(s) \in Nat /\ Len(r) = Base(s) + 1 /\ At(r, Len(r)) = f
  BY BaseType DEF Piled1
<1>2. \A k \in (Base(s) + 1)..Len(r) : k = Len(r)
  BY <1>1
<1>3. Shapely(s, r)
  BY <1>1, <1>2 DEF Shapely, Fits
<1> QED
  BY <1>3, ShapePiled DEF Piled1

LEMMA ShapeTwo ==
    ASSUME NEW s \in Seq(FrameType), NEW r, Len(r) \in Nat, Shape(s),
           NEW f, NEW g, Piled2(s, r, f, g),
           s # <<>> => ~LinkDelete(At(s, Len(s))), Fits(s, f), Fits(s, g), Rests(g),
           g.pc = "deleted" => f.pc \notin Cutters, Holding(g) => LinkDelete(f)
    PROVE  Shape(r)
<1>1. /\ Base(s) \in Nat /\ Len(r) = Base(s) + 2
      /\ At(r, Len(r)) = f /\ At(r, Len(r) - 1) = g
  BY BaseType DEF Piled2
<1>2. \A k \in (Base(s) + 1)..Len(r) : k = Len(r) \/ k = Len(r) - 1
  BY <1>1
<1>3. \A k \in (Base(s) + 1)..Len(r) : At(r, k) = f \/ (At(r, k) = g /\ k = Len(r) - 1)
  BY <1>1, <1>2
<1>4. \A j, k \in (Base(s) + 1)..Len(r) : j < k => At(r, j) = g /\ At(r, k) = f
  BY <1>1, <1>2
<1>5. Shapely(s, r)
  BY <1>1, <1>2, <1>3, <1>4 DEF Shapely, Fits, Rests
<1> QED
  BY <1>5, ShapePiled DEF Piled2

LEMMA ShapeThree ==
    ASSUME NEW s \in Seq(FrameType), NEW r, Len(r) \in Nat, Shape(s),
           NEW f, NEW g, NEW h, Piled3(s, r, f, g, h),
           s # <<>> => ~LinkDelete(At(s, Len(s))),
           Fits(s, f), Fits(s, g), Fits(s, h), Rests(g), Rests(h),
           g.pc # "deleted", h.pc = "deleted" => f.pc \notin Cutters /\ g.pc \notin Cutters,
           ~Holding(g), ~Holding(h)
    PROVE  Shape(r)
<1>1. /\ Base(s) \in Nat /\ Len(r) = Base(s) + 3
      /\ At(r, Len(r)) = f /\ At(r, Len(r) - 1) = g /\ At(r, Len(r) - 2) = h
  BY BaseType DEF Piled3
<1>2. \A k \in (Base(s) + 1)..Len(r) : k = Len(r) \/ k = Len(r) - 1 \/ k = Len(r) - 2
  BY <1>1
<1>3. \A k \in (Base(s) + 1)..Len(r) :
         (At(r, k) = f /\ k = Len(r)) \/ At(r, k) = g \/ At(r, k) = h
  BY <1>1, <1>2
<1>4. \A j, k \in (Base(s) + 1)..Len(r) :
         j < k => (At(r, j) = g /\ At(r, k) = f) \/ (At(r, j) = h /\ At(r, k) \in {f, g})
  BY <1>1, <1>2
<1>5. Shapely(s, r)
  BY <1>1, <1>3, <1>4 DEF Shapely, Fits, Rests
<1> QED
  BY <1>5, ShapePiled DEF Piled3


\* Queue entries are of links.
QueueLinks == \A i \in 1..Len(queue) : queue[i].pid \in Agents

LEMMA LinkObject ==
    ASSUME IInv, NEW a \in Agents
    PROVE  id_obj[a] \in {a, None}
<1>1. 1..nobj \subseteq Players
  BY Made DEF IInv
<1>2. a \in Pids /\ a \notin Roles
  BY Names DEF Pids
<1> QED
  BY <1>1, <1>2, RegisteredGood

LEMMA ShapeStep ==
    ASSUME IInv, IInv', Serial, Shape(stack[1]), QueueLinks, NEW t \in Tasks, Step(t)
    PROVE  Shape(stack'[1])
<1> DEFINE s == stack[1]
           r == stack'[1]
           x == stack[t][1]
<1>1. /\ t = 1 /\ s \in Seq(FrameType) /\ r \in Seq(FrameType) /\ Len(r) \in Nat
      /\ s # <<>> => x = At(s, Len(s))
  <2>1. stack' \in [Tasks -> Seq(FrameType)]
    BY DEF IInv, StackInv
  <2> QED
    BY <2>1, OneTask, StackType, LenProperties
<1>2. s # <<>>
  BY <1>1 DEF Step, DelNothing, DelLink, DelOnline, DelOffline, DelKuafu, Deleted, ExitGame,
              Saved, Pop, Unload, NewPlayer, SetHome, NetTransfer, AddPlayer, AddOffline,
              AddKuafu, AddRepeat, CallFails, OnLogin, Kick, ProtoKick, Closed, GoSrv, ReenterGame, Runs
<1> HIDE DEF s, r, x
<1> SUFFICES Shape(r)
  BY DEF r
<1>3. ASSUME Continue(t, <<>>) PROVE Shape(r)
  <2>1. Piled0(s, r)
    BY <1>1, <1>2, <1>3, Goes DEF s, r
  <2> QED
    BY <1>1, <2>1, ShapeNone DEF s
<1>4. ASSUME NEW pc, NEW p, NEW o, NEW d, x.pc # "delobject" \/ x.pid \notin Agents,
             Continue(t, <<Frame(pc, p, o, d)>>) \/ Suspend(t, <<Frame(pc, p, o, d)>>),
             pc \in Cutters => x.pc \in Cutters,
             pc \in {"sethome", "nettransfer"} => o \in Agents
      PROVE  Shape(r)
  <2> DEFINE f == Frame(pc, p, o, d)
  <2>1. f.pc = pc /\ f.src = o
    BY DEF Frame
  <2> HIDE DEF f
  <2>2. Piled1(s, r, f)
    BY <1>1, <1>2, <1>4, Goes DEF s, r, f
  <2>3. Fits(s, f) /\ ~LinkDelete(At(s, Len(s)))
    BY <1>1, <1>2, <1>4, <2>1 DEF Fits, LinkDelete
  <2> QED
    BY <1>1, <2>2, <2>3, ShapeOne DEF s
<1>5. ASSUME NEW pc, NEW p, NEW o, NEW d, NEW pc2, NEW p2, NEW o2, NEW d2,
             x.pc # "delobject" \/ x.pid \notin Agents,
             \/ Continue(t, <<Frame(pc, p, o, d), Frame(pc2, p2, o2, d2)>>)
             \/ Suspend(t, <<Frame(pc, p, o, d), Frame(pc2, p2, o2, d2)>>),
             {pc, pc2} \cap Cutters # {} => x.pc \in Cutters /\ pc2 # "deleted",
             pc \notin {"sethome", "nettransfer"},
             pc2 \in {"sethome", "nettransfer"} => o2 \in Agents,
             pc2 \notin {"delobject", "exitgame"},
             pc2 \in Takers /\ d2 # None => pc = "delobject" /\ p \in Agents
      PROVE  Shape(r)
  <2> DEFINE f == Frame(pc, p, o, d)
             g == Frame(pc2, p2, o2, d2)
  <2>1. f.pc = pc /\ f.pid = p /\ g.pc = pc2 /\ g.src = o2 /\ g.dst = d2
    BY DEF Frame
  <2> HIDE DEF f, g
  <2>2. Piled2(s, r, f, g)
    BY <1>1, <1>2, <1>5, Goes DEF s, r, f, g
  <2>3. /\ Fits(s, f) /\ Fits(s, g) /\ ~LinkDelete(At(s, Len(s))) /\ Rests(g)
        /\ g.pc = "deleted" => f.pc \notin Cutters
        /\ Holding(g) => LinkDelete(f)
    BY <1>1, <1>2, <1>5, <2>1 DEF Fits, LinkDelete, Rests, Holding
  <2> QED
    BY <1>1, <2>2, <2>3, ShapeTwo DEF s
<1>6. CASE DelNothing(t) \/ DelLink(t) \/ Deleted(t) \/ OnLogin(t) \/ ProtoKick(t) \/ Closed(t)
           \/ AddOffline(t) \/ AddKuafu(t)
  BY <1>3, <1>6 DEF DelNothing, DelLink, Deleted, OnLogin, ProtoKick, Closed, AddOffline, AddKuafu
<1>7. CASE DelOnline(t)
  <2>1. x.pc = "delobject" /\ x.pid \notin Agents
    BY <1>1, <1>7, LinkObject, Names DEF DelOnline, Runs, x, Players
  <2> DEFINE f == Frame("exitgame", None, id_obj[x.pid], None)
             g == Frame("pop", None, None, None)
             h == Frame("deleted", x.pid, id_obj[x.pid], None)
  <2>2. /\ f.pc = "exitgame" /\ g.pc = "pop" /\ h.pc = "deleted"
    BY DEF Frame
  <2>3. Suspend(t, <<f, g, h>>)
    BY <1>7 DEF DelOnline, x
  <2> HIDE DEF f, g, h
  <2>4. Piled3(s, r, f, g, h)
    BY <1>1, <1>2, <2>3, Goes DEF s, r
  <2>5. /\ Fits(s, f) /\ Fits(s, g) /\ Fits(s, h) /\ Rests(g) /\ Rests(h)
        /\ g.pc # "deleted" /\ f.pc \notin Cutters /\ g.pc \notin Cutters
        /\ ~Holding(g) /\ ~Holding(h) /\ ~LinkDelete(At(s, Len(s)))
    BY <1>1, <1>2, <2>1, <2>2 DEF Fits, Rests, Holding, LinkDelete, Cutters, Takers
  <2> QED
    BY <1>1, <2>4, <2>5, ShapeThree DEF s
<1>8. CASE DelOffline(t)
  <2>1. x.pc = "delobject" /\ x.pid \notin Agents
    BY <1>1, <1>8, LinkObject, Names DEF DelOffline, Runs, x, Players
  <2>2. Suspend(t, <<Frame("saved", None, id_obj[x.pid], None),
                     Frame("deleted", x.pid, id_obj[x.pid], None)>>)
    BY <1>8 DEF DelOffline, x
  <2> QED
    BY <1>5, <2>1, <2>2 DEF Cutters, Takers
<1>9. CASE DelKuafu(t)
  <2>1. x.pc = "delobject" /\ x.pid \notin Agents
    BY <1>1, <1>9, LinkObject, Names DEF DelKuafu, Runs, x, Players
  <2>2. Continue(t, <<Frame("deleted", x.pid, id_obj[x.pid], None)>>)
    BY <1>9 DEF DelKuafu, x
  <2> QED
    BY <1>4, <2>1, <2>2 DEF Cutters
<1>10. CASE ExitGame(t)
  <2>1. x.pc = "exitgame" /\ Suspend(t, <<Frame("saved", None, x.src, None)>>)
    BY <1>10 DEF ExitGame, Runs, x
  <2> QED
    BY <1>4, <2>1 DEF Cutters
<1>11. CASE Saved(t)
  <2>1. /\ x.pc = "saved"
        /\ \/ Continue(t, <<>>)
           \/ Continue(t, <<Frame("delobject", obj[x.src].pid, None, None)>>)
    BY <1>11 DEF Saved, Runs, x
  <2> QED
    BY <1>3, <1>4, <2>1 DEF Cutters
<1>12. CASE Pop(t)
  <2>1. x.pc = "pop"
    BY <1>12 DEF Pop, Runs, x
  <2>2. \/ Continue(t, <<>>)
        \/ /\ queue # <<>> /\ id_obj[Head(queue).pid] # None
           /\ Continue(t, <<Frame("recoverplayer", Head(queue).role, None, None),
                            Frame("nettransfer", None, id_obj[Head(queue).pid], None)>>)
    BY <1>12 DEF Pop
  <2>3. ASSUME queue # <<>>, id_obj[Head(queue).pid] # None
        PROVE  id_obj[Head(queue).pid] \in Agents
    <3>1. Head(queue) = queue[1] /\ 1 \in 1..Len(queue)
      BY <2>3, EmptySeq, LenProperties DEF IInv, QueueType
    <3>2. queue[1].pid \in Agents
      BY <3>1 DEF QueueLinks
    <3> QED
      BY <2>3, <3>1, <3>2, LinkObject
  <2> QED
    BY <1>3, <1>5, <2>1, <2>2, <2>3 DEF Cutters
<1>13. CASE Unload(t)
  <2>1. x.pc = "recoverplayer"
    BY <1>13 DEF Unload, Runs, x
  <2>2. \/ Continue(t, <<Frame("newplayer", x.pid, None, None)>>)
        \/ Continue(t, <<Frame("delobject", x.pid, None, None),
                         Frame("newplayer", x.pid, None, None)>>)
    BY <1>13 DEF Unload, x
  <2> QED
    BY <1>4, <1>5, <2>1, <2>2 DEF Cutters, Takers
<1>14. CASE NewPlayer(t)
  <2>1. Handed(s, r, nobj + 1)
    BY <1>14, Handing DEF s, r
  <2> QED
    BY <1>1, <2>1, ShapeHanded DEF s
<1>15. CASE SetHome(t)
  <2>1. x.pc = "sethome" /\ Suspend(t, <<Frame("nettransfer", None, x.src, x.dst)>>)
    BY <1>15 DEF SetHome, Runs, x
  <2>2. x.src \in Agents
    BY <1>1, <1>2, <2>1 DEF Shape, FromLinks, s
  <2> QED
    BY <1>4, <2>1, <2>2 DEF Cutters
<1>16. ASSUME Raise(t) PROVE Shape(r)
  <2>1. Broken(s, r)
    BY <1>1, <1>2, <1>16, Breaks DEF s, r
  <2> QED
    BY <1>1, <2>1, ShapeBroken DEF s
<1>17. CASE NetTransfer(t)
  <2>1. x.pc = "nettransfer"
    BY <1>17 DEF NetTransfer, Runs, x
  <2>2. x.src \in Agents
    BY <1>1, <1>2, <2>1 DEF Shape, FromLinks, s
  <2>3. Raise(t) \/ Continue(t, <<Frame("delobject", x.src, None, None),
                                  Frame("addplayer", None, x.src, x.dst)>>)
    BY <1>17, <2>2 DEF NetTransfer, PidOf, x
  <2> QED
    BY <1>5, <1>16, <2>1, <2>2, <2>3 DEF Cutters
<1>18. CASE AddPlayer(t)
  <2>1. x.pc = "addplayer" /\ Suspend(t, <<Frame("onlogin", None, None, x.dst)>>)
    BY <1>18 DEF AddPlayer, Runs, x
  <2> QED
    BY <1>4, <2>1 DEF Cutters
<1>19. CASE AddRepeat(t) \/ CallFails(t)
  BY <1>16, <1>19 DEF AddRepeat, CallFails
<1>20. CASE Kick(t)
  <2>1. x.pc = "kick"
    BY <1>20 DEF Kick, Runs, x
  <2>2. Continue(t, <<>>) \/ Continue(t, <<Frame("delobject", x.pid, None, None),
                                           Frame("protokick", None, id_obj[x.pid], None)>>)
    BY <1>20 DEF Kick, x
  <2> QED
    BY <1>3, <1>5, <2>1, <2>2 DEF Cutters, Takers
<1>21. CASE GoSrv(t)
  <2>1. x.pc = "gosrv" /\ Suspend(t, <<Frame("reentergame", x.pid, None, None)>>)
    BY <1>21 DEF GoSrv, Runs, x
  <2> QED
    BY <1>4, <2>1 DEF Cutters
<1>22. CASE ReenterGame(t)
  <2>1. x.pc = "reentergame" /\ Continue(t, <<Frame("kick", x.pid, None, None)>>)
    BY <1>22 DEF ReenterGame, Runs, x
  <2> QED
    BY <1>4, <2>1 DEF Cutters
<1> QED
  BY <1>6, <1>7, <1>8, <1>9, <1>10, <1>11, <1>12, <1>13, <1>14, <1>15, <1>17, <1>18,
     <1>19, <1>20, <1>21, <1>22 DEF Step


\* entergame is for links, and its handler begins in one of four ways.
LEMMA EnterSpawns ==
    ASSUME IInv, Serial, NEW a \in Agents, NEW r \in Roles,
           EnterGame(a, r) \/ \E home \in BOOLEAN : EnterByToken(a, r, home)
    PROVE  /\ Requester(a) \in Agents
           /\ \E pc \in {"sethome", "nettransfer"} :
                LET K == Frame("kick", r, None, None)
                    R == Frame("recoverplayer", r, None, None)
                    N == Frame(pc, None, Requester(a), None)
                    G == Frame("gosrv", Requester(a), None, None)
                IN Spawn(<<R, N>>) \/ Spawn(<<K, R, N>>) \/ Spawn(<<G>>) \/ Spawn(<<K, G>>)
<1>1. Requester(a) \in Agents
  <2>1. Requester(a) # None /\ Requester(a) \notin Players
    BY DEF EnterGame, EnterByToken, MayEnter, Serial
  <2> QED
    BY <2>1, RequesterType, Made DEF IInv
<1>2. PidOf(Requester(a)) = Requester(a)
  BY <1>1 DEF PidOf
<1> DEFINE K == Frame("kick", r, None, None)
           R == Frame("recoverplayer", r, None, None)
           G == Frame("gosrv", Requester(a), None, None)
           N(pc) == Frame(pc, None, Requester(a), None)
           kick == IF id_obj[r] = None THEN <<>> ELSE <<K>>
<1>3. ASSUME NEW f, NEW g
      PROVE  /\ kick \o <<f>> \in {<<f>>, <<K, f>>}
             /\ kick \o <<f, g>> \in {<<f, g>>, <<K, f, g>>}
  <2> DEFINE S == {K, f, g}
             U == <<f>>
             V == <<f, g>>
  <2>1. K \in S /\ U \in Seq(S) /\ V \in Seq(S)
    OBVIOUS
  <2>2. Len(U) = 1 /\ U[1] = f /\ Len(V) = 2 /\ V[1] = f /\ V[2] = g
    OBVIOUS
  <2>3. kick = <<>> \/ kick = <<K>>
    OBVIOUS
  <2> HIDE DEF S, U, V, K, kick
  <2>4. /\ <<>> \o U = U /\ <<K>> \o U = <<K, f>>
        /\ <<>> \o V = V /\ <<K>> \o V = <<K, f, g>>
    BY <2>1, <2>2, AfterKick
  <2>5. /\ kick \o U = U \/ kick \o U = <<K, f>>
        /\ kick \o V = V \/ kick \o V = <<K, f, g>>
    BY <2>3, <2>4
  <2> QED
    BY <2>5 DEF U, V
<1>4. ASSUME EnterGame(a, r)
      PROVE  Spawn(kick \o <<G>>) \/ Spawn(kick \o <<R, N("nettransfer")>>)
  BY <1>2, <1>4 DEF EnterGame
<1>5. ASSUME NEW home \in BOOLEAN, EnterByToken(a, r, home)
      PROVE  \E pc \in {"sethome", "nettransfer"} : Spawn(kick \o <<R, N(pc)>>)
  <2>1. Spawn(kick \o <<R, N(IF home THEN "sethome" ELSE "nettransfer")>>)
    BY <1>5 DEF EnterByToken
  <2> QED
    BY <2>1
<1> HIDE DEF K, R, G, N, kick
<1>6. ASSUME NEW pc \in {"sethome", "nettransfer"}, Spawn(kick \o <<R, N(pc)>>)
      PROVE  Spawn(<<R, N(pc)>>) \/ Spawn(<<K, R, N(pc)>>)
  BY <1>3, <1>6
<1>7. ASSUME Spawn(kick \o <<G>>)
      PROVE  Spawn(<<G>>) \/ Spawn(<<K, G>>)
  BY <1>3, <1>7
<1>8. \E pc \in {"sethome", "nettransfer"} :
         Spawn(<<R, N(pc)>>) \/ Spawn(<<K, R, N(pc)>>) \/ Spawn(<<G>>) \/ Spawn(<<K, G>>)
  BY <1>4, <1>5, <1>6, <1>7
<1> QED
  BY <1>1, <1>8 DEF K, R, G, N

(***************************************************************************)
(* Messages and timers.                                                    *)
(***************************************************************************)
\* The first calls of a handler delete nothing but a role's or a link's present
\* object, hold no object, and move links.
Opening(f) == /\ f.pc \notin {"deleted", "addplayer"}
              /\ f.pc \in Takers => f.dst = None
              /\ f.pc \in {"sethome", "nettransfer"} => f.src \in Agents

Opens(r) == /\ Len(r) \in Nat
            /\ \A k \in 1..Len(r) : Opening(At(r, k)) /\ (Rests(At(r, k)) \/ k = Len(r))

LEMMA Openings ==
    ASSUME NEW r, NEW f, NEW g, NEW h, Opening(f), Opening(g), Opening(h), Rests(g), Rests(h)
    PROVE  /\ Piled1(<<>>, r, f) => Opens(r) /\ Len(r) > 0 /\ At(r, Len(r)) = f
           /\ Piled2(<<>>, r, f, g) => Opens(r) /\ Len(r) > 1 /\ At(r, Len(r)) = f
           /\ Piled3(<<>>, r, f, g, h) => Opens(r) /\ Len(r) > 1 /\ At(r, Len(r)) = f
<1>1. Base(<<>>) = 0
  BY DEF Base
<1>2. ASSUME Piled1(<<>>, r, f) PROVE Opens(r) /\ Len(r) > 0 /\ At(r, Len(r)) = f
  <2>1. Len(r) = 1 /\ At(r, 1) = f
    BY <1>1, <1>2 DEF Piled1
  <2> QED
    BY <2>1 DEF Opens
<1>3. ASSUME Piled2(<<>>, r, f, g) PROVE Opens(r) /\ Len(r) > 1 /\ At(r, Len(r)) = f
  <2>1. Len(r) = 2 /\ At(r, 2) = f /\ At(r, 1) = g
    BY <1>1, <1>3 DEF Piled2
  <2> QED
    BY <2>1 DEF Opens
<1>4. ASSUME Piled3(<<>>, r, f, g, h) PROVE Opens(r) /\ Len(r) > 1 /\ At(r, Len(r)) = f
  <2>1. Len(r) = 3 /\ At(r, 3) = f /\ At(r, 2) = g /\ At(r, 1) = h
    BY <1>1, <1>4 DEF Piled3
  <2> QED
    BY <2>1 DEF Opens
<1> QED
  BY <1>2, <1>3, <1>4

\* A handler begins on the empty stack.  CMD.close begins with a delobject, an
\* exitgame request with exitgame.
LEMMA EnterOpens ==
    ASSUME IInv, Serial, NEW a \in Agents, NEW r \in Roles,
           EnterGame(a, r) \/ \E home \in BOOLEAN : EnterByToken(a, r, home)
    PROVE  stack[1] = <<>> /\ Opens(stack'[1]) /\ Rests(At(stack'[1], Len(stack'[1])))
<1> DEFINE K == Frame("kick", r, None, None)
           R == Frame("recoverplayer", r, None, None)
           G == Frame("gosrv", Requester(a), None, None)
           N(pc) == Frame(pc, None, Requester(a), None)
<1>1. Requester(a) \in Agents
  BY EnterSpawns
<1>2. PICK pc \in {"sethome", "nettransfer"} :
         Spawn(<<R, N(pc)>>) \/ Spawn(<<K, R, N(pc)>>) \/ Spawn(<<G>>) \/ Spawn(<<K, G>>)
  BY EnterSpawns
<1>3. /\ Opening(K) /\ Opening(R) /\ Opening(G) /\ Opening(N(pc))
      /\ Rests(K) /\ Rests(R) /\ Rests(G) /\ Rests(N(pc))
  BY <1>1 DEF Frame, Opening, Rests, Takers
<1> DEFINE M == N(pc)
<1> HIDE DEF K, R, G, M
<1>4. Spawn(<<R, M>>) \/ Spawn(<<K, R, M>>) \/ Spawn(<<G>>) \/ Spawn(<<K, G>>)
  BY <1>2 DEF M
<1>5. /\ Opening(K) /\ Opening(R) /\ Opening(G) /\ Opening(M)
      /\ Rests(K) /\ Rests(R) /\ Rests(G) /\ Rests(M)
  BY <1>3 DEF M
<1>6. stack[1] = <<>> /\ (\/ Piled2(<<>>, stack'[1], R, M) \/ Piled3(<<>>, stack'[1], K, R, M)
                          \/ Piled1(<<>>, stack'[1], G) \/ Piled2(<<>>, stack'[1], K, G))
  <2>1. ASSUME Spawn(<<R, M>>) PROVE stack[1] = <<>> /\ Piled2(<<>>, stack'[1], R, M)
    BY <2>1, Begins
  <2>2. ASSUME Spawn(<<K, R, M>>) PROVE stack[1] = <<>> /\ Piled3(<<>>, stack'[1], K, R, M)
    BY <2>2, Begins
  <2>3. ASSUME Spawn(<<G>>) PROVE stack[1] = <<>> /\ Piled1(<<>>, stack'[1], G)
    BY <2>3, Begins
  <2>4. ASSUME Spawn(<<K, G>>) PROVE stack[1] = <<>> /\ Piled2(<<>>, stack'[1], K, G)
    BY <2>4, Begins
  <2> QED
    BY <1>4, <2>1, <2>2, <2>3, <2>4
<1> QED
  BY <1>5, <1>6, Openings

LEMMA CloseOpens ==
    ASSUME IInv, Serial, NEW a \in Agents, Close(a), conn[a] # None
    PROVE  /\ stack[1] = <<>> /\ Opens(stack'[1]) /\ Len(stack'[1]) = 2
           /\ At(stack'[1], 2).pc = "delobject" /\ At(stack'[1], 2).pid = conn[a]
           /\ At(stack'[1], 1).pc = "closed" /\ At(stack'[1], 1).pid = a
<1> DEFINE D == Frame("delobject", conn[a], None, None)
           C == Frame("closed", a, None, None)
<1>1. Spawn(<<D, C>>)
  BY DEF Close
<1>2. /\ Opening(D) /\ Opening(C) /\ Rests(C)
      /\ D.pc = "delobject" /\ D.pid = conn[a] /\ C.pc = "closed" /\ C.pid = a
  BY DEF Frame, Opening, Rests, Takers
<1> HIDE DEF D, C
<1>3. stack[1] = <<>> /\ Piled2(<<>>, stack'[1], D, C)
  BY <1>1, Begins
<1>4. Len(stack'[1]) = 2 /\ At(stack'[1], 2) = D /\ At(stack'[1], 1) = C
  BY <1>3 DEF Piled2, Base
<1> QED
  BY <1>2, <1>3, <1>4, Openings

LEMMA ExitOpens ==
    ASSUME IInv, Serial, NEW a \in Agents, ExitRequest(a)
    PROVE  /\ stack[1] = <<>> /\ Opens(stack'[1]) /\ Len(stack'[1]) = 1
           /\ At(stack'[1], 1).pc = "exitgame" /\ At(stack'[1], 1).src = Requester(a)
<1> DEFINE X == Frame("exitgame", None, Requester(a), None)
<1>1. SpawnWaiting(<<X>>)
  BY DEF ExitRequest
<1>2. Opening(X) /\ X.pc = "exitgame" /\ X.src = Requester(a)
  BY DEF Frame, Opening, Takers
<1> HIDE DEF X
<1>3. stack[1] = <<>> /\ Piled1(<<>>, stack'[1], X)
  BY <1>1, Begins
<1>4. Len(stack'[1]) = 1 /\ At(stack'[1], 1) = X
  BY <1>3 DEF Piled1, Base
<1>5. \A k \in 1..Len(stack'[1]) : k = Len(stack'[1]) /\ At(stack'[1], k) = X
  BY <1>4
<1> QED
  BY <1>2, <1>3, <1>4, <1>5 DEF Opens

MessageOpens == \/ stack'[1] = stack[1]
                \/ stack[1] = <<>> /\ Opens(stack'[1]) /\ Rests(At(stack'[1], Len(stack'[1])))

LEMMA OneOpens ==
    ASSUME IInv, Serial, NEW f, Opening(f), Rests(f), Spawn(<<f>>) \/ SpawnWaiting(<<f>>)
    PROVE  MessageOpens
<1>1. stack[1] = <<>> /\ Piled1(<<>>, stack'[1], f)
  BY Begins
<1> QED
  BY <1>1, Openings DEF MessageOpens

LEMMA TwoOpen ==
    ASSUME IInv, Serial, NEW f, Opening(f), Rests(f), NEW g, Opening(g), Rests(g), Spawn(<<f, g>>)
    PROVE  MessageOpens
<1>1. stack[1] = <<>> /\ Piled2(<<>>, stack'[1], f, g)
  BY Begins
<1> QED
  BY <1>1, Openings DEF MessageOpens

LEMMA ClientOpens ==
    ASSUME IInv, Serial, NEW a \in Agents, Client(a)
    PROVE  MessageOpens \/ (Close(a) /\ conn[a] # None) \/ ExitRequest(a)
<1>1. CASE Start(a) \/ Login(a) \/ Play(a) \/ (Close(a) /\ conn[a] = None)
           \/ \E r \in Roles : EnterQueued(a, r)
  BY <1>1 DEF Start, Login, Play, Close, EnterQueued, MessageOpens
<1>2. CASE GoRequest(a)
  <2> DEFINE f == Frame("reentergame", PidOf(Requester(a)), None, None)
  <2>1. Opening(f) /\ Rests(f) /\ SpawnWaiting(<<f>>)
    BY <1>2 DEF Frame, Opening, Rests, Takers, GoRequest
  <2> HIDE DEF f
  <2> QED
    BY <2>1, OneOpens
<1>3. CASE \E r \in Roles : EnterGame(a, r) \/ \E home \in BOOLEAN : EnterByToken(a, r, home)
  BY <1>3, EnterOpens DEF MessageOpens
<1> QED
  BY <1>1, <1>2, <1>3 DEF Client

LEMMA ServerOpens ==
    ASSUME IInv, Serial, Server
    PROVE  MessageOpens
<1>1. ASSUME NEW r \in Roles, SetGoSrv(r) PROVE MessageOpens
  <2> DEFINE f == Frame("recoverplayer", r, None, None)
             g == Frame("addkuafu", r, None, None)
  <2>1. Opening(f) /\ Rests(f) /\ Opening(g) /\ Rests(g)
    BY DEF Frame, Opening, Rests, Takers
  <2>2. Spawn(<<f, g>>) \/ UNCHANGED stack
    BY <1>1 DEF SetGoSrv
  <2> HIDE DEF f, g
  <2> QED
    BY <2>1, <2>2, TwoOpen DEF MessageOpens
<1>2. ASSUME NEW r \in Roles, LoadOffline(r) PROVE MessageOpens
  <2> DEFINE f == Frame("newplayer", r, None, None)
             g == Frame("addoffline", r, None, None)
  <2>1. Opening(f) /\ Rests(f) /\ Opening(g) /\ Rests(g) /\ Spawn(<<f, g>>)
    BY <1>2 DEF Frame, Opening, Rests, Takers, LoadOffline
  <2> HIDE DEF f, g
  <2> QED
    BY <2>1, TwoOpen
<1>3. ASSUME NEW p \in Pids, GmKick(p) PROVE MessageOpens
  <2> DEFINE f == Frame("kick", p, None, None)
  <2>1. Opening(f) /\ Rests(f) /\ Spawn(<<f>>)
    BY <1>3 DEF Frame, Opening, Rests, Takers, GmKick
  <2> HIDE DEF f
  <2> QED
    BY <2>1, OneOpens
<1>4. ASSUME NEW o \in Players, AutoSave(o) PROVE MessageOpens
  <2> DEFINE f == Frame("saved", None, o, None)
  <2>1. Opening(f) /\ Rests(f)
    BY DEF Frame, Opening, Rests, Takers
  <2>2. SpawnWaiting(<<f>>) \/ UNCHANGED stack
    BY <1>4 DEF AutoSave
  <2> HIDE DEF f
  <2> QED
    BY <2>1, <2>2, OneOpens DEF MessageOpens
<1>5. ASSUME NEW o \in Players, GrowIdle(o) PROVE MessageOpens
  BY <1>5 DEF GrowIdle, MessageOpens
<1> QED
  BY <1>1, <1>2, <1>3, <1>4, <1>5 DEF Server

LEMMA OpensShape ==
    ASSUME NEW r, Opens(r)
    PROVE  Shape(r)
<1>1. TopOnly(r) /\ Unnested(r) /\ FromLinks(r) /\ HeldTop(r)
  BY DEF Opens, Opening, Rests, TopOnly, Unnested, FromLinks, HeldTop, Holding
<1> QED
  BY <1>1 DEF Shape

LEMMA ShapeMessage ==
    ASSUME IInv, Serial, Shape(stack[1]), Server \/ \E a \in Agents : Client(a)
    PROVE  Shape(stack'[1])
BY ServerOpens, ClientOpens, CloseOpens, ExitOpens, OpensShape DEF MessageOpens


(***************************************************************************)
(* The clients that wait are links.                                        *)
(***************************************************************************)
LEMMA RemovedLinks ==
    ASSUME IInv, QueueLinks, NEW p, QueueRemove(p)
    PROVE  QueueLinks'
<1> DEFINE hits == {i \in 1..Len(queue) : queue[i].pid = p}
           first == CHOOSE i \in hits : \A j \in hits : i <= j
           S == [pid : Agents, role : Roles]
<1>1. queue \in Seq([pid : Pids, role : Roles]) /\ Len(queue) \in Nat
  BY LenProperties DEF IInv, QueueType
<1>2. CASE hits = {}
  BY <1>1, <1>2 DEF QueueRemove, QueueLinks
<1>3. CASE hits # {}
  <2>1. queue' = SubSeq(queue, 1, first - 1) \o SubSeq(queue, first + 1, Len(queue))
    BY <1>3 DEF QueueRemove
  <2>2. \E i \in hits : \A j \in hits : i <= j
    <3>1. hits \in SUBSET Nat
      BY <1>1
    <3> HIDE DEF hits
    <3> QED
      BY <1>3, <3>1, LeastElement
  <2>3. first \in hits
    <3> HIDE DEF hits
    <3> QED
      BY <2>2
  <2>4. first \in 1..Len(queue)
    BY <2>3
  <2>5. \A i \in 1..Len(queue) : queue[i] \in S
    <3> SUFFICES ASSUME NEW i \in 1..Len(queue) PROVE queue[i] \in S
      OBVIOUS
    <3>1. queue[i] \in [pid : Pids, role : Roles] /\ queue[i].pid \in Agents
      BY <1>1, ElementOfSeq DEF QueueLinks
    <3> QED
      BY <3>1
  <2> HIDE DEF first, S
  <2>6. SubSeq(queue, 1, first - 1) \in Seq(S)
    BY <1>1, <2>4, <2>5, SubSeqProperties
  <2>7. SubSeq(queue, first + 1, Len(queue)) \in Seq(S)
    BY <1>1, <2>4, <2>5, SubSeqProperties
  <2>8. queue' \in Seq(S)
    BY <2>1, <2>6, <2>7, ConcatProperties
  <2>9. \A i \in 1..Len(queue') : queue'[i] \in S
    BY <2>8, ElementOfSeq
  <2> QED
    BY <2>9 DEF QueueLinks, S
<1> QED
  BY <1>2, <1>3

LEMMA QueueLinksKept ==
    ASSUME IInv, Serial, QueueLinks, [Next]_vars
    PROVE  QueueLinks'
<1>1. queue \in Seq([pid : Pids, role : Roles]) /\ Len(queue) \in Nat
  BY LenProperties DEF IInv, QueueType
<1>2. CASE UNCHANGED queue
  BY <1>2 DEF QueueLinks
<1>3. ASSUME NEW p, QueueRemove(p) PROVE QueueLinks'
  BY <1>3, RemovedLinks
<1>4. ASSUME queue # <<>>, queue' = Tail(queue) PROVE QueueLinks'
  <2>1. Len(queue') = Len(queue) - 1 /\ \A i \in 1..Len(queue') : queue'[i] = queue[i + 1]
    BY <1>1, <1>4, EmptySeq, HeadTailProperties
  <2>2. \A i \in 1..Len(queue') : i + 1 \in 1..Len(queue)
    BY <1>1, <2>1
  <2> QED
    BY <2>1, <2>2 DEF QueueLinks
<1>5. ASSUME NEW a \in Agents, NEW r \in Roles, EnterQueued(a, r) PROVE QueueLinks'
  <2>1. Requester(a) \in Agents
    <3>1. Requester(a) # None /\ Requester(a) \notin Players
      BY <1>5 DEF EnterQueued, MayEnter, Serial
    <3> QED
      BY <3>1, RequesterType, Made DEF IInv
  <2> DEFINE e == [pid |-> PidOf(Requester(a)), role |-> r]
  <2>2. e.pid \in Agents /\ e \in [pid : Pids, role : Roles] /\ queue' = Append(queue, e)
    BY <1>5, <2>1 DEF EnterQueued, PidOf, Pids
  <2> HIDE DEF e
  <2>3. /\ Len(queue') = Len(queue) + 1 /\ queue'[Len(queue) + 1] = e
        /\ \A i \in 1..Len(queue) : queue'[i] = queue[i]
    BY <1>1, <2>2, AppendProperties
  <2>4. \A i \in 1..Len(queue') : i \in 1..Len(queue) \/ i = Len(queue) + 1
    BY <1>1, <2>3
  <2> QED
    BY <2>2, <2>3, <2>4 DEF QueueLinks
<1>6. ASSUME NEW t \in Tasks, Step(t) PROVE QueueLinks'
  <2>1. CASE DelNothing(t) \/ DelLink(t) \/ Deleted(t)
    BY <1>3, <2>1 DEF DelNothing, DelLink, Deleted
  <2>2. CASE Pop(t)
    BY <1>2, <1>4, <2>2 DEF Pop
  <2>3. CASE DelOnline(t) \/ DelOffline(t) \/ DelKuafu(t) \/ ExitGame(t) \/ Saved(t)
             \/ Unload(t) \/ NewPlayer(t) \/ SetHome(t) \/ NetTransfer(t)
    BY <1>2, <2>3 DEF DelOnline, DelOffline, DelKuafu, ExitGame, Saved, Unload, NewPlayer,
                      SetHome, NetTransfer
  <2>4. CASE AddPlayer(t) \/ AddOffline(t) \/ AddKuafu(t) \/ AddRepeat(t) \/ CallFails(t) \/ OnLogin(t)
             \/ Kick(t) \/ ProtoKick(t) \/ Closed(t) \/ GoSrv(t) \/ ReenterGame(t)
    BY <1>2, <2>4 DEF AddPlayer, AddOffline, AddKuafu, AddRepeat, CallFails, OnLogin, Kick, ProtoKick,
                      Closed, GoSrv, ReenterGame
  <2> QED
    BY <1>6, <2>1, <2>2, <2>3, <2>4 DEF Step
<1>7. ASSUME NEW a \in Agents, Client(a) PROVE QueueLinks'
  <2>1. CASE \E r \in Roles : EnterQueued(a, r)
    BY <1>5, <2>1
  <2>2. CASE ~\E r \in Roles : EnterQueued(a, r)
    BY <1>2, <1>7, <2>2 DEF Client, Start, Close, Login, ExitRequest, Play, GoRequest,
                            EnterGame, EnterByToken
  <2> QED
    BY <2>1, <2>2
<1>8. CASE Server
  BY <1>2, <1>8 DEF Server, SetGoSrv, LoadOffline, GmKick, AutoSave, GrowIdle
<1>9. CASE UNCHANGED vars
  BY <1>2, <1>9 DEF vars
<1> QED
  BY <1>6, <1>7, <1>8, <1>9 DEF Next, Quiet

LEMMA ShapeKept ==
    ASSUME IInv, IInv', Serial, Shape(stack[1]), QueueLinks, [Next]_vars
    PROVE  Shape(stack'[1])
<1>1. CASE UNCHANGED stack
  BY <1>1
<1> QED
  BY <1>1, ShapeStep, ShapeMessage DEF Next, Quiet, vars


(***************************************************************************)
(* The steps of a handler that begin no deletion.                          *)
(***************************************************************************)
SameCall(f, g) == f.pc = g.pc /\ f.pid = g.pid /\ f.src = g.src

\* The stack r keeps the frames of s up to height m, the last of which may be given
\* an object; above it no deletion and no logoff has begun, no deletion is lost but the
\* one that ends, an addplayer has its object, and what an unloading call makes are
\* unloading calls.
Carries(s, r, m) ==
    /\ m \in 0..Len(s) /\ m <= Len(r) /\ Len(r) \in Nat
    /\ \A k \in 1..m :
          /\ SameCall(At(r, k), At(s, k))
          /\ At(r, k).dst = At(s, k).dst \/ At(r, k).dst # None
    /\ \A k \in (m + 1)..Len(r) :
          /\ At(r, k).pc \notin {"deleted", "exitgame"}
          /\ At(r, k).pc = "addplayer" => At(r, k).dst # None
    /\ \A k \in (m + 1)..Len(s) : At(s, k).pc = "deleted" => k = Len(s)
    /\ s # <<>> => m < Len(s)
    /\ s # <<>> /\ At(s, Len(s)).pc \in Unloading =>
          \A k \in (m + 1)..Len(r) : At(r, k).pc \in Unloading

\* A frame that may take the place of the frame x.
Follows(x, f) == /\ f.pc \notin {"deleted", "exitgame"}
                 /\ f.pc = "addplayer" => f.dst # None
                 /\ x.pc \in Unloading => f.pc \in Unloading

LEMMA CarriesPiled ==
    ASSUME NEW s \in Seq(FrameType), s # <<>>, NEW r, Len(r) \in Nat,
           Kept(s, r, Base(s)),
           \A k \in (Base(s) + 1)..Len(r) : Follows(At(s, Len(s)), At(r, k))
    PROVE  Carries(s, r, Base(s))
<1>1. Base(s) \in Nat /\ Len(s) = Base(s) + 1
  BY BaseType
<1>2. \A k \in (Base(s) + 1)..Len(s) : k = Len(s)
  BY <1>1
<1>3. \A k \in 1..Base(s) : SameCall(At(r, k), At(s, k)) /\ At(r, k).dst = At(s, k).dst
  BY DEF Kept, SameCall
<1> QED
  BY <1>1, <1>2, <1>3 DEF Carries, Follows, Kept

LEMMA CarriesFrames ==
    ASSUME NEW s \in Seq(FrameType), s # <<>>, NEW r, Len(r) \in Nat, NEW f, NEW g
    PROVE  /\ Piled0(s, r) => Carries(s, r, Base(s))
           /\ Piled1(s, r, f) /\ Follows(At(s, Len(s)), f) => Carries(s, r, Base(s))
           /\ Piled2(s, r, f, g) /\ Follows(At(s, Len(s)), f) /\ Follows(At(s, Len(s)), g)
                => Carries(s, r, Base(s))
<1>1. Base(s) \in Nat
  BY BaseType
<1>2. ASSUME Piled0(s, r) PROVE Carries(s, r, Base(s))
  <2>1. \A k \in (Base(s) + 1)..Len(r) : FALSE
    BY <1>1, <1>2 DEF Piled0
  <2> QED
    BY <1>2, <2>1, CarriesPiled DEF Piled0
<1>3. ASSUME Piled1(s, r, f), Follows(At(s, Len(s)), f) PROVE Carries(s, r, Base(s))
  <2>1. \A k \in (Base(s) + 1)..Len(r) : k = Base(s) + 1
    BY <1>1, <1>3 DEF Piled1
  <2>2. \A k \in (Base(s) + 1)..Len(r) : Follows(At(s, Len(s)), At(r, k))
    BY <1>3, <2>1 DEF Piled1
  <2> QED
    BY <1>3, <2>2, CarriesPiled DEF Piled1
<1>4. ASSUME Piled2(s, r, f, g), Follows(At(s, Len(s)), f), Follows(At(s, Len(s)), g)
      PROVE  Carries(s, r, Base(s))
  <2>1. \A k \in (Base(s) + 1)..Len(r) : k = Base(s) + 1 \/ k = Base(s) + 2
    BY <1>1, <1>4 DEF Piled2
  <2>2. \A k \in (Base(s) + 1)..Len(r) : Follows(At(s, Len(s)), At(r, k))
    BY <1>4, <2>1 DEF Piled2
  <2> QED
    BY <1>4, <2>2, CarriesPiled DEF Piled2
<1> QED
  BY <1>2, <1>3, <1>4

LEMMA CarriesBroken ==
    ASSUME NEW s \in Seq(FrameType), NEW r, Len(r) \in Nat, Broken(s, r)
    PROVE  Carries(s, r, Len(r))
<1>1. Len(s) \in Nat /\ Len(r) < Len(s)
  BY LenProperties DEF Broken
<1>2. \A k \in (Len(r) + 1)..Len(s) : k = Len(s) \/ k \in (Len(r) + 1)..(Len(s) - 1)
  BY <1>1
<1>3. \A k \in 1..Len(r) : SameCall(At(r, k), At(s, k)) /\ At(r, k).dst = At(s, k).dst
  BY DEF Broken, Kept, SameCall
<1> QED
  BY <1>1, <1>2, <1>3 DEF Broken, Carries

LEMMA CarriesHanded ==
    ASSUME NEW s \in Seq(FrameType), NEW r, NEW x, Handed(s, r, x),
           At(s, Len(s)).pc \notin Unloading, x # None
    PROVE  Carries(s, r, Len(r))
<1>1. /\ Len(r) \in Nat \ {0} /\ Len(s) = Len(r) + 1
      /\ At(r, Len(r)).pc = At(s, Len(r)).pc /\ At(r, Len(r)).pid = At(s, Len(r)).pid
      /\ At(r, Len(r)).src = At(s, Len(r)).src /\ At(r, Len(r)).dst = x
      /\ \A k \in 1..Len(r) : k # Len(r) => At(r, k) = At(s, k)
  BY HandedFrame
<1>2. \A k \in 1..Len(r) : /\ SameCall(At(r, k), At(s, k))
                           /\ At(r, k).dst = At(s, k).dst \/ At(r, k).dst # None
  BY <1>1 DEF SameCall
<1>3. \A k \in (Len(r) + 1)..Len(s) : k = Len(s)
  BY <1>1
<1> QED
  BY <1>1, <1>2, <1>3 DEF Carries

Deletes(t) == DelOnline(t) \/ DelOffline(t) \/ DelKuafu(t)

LEMMA StepCarries ==
    ASSUME IInv, IInv', Serial, NEW t \in Tasks, Step(t), ~Deletes(t)
    PROVE  \E m \in Nat : Carries(stack[1], stack'[1], m)
<1> DEFINE s == stack[1]
           r == stack'[1]
           x == stack[t][1]
<1>1. /\ t = 1 /\ s \in Seq(FrameType) /\ r \in Seq(FrameType) /\ Len(r) \in Nat
      /\ s # <<>> => x = At(s, Len(s))
  <2>1. stack' \in [Tasks -> Seq(FrameType)]
    BY DEF IInv, StackInv
  <2> QED
    BY <2>1, OneTask, StackType, LenProperties
<1>2. s # <<>>
  BY <1>1 DEF Step, Deletes, DelNothing, DelLink, DelOnline, DelOffline, DelKuafu, Deleted,
              ExitGame, Saved, Pop, Unload, NewPlayer, SetHome, NetTransfer, AddPlayer,
              AddOffline, AddKuafu, AddRepeat, CallFails, OnLogin, Kick, ProtoKick, Closed, GoSrv,
              ReenterGame, Runs
<1> HIDE DEF s, r, x
<1> SUFFICES \E m \in Nat : Carries(s, r, m)
  BY DEF s, r
<1>b. Base(s) \in Nat
  BY <1>1, BaseType DEF s
<1>3. ASSUME Continue(t, <<>>) PROVE Carries(s, r, Base(s))
  BY <1>1, <1>2, <1>3, Goes, CarriesFrames DEF s, r
<1>4. ASSUME NEW pc, NEW p, NEW o, NEW d,
             Continue(t, <<Frame(pc, p, o, d)>>) \/ Suspend(t, <<Frame(pc, p, o, d)>>),
             pc \notin {"deleted", "exitgame", "addplayer"},
             x.pc \in Unloading => pc \in Unloading
      PROVE  Carries(s, r, Base(s))
  <2> DEFINE f == Frame(pc, p, o, d)
  <2>1. f.pc = pc
    BY DEF Frame
  <2> HIDE DEF f
  <2>2. Piled1(s, r, f)
    BY <1>1, <1>2, <1>4, Goes DEF s, r, f
  <2>3. Follows(At(s, Len(s)), f)
    BY <1>1, <1>2, <1>4, <2>1 DEF Follows
  <2> QED
    BY <1>1, <1>2, <2>2, <2>3, CarriesFrames DEF s
<1>5. ASSUME NEW pc, NEW p, NEW o, NEW d, NEW pc2, NEW p2, NEW o2, NEW d2,
             \/ Continue(t, <<Frame(pc, p, o, d), Frame(pc2, p2, o2, d2)>>)
             \/ Suspend(t, <<Frame(pc, p, o, d), Frame(pc2, p2, o2, d2)>>),
             pc \notin {"deleted", "exitgame", "addplayer"}, pc2 \notin {"deleted", "exitgame"},
             x.pc \notin Unloading, pc2 = "addplayer" => d2 # None
      PROVE  Carries(s, r, Base(s))
  <2> DEFINE f == Frame(pc, p, o, d)
             g == Frame(pc2, p2, o2, d2)
  <2>1. f.pc = pc /\ g.pc = pc2 /\ g.dst = d2
    BY DEF Frame
  <2> HIDE DEF f, g
  <2>2. Piled2(s, r, f, g)
    BY <1>1, <1>2, <1>5, Goes DEF s, r, f, g
  <2>3. Follows(At(s, Len(s)), f) /\ Follows(At(s, Len(s)), g)
    BY <1>1, <1>2, <1>5, <2>1 DEF Follows
  <2> QED
    BY <1>1, <1>2, <2>2, <2>3, CarriesFrames DEF s
<1>6. CASE DelNothing(t) \/ DelLink(t) \/ Deleted(t) \/ OnLogin(t) \/ ProtoKick(t) \/ Closed(t)
           \/ AddOffline(t) \/ AddKuafu(t)
  BY <1>b, <1>3, <1>6 DEF DelNothing, DelLink, Deleted, OnLogin, ProtoKick, Closed, AddOffline,
                          AddKuafu
<1>10. CASE ExitGame(t)
  <2>1. x.pc = "exitgame" /\ Suspend(t, <<Frame("saved", None, x.src, None)>>)
    BY <1>10 DEF ExitGame, Runs, x
  <2> QED
    BY <1>b, <1>4, <2>1 DEF Unloading
<1>11. CASE Saved(t)
  <2>1. /\ x.pc = "saved"
        /\ \/ Continue(t, <<>>)
           \/ Continue(t, <<Frame("delobject", obj[x.src].pid, None, None)>>)
    BY <1>11 DEF Saved, Runs, x
  <2> QED
    BY <1>b, <1>3, <1>4, <2>1 DEF Unloading
<1>12. CASE Pop(t)
  <2>1. x.pc = "pop"
    BY <1>12 DEF Pop, Runs, x
  <2>2. \/ Continue(t, <<>>)
        \/ Continue(t, <<Frame("recoverplayer", Head(queue).role, None, None),
                         Frame("nettransfer", None, id_obj[Head(queue).pid], None)>>)
    BY <1>12 DEF Pop
  <2> QED
    BY <1>b, <1>3, <1>5, <2>1, <2>2 DEF Unloading
<1>13. CASE Unload(t)
  <2>1. x.pc = "recoverplayer"
    BY <1>13 DEF Unload, Runs, x
  <2>2. \/ Continue(t, <<Frame("newplayer", x.pid, None, None)>>)
        \/ Continue(t, <<Frame("delobject", x.pid, None, None),
                         Frame("newplayer", x.pid, None, None)>>)
    BY <1>13 DEF Unload, x
  <2> QED
    BY <1>b, <1>4, <1>5, <2>1, <2>2 DEF Unloading
<1>14. CASE NewPlayer(t)
  <2>1. Handed(s, r, nobj + 1)
    BY <1>14, Handing DEF s, r
  <2>2. x.pc = "newplayer" /\ nobj + 1 # None
    BY <1>14, NamesAssumption DEF NewPlayer, Runs, x, IInv, StackInv
  <2>3. Carries(s, r, Len(r))
    BY <1>1, <1>2, <2>1, <2>2, CarriesHanded DEF s, Unloading
  <2> QED
    BY <1>1, <2>3
<1>15. CASE SetHome(t)
  <2>1. x.pc = "sethome" /\ Suspend(t, <<Frame("nettransfer", None, x.src, x.dst)>>)
    BY <1>15 DEF SetHome, Runs, x
  <2> QED
    BY <1>b, <1>4, <2>1 DEF Unloading
<1>16. ASSUME Raise(t) PROVE Carries(s, r, Len(r))
  <2>1. Broken(s, r)
    BY <1>1, <1>2, <1>16, Breaks DEF s, r
  <2> QED
    BY <1>1, <2>1, CarriesBroken DEF s
<1>17. CASE NetTransfer(t)
  <2>1. x.pc = "nettransfer" /\ x.dst # None
    BY <1>17, StepTop DEF NetTransfer, Runs, x, Waits, Takers
  <2>3. Raise(t) \/ Continue(t, <<Frame("delobject", PidOf(x.src), None, None),
                                  Frame("addplayer", None, x.src, x.dst)>>)
    BY <1>17 DEF NetTransfer, x
  <2> QED
    BY <1>1, <1>b, <1>5, <1>16, <2>1, <2>3 DEF Unloading
<1>18. CASE AddPlayer(t)
  <2>1. x.pc = "addplayer" /\ Suspend(t, <<Frame("onlogin", None, None, x.dst)>>)
    BY <1>18 DEF AddPlayer, Runs, x
  <2> QED
    BY <1>b, <1>4, <2>1 DEF Unloading
<1>19. CASE AddRepeat(t) \/ CallFails(t)
  BY <1>1, <1>16, <1>19 DEF AddRepeat, CallFails
<1>20. CASE Kick(t)
  <2>1. x.pc = "kick"
    BY <1>20 DEF Kick, Runs, x
  <2>2. Continue(t, <<>>) \/ Continue(t, <<Frame("delobject", x.pid, None, None),
                                           Frame("protokick", None, id_obj[x.pid], None)>>)
    BY <1>20 DEF Kick, x
  <2> QED
    BY <1>b, <1>3, <1>5, <2>1, <2>2 DEF Unloading
<1>21. CASE GoSrv(t)
  <2>1. x.pc = "gosrv" /\ Suspend(t, <<Frame("reentergame", x.pid, None, None)>>)
    BY <1>21 DEF GoSrv, Runs, x
  <2> QED
    BY <1>b, <1>4, <2>1 DEF Unloading
<1>22. CASE ReenterGame(t)
  <2>1. x.pc = "reentergame" /\ Continue(t, <<Frame("kick", x.pid, None, None)>>)
    BY <1>22 DEF ReenterGame, Runs, x
  <2> QED
    BY <1>b, <1>4, <2>1 DEF Unloading
<1> QED
  BY <1>6, <1>10, <1>11, <1>12, <1>13, <1>14, <1>15, <1>17, <1>18,
     <1>19, <1>20, <1>21, <1>22 DEF Step, Deletes


(***************************************************************************)
(* The objects of players that others know.                                *)
(***************************************************************************)
Online(o) == obj[o].state = "online"

\* An object is registered, or its deletion has begun.
Known(o) == Doomed(o) \/ \E p \in Pids : id_obj[p] = o

KnownKept == \A o \in Players : Known(o) =>
                /\ obj'[o].pid = obj[o].pid /\ obj'[o].agent = obj[o].agent
                /\ obj'[o].state = obj[o].state

LEMMA HolderKnowsAlone ==
    ASSUME FreshInv, NEW t \in Tasks, NEW pc \in Takers, Runs(t, pc)
    PROVE  /\ stack[t][1].dst \in 1..nobj /\ stack[t][1].dst \in Players
           /\ ~Known(stack[t][1].dst) /\ stack[t][1].dst \notin saving
<1> DEFINE x == stack[t][1].dst
           n == Len(stack[t])
<1>1. x \in 1..nobj /\ x \in Players
  BY Taken DEF FreshInv
<1>2. stack[t] # <<>> /\ stack[t] \in Seq(FrameType) /\ n \in Nat /\ n > 0
  BY LenProperties, EmptySeq DEF Runs, FreshInv, IInv, StackInv
<1>3. At(stack[t], n) = stack[t][1]
  <2>1. n + 1 - n = 1
    BY <1>2
  <2> QED
    BY <2>1 DEF At
<1>4. Holds(t, n, x)
  BY <1>2, <1>3 DEF Holds, Runs
<1> HIDE DEF x, n
<1>5. x \notin saving /\ ~Doomed(x) /\ \A p \in Pids : id_obj[p] # x
  BY <1>1, <1>2, <1>4 DEF FreshInv, HeldFresh
<1> QED
  BY <1>1, <1>5 DEF Known, x

LEMMA ObjectsKept ==
    ASSUME FreshInv, [Next]_vars
    PROVE  KnownKept
<1>1. CASE UNCHANGED obj
  BY <1>1 DEF KnownKept
<1>o. obj \in [Players -> [pid : Roles \cup {None}, agent : Agents \cup {None},
                          state : {"new", "online", "offline", "kuafu"}, data : Nat]]
  BY DEF FreshInv, IInv, HeapType
<1>2. ASSUME NEW x, ~Known(x), \A o \in Players : o # x => obj'[o] = obj[o]
      PROVE  KnownKept
  BY <1>2 DEF KnownKept
<1>3. ASSUME NEW t \in Tasks, NewPlayer(t) PROVE KnownKept
  <2>1. nobj + 1 \in Players
    BY <1>3, BoundsAssumption DEF NewPlayer, NewObject, FreshInv, IInv, StackInv, Players
  <2>2. ~Known(nobj + 1)
    BY <2>1, NewNumber DEF FreshInv, Known
  <2>3. \A o \in Players : o # nobj + 1 => obj'[o] = obj[o]
    BY <1>3, <1>o DEF NewPlayer, NewObject
  <2> QED
    BY <1>2, <2>2, <2>3
<1>4. ASSUME NEW t \in Tasks, NetTransfer(t) \/ AddOffline(t) \/ AddKuafu(t) PROVE KnownKept
  <2>1. ~Known(stack[t][1].dst)
    BY <1>4, HolderKnowsAlone DEF NetTransfer, AddOffline, AddKuafu, Takers
  <2>2. \A o \in Players : o # stack[t][1].dst => obj'[o] = obj[o]
    BY <1>4, <1>o DEF NetTransfer, AddOffline, AddKuafu
  <2> QED
    BY <1>2, <2>1, <2>2
<1>5. ASSUME NEW a \in Agents, Play(a) PROVE KnownKept
  BY <1>5, <1>o DEF Play, KnownKept
<1>6. ASSUME NEW t \in Tasks, Step(t), ~NewPlayer(t), ~NetTransfer(t), ~AddOffline(t), ~AddKuafu(t)
      PROVE  UNCHANGED obj
  <2>1. CASE DelNothing(t) \/ DelLink(t) \/ DelOnline(t) \/ DelOffline(t) \/ DelKuafu(t)
             \/ Deleted(t) \/ ExitGame(t) \/ Saved(t) \/ Pop(t) \/ Unload(t)
    BY <2>1 DEF DelNothing, DelLink, DelOnline, DelOffline, DelKuafu, Deleted, ExitGame, Saved,
                Pop, Unload, heap
  <2>2. CASE SetHome(t) \/ AddPlayer(t) \/ AddRepeat(t) \/ CallFails(t) \/ OnLogin(t)
             \/ Kick(t) \/ ProtoKick(t) \/ Closed(t) \/ GoSrv(t) \/ ReenterGame(t)
    BY <2>2 DEF SetHome, AddPlayer, AddRepeat, CallFails, OnLogin, Kick, ProtoKick, Closed, GoSrv,
                ReenterGame, heap
  <2> QED
    BY <1>6, <2>1, <2>2 DEF Step
<1>7. ASSUME NEW a \in Agents, Client(a), ~Play(a) PROVE UNCHANGED obj
  BY <1>7 DEF Client, Start, Close, Login, ExitRequest, GoRequest, EnterQueued, EnterGame,
              EnterByToken, heap
<1>8. ASSUME Server PROVE UNCHANGED obj
  BY <1>8 DEF Server, SetGoSrv, LoadOffline, GmKick, AutoSave, GrowIdle, heap
<1>9. ASSUME UNCHANGED vars PROVE UNCHANGED obj
  BY <1>9 DEF vars, heap
<1> QED
  BY <1>1, <1>3, <1>4, <1>5, <1>6, <1>7, <1>8, <1>9 DEF Next, Quiet


(***************************************************************************)
(* The steps that begin a deletion.                                        *)
(***************************************************************************)
\* delobject of the object o of role p: its end waits, below what saves an object
\* that is not online, or logs one off that is, which lets a waiting client in.
DelFrames(p, o) ==
    /\ H > 0 /\ F(H).pc = "delobject" /\ F(H).pid = p
    /\ p \in Roles /\ o \in Players /\ id_obj[p] = o /\ obj[o].pid = p
    /\ obj[o].state # "new"
    /\ H' \in Nat /\ H <= H' /\ \A k \in 1..(H - 1) : At(stack'[1], k) = F(k)
    /\ At(stack'[1], H).pc = "deleted" /\ At(stack'[1], H).pid = p /\ At(stack'[1], H).src = o
    /\ \A k \in (H + 1)..H' :
          /\ At(stack'[1], k).pc \in {"saved", "pop", "exitgame"}
          /\ ~Online(o) => At(stack'[1], k).pc = "saved"
          /\ At(stack'[1], k).pc = "exitgame" => At(stack'[1], k).src = o
    /\ Online(o) => H < H' /\ At(stack'[1], H').pc = "exitgame"
    /\ UNCHANGED <<obj, nobj, reg, tables>>

LEMMA DelStacks ==
    ASSUME IInv, Serial, NEW t \in Tasks, Deletes(t)
    PROVE  DelFrames(F(H).pid, id_obj[F(H).pid])
<1> DEFINE p == stack[t][1].pid
           o == id_obj[p]
           E == Frame("exitgame", None, o, None)
           P == Frame("pop", None, None, None)
           S == Frame("saved", None, o, None)
           D == Frame("deleted", p, o, None)
           s == stack[1]
           r == stack'[1]
<1>1. /\ t = 1 /\ s \in Seq(FrameType) /\ s # <<>> /\ stack[t][1] = F(H) /\ H \in Nat /\ H > 0
      /\ Base(s) = H - 1 /\ F(H).pc = "delobject" /\ stack[t] # <<>>
  BY OneTask, StackType, BaseType
     DEF Deletes, DelOnline, DelOffline, DelKuafu, Runs, F, H
<1>2. p \in Pids /\ o \in Players
  BY StepTop DEF Deletes, DelOnline, DelOffline, DelKuafu, GoodFrame
<1>3. p \in Roles /\ obj[o].pid = p
  BY <1>2, RegisteredGood, Names DEF Objs
<1>4. /\ E.pc = "exitgame" /\ E.src = o /\ P.pc = "pop" /\ S.pc = "saved" /\ S.src = o
      /\ D.pc = "deleted" /\ D.pid = p /\ D.src = o
  BY DEF Frame
<1>5. /\ UNCHANGED <<obj, nobj, reg, tables>> /\ obj[o].state # "new"
      /\ \/ DelOnline(t) /\ Suspend(t, <<E, P, D>>)
         \/ DelOffline(t) /\ Suspend(t, <<S, D>>) /\ ~Online(o)
         \/ DelKuafu(t) /\ Continue(t, <<D>>) /\ ~Online(o)
  BY DEF Deletes, DelOnline, DelOffline, DelKuafu, Online
<1> HIDE DEF E, P, S, D, s, r, p, o
<1>6. \/ Online(o) /\ Piled3(s, r, E, P, D)
      \/ ~Online(o) /\ Piled2(s, r, S, D)
      \/ ~Online(o) /\ Piled1(s, r, D)
  <2>1. DelOnline(t) => Online(o)
    BY DEF DelOnline, Online, o, p
  <2>2. CASE Suspend(t, <<E, P, D>>) /\ DelOnline(t)
    BY <1>1, <2>1, <2>2, Goes DEF s, r
  <2>3. CASE Suspend(t, <<S, D>>) /\ ~Online(o)
    BY <1>1, <2>3, Goes DEF s, r
  <2>4. CASE Continue(t, <<D>>) /\ ~Online(o)
    BY <1>1, <2>4, Goes DEF s, r
  <2> QED
    BY <1>5, <2>2, <2>3, <2>4
<1>7. /\ Len(r) \in Nat /\ H <= Len(r) /\ Kept(s, r, H - 1) /\ At(r, H) = D
      /\ \A k \in (H + 1)..Len(r) :
            \/ Online(o) /\ At(r, k) \in {E, P}
            \/ ~Online(o) /\ At(r, k) = S
      /\ Online(o) => H < Len(r) /\ At(r, Len(r)) = E
  <2>1. CASE Online(o) /\ Piled3(s, r, E, P, D)
    <3>1. /\ Kept(s, r, H - 1) /\ Len(r) = H + 2 /\ At(r, H) = D
          /\ At(r, H + 1) = P /\ At(r, H + 2) = E
      BY <1>1, <2>1 DEF Piled3
    <3>2. \A k \in (H + 1)..Len(r) : k = H + 1 \/ k = H + 2
      BY <1>1, <3>1
    <3> QED
      BY <1>1, <2>1, <3>1, <3>2
  <2>2. CASE ~Online(o) /\ Piled2(s, r, S, D)
    <3>1. Kept(s, r, H - 1) /\ Len(r) = H + 1 /\ At(r, H) = D /\ At(r, H + 1) = S
      BY <1>1, <2>2 DEF Piled2
    <3>2. \A k \in (H + 1)..Len(r) : k = H + 1
      BY <1>1, <3>1
    <3> QED
      BY <1>1, <2>2, <3>1, <3>2
  <2>3. CASE ~Online(o) /\ Piled1(s, r, D)
    <3>1. Kept(s, r, H - 1) /\ Len(r) = H /\ At(r, H) = D
      BY <1>1, <2>3 DEF Piled1
    <3>2. \A k \in (H + 1)..Len(r) : FALSE
      BY <1>1, <3>1
    <3> QED
      BY <1>1, <2>3, <3>1, <3>2
  <2> QED
    BY <1>6, <2>1, <2>2, <2>3
<1>8. \A k \in 1..(H - 1) : At(r, k) = F(k)
  BY <1>7 DEF Kept, F, s
<1>9. F(H).pid = p
  BY <1>1 DEF p
<1>10. DelFrames(p, o)
  <2>1. H' = Len(r)
    BY DEF H, r
  <2>2. id_obj[p] = o
    BY DEF o
  <2>3. \A k \in (H + 1)..H' :
          /\ At(stack'[1], k).pc \in {"saved", "pop", "exitgame"}
          /\ ~Online(o) => At(stack'[1], k).pc = "saved"
          /\ At(stack'[1], k).pc = "exitgame" => At(stack'[1], k).src = o
    BY <1>4, <1>7, <2>1 DEF r
  <2>4. /\ H > 0 /\ F(H).pc = "delobject" /\ F(H).pid = p
        /\ p \in Roles /\ o \in Players /\ id_obj[p] = o /\ obj[o].pid = p
        /\ obj[o].state # "new" /\ UNCHANGED <<obj, nobj, reg, tables>>
    BY <1>1, <1>2, <1>3, <1>5, <1>9, <2>2
  <2>5. /\ H' \in Nat /\ H <= H' /\ \A k \in 1..(H - 1) : At(stack'[1], k) = F(k)
        /\ At(stack'[1], H).pc = "deleted" /\ At(stack'[1], H).pid = p
        /\ At(stack'[1], H).src = o
    BY <1>4, <1>7, <1>8, <2>1 DEF r
  <2>6. Online(o) => H < H' /\ At(stack'[1], H').pc = "exitgame"
    BY <1>4, <1>7, <2>1 DEF r
  <2> QED
    BY <2>3, <2>4, <2>5, <2>6 DEF DelFrames
<1> QED
  BY <1>9, <1>10 DEF o


(***************************************************************************)
(* Who is cut off.  The client of an online object that is deleted loses   *)
(* its connection as soon as the deletion ends.                            *)
(***************************************************************************)
\* The call g cuts off the client of the player object o.
Drops(g, o) == \/ g.pc = "protokick" /\ g.src = o
               \/ g.pc = "closed" /\ g.pid = obj[o].agent

\* Above the end of the deletion of an object that is not online there are only
\* more of them.
Light == \A j, k \in 1..H :
            j < k /\ F(j).pc = "deleted" /\ ~Online(F(j).src) => F(k).pc \in Unloading

Cut == \A k \in 1..H :
          F(k).pc = "deleted" /\ Online(F(k).src) => k > 1 /\ Drops(F(k - 1), F(k).src)

CutNext == H > 0 /\ F(H).pc = "delobject" /\ OnlineAt(F(H).pid) =>
              H > 1 /\ Drops(F(H - 1), id_obj[F(H).pid])

LEMMA DoomedFrame ==
    ASSUME IInv, Serial, NEW k \in 1..H, F(k).pc = "deleted"
    PROVE  F(k).src \in 1..nobj /\ F(k).src \in Players /\ Known(F(k).src) /\ Doomed(F(k).src)
           /\ F(k).pid \in Roles
<1>1. 1 \in Tasks /\ H \in Nat /\ GoodStack(stack[1], nobj)
  BY OneTask, StackType DEF IInv, StackInv, StacksGood, H
<1>2. H + 1 - k \in 1..Len(stack[1]) /\ F(k) = stack[1][H + 1 - k]
  BY <1>1 DEF F, H, At
<1>3. GoodFrame(F(k), nobj)
  BY <1>1, <1>2 DEF GoodStack
<1>4. F(k).src \in 1..nobj /\ F(k).pid \in Roles
  BY <1>3 DEF GoodFrame
<1>5. Doomed(F(k).src)
  BY <1>1, <1>2 DEF Doomed
<1> QED
  BY <1>4, <1>5, Made DEF Known, IInv

\* What Carries says of the frames of the two states.
LEMMA Carried ==
    ASSUME IInv, IInv', Serial, KnownKept, NEW m \in Nat, Carries(stack[1], stack'[1], m)
    PROVE  /\ H \in Nat /\ H' \in Nat /\ m <= H /\ m <= H'
           /\ \A k \in 1..m : k \in 1..H /\ k \in 1..H' /\ SameCall(At(stack'[1], k), F(k))
           /\ \A k \in 1..H' : At(stack'[1], k).pc = "deleted" =>
                 /\ k \in 1..m /\ F(k).pc = "deleted" /\ At(stack'[1], k).src = F(k).src
                 /\ At(stack'[1], k).pid = F(k).pid
                 /\ (Online(F(k).src)' <=> Online(F(k).src))
                 /\ obj'[F(k).src].agent = obj[F(k).src].agent
<1>1. H \in Nat /\ H' \in Nat /\ m <= H /\ m <= H'
  BY StackType DEF Carries, H
<1>2. \A k \in 1..m : k \in 1..H /\ k \in 1..H' /\ SameCall(At(stack'[1], k), F(k))
  BY <1>1 DEF Carries, F
<1>3. ASSUME NEW k \in 1..H', At(stack'[1], k).pc = "deleted"
      PROVE  /\ k \in 1..m /\ F(k).pc = "deleted" /\ At(stack'[1], k).src = F(k).src
             /\ At(stack'[1], k).pid = F(k).pid
             /\ (Online(F(k).src)' <=> Online(F(k).src))
             /\ obj'[F(k).src].agent = obj[F(k).src].agent
  <2>1. k \in 1..m
    <3>1. ~(k \in (m + 1)..H')
      BY <1>3 DEF Carries, H
    <3> QED
      BY <1>1, <3>1
  <2>2. F(k).pc = "deleted" /\ At(stack'[1], k).src = F(k).src /\ At(stack'[1], k).pid = F(k).pid
    BY <1>2, <1>3, <2>1 DEF SameCall
  <2>3. F(k).src \in Players /\ Known(F(k).src)
    BY <1>2, <2>1, <2>2, DoomedFrame
  <2> DEFINE o == F(k).src
  <2>4. At(stack'[1], k).src = o
    BY <2>2
  <2> HIDE DEF o
  <2>5. obj'[o].state = obj[o].state /\ obj'[o].agent = obj[o].agent
    BY <2>3 DEF KnownKept, o
  <2>6. Online(F(k).src)' <=> obj'[At(stack'[1], k).src].state = "online"
    BY DEF Online, F
  <2>7. Online(F(k).src) <=> obj[o].state = "online"
    BY DEF Online, o
  <2> QED
    BY <2>1, <2>2, <2>4, <2>5, <2>6, <2>7 DEF o
<1> QED
  BY <1>1, <1>2, <1>3

LEMMA LightCarried ==
    ASSUME IInv, IInv', Serial, KnownKept, Light, NEW m \in Nat, Carries(stack[1], stack'[1], m)
    PROVE  Light'
<1>1. /\ H \in Nat /\ H' \in Nat /\ m <= H /\ m <= H'
      /\ \A k \in 1..m : k \in 1..H /\ k \in 1..H' /\ SameCall(At(stack'[1], k), F(k))
      /\ \A k \in 1..H' : At(stack'[1], k).pc = "deleted" =>
            /\ k \in 1..m /\ F(k).pc = "deleted"
            /\ (Online(F(k).src)' <=> Online(F(k).src))
  BY Carried
<1> SUFFICES ASSUME NEW j \in 1..H', NEW k \in 1..H', j < k,
                    At(stack'[1], j).pc = "deleted", ~Online(F(j).src)'
             PROVE  At(stack'[1], k).pc \in Unloading
  BY DEF Light, F
<1>2. j \in 1..m /\ j \in 1..H /\ F(j).pc = "deleted" /\ ~Online(F(j).src)
  BY <1>1
<1>3. CASE k \in 1..m
  <2>1. F(k).pc \in Unloading
    BY <1>1, <1>2, <1>3 DEF Light
  <2> QED
    BY <1>1, <1>3, <2>1 DEF SameCall
<1>4. CASE ~(k \in 1..m)
  <2>1. stack[1] # <<>>
    BY <1>1, <1>2, StackType DEF H
  <2>2. m < H /\ j < H /\ H \in 1..H
    BY <1>1, <1>2, <2>1 DEF Carries, H
  <2>3. F(H).pc \in Unloading
    BY <1>2, <2>2 DEF Light
  <2>4. k \in (m + 1)..Len(stack'[1])
    BY <1>1, <1>4 DEF H
  <2> QED
    BY <2>1, <2>3, <2>4 DEF Carries, F, H
<1> QED
  BY <1>3, <1>4

LEMMA CutCarried ==
    ASSUME IInv, IInv', Serial, KnownKept, Cut, NEW m \in Nat, Carries(stack[1], stack'[1], m)
    PROVE  Cut'
<1>1. /\ H \in Nat /\ H' \in Nat /\ m <= H /\ m <= H'
      /\ \A k \in 1..m : k \in 1..H /\ k \in 1..H' /\ SameCall(At(stack'[1], k), F(k))
      /\ \A k \in 1..H' : At(stack'[1], k).pc = "deleted" =>
            /\ k \in 1..m /\ F(k).pc = "deleted" /\ At(stack'[1], k).src = F(k).src
            /\ (Online(F(k).src)' <=> Online(F(k).src))
            /\ obj'[F(k).src].agent = obj[F(k).src].agent
  BY Carried
<1> SUFFICES ASSUME NEW k \in 1..H', At(stack'[1], k).pc = "deleted", Online(F(k).src)'
             PROVE  k > 1 /\ Drops(F(k - 1), F(k).src)'
  BY DEF Cut, F
<1>2. /\ k \in 1..m /\ k \in 1..H /\ F(k).pc = "deleted" /\ Online(F(k).src)
      /\ At(stack'[1], k).src = F(k).src /\ obj'[F(k).src].agent = obj[F(k).src].agent
  BY <1>1
<1>3. k > 1 /\ Drops(F(k - 1), F(k).src)
  BY <1>2 DEF Cut
<1>4. k - 1 \in 1..m
  BY <1>1, <1>2, <1>3
<1>5. SameCall(At(stack'[1], k - 1), F(k - 1))
  BY <1>1, <1>4
<1> DEFINE g == At(stack'[1], k - 1)
           o == F(k).src
           f == F(k - 1)
<1>6. (g.pc = "protokick" /\ g.src = o) \/ (g.pc = "closed" /\ g.pid = obj'[o].agent)
  <2>1. (f.pc = "protokick" /\ f.src = o) \/ (f.pc = "closed" /\ f.pid = obj[o].agent)
    BY <1>3 DEF Drops
  <2>2. f.pc = g.pc /\ f.pid = g.pid /\ f.src = g.src
    BY <1>5 DEF SameCall
  <2>3. obj'[o].agent = obj[o].agent
    BY <1>2
  <2> HIDE DEF f, g, o
  <2> QED
    BY <2>1, <2>2, <2>3
<1>7. At(stack'[1], k).src = o
  BY <1>2
<1> HIDE DEF g, o
<1>8. \/ g.pc = "protokick" /\ g.src = At(stack'[1], k).src
      \/ g.pc = "closed" /\ g.pid = obj'[At(stack'[1], k).src].agent
  BY <1>6, <1>7
<1> QED
  BY <1>3, <1>8 DEF Drops, F, g

\* Nothing else is being deleted below the deletion of an online object.
LEMMA OnlineAlone ==
    ASSUME IInv, Serial, Shape(stack[1]), CutNext, H > 0, F(H).pc = "delobject",
           NEW o \in Players, id_obj[F(H).pid] = o, Online(o)
    PROVE  /\ H > 1 /\ Drops(F(H - 1), o)
           /\ \A j \in 1..(H - 1) : F(j).pc # "deleted"
<1>1. H \in Nat
  BY StackType DEF H
<1>2. OnlineAt(F(H).pid)
  <2>1. o # None /\ o \notin Agents
    BY Names DEF Objs
  <2> QED
    BY <2>1 DEF OnlineAt, StateOf, Online
<1>3. H > 1 /\ Drops(F(H - 1), o)
  BY <1>2 DEF CutNext
<1>4. F(H - 1).pc \in Cutters /\ H - 1 \in 1..H
  BY <1>1, <1>3 DEF Drops, Cutters
<1>5. ASSUME NEW j \in 1..(H - 1), F(j).pc = "deleted" PROVE FALSE
  <2>1. j # H - 1
    BY <1>4, <1>5 DEF Cutters
  <2>2. j < H - 1 /\ j \in 1..H
    BY <1>1, <2>1
  <2> QED
    BY <1>4, <1>5, <2>2 DEF Shape, Unnested, F, H
<1> QED
  BY <1>3, <1>5

LEMMA LightDeletes ==
    ASSUME IInv, Serial, Shape(stack[1]), CutNext, Light, NEW p, NEW o, DelFrames(p, o)
    PROVE  Light'
<1>1. /\ H \in Nat /\ H > 0 /\ H' \in Nat /\ H <= H' /\ H \in 1..H
      /\ \A k \in 1..(H - 1) : At(stack'[1], k) = F(k)
      /\ At(stack'[1], H).pc = "deleted" /\ At(stack'[1], H).src = o
      /\ \A k \in (H + 1)..H' : /\ At(stack'[1], k).pc \in {"saved", "pop", "exitgame"}
                                /\ ~Online(o) => At(stack'[1], k).pc = "saved"
      /\ obj' = obj /\ F(H).pc = "delobject" /\ id_obj[F(H).pid] = o /\ o \in Players
  BY StackType DEF DelFrames, H
<1> SUFFICES ASSUME NEW j \in 1..H', NEW k \in 1..H', j < k,
                    At(stack'[1], j).pc = "deleted", ~Online(F(j).src)'
             PROVE  At(stack'[1], k).pc \in Unloading
  BY DEF Light, F
<1>2. ~Online(At(stack'[1], j).src)
  BY <1>1 DEF Online, F
<1>3. j \in 1..H
  BY <1>1
<1>4. ~Online(o)
  <2>1. SUFFICES ASSUME Online(o) PROVE FALSE
    OBVIOUS
  <2>2. \A i \in 1..(H - 1) : F(i).pc # "deleted"
    BY <1>1, <2>1, OnlineAlone
  <2>3. j = H
    BY <1>1, <1>3, <2>2
  <2> QED
    BY <1>1, <1>2, <2>1, <2>3
<1>5. CASE k > H
  <2>1. k \in (H + 1)..H'
    BY <1>1, <1>5
  <2> QED
    BY <1>1, <1>4, <2>1 DEF Unloading
<1>6. CASE k = H
  BY <1>1, <1>6 DEF Unloading
<1>7. CASE k < H
  <2>1. k \in 1..(H - 1) /\ j \in 1..(H - 1) /\ k \in 1..H
    BY <1>1, <1>7
  <2>2. F(j).pc = "deleted" /\ ~Online(F(j).src) /\ At(stack'[1], k) = F(k)
    BY <1>1, <1>2, <2>1
  <2> QED
    BY <1>3, <2>1, <2>2 DEF Light
<1> QED
  BY <1>1, <1>5, <1>6, <1>7

LEMMA CutDeletes ==
    ASSUME IInv, Serial, Shape(stack[1]), CutNext, Cut, NEW p, NEW o, DelFrames(p, o)
    PROVE  Cut'
<1>1. /\ H \in Nat /\ H > 0 /\ H' \in Nat /\ H <= H' /\ H \in 1..H
      /\ \A k \in 1..(H - 1) : At(stack'[1], k) = F(k)
      /\ At(stack'[1], H).pc = "deleted" /\ At(stack'[1], H).src = o
      /\ \A k \in (H + 1)..H' : At(stack'[1], k).pc \in {"saved", "pop", "exitgame"}
      /\ obj' = obj /\ F(H).pc = "delobject" /\ id_obj[F(H).pid] = o /\ o \in Players
  BY StackType DEF DelFrames, H
<1> SUFFICES ASSUME NEW k \in 1..H', At(stack'[1], k).pc = "deleted", Online(F(k).src)'
             PROVE  k > 1 /\ Drops(F(k - 1), F(k).src)'
  BY DEF Cut, F
<1>2. Online(At(stack'[1], k).src)
  BY <1>1 DEF Online, F
<1>3. ~(k \in (H + 1)..H') /\ k \in 1..H
  BY <1>1
<1>4. k > 1 /\ Drops(F(k - 1), At(stack'[1], k).src)
  <2>1. CASE k = H
    BY <1>1, <1>2, <2>1, OnlineAlone
  <2>2. CASE k < H
    <3>1. k \in 1..(H - 1)
      BY <1>1, <2>2
    <3>2. F(k).pc = "deleted" /\ Online(F(k).src) /\ At(stack'[1], k) = F(k)
      BY <1>1, <1>2, <3>1
    <3> QED
      BY <1>3, <3>2 DEF Cut
  <2> QED
    BY <1>1, <1>3, <2>1, <2>2
<1>5. k - 1 \in 1..(H - 1)
  BY <1>1, <1>3, <1>4
<1>6. At(stack'[1], k - 1) = F(k - 1)
  BY <1>1, <1>5
<1> DEFINE g == At(stack'[1], k - 1)
           x == At(stack'[1], k).src
<1>7. (g.pc = "protokick" /\ g.src = x) \/ (g.pc = "closed" /\ g.pid = obj'[x].agent)
  <2>1. Drops(g, x) /\ obj' = obj
    BY <1>1, <1>4, <1>6
  <2> HIDE DEF g, x
  <2> QED
    BY <2>1 DEF Drops
<1> QED
  BY <1>4, <1>7 DEF Drops, F


(***************************************************************************)
(* The object that is held is new, and online once it has the connection.  *)
(***************************************************************************)
HeldState == \A k \in 1..H :
    /\ F(k).pc = "addplayer" => F(k).dst # None
    /\ Holding(F(k)) => IF F(k).pc = "addplayer" THEN Online(F(k).dst)
                        ELSE obj[F(k).dst].state = "new"

LEMMA Running ==
    ASSUME IInv, Serial, NEW t \in Tasks, NEW pc, Runs(t, pc)
    PROVE  /\ t = 1 /\ stack[t][1] = F(H) /\ F(H).pc = pc /\ H \in Nat /\ H > 0 /\ H \in 1..H
           /\ GoodFrame(F(H), nobj) /\ ~Waits(F(H))
<1>1. stack[t] # <<>> /\ stack[t][1].pc = pc /\ GoodFrame(stack[t][1], nobj) /\ ~Waits(stack[t][1])
  BY StepTop
<1> QED
  BY <1>1, OneTask, StackType DEF F, H

LEMMA HoldsFrame ==
    ASSUME Serial, NEW k, NEW o
    PROVE  /\ Holds(1, k, o) <=> k \in 1..H /\ F(k).pc \in Takers /\ F(k).dst = o
           /\ Holds(1, k, o)' <=>
                k \in 1..H' /\ At(stack'[1], k).pc \in Takers /\ At(stack'[1], k).dst = o
BY DEF Holds, F, H

LEMMA HeldFrame ==
    ASSUME IInv, Serial, NEW k \in 1..H
    PROVE  F(k).dst # None => F(k).dst \in 1..nobj /\ F(k).dst \in Players
<1>1. 1 \in Tasks /\ H \in Nat /\ GoodStack(stack[1], nobj)
  BY OneTask, StackType DEF IInv, StackInv, StacksGood, H
<1>2. H + 1 - k \in 1..Len(stack[1]) /\ F(k) = stack[1][H + 1 - k]
  BY <1>1 DEF F, H, At
<1>3. GoodFrame(F(k), nobj)
  BY <1>1, <1>2 DEF GoodStack
<1> QED
  BY <1>3, Made DEF GoodFrame, IInv

LEMMA HeldFrameNext ==
    ASSUME IInv', Serial, NEW k \in 1..H'
    PROVE  At(stack'[1], k).dst # None => At(stack'[1], k).dst \in Players
<1>1. 1 \in Tasks /\ GoodStack(stack'[1], nobj') /\ H' \in Nat
  <2>1. 1 \in Tasks
    BY OneTask
  <2>2. GoodStack(stack'[1], nobj') /\ stack'[1] \in Seq(FrameType)
    BY <2>1 DEF IInv, StackInv, StacksGood
  <2> QED
    BY <2>1, <2>2, LenProperties DEF H
<1>2. H' + 1 - k \in 1..Len(stack'[1]) /\ At(stack'[1], k) = stack'[1][H' + 1 - k]
  BY <1>1 DEF H, At
<1>3. GoodFrame(At(stack'[1], k), nobj')
  BY <1>1, <1>2 DEF GoodStack
<1>4. nobj' \in Nat /\ nobj' <= MaxObj
  BY BoundsAssumption DEF IInv, HeapType
<1> QED
  BY <1>3, <1>4, BoundsAssumption DEF GoodFrame, Players

\* The first part of HeldState.
AddsHeld == \A k \in 1..H : F(k).pc = "addplayer" => F(k).dst # None

LEMMA AddsHeldStep ==
    ASSUME IInv, IInv', Serial, AddsHeld, NEW t \in Tasks, Step(t)
    PROVE  AddsHeld'
<1> SUFFICES ASSUME NEW k \in 1..H', At(stack'[1], k).pc = "addplayer"
             PROVE  At(stack'[1], k).dst # None
  BY DEF AddsHeld, F
<1>1. CASE Deletes(t)
  <2>1. DelFrames(F(H).pid, id_obj[F(H).pid])
    BY <1>1, DelStacks
  <2>2. /\ H \in Nat /\ H' \in Nat /\ \A j \in 1..(H - 1) : At(stack'[1], j) = F(j)
        /\ At(stack'[1], H).pc = "deleted"
        /\ \A j \in (H + 1)..H' : At(stack'[1], j).pc \in {"saved", "pop", "exitgame"}
    BY <2>1, StackType DEF DelFrames, H
  <2>3. k \in 1..(H - 1) /\ k \in 1..H
    BY <2>2
  <2> QED
    BY <2>2, <2>3 DEF AddsHeld
<1>2. CASE ~Deletes(t)
  <2>1. PICK m \in Nat : Carries(stack[1], stack'[1], m)
    BY <1>2, StepCarries
  <2>2. CASE k \in 1..m
    <3>1. At(stack'[1], k).dst # None \/ (F(k).pc = "addplayer" /\ At(stack'[1], k).dst = F(k).dst)
      BY <2>1, <2>2 DEF Carries, SameCall, F
    <3>2. k \in 1..H
      BY <2>1, <2>2, StackType DEF Carries, H
    <3> QED
      BY <3>1, <3>2 DEF AddsHeld
  <2>3. CASE ~(k \in 1..m)
    <3>1. k \in (m + 1)..Len(stack'[1])
      BY <2>1, <2>3 DEF Carries, H
    <3> QED
      BY <2>1, <3>1 DEF Carries
  <2> QED
    BY <2>2, <2>3
<1> QED
  BY <1>1, <1>2

LEMMA HeldStep ==
    ASSUME FreshInv, IInv', Serial, Shape(stack[1]), HeldState, NEW t \in Tasks, Step(t)
    PROVE  HeldState'
<1>0. IInv /\ AddsHeld
  BY DEF FreshInv, HeldState, AddsHeld
<1>1. AddsHeld'
  BY <1>0, AddsHeldStep
<1> SUFFICES ASSUME NEW k \in 1..H', Holding(At(stack'[1], k))
             PROVE  IF At(stack'[1], k).pc = "addplayer" THEN Online(F(k).dst)'
                    ELSE obj'[At(stack'[1], k).dst].state = "new"
  BY <1>1 DEF HeldState, AddsHeld, F
<1> DEFINE f == At(stack'[1], k)
<1>p. f.pc \in Takers /\ f.dst # None /\ f.dst \in Players
  BY HeldFrameNext DEF Holding
<1>q. PICK o \in Players : o = f.dst
  BY <1>p
<1>2. (Online(F(k).dst)' <=> obj'[o].state = "online")
  BY <1>q DEF Online, F
<1>3. f.pc \in Takers /\ o # None /\ Holds(1, k, o)' /\ o \in Players
  BY <1>p, <1>q, HoldsFrame
<1>4. /\ t = 1 /\ H \in Nat /\ H > 0 /\ H' \in Nat /\ k \in Nat /\ 1 \in Tasks
      /\ stack[t] # <<>> /\ stack[t][1] = F(H) /\ Len(stack[t]) = H
      /\ stack[1] # <<>> /\ stack[1] \in Seq(FrameType)
  <2>1. stack[1] # <<>> /\ t = 1
    BY <1>0, OneTask
       DEF Step, DelNothing, DelLink, DelOnline, DelOffline, DelKuafu, Deleted, ExitGame, Saved,
           Pop, Unload, NewPlayer, SetHome, NetTransfer, AddPlayer, AddOffline, AddKuafu,
           AddRepeat, CallFails, OnLogin, Kick, ProtoKick, Closed, GoSrv, ReenterGame, Runs
  <2>2. stack[1] \in Seq(FrameType) /\ stack'[1] \in Seq(FrameType)
    BY <1>0, StackType, OneTask DEF IInv, StackInv
  <2>3. H' \in Nat
    BY <2>2, LenProperties DEF H
  <2> QED
    BY <1>0, <2>1, <2>2, <2>3, StackType DEF F, H
\* Below a call that does not delete a link, nothing is held.
<1>5. ASSUME ~LinkDelete(F(H)), NEW j \in Nat, NEW y, y # None, Holds(1, j, y)
      PROVE  j = H /\ F(H).pc \in Takers /\ F(H).dst = y
  <2>1. j \in 1..H /\ F(j).pc \in Takers /\ F(j).dst = y
    BY <1>5, HoldsFrame
  <2>2. Holding(F(j))
    BY <1>5, <2>1 DEF Holding
  <2>3. j = H
    BY <1>5, <2>1, <2>2 DEF Shape, HeldTop, F, H
  <2> QED
    BY <2>1, <2>3
<1> HIDE DEF f
<1> SUFFICES IF f.pc = "addplayer" THEN obj'[o].state = "online" ELSE obj'[o].state = "new"
  BY <1>2, <1>q DEF f
<1>6. CASE DelNothing(t) \/ DelLink(t)
  <2>1. Continue(t, <<>>) /\ obj' = obj
    BY <1>6 DEF DelNothing, DelLink, heap
  <2>2. Piled0(stack[1], stack'[1])
    BY <1>0, <1>4, <2>1, Goes
  <2>3. k \in 1..Base(stack[1]) /\ k \in 1..H
    BY <1>4, <2>2, BaseType DEF Piled0, H
  <2>4. f = F(k)
    BY <2>2, <2>3 DEF Piled0, Kept, F, f
  <2> QED
    BY <1>3, <1>q, <2>1, <2>3, <2>4 DEF HeldState, Holding, Online
<1>7. CASE NewPlayer(t)
  <2>1. F(H).pc = "newplayer" /\ ~LinkDelete(F(H)) /\ F(H).pc \notin Takers
    BY <1>4, <1>7 DEF NewPlayer, Runs, LinkDelete, Takers
  <2>2. k = H - 1 /\ o = nobj + 1
    <3>1. Holds(1, k, o) \/ (k = Len(stack[t]) - 1 /\ o = nobj + 1)
      BY <1>0, <1>3, <1>4, <1>7, NewHeld
    <3> QED
      BY <1>3, <1>4, <1>5, <2>1, <3>1
  <2>3. obj'[nobj + 1].state = "new"
    BY <1>3, <1>7, <2>2 DEF NewPlayer, NewObject, FreshInv, IInv, HeapType
  <2>4. f.pc # "addplayer"
    <3>1. Handed(stack[1], stack'[1], nobj + 1)
      BY <1>0, <1>7, Handing
    <3>a. stack[1] \in Seq(FrameType)
      BY <1>4
    <3>b. At(stack'[1], Len(stack'[1])).pc = At(stack[1], Len(stack'[1])).pc
      BY <3>1, <3>a, HandedFrame
    <3>c. Len(stack[1]) > 1 /\ Len(stack'[1]) = Len(stack[1]) - 1
      BY <3>1 DEF Handed
    <3>d. Len(stack'[1]) = H - 1 /\ H - 1 \in 1..H
      BY <1>4, <3>c DEF H
    <3>2. Len(stack'[1]) = H - 1 /\ At(stack'[1], H - 1).pc = At(stack[1], H - 1).pc
          /\ H - 1 \in 1..H
      BY <3>b, <3>d
    <3>3. F(H - 1).pc # "addplayer"
      <4>1. SUFFICES ASSUME F(H - 1).pc = "addplayer" PROVE FALSE
        OBVIOUS
      <4>2. F(H - 1).dst # None
        BY <3>2, <4>1 DEF HeldState
      <4>3. Holds(1, H - 1, F(H - 1).dst)
        BY <3>2, <4>1, HoldsFrame DEF Takers
      <4> QED
        BY <1>4, <1>5, <2>1, <3>2, <4>2, <4>3
    <3> QED
      BY <2>2, <3>2, <3>3 DEF F, f
  <2> QED
    BY <2>2, <2>3, <2>4
<1>8. CASE SetHome(t)
  <2>1. F(H).pc = "sethome" /\ ~LinkDelete(F(H)) /\ obj' = obj
    BY <1>4, <1>8 DEF SetHome, Runs, LinkDelete, heap
  <2>2. HoldsKept
    BY <1>0, <1>8, TransferCalm DEF Calm
  <2>3. Holds(1, k, o)
    BY <1>3, <1>4, <2>2 DEF HoldsKept
  <2>4. k = H /\ F(H).dst = o /\ Holding(F(H)) /\ H \in 1..H
    BY <1>3, <1>4, <1>5, <2>1, <2>3 DEF Holding, Takers
  <2>5. obj[o].state = "new"
    BY <2>1, <2>4 DEF HeldState
  <2> DEFINE n == Frame("nettransfer", None, F(H).src, F(H).dst)
  <2>6. Suspend(t, <<n>>) /\ n.pc = "nettransfer"
    BY <1>4, <1>8 DEF SetHome, Frame
  <2> HIDE DEF n
  <2>7. Piled1(stack[1], stack'[1], n)
    BY <1>0, <1>4, <2>6, Goes
  <2>8. f = n
    <3>1. Base(stack[1]) + 1 = H
      BY <1>4, BaseType DEF H
    <3> QED
      BY <2>4, <2>7, <3>1 DEF Piled1, f
  <2> QED
    BY <2>1, <2>5, <2>6, <2>8
<1>9. CASE NetTransfer(t)
  <2>1. F(H).pc = "nettransfer" /\ ~LinkDelete(F(H))
    BY <1>4, <1>9 DEF NetTransfer, Runs, LinkDelete
  <2>2. HoldsKept
    BY <1>0, <1>9, TransferCalm DEF Calm
  <2>3. Holds(1, k, o)
    BY <1>3, <1>4, <2>2 DEF HoldsKept
  <2>4. k = H /\ F(H).dst = o
    BY <1>3, <1>4, <1>5, <2>1, <2>3
  <2>5. CASE Raise(t)
    <3>1. Broken(stack[1], stack'[1])
      BY <1>0, <1>4, <2>5, Breaks
    <3>2. H' < H
      BY <3>1 DEF Broken, H
    <3> QED
      BY <1>4, <2>4, <3>2
  <2> DEFINE d == Frame("delobject", PidOf(F(H).src), None, None)
             n == Frame("addplayer", None, F(H).src, F(H).dst)
  <2>6. CASE ~Raise(t)
    <3>1. /\ Continue(t, <<d, n>>) /\ n.pc = "addplayer"
          /\ \E a : obj' = [obj EXCEPT ![F(H).dst].agent = a, ![F(H).dst].state = "online"]
      BY <1>4, <1>9, <2>6 DEF NetTransfer, Frame
    <3> HIDE DEF d, n
    <3>2. Piled2(stack[1], stack'[1], d, n)
      BY <1>0, <1>4, <3>1, Goes
    <3>3. f = n
      <4>1. Base(stack[1]) + 1 = H
        BY <1>4, BaseType DEF H
      <4> QED
        BY <2>4, <3>2, <4>1 DEF Piled2, f
    <3>4. obj'[o].state = "online"
      BY <1>3, <2>4, <3>1 DEF FreshInv, IInv, HeapType
    <3> QED
      BY <3>1, <3>3, <3>4
  <2> QED
    BY <2>5, <2>6
<1>10. CASE AddPlayer(t) \/ AddOffline(t) \/ AddKuafu(t)
  <2>1. F(H).pc \in Takers /\ ~LinkDelete(F(H))
    BY <1>4, <1>10 DEF AddPlayer, AddOffline, AddKuafu, Runs, LinkDelete, Takers
  <2>2. HoldsKept /\ NoneAbove(t, H - 1)
    BY <1>0, <1>4, <1>10, AddCalm DEF Calm
  <2>3. Holds(1, k, o) /\ k <= H - 1
    BY <1>3, <1>4, <2>2 DEF HoldsKept, NoneAbove
  <2> QED
    BY <1>3, <1>4, <1>5, <2>1, <2>3
<1>11. CASE AddRepeat(t) \/ CallFails(t)
  <2>1. ~LinkDelete(F(H)) /\ Raise(t)
    BY <1>4, <1>11 DEF AddRepeat, CallFails, Runs, LinkDelete
  <2>2. HoldsKept
    BY <1>0, <1>11, CalmStep DEF Calm
  <2>3. Holds(1, k, o)
    BY <1>3, <1>4, <2>2 DEF HoldsKept
  <2>4. Broken(stack[1], stack'[1])
    BY <1>0, <1>4, <2>1, Breaks
  <2>5. H' < H
    BY <2>4 DEF Broken, H
  <2> QED
    BY <1>3, <1>4, <1>5, <2>1, <2>3, <2>5
<1>12. CASE Deletes(t)
  <2>1. F(H).pc = "delobject" /\ F(H).pid \in Roles
    BY <1>0, <1>12, DelStacks DEF DelFrames
  <2>2. ~LinkDelete(F(H)) /\ F(H).pc \notin Takers
    BY <2>1, Names DEF LinkDelete, Takers
  <2>3. HoldsKept
    BY <1>0, <1>12, DelWaits DEF Deletes
  <2> QED
    BY <1>3, <1>4, <1>5, <2>2, <2>3 DEF HoldsKept
<1>13. CASE Deleted(t) \/ ExitGame(t) \/ Saved(t) \/ Pop(t) \/ Unload(t) \/ OnLogin(t)
            \/ Kick(t) \/ ProtoKick(t) \/ Closed(t) \/ GoSrv(t) \/ ReenterGame(t)
  <2>1. F(H).pc \notin Takers /\ F(H).pc # "delobject"
    BY <1>4, <1>13 DEF Deleted, ExitGame, Saved, Pop, Unload, OnLogin, Kick, ProtoKick, Closed,
                       GoSrv, ReenterGame, Runs, Takers
  <2>2. HoldsKept
    BY <1>0, <1>13, CalmStep, KickWaits DEF Calm
  <2> QED
    BY <1>3, <1>4, <1>5, <2>1, <2>2 DEF HoldsKept, LinkDelete
<1> QED
  BY <1>6, <1>7, <1>8, <1>9, <1>10, <1>11, <1>12, <1>13 DEF Step, Deletes



(***************************************************************************)
(* Messages and timers find the stack empty, or leave it alone.            *)
(***************************************************************************)
Message == Server \/ \E a \in Agents : Client(a)

\* The new handler: nothing is being deleted and nothing is held.
Unburdened(r) == \A k \in 1..Len(r) : Opening(At(r, k))

LEMMA MessageStack ==
    ASSUME IInv, Serial, Message
    PROVE  stack'[1] = stack[1] \/ (stack[1] = <<>> /\ Unburdened(stack'[1]))
BY ServerOpens, ClientOpens, CloseOpens, ExitOpens DEF Message, MessageOpens, Opens, Unburdened

LEMMA MessageObjects ==
    ASSUME IInv, Message
    PROVE  /\ nobj' = nobj /\ saving' = saving
           /\ \A o \in Players : /\ obj'[o].pid = obj[o].pid /\ obj'[o].agent = obj[o].agent
                                 /\ obj'[o].state = obj[o].state
<1>1. ASSUME NEW a \in Agents, Client(a), ~Play(a) PROVE UNCHANGED <<obj, nobj, saving>>
  BY <1>1 DEF Client, Start, Close, Login, ExitRequest, GoRequest, EnterQueued, EnterGame,
              EnterByToken, heap, AddObject
<1>2. ASSUME Server PROVE UNCHANGED <<obj, nobj, saving>>
  BY <1>2 DEF Server, SetGoSrv, LoadOffline, GmKick, AutoSave, GrowIdle, heap
<1>3. ASSUME NEW a \in Agents, Play(a)
      PROVE  /\ UNCHANGED <<nobj, saving>>
             /\ \A o \in Players : /\ obj'[o].pid = obj[o].pid /\ obj'[o].agent = obj[o].agent
                                   /\ obj'[o].state = obj[o].state
  <2>1. obj \in [Players -> [pid : Roles \cup {None}, agent : Agents \cup {None},
                             state : {"new", "online", "offline", "kuafu"}, data : Nat]]
    BY DEF IInv, HeapType
  <2> QED
    BY <1>3, <2>1 DEF Play
<1> QED
  BY <1>1, <1>2, <1>3 DEF Message

\* They touch the tables of players nowhere.
LEMMA MessageTables ==
    ASSUME IInv, Message
    PROVE  /\ \A p \in Roles : id_obj'[p] = id_obj[p]
           /\ cnt'["online"] = cnt["online"]
           /\ \A b \in Agents : conn'[b] \in Roles => conn'[b] = conn[b] /\ fd_id'[b] = fd_id[b]
<1>1. CASE UNCHANGED <<conn, reg>>
  BY <1>1 DEF reg
<1>2. ASSUME NEW a \in Agents, Start(a)
      PROVE  /\ \A p \in Roles : id_obj'[p] = id_obj[p]
             /\ cnt'["online"] = cnt["online"]
             /\ \A b \in Agents : conn'[b] \in Roles => conn'[b] = conn[b] /\ fd_id'[b] = fd_id[b]
  <2>1. /\ id_obj' = [id_obj EXCEPT ![a] = a] /\ conn' = [conn EXCEPT ![a] = a]
        /\ fd_id' = [fd_id EXCEPT ![a] = a]
        /\ cnt' = [cnt EXCEPT !["link"] = @ + 1]
    BY <1>2, NamesAssumption DEF Start, AddObject, Counter
  <2>2. conn \in [Agents -> Pids \cup {None}] /\ id_obj \in [Pids -> Objs \cup {None}]
        /\ fd_id \in [Agents -> Pids \cup {None}] /\ cnt \in [States -> Int] /\ "online" \in States
    BY DEF IInv, TablesType, RegType, States
  <2>3. a \notin Roles
    BY Names
  <2>4. \A p \in Roles : id_obj'[p] = id_obj[p]
    BY <2>1, <2>2, <2>3 DEF Pids
  <2>5. cnt'["online"] = cnt["online"]
    BY <2>1, <2>2
  <2>6. \A b \in Agents : conn'[b] \in Roles => conn'[b] = conn[b] /\ fd_id'[b] = fd_id[b]
    BY <2>1, <2>2, <2>3
  <2> QED
    BY <2>4, <2>5, <2>6
<1>3. ASSUME NEW a \in Agents, Client(a), ~Start(a) PROVE UNCHANGED <<conn, reg>>
  BY <1>3 DEF Client, Close, Login, ExitRequest, Play, GoRequest, EnterQueued, EnterGame,
              EnterByToken, tables
<1>4. ASSUME Server PROVE UNCHANGED <<conn, reg>>
  BY <1>4 DEF Server, SetGoSrv, LoadOffline, GmKick, AutoSave, GrowIdle, tables
<1> QED
  BY <1>1, <1>2, <1>3, <1>4 DEF Message

LEMMA HeldMessage ==
    ASSUME IInv, Serial, HeldState, Message
    PROVE  HeldState'
<1>1. CASE stack'[1] = stack[1]
  <2> SUFFICES ASSUME NEW k \in 1..H
               PROVE  /\ F(k).pc = "addplayer" => F(k).dst # None
                      /\ Holding(F(k)) => IF F(k).pc = "addplayer"
                                          THEN obj'[F(k).dst].state = "online"
                                          ELSE obj'[F(k).dst].state = "new"
    BY <1>1 DEF HeldState, H, F, Online, Holding
  <2>1. Holding(F(k)) => F(k).dst \in Players
    BY HeldFrame DEF Holding
  <2>2. \A o \in Players : obj'[o].state = obj[o].state
    BY MessageObjects
  <2> QED
    BY <2>1, <2>2 DEF HeldState, Online
<1>2. CASE stack[1] = <<>> /\ Unburdened(stack'[1])
  BY <1>2 DEF HeldState, H, F, Unburdened, Opening, Holding
<1> QED
  BY <1>1, <1>2, MessageStack

LEMMA LightMessage ==
    ASSUME FreshInv, Serial, Light, Cut, Message
    PROVE  Light' /\ Cut'
<1>0. IInv /\ [Next]_vars
  BY DEF FreshInv, Next, Message
<1>1. CASE stack'[1] = stack[1]
  <2>1. H' = H /\ \A k \in 1..H : At(stack'[1], k) = F(k)
    BY <1>1 DEF H, F
  <2>2. \A k \in 1..H : F(k).pc = "deleted" => F(k).src \in Players
    BY <1>0, DoomedFrame
  <2>3. \A o \in Players : obj'[o].state = obj[o].state /\ obj'[o].agent = obj[o].agent
    BY <1>0, MessageObjects
  <2>4. Light'
    <3> SUFFICES ASSUME NEW j \in 1..H, NEW k \in 1..H, j < k, F(j).pc = "deleted",
                        obj'[F(j).src].state # "online"
                 PROVE  F(k).pc \in Unloading
      BY <1>1 DEF Light, H, F, Online
    <3> QED
      BY <2>2, <2>3 DEF Light, Online
  <2>5. Cut'
    <3> SUFFICES ASSUME NEW k \in 1..H, F(k).pc = "deleted", obj'[F(k).src].state = "online"
                 PROVE  k > 1 /\ \/ F(k - 1).pc = "protokick" /\ F(k - 1).src = F(k).src
                                 \/ F(k - 1).pc = "closed" /\ F(k - 1).pid = obj'[F(k).src].agent
      BY <1>1 DEF Cut, H, F, Online, Drops
    <3> QED
      BY <2>2, <2>3 DEF Cut, Online, Drops
  <2> QED
    BY <2>4, <2>5
<1>2. CASE stack[1] = <<>> /\ Unburdened(stack'[1])
  BY <1>2 DEF Light, Cut, H, F, Unburdened, Opening
<1> QED
  BY <1>0, <1>1, <1>2, MessageStack


(***************************************************************************)
(* The tables of players change when a deletion ends and when an object is *)
(* added, and at no other step.                                            *)
(***************************************************************************)
Adds(t) == AddPlayer(t) \/ AddOffline(t) \/ AddKuafu(t)

Registers == \E t \in Tasks : Deleted(t) \/ Adds(t)

Still == /\ \A p \in Roles : id_obj'[p] = id_obj[p]
         /\ cnt'["online"] = cnt["online"]
         /\ \A b \in Agents : conn'[b] \in Roles => conn'[b] = conn[b] /\ fd_id'[b] = fd_id[b]

LEMMA LinkStill ==
    ASSUME LinkInv, NEW t \in Tasks, DelLink(t)
    PROVE  Still
<1> DEFINE p == stack[t][1].pid
<1>1. id_obj[p] \in Agents /\ DropObject(p, id_obj[p]) /\ conn' = conn /\ p \in Pids
  BY StepTop DEF DelLink, tables, GoodFrame, LinkInv
<1> HIDE DEF p
<1>2. p \in Agents /\ id_obj[p] = p
  <2>1. id_obj[p] = p
    BY <1>1, RegisteredGood, NamesAssumption DEF LinkInv
  <2> QED
    BY <1>1, <2>1
<1>3. /\ id_obj' = [id_obj EXCEPT ![p] = None] /\ fd_id' = [fd_id EXCEPT ![p] = None]
      /\ cnt' = [cnt EXCEPT !["link"] = @ - 1]
  BY <1>1, <1>2, Names DEF DropObject, StateOf, AgentOf, Counter
<1>4. /\ id_obj \in [Pids -> Objs \cup {None}] /\ fd_id \in [Agents -> Pids \cup {None}]
      /\ cnt \in [States -> Int] /\ "online" \in States
  BY DEF LinkInv, IInv, RegType, States
<1>5. p \notin Roles /\ conn[p] = p
  BY <1>2, Names DEF LinkInv, Marked
<1>6. \A q \in Roles : id_obj'[q] = id_obj[q]
  BY <1>3, <1>4, <1>5 DEF Pids
<1>7. cnt'["online"] = cnt["online"]
  BY <1>3, <1>4
<1>8. \A b \in Agents : conn'[b] \in Roles => conn'[b] = conn[b] /\ fd_id'[b] = fd_id[b]
  BY <1>1, <1>3, <1>4, <1>5
<1> QED
  BY <1>6, <1>7, <1>8 DEF Still

LEMMA CutsStill ==
    ASSUME IInv, NEW t \in Tasks, ProtoKick(t) \/ Closed(t)
    PROVE  Still
<1>1. conn \in [Agents -> Pids \cup {None}] /\ None \notin Roles
  BY Names DEF IInv, TablesType, Pids
<1>2. UNCHANGED reg /\ (conn' = conn \/ \E a : conn' = [conn EXCEPT ![a] = None])
  BY DEF ProtoKick, Closed
<1> QED
  BY <1>1, <1>2 DEF Still, reg

LEMMA StepStill ==
    ASSUME LinkInv, [Next]_vars, ~Registers
    PROVE  Still
<1>1. ASSUME NEW t \in Tasks, Step(t) PROVE Still
  <2>1. CASE DelLink(t)
    BY <2>1, LinkStill
  <2>2. CASE ProtoKick(t) \/ Closed(t)
    BY <2>2, CutsStill DEF LinkInv
  <2>3. CASE DelNothing(t) \/ DelOnline(t) \/ DelOffline(t) \/ DelKuafu(t) \/ ExitGame(t)
             \/ Saved(t) \/ Pop(t) \/ Unload(t) \/ NewPlayer(t)
    BY <2>3 DEF DelNothing, DelOnline, DelOffline, DelKuafu, ExitGame, Saved, Pop, Unload,
                NewPlayer, Still, tables, reg
  <2>4. CASE SetHome(t) \/ NetTransfer(t) \/ AddRepeat(t) \/ CallFails(t) \/ OnLogin(t) \/ Kick(t)
             \/ GoSrv(t) \/ ReenterGame(t)
    BY <2>4 DEF SetHome, NetTransfer, AddRepeat, CallFails, OnLogin, Kick, GoSrv, ReenterGame, Still,
                tables, reg
  <2> QED
    BY <1>1, <2>1, <2>2, <2>3, <2>4 DEF Step, Registers, Adds
<1>2. CASE Message
  BY <1>2, MessageTables DEF Still, LinkInv
<1>3. CASE UNCHANGED vars
  BY <1>3 DEF vars, reg, tables, Still
<1> QED
  BY <1>1, <1>2, <1>3 DEF Next, Quiet, Message

LEMMA StepSaving ==
    ASSUME IInv, [Next]_vars, ~\E t \in Tasks : Deletes(t) \/ Adds(t)
    PROVE  saving' = saving
<1>1. ASSUME NEW t \in Tasks, Step(t) PROVE saving' = saving
  <2>1. CASE DelNothing(t) \/ DelLink(t) \/ Deleted(t) \/ ExitGame(t) \/ Saved(t) \/ Pop(t)
             \/ Unload(t) \/ NewPlayer(t) \/ SetHome(t)
    BY <2>1 DEF DelNothing, DelLink, Deleted, ExitGame, Saved, Pop, Unload, NewPlayer, SetHome, heap
  <2>2. CASE NetTransfer(t) \/ AddRepeat(t) \/ CallFails(t) \/ OnLogin(t) \/ Kick(t) \/ ProtoKick(t)
             \/ Closed(t) \/ GoSrv(t) \/ ReenterGame(t)
    BY <2>2 DEF NetTransfer, AddRepeat, CallFails, OnLogin, Kick, ProtoKick, Closed, GoSrv,
                ReenterGame, heap
  <2> QED
    BY <1>1, <2>1, <2>2 DEF Step, Deletes, Adds
<1>2. CASE Message
  BY <1>2, MessageObjects
<1>3. CASE UNCHANGED vars
  BY <1>3 DEF vars, heap
<1> QED
  BY <1>1, <1>2, <1>3 DEF Next, Quiet, Message

(***************************************************************************)
(* The deletions that go on.                                               *)
(***************************************************************************)
\* No deletion begins.
OldDeletions == \A k \in 1..H' : At(stack'[1], k).pc = "deleted" =>
                    /\ k \in 1..H /\ F(k).pc = "deleted"
                    /\ At(stack'[1], k).src = F(k).src /\ At(stack'[1], k).pid = F(k).pid

\* None ends, but that of the top frame.
DoomedKept == \A k \in 1..H : F(k).pc = "deleted" /\ k # H =>
                  /\ k \in 1..H' /\ At(stack'[1], k).pc = "deleted"
                  /\ At(stack'[1], k).src = F(k).src

LEMMA CarriesOn ==
    ASSUME IInv, IInv', Serial, KnownKept, NEW m \in Nat, Carries(stack[1], stack'[1], m)
    PROVE  OldDeletions /\ DoomedKept
<1>1. /\ H \in Nat /\ H' \in Nat /\ m <= H /\ m <= H'
      /\ \A k \in 1..m : k \in 1..H /\ k \in 1..H' /\ SameCall(At(stack'[1], k), F(k))
      /\ \A k \in 1..H' : At(stack'[1], k).pc = "deleted" =>
            /\ k \in 1..m /\ F(k).pc = "deleted" /\ At(stack'[1], k).src = F(k).src
            /\ At(stack'[1], k).pid = F(k).pid
  BY Carried
<1>2. OldDeletions
  BY <1>1 DEF OldDeletions
<1>3. ASSUME NEW k \in 1..H, F(k).pc = "deleted", k # H
      PROVE  k \in 1..H' /\ At(stack'[1], k).pc = "deleted" /\ At(stack'[1], k).src = F(k).src
  <2>1. ~(k \in (m + 1)..Len(stack[1]))
    BY <1>3 DEF Carries, F, H
  <2>2. k \in 1..m
    BY <1>1, <2>1 DEF H
  <2> QED
    BY <1>1, <1>3, <2>2 DEF SameCall
<1> QED
  BY <1>2, <1>3 DEF DoomedKept

\* Every step but the three that begin a deletion.
LEMMA DeletionsOn ==
    ASSUME FreshInv, IInv', Serial, [Next]_vars, ~\E t \in Tasks : Deletes(t)
    PROVE  /\ OldDeletions
           /\ DoomedKept
           /\ ~(\E t \in Tasks : Step(t)) /\ H > 0 /\ F(H).pc = "deleted" =>
                 H \in 1..H' /\ At(stack'[1], H) = F(H)
<1>0. IInv /\ KnownKept
  BY ObjectsKept DEF FreshInv
<1>1. ASSUME NEW t \in Tasks, Step(t) PROVE OldDeletions /\ DoomedKept
  BY <1>0, <1>1, StepCarries, CarriesOn
<1>2. ASSUME stack'[1] = stack[1]
      PROVE  OldDeletions /\ DoomedKept
             /\ (H > 0 /\ F(H).pc = "deleted" => H \in 1..H' /\ At(stack'[1], H) = F(H))
  <2>1. H' = H /\ \A k \in 1..H : At(stack'[1], k) = F(k)
    BY <1>2 DEF H, F
  <2>2. H \in Nat
    BY <1>0, StackType DEF H
  <2> QED
    BY <2>1, <2>2 DEF OldDeletions, DoomedKept
<1>3. ASSUME stack[1] = <<>>, Unburdened(stack'[1])
      PROVE  OldDeletions /\ DoomedKept /\ ~(H > 0)
  <2>1. H = 0
    BY <1>3 DEF H
  <2> QED
    BY <1>3, <2>1 DEF OldDeletions, DoomedKept, Unburdened, Opening, H
<1>4. CASE Message
  BY <1>0, <1>2, <1>3, <1>4, MessageStack
<1>5. CASE UNCHANGED vars
  BY <1>2, <1>5 DEF vars
<1> QED
  BY <1>0, <1>1, <1>2, <1>4, <1>5 DEF Next, Quiet, Message


LEMMA DoomedAt ==
    ASSUME IInv, IInv', Serial, NEW o
    PROVE  /\ Doomed(o) <=> \E k \in 1..H : F(k).pc = "deleted" /\ F(k).src = o
           /\ Doomed(o)' <=> \E k \in 1..H' : At(stack'[1], k).pc = "deleted"
                                              /\ At(stack'[1], k).src = o
<1>1. Tasks = {1} /\ H \in Nat
  BY OneTask, StackType DEF H
<1>2. H' \in Nat
  BY <1>1, LenProperties DEF IInv, StackInv, H
<1>3. ASSUME Doomed(o) PROVE \E k \in 1..H : F(k).pc = "deleted" /\ F(k).src = o
  <2>1. PICK i \in 1..Len(stack[1]) : stack[1][i].pc = "deleted" /\ stack[1][i].src = o
    BY <1>1, <1>3 DEF Doomed
  <2>2. H + 1 - i \in 1..H /\ Len(stack[1]) + 1 - (H + 1 - i) = i
    BY <1>1 DEF H
  <2>3. F(H + 1 - i) = stack[1][i]
    BY <2>2 DEF F, At
  <2> QED
    BY <2>1, <2>2, <2>3
<1>4. ASSUME NEW k \in 1..H, F(k).pc = "deleted", F(k).src = o PROVE Doomed(o)
  <2>1. Len(stack[1]) + 1 - k \in 1..Len(stack[1])
    BY <1>1 DEF H
  <2> QED
    BY <1>1, <1>4, <2>1 DEF Doomed, F, At
<1>5. ASSUME Doomed(o)'
      PROVE  \E k \in 1..H' : At(stack'[1], k).pc = "deleted" /\ At(stack'[1], k).src = o
  <2>1. PICK i \in 1..Len(stack'[1]) : stack'[1][i].pc = "deleted" /\ stack'[1][i].src = o
    BY <1>1, <1>5 DEF Doomed
  <2>2. H' + 1 - i \in 1..H' /\ Len(stack'[1]) + 1 - (H' + 1 - i) = i
    BY <1>2 DEF H
  <2>3. At(stack'[1], H' + 1 - i) = stack'[1][i]
    BY <2>2 DEF At
  <2> QED
    BY <2>1, <2>2, <2>3
<1>6. ASSUME NEW k \in 1..H', At(stack'[1], k).pc = "deleted", At(stack'[1], k).src = o
      PROVE  Doomed(o)'
  <2>1. Len(stack'[1]) + 1 - k \in 1..Len(stack'[1])
    BY <1>2 DEF H
  <2> QED
    BY <1>1, <1>6, <2>1 DEF Doomed, At
<1> QED
  BY <1>3, <1>4, <1>5, <1>6

(***************************************************************************)
(* Objects whose deletion has begun, and those under autosave.             *)
(***************************************************************************)
\* The slot of the role holds the object that is deleted, or nothing if the object is
\* not online.
Deleting == \A k \in 1..H : F(k).pc = "deleted" =>
    /\ obj[F(k).src].pid = F(k).pid
    /\ obj[F(k).src].state # "new"
    /\ IF Online(F(k).src) THEN id_obj[F(k).pid] = F(k).src
       ELSE id_obj[F(k).pid] \in {F(k).src, None}

\* A player in a slot is loaded, and under autosave until its deletion begins.
RegState == \A p \in Roles : id_obj[p] # None =>
    /\ obj[id_obj[p]].state # "new"
    /\ id_obj[p] \in saving \/ Doomed(id_obj[p])

SavingReg == \A o \in saving : id_obj[obj[o].pid] = o

AgentIffOnline == \A o \in Players : obj[o].agent # None <=> Online(o)

SavedKnown == saving \subseteq Players /\ \A o \in saving : Known(o) /\ obj[o].pid \in Roles

LEMMA SavingKnown ==
    ASSUME IInv, SavingReg
    PROVE  SavedKnown
<1>1. saving \subseteq 1..nobj /\ 1..nobj \subseteq Players /\ \A o \in 1..nobj : obj[o].pid \in Roles
  BY Made DEF IInv, HeapType, ObjectsGood
<1>2. \A o \in saving : Known(o)
  BY <1>1 DEF SavingReg, Known, Pids
<1> QED
  BY <1>1, <1>2 DEF SavedKnown

\* A step that leaves the tables of players alone.
LEMMA SavingStill ==
    ASSUME FreshInv, IInv', KnownKept, Still, SavingReg, saving' \subseteq saving
    PROVE  SavingReg'
<1> SUFFICES ASSUME NEW o \in saving' PROVE id_obj'[obj'[o].pid] = o
  BY DEF SavingReg
<1>1. o \in saving /\ o \in Players /\ Known(o) /\ obj[o].pid \in Roles
  BY SavingKnown DEF SavedKnown, FreshInv
<1>2. obj'[o].pid = obj[o].pid
  BY <1>1 DEF KnownKept
<1> QED
  BY <1>1, <1>2 DEF Still, SavingReg

LEMMA RegisteredPlayer ==
    ASSUME IInv, NEW p \in Roles, id_obj[p] # None
    PROVE  /\ id_obj[p] \in Players /\ id_obj[p] \in 1..nobj /\ obj[id_obj[p]].pid = p
           /\ Known(id_obj[p]) /\ (OnlineAt(p) <=> Online(id_obj[p]))
           /\ id_obj[p] \notin Agents
<1>1. p \in Pids /\ p \notin Agents
  BY Names DEF Pids
<1>2. id_obj[p] \notin Agents /\ id_obj[p] \in 1..nobj
  BY <1>1, RegisteredGood
<1>3. id_obj[p] \in Players
  BY <1>2, Made DEF IInv
<1> QED
  BY <1>1, <1>2, <1>3, RegisteredGood DEF Known, OnlineAt, StateOf, Online

\* Registered players keep what matters.
LEMMA StillPlayers ==
    ASSUME IInv, IInv', KnownKept, NEW p \in Roles, id_obj'[p] = id_obj[p], id_obj[p] # None
    PROVE  /\ obj'[id_obj[p]].state = obj[id_obj[p]].state
           /\ obj'[id_obj[p]].agent = obj[id_obj[p]].agent
           /\ obj'[id_obj[p]].pid = obj[id_obj[p]].pid
           /\ OnlineAt(p)' <=> OnlineAt(p)
<1>1. PICK o \in Players : o = id_obj[p]
  BY RegisteredPlayer
<1>2. Known(o) /\ o \notin Agents /\ o # None
  BY <1>1, RegisteredPlayer
<1>3. obj'[o].state = obj[o].state /\ obj'[o].agent = obj[o].agent /\ obj'[o].pid = obj[o].pid
  BY <1>2 DEF KnownKept
<1>4. OnlineAt(p)' <=> obj'[o].state = "online"
  BY <1>1, <1>2 DEF OnlineAt, StateOf
<1>5. OnlineAt(p) <=> obj[o].state = "online"
  BY <1>1, <1>2 DEF OnlineAt, StateOf
<1> QED
  BY <1>1, <1>3, <1>4, <1>5


(***************************************************************************)
(* What the steps that change the tables of players do.                    *)
(***************************************************************************)
\* The deletion of o, of role p, ends.
Removes(p, o) ==
    /\ H > 0 /\ H \in 1..H /\ F(H).pc = "deleted" /\ F(H).pid = p /\ F(H).src = o
    /\ p \in Roles /\ o \in Players /\ o \notin Agents
    /\ id_obj' = [id_obj EXCEPT ![p] = None]
    /\ fd_id' = IF obj[o].agent = None THEN fd_id ELSE [fd_id EXCEPT ![obj[o].agent] = None]
    /\ cnt' = [cnt EXCEPT ![Counter(obj[o].state)] = @ - 1]
    /\ H' = H - 1 /\ \A k \in 1..(H - 1) : At(stack'[1], k) = F(k)
    /\ UNCHANGED <<conn, obj, saving, db>>

LEMMA DeletedRemoves ==
    ASSUME IInv, Serial, NEW t \in Tasks, Deleted(t)
    PROVE  Removes(F(H).pid, F(H).src)
<1>1. /\ t = 1 /\ stack[t][1] = F(H) /\ F(H).pc = "deleted" /\ H \in Nat /\ H > 0 /\ H \in 1..H
  BY Running DEF Deleted
<1>2. F(H).src \in Players /\ F(H).pid \in Roles /\ F(H).src \notin Agents
  BY <1>1, DoomedFrame, Names
<1>3. DropObject(F(H).pid, F(H).src) /\ UNCHANGED <<conn, obj, saving, db>> /\ Continue(t, <<>>)
  BY <1>1 DEF Deleted, tables, heap, world
<1>4. /\ id_obj' = [id_obj EXCEPT ![F(H).pid] = None]
      /\ fd_id' = IF obj[F(H).src].agent = None THEN fd_id
                  ELSE [fd_id EXCEPT ![obj[F(H).src].agent] = None]
      /\ cnt' = [cnt EXCEPT ![Counter(obj[F(H).src].state)] = @ - 1]
  BY <1>2, <1>3 DEF DropObject, StateOf, AgentOf
<1>5. stack[t] # <<>> /\ stack[1] \in Seq(FrameType)
  BY <1>1, StackType DEF H
<1>6. Piled0(stack[1], stack'[1])
  BY <1>3, <1>5, Goes
<1>7. Base(stack[1]) = H - 1
  BY <1>1, <1>5, BaseType DEF H
<1>8. H' = H - 1 /\ \A k \in 1..(H - 1) : At(stack'[1], k) = F(k)
  BY <1>6, <1>7 DEF Piled0, Kept, F, H
<1> QED
  BY <1>1, <1>2, <1>3, <1>4, <1>8 DEF Removes

\* The object o that the top frame held is added in the state s.
Takes(p, o, s) ==
    /\ H > 0 /\ H \in 1..H /\ F(H).pc \in Takers /\ F(H).dst = o
    /\ o \in Players /\ o \notin Agents /\ p \in Roles /\ obj[o].pid = p
    /\ ~Known(o) /\ o \notin saving /\ id_obj[p] = None
    /\ id_obj' = [id_obj EXCEPT ![p] = o] /\ saving' = saving \cup {o}
    /\ obj'[o].pid = p /\ obj'[o].agent = obj[o].agent /\ obj'[o].state = s
    /\ obj'[o].data = obj[o].data /\ db' = db
    /\ cnt' = [cnt EXCEPT ![Counter(s)] = @ + 1]
    /\ \A x \in Players : x # o => obj'[x] = obj[x]
    /\ IF s = "online"
       THEN /\ F(H).pc = "addplayer" /\ obj' = obj
            /\ fd_id' = IF obj[o].agent = None THEN fd_id
                        ELSE [fd_id EXCEPT ![obj[o].agent] = p]
            /\ conn' = IF conn[obj[o].agent] = None THEN conn
                       ELSE [conn EXCEPT ![obj[o].agent] = p]
       ELSE /\ F(H).pc # "addplayer" /\ s \in {"offline", "kuafu"} /\ UNCHANGED <<fd_id, conn>>

LEMMA AddsTake ==
    ASSUME FreshInv, Serial, HeldState, NEW t \in Tasks, Adds(t)
    PROVE  \E p \in Roles, o \in Players, s \in {"online", "offline", "kuafu"} : Takes(p, o, s)
<1> DEFINE o == F(H).dst
           p == obj[o].pid
<1>1. PICK pc \in Takers : Runs(t, pc) /\ (AddPlayer(t) <=> pc = "addplayer")
  BY DEF Adds, AddPlayer, AddOffline, AddKuafu, Takers, Runs
<1>2. /\ t = 1 /\ stack[t][1] = F(H) /\ F(H).pc = pc /\ H \in Nat /\ H > 0 /\ H \in 1..H
  BY <1>1, Running DEF FreshInv
<1>3. o \in Players /\ ~Known(o) /\ o \notin saving /\ o \notin Agents
  BY <1>1, <1>2, HolderKnowsAlone, Names
<1>4. p \in Roles
  BY <1>1, <1>2, Taken DEF FreshInv
<1>5. obj \in [Players -> [pid : Roles \cup {None}, agent : Agents \cup {None},
                           state : {"new", "online", "offline", "kuafu"}, data : Nat]]
  BY DEF FreshInv, IInv, HeapType
<1> HIDE DEF o
<1>6. CASE AddPlayer(t)
  <2>1. obj[o].state = "online"
    BY <1>1, <1>2, <1>3, <1>6, Names DEF HeldState, Holding, Online, Objs, o
  <2>2. /\ stack[t][1].dst = o /\ CanAdd(o) /\ AddObject(p, o, "online", obj[o].agent)
        /\ conn' = (IF conn[obj[o].agent] = None THEN conn ELSE [conn EXCEPT ![obj[o].agent] = p])
        /\ obj' = obj /\ db' = db
    BY <1>2, <1>6 DEF AddPlayer, o, world
  <2> HIDE DEF p
  <2>3. p = obj[o].pid
    BY DEF p
  <2>5. Takes(p, o, "online")
    BY <1>1, <1>2, <1>3, <1>4, <1>6, <2>1, <2>2, <2>3 DEF Takes, AddObject, CanAdd, o
  <2> QED
    BY <1>3, <1>4, <2>5 DEF p
<1>7. CASE AddOffline(t)
  <2>1. /\ stack[t][1].dst = o /\ CanAdd(o) /\ AddObject(p, o, "offline", None)
        /\ conn' = conn /\ obj' = [obj EXCEPT ![o].state = "offline"] /\ db' = db
    BY <1>2, <1>7 DEF AddOffline, o, tables, world
  <2>2. F(H).pc # "addplayer"
    BY <1>2, <1>7 DEF AddOffline, Runs
  <2>3. /\ obj'[o].pid = p /\ obj'[o].agent = obj[o].agent /\ obj'[o].state = "offline"
        /\ obj'[o].data = obj[o].data
        /\ \A x \in Players : x # o => obj'[x] = obj[x]
    BY <1>3, <1>5, <2>1
  <2> HIDE DEF p
  <2>4. p = obj[o].pid
    BY DEF p
  <2>6. Takes(p, o, "offline")
    BY <1>1, <1>2, <1>3, <1>4, <2>1, <2>2, <2>3, <2>4 DEF Takes, AddObject, CanAdd, o
  <2> QED
    BY <1>3, <1>4, <2>6 DEF p
<1>8. CASE AddKuafu(t)
  <2>1. /\ stack[t][1].dst = o /\ CanAdd(o) /\ AddObject(p, o, "kuafu", None)
        /\ conn' = conn /\ obj' = [obj EXCEPT ![o].state = "kuafu"] /\ db' = db
    BY <1>2, <1>8 DEF AddKuafu, o, tables, world
  <2>2. F(H).pc # "addplayer"
    BY <1>2, <1>8 DEF AddKuafu, Runs
  <2>3. /\ obj'[o].pid = p /\ obj'[o].agent = obj[o].agent /\ obj'[o].state = "kuafu"
        /\ obj'[o].data = obj[o].data
        /\ \A x \in Players : x # o => obj'[x] = obj[x]
    BY <1>3, <1>5, <2>1
  <2> HIDE DEF p
  <2>4. p = obj[o].pid
    BY DEF p
  <2>6. Takes(p, o, "kuafu")
    BY <1>1, <1>2, <1>3, <1>4, <2>1, <2>2, <2>3, <2>4 DEF Takes, AddObject, CanAdd, o
  <2> QED
    BY <1>3, <1>4, <2>6 DEF p
<1> QED
  BY <1>6, <1>7, <1>8 DEF Adds

LEMMA StepDeleted ==
    ASSUME IInv, Serial, NEW t \in Tasks, Step(t), F(H).pc = "deleted"
    PROVE  Deleted(t)
<1>1. stack[t] # <<>> /\ t = 1
  BY OneTask
     DEF Step, DelNothing, DelLink, DelOnline, DelOffline, DelKuafu, Deleted, ExitGame, Saved,
         Pop, Unload, NewPlayer, SetHome, NetTransfer, AddPlayer, AddOffline, AddKuafu,
         AddRepeat, CallFails, OnLogin, Kick, ProtoKick, Closed, GoSrv, ReenterGame, Runs
<1>2. stack[t][1].pc = "deleted"
  BY <1>1, StackType DEF F, H
<1> QED
  BY <1>2
     DEF Step, DelNothing, DelLink, DelOnline, DelOffline, DelKuafu, Deleted, ExitGame, Saved,
         Pop, Unload, NewPlayer, SetHome, NetTransfer, AddPlayer, AddOffline, AddKuafu,
         AddRepeat, CallFails, OnLogin, Kick, ProtoKick, Closed, GoSrv, ReenterGame, Runs


(***************************************************************************)
(* SavingReg, RegState and Deleting last.                                  *)
(***************************************************************************)
LEMMA SavingKept ==
    ASSUME FreshInv, FreshInv', LinkInv, Serial, HeldState, Deleting, SavingReg, [Next]_vars
    PROVE  SavingReg'
<1>0. IInv /\ IInv' /\ KnownKept /\ SavedKnown
  BY ObjectsKept, SavingKnown DEF FreshInv
<1>r. id_obj \in [Pids -> Objs \cup {None}] /\ None \notin Players
  BY <1>0, Names DEF IInv, RegType, Objs
<1>1. CASE ~Registers
  <2>1. saving' \subseteq saving
    <3>1. ASSUME NEW t \in Tasks, Deletes(t) PROVE saving' \subseteq saving
      BY <3>1 DEF Deletes, DelOnline, DelOffline, DelKuafu
    <3>2. CASE ~\E t \in Tasks : Deletes(t)
      BY <1>0, <1>1, <3>2, StepSaving DEF Registers
    <3> QED
      BY <3>1, <3>2
  <2> QED
    BY <1>0, <1>1, <2>1, StepStill, SavingStill
<1>2. ASSUME NEW t \in Tasks, Deleted(t) PROVE SavingReg'
  <2>1. PICK p, o : p = F(H).pid /\ o = F(H).src /\ Removes(p, o)
    BY <1>0, <1>2, DeletedRemoves
  <2>2. /\ H \in 1..H /\ F(H).pc = "deleted" /\ p \in Roles /\ o \in Players
        /\ id_obj' = [id_obj EXCEPT ![p] = None] /\ obj' = obj /\ saving' = saving
    BY <2>1 DEF Removes
  <2>3. id_obj[p] \in {o, None}
    BY <2>1, <2>2 DEF Deleting
  <2>4. o \notin saving
    BY <1>0, <2>1, <2>2, DoomedFrame DEF FreshInv, DoomedUnsaved
  <2> SUFFICES ASSUME NEW x \in saving PROVE id_obj'[obj[x].pid] = x
    BY <2>2 DEF SavingReg
  <2>5. id_obj[obj[x].pid] = x /\ x \in Players /\ obj[x].pid \in Pids
    BY <1>0 DEF SavingReg, SavedKnown, Pids
  <2>6. obj[x].pid # p
    BY <1>r, <2>3, <2>4, <2>5
  <2> QED
    BY <1>r, <2>2, <2>5, <2>6
<1>3. ASSUME NEW t \in Tasks, Adds(t) PROVE SavingReg'
  <2>1. PICK p \in Roles, o \in Players, s \in {"online", "offline", "kuafu"} : Takes(p, o, s)
    BY <1>3, AddsTake
  <2>2. /\ id_obj[p] = None /\ id_obj' = [id_obj EXCEPT ![p] = o] /\ saving' = saving \cup {o}
        /\ obj'[o].pid = p /\ \A x \in Players : x # o => obj'[x] = obj[x]
        /\ o \notin saving /\ p \in Pids
    BY <2>1 DEF Takes, Pids
  <2> SUFFICES ASSUME NEW x \in saving \cup {o} PROVE id_obj'[obj'[x].pid] = x
    BY <2>2 DEF SavingReg
  <2>3. CASE x = o
    BY <1>r, <2>2, <2>3
  <2>4. CASE x \in saving
    <3>1. id_obj[obj[x].pid] = x /\ x \in Players /\ obj[x].pid \in Pids /\ x # o
      BY <1>0, <2>2, <2>4 DEF SavingReg, SavedKnown, Pids
    <3>2. obj[x].pid # p
      BY <1>r, <2>2, <3>1
    <3> QED
      BY <1>r, <2>2, <3>1, <3>2
  <2> QED
    BY <2>3, <2>4
<1> QED
  BY <1>1, <1>2, <1>3 DEF Registers

\* A deletion goes on until it ends.
LEMMA DoomedOn ==
    ASSUME FreshInv, IInv', Serial, [Next]_vars, NEW o \in Players, Doomed(o)
    PROVE  Doomed(o)' \/ ((\E t \in Tasks : Deleted(t)) /\ o = F(H).src)
<1>0. IInv
  BY DEF FreshInv
<1>1. PICK k \in 1..H : F(k).pc = "deleted" /\ F(k).src = o
  BY <1>0, DoomedAt
<1>2. SUFFICES ASSUME ~((\E t \in Tasks : Deleted(t)) /\ o = F(H).src)
               PROVE  k \in 1..H' /\ At(stack'[1], k).pc = "deleted" /\ At(stack'[1], k).src = o
  BY <1>0, DoomedAt
<1>3. H \in Nat /\ H > 0
  BY <1>0, StackType DEF H
<1>4. ASSUME NEW t \in Tasks, Deletes(t)
      PROVE  k \in 1..H' /\ At(stack'[1], k).pc = "deleted" /\ At(stack'[1], k).src = o
  <2>1. /\ F(H).pc = "delobject" /\ H' \in Nat /\ H <= H'
        /\ \A j \in 1..(H - 1) : At(stack'[1], j) = F(j)
    BY <1>0, <1>4, DelStacks DEF DelFrames
  <2>2. k # H
    BY <1>1, <2>1
  <2>3. k \in 1..(H - 1)
    BY <1>3, <2>2
  <2> QED
    BY <1>1, <1>3, <2>1, <2>3
<1>5. CASE ~\E t \in Tasks : Deletes(t)
  <2>1. DoomedKept /\ (~(\E t \in Tasks : Step(t)) /\ F(H).pc = "deleted" =>
                          H \in 1..H' /\ At(stack'[1], H) = F(H))
    BY <1>3, <1>5, DeletionsOn
  <2>2. CASE k # H
    BY <1>1, <2>1, <2>2 DEF DoomedKept
  <2>3. CASE k = H
    <3>1. F(H).pc = "deleted" /\ F(H).src = o
      BY <1>1, <2>3
    <3>2. ~\E t \in Tasks : Step(t)
      BY <1>0, <1>2, <3>1, StepDeleted
    <3> QED
      BY <2>1, <2>3, <3>1, <3>2
  <2> QED
    BY <2>2, <2>3
<1> QED
  BY <1>4, <1>5

LEMMA RegStateKept ==
    ASSUME FreshInv, FreshInv', LinkInv, Serial, HeldState, Deleting, RegState, [Next]_vars
    PROVE  RegState'
<1>0. IInv /\ IInv' /\ KnownKept
  BY ObjectsKept DEF FreshInv
<1>r. id_obj \in [Pids -> Objs \cup {None}] /\ None \notin Players /\ Roles \subseteq Pids
  BY <1>0, Names DEF IInv, RegType, Objs, Pids
<1> SUFFICES ASSUME NEW p \in Roles, id_obj'[p] # None
             PROVE  /\ obj'[id_obj'[p]].state # "new"
                    /\ id_obj'[p] \in saving' \/ Doomed(id_obj[p])'
  BY DEF RegState, Doomed
<1>s. PICK x \in Players : x = id_obj'[p]
  <2>1. id_obj'[p] \in Agents \cup 1..nobj' /\ (id_obj'[p] \in Agents => id_obj'[p] = p)
        /\ nobj' <= MaxObj /\ nobj' \in Nat
    BY <1>0, <1>r DEF IInv, RegGood, HeapType, StackInv, PidOf
  <2>2. p \notin Agents
    BY Names
  <2> QED
    BY <2>1, <2>2, BoundsAssumption DEF Players
<1> SUFFICES obj'[x].state # "new" /\ (x \in saving' \/ Doomed(x)')
  BY <1>s DEF Doomed
<1>1. ASSUME id_obj[p] = x, ~((\E t \in Tasks : Deleted(t)) /\ x = F(H).src)
      PROVE  obj'[x].state # "new" /\ (x \in saving' \/ Doomed(x)')
  <2>1. obj[x].state # "new" /\ (x \in saving \/ Doomed(x)) /\ Known(x)
    BY <1>r, <1>1 DEF RegState, Known
  <2>2. obj'[x].state # "new"
    <3>1. obj'[x].state = obj[x].state
      BY <1>0, <2>1 DEF KnownKept
    <3> QED
      BY <2>1, <3>1
  <2>3. Doomed(x) => Doomed(x)'
    BY <1>0, <1>1, DoomedOn
  <2>4. ASSUME x \in saving, x \notin saving' PROVE Doomed(x)'
    <3>1. PICK t \in Tasks : Deletes(t)
      <4>1. CASE \E t \in Tasks : Adds(t)
        BY <2>4, <4>1, AddsTake DEF Takes
      <4> QED
        BY <1>0, <2>4, <4>1, StepSaving
    <3>2. DelFrames(F(H).pid, id_obj[F(H).pid])
      BY <1>0, <3>1, DelStacks
    <3>3. /\ H \in 1..H' /\ At(stack'[1], H).pc = "deleted"
          /\ At(stack'[1], H).src = id_obj[F(H).pid]
      <4>1. H \in Nat
        BY <1>0, StackType DEF H
      <4> QED
        BY <3>2, <4>1 DEF DelFrames
    <3>4. x = id_obj[F(H).pid]
      <4>1. stack[t][1] = F(H) /\ saving' = saving \ {id_obj[stack[t][1].pid]}
        BY <1>0, <3>1, Running DEF Deletes, DelOnline, DelOffline, DelKuafu
      <4> QED
        BY <2>4, <4>1
    <3> QED
      BY <1>0, <3>3, <3>4, DoomedAt
  <2> QED
    BY <2>1, <2>2, <2>3, <2>4
<1>2. CASE ~Registers
  <2>1. id_obj[p] = x
    BY <1>2, <1>s, StepStill DEF Still
  <2> QED
    BY <1>1, <1>2, <2>1 DEF Registers
<1>3. ASSUME NEW t \in Tasks, Deleted(t)
      PROVE  obj'[x].state # "new" /\ (x \in saving' \/ Doomed(x)')
  <2>1. PICK q, o : q = F(H).pid /\ o = F(H).src /\ Removes(q, o)
    BY <1>0, <1>3, DeletedRemoves
  <2>2. id_obj' = [id_obj EXCEPT ![q] = None] /\ H \in 1..H /\ F(H).pc = "deleted"
    BY <2>1 DEF Removes
  <2>3. id_obj[p] = x /\ p # q
    BY <1>r, <1>s, <2>2
  <2>4. obj[o].pid = q /\ obj[x].pid = p
    BY <1>0, <2>1, <2>2, <2>3, <1>r, RegisteredPlayer DEF Deleting
  <2> QED
    BY <1>1, <2>1, <2>3, <2>4
<1>4. ASSUME NEW t \in Tasks, Adds(t)
      PROVE  obj'[x].state # "new" /\ (x \in saving' \/ Doomed(x)')
  <2>1. PICK q \in Roles, o \in Players, s \in {"online", "offline", "kuafu"} : Takes(q, o, s)
    BY <1>4, AddsTake
  <2>2. id_obj' = [id_obj EXCEPT ![q] = o] /\ saving' = saving \cup {o} /\ obj'[o].state = s
        /\ F(H).pc \in Takers
    BY <2>1 DEF Takes
  <2>3. CASE x = o
    BY <2>2, <2>3
  <2>4. CASE x # o
    <3>1. id_obj[p] = x
      BY <1>r, <1>s, <2>2, <2>4
    <3>2. ~\E u \in Tasks : Deleted(u)
      BY <1>0, <2>2, Running DEF Deleted, Takers
    <3> QED
      BY <1>1, <3>1, <3>2
  <2> QED
    BY <2>3, <2>4
<1> QED
  BY <1>2, <1>3, <1>4 DEF Registers


LEMMA DeletingKept ==
    ASSUME FreshInv, FreshInv', LinkInv, Serial, Shape(stack[1]), HeldState, Light, Cut,
           Deleting, [Next]_vars
    PROVE  Deleting'
<1>0. IInv /\ IInv' /\ KnownKept /\ H \in Nat
  BY ObjectsKept, StackType DEF FreshInv, H
<1>r. id_obj \in [Pids -> Objs \cup {None}] /\ None \notin Players /\ Roles \subseteq Pids
  BY <1>0, Names DEF IInv, RegType, Objs, Pids
<1> SUFFICES ASSUME NEW k \in 1..H', At(stack'[1], k).pc = "deleted"
             PROVE  /\ obj'[At(stack'[1], k).src].pid = At(stack'[1], k).pid
                    /\ obj'[At(stack'[1], k).src].state # "new"
                    /\ IF obj'[At(stack'[1], k).src].state = "online"
                       THEN id_obj'[At(stack'[1], k).pid] = At(stack'[1], k).src
                       ELSE id_obj'[At(stack'[1], k).pid] \in {At(stack'[1], k).src, None}
  BY DEF Deleting, F, Online
<1>s. PICK o, p : o = At(stack'[1], k).src /\ p = At(stack'[1], k).pid
  OBVIOUS
<1> SUFFICES /\ obj'[o].pid = p
             /\ obj'[o].state # "new"
             /\ IF obj'[o].state = "online" THEN id_obj'[p] = o ELSE id_obj'[p] \in {o, None}
  BY <1>s
<1>1. ASSUME NEW t \in Tasks, Deletes(t)
      PROVE  /\ obj'[o].pid = p
             /\ obj'[o].state # "new"
             /\ IF obj'[o].state = "online" THEN id_obj'[p] = o ELSE id_obj'[p] \in {o, None}
  <2>1. DelFrames(F(H).pid, id_obj[F(H).pid])
    BY <1>0, <1>1, DelStacks
  <2>2. /\ obj' = obj /\ id_obj' = id_obj /\ H > 0 /\ H <= H' /\ H' \in Nat
        /\ \A j \in 1..(H - 1) : At(stack'[1], j) = F(j)
        /\ At(stack'[1], H).pid = F(H).pid /\ At(stack'[1], H).src = id_obj[F(H).pid]
        /\ obj[id_obj[F(H).pid]].pid = F(H).pid /\ obj[id_obj[F(H).pid]].state # "new"
        /\ \A j \in (H + 1)..H' : At(stack'[1], j).pc # "deleted"
    BY <2>1 DEF DelFrames, reg
  <2>3. CASE k = H
    BY <1>s, <2>2, <2>3
  <2>4. CASE k # H
    <3>1. k \in 1..(H - 1) /\ k \in 1..H
      BY <1>0, <2>2, <2>4
    <3> QED
      BY <1>s, <2>2, <3>1 DEF Deleting, Online
  <2> QED
    BY <2>3, <2>4
<1>2. ASSUME ~\E t \in Tasks : Deletes(t)
      PROVE  /\ obj'[o].pid = p
             /\ obj'[o].state # "new"
             /\ IF obj'[o].state = "online" THEN id_obj'[p] = o ELSE id_obj'[p] \in {o, None}
  <2>1. k \in 1..H /\ F(k).pc = "deleted" /\ F(k).src = o /\ F(k).pid = p
    BY <1>2, <1>s, <1>0, DeletionsOn DEF OldDeletions
  <2>2. o \in Players /\ Known(o) /\ p \in Roles
    BY <1>0, <2>1, DoomedFrame
  <2>3. obj'[o].pid = obj[o].pid /\ obj'[o].state = obj[o].state
    BY <1>0, <2>2 DEF KnownKept
  <2>4. /\ obj[o].pid = p /\ obj[o].state # "new"
        /\ IF Online(o) THEN id_obj[p] = o ELSE id_obj[p] \in {o, None}
    BY <2>1 DEF Deleting
  <2> SUFFICES IF Online(o) THEN id_obj'[p] = o ELSE id_obj'[p] \in {o, None}
    BY <2>3, <2>4 DEF Online
  <2>5. CASE ~Registers
    BY <2>2, <2>4, <2>5, StepStill DEF Still
  \* The same online object is not being deleted twice.
  <2>6. ASSUME NEW t \in Tasks, Deleted(t)
        PROVE  IF Online(o) THEN id_obj'[p] = o ELSE id_obj'[p] \in {o, None}
    <3>1. PICK q, x : q = F(H).pid /\ x = F(H).src /\ Removes(q, x)
      BY <1>0, <2>6, DeletedRemoves
    <3>2. /\ id_obj' = [id_obj EXCEPT ![q] = None] /\ H \in 1..H /\ F(H).pc = "deleted"
          /\ q \in Roles /\ H' = H - 1
      BY <3>1 DEF Removes
    <3>3. CASE q # p
      BY <1>r, <2>2, <2>4, <3>2, <3>3
    <3>4. CASE q = p
      <4>1. id_obj'[p] = None
        BY <1>r, <2>2, <3>2, <3>4
      <4>2. ASSUME Online(o) PROVE FALSE
        <5>1. id_obj[p] \in {x, None} /\ id_obj[p] = o
          BY <2>4, <3>1, <3>2, <3>4, <4>2 DEF Deleting
        <5>2. x = o
          BY <1>r, <2>2, <5>1
        <5>3. H > 1 /\ F(H - 1).pc \in {"protokick", "closed"}
          BY <3>1, <3>2, <4>2, <5>2 DEF Cut, Drops
        <5>4. k # H - 1 /\ k < H
          BY <1>0, <2>1, <3>2, <5>3
        <5>5. k < H - 1 /\ H - 1 \in 1..H
          BY <1>0, <2>1, <5>3, <5>4
        <5> QED
          BY <2>1, <5>3, <5>5 DEF Shape, Unnested, Cutters, F, H
      <4> QED
        BY <4>1, <4>2
    <3> QED
      BY <3>3, <3>4
  \* Nothing is loaded and added while an object that is not online is deleted.
  <2>7. ASSUME NEW t \in Tasks, Adds(t)
        PROVE  IF Online(o) THEN id_obj'[p] = o ELSE id_obj'[p] \in {o, None}
    <3>1. PICK q \in Roles, x \in Players, s \in {"online", "offline", "kuafu"} : Takes(q, x, s)
      BY <2>7, AddsTake
    <3>2. /\ id_obj[q] = None /\ id_obj' = [id_obj EXCEPT ![q] = x] /\ F(H).pc \in Takers
          /\ H \in 1..H
      BY <3>1 DEF Takes
    <3>3. CASE q # p
      BY <1>r, <2>2, <2>4, <3>2, <3>3
    <3>4. CASE q = p
      <4>1. ~Online(o)
        BY <1>r, <2>2, <2>4, <3>2, <3>4
      <4>2. k < H
        BY <1>0, <2>1, <3>2 DEF Takers
      <4>3. F(H).pc \in Unloading
        BY <2>1, <3>2, <4>1, <4>2 DEF Light
      <4> QED
        BY <3>2, <4>3 DEF Takers, Unloading
    <3> QED
      BY <3>3, <3>4
  <2> QED
    BY <2>5, <2>6, <2>7 DEF Registers
<1> QED
  BY <1>1, <1>2

(***************************************************************************)
(* Who has a connection.                                                   *)
(***************************************************************************)
LEMMA AgentKept ==
    ASSUME FreshInv, Serial, HeldState, AgentIffOnline, [Next]_vars
    PROVE  AgentIffOnline'
<1>0. IInv
  BY DEF FreshInv
<1>o. obj \in [Players -> [pid : Roles \cup {None}, agent : Agents \cup {None},
                           state : {"new", "online", "offline", "kuafu"}, data : Nat]]
  BY <1>0 DEF IInv, HeapType
<1> SUFFICES ASSUME NEW o \in Players
             PROVE  obj'[o].agent # None <=> obj'[o].state = "online"
  BY DEF AgentIffOnline, Online
<1>1. ASSUME obj'[o] = obj[o]
             \/ (obj'[o].agent = obj[o].agent /\ obj'[o].state = obj[o].state)
      PROVE  obj'[o].agent # None <=> obj'[o].state = "online"
  BY <1>1 DEF AgentIffOnline, Online
<1>2. ASSUME NEW t \in Tasks, NewPlayer(t)
      PROVE  obj'[o].agent # None <=> obj'[o].state = "online"
  <2>1. \E p : obj' = [obj EXCEPT ![nobj + 1] =
                         [pid |-> p, agent |-> None, state |-> "new", data |-> db[p]]]
    BY <1>2 DEF NewPlayer, NewObject
  <2> QED
    BY <1>o, <1>1, <2>1
<1>3. ASSUME NEW t \in Tasks, NetTransfer(t)
      PROVE  obj'[o].agent # None <=> obj'[o].state = "online"
  <2>1. obj' = obj \/ \E x, a : a # None /\ obj' = [obj EXCEPT ![x].agent = a, ![x].state = "online"]
    BY <1>3 DEF NetTransfer
  <2> QED
    BY <1>o, <1>1, <2>1
<1>4. ASSUME NEW t \in Tasks, AddOffline(t) \/ AddKuafu(t)
      PROVE  obj'[o].agent # None <=> obj'[o].state = "online"
  <2>1. PICK p \in Roles, x \in Players, s \in {"online", "offline", "kuafu"} : Takes(p, x, s)
    BY <1>4, AddsTake DEF Adds
  <2>2. F(H).pc # "addplayer" /\ F(H).pc \in Takers /\ F(H).dst = x /\ H \in 1..H
    BY <1>0, <1>4, <2>1, Running DEF AddOffline, AddKuafu, Takes
  <2>3. x # None
    BY <2>1, Names DEF Objs
  <2>4. obj[x].state = "new" /\ obj[x].agent = None
    BY <2>1, <2>2, <2>3 DEF HeldState, Holding, AgentIffOnline, Online
  <2>5. /\ obj'[x].agent = obj[x].agent /\ obj'[x].state = s /\ s # "online"
        /\ \A y \in Players : y # x => obj'[y] = obj[y]
    BY <2>1, <2>2 DEF Takes
  <2> QED
    BY <1>1, <2>4, <2>5
<1>5. ASSUME NEW t \in Tasks, Step(t), ~NewPlayer(t), ~NetTransfer(t), ~AddOffline(t), ~AddKuafu(t)
      PROVE  UNCHANGED obj
  <2>1. CASE DelNothing(t) \/ DelLink(t) \/ DelOnline(t) \/ DelOffline(t) \/ DelKuafu(t)
             \/ Deleted(t) \/ ExitGame(t) \/ Saved(t) \/ Pop(t) \/ Unload(t)
    BY <2>1 DEF DelNothing, DelLink, DelOnline, DelOffline, DelKuafu, Deleted, ExitGame, Saved,
                Pop, Unload, heap
  <2>2. CASE SetHome(t) \/ AddPlayer(t) \/ AddRepeat(t) \/ CallFails(t) \/ OnLogin(t)
             \/ Kick(t) \/ ProtoKick(t) \/ Closed(t) \/ GoSrv(t) \/ ReenterGame(t)
    BY <2>2 DEF SetHome, AddPlayer, AddRepeat, CallFails, OnLogin, Kick, ProtoKick, Closed, GoSrv,
                ReenterGame, heap
  <2> QED
    BY <1>5, <2>1, <2>2 DEF Step
<1>6. CASE Message
  BY <1>0, <1>1, <1>6, MessageObjects
<1>7. CASE UNCHANGED vars
  BY <1>1, <1>7 DEF vars, heap
<1> QED
  BY <1>1, <1>2, <1>3, <1>4, <1>5, <1>6, <1>7 DEF Next, Quiet, Message


(***************************************************************************)
(* onlinenum.                                                              *)
(***************************************************************************)
OnlineRoles == {p \in Roles : OnlineAt(p)}

LEMMA OnlineRemoved ==
    ASSUME IInv, NEW p, NEW o, Removes(p, o), Deleting
    PROVE  /\ OnlineRoles' = IF Online(o) THEN OnlineRoles \ {p} ELSE OnlineRoles
           /\ cnt'["online"] = IF Online(o) THEN cnt["online"] - 1 ELSE cnt["online"]
           /\ Online(o) => p \in OnlineRoles
<1>1. /\ id_obj' = [id_obj EXCEPT ![p] = None] /\ obj' = obj /\ H \in 1..H /\ F(H).pc = "deleted"
      /\ F(H).src = o /\ F(H).pid = p /\ p \in Roles /\ o \in Players /\ o \notin Agents
      /\ cnt' = [cnt EXCEPT ![Counter(obj[o].state)] = @ - 1]
  BY DEF Removes
<1>2. /\ id_obj \in [Pids -> Objs \cup {None}] /\ None \notin Players /\ Roles \subseteq Pids
      /\ cnt \in [States -> Int] /\ {"online", "offline", "kuafu"} \subseteq States
      /\ obj[o].state \in {"new", "online", "offline", "kuafu"}
  BY <1>1, Names DEF IInv, RegType, HeapType, Objs, Pids, States
<1>3. /\ obj[o].state # "new"
      /\ IF Online(o) THEN id_obj[p] = o ELSE id_obj[p] \in {o, None}
  BY <1>1 DEF Deleting
<1>4. ~OnlineAt(p)'
  <2>1. id_obj'[p] = None
    BY <1>1, <1>2
  <2> QED
    BY <2>1 DEF OnlineAt
<1>5. ASSUME NEW q \in Roles, q # p PROVE OnlineAt(q)' <=> OnlineAt(q)
  <2>1. id_obj'[q] = id_obj[q]
    BY <1>1, <1>2, <1>5
  <2> QED
    BY <1>1, <2>1 DEF OnlineAt, StateOf
<1>6. OnlineAt(p) <=> Online(o)
  BY <1>1, <1>2, <1>3 DEF OnlineAt, StateOf, Online
<1>7. Counter(obj[o].state) = "online" <=> Online(o)
  BY <1>2, <1>3 DEF Counter, Online
<1>8. Counter(obj[o].state) \in States
  BY <1>2, <1>3 DEF Counter
<1>9. OnlineRoles' = {q \in Roles : OnlineAt(q)'}
  BY DEF OnlineRoles
<1>10. OnlineRoles' = IF Online(o) THEN OnlineRoles \ {p} ELSE OnlineRoles
  BY <1>4, <1>5, <1>6, <1>9 DEF OnlineRoles
<1>11. cnt'["online"] = IF Online(o) THEN cnt["online"] - 1 ELSE cnt["online"]
  BY <1>1, <1>2, <1>7, <1>8
<1>12. Online(o) => p \in OnlineRoles
  BY <1>1, <1>6 DEF OnlineRoles
<1> QED
  BY <1>10, <1>11, <1>12

LEMMA OnlineTaken ==
    ASSUME IInv, NEW p, NEW o, NEW s \in {"online", "offline", "kuafu"}, Takes(p, o, s)
    PROVE  /\ OnlineRoles' = IF s = "online" THEN OnlineRoles \cup {p} ELSE OnlineRoles
           /\ cnt'["online"] = IF s = "online" THEN cnt["online"] + 1 ELSE cnt["online"]
           /\ p \notin OnlineRoles
<1>1. /\ id_obj' = [id_obj EXCEPT ![p] = o] /\ id_obj[p] = None /\ p \in Roles
      /\ o \in Players /\ o \notin Agents /\ ~Known(o) /\ obj'[o].state = s
      /\ \A x \in Players : x # o => obj'[x] = obj[x]
      /\ cnt' = [cnt EXCEPT ![Counter(s)] = @ + 1]
  BY DEF Takes
<1>2. /\ id_obj \in [Pids -> Objs \cup {None}] /\ None \notin Players /\ Roles \subseteq Pids
      /\ cnt \in [States -> Int] /\ {"online", "offline", "kuafu"} \subseteq States
  BY Names DEF IInv, RegType, Objs, Pids, States
<1>3. OnlineAt(p)' <=> s = "online"
  <2>1. id_obj'[p] = o /\ o # None
    BY <1>1, <1>2
  <2>2. OnlineAt(p)' <=> obj'[o].state = "online"
    BY <1>1, <2>1 DEF OnlineAt, StateOf
  <2> QED
    BY <1>1, <2>2
<1>4. ASSUME NEW q \in Roles, q # p PROVE OnlineAt(q)' <=> OnlineAt(q)
  <2>1. id_obj'[q] = id_obj[q]
    BY <1>1, <1>2, <1>4
  <2>2. CASE id_obj[q] = None
    BY <2>1, <2>2 DEF OnlineAt
  <2>3. CASE id_obj[q] # None
    <3>1. PICK x : x = id_obj[q]
      OBVIOUS
    <3>2. x \in Players /\ Known(x) /\ x \notin Agents /\ x # None
      BY <2>3, <3>1, RegisteredPlayer
    <3>3. obj'[x] = obj[x]
      BY <1>1, <3>2
    <3>4. OnlineAt(q)' <=> obj'[x].state = "online"
      BY <2>1, <3>1, <3>2 DEF OnlineAt, StateOf
    <3>5. OnlineAt(q) <=> obj[x].state = "online"
      BY <3>1, <3>2 DEF OnlineAt, StateOf
    <3> QED
      BY <3>3, <3>4, <3>5
  <2> QED
    BY <2>2, <2>3
<1>5. ~OnlineAt(p)
  BY <1>1 DEF OnlineAt
<1>6. Counter(s) = s
  BY DEF Counter
<1>7. OnlineRoles' = {q \in Roles : OnlineAt(q)'}
  BY DEF OnlineRoles
<1>8. OnlineRoles' = IF s = "online" THEN OnlineRoles \cup {p} ELSE OnlineRoles
  BY <1>1, <1>3, <1>4, <1>5, <1>7 DEF OnlineRoles
<1>9. cnt'["online"] = IF s = "online" THEN cnt["online"] + 1 ELSE cnt["online"]
  BY <1>1, <1>2, <1>6
<1>10. p \notin OnlineRoles
  BY <1>5 DEF OnlineRoles
<1> QED
  BY <1>8, <1>9, <1>10

LEMMA OnlineKept ==
    ASSUME FreshInv, FreshInv', LinkInv, Serial, HeldState, Deleting, OnlineExact, [Next]_vars
    PROVE  OnlineExact'
<1>0. IInv /\ IInv' /\ KnownKept
  BY ObjectsKept DEF FreshInv
<1>1. /\ IsFiniteSet(OnlineRoles) /\ Cardinality(OnlineRoles) = cnt["online"]
      /\ cnt["online"] \in Int
  <2>1. IsFiniteSet(OnlineRoles)
    BY FiniteAssumption, FS_Subset DEF OnlineRoles
  <2>2. cnt["online"] \in Int
    BY <1>0 DEF IInv, RegType, States
  <2> QED
    BY <2>1, <2>2 DEF OnlineExact, OnlineRoles
<1> SUFFICES cnt'["online"] = Cardinality(OnlineRoles')
  BY DEF OnlineExact, OnlineRoles
<1>2. CASE ~Registers
  <2>1. Still
    BY <1>2, StepStill
  <2>2. \A p \in Roles : OnlineAt(p)' <=> OnlineAt(p)
    <3> SUFFICES ASSUME NEW p \in Roles PROVE OnlineAt(p)' <=> OnlineAt(p)
      OBVIOUS
    <3>1. id_obj'[p] = id_obj[p]
      BY <2>1 DEF Still
    <3>2. CASE id_obj[p] = None
      BY <3>1, <3>2 DEF OnlineAt
    <3>3. CASE id_obj[p] # None
      BY <1>0, <3>1, <3>3, StillPlayers
    <3> QED
      BY <3>2, <3>3
  <2>3. OnlineRoles' = {p \in Roles : OnlineAt(p)'}
    BY DEF OnlineRoles
  <2>4. OnlineRoles' = OnlineRoles
    BY <2>2, <2>3 DEF OnlineRoles
  <2> QED
    BY <1>1, <2>1, <2>4 DEF Still
<1>3. ASSUME NEW t \in Tasks, Deleted(t) PROVE cnt'["online"] = Cardinality(OnlineRoles')
  <2>1. PICK p, o : p = F(H).pid /\ o = F(H).src /\ Removes(p, o)
    BY <1>0, <1>3, DeletedRemoves
  <2>2. /\ OnlineRoles' = IF Online(o) THEN OnlineRoles \ {p} ELSE OnlineRoles
        /\ cnt'["online"] = IF Online(o) THEN cnt["online"] - 1 ELSE cnt["online"]
        /\ Online(o) => p \in OnlineRoles
    BY <1>0, <2>1, OnlineRemoved
  <2>3. p \in OnlineRoles => Cardinality(OnlineRoles \ {p}) = Cardinality(OnlineRoles) - 1
    BY <1>1, FS_RemoveElement
  <2> QED
    BY <1>1, <2>2, <2>3
<1>4. ASSUME NEW t \in Tasks, Adds(t) PROVE cnt'["online"] = Cardinality(OnlineRoles')
  <2>1. PICK p \in Roles, o \in Players, s \in {"online", "offline", "kuafu"} : Takes(p, o, s)
    BY <1>4, AddsTake
  <2>2. /\ OnlineRoles' = IF s = "online" THEN OnlineRoles \cup {p} ELSE OnlineRoles
        /\ cnt'["online"] = IF s = "online" THEN cnt["online"] + 1 ELSE cnt["online"]
        /\ p \notin OnlineRoles
    BY <1>0, <2>1, OnlineTaken
  <2>3. Cardinality(OnlineRoles \cup {p}) = Cardinality(OnlineRoles) + 1
    BY <1>1, <2>2, FS_AddElement
  <2> QED
    BY <1>1, <2>2, <2>3
<1> QED
  BY <1>2, <1>3, <1>4 DEF Registers


(***************************************************************************)
(* Clients in the game.                                                    *)
(***************************************************************************)
\* The next call takes the connection of the agent away.
Losing(b) == /\ H > 0
             /\ \/ F(H).pc = "protokick" /\ AgentOf(F(H).src) = b
                \/ F(H).pc = "closed" /\ F(H).pid = b

\* Who plays a role has its online object and its fd mark, or is about to be cut off.
Playing == \A b \in Agents : conn[b] \in Roles =>
    /\ \/ OnlineAt(conn[b]) /\ obj[id_obj[conn[b]]].agent = b
       \/ id_obj[conn[b]] = None /\ Losing(b)
    /\ fd_id[b] = conn[b] \/ Losing(b)

\* So far as role r and agent b go.
PlaysAt(b, r) ==
    /\ \/ OnlineAt(r) /\ obj[id_obj[r]].agent = b
       \/ id_obj[r] = None /\ Losing(b)
    /\ fd_id[b] = r \/ Losing(b)

LEMMA LosingOn ==
    ASSUME IInv, IInv', Serial, [Next]_vars, NEW b \in Agents, Losing(b), conn'[b] \in Roles
    PROVE  Losing(b)'
<1>1. H > 0 /\ H \in Nat /\ stack[1] # <<>> /\ F(H).pc \in {"protokick", "closed"}
  BY StackType DEF Losing, H
<1>2. conn \in [Agents -> Pids \cup {None}] /\ None \notin Roles
  BY Names DEF IInv, TablesType, Pids
<1>3. ASSUME NEW t \in Tasks, Step(t) PROVE FALSE
  <2>1. stack[t] # <<>> /\ t = 1
    BY <1>3, OneTask
       DEF Step, DelNothing, DelLink, DelOnline, DelOffline, DelKuafu, Deleted, ExitGame, Saved,
           Pop, Unload, NewPlayer, SetHome, NetTransfer, AddPlayer, AddOffline, AddKuafu,
           AddRepeat, CallFails, OnLogin, Kick, ProtoKick, Closed, GoSrv, ReenterGame, Runs
  <2>2. stack[t][1] = F(H)
    BY <2>1, StackType DEF F, H
  <2>3. ProtoKick(t) \/ Closed(t)
    BY <1>1, <1>3, <2>2
       DEF Step, DelNothing, DelLink, DelOnline, DelOffline, DelKuafu, Deleted, ExitGame, Saved,
           Pop, Unload, NewPlayer, SetHome, NetTransfer, AddPlayer, AddOffline, AddKuafu,
           AddRepeat, CallFails, OnLogin, Kick, ProtoKick, Closed, GoSrv, ReenterGame, Runs
  <2>4. CASE ProtoKick(t)
    <3>1. F(H).pc = "protokick"
      BY <2>2, <2>4 DEF ProtoKick, Runs
    <3>2. AgentOf(stack[t][1].src) = b
      BY <2>2, <3>1 DEF Losing
    <3>3. conn' = [conn EXCEPT ![b] = None]
      BY <1>2, <2>4, <3>2, Names DEF ProtoKick, Pids
    <3> QED
      BY <1>2, <3>3
  <2>5. CASE Closed(t)
    <3>1. stack[t][1].pid = b
      BY <2>2, <2>5 DEF Closed, Runs, Losing
    <3>2. conn' = [conn EXCEPT ![b] = None]
      BY <2>5, <3>1 DEF Closed
    <3> QED
      BY <1>2, <3>2
  <2> QED
    BY <2>3, <2>4, <2>5
<1>4. CASE Message
  <2>1. stack'[1] = stack[1]
    BY <1>1, <1>4, MessageStack
  <2>2. H' = H /\ F(H)' = F(H)
    BY <2>1 DEF H, F
  <2>3. F(H).pc = "protokick" => AgentOf(F(H).src)' = AgentOf(F(H).src)
    <3> SUFFICES ASSUME F(H).pc = "protokick", F(H).src \notin Agents
                 PROVE  obj'[F(H).src].agent = obj[F(H).src].agent
      BY <2>2 DEF AgentOf
    <3>1. F(H).src \in Players
      <4>1. 1 \in Tasks /\ stack[1][1] = F(H)
        BY <1>1, OneTask, StackType DEF F, H
      <4>2. GoodFrame(F(H), nobj)
        BY <1>1, <4>1, TopFrame DEF IInv
      <4>3. F(H).src \in 1..nobj
        BY <4>2 DEF GoodFrame
      <4> QED
        BY <4>3, Made DEF IInv
    <3> QED
      BY <1>4, <3>1, MessageObjects
  <2> QED
    BY <2>2, <2>3 DEF Losing
<1>5. CASE UNCHANGED vars
  BY <1>5 DEF vars, heap, Losing, H, F, AgentOf
<1> QED
  BY <1>3, <1>4, <1>5 DEF Next, Quiet, Message

LEMMA PlaysOn ==
    ASSUME FreshInv, IInv', Serial, KnownKept, [Next]_vars, NEW b \in Agents, NEW r \in Roles,
           conn'[b] = r, PlaysAt(b, r), id_obj'[r] = id_obj[r], fd_id'[b] = fd_id[b]
    PROVE  PlaysAt(b, r)'
<1>0. IInv
  BY DEF FreshInv
<1>1. Losing(b) => Losing(b)'
  BY <1>0, LosingOn
<1>2. fd_id'[b] = r \/ Losing(b)'
  BY <1>1 DEF PlaysAt
<1>3. CASE OnlineAt(r) /\ obj[id_obj[r]].agent = b
  <2>1. id_obj[r] # None
    BY <1>3 DEF OnlineAt
  <2>2. obj'[id_obj[r]].agent = obj[id_obj[r]].agent /\ (OnlineAt(r)' <=> OnlineAt(r))
    BY <1>0, <2>1, StillPlayers
  <2> QED
    BY <1>2, <1>3, <2>2 DEF PlaysAt
<1>4. CASE id_obj[r] = None /\ Losing(b)
  BY <1>1, <1>2, <1>4 DEF PlaysAt
<1> QED
  BY <1>3, <1>4 DEF PlaysAt

LEMMA PlayingKept ==
    ASSUME FreshInv, FreshInv', LinkInv, Serial, HeldState, AgentIffOnline, Deleting, Cut, Playing,
           [Next]_vars
    PROVE  Playing'
<1>0. IInv /\ IInv' /\ KnownKept
  BY ObjectsKept DEF FreshInv
<1>r. /\ id_obj \in [Pids -> Objs \cup {None}] /\ None \notin Players /\ Roles \subseteq Pids
      /\ conn \in [Agents -> Pids \cup {None}] /\ fd_id \in [Agents -> Pids \cup {None}]
      /\ None \notin Roles
  BY <1>0, Names DEF IInv, TablesType, RegType, Objs, Pids
<1> SUFFICES ASSUME NEW b \in Agents, NEW r \in Roles, conn'[b] = r
             PROVE  PlaysAt(b, r)'
  BY DEF Playing, PlaysAt
<1>p. \A a \in Agents, q \in Roles : conn[a] = q => PlaysAt(a, q)
  BY DEF Playing, PlaysAt
<1>1. CASE ~Registers
  <2>1. conn[b] = r /\ id_obj'[r] = id_obj[r] /\ fd_id'[b] = fd_id[b]
    BY <1>1, StepStill DEF Still
  <2> QED
    BY <1>0, <1>p, <2>1, PlaysOn
<1>2. ASSUME NEW t \in Tasks, Deleted(t) PROVE PlaysAt(b, r)'
  <2>1. PICK p, o : p = F(H).pid /\ o = F(H).src /\ Removes(p, o)
    BY <1>0, <1>2, DeletedRemoves
  <2>2. /\ id_obj' = [id_obj EXCEPT ![p] = None] /\ H \in 1..H /\ H > 0 /\ F(H).pc = "deleted"
        /\ p \in Roles /\ o \in Players /\ o \notin Agents /\ conn' = conn /\ obj' = obj
        /\ fd_id' = IF obj[o].agent = None THEN fd_id ELSE [fd_id EXCEPT ![obj[o].agent] = None]
        /\ H' = H - 1 /\ \A k \in 1..(H - 1) : At(stack'[1], k) = F(k)
    BY <2>1 DEF Removes
  <2>3. OnlineAt(r) /\ obj[id_obj[r]].agent = b /\ fd_id[b] = r
    BY <1>p, <2>2 DEF PlaysAt, Losing
  \* The client of an online object is cut off next.
  <2>4. ASSUME Online(o), obj[o].agent = b PROVE Losing(b)'
    <3>1. H > 1 /\ Drops(F(H - 1), o)
      BY <2>1, <2>2, <2>4 DEF Cut
    <3>2. H \in Nat /\ H' > 0 /\ F(H)' = F(H - 1)
      <4>1. H \in Nat
        BY <1>0, StackType DEF H
      <4>2. H - 1 \in 1..(H - 1)
        BY <3>1, <4>1
      <4>3. At(stack'[1], H - 1) = F(H - 1)
        BY <2>2, <4>2
      <4>4. F(H)' = At(stack'[1], H')
        BY DEF F
      <4> QED
        BY <2>2, <3>1, <4>1, <4>3, <4>4
    <3>3. AgentOf(o)' = b
      BY <2>2, <2>4 DEF AgentOf
    <3>4. CASE F(H - 1).pc = "protokick" /\ F(H - 1).src = o
      <4>1. F(H)'.pc = "protokick" /\ F(H)'.src = o
        BY <3>2, <3>4
      <4>2. AgentOf(F(H).src)' = AgentOf(o)'
        <5>1. AgentOf(F(H).src)' = IF F(H)'.src \in Agents THEN F(H)'.src ELSE obj'[F(H)'.src].agent
          BY DEF AgentOf
        <5>2. AgentOf(o)' = IF o \in Agents THEN o ELSE obj'[o].agent
          BY DEF AgentOf
        <5> QED
          BY <4>1, <5>1, <5>2
      <4> QED
        BY <3>2, <3>3, <4>1, <4>2 DEF Losing
    <3>5. CASE F(H - 1).pc = "closed" /\ F(H - 1).pid = obj[o].agent
      BY <2>4, <3>2, <3>5 DEF Losing
    <3> QED
      BY <3>1, <3>4, <3>5 DEF Drops
  <2>5. IF Online(o) THEN id_obj[p] = o ELSE id_obj[p] \in {o, None}
    BY <2>1, <2>2 DEF Deleting
  <2>6. obj[o].agent = b => Online(o)
    BY <1>r, <2>2, Names DEF AgentIffOnline, Pids
  <2>7. fd_id'[b] = r \/ Losing(b)'
    <3>1. CASE obj[o].agent = b
      BY <2>4, <2>6, <3>1
    <3>2. CASE obj[o].agent # b
      BY <1>r, <2>2, <2>3, <3>2
    <3> QED
      BY <3>1, <3>2
  <2>8. CASE r = p
    <3>1. id_obj[p] = o
      BY <2>3, <2>5, <2>8 DEF OnlineAt
    <3>2. Losing(b)'
      BY <2>3, <2>4, <2>6, <2>8, <3>1
    <3>3. id_obj'[r] = None
      BY <1>r, <2>2, <2>8
    <3> QED
      BY <3>2, <3>3 DEF PlaysAt
  <2>9. CASE r # p
    <3>1. id_obj'[r] = id_obj[r] /\ id_obj[r] # None
      BY <1>r, <2>2, <2>3, <2>9 DEF OnlineAt
    <3>2. OnlineAt(r)' <=> OnlineAt(r)
      BY <1>0, <3>1, StillPlayers
    <3>3. obj'[id_obj'[r]].agent = b
      BY <2>2, <2>3, <3>1
    <3> QED
      BY <2>3, <2>7, <3>2, <3>3 DEF PlaysAt
  <2> QED
    BY <2>8, <2>9
<1>3. ASSUME NEW t \in Tasks, Adds(t) PROVE PlaysAt(b, r)'
  <2>1. PICK p \in Roles, o \in Players, s \in {"online", "offline", "kuafu"} : Takes(p, o, s)
    BY <1>3, AddsTake
  <2>2. /\ id_obj' = [id_obj EXCEPT ![p] = o] /\ id_obj[p] = None /\ F(H).pc \in Takers
        /\ o \notin Agents /\ obj'[o].agent = obj[o].agent /\ obj'[o].state = s
    BY <2>1 DEF Takes
  <2>3. \A a \in Agents : conn[a] \in Roles => conn[a] # p /\ fd_id[a] = conn[a]
    <3> SUFFICES ASSUME NEW a \in Agents, conn[a] \in Roles PROVE conn[a] # p /\ fd_id[a] = conn[a]
      OBVIOUS
    <3>1. PlaysAt(a, conn[a]) /\ ~Losing(a)
      BY <1>p, <2>2 DEF Losing, Takers
    <3> QED
      BY <2>2, <3>1 DEF PlaysAt, OnlineAt
  <2>4. ASSUME conn[b] = r, fd_id'[b] = fd_id[b] PROVE PlaysAt(b, r)'
    <3>1. r # p
      BY <2>3, <2>4
    <3>2. id_obj'[r] = id_obj[r]
      BY <1>r, <2>2, <3>1
    <3> QED
      BY <1>0, <1>p, <2>4, <3>2, PlaysOn
  <2>5. CASE s # "online"
    BY <2>1, <2>4, <2>5 DEF Takes
  <2>6. CASE s = "online"
    <3>1. /\ obj' = obj
          /\ fd_id' = IF obj[o].agent = None THEN fd_id ELSE [fd_id EXCEPT ![obj[o].agent] = p]
          /\ conn' = IF conn[obj[o].agent] = None THEN conn ELSE [conn EXCEPT ![obj[o].agent] = p]
      BY <2>1, <2>6 DEF Takes
    <3>2. Online(o) /\ obj[o].agent # None
      BY <2>2, <2>6, <3>1 DEF Online, AgentIffOnline
    <3>3. CASE obj[o].agent = b
      <4>1. conn[b] # None
        BY <1>r, <3>1, <3>3
      <4>2. r = p /\ fd_id'[b] = p
        BY <1>r, <3>1, <3>2, <3>3, <4>1
      <4>3. id_obj'[p] = o
        BY <1>r, <2>2
      <4>4. OnlineAt(p)'
        BY <1>r, <2>2, <2>6, <4>3, Names DEF OnlineAt, StateOf, Objs
      <4> QED
        BY <2>2, <3>3, <4>2, <4>3, <4>4 DEF PlaysAt
    <3>4. CASE obj[o].agent # b
      BY <1>r, <2>4, <3>1, <3>4
    <3> QED
      BY <3>3, <3>4
  <2> QED
    BY <2>5, <2>6
<1> QED
  BY <1>1, <1>2, <1>3 DEF Registers


(***************************************************************************)
(* An online object is only deleted by who cuts its client off.            *)
(***************************************************************************)
NoDelete(r) == Len(r) > 0 => At(r, Len(r)).pc # "delobject"

LEMMA NewTop ==
    ASSUME NEW s \in Seq(FrameType), s # <<>>, Shape(s), NEW r, Len(r) \in Nat,
           NEW f, NEW g, NEW x
    PROVE  /\ Piled0(s, r) => NoDelete(r)
           /\ Piled1(s, r, f) => Len(r) > 0 /\ At(r, Len(r)) = f
           /\ Piled2(s, r, f, g) => Len(r) > 1 /\ At(r, Len(r)) = f /\ At(r, Len(r) - 1) = g
           /\ Broken(s, r) /\ r \in Seq(FrameType) => NoDelete(r)
           /\ Handed(s, r, x) => NoDelete(r)
<1>1. Base(s) \in Nat /\ Len(s) = Base(s) + 1
  BY BaseType
<1>2. ASSUME NEW k \in 1..Len(s), k < Len(s) PROVE At(s, k).pc # "delobject"
  BY <1>2 DEF Shape, TopOnly
<1>3. ASSUME Piled0(s, r), Len(r) > 0 PROVE At(r, Len(r)).pc # "delobject"
  <2>1. Len(r) = Base(s) /\ Len(r) \in 1..Base(s) /\ Len(r) < Len(s) /\ Len(r) \in 1..Len(s)
    BY <1>1, <1>3 DEF Piled0
  <2>2. At(r, Len(r)) = At(s, Len(r))
    BY <1>3, <2>1 DEF Piled0, Kept
  <2> QED
    BY <1>2, <2>1, <2>2
<1>4. ASSUME Piled1(s, r, f) PROVE Len(r) > 0 /\ At(r, Len(r)) = f
  BY <1>1, <1>4 DEF Piled1
<1>5. ASSUME Piled2(s, r, f, g)
      PROVE  Len(r) > 1 /\ At(r, Len(r)) = f /\ At(r, Len(r) - 1) = g
  <2>1. Len(r) = Base(s) + 2 /\ Len(r) - 1 = Base(s) + 1
    BY <1>1, <1>5 DEF Piled2
  <2> QED
    BY <1>1, <1>5, <2>1 DEF Piled2
<1>6. ASSUME Broken(s, r), r \in Seq(FrameType), Len(r) > 0
      PROVE  At(r, Len(r)).pc # "delobject"
  BY <1>6, EmptySeq DEF Broken
<1>7. ASSUME Handed(s, r, x) PROVE At(r, Len(r)).pc # "delobject"
  <2>1. Len(r) \in 1..Len(s) /\ Len(r) < Len(s) /\ At(r, Len(r)).pc = At(s, Len(r)).pc
    BY <1>7, HandedFrame
  <2> QED
    BY <1>2, <2>1
<1> QED
  BY <1>3, <1>4, <1>5, <1>6, <1>7 DEF NoDelete

\* The other steps make no delobject the next call.
LEMMA StepNoDelete ==
    ASSUME IInv, IInv', Serial, Shape(stack[1]), NEW t \in Tasks, Step(t),
           ~Saved(t), ~Unload(t), ~NetTransfer(t), ~Kick(t)
    PROVE  NoDelete(stack'[1])
<1> DEFINE s == stack[1]
           r == stack'[1]
<1>1. /\ t = 1 /\ stack[t] # <<>>
      /\ s # <<>> /\ s \in Seq(FrameType) /\ r \in Seq(FrameType) /\ Len(r) \in Nat
  <2>1. stack[t] # <<>> /\ t = 1
    BY OneTask
       DEF Step, DelNothing, DelLink, DelOnline, DelOffline, DelKuafu, Deleted, ExitGame, Saved,
           Pop, Unload, NewPlayer, SetHome, NetTransfer, AddPlayer, AddOffline, AddKuafu,
           AddRepeat, CallFails, OnLogin, Kick, ProtoKick, Closed, GoSrv, ReenterGame, Runs
  <2>2. r \in Seq(FrameType)
    BY OneTask DEF IInv, StackInv
  <2> QED
    BY <2>1, <2>2, StackType, LenProperties
<1>2. Shape(s)
  OBVIOUS
<1> HIDE DEF s, r
<1>3. CASE Continue(t, <<>>)
  BY <1>1, <1>2, <1>3, Goes, NewTop DEF s, r
<1>4. ASSUME NEW f, f.pc # "delobject", Continue(t, <<f>>) \/ Suspend(t, <<f>>)
      PROVE  NoDelete(r)
  <2>1. Piled1(s, r, f)
    BY <1>1, <1>4, Goes DEF s, r
  <2> QED
    BY <1>1, <1>2, <1>4, <2>1, NewTop DEF NoDelete
<1>5. ASSUME NEW f, NEW g, f.pc # "delobject", Continue(t, <<f, g>>)
      PROVE  NoDelete(r)
  <2>1. Piled2(s, r, f, g)
    BY <1>1, <1>5, Goes DEF s, r
  <2> QED
    BY <1>1, <1>2, <1>5, <2>1, NewTop DEF NoDelete
<1>6. CASE DelNothing(t) \/ DelLink(t) \/ Deleted(t) \/ OnLogin(t) \/ ProtoKick(t) \/ Closed(t)
           \/ AddOffline(t) \/ AddKuafu(t)
  BY <1>3, <1>6 DEF DelNothing, DelLink, Deleted, OnLogin, ProtoKick, Closed, AddOffline,
                    AddKuafu, r
<1>7. CASE ExitGame(t) \/ SetHome(t) \/ AddPlayer(t) \/ GoSrv(t) \/ ReenterGame(t)
  <2>1. \E pc, pid, src, dst : pc # "delobject"
                               /\ (Continue(t, <<Frame(pc, pid, src, dst)>>)
                                   \/ Suspend(t, <<Frame(pc, pid, src, dst)>>))
    BY <1>7 DEF ExitGame, SetHome, AddPlayer, GoSrv, ReenterGame
  <2>2. PICK pc, pid, src, dst : pc # "delobject"
                                 /\ (Continue(t, <<Frame(pc, pid, src, dst)>>)
                                     \/ Suspend(t, <<Frame(pc, pid, src, dst)>>))
    BY <2>1
  <2> DEFINE f == Frame(pc, pid, src, dst)
  <2>3. f.pc # "delobject" /\ (Continue(t, <<f>>) \/ Suspend(t, <<f>>))
    BY <2>2, FrameField
  <2> HIDE DEF f
  <2> QED
    BY <1>4, <2>3 DEF r
<1>8. CASE Pop(t)
  <2>1. CASE Continue(t, <<>>)
    BY <1>3, <2>1 DEF r
  <2>2. CASE ~Continue(t, <<>>)
    <3> DEFINE v == Head(queue)
               f == Frame("recoverplayer", v.role, None, None)
               g == Frame("nettransfer", None, id_obj[v.pid], None)
    <3>1. Continue(t, <<f, g>>)
      BY <1>8, <2>2 DEF Pop
    <3>2. f.pc # "delobject"
      BY FrameField
    <3> HIDE DEF f, g
    <3> QED
      BY <1>5, <3>1, <3>2 DEF r
  <2> QED
    BY <2>1, <2>2
<1>9. CASE AddRepeat(t) \/ CallFails(t)
  <2>1. Broken(s, r)
    BY <1>1, <1>9, Breaks DEF AddRepeat, CallFails, s, r
  <2> QED
    BY <1>1, <1>2, <2>1, NewTop DEF r
<1>10. CASE NewPlayer(t)
  <2>1. Handed(s, r, nobj + 1)
    BY <1>1, <1>10, Handing DEF s, r
  <2> QED
    BY <1>1, <1>2, <2>1, NewTop DEF r
<1>11. CASE Deletes(t)
  <2>1. /\ H \in Nat /\ H' \in Nat /\ H <= H' /\ At(stack'[1], H).pc = "deleted"
        /\ \A k \in (H + 1)..H' : At(stack'[1], k).pc # "delobject"
    BY <1>11, DelStacks, StackType DEF DelFrames, H
  <2>2. H' = H \/ H' \in (H + 1)..H'
    BY <2>1
  <2> QED
    BY <2>1, <2>2 DEF NoDelete, H
<1> QED
  BY <1>6, <1>7, <1>8, <1>9, <1>10, <1>11 DEF Step, Deletes, r

LEMMA NotOnline ==
    ASSUME IInv, NEW p \in Pids
    PROVE  /\ p \in Agents => ~OnlineAt(p)
           /\ id_obj[p] # None /\ StateOf(id_obj[p]) = "offline" => ~OnlineAt(p)
BY LinkObject DEF OnlineAt, StateOf

LEMMA LinkNotOnline ==
    ASSUME IInv', NEW a \in Agents
    PROVE  ~OnlineAt(a)'
<1> SUFFICES ASSUME OnlineAt(a)' PROVE FALSE
  OBVIOUS
<1>1. PICK x : x = id_obj'[a]
  OBVIOUS
<1>2. x # None /\ x \notin Agents
  BY <1>1 DEF OnlineAt, StateOf
<1>3. x \in 1..nobj' /\ obj'[x].pid = a
  BY <1>1, <1>2 DEF IInv, RegGood, PidOf, Pids
<1>4. obj'[x].pid \in Roles
  BY <1>3 DEF IInv, HeapType, ObjectsGood
<1> QED
  BY <1>3, <1>4, Names

LEMMA CutNextStep ==
    ASSUME IInv, IInv', Serial, Shape(stack[1]), NEW t \in Tasks, Step(t)
    PROVE  CutNext'
<1> DEFINE s == stack[1]
           r == stack'[1]
<1>1. /\ t = 1 /\ stack[t] # <<>> /\ stack[t][1] = F(H)
      /\ s # <<>> /\ s \in Seq(FrameType) /\ r \in Seq(FrameType) /\ Len(r) \in Nat
      /\ Shape(s)
  <2>1. stack[t] # <<>> /\ t = 1
    BY OneTask
       DEF Step, DelNothing, DelLink, DelOnline, DelOffline, DelKuafu, Deleted, ExitGame, Saved,
           Pop, Unload, NewPlayer, SetHome, NetTransfer, AddPlayer, AddOffline, AddKuafu,
           AddRepeat, CallFails, OnLogin, Kick, ProtoKick, Closed, GoSrv, ReenterGame, Runs
  <2>2. r \in Seq(FrameType)
    BY OneTask DEF IInv, StackInv
  <2> QED
    BY <2>1, <2>2, StackType, LenProperties DEF F, H
<1>h. Len(r) = H' /\ \A k : At(r, k) = At(stack'[1], k)
  BY DEF H
<1> HIDE DEF s, r
<1>n. ASSUME NoDelete(r) PROVE CutNext'
  BY <1>n DEF CutNext, NoDelete, F, H, r
<1>2. CASE ~Saved(t) /\ ~Unload(t) /\ ~NetTransfer(t) /\ ~Kick(t)
  BY <1>2, <1>n, StepNoDelete DEF r
\* The pid of the next delobject.
<1>d. ASSUME NEW p \in Pids, NEW o, id_obj' = id_obj, Len(r) > 0, At(r, Len(r)).pid = p,
             \/ ~OnlineAt(p)'
             \/ Len(r) > 1 /\ At(r, Len(r) - 1).pc = "protokick" /\ id_obj[p] = At(r, Len(r) - 1).src
      PROVE  CutNext'
  <2>1. F(H)' = At(r, Len(r)) /\ F(H - 1)' = At(r, Len(r) - 1)
    BY DEF F, H, r
  <2>2. SUFFICES ASSUME H' > 0, OnlineAt(F(H).pid)'
                 PROVE  H' > 1 /\ At(r, Len(r) - 1).pc = "protokick"
                        /\ At(r, Len(r) - 1).src = id_obj'[F(H)'.pid]
    BY <2>1 DEF CutNext, Drops
  <2>3. OnlineAt(p)'
    BY <1>d, <2>1, <2>2 DEF OnlineAt
  <2> QED
    BY <1>d, <1>h, <2>1, <2>3
<1>3. CASE Saved(t) \/ Unload(t)
  <2>1. UNCHANGED <<id_obj, obj>>
    BY <1>3 DEF Saved, Unload, reg
  <2>2. CASE NoDelete(r)
    BY <1>n, <2>2
  <2>3. CASE ~NoDelete(r)
    <3>1. \E p \in Pids : LET f == Frame("delobject", p, None, None)
                         IN /\ id_obj[p] # None /\ StateOf(id_obj[p]) = "offline"
                            /\ Continue(t, <<f>>) \/ \E n : Continue(t, <<f, n>>)
      <4>1. ASSUME Continue(t, <<>>) PROVE FALSE
        BY <1>1, <2>3, <4>1, Goes, NewTop DEF s, r
      <4>2. CASE Saved(t)
        <5> DEFINE p == obj[stack[t][1].src].pid
        <5>1. p \in Pids
          BY <1>1, <4>2, StepTop, Made DEF Saved, GoodFrame, IInv, HeapType, ObjectsGood, Pids
        <5>2. /\ id_obj[p] # None /\ StateOf(id_obj[p]) = "offline"
              /\ Continue(t, <<Frame("delobject", p, None, None)>>)
          BY <4>1, <4>2 DEF Saved
        <5> HIDE DEF p
        <5> QED
          BY <5>1, <5>2
      <4>3. CASE Unload(t)
        <5> DEFINE p == stack[t][1].pid
                   n == Frame("newplayer", p, None, None)
        <5>1. p \in Pids
          BY <4>3, StepTop DEF Unload, GoodFrame, Makers, Pids
        <5>2. \/ Continue(t, <<n>>)
              \/ /\ id_obj[p] # None /\ StateOf(id_obj[p]) = "offline"
                 /\ Continue(t, <<Frame("delobject", p, None, None), n>>)
          BY <4>3 DEF Unload
        <5>3. n.pc = "newplayer"
          BY FrameField
        <5> HIDE DEF n
        <5>4. ASSUME Continue(t, <<n>>) PROVE FALSE
          <6>1. Piled1(s, r, n)
            BY <1>1, <5>4, Goes DEF s, r
          <6> QED
            BY <1>1, <2>3, <5>3, <6>1, NewTop DEF NoDelete
        <5> HIDE DEF p
        <5> QED
          BY <5>1, <5>2, <5>4
      <4> QED
        BY <1>3, <4>2, <4>3
    <3>2. PICK p \in Pids :
             LET f == Frame("delobject", p, None, None)
             IN /\ id_obj[p] # None /\ StateOf(id_obj[p]) = "offline"
                /\ Continue(t, <<f>>) \/ \E n : Continue(t, <<f, n>>)
      BY <3>1
    <3> DEFINE f == Frame("delobject", p, None, None)
    <3>3. f.pid = p
      BY FrameField
    <3>4. Continue(t, <<f>>) \/ \E n : Continue(t, <<f, n>>)
      BY <3>2
    <3> HIDE DEF f
    <3>5. Len(r) > 0 /\ At(r, Len(r)) = f
      <4>1. CASE Continue(t, <<f>>)
        <5>1. Piled1(s, r, f)
          BY <1>1, <4>1, Goes DEF s, r
        <5> QED
          BY <1>1, <5>1, NewTop
      <4>2. ASSUME NEW n, Continue(t, <<f, n>>) PROVE Len(r) > 0 /\ At(r, Len(r)) = f
        <5>1. Piled2(s, r, f, n)
          BY <1>1, <4>2, Goes DEF s, r
        <5>2. Len(r) > 1 /\ At(r, Len(r)) = f
          BY <1>1, <5>1, NewTop
        <5> QED
          BY <1>1, <5>2
      <4> QED
        BY <3>4, <4>1, <4>2
    <3>6. ~OnlineAt(p)'
      BY <2>1, <3>2, NotOnline DEF OnlineAt, StateOf
    <3> QED
      BY <1>d, <2>1, <3>3, <3>5, <3>6
  <2> QED
    BY <2>2, <2>3
<1>4. CASE NetTransfer(t)
  <2>1. UNCHANGED <<id_obj>>
    BY <1>4 DEF NetTransfer, reg
  <2>2. CASE Raise(t)
    BY <1>1, <1>n, <2>2, Breaks, NewTop DEF s, r
  <2>3. CASE ~Raise(t)
    <3>a. PICK a : a = stack[t][1].src
      OBVIOUS
    <3> DEFINE f == Frame("delobject", PidOf(a), None, None)
               g == Frame("addplayer", None, a, stack[t][1].dst)
    <3>1. a \in Agents
      <4>1. F(H).pc = "nettransfer" /\ H \in 1..H
        BY <1>4, Running DEF NetTransfer
      <4> QED
        BY <1>1, <3>a, <4>1 DEF Shape, FromLinks, F, H, s
    <3>2. Continue(t, <<f, g>>)
      BY <1>4, <2>3, <3>a DEF NetTransfer
    <3>3. f.pid = a /\ a \in Pids
      BY <3>1, FrameField DEF PidOf, Pids
    <3> HIDE DEF f, g
    <3>4. Piled2(s, r, f, g)
      BY <1>1, <3>2, Goes DEF s, r
    <3>5. Len(r) > 0 /\ At(r, Len(r)) = f
      <4>1. Len(r) > 1 /\ At(r, Len(r)) = f
        BY <1>1, <3>4, NewTop
      <4> QED
        BY <1>1, <4>1
    <3>6. ~OnlineAt(a)'
      BY <3>1, LinkNotOnline
    <3> QED
      BY <1>d, <2>1, <3>3, <3>5, <3>6
  <2> QED
    BY <2>2, <2>3
<1>5. CASE Kick(t)
  <2>1. UNCHANGED <<id_obj>>
    BY <1>5 DEF Kick, reg
  <2>2. CASE Continue(t, <<>>)
    BY <1>1, <1>n, <2>2, Goes, NewTop DEF s, r
  <2>3. CASE ~Continue(t, <<>>)
    <3>p. PICK p : p = stack[t][1].pid
      OBVIOUS
    <3> DEFINE f == Frame("delobject", p, None, None)
               g == Frame("protokick", None, id_obj[p], None)
    <3>1. p \in Pids
      BY <1>5, <3>p, StepTop DEF Kick, GoodFrame
    <3>2. Continue(t, <<f, g>>)
      BY <1>5, <2>3, <3>p DEF Kick
    <3>3. f.pid = p /\ g.pc = "protokick" /\ g.src = id_obj[p]
      BY FrameField
    <3> HIDE DEF f, g
    <3>4. Piled2(s, r, f, g)
      BY <1>1, <3>2, Goes DEF s, r
    <3>5. Len(r) > 1 /\ At(r, Len(r)) = f /\ At(r, Len(r) - 1) = g
      BY <1>1, <3>4, NewTop
    <3>6. Len(r) > 0
      BY <1>1, <3>5
    <3> QED
      BY <1>d, <2>1, <3>1, <3>3, <3>5, <3>6
  <2> QED
    BY <2>2, <2>3
<1> QED
  BY <1>2, <1>3, <1>4, <1>5

LEMMA CutNextKept ==
    ASSUME FreshInv, FreshInv', Serial, Shape(stack[1]), CutNext, Playing, [Next]_vars
    PROVE  CutNext'
<1>0. IInv /\ IInv' /\ KnownKept
  BY ObjectsKept DEF FreshInv
<1>r. None \notin Players /\ None \notin Agents
  BY Names DEF Objs
<1>1. ASSUME NEW t \in Tasks, Step(t) PROVE CutNext'
  BY <1>0, <1>1, CutNextStep
\* Where the stack stays as it is, online objects stay where they are.
<1>2. ASSUME stack'[1] = stack[1], \A p \in Roles : id_obj'[p] = id_obj[p] PROVE CutNext'
  <2>1. H' = H /\ \A k : F(k)' = F(k)
    BY <1>2 DEF H, F
  <2> SUFFICES ASSUME H > 0, F(H).pc = "delobject", OnlineAt(F(H).pid)'
               PROVE  H > 1 /\ Drops(F(H - 1), id_obj[F(H).pid])'
    BY <2>1 DEF CutNext
  <2>2. PICK p : p = F(H).pid
    OBVIOUS
  <2>3. p \in Pids
    <3>1. 1 \in Tasks /\ stack[1] # <<>> /\ stack[1][1] = F(H)
      BY <1>0, OneTask, StackType DEF F, H
    <3>2. GoodFrame(F(H), nobj)
      BY <1>0, <3>1, TopFrame DEF IInv
    <3> QED
      BY <2>2, <3>2 DEF GoodFrame
  <2>4. OnlineAt(p)'
    BY <2>1, <2>2 DEF OnlineAt
  <2>5. p \in Roles
    <3>1. p \notin Agents
      BY <1>0, <2>4, LinkNotOnline
    <3> QED
      BY <2>3, <3>1 DEF Pids
  <2>6. id_obj'[p] = id_obj[p] /\ id_obj[p] # None
    BY <1>2, <2>4, <2>5 DEF OnlineAt
  <2>7. /\ OnlineAt(p)' <=> OnlineAt(p)
        /\ obj'[id_obj[p]].agent = obj[id_obj[p]].agent
    BY <1>0, <2>5, <2>6, StillPlayers
  <2>8. H > 1 /\ Drops(F(H - 1), id_obj[p])
    BY <2>2, <2>4, <2>7 DEF CutNext
  <2>9. id_obj'[F(H)'.pid] = id_obj[p] /\ F(H - 1)' = F(H - 1)
    BY <2>1, <2>2, <2>6
  <2> QED
    BY <2>7, <2>8, <2>9 DEF Drops
<1>3. CASE UNCHANGED vars
  BY <1>2, <1>3 DEF vars, reg
<1>4. CASE Message
  <2>1. \A p \in Roles : id_obj'[p] = id_obj[p]
    BY <1>0, <1>4, MessageTables
  <2>2. CASE MessageOpens
    BY <1>2, <2>1, <2>2 DEF MessageOpens, CutNext, Rests, F, H
  <2>3. ASSUME NEW a \in Agents, ExitRequest(a) PROVE CutNext'
    <3>1. Len(stack'[1]) = 1 /\ At(stack'[1], 1).pc = "exitgame"
      BY <1>0, <2>3, ExitOpens
    <3> QED
      BY <3>1 DEF CutNext, F, H
  <2>4. ASSUME NEW a \in Agents, Close(a), conn[a] # None PROVE CutNext'
    <3>1. /\ stack[1] = <<>> /\ Len(stack'[1]) = 2
          /\ At(stack'[1], 2).pid = conn[a]
          /\ At(stack'[1], 1).pc = "closed" /\ At(stack'[1], 1).pid = a
      BY <1>0, <2>4, CloseOpens
    <3>2. UNCHANGED <<conn, id_obj, obj>>
      BY <2>4 DEF Close, reg, heap
    <3>3. H' = 2 /\ F(H)' = At(stack'[1], 2) /\ F(H - 1)' = At(stack'[1], 1)
      BY <3>1 DEF H, F
    <3> SUFFICES ASSUME OnlineAt(conn[a]) PROVE obj[id_obj[conn[a]]].agent = a
      BY <3>1, <3>2, <3>3 DEF CutNext, Drops, OnlineAt, StateOf
    <3>4. conn[a] \in Pids
      BY <1>0, <2>4 DEF IInv, TablesType
    <3>5. conn[a] \in Roles
      BY <1>0, <3>4, NotOnline DEF Pids
    <3> QED
      BY <1>r, <3>5 DEF Playing, OnlineAt
  <2>5. (\E a \in Agents : Close(a) /\ conn[a] # None) \/ (\E a \in Agents : ExitRequest(a)) \/ MessageOpens
    BY <1>0, <1>4, ServerOpens, ClientOpens DEF Message
  <2> QED
    BY <2>2, <2>3, <2>4, <2>5
<1> QED
  BY <1>1, <1>3, <1>4 DEF Next, Quiet, Message


(***************************************************************************)
(* The inductive invariant.                                                *)
(***************************************************************************)
SerialInv ==
    /\ Shape(stack[1]) /\ QueueLinks
    /\ HeldState /\ AgentIffOnline
    /\ Light /\ Cut /\ CutNext /\ Deleting
    /\ RegState /\ SavingReg /\ Playing /\ OnlineExact

LEMMA SerialInit ==
    ASSUME Serial, Init
    PROVE  SerialInv
<1>1. stack[1] = <<>> /\ H = 0 /\ queue = <<>>
  BY OneTask DEF Init, H
<1>2. Shape(stack[1]) /\ QueueLinks /\ HeldState /\ Light /\ Cut /\ CutNext /\ Deleting
  BY <1>1 DEF Shape, TopOnly, Unnested, FromLinks, HeldTop, QueueLinks, HeldState, Light, Cut,
              CutNext, Deleting
<1>3. AgentIffOnline
  BY DEF Init, AgentIffOnline, Online
<1>4. \A p \in Pids : id_obj[p] = None
  BY DEF Init
<1>5. RegState /\ SavingReg
  BY <1>4 DEF Init, RegState, SavingReg, Pids
<1>6. Playing
  BY Names DEF Init, Playing, Pids
<1>7. OnlineExact
  <2>1. {p \in Roles : OnlineAt(p)} = {}
    BY <1>4 DEF OnlineAt, Pids
  <2>2. cnt["online"] = 0
    BY DEF Init, States
  <2> QED
    BY <2>1, <2>2, FS_EmptySet DEF OnlineExact
<1> QED
  BY <1>2, <1>3, <1>5, <1>6, <1>7 DEF SerialInv

LEMMA HeldKept ==
    ASSUME FreshInv, IInv', Serial, Shape(stack[1]), HeldState, [Next]_vars
    PROVE  HeldState'
<1>1. ASSUME NEW t \in Tasks, Step(t) PROVE HeldState'
  BY <1>1, HeldStep
<1>2. CASE Message
  BY <1>2, HeldMessage DEF FreshInv
<1>3. CASE UNCHANGED vars
  BY <1>3 DEF vars, heap, HeldState, H, F, Online, Holding
<1> QED
  BY <1>1, <1>2, <1>3 DEF Next, Quiet, Message

LEMMA CutKept ==
    ASSUME FreshInv, FreshInv', Serial, Shape(stack[1]), CutNext, Light, Cut, [Next]_vars
    PROVE  Light' /\ Cut'
<1>0. IInv /\ IInv' /\ KnownKept
  BY ObjectsKept DEF FreshInv
<1>1. ASSUME NEW t \in Tasks, Deletes(t) PROVE Light' /\ Cut'
  <2>1. PICK p, o : DelFrames(p, o)
    BY <1>0, <1>1, DelStacks
  <2> QED
    BY <1>0, <2>1, LightDeletes, CutDeletes
<1>2. ASSUME NEW t \in Tasks, Step(t), ~Deletes(t) PROVE Light' /\ Cut'
  <2>1. PICK m \in Nat : Carries(stack[1], stack'[1], m)
    BY <1>0, <1>2, StepCarries
  <2> QED
    BY <1>0, <2>1, LightCarried, CutCarried
<1>3. CASE Message
  BY <1>3, LightMessage
<1>4. CASE UNCHANGED vars
  BY <1>4 DEF vars, heap, Light, Cut, H, F, Online, Drops
<1> QED
  BY <1>1, <1>2, <1>3, <1>4 DEF Next, Quiet, Message

LEMMA SerialStep ==
    ASSUME FreshInv, FreshInv', LinkInv, Serial, SerialInv, [Next]_vars
    PROVE  SerialInv'
<1>1. IInv /\ IInv'
  BY DEF FreshInv
<1>2. Shape(stack'[1]) /\ QueueLinks' /\ HeldState' /\ AgentIffOnline'
  BY <1>1, ShapeKept, QueueLinksKept, HeldKept, AgentKept DEF SerialInv
<1>3. Light' /\ Cut' /\ CutNext' /\ Deleting'
  BY CutKept, CutNextKept, DeletingKept DEF SerialInv
<1>4. RegState' /\ SavingReg' /\ Playing' /\ OnlineExact'
  BY RegStateKept, SavingKept, PlayingKept, OnlineKept DEF SerialInv
<1>5. Shape(stack[1])'
  BY <1>2 DEF Shape, TopOnly, Unnested, FromLinks, HeldTop
<1> QED
  BY <1>2, <1>3, <1>4, <1>5 DEF SerialInv

LEMMA SerialAlways ==
    ASSUME Serial
    PROVE  Spec => [](FreshInv /\ LinkInv /\ SerialInv)
<1>1. Init => FreshInv /\ LinkInv /\ SerialInv
  BY FreshInit, LinkInit, SerialInit
<1>2. FreshInv /\ LinkInv /\ SerialInv /\ [Next]_vars => (FreshInv /\ LinkInv /\ SerialInv)'
  BY FreshStep, LinkStep, SerialStep
<1> QED
  BY <1>1, <1>2, PTL DEF Spec

(***************************************************************************)
(* What steps do to data.                                                  *)
(***************************************************************************)
\* The object that a logoff will write is registered.
Leaving == H > 0 /\ F(H).pc = "exitgame" => id_obj[obj[F(H).src].pid] = F(H).src

Steady == /\ UNCHANGED <<db, clock>>
          /\ \A o \in Players : obj'[o].data = obj[o].data /\ obj'[o].pid = obj[o].pid

\* A registered object is saved, while no object waits to be registered.
Writes(o) ==
    /\ o \in Players /\ obj[o].pid \in Roles /\ id_obj[obj[o].pid] = o
    /\ db' = [db EXCEPT ![obj[o].pid] = obj[o].data]
    /\ \A k \in 1..H : ~Holding(F(k))
    /\ UNCHANGED <<obj, clock>>

\* A client changes its player, while no handler waits.
Plays(o) ==
    /\ o \in Players /\ Online(o) /\ obj[o].pid \in Roles /\ id_obj[obj[o].pid] = o
    /\ H = 0
    /\ clock' = clock + 1
    /\ obj' = [obj EXCEPT ![o].data = clock + 1]
    /\ UNCHANGED <<db, id_obj, stack>>

\* An object is loaded.
Makes(p) ==
    /\ nobj + 1 \in Players /\ p \in Roles
    /\ obj'[nobj + 1].pid = p /\ obj'[nobj + 1].data = db[p]
    /\ \A o \in Players : o # nobj + 1 => obj'[o] = obj[o]
    /\ UNCHANGED <<db, clock>>

LEMMA PlayerMade ==
    ASSUME IInv, Serial, NEW t \in Tasks, NewPlayer(t)
    PROVE  \E p \in Roles : Makes(p)
<1>o. obj \in [Players -> [pid : Roles \cup {None}, agent : Agents \cup {None},
                           state : {"new", "online", "offline", "kuafu"}, data : Nat]]
  BY DEF IInv, HeapType
<1>1. stack[t][1] = F(H) /\ F(H).pc = "newplayer" /\ GoodFrame(F(H), nobj)
  BY Running DEF NewPlayer
<1>2. F(H).pid \in Roles
  BY <1>1 DEF GoodFrame, Makers
<1>3. nobj + 1 \in Players
  BY BoundsAssumption DEF NewPlayer, NewObject, IInv, StackInv, Players
<1>4. /\ obj' = [obj EXCEPT ![nobj + 1] = [pid |-> F(H).pid, agent |-> None, state |-> "new",
                                           data |-> db[F(H).pid]]]
      /\ UNCHANGED <<db, clock>>
  BY <1>1 DEF NewPlayer, NewObject, world
<1>5. /\ obj'[nobj + 1].pid = F(H).pid /\ obj'[nobj + 1].data = db[F(H).pid]
      /\ \A o \in Players : o # nobj + 1 => obj'[o] = obj[o]
  BY <1>o, <1>3, <1>4
<1> QED
  BY <1>2, <1>3, <1>4, <1>5 DEF Makes

LEMMA DataMoves ==
    ASSUME FreshInv, Serial, Shape(stack[1]), SavingReg, Leaving, [Next]_vars
    PROVE  Steady \/ (\E o \in Players : Writes(o) \/ Plays(o)) \/ \E p \in Roles : Makes(p)
<1>0. IInv
  BY DEF FreshInv
<1>o. obj \in [Players -> [pid : Roles \cup {None}, agent : Agents \cup {None},
                           state : {"new", "online", "offline", "kuafu"}, data : Nat]]
  BY <1>0 DEF IInv, HeapType
<1>1. ASSUME UNCHANGED <<obj, db, clock>> PROVE Steady
  BY <1>1 DEF Steady
<1>2. ASSUME NEW t \in Tasks, Step(t), ~DelOffline(t), ~ExitGame(t), ~NewPlayer(t),
             ~NetTransfer(t), ~AddOffline(t), ~AddKuafu(t)
      PROVE  UNCHANGED <<obj, db, clock>>
  <2>1. CASE DelNothing(t) \/ DelLink(t) \/ DelOnline(t) \/ DelKuafu(t)
             \/ Deleted(t) \/ Saved(t) \/ Pop(t) \/ Unload(t)
    BY <2>1 DEF DelNothing, DelLink, DelOnline, DelKuafu, Deleted, Saved, Pop, Unload, heap, world
  <2>2. CASE SetHome(t) \/ AddPlayer(t) \/ AddRepeat(t) \/ CallFails(t) \/ OnLogin(t)
             \/ Kick(t) \/ ProtoKick(t) \/ Closed(t) \/ GoSrv(t) \/ ReenterGame(t)
    BY <2>2 DEF SetHome, AddPlayer, AddRepeat, CallFails, OnLogin, Kick, ProtoKick, Closed, GoSrv,
                ReenterGame, heap, world
  <2> QED
    BY <1>2, <2>1, <2>2 DEF Step
<1>3. ASSUME NEW t \in Tasks, NetTransfer(t) \/ AddOffline(t) \/ AddKuafu(t) PROVE Steady
  <2>1. UNCHANGED <<db, clock>>
    BY <1>3 DEF NetTransfer, AddOffline, AddKuafu, world
  <2>2. ASSUME NEW x, NEW b, obj' = [obj EXCEPT ![x].agent = b, ![x].state = "online"]
        PROVE  \A o \in Players : obj'[o].data = obj[o].data /\ obj'[o].pid = obj[o].pid
    BY <1>o, <2>2
  <2>3. ASSUME NEW x, NEW s, obj' = [obj EXCEPT ![x].state = s]
        PROVE  \A o \in Players : obj'[o].data = obj[o].data /\ obj'[o].pid = obj[o].pid
    BY <1>o, <2>3
  <2>4. CASE NetTransfer(t)
    BY <2>1, <2>2, <2>4 DEF NetTransfer, Steady
  <2>5. CASE AddOffline(t) \/ AddKuafu(t)
    BY <2>1, <2>3, <2>5 DEF AddOffline, AddKuafu, Steady
  <2> QED
    BY <1>3, <2>4, <2>5
\* Below a call that saves, nothing is held.
<1>h. ASSUME H \in Nat, F(H).pc \notin Takers, ~LinkDelete(F(H))
      PROVE  \A k \in 1..H : ~Holding(F(k))
  BY <1>h DEF Shape, HeldTop, F, H, Holding
<1>4. ASSUME NEW t \in Tasks, DelOffline(t) PROVE \E o \in Players : Writes(o)
  <2>1. DelFrames(F(H).pid, id_obj[F(H).pid])
    BY <1>0, <1>4, DelStacks DEF Deletes
  <2>2. stack[t][1] = F(H) /\ H \in Nat
    BY <1>0, <1>4, Running DEF DelOffline
  <2>3. PICK o \in Players : o = id_obj[F(H).pid]
    BY <2>1 DEF DelFrames
  <2>4. /\ obj[o].pid \in Roles /\ id_obj[obj[o].pid] = o
        /\ F(H).pc \notin Takers /\ ~LinkDelete(F(H)) /\ UNCHANGED obj
    BY <2>1, <2>3, Names DEF DelFrames, Takers, LinkDelete
  <2>5. db' = [db EXCEPT ![obj[o].pid] = obj[o].data] /\ UNCHANGED clock
    BY <1>4, <2>2, <2>3 DEF DelOffline, Save
  <2> QED
    BY <1>h, <2>2, <2>4, <2>5 DEF Writes
<1>5. ASSUME NEW t \in Tasks, ExitGame(t) PROVE \E o \in Players : Writes(o)
  <2>1. /\ stack[t][1] = F(H) /\ H \in Nat /\ H > 0 /\ F(H).pc = "exitgame"
        /\ GoodFrame(F(H), nobj)
    BY <1>0, <1>5, Running DEF ExitGame
  <2>2. PICK o \in Players : o = F(H).src
    BY <1>0, <2>1, Made DEF GoodFrame, IInv
  <2>3. o \in 1..nobj /\ id_obj[obj[o].pid] = o /\ F(H).pc \notin Takers /\ ~LinkDelete(F(H))
    BY <2>1, <2>2 DEF GoodFrame, Leaving, Takers, LinkDelete
  <2>4. obj[o].pid \in Roles
    BY <1>0, <2>3 DEF IInv, HeapType, ObjectsGood
  <2>5. db' = [db EXCEPT ![obj[o].pid] = obj[o].data] /\ UNCHANGED <<obj, clock>>
    BY <1>5, <2>1, <2>2 DEF ExitGame, Save, heap
  <2> QED
    BY <1>h, <2>1, <2>3, <2>4, <2>5 DEF Writes
<1>6. ASSUME NEW t \in Tasks, NewPlayer(t) PROVE \E p \in Roles : Makes(p)
  BY <1>0, <1>6, PlayerMade
<1>7. ASSUME NEW a \in Agents, Client(a), ~Play(a) PROVE UNCHANGED <<obj, db, clock>>
  BY <1>7 DEF Client, Start, Close, Login, ExitRequest, GoRequest, EnterQueued, EnterGame,
              EnterByToken, heap, world
<1>8. ASSUME NEW a \in Agents, Play(a) PROVE \E o \in Players : Plays(o)
  <2>1. PICK o \in Players : o = Requester(a)
    BY <1>8 DEF Play
  <2>2. o # None /\ o \notin Agents
    BY Names DEF Objs
  <2>3. o = id_obj[conn[a]] /\ conn[a] # None
    BY <2>1, <2>2 DEF Requester
  <2>4. conn[a] \in Pids
    BY <1>0, <2>3 DEF IInv, TablesType
  <2>5. conn[a] \in Roles /\ obj[o].pid = conn[a]
    BY <1>0, <2>2, <2>3, <2>4, RegisteredGood
  <2>6. Online(o)
    BY <1>8, <2>1, <2>2 DEF Play, PassLogin, Online
  <2>7. H = 0
    <3>1. stack[1] = <<>>
      BY <1>8, OneTask DEF Play
    <3> QED
      BY <3>1 DEF H
  <2> QED
    BY <1>8, <2>1, <2>3, <2>5, <2>6, <2>7 DEF Play, Plays, reg
<1>9. ASSUME Server, ~\E o \in Players : AutoSave(o) PROVE UNCHANGED <<obj, db, clock>>
  BY <1>9 DEF Server, SetGoSrv, LoadOffline, GmKick, GrowIdle, heap, world
<1>10. ASSUME NEW o \in Players, AutoSave(o) PROVE Steady \/ Writes(o)
  <2>1. CASE obj[o].state = "kuafu"
    BY <1>1, <1>10, <2>1 DEF AutoSave, heap
  <2>2. CASE obj[o].state # "kuafu"
    <3>1. o \in saving /\ UNCHANGED <<obj, clock>> /\ Save(o)
          /\ SpawnWaiting(<<Frame("saved", None, o, None)>>)
      BY <1>10, <2>2 DEF AutoSave, heap
    <3>2. obj[o].pid \in Roles /\ id_obj[obj[o].pid] = o
      BY <1>0, <3>1, SavingKnown DEF SavedKnown, SavingReg
    <3>3. H = 0
      <4>1. stack[1] = <<>>
        BY <1>0, <3>1, Begins
      <4> QED
        BY <4>1 DEF H
    <3> QED
      BY <3>1, <3>2, <3>3 DEF Writes, Save
  <2> QED
    BY <2>1, <2>2
<1>11. ASSUME UNCHANGED vars PROVE UNCHANGED <<obj, db, clock>>
  BY <1>11 DEF vars, heap, world
<1>12. ASSUME NEW t \in Tasks, Step(t)
       PROVE  Steady \/ (\E o \in Players : Writes(o)) \/ \E p \in Roles : Makes(p)
  BY <1>1, <1>2, <1>3, <1>4, <1>5, <1>6, <1>12
<1>13. ASSUME NEW a \in Agents, Client(a) PROVE Steady \/ \E o \in Players : Plays(o)
  BY <1>1, <1>7, <1>8, <1>13
<1>14. ASSUME Server PROVE Steady \/ \E o \in Players : Writes(o)
  BY <1>1, <1>9, <1>10, <1>14
<1> QED
  BY <1>1, <1>11, <1>12, <1>13, <1>14 DEF Next, Quiet

LEMMA LeavingKept ==
    ASSUME IInv, IInv', Serial, Shape(stack[1]), Leaving, [Next]_vars
    PROVE  Leaving'
<1> DEFINE x == At(stack'[1], H').src
<1> SUFFICES ASSUME H' > 0, At(stack'[1], H').pc = "exitgame"
             PROVE  id_obj'[obj'[x].pid] = x
  BY DEF Leaving, F
<1>h. H \in Nat /\ H' \in Nat
  <2>1. stack' \in [Tasks -> Seq(FrameType)]
    BY DEF IInv, StackInv
  <2> QED
    BY <2>1, OneTask, StackType, LenProperties DEF H
<1>1. ASSUME NEW t \in Tasks, Deletes(t) PROVE id_obj'[obj'[x].pid] = x
  <2>1. PICK p, o : DelFrames(p, o)
    BY <1>1, DelStacks
  <2>2. H' \in (H + 1)..H'
    BY <1>h, <2>1 DEF DelFrames
  <2>3. x = o
    BY <2>1, <2>2 DEF DelFrames
  <2>4. id_obj' = id_obj /\ obj' = obj /\ id_obj[obj[o].pid] = o
    BY <2>1 DEF DelFrames, reg
  <2> QED
    BY <2>3, <2>4
<1>2. ASSUME NEW t \in Tasks, Step(t), ~Deletes(t) PROVE FALSE
  <2>1. PICK m \in Nat : Carries(stack[1], stack'[1], m)
    BY <1>2, StepCarries
  <2>2. m <= H' /\ m <= H
    BY <2>1, <1>h DEF Carries, H
  <2>3. H' \in 1..m
    <3>1. ~(H' \in (m + 1)..Len(stack'[1]))
      BY <2>1 DEF Carries
    <3>2. H' = Len(stack'[1])
      BY DEF H
    <3> QED
      BY <1>h, <2>2, <3>1, <3>2
  <2>4. F(H').pc = "exitgame" /\ H' \in 1..H
    BY <1>h, <2>1, <2>2, <2>3 DEF Carries, SameCall, F
  <2>5. H' = H
    <3>1. PICK k \in 1..H : k = H'
      BY <2>4
    <3>2. k = H
      BY <2>4, <3>1 DEF Shape, TopOnly, F, H
    <3> QED
      BY <3>1, <3>2
  <2>6. stack[1] # <<>>
    BY <2>4, <1>h DEF H
  <2>7. m < H
    BY <2>1, <2>6 DEF Carries, H
  <2> QED
    BY <1>h, <2>3, <2>5, <2>7
<1>3. CASE Message
  <2>1. CASE stack'[1] = stack[1]
    <3>1. H > 0 /\ F(H).pc = "exitgame" /\ x = F(H).src
      BY <2>1 DEF F, H
    <3>2. GoodFrame(F(H), nobj)
      <4>1. 1 \in Tasks /\ stack[1] # <<>> /\ stack[1][1] = F(H)
        BY <1>h, <3>1, OneTask, StackType DEF F, H
      <4> QED
        BY <4>1, TopFrame DEF IInv
    <3>3. PICK o \in 1..nobj : o = x
      BY <3>1, <3>2 DEF GoodFrame
    <3>4. o \in Players /\ obj[o].pid \in Roles
      BY <3>3, Made DEF IInv, HeapType, ObjectsGood
    <3>5. obj'[o].pid = obj[o].pid /\ id_obj'[obj[o].pid] = id_obj[obj[o].pid]
      BY <1>3, <3>4, MessageObjects, MessageTables
    <3> QED
      BY <3>1, <3>3, <3>5 DEF Leaving
  <2>2. CASE ~(stack'[1] = stack[1])
    <3>1. ~Rests(At(stack'[1], Len(stack'[1])))
      BY DEF Rests, H
    <3>2. PICK a \in Agents : (Close(a) /\ conn[a] # None) \/ ExitRequest(a)
      <4>1. ~Server
        BY <2>2, <3>1, ServerOpens DEF MessageOpens
      <4> QED
        BY <1>3, <2>2, <3>1, <4>1, ClientOpens DEF MessageOpens, Message
    <3>3. ~(Close(a) /\ conn[a] # None)
      BY CloseOpens DEF H
    <3>4. ExitRequest(a) /\ x = Requester(a) /\ x \in Players /\ UNCHANGED <<obj, id_obj>>
      BY <3>2, <3>3, ExitOpens DEF ExitRequest, H, heap, reg
    <3>5. x # None /\ x \notin Agents
      BY <3>4, Names DEF Objs
    <3>6. x = id_obj[conn[a]] /\ conn[a] \in Pids
      BY <3>4, <3>5 DEF Requester, IInv, TablesType
    <3>7. obj[x].pid = conn[a]
      BY <3>4, <3>5, <3>6, RegisteredGood
    <3> QED
      BY <3>4, <3>6, <3>7
  <2> QED
    BY <2>1, <2>2
<1>4. CASE UNCHANGED vars
  BY <1>4 DEF vars, heap, reg, Leaving, H, F
<1> QED
  BY <1>1, <1>2, <1>3, <1>4 DEF Next, Quiet, Message

\* Only newplayer gives a frame an object.
LEMMA HoldsOn ==
    ASSUME IInv, IInv', Serial, [Next]_vars, ~\E t \in Tasks : NewPlayer(t)
    PROVE  HoldsKept
<1>1. CASE UNCHANGED stack
  BY <1>1, SameCalm DEF Calm
<1>2. ASSUME NEW t \in Tasks, Step(t) PROVE HoldsKept
  <2>1. CASE AddPlayer(t) \/ AddOffline(t) \/ AddKuafu(t)
    BY <2>1, AddCalm DEF Calm
  <2>2. CASE DelOnline(t) \/ DelOffline(t) \/ DelKuafu(t)
    BY <2>2, DelWaits
  <2>3. CASE Kick(t)
    BY <2>3, KickWaits
  <2>4. CASE SetHome(t) \/ NetTransfer(t)
    BY <2>4, TransferCalm DEF Calm
  <2>5. CASE \/ DelNothing(t) \/ DelLink(t) \/ Deleted(t) \/ OnLogin(t)
             \/ ProtoKick(t) \/ Closed(t) \/ AddRepeat(t) \/ CallFails(t)
             \/ ExitGame(t) \/ Saved(t) \/ GoSrv(t) \/ ReenterGame(t)
             \/ Pop(t) \/ Unload(t)
    BY <2>5, CalmStep DEF Calm
  <2> QED
    BY <1>2, <2>1, <2>2, <2>3, <2>4, <2>5 DEF Step
<1>3. ASSUME NEW a \in Agents, Client(a) PROVE HoldsKept
  <2>1. CASE Close(a) /\ conn[a] # None
    BY <2>1, CloseWaits
  <2>2. CASE Close(a) /\ conn[a] = None
    BY <1>1, <2>2 DEF Close
  <2>3. CASE ~Close(a)
    BY <1>3, <2>3, CalmClient DEF Calm
  <2> QED
    BY <2>1, <2>2, <2>3
<1>4. CASE Server
  BY <1>4, CalmServer DEF Calm
<1>5. CASE UNCHANGED vars
  BY <1>1, <1>5 DEF vars
<1> QED
  BY <1>2, <1>3, <1>4, <1>5 DEF Next, Quiet

\* An object that waits to be registered has the data of the database.
HeldData == \A k \in 1..H : Holding(F(k)) => obj[F(k).dst].data = db[obj[F(k).dst].pid]

LEMMA HeldDataKept ==
    ASSUME FreshInv, IInv', Serial, Shape(stack[1]), SavingReg, Leaving, HeldData, [Next]_vars
    PROVE  HeldData'
<1>0. IInv /\ 1 \in Tasks
  BY OneTask DEF FreshInv
<1> SUFFICES ASSUME NEW k \in 1..H', Holding(At(stack'[1], k))
             PROVE  obj'[At(stack'[1], k).dst].data = db'[obj'[At(stack'[1], k).dst].pid]
  BY DEF HeldData, F
<1>1. PICK o \in Players : o = At(stack'[1], k).dst
  BY HeldFrameNext DEF Holding
<1>2. Holds(1, k, o)' /\ o # None
  BY <1>1, HoldsFrame DEF Holding
<1>3. ASSUME Holds(1, k, o) PROVE obj'[o].data = db'[obj'[o].pid]
  <2>1. k \in 1..H /\ Holding(F(k)) /\ F(k).dst = o
    BY <1>2, <1>3, HoldsFrame DEF Holding
  <2>2. obj[o].data = db[obj[o].pid]
    BY <2>1 DEF HeldData
  <2>3. o # nobj + 1
    <3>1. o \in 1..nobj /\ nobj \in Nat
      BY <1>0, <1>2, <2>1, HeldFrame DEF IInv, StackInv
    <3> QED
      BY <3>1
  <2>4. H # 0 /\ ~\E x \in Players : Writes(x)
    <3>1. H # 0
      BY <2>1
    <3> QED
      BY <2>1, <3>1 DEF Writes
  <2>5. Steady \/ \E p \in Roles : Makes(p)
    BY <2>4, DataMoves DEF Plays
  <2> QED
    BY <2>2, <2>3, <2>5 DEF Steady, Makes
<1>4. ASSUME NEW t \in Tasks, NewPlayer(t), ~Holds(1, k, o)
      PROVE  obj'[o].data = db'[obj'[o].pid]
  <2>1. PICK p \in Roles : Makes(p)
    BY <1>0, <1>4, PlayerMade
  <2>2. o = nobj + 1
    <3>1. k \in Nat
      OBVIOUS
    <3> QED
      BY <1>0, <1>2, <1>4, <3>1, NewHeld
  <2> QED
    BY <2>1, <2>2 DEF Makes
<1>5. ASSUME ~\E t \in Tasks : NewPlayer(t) PROVE Holds(1, k, o)
  <2>1. k \in Nat
    OBVIOUS
  <2> QED
    BY <1>0, <1>2, <1>5, <2>1, HoldsOn DEF HoldsKept
<1> QED
  BY <1>1, <1>3, <1>4, <1>5

\* The data of an online object that is being deleted is saved, once its logoff is over.
DoomedData == \A k \in 1..H : F(k).pc = "deleted" /\ Online(F(k).src) =>
    \/ db[F(k).pid] = obj[F(k).src].data
    \/ F(H).pc = "exitgame" /\ F(H).src = F(k).src

\* A registered object is never behind the database, and ahead of it only while online.
RegData == \A p \in Roles : id_obj[p] # None =>
    /\ obj[id_obj[p]].data >= db[p]
    /\ ~Online(id_obj[p]) => obj[id_obj[p]].data = db[p]

ClockAhead == /\ \A o \in Players : obj[o].data <= clock
              /\ \A p \in Roles : db[p] <= clock

DataInv == HeldData /\ Leaving /\ DoomedData /\ RegData /\ ClockAhead

\* Saved data stays saved, unless its object plays.
LEMMA SavedStays ==
    ASSUME FreshInv, Serial, Shape(stack[1]), SavingReg, Leaving, [Next]_vars,
           NEW p \in Roles, NEW x \in 1..nobj, id_obj[p] = x, obj[x].pid = p,
           db[p] = obj[x].data
    PROVE  db'[p] = obj'[x].data \/ Plays(x)
<1>1. x \in Players /\ x # nobj + 1 /\ db \in [Roles -> Nat]
  BY Made DEF FreshInv, IInv, WorldType
<1>2. CASE Steady
  BY <1>1, <1>2 DEF Steady
<1>3. ASSUME NEW y \in Players, Writes(y) PROVE db'[p] = obj'[x].data
  BY <1>1, <1>3 DEF Writes
<1>4. ASSUME NEW y \in Players, Plays(y), y # x PROVE db'[p] = obj'[x].data
  <2>1. obj'[x] = obj[x]
    BY <1>1, <1>4 DEF Plays, FreshInv, IInv, HeapType
  <2> QED
    BY <1>4, <2>1 DEF Plays
<1>5. ASSUME NEW q \in Roles, Makes(q) PROVE db'[p] = obj'[x].data
  BY <1>1, <1>5 DEF Makes
<1> QED
  BY <1>2, <1>3, <1>4, <1>5, DataMoves

LEMMA StepExit ==
    ASSUME IInv, Serial, NEW t \in Tasks, Step(t), F(H).pc = "exitgame"
    PROVE  ExitGame(t)
<1>1. stack[t] # <<>> /\ t = 1
  BY OneTask
     DEF Step, DelNothing, DelLink, DelOnline, DelOffline, DelKuafu, Deleted, ExitGame, Saved,
         Pop, Unload, NewPlayer, SetHome, NetTransfer, AddPlayer, AddOffline, AddKuafu,
         AddRepeat, CallFails, OnLogin, Kick, ProtoKick, Closed, GoSrv, ReenterGame, Runs
<1>2. stack[t][1].pc = "exitgame"
  BY <1>1, StackType DEF F, H
<1> QED
  BY <1>2
     DEF Step, DelNothing, DelLink, DelOnline, DelOffline, DelKuafu, Deleted, ExitGame, Saved,
         Pop, Unload, NewPlayer, SetHome, NetTransfer, AddPlayer, AddOffline, AddKuafu,
         AddRepeat, CallFails, OnLogin, Kick, ProtoKick, Closed, GoSrv, ReenterGame, Runs

LEMMA DoomedDataKept ==
    ASSUME FreshInv, FreshInv', LinkInv, Serial, SerialInv, Leaving, DoomedData, [Next]_vars
    PROVE  DoomedData'
<1>0. IInv /\ IInv' /\ KnownKept /\ Shape(stack[1]) /\ SavingReg /\ Deleting
  BY ObjectsKept DEF FreshInv, SerialInv
<1>h. H \in Nat /\ H' \in Nat
  <2>1. stack' \in [Tasks -> Seq(FrameType)]
    BY <1>0 DEF IInv, StackInv
  <2> QED
    BY <1>0, <2>1, OneTask, StackType, LenProperties DEF H
<1> SUFFICES ASSUME NEW k \in 1..H', At(stack'[1], k).pc = "deleted",
                    obj'[At(stack'[1], k).src].state = "online"
             PROVE  \/ db'[At(stack'[1], k).pid] = obj'[At(stack'[1], k).src].data
                    \/ /\ At(stack'[1], H').pc = "exitgame"
                       /\ At(stack'[1], H').src = At(stack'[1], k).src
  BY DEF DoomedData, F, Online
<1>1. ASSUME k \in 1..H, F(k).pc = "deleted", At(stack'[1], k).src = F(k).src,
             At(stack'[1], k).pid = F(k).pid, db[F(k).pid] = obj[F(k).src].data
      PROVE  db'[At(stack'[1], k).pid] = obj'[At(stack'[1], k).src].data
  <2>1. PICK x \in 1..nobj, p \in Roles : x = F(k).src /\ p = F(k).pid
    BY <1>0, <1>1, DoomedFrame
  <2>2. x \in Players /\ Known(x)
    BY <1>0, <1>1, <2>1, DoomedFrame
  <2>3. Online(x)
    <3>1. obj'[x].state = "online"
      BY <1>1, <2>1
    <3> QED
      BY <1>0, <2>2, <3>1 DEF KnownKept, Online
  <2>4. id_obj[p] = x /\ obj[x].pid = p
    BY <1>0, <1>1, <2>1, <2>3 DEF Deleting
  <2>5. ~Plays(x)
    BY <1>h, <1>1 DEF Plays
  <2>6. db'[p] = obj'[x].data
    BY <1>0, <1>1, <2>1, <2>4, <2>5, SavedStays
  <2> QED
    BY <1>1, <2>1, <2>6
<1>2. ASSUME NEW t \in Tasks, Deletes(t)
      PROVE  \/ db'[At(stack'[1], k).pid] = obj'[At(stack'[1], k).src].data
             \/ /\ At(stack'[1], H').pc = "exitgame"
                /\ At(stack'[1], H').src = At(stack'[1], k).src
  <2>1. PICK p, o : DelFrames(p, o)
    BY <1>0, <1>2, DelStacks
  <2>2. CASE k \in (H + 1)..H'
    BY <2>1, <2>2 DEF DelFrames
  <2>3. CASE k = H
    <3>1. At(stack'[1], k).src = o /\ obj' = obj
      BY <2>1, <2>3 DEF DelFrames
    <3>2. Online(o)
      BY <3>1 DEF Online
    <3>3. H < H' /\ At(stack'[1], H').pc = "exitgame"
      BY <2>1, <3>2 DEF DelFrames
    <3>4. H' \in (H + 1)..H'
      BY <1>h, <3>3
    <3>5. At(stack'[1], H').src = o
      BY <2>1, <3>3, <3>4 DEF DelFrames
    <3> QED
      BY <3>1, <3>3, <3>5
  <2>4. CASE k \in 1..(H - 1)
    <3>1. k \in 1..H /\ At(stack'[1], k) = F(k) /\ F(H).pc = "delobject" /\ obj' = obj
      BY <1>h, <2>1, <2>4 DEF DelFrames
    <3>2. F(k).pc = "deleted" /\ Online(F(k).src)
      BY <3>1 DEF Online
    <3>3. db[F(k).pid] = obj[F(k).src].data
      BY <3>1, <3>2 DEF DoomedData
    <3> QED
      BY <1>1, <3>1, <3>2, <3>3
  <2>5. k \in 1..(H - 1) \/ k = H \/ k \in (H + 1)..H'
    BY <1>h
  <2> QED
    BY <2>2, <2>3, <2>4, <2>5
<1>3. ASSUME ~\E t \in Tasks : Deletes(t)
      PROVE  \/ db'[At(stack'[1], k).pid] = obj'[At(stack'[1], k).src].data
             \/ /\ At(stack'[1], H').pc = "exitgame"
                /\ At(stack'[1], H').src = At(stack'[1], k).src
  <2>1. /\ k \in 1..H /\ F(k).pc = "deleted"
        /\ At(stack'[1], k).src = F(k).src /\ At(stack'[1], k).pid = F(k).pid
    BY <1>0, <1>3, DeletionsOn DEF OldDeletions
  <2>2. PICK x \in 1..nobj : x = F(k).src
    BY <1>0, <2>1, DoomedFrame
  <2>3. x \in Players /\ Known(x)
    BY <1>0, <2>1, <2>2, DoomedFrame
  <2>4. Online(x)
    <3>1. obj'[x].state = "online"
      BY <2>1, <2>2
    <3> QED
      BY <1>0, <2>3, <3>1 DEF KnownKept, Online
  <2>5. CASE db[F(k).pid] = obj[F(k).src].data
    BY <1>1, <2>1, <2>5
  <2>6. CASE F(H).pc = "exitgame" /\ F(H).src = x
    <3>1. ASSUME NEW t \in Tasks, Step(t)
          PROVE  db'[At(stack'[1], k).pid] = obj'[At(stack'[1], k).src].data
      <4>1. ExitGame(t)
        BY <1>0, <2>6, <3>1, StepExit
      <4>2. stack[t][1] = F(H)
        BY <1>0, <4>1, Running DEF ExitGame
      <4>3. db' = [db EXCEPT ![obj[x].pid] = obj[x].data] /\ obj' = obj
        BY <2>6, <4>1, <4>2 DEF ExitGame, Save, heap
      <4>4. obj[x].pid = F(k).pid /\ F(k).pid \in Roles
        BY <1>0, <2>1, <2>2, DoomedFrame DEF Deleting
      <4>5. db \in [Roles -> Nat]
        BY <1>0 DEF IInv, WorldType
      <4> QED
        BY <2>1, <2>2, <4>3, <4>4, <4>5
    <3>2. CASE stack'[1] = stack[1]
      BY <2>1, <2>2, <2>6, <3>2 DEF F, H
    <3>3. CASE Message
      <4>1. stack[1] # <<>>
        BY <2>1, <1>h DEF H
      <4> QED
        BY <1>0, <3>2, <3>3, <4>1, MessageStack
    <3>4. CASE UNCHANGED vars
      BY <3>2, <3>4 DEF vars
    <3> QED
      BY <3>1, <3>3, <3>4 DEF Next, Quiet, Message
  <2> QED
    BY <2>1, <2>2, <2>4, <2>5, <2>6 DEF DoomedData
<1> QED
  BY <1>2, <1>3

LEMMA TakenData ==
    ASSUME HeldData, NEW p \in Roles, NEW o \in Players, NEW s, Takes(p, o, s)
    PROVE  db[p] = obj[o].data
<1>1. H \in 1..H /\ Holding(F(H)) /\ F(H).dst = o /\ obj[o].pid = p
  BY Names DEF Takes, Holding, Objs
<1> QED
  BY <1>1 DEF HeldData

\* A role that keeps its object keeps its place above the database.
LEMMA RegDataStays ==
    ASSUME FreshInv, FreshInv', Serial, Shape(stack[1]), SavingReg, Leaving, RegData, ClockAhead,
           [Next]_vars, NEW p \in Roles, NEW x \in Players, id_obj[p] = x
    PROVE  obj'[x].data >= db'[p] /\ (obj'[x].state # "online" => obj'[x].data = db'[p])
<1>0. IInv /\ IInv' /\ KnownKept
  BY ObjectsKept DEF FreshInv
<1>n. x # None
  BY Names DEF Objs
<1>1. x \in 1..nobj /\ obj[x].pid = p /\ Known(x)
  BY <1>0, <1>n, RegisteredPlayer
<1>2. x # nobj + 1 /\ obj'[x].state = obj[x].state
  <2>1. nobj \in Nat
    BY <1>0 DEF IInv, StackInv
  <2> QED
    BY <1>0, <1>1, <2>1 DEF KnownKept
<1>3. obj[x].data >= db[p] /\ (obj[x].state # "online" => obj[x].data = db[p])
  BY <1>n DEF RegData, Online
<1>4. db \in [Roles -> Nat] /\ clock \in Nat /\ obj[x].data \in Nat
      /\ obj \in [Players -> [pid : Roles \cup {None}, agent : Agents \cup {None},
                              state : {"new", "online", "offline", "kuafu"}, data : Nat]]
  BY <1>0 DEF IInv, WorldType, HeapType
<1>5. CASE Steady
  BY <1>2, <1>3, <1>5 DEF Steady
<1>6. ASSUME NEW y \in Players, Writes(y)
      PROVE  obj'[x].data >= db'[p] /\ (obj'[x].state # "online" => obj'[x].data = db'[p])
  <2>1. CASE y = x
    BY <1>1, <1>4, <1>6, <2>1 DEF Writes
  <2>2. CASE y # x
    <3>1. obj[y].pid # p
      BY <1>6, <2>2 DEF Writes
    <3> QED
      BY <1>3, <1>4, <1>6, <3>1 DEF Writes
  <2> QED
    BY <2>1, <2>2
<1>7. ASSUME NEW y \in Players, Plays(y)
      PROVE  obj'[x].data >= db'[p] /\ (obj'[x].state # "online" => obj'[x].data = db'[p])
  <2>1. CASE y = x
    <3>1. obj'[x].data = clock + 1 /\ obj'[x].state = "online" /\ db'[p] = db[p]
      BY <1>2, <1>4, <1>7, <2>1 DEF Plays, Online
    <3>2. db[p] <= clock
      BY DEF ClockAhead
    <3> QED
      BY <1>4, <3>1, <3>2
  <2>2. CASE y # x
    <3>1. obj'[x] = obj[x] /\ db' = db
      BY <1>4, <1>7, <2>2 DEF Plays
    <3> QED
      BY <1>3, <3>1
  <2> QED
    BY <2>1, <2>2
<1>8. ASSUME NEW q \in Roles, Makes(q)
      PROVE  obj'[x].data >= db'[p] /\ (obj'[x].state # "online" => obj'[x].data = db'[p])
  BY <1>2, <1>3, <1>8 DEF Makes
<1> QED
  BY <1>0, <1>5, <1>6, <1>7, <1>8, DataMoves DEF Plays

LEMMA RegDataKept ==
    ASSUME FreshInv, FreshInv', LinkInv, Serial, SerialInv, DataInv, [Next]_vars
    PROVE  RegData'
<1>0. IInv /\ IInv' /\ Shape(stack[1]) /\ SavingReg /\ HeldState
  BY DEF FreshInv, SerialInv
<1>d. Leaving /\ RegData /\ ClockAhead /\ HeldData
  BY DEF DataInv
<1>r. id_obj \in [Pids -> Objs \cup {None}] /\ Roles \subseteq Pids
  BY <1>0 DEF IInv, RegType, Pids
<1> SUFFICES ASSUME NEW p \in Roles, id_obj'[p] # None
             PROVE  /\ obj'[id_obj'[p]].data >= db'[p]
                    /\ obj'[id_obj'[p]].state # "online" => obj'[id_obj'[p]].data = db'[p]
  BY DEF RegData, Online
<1>s. PICK x \in Players : x = id_obj'[p]
  <2>1. id_obj'[p] \in Agents \cup 1..nobj' /\ (id_obj'[p] \in Agents => id_obj'[p] = p)
        /\ nobj' <= MaxObj /\ nobj' \in Nat
    BY <1>0, <1>r DEF IInv, RegGood, HeapType, StackInv, PidOf
  <2>2. p \notin Agents
    BY Names
  <2> QED
    BY <2>1, <2>2, BoundsAssumption DEF Players
<1>1. CASE id_obj[p] = x
  BY <1>0, <1>d, <1>s, <1>1, RegDataStays
<1>2. CASE ~Registers
  BY <1>1, <1>2, <1>s, StepStill DEF Still
<1>3. ASSUME NEW t \in Tasks, Deleted(t) PROVE id_obj[p] = x
  <2>1. Removes(F(H).pid, F(H).src)
    BY <1>0, <1>3, DeletedRemoves
  <2> QED
    BY <1>r, <1>s, <2>1 DEF Removes
<1>4. ASSUME NEW t \in Tasks, Adds(t), id_obj[p] # x
      PROVE  obj'[x].data >= db'[p] /\ (obj'[x].state # "online" => obj'[x].data = db'[p])
  <2>1. PICK q \in Roles, o \in Players, s \in {"online", "offline", "kuafu"} : Takes(q, o, s)
    BY <1>0, <1>4, AddsTake
  <2>2. id_obj' = [id_obj EXCEPT ![q] = o] /\ obj'[o].data = obj[o].data /\ db' = db
    BY <2>1 DEF Takes
  <2>3. x = o /\ p = q
    BY <1>r, <1>s, <1>4, <2>2
  <2>4. db[q] = obj[o].data
    BY <1>d, <2>1, TakenData
  <2>5. db \in [Roles -> Nat]
    BY <1>0 DEF IInv, WorldType
  <2> QED
    BY <2>2, <2>3, <2>4, <2>5
<1> QED
  BY <1>1, <1>2, <1>3, <1>4, <1>s DEF Registers

LEMMA ClockAheadKept ==
    ASSUME FreshInv, FreshInv', Serial, SerialInv, DataInv, [Next]_vars
    PROVE  ClockAhead'
<1>0. Shape(stack[1]) /\ SavingReg /\ Leaving
  BY DEF SerialInv, DataInv
<1>1. db \in [Roles -> Nat] /\ clock \in Nat
      /\ obj \in [Players -> [pid : Roles \cup {None}, agent : Agents \cup {None},
                              state : {"new", "online", "offline", "kuafu"}, data : Nat]]
  BY DEF FreshInv, IInv, WorldType, HeapType
<1>2. (\A o \in Players : obj[o].data <= clock) /\ \A p \in Roles : db[p] <= clock
  BY DEF DataInv, ClockAhead
<1> SUFFICES (\A o \in Players : obj'[o].data <= clock') /\ \A p \in Roles : db'[p] <= clock'
  BY DEF ClockAhead
<1>3. CASE Steady
  BY <1>2, <1>3 DEF Steady
<1>4. ASSUME NEW y \in Players, Writes(y)
      PROVE  (\A o \in Players : obj'[o].data <= clock') /\ \A p \in Roles : db'[p] <= clock'
  BY <1>1, <1>2, <1>4 DEF Writes
<1>5. ASSUME NEW y \in Players, Plays(y)
      PROVE  (\A o \in Players : obj'[o].data <= clock') /\ \A p \in Roles : db'[p] <= clock'
  <2>1. \A o \in Players : obj'[o].data = IF o = y THEN clock + 1 ELSE obj[o].data
    BY <1>1, <1>5 DEF Plays
  <2>2. \A o \in Players : obj[o].data \in Nat
    BY <1>1
  <2> QED
    BY <1>1, <1>2, <1>5, <2>1, <2>2 DEF Plays
<1>6. ASSUME NEW q \in Roles, Makes(q)
      PROVE  (\A o \in Players : obj'[o].data <= clock') /\ \A p \in Roles : db'[p] <= clock'
  BY <1>1, <1>2, <1>6 DEF Makes
<1> QED
  BY <1>0, <1>3, <1>4, <1>5, <1>6, DataMoves

LEMMA DataStep ==
    ASSUME FreshInv, FreshInv', LinkInv, Serial, SerialInv, DataInv, [Next]_vars
    PROVE  DataInv'
<1>1. IInv /\ IInv' /\ Shape(stack[1]) /\ SavingReg /\ HeldData /\ Leaving /\ DoomedData
  BY DEF FreshInv, SerialInv, DataInv
<1>2. HeldData' /\ Leaving'
  BY <1>1, HeldDataKept, LeavingKept
<1>3. DoomedData'
  BY <1>1, DoomedDataKept
<1>4. RegData' /\ ClockAhead'
  BY RegDataKept, ClockAheadKept
<1> QED
  BY <1>2, <1>3, <1>4 DEF DataInv

LEMMA DataInit ==
    ASSUME Serial, Init
    PROVE  DataInv
<1>1. H = 0
  BY OneTask DEF Init, H
<1>2. HeldData /\ Leaving /\ DoomedData
  BY <1>1 DEF HeldData, Leaving, DoomedData
<1>3. RegData /\ ClockAhead
  BY DEF Init, RegData, ClockAhead, Pids
<1> QED
  BY <1>2, <1>3 DEF DataInv

LEMMA DataAlways ==
    ASSUME Serial
    PROVE  Spec => []DataInv
<1>1. Init => DataInv
  BY DataInit
<1>2. FreshInv /\ FreshInv' /\ LinkInv /\ SerialInv /\ DataInv /\ [Next]_vars => DataInv'
  BY DataStep
<1> QED
  BY <1>1, <1>2, SerialAlways, PTL DEF Spec

(***************************************************************************)
(* What a role shows of a step: nothing, but the four that take, play and  *)
(* release it.                                                             *)
(***************************************************************************)
ShownKept(r) == Value(r)' = Value(r) /\ Holder(r)' = Holder(r)

\* A role that keeps its slot, in a step that is not play.
LEMMA ShownStays ==
    ASSUME FreshInv, FreshInv', Serial, SerialInv, DataInv, [Next]_vars,
           NEW r \in Roles, id_obj'[r] = id_obj[r], ~Plays(id_obj[r])
    PROVE  ShownKept(r)
<1>0. IInv /\ IInv' /\ KnownKept /\ Shape(stack[1]) /\ SavingReg /\ Leaving /\ None \notin Players
  BY ObjectsKept, Names DEF FreshInv, SerialInv, DataInv, Objs
<1>1. db \in [Roles -> Nat]
      /\ obj \in [Players -> [pid : Roles \cup {None}, agent : Agents \cup {None},
                              state : {"new", "online", "offline", "kuafu"}, data : Nat]]
  BY <1>0 DEF IInv, WorldType, HeapType
<1>2. CASE id_obj[r] = None
  <2>1. Holder(r) = None /\ Holder(r)' = None
    BY <1>2 DEF Holder, OnlineAt
  <2>2. db'[r] = db[r]
    <3>1. ASSUME NEW y \in Players, Writes(y) PROVE db'[r] = db[r]
      BY <1>0, <1>1, <1>2, <3>1 DEF Writes
    <3> QED
      BY <1>0, <3>1, DataMoves DEF Steady, Plays, Makes
  <2> QED
    BY <1>2, <2>1, <2>2 DEF ShownKept, Value
<1>3. CASE id_obj[r] # None
  <2>1. PICK x \in Players : x = id_obj[r]
    BY <1>0, <1>3, RegisteredPlayer
  <2>2. x \in 1..nobj /\ nobj \in Nat
    BY <1>0, <1>3, <2>1, RegisteredPlayer DEF IInv, StackInv
  <2>3. obj'[x].data = obj[x].data
    <3>1. ASSUME NEW y \in Players, Plays(y) PROVE obj'[x] = obj[x]
      <4>1. y # x
        BY <2>1, <3>1
      <4> QED
        BY <1>1, <3>1, <4>1 DEF Plays
    <3>2. x # nobj + 1
      BY <2>2
    <3> QED
      BY <1>0, <3>1, <3>2, DataMoves DEF Steady, Writes, Makes
  <2>4. obj'[x].agent = obj[x].agent /\ (OnlineAt(r)' <=> OnlineAt(r))
    BY <1>0, <1>3, <2>1, StillPlayers
  <2>5. Value(r) = obj[x].data /\ Value(r)' = obj'[x].data
    BY <1>3, <2>1 DEF Value
  <2>6. Holder(r)' = Holder(r)
    BY <2>1, <2>4 DEF Holder
  <2> QED
    BY <2>3, <2>5, <2>6 DEF ShownKept
<1> QED
  BY <1>2, <1>3

LEMMA ShownPlay ==
    ASSUME FreshInv, FreshInv', LinkInv, Serial, SerialInv, DataInv, [Next]_vars,
           NEW x \in Players, Plays(x)
    PROVE  \E p \in Roles : /\ Holder(p) # None /\ Holder(p)' = Holder(p)
                            /\ Value(p)' > Value(p)
                            /\ \A r \in Roles : r # p => ShownKept(r)
<1>0. IInv /\ IInv' /\ KnownKept /\ None \notin Players /\ AgentIffOnline
  BY ObjectsKept, Names DEF FreshInv, SerialInv, Objs
<1>1. PICK p \in Roles : p = obj[x].pid /\ id_obj[p] = x
  BY DEF Plays
<1>p. Online(x) /\ id_obj' = id_obj /\ x # None
  BY <1>0 DEF Plays
<1>2. clock \in Nat /\ obj \in [Players -> [pid : Roles \cup {None}, agent : Agents \cup {None},
                              state : {"new", "online", "offline", "kuafu"}, data : Nat]]
  BY <1>0 DEF IInv, WorldType, HeapType
<1>3. obj'[x].data = clock + 1 /\ obj[x].data <= clock /\ obj[x].data \in Nat
  BY <1>2 DEF Plays, DataInv, ClockAhead
<1>4. ASSUME NEW r \in Roles, r # p PROVE ShownKept(r)
  <2>1. ASSUME Plays(id_obj[r]) PROVE FALSE
    <3>1. PICK y \in Players : y = id_obj[r] /\ Plays(y)
      BY <2>1 DEF Plays
    <3>2. obj[y].pid = r
      BY <1>0, <3>1, RegisteredPlayer
    <3>3. obj'[y].data = obj[y].data
      BY <1>1, <1>2, <1>4, <3>2 DEF Plays
    <3>4. obj'[y].data = clock + 1 /\ obj[y].data <= clock
      BY <1>2, <3>1 DEF Plays, DataInv, ClockAhead
    <3> QED
      BY <1>2, <3>3, <3>4
  <2> QED
    BY <1>p, <2>1, ShownStays
<1>5. Value(p) = obj[x].data /\ Value(p)' = obj'[x].data
  BY <1>1, <1>p DEF Value
<1>6. /\ obj'[x].agent = obj[x].agent /\ (OnlineAt(p)' <=> OnlineAt(p))
      /\ (OnlineAt(p) <=> Online(x))
  BY <1>0, <1>1, <1>p, StillPlayers, RegisteredPlayer
<1>7. Holder(p) = obj[x].agent /\ Holder(p)' = obj[x].agent
  BY <1>1, <1>p, <1>6 DEF Holder
<1>8. obj[x].agent # None
  BY <1>0, <1>p DEF AgentIffOnline
<1>9. Value(p)' > Value(p)
  BY <1>2, <1>3, <1>5
<1> QED
  BY <1>1, <1>4, <1>7, <1>8, <1>9

\* A player is gone for those who look at its role once its deletion ends, its data saved.
LEMMA ShownRelease ==
    ASSUME FreshInv, FreshInv', LinkInv, Serial, SerialInv, DataInv, [Next]_vars,
           NEW t \in Tasks, Deleted(t)
    PROVE  \/ \A r \in Roles : ShownKept(r)
           \/ \E p \in Roles : /\ Holder(p) # None /\ Holder(p)' = None
                               /\ Value(p)' = Value(p)
                               /\ \A r \in Roles : r # p => ShownKept(r)
<1>0. IInv /\ None \notin Players /\ AgentIffOnline /\ Deleting /\ DoomedData /\ RegData
  BY Names DEF FreshInv, SerialInv, DataInv, Objs
<1>1. PICK p, o : p = F(H).pid /\ o = F(H).src /\ Removes(p, o)
  BY <1>0, DeletedRemoves
<1>2. /\ H \in 1..H /\ H > 0 /\ F(H).pc = "deleted" /\ p \in Roles /\ o \in Players
      /\ id_obj' = [id_obj EXCEPT ![p] = None] /\ obj' = obj /\ db' = db
  BY <1>1 DEF Removes
<1>3. id_obj \in [Pids -> Objs \cup {None}] /\ p \in Pids
  BY <1>0, <1>2 DEF IInv, RegType, Pids
<1>4. ASSUME NEW r \in Roles, r # p PROVE ShownKept(r)
  <2>1. id_obj'[r] = id_obj[r] /\ ~Plays(id_obj[r])
    BY <1>2, <1>3, <1>4 DEF Plays, Pids
  <2> QED
    BY <2>1, ShownStays
<1>5. id_obj'[p] = None
  BY <1>2, <1>3
<1>6. Holder(p)' = None /\ Value(p)' = db[p]
  BY <1>2, <1>5 DEF Holder, OnlineAt, Value
<1>7. CASE Online(o)
  <2>1. id_obj[p] = o /\ o # None
    BY <1>0, <1>1, <1>2, <1>7 DEF Deleting
  <2>2. db[p] = obj[o].data
    BY <1>0, <1>1, <1>2, <1>7 DEF DoomedData
  <2>3. Value(p) = obj[o].data
    BY <2>1 DEF Value
  <2>4. OnlineAt(p)
    BY <1>0, <1>2, <1>7, <2>1, RegisteredPlayer
  <2>5. Holder(p) = obj[o].agent /\ obj[o].agent # None
    BY <1>0, <1>2, <1>7, <2>1, <2>4 DEF Holder, AgentIffOnline
  <2> QED
    BY <1>2, <1>4, <1>6, <2>2, <2>3, <2>5
<1>8. CASE ~Online(o)
  <2>1. id_obj[p] \in {o, None}
    BY <1>0, <1>1, <1>2, <1>8 DEF Deleting
  <2>2. ~OnlineAt(p)
    BY <1>0, <1>2, <1>8, <2>1, RegisteredPlayer DEF OnlineAt
  <2>3. Value(p) = db[p]
    BY <1>0, <1>2, <1>8, <2>1 DEF Value, RegData
  <2>4. ShownKept(p)
    BY <1>6, <2>2, <2>3 DEF ShownKept, Holder
  <2> QED
    BY <1>4, <2>4
<1> QED
  BY <1>7, <1>8

\* addobject shows a role's new player, with the data that was loaded for it.
LEMMA ShownTake ==
    ASSUME FreshInv, FreshInv', LinkInv, Serial, SerialInv, DataInv, [Next]_vars,
           NEW t \in Tasks, Adds(t)
    PROVE  \/ \A r \in Roles : ShownKept(r)
           \/ \E p \in Roles, a \in Agents :
                 /\ Holder(p) = None /\ Holder(p)' = a
                 /\ Value(p)' = Value(p)
                 /\ \A r \in Roles : r # p => ShownKept(r)
<1>0. IInv /\ None \notin Players /\ None \notin Agents /\ AgentIffOnline /\ HeldState /\ HeldData
  BY Names DEF FreshInv, SerialInv, DataInv, Objs
<1>1. PICK p \in Roles, o \in Players, s \in {"online", "offline", "kuafu"} : Takes(p, o, s)
  BY <1>0, AddsTake
<1>2. /\ H > 0 /\ id_obj[p] = None /\ id_obj' = [id_obj EXCEPT ![p] = o] /\ db' = db
      /\ obj'[o].data = obj[o].data /\ obj'[o].agent = obj[o].agent /\ obj'[o].state = s
      /\ o \notin Agents
      /\ (s = "online" => obj' = obj)
  BY <1>1 DEF Takes
<1>3. id_obj \in [Pids -> Objs \cup {None}] /\ p \in Pids
  BY <1>0 DEF IInv, RegType, Pids
<1>4. ASSUME NEW r \in Roles, r # p PROVE ShownKept(r)
  <2>1. id_obj'[r] = id_obj[r] /\ ~Plays(id_obj[r])
    BY <1>2, <1>3, <1>4 DEF Plays, Pids
  <2> QED
    BY <2>1, ShownStays
<1>5. db[p] = obj[o].data
  BY <1>0, <1>1, TakenData
<1>6. id_obj'[p] = o /\ o # None
  BY <1>0, <1>2, <1>3
<1>7. Value(p) = db[p] /\ Value(p)' = obj'[o].data /\ Holder(p) = None
  BY <1>2, <1>6 DEF Value, Holder, OnlineAt
<1>8. OnlineAt(p)' <=> s = "online"
  BY <1>2, <1>6 DEF OnlineAt, StateOf
<1>9. CASE s = "online"
  <2>1. obj[o].agent # None
    BY <1>0, <1>2, <1>9 DEF AgentIffOnline, Online
  <2>2. obj[o].agent \in Agents
    BY <1>0, <2>1 DEF IInv, HeapType
  <2>3. Holder(p)' = obj[o].agent
    BY <1>2, <1>6, <1>8, <1>9 DEF Holder
  <2> QED
    BY <1>2, <1>4, <1>5, <1>7, <2>2, <2>3
<1>10. CASE s # "online"
  <2>1. Holder(p)' = None
    BY <1>8, <1>10 DEF Holder
  <2> QED
    BY <1>2, <1>4, <1>5, <1>7, <2>1 DEF ShownKept
<1> QED
  BY <1>9, <1>10

LEMMA RolesStep ==
    ASSUME FreshInv, FreshInv', LinkInv, Serial, SerialInv, DataInv, [Next]_vars
    PROVE  [Store!Next]_<<[r \in Roles |-> Value(r)], [r \in Roles |-> Holder(r)]>>
<1>1. ASSUME \A r \in Roles : ShownKept(r)
      PROVE  UNCHANGED <<[r \in Roles |-> Value(r)], [r \in Roles |-> Holder(r)]>>
  BY <1>1 DEF ShownKept
<1>2. ASSUME NEW x \in Players, Plays(x) PROVE Store!Next
  <2>1. PICK p \in Roles : /\ Holder(p) # None /\ Holder(p)' = Holder(p)
                           /\ Value(p)' > Value(p)
                           /\ \A r \in Roles : r # p => ShownKept(r)
    BY <1>2, ShownPlay
  <2>2. Store!Play(p)
    BY <2>1 DEF Store!Play, ShownKept
  <2> QED
    BY <2>2 DEF Store!Next
<1>3. ASSUME NEW t \in Tasks, Deleted(t), ~\A r \in Roles : ShownKept(r) PROVE Store!Next
  <2>1. PICK p \in Roles : /\ Holder(p) # None /\ Holder(p)' = None
                           /\ Value(p)' = Value(p)
                           /\ \A r \in Roles : r # p => ShownKept(r)
    BY <1>3, ShownRelease
  <2>2. Store!Release(p)
    BY <2>1 DEF Store!Release, ShownKept
  <2> QED
    BY <2>2 DEF Store!Next
<1>4. ASSUME NEW t \in Tasks, Adds(t), ~\A r \in Roles : ShownKept(r) PROVE Store!Next
  <2>1. PICK p \in Roles, a \in Agents : /\ Holder(p) = None /\ Holder(p)' = a
                                         /\ Value(p)' = Value(p)
                                         /\ \A r \in Roles : r # p => ShownKept(r)
    BY <1>4, ShownTake
  <2>2. Store!Take(p, a)
    BY <2>1 DEF Store!Take, ShownKept
  <2> QED
    BY <2>2 DEF Store!Next
<1>5. ASSUME ~Registers, ~\E x \in Players : Plays(x), NEW r \in Roles PROVE ShownKept(r)
  <2>1. id_obj'[r] = id_obj[r]
    BY <1>5, StepStill DEF Still
  <2>2. ~Plays(id_obj[r])
    BY <1>5 DEF Plays
  <2> QED
    BY <2>1, <2>2, ShownStays
<1> QED
  BY <1>1, <1>2, <1>3, <1>4, <1>5 DEF Registers

(***************************************************************************)
(* The online limit.  A client that was let in is counted from the test of *)
(* the limit on, not from addobject on; and the slot of a player that goes *)
(* is free from delobject on, when the queue is asked for the next client. *)
(***************************************************************************)
\* Calls that bring a player online.
Coming == {"pop", "sethome", "nettransfer", "addplayer"}

Comers == {k \in 1..H : F(k).pc \in Coming}
Goers  == {k \in 1..H : F(k).pc = "deleted" /\ Online(F(k).src)}

Bit(b) == IF b THEN 1 ELSE 0

\* How many more come than go up to the height n.
Surplus(C, G, n) == Cardinality(C \cap (1..n)) - Cardinality(G \cap (1..n))

RoomKept == cnt["online"] + Surplus(Comers, Goers, H) <= OnlineLimit + tokened

LEMMA BelowNext ==
    ASSUME NEW C, NEW n \in Nat
    PROVE  /\ IsFiniteSet(C \cap (1..n)) /\ Cardinality(C \cap (1..n)) \in Nat
           /\ C \cap (1..0) = {}
           /\ Cardinality(C \cap (1..(n + 1))) = Cardinality(C \cap (1..n)) + Bit(n + 1 \in C)
<1>1. IsFiniteSet(C \cap (1..n)) /\ Cardinality(C \cap (1..n)) \in Nat
  <2>1. IsFiniteSet(1..n)
    BY FS_Interval
  <2>2. C \cap (1..n) \subseteq 1..n
    OBVIOUS
  <2> QED
    BY <2>1, <2>2, FS_Subset, FS_CardinalityType
<1>2. C \cap (1..0) = {}
  OBVIOUS
<1>3. CASE n + 1 \in C
  <2>1. C \cap (1..(n + 1)) = (C \cap (1..n)) \cup {n + 1} /\ n + 1 \notin C \cap (1..n)
    BY <1>3
  <2> QED
    BY <1>1, <1>2, <1>3, <2>1, FS_AddElement DEF Bit
<1>4. CASE n + 1 \notin C
  <2>1. C \cap (1..(n + 1)) = C \cap (1..n)
    BY <1>4
  <2>2. PICK x \in Nat : x = Cardinality(C \cap (1..n)) /\ x = Cardinality(C \cap (1..(n + 1)))
    BY <1>1, <2>1
  <2> QED
    BY <1>1, <1>2, <1>4, <2>2 DEF Bit
<1> QED
  BY <1>3, <1>4

LEMMA SurplusNext ==
    ASSUME NEW C, NEW G, NEW n \in Nat
    PROVE  /\ Surplus(C, G, 0) = 0 /\ Surplus(C, G, n) \in Int
           /\ Surplus(C, G, n + 1) = Surplus(C, G, n) + Bit(n + 1 \in C) - Bit(n + 1 \in G)
<1>1. /\ Cardinality(C \cap (1..n)) \in Nat /\ Cardinality(G \cap (1..n)) \in Nat
      /\ C \cap (1..0) = {} /\ G \cap (1..0) = {} /\ Cardinality({}) = 0
      /\ Cardinality(C \cap (1..(n + 1))) = Cardinality(C \cap (1..n)) + Bit(n + 1 \in C)
      /\ Cardinality(G \cap (1..(n + 1))) = Cardinality(G \cap (1..n)) + Bit(n + 1 \in G)
  BY BelowNext, FS_EmptySet
<1>2. Bit(n + 1 \in C) \in Nat /\ Bit(n + 1 \in G) \in Nat
  BY DEF Bit
<1>3. Surplus(C, G, 0) = 0
  BY <1>1 DEF Surplus
<1> QED
  BY <1>1, <1>2, <1>3 DEF Surplus

LEMMA SurplusSame ==
    ASSUME NEW C, NEW G, NEW D, NEW E, NEW n \in Nat,
           \A k \in 1..n : (k \in C <=> k \in D) /\ (k \in G <=> k \in E)
    PROVE  Surplus(D, E, n) = Surplus(C, G, n)
<1>1. D \cap (1..n) = C \cap (1..n) /\ E \cap (1..n) = G \cap (1..n)
  OBVIOUS
<1> QED
  BY <1>1 DEF Surplus

\* An error takes away calls that come, and none that goes.
LEMMA SurplusDrop ==
    ASSUME NEW C, NEW G, NEW n \in Nat, NEW m \in Nat, m <= n,
           \A k \in (m + 1)..n : k \notin G
    PROVE  Surplus(C, G, m) <= Surplus(C, G, n)
<1>1. G \cap (1..m) = G \cap (1..n)
  <2>1. \A k \in 1..n : k \in 1..m \/ k \in (m + 1)..n
    OBVIOUS
  <2>2. \A k \in 1..m : k \in 1..n
    OBVIOUS
  <2> QED
    BY <2>1, <2>2
<1>2. C \cap (1..m) \subseteq C \cap (1..n)
  OBVIOUS
<1>3. IsFiniteSet(C \cap (1..n)) /\ Cardinality(C \cap (1..n)) \in Nat
      /\ Cardinality(C \cap (1..m)) \in Nat /\ Cardinality(G \cap (1..n)) \in Nat
  BY BelowNext
<1>4. Cardinality(C \cap (1..m)) <= Cardinality(C \cap (1..n))
  BY <1>2, <1>3, FS_Subset
<1> QED
  BY <1>1, <1>3, <1>4 DEF Surplus

\* What a call adds, before the step and after it.
Weight(f)    == Bit(f.pc \in Coming) - Bit(f.pc = "deleted" /\ obj[f.src].state = "online")
NewWeight(f) == Bit(f.pc \in Coming) - Bit(f.pc = "deleted" /\ obj'[f.src].state = "online")

LEMMA Heights ==
    ASSUME IInv, IInv', Serial
    PROVE  H \in Nat /\ H' \in Nat
<1>1. stack' \in [Tasks -> Seq(FrameType)]
  BY DEF IInv, StackInv
<1> QED
  BY <1>1, OneTask, StackType, LenProperties DEF H

LEMMA RoomTop ==
    ASSUME IInv, IInv', Serial
    PROVE  /\ H > 0 => /\ H - 1 \in Nat
                       /\ Surplus(Comers, Goers, H)
                          = Surplus(Comers, Goers, H - 1) + Weight(F(H))
           /\ \A k \in 1..H' : /\ k - 1 \in Nat
                               /\ Surplus(Comers', Goers', k)
                                  = Surplus(Comers', Goers', k - 1) + NewWeight(At(stack'[1], k))
           /\ \A n \in Nat : Surplus(Comers, Goers, n) \in Int /\ Surplus(Comers', Goers', n) \in Int
<1>h. H \in Nat /\ H' \in Nat
  BY Heights
<1>b. \A b : Bit(b) \in Nat
  BY DEF Bit
<1>1. \A n \in Nat : Surplus(Comers, Goers, n) \in Int /\ Surplus(Comers', Goers', n) \in Int
  BY SurplusNext
<1>2. ASSUME H > 0
      PROVE  /\ H - 1 \in Nat
             /\ Surplus(Comers, Goers, H) = Surplus(Comers, Goers, H - 1) + Weight(F(H))
  <2>1. H - 1 \in Nat /\ (H - 1) + 1 = H /\ H \in 1..H
    BY <1>h, <1>2
  <2>2. Surplus(Comers, Goers, H)
        = Surplus(Comers, Goers, H - 1) + Bit(H \in Comers) - Bit(H \in Goers)
    BY <2>1, SurplusNext
  <2>3. /\ H \in Comers <=> F(H).pc \in Coming
        /\ H \in Goers <=> F(H).pc = "deleted" /\ obj[F(H).src].state = "online"
    BY <2>1 DEF Comers, Goers, Online
  <2>4. Bit(H \in Comers) = Bit(F(H).pc \in Coming)
        /\ Bit(H \in Goers) = Bit(F(H).pc = "deleted" /\ obj[F(H).src].state = "online")
    BY <2>3 DEF Bit
  <2> QED
    BY <1>1, <1>b, <2>1, <2>2, <2>4 DEF Weight
<1>3. ASSUME NEW k \in 1..H'
      PROVE  /\ k - 1 \in Nat
             /\ Surplus(Comers', Goers', k)
                = Surplus(Comers', Goers', k - 1) + NewWeight(At(stack'[1], k))
  <2>1. k - 1 \in Nat /\ (k - 1) + 1 = k
    BY <1>h
  <2>2. Surplus(Comers', Goers', k)
        = Surplus(Comers', Goers', k - 1) + Bit(k \in Comers') - Bit(k \in Goers')
    BY <2>1, SurplusNext
  <2>3. /\ k \in Comers' <=> At(stack'[1], k).pc \in Coming
        /\ k \in Goers' <=> /\ At(stack'[1], k).pc = "deleted"
                            /\ obj'[At(stack'[1], k).src].state = "online"
    BY DEF Comers, Goers, Online, F
  <2>4. Bit(k \in Comers') = Bit(At(stack'[1], k).pc \in Coming)
        /\ Bit(k \in Goers') = Bit(At(stack'[1], k).pc = "deleted"
                                   /\ obj'[At(stack'[1], k).src].state = "online")
    BY <2>3 DEF Bit
  <2> QED
    BY <1>1, <1>b, <2>1, <2>2, <2>4 DEF NewWeight
<1> QED
  BY <1>1, <1>2, <1>3

\* The calls that stay count as before.
LEMMA RoomBelow ==
    ASSUME IInv, IInv', Serial, KnownKept, NEW m \in Nat, m <= H, m <= H',
           \A k \in 1..m : /\ At(stack'[1], k).pc = F(k).pc
                           /\ At(stack'[1], k).src = F(k).src
    PROVE  Surplus(Comers', Goers', m) = Surplus(Comers, Goers, m)
<1>h. H \in Nat /\ H' \in Nat
  BY Heights
<1>1. ASSUME NEW k \in 1..m
      PROVE  (k \in Comers <=> k \in Comers') /\ (k \in Goers <=> k \in Goers')
  <2>1. k \in 1..H /\ k \in 1..H'
    BY <1>h
  <2>2. /\ k \in Comers' <=> At(stack'[1], k).pc \in Coming
        /\ k \in Goers' <=> /\ At(stack'[1], k).pc = "deleted"
                            /\ obj'[At(stack'[1], k).src].state = "online"
    BY <2>1 DEF Comers, Goers, Online, F
  <2>3. /\ k \in Comers <=> F(k).pc \in Coming
        /\ k \in Goers <=> F(k).pc = "deleted" /\ obj[F(k).src].state = "online"
    BY <2>1 DEF Comers, Goers, Online
  <2>4. CASE F(k).pc = "deleted"
    <3>1. PICK o \in Players : o = F(k).src /\ Known(o)
      BY <2>1, <2>4, DoomedFrame
    <3>2. obj'[o].state = obj[o].state
      BY <3>1 DEF KnownKept
    <3> QED
      BY <2>2, <2>3, <3>1, <3>2
  <2>5. CASE F(k).pc # "deleted"
    BY <2>2, <2>3, <2>5
  <2> QED
    BY <2>4, <2>5
<1> QED
  BY <1>1, SurplusSame

LEMMA RoomPiled ==
    ASSUME IInv, IInv', Serial, KnownKept, H > 0, NEW f, NEW g, NEW h
    PROVE  LET S == Surplus(Comers, Goers, H)
               T == Surplus(Comers', Goers', H')
           IN /\ S \in Int /\ T \in Int
              /\ Piled0(stack[1], stack'[1]) => T = S - Weight(F(H))
              /\ Piled1(stack[1], stack'[1], f) => T = S - Weight(F(H)) + NewWeight(f)
              /\ Piled2(stack[1], stack'[1], f, g)
                    => T = S - Weight(F(H)) + NewWeight(f) + NewWeight(g)
              /\ Piled3(stack[1], stack'[1], f, g, h)
                    => T = S - Weight(F(H)) + NewWeight(f) + NewWeight(g) + NewWeight(h)
<1> DEFINE S == Surplus(Comers, Goers, H)
           T(n) == Surplus(Comers', Goers', n)
<1>h. H \in Nat /\ H' \in Nat /\ H - 1 \in Nat
  BY Heights
<1>1. Base(stack[1]) = H - 1
  BY <1>h, StackType, BaseType DEF H
<1>w. \A x : Weight(x) \in Int /\ NewWeight(x) \in Int
  BY DEF Weight, NewWeight, Bit
<1>2. /\ S \in Int /\ S = Surplus(Comers, Goers, H - 1) + Weight(F(H))
      /\ Surplus(Comers, Goers, H - 1) \in Int /\ T(H') \in Int
      /\ \A k \in 1..H' : T(k) = T(k - 1) + NewWeight(At(stack'[1], k))
  BY <1>h, RoomTop
<1>3. ASSUME Kept(stack[1], stack'[1], H - 1), H - 1 <= H'
      PROVE  T(H - 1) = S - Weight(F(H))
  <2>1. \A k \in 1..(H - 1) : At(stack'[1], k) = F(k)
    BY <1>3 DEF Kept, F
  <2>2. T(H - 1) = Surplus(Comers, Goers, H - 1)
    BY <1>h, <1>3, <2>1, RoomBelow
  <2> QED
    BY <1>2, <1>w, <2>2
<1> HIDE DEF S, T
<1>4. ASSUME Piled0(stack[1], stack'[1]) PROVE T(H') = S - Weight(F(H))
  <2>1. Kept(stack[1], stack'[1], H - 1) /\ H' = H - 1
    BY <1>1, <1>4 DEF Piled0, H
  <2> QED
    BY <1>h, <1>3, <2>1
<1>5. ASSUME Piled1(stack[1], stack'[1], f) PROVE T(H') = S - Weight(F(H)) + NewWeight(f)
  <2>1. Kept(stack[1], stack'[1], H - 1) /\ H' = (H - 1) + 1 /\ At(stack'[1], H') = f
    BY <1>1, <1>5 DEF Piled1, H
  <2>2. H' \in 1..H' /\ H' - 1 = H - 1
    BY <1>h, <2>1
  <2>3. T(H') = T(H - 1) + NewWeight(f)
    BY <1>2, <2>1, <2>2
  <2> QED
    BY <1>h, <1>3, <2>1, <2>3
<1>6. ASSUME Piled2(stack[1], stack'[1], f, g)
      PROVE  T(H') = S - Weight(F(H)) + NewWeight(f) + NewWeight(g)
  <2>1. /\ Kept(stack[1], stack'[1], H - 1) /\ H' = (H - 1) + 2
        /\ At(stack'[1], H + 1) = f /\ At(stack'[1], H) = g
    BY <1>1, <1>6, <1>h DEF Piled2, H
  <2>2. H' = H + 1 /\ H + 1 \in 1..H' /\ H \in 1..H' /\ (H + 1) - 1 = H
    BY <1>h, <2>1
  <2>3. T(H + 1) = T(H) + NewWeight(f) /\ T(H) = T(H - 1) + NewWeight(g)
    BY <1>2, <2>1, <2>2
  <2>4. T(H - 1) = S - Weight(F(H))
    BY <1>h, <1>3, <2>1
  <2> QED
    BY <1>2, <1>w, <2>2, <2>3, <2>4
<1>7. ASSUME Piled3(stack[1], stack'[1], f, g, h)
      PROVE  T(H') = S - Weight(F(H)) + NewWeight(f) + NewWeight(g) + NewWeight(h)
  <2>1. /\ Kept(stack[1], stack'[1], H - 1) /\ H' = (H - 1) + 3
        /\ At(stack'[1], H + 2) = f /\ At(stack'[1], H + 1) = g /\ At(stack'[1], H) = h
    BY <1>1, <1>7, <1>h DEF Piled3, H
  <2>2. /\ H' = H + 2 /\ H + 2 \in 1..H' /\ H + 1 \in 1..H' /\ H \in 1..H'
        /\ (H + 2) - 1 = H + 1 /\ (H + 1) - 1 = H
    BY <1>h, <2>1
  <2>3. /\ T(H + 2) = T(H + 1) + NewWeight(f) /\ T(H + 1) = T(H) + NewWeight(g)
        /\ T(H) = T(H - 1) + NewWeight(h)
    BY <1>2, <2>1, <2>2
  <2>4. T(H - 1) = S - Weight(F(H))
    BY <1>h, <1>3, <2>1
  <2> QED
    BY <1>2, <1>w, <2>2, <2>3, <2>4
<1> QED
  BY <1>2, <1>4, <1>5, <1>6, <1>7 DEF S, T

LEMMA Weights ==
    ASSUME NEW f
    PROVE  /\ f.pc \notin Coming \cup {"deleted"} => Weight(f) = 0 /\ NewWeight(f) = 0
           /\ f.pc \in Coming => Weight(f) = 1 /\ NewWeight(f) = 1
           /\ f.pc = "deleted" => /\ Weight(f) = IF obj[f.src].state = "online" THEN -1 ELSE 0
                                  /\ NewWeight(f) = IF obj'[f.src].state = "online" THEN -1 ELSE 0
BY DEF Weight, NewWeight, Bit, Coming

\* Calls that neither delete nor add a player.
LEMMA RoomCalls ==
    ASSUME IInv, IInv', Serial, KnownKept, NEW t \in Tasks, Step(t),
           ~Deletes(t), ~Deleted(t), ~Adds(t)
    PROVE  Surplus(Comers', Goers', H') <= Surplus(Comers, Goers, H)
<1> DEFINE S == Surplus(Comers, Goers, H)
           T == Surplus(Comers', Goers', H')
           x == F(H)
<1>1. stack[t] # <<>> /\ t = 1
  BY OneTask
     DEF Step, DelNothing, DelLink, DelOnline, DelOffline, DelKuafu, Deleted, ExitGame, Saved,
         Pop, Unload, NewPlayer, SetHome, NetTransfer, AddPlayer, AddOffline, AddKuafu,
         AddRepeat, CallFails, OnLogin, Kick, ProtoKick, Closed, GoSrv, ReenterGame, Runs
<1>2. /\ stack[t][1] = x /\ H > 0 /\ H \in Nat /\ H \in 1..H /\ H' \in Nat /\ S \in Int /\ T \in Int
      /\ H - 1 \in Nat
  BY <1>1, StackType, Heights, RoomTop DEF F, H
<1> HIDE DEF S, T
<1> SUFFICES T <= S
  BY DEF S, T
<1>3. ASSUME x.pc \notin Coming \cup {"deleted"}, Continue(t, <<>>) PROVE T <= S
  <2>1. T = S - Weight(x)
    BY <1>1, <1>2, <1>3, Goes, RoomPiled DEF S, T
  <2>2. Weight(x) = 0
    BY <1>3, Weights
  <2> QED
    BY <1>2, <2>1, <2>2
<1>4. ASSUME NEW pc, NEW p, NEW o, NEW d, pc # "deleted", x.pc # "deleted",
             Continue(t, <<Frame(pc, p, o, d)>>) \/ Suspend(t, <<Frame(pc, p, o, d)>>),
             pc \in Coming => x.pc \in Coming
      PROVE  T <= S
  <2> DEFINE f == Frame(pc, p, o, d)
  <2>1. f.pc = pc
    BY DEF Frame
  <2> HIDE DEF f
  <2>2. Piled1(stack[1], stack'[1], f)
    BY <1>1, <1>4, Goes DEF f
  <2>3. T = S - Weight(x) + NewWeight(f)
    BY <1>1, <1>2, <2>2, RoomPiled DEF S, T
  <2>4. /\ Weight(x) \in {0, 1} /\ NewWeight(f) \in {0, 1}
        /\ NewWeight(f) <= Weight(x)
    BY <1>4, <2>1, Weights
  <2> QED
    BY <1>2, <2>3, <2>4
<1>5. ASSUME NEW pc, NEW p, NEW o, NEW d, NEW pc2, NEW p2, NEW o2, NEW d2,
             x.pc # "deleted", pc \notin Coming \cup {"deleted"}, pc2 # "deleted",
             Continue(t, <<Frame(pc, p, o, d), Frame(pc2, p2, o2, d2)>>),
             pc2 \in Coming => x.pc \in Coming
      PROVE  T <= S
  <2> DEFINE f == Frame(pc, p, o, d)
             g == Frame(pc2, p2, o2, d2)
  <2>1. f.pc = pc /\ g.pc = pc2
    BY DEF Frame
  <2> HIDE DEF f, g
  <2>2. Piled2(stack[1], stack'[1], f, g)
    BY <1>1, <1>5, Goes DEF f, g
  <2>3. T = S - Weight(x) + NewWeight(f) + NewWeight(g)
    BY <1>1, <1>2, <2>2, RoomPiled DEF S, T
  <2>4. /\ Weight(x) \in {0, 1} /\ NewWeight(f) = 0 /\ NewWeight(g) \in {0, 1}
        /\ NewWeight(g) <= Weight(x)
    BY <1>5, <2>1, Weights
  <2> QED
    BY <1>2, <2>3, <2>4
<1>6. ASSUME Raise(t), x.pc # "deleted" PROVE T <= S
  <2>1. Broken(stack[1], stack'[1])
    BY <1>1, <1>6, Breaks
  <2>2. H' < H /\ \A k \in 1..H' : At(stack'[1], k) = F(k)
    BY <2>1 DEF Broken, Kept, F, H
  <2>3. \A k \in (H' + 1)..(H - 1) : F(k).pc # "deleted"
    BY <2>1 DEF Broken, F, H
  <2>4. \A k \in (H' + 1)..H : k \notin Goers
    <3>1. \A m, n \in Nat : \A k \in (m + 1)..n : k = n \/ k \in (m + 1)..(n - 1)
      OBVIOUS
    <3> QED
      BY <1>2, <1>6, <2>3, <3>1 DEF Goers
  <2>5. T = Surplus(Comers, Goers, H')
    BY <1>2, <2>2, RoomBelow DEF T
  <2>6. Surplus(Comers, Goers, H') <= S
    <3>1. H' \in Nat /\ H \in Nat /\ H' <= H
      BY <1>2, <2>2
    <3>2. Surplus(Comers, Goers, H') <= Surplus(Comers, Goers, H)
      BY <2>4, <3>1, SurplusDrop
    <3> QED
      BY <3>2 DEF S
  <2> QED
    BY <2>5, <2>6
<1>7. CASE DelNothing(t) \/ DelLink(t) \/ OnLogin(t) \/ ProtoKick(t) \/ Closed(t)
  <2>1. Continue(t, <<>>) /\ x.pc \in {"delobject", "onlogin", "protokick", "closed"}
    BY <1>2, <1>7 DEF DelNothing, DelLink, OnLogin, ProtoKick, Closed, Runs
  <2> QED
    BY <1>3, <2>1 DEF Coming
<1>8. CASE ExitGame(t) \/ GoSrv(t) \/ ReenterGame(t) \/ SetHome(t)
  <2>1. CASE ExitGame(t)
    <3>1. x.pc = "exitgame" /\ Suspend(t, <<Frame("saved", None, x.src, None)>>)
      BY <1>2, <2>1 DEF ExitGame, Runs
    <3> QED
      BY <1>4, <3>1 DEF Coming
  <2>2. CASE GoSrv(t)
    <3>1. x.pc = "gosrv" /\ Suspend(t, <<Frame("reentergame", x.pid, None, None)>>)
      BY <1>2, <2>2 DEF GoSrv, Runs
    <3> QED
      BY <1>4, <3>1 DEF Coming
  <2>3. CASE ReenterGame(t)
    <3>1. x.pc = "reentergame" /\ Continue(t, <<Frame("kick", x.pid, None, None)>>)
      BY <1>2, <2>3 DEF ReenterGame, Runs
    <3> QED
      BY <1>4, <3>1 DEF Coming
  <2>4. CASE SetHome(t)
    <3>1. x.pc = "sethome" /\ Suspend(t, <<Frame("nettransfer", None, x.src, x.dst)>>)
      BY <1>2, <2>4 DEF SetHome, Runs
    <3> QED
      BY <1>4, <3>1 DEF Coming
  <2> QED
    BY <1>8, <2>1, <2>2, <2>3, <2>4
<1>9. CASE Saved(t)
  <2>1. /\ x.pc = "saved"
        /\ \/ Continue(t, <<>>)
           \/ Continue(t, <<Frame("delobject", obj[x.src].pid, None, None)>>)
    BY <1>2, <1>9 DEF Saved, Runs
  <2> QED
    BY <1>3, <1>4, <2>1 DEF Coming
<1>10. CASE Pop(t)
  <2>1. x.pc = "pop"
    BY <1>2, <1>10 DEF Pop, Runs
  <2>2. \/ Continue(t, <<>>)
        \/ Continue(t, <<Frame("recoverplayer", Head(queue).role, None, None),
                         Frame("nettransfer", None, id_obj[Head(queue).pid], None)>>)
    BY <1>10 DEF Pop
  <2>3. CASE Continue(t, <<>>)
    <3>1. T = S - Weight(x)
      BY <1>1, <1>2, <2>3, Goes, RoomPiled DEF S, T
    <3>2. Weight(x) = 1
      BY <2>1, Weights DEF Coming
    <3> QED
      BY <1>2, <3>1, <3>2
  <2> QED
    BY <1>5, <2>1, <2>2, <2>3 DEF Coming
<1>11. CASE Unload(t)
  <2>1. x.pc = "recoverplayer"
    BY <1>2, <1>11 DEF Unload, Runs
  <2>2. \/ Continue(t, <<Frame("newplayer", x.pid, None, None)>>)
        \/ Continue(t, <<Frame("delobject", x.pid, None, None),
                         Frame("newplayer", x.pid, None, None)>>)
    BY <1>2, <1>11 DEF Unload
  <2> QED
    BY <1>4, <1>5, <2>1, <2>2 DEF Coming
<1>12. CASE NewPlayer(t)
  <2>1. Handed(stack[1], stack'[1], nobj + 1) /\ x.pc = "newplayer"
    BY <1>2, <1>12, Handing DEF NewPlayer, Runs
  <2>2. /\ H > 1 /\ H' = H - 1 /\ H' \in 1..H
        /\ \A k \in 1..(H - 2) : At(stack'[1], k) = F(k)
        /\ At(stack'[1], H') = [F(H') EXCEPT !.dst = nobj + 1]
    BY <1>2, <2>1 DEF Handed, Kept, F, H
  <2>3. F(H') \in FrameType
    <3>1. H + 1 - H' \in 1..Len(stack[1]) /\ stack[1] \in Seq(FrameType)
      BY <1>2, <2>2, StackType DEF H
    <3> QED
      BY <3>1, ElementOfSeq DEF F, At, H
  <2>4. ASSUME NEW k \in 1..H' PROVE At(stack'[1], k).pc = F(k).pc /\ At(stack'[1], k).src = F(k).src
    <3>1. CASE k = H'
      BY <2>2, <2>3, <3>1 DEF FrameType
    <3>2. CASE k # H'
      <4>1. k \in 1..(H - 2)
        BY <1>2, <2>2, <3>2
      <4> QED
        BY <2>2, <4>1
    <3> QED
      BY <3>1, <3>2
  <2>5. T = Surplus(Comers, Goers, H - 1)
    <3>1. T = Surplus(Comers, Goers, H')
      BY <1>2, <2>2, <2>4, RoomBelow DEF T
    <3> QED
      BY <2>2, <3>1
  <2>6. S = Surplus(Comers, Goers, H - 1) + Weight(x)
    BY <1>2, RoomTop DEF S
  <2>7. Weight(x) = 0
    BY <2>1, Weights DEF Coming
  <2> QED
    BY <1>2, <2>5, <2>6, <2>7
<1>13. CASE NetTransfer(t)
  <2>1. x.pc = "nettransfer"
    BY <1>2, <1>13 DEF NetTransfer, Runs
  <2>2. Raise(t) \/ Continue(t, <<Frame("delobject", PidOf(x.src), None, None),
                                  Frame("addplayer", None, x.src, x.dst)>>)
    BY <1>2, <1>13 DEF NetTransfer
  <2> QED
    BY <1>5, <1>6, <2>1, <2>2 DEF Coming
<1>14. CASE AddRepeat(t) \/ CallFails(t)
  BY <1>2, <1>6, <1>14 DEF AddRepeat, CallFails, Runs
<1>15. CASE Kick(t)
  <2>1. x.pc = "kick"
    BY <1>2, <1>15 DEF Kick, Runs
  <2>2. Continue(t, <<>>) \/ Continue(t, <<Frame("delobject", x.pid, None, None),
                                           Frame("protokick", None, id_obj[x.pid], None)>>)
    BY <1>2, <1>15 DEF Kick
  <2> QED
    BY <1>3, <1>5, <2>1, <2>2 DEF Coming
<1> QED
  BY <1>7, <1>8, <1>9, <1>10, <1>11, <1>12, <1>13, <1>14, <1>15
     DEF Step, Deletes, Adds, S, T

\* The slot of an online player that begins to leave is offered to the queue at once.
LEMMA RoomDeletes ==
    ASSUME IInv, IInv', Serial, KnownKept, NEW t \in Tasks, Deletes(t)
    PROVE  Surplus(Comers', Goers', H') <= Surplus(Comers, Goers, H)
<1> DEFINE S == Surplus(Comers, Goers, H)
           T == Surplus(Comers', Goers', H')
           p == F(H).pid
           o == id_obj[p]
           E == Frame("exitgame", None, o, None)
           P == Frame("pop", None, None, None)
           V == Frame("saved", None, o, None)
           D == Frame("deleted", p, o, None)
<1>1. /\ t = 1 /\ stack[t] # <<>> /\ stack[t][1] = F(H) /\ H > 0 /\ F(H).pc = "delobject"
      /\ S \in Int /\ T \in Int
  <2>1. Runs(t, "delobject")
    BY DEF Deletes, DelOnline, DelOffline, DelKuafu
  <2> QED
    BY <2>1, Running, Heights, RoomTop DEF Runs
<1>2. /\ E.pc = "exitgame" /\ P.pc = "pop" /\ V.pc = "saved" /\ D.pc = "deleted" /\ D.src = o
  BY DEF Frame
<1>3. /\ obj' = obj
      /\ \/ Suspend(t, <<E, P, D>>) /\ obj[o].state = "online"
         \/ Suspend(t, <<V, D>>) /\ obj[o].state # "online"
         \/ Continue(t, <<D>>) /\ obj[o].state # "online"
  BY <1>1 DEF Deletes, DelOnline, DelOffline, DelKuafu
<1> HIDE DEF S, T, E, P, V, D, o
<1> SUFFICES T <= S
  BY DEF S, T
<1>4. /\ Weight(F(H)) = 0 /\ NewWeight(E) = 0 /\ NewWeight(P) = 1 /\ NewWeight(V) = 0
      /\ NewWeight(D) = IF obj[o].state = "online" THEN -1 ELSE 0
  BY <1>1, <1>2, <1>3, Weights DEF Coming
<1>5. CASE Suspend(t, <<E, P, D>>) /\ obj[o].state = "online"
  <2>1. T = S - Weight(F(H)) + NewWeight(E) + NewWeight(P) + NewWeight(D)
    BY <1>1, <1>5, Goes, RoomPiled DEF S, T
  <2>2. NewWeight(D) = -1
    BY <1>4, <1>5
  <2> QED
    BY <1>1, <1>4, <2>1, <2>2
<1>6. CASE Suspend(t, <<V, D>>) /\ obj[o].state # "online"
  <2>1. T = S - Weight(F(H)) + NewWeight(V) + NewWeight(D)
    BY <1>1, <1>6, Goes, RoomPiled DEF S, T
  <2>2. NewWeight(D) = 0
    BY <1>4, <1>6
  <2> QED
    BY <1>1, <1>4, <2>1, <2>2
<1>7. CASE Continue(t, <<D>>) /\ obj[o].state # "online"
  <2>1. T = S - Weight(F(H)) + NewWeight(D)
    BY <1>1, <1>7, Goes, RoomPiled DEF S, T
  <2>2. NewWeight(D) = 0
    BY <1>4, <1>7
  <2> QED
    BY <1>1, <1>4, <2>1, <2>2
<1> QED
  BY <1>3, <1>5, <1>6, <1>7

LEMMA TokenedGrows ==
    ASSUME IInv, [Next]_vars
    PROVE  /\ tokened \in Nat /\ tokened' \in Nat /\ tokened' >= tokened
           /\ \A t \in Tasks : Step(t) => tokened' = tokened
           /\ \A a \in Agents, r \in Roles, home \in BOOLEAN :
                EnterByToken(a, r, home) => tokened' = tokened + 1
<1>1. tokened \in Nat
  BY DEF IInv, WorldType
<1>2. ASSUME NEW t \in Tasks, Step(t) PROVE tokened' = tokened
  BY <1>2
     DEF Step, DelNothing, DelLink, DelOnline, DelOffline, DelKuafu, Deleted, ExitGame, Saved,
         Pop, Unload, NewPlayer, SetHome, NetTransfer, AddPlayer, AddOffline, AddKuafu,
         AddRepeat, CallFails, OnLogin, Kick, ProtoKick, Closed, GoSrv, ReenterGame, world
<1>3. ASSUME NEW a \in Agents, Client(a) PROVE tokened' \in {tokened, tokened + 1}
  BY <1>3 DEF Client, Start, Close, Login, ExitRequest, Play, GoRequest, EnterQueued, EnterGame,
              EnterByToken, world
<1>4. ASSUME Server PROVE tokened' = tokened
  BY <1>4 DEF Server, SetGoSrv, LoadOffline, GmKick, AutoSave, GrowIdle, world
<1>5. ASSUME UNCHANGED vars PROVE tokened' = tokened
  BY <1>5 DEF vars, world
<1>6. tokened' \in {tokened, tokened + 1}
  BY <1>2, <1>3, <1>4, <1>5 DEF Next, Quiet
<1> QED
  BY <1>1, <1>2, <1>6 DEF EnterByToken

LEMMA RoomStep ==
    ASSUME FreshInv, FreshInv', LinkInv, Serial, SerialInv, RoomKept, NEW t \in Tasks, Step(t)
    PROVE  RoomKept'
<1>0. IInv /\ IInv' /\ KnownKept /\ Deleting /\ HeldState /\ [Next]_vars
  <2>1. [Next]_vars
    BY DEF Next
  <2> QED
    BY <2>1, ObjectsKept DEF FreshInv, SerialInv
<1> DEFINE S == Surplus(Comers, Goers, H)
           T == Surplus(Comers', Goers', H')
<1>1. /\ S \in Int /\ T \in Int /\ cnt["online"] \in Int /\ cnt'["online"] \in Int
      /\ OnlineLimit \in Nat /\ tokened \in Nat /\ tokened' = tokened
      /\ cnt["online"] + S <= OnlineLimit + tokened
  <2>1. cnt["online"] \in Int /\ cnt'["online"] \in Int
    BY <1>0 DEF IInv, RegType, States
  <2> QED
    BY <1>0, <2>1, Heights, RoomTop, TokenedGrows, BoundsAssumption DEF RoomKept
<1> HIDE DEF S, T
<1> SUFFICES cnt'["online"] + T <= OnlineLimit + tokened'
  BY DEF RoomKept, Surplus, T
<1>2. CASE ~Registers
  <2>1. cnt'["online"] = cnt["online"]
    BY <1>0, <1>2, StepStill DEF Still
  <2>2. T <= S
    BY <1>0, <1>2, RoomCalls, RoomDeletes DEF Registers, S, T
  <2> QED
    BY <1>1, <2>1, <2>2
<1>3. CASE Deleted(t)
  <2>1. PICK p, o : p = F(H).pid /\ o = F(H).src /\ Removes(p, o)
    BY <1>0, <1>3, DeletedRemoves
  <2>2. cnt'["online"] = IF Online(o) THEN cnt["online"] - 1 ELSE cnt["online"]
    BY <1>0, <2>1, OnlineRemoved
  <2>3. H > 0 /\ F(H).pc = "deleted" /\ stack[t] # <<>> /\ Continue(t, <<>>)
    BY <1>3, <2>1 DEF Removes, Deleted, Runs
  <2>4. T = S - Weight(F(H))
    BY <1>0, <2>3, Goes, RoomPiled DEF S, T
  <2>5. Weight(F(H)) = IF Online(o) THEN -1 ELSE 0
    BY <2>1, <2>3, Weights DEF Online
  <2> QED
    BY <1>1, <2>2, <2>4, <2>5
<1>4. CASE Adds(t)
  <2>1. PICK p \in Roles, o \in Players, s \in {"online", "offline", "kuafu"} : Takes(p, o, s)
    BY <1>0, <1>4, AddsTake
  <2>2. cnt'["online"] = IF s = "online" THEN cnt["online"] + 1 ELSE cnt["online"]
    BY <1>0, <2>1, OnlineTaken
  <2>3. H > 0 /\ (s = "online" <=> F(H).pc = "addplayer") /\ F(H).pc \in Takers
    BY <2>1 DEF Takes
  <2>4. stack[t] # <<>> /\ stack[t][1] = F(H)
    BY <1>0, <1>4, Running DEF Adds, AddPlayer, AddOffline, AddKuafu, Runs
  <2>5. CASE AddPlayer(t)
    <3> DEFINE f == Frame("onlogin", None, None, F(H).dst)
    <3>1. f.pc = "onlogin" /\ F(H).pc = "addplayer"
      BY <2>4, <2>5 DEF Frame, AddPlayer, Runs
    <3>2. Suspend(t, <<f>>)
      BY <2>4, <2>5 DEF AddPlayer
    <3> HIDE DEF f
    <3>3. T = S - Weight(F(H)) + NewWeight(f)
      BY <1>0, <2>3, <2>4, <3>2, Goes, RoomPiled DEF S, T
    <3>4. Weight(F(H)) = 1 /\ NewWeight(f) = 0
      BY <3>1, Weights DEF Coming
    <3> QED
      BY <1>1, <2>2, <2>3, <3>1, <3>3, <3>4
  <2>6. CASE AddOffline(t) \/ AddKuafu(t)
    <3>1. Continue(t, <<>>) /\ F(H).pc \in {"addoffline", "addkuafu"}
      BY <2>4, <2>6 DEF AddOffline, AddKuafu, Runs
    <3>2. T = S - Weight(F(H))
      BY <1>0, <2>3, <2>4, <3>1, Goes, RoomPiled DEF S, T
    <3>3. Weight(F(H)) = 0
      BY <3>1, Weights DEF Coming
    <3> QED
      BY <1>1, <2>2, <2>3, <3>1, <3>2, <3>3
  <2> QED
    BY <1>4, <2>5, <2>6 DEF Adds
<1> QED
  BY <1>0, <1>2, <1>3, <1>4, OneTask DEF Registers

\* A handler that neither lets a client in nor deletes.
Bare(r) == \A k \in 1..Len(r) : At(r, k).pc \notin Coming \cup {"deleted"}

MessageBare == stack'[1] = stack[1] \/ (stack[1] = <<>> /\ Bare(stack'[1]))

LEMMA BareOpens ==
    ASSUME IInv, Serial, NEW f, NEW g, f.pc \notin Coming \cup {"deleted"},
           g.pc \notin Coming \cup {"deleted"},
           \/ Spawn(<<f>>) \/ SpawnWaiting(<<f>>)
           \/ Spawn(<<f, g>>) \/ SpawnWaiting(<<f, g>>)
    PROVE  MessageBare
<1>1. Base(<<>>) = 0
  BY DEF Base
<1>2. CASE Spawn(<<f>>) \/ SpawnWaiting(<<f>>)
  <2>1. stack[1] = <<>> /\ Piled1(<<>>, stack'[1], f)
    BY <1>2, Begins
  <2>2. Len(stack'[1]) = 1 /\ At(stack'[1], 1) = f
    BY <1>1, <2>1 DEF Piled1
  <2> QED
    BY <2>1, <2>2 DEF Bare, MessageBare
<1>3. CASE Spawn(<<f, g>>) \/ SpawnWaiting(<<f, g>>)
  <2>1. stack[1] = <<>> /\ Piled2(<<>>, stack'[1], f, g)
    BY <1>3, Begins
  <2>2. Len(stack'[1]) = 2 /\ At(stack'[1], 2) = f /\ At(stack'[1], 1) = g
    BY <1>1, <2>1 DEF Piled2
  <2> QED
    BY <2>1, <2>2 DEF Bare, MessageBare
<1> QED
  BY <1>2, <1>3

\* Every message but entergame.
LEMMA OthersBare ==
    ASSUME IInv, Serial, Message,
           ~\E a \in Agents, r \in Roles :
              EnterGame(a, r) \/ \E home \in BOOLEAN : EnterByToken(a, r, home)
    PROVE  MessageBare
<1>1. CASE UNCHANGED stack
  BY <1>1 DEF MessageBare
<1>2. ASSUME NEW pc, NEW p, NEW o, NEW d, pc \notin Coming \cup {"deleted"},
             Spawn(<<Frame(pc, p, o, d)>>) \/ SpawnWaiting(<<Frame(pc, p, o, d)>>)
      PROVE  MessageBare
  <2> DEFINE f == Frame(pc, p, o, d)
  <2>1. f.pc = pc
    BY DEF Frame
  <2> HIDE DEF f
  <2>2. Spawn(<<f>>) \/ SpawnWaiting(<<f>>)
    BY <1>2 DEF f
  <2> QED
    BY <1>2, <2>1, <2>2, BareOpens
<1>3. ASSUME NEW pc, NEW p, NEW o, NEW d, NEW pc2, NEW p2, NEW o2, NEW d2,
             pc \notin Coming \cup {"deleted"}, pc2 \notin Coming \cup {"deleted"},
             Spawn(<<Frame(pc, p, o, d), Frame(pc2, p2, o2, d2)>>)
      PROVE  MessageBare
  <2> DEFINE f == Frame(pc, p, o, d)
             g == Frame(pc2, p2, o2, d2)
  <2>1. f.pc = pc /\ g.pc = pc2
    BY DEF Frame
  <2> HIDE DEF f, g
  <2>2. Spawn(<<f, g>>)
    BY <1>3 DEF f, g
  <2> QED
    BY <1>3, <2>1, <2>2, BareOpens
<1>4. ASSUME NEW a \in Agents, Client(a) PROVE MessageBare
  <2>1. CASE Start(a) \/ Login(a) \/ Play(a) \/ \E r \in Roles : EnterQueued(a, r)
    BY <1>1, <2>1 DEF Start, Login, Play, EnterQueued
  <2>2. CASE Close(a)
    <3>1. \/ UNCHANGED stack
          \/ Spawn(<< Frame("delobject", conn[a], None, None), Frame("closed", a, None, None) >>)
      BY <2>2 DEF Close
    <3> QED
      BY <1>1, <1>3, <3>1 DEF Coming
  <2>3. CASE ExitRequest(a) \/ GoRequest(a)
    <3>1. \/ SpawnWaiting(<< Frame("exitgame", None, Requester(a), None) >>)
          \/ SpawnWaiting(<< Frame("reentergame", PidOf(Requester(a)), None, None) >>)
      BY <2>3 DEF ExitRequest, GoRequest
    <3> QED
      BY <1>2, <3>1 DEF Coming
  <2> QED
    BY <1>4, <2>1, <2>2, <2>3 DEF Client
<1>5. CASE Server
  <2>1. ASSUME NEW r \in Roles, SetGoSrv(r) \/ LoadOffline(r) PROVE MessageBare
    <3>1. \/ UNCHANGED stack
          \/ Spawn(<< Frame("recoverplayer", r, None, None), Frame("addkuafu", r, None, None) >>)
          \/ Spawn(<< Frame("newplayer", r, None, None), Frame("addoffline", r, None, None) >>)
      BY <2>1 DEF SetGoSrv, LoadOffline
    <3> QED
      BY <1>1, <1>3, <3>1 DEF Coming
  <2>2. ASSUME NEW p \in Pids, GmKick(p) PROVE MessageBare
    <3>1. Spawn(<< Frame("kick", p, None, None) >>)
      BY <2>2 DEF GmKick
    <3> QED
      BY <1>2, <3>1 DEF Coming
  <2>3. ASSUME NEW o \in Players, AutoSave(o) \/ GrowIdle(o) PROVE MessageBare
    <3>1. UNCHANGED stack \/ SpawnWaiting(<< Frame("saved", None, o, None) >>)
      BY <2>3 DEF AutoSave, GrowIdle
    <3> QED
      BY <1>1, <1>2, <3>1 DEF Coming
  <2> QED
    BY <1>5, <2>1, <2>2, <2>3 DEF Server
<1> QED
  BY <1>4, <1>5 DEF Message

LEMMA RoomOpened ==
    ASSUME IInv, IInv', Serial, H = 0, NEW f, NEW g, NEW h
    PROVE  LET T == Surplus(Comers', Goers', H')
           IN /\ Piled1(<<>>, stack'[1], f) => T = NewWeight(f)
              /\ Piled2(<<>>, stack'[1], f, g) => T = NewWeight(f) + NewWeight(g)
              /\ Piled3(<<>>, stack'[1], f, g, h) => T = NewWeight(f) + NewWeight(g) + NewWeight(h)
<1> DEFINE T(n) == Surplus(Comers', Goers', n)
<1>1. Base(<<>>) = 0
  BY DEF Base
<1>2. \A x : NewWeight(x) \in Int
  BY DEF NewWeight, Bit
<1>3. T(0) = 0
  BY SurplusNext
<1>4. \A k \in 1..H' : T(k) = T(k - 1) + NewWeight(At(stack'[1], k))
  BY RoomTop
<1> HIDE DEF T
<1>5. ASSUME Piled1(<<>>, stack'[1], f) PROVE T(H') = NewWeight(f)
  <2>1. H' = 1 /\ At(stack'[1], 1) = f
    BY <1>1, <1>5 DEF Piled1, H
  <2>2. T(1) = T(0) + NewWeight(f)
    <3>1. 1 \in 1..H' /\ 1 - 1 = 0
      BY <2>1
    <3> QED
      BY <1>4, <2>1, <3>1
  <2> QED
    BY <1>2, <1>3, <2>1, <2>2
<1>6. ASSUME Piled2(<<>>, stack'[1], f, g) PROVE T(H') = NewWeight(f) + NewWeight(g)
  <2>1. H' = 2 /\ At(stack'[1], 2) = f /\ At(stack'[1], 1) = g
    BY <1>1, <1>6 DEF Piled2, H
  <2>2. T(2) = T(1) + NewWeight(f) /\ T(1) = T(0) + NewWeight(g)
    <3>1. 1 \in 1..H' /\ 1 - 1 = 0 /\ 2 \in 1..H' /\ 2 - 1 = 1
      BY <2>1
    <3> QED
      BY <1>4, <2>1, <3>1
  <2> QED
    BY <1>2, <1>3, <2>1, <2>2
<1>7. ASSUME Piled3(<<>>, stack'[1], f, g, h)
      PROVE  T(H') = NewWeight(f) + NewWeight(g) + NewWeight(h)
  <2>1. H' = 3 /\ At(stack'[1], 3) = f /\ At(stack'[1], 2) = g /\ At(stack'[1], 1) = h
    BY <1>1, <1>7 DEF Piled3, H
  <2>2. T(3) = T(2) + NewWeight(f) /\ T(2) = T(1) + NewWeight(g) /\ T(1) = T(0) + NewWeight(h)
    <3>1. 1 \in 1..H' /\ 1 - 1 = 0 /\ 2 \in 1..H' /\ 2 - 1 = 1 /\ 3 \in 1..H' /\ 3 - 1 = 2
      BY <2>1
    <3> QED
      BY <1>4, <2>1, <3>1
  <2> QED
    BY <1>2, <1>3, <2>1, <2>2
<1> QED
  BY <1>5, <1>6, <1>7 DEF T

\* entergame brings at most one player.
LEMMA RoomEnters ==
    ASSUME IInv, IInv', Serial, NEW a \in Agents, NEW r \in Roles,
           EnterGame(a, r) \/ \E home \in BOOLEAN : EnterByToken(a, r, home)
    PROVE  H = 0 /\ Surplus(Comers', Goers', H') \in Int /\ Surplus(Comers', Goers', H') <= 1
<1>1. PICK pc \in {"sethome", "nettransfer"} :
         \/ Spawn(<<Frame("recoverplayer", r, None, None), Frame(pc, None, Requester(a), None)>>)
         \/ Spawn(<<Frame("kick", r, None, None), Frame("recoverplayer", r, None, None),
                    Frame(pc, None, Requester(a), None)>>)
         \/ Spawn(<<Frame("gosrv", Requester(a), None, None)>>)
         \/ Spawn(<<Frame("kick", r, None, None), Frame("gosrv", Requester(a), None, None)>>)
  BY EnterSpawns
<1> DEFINE K == Frame("kick", r, None, None)
           R == Frame("recoverplayer", r, None, None)
           N == Frame(pc, None, Requester(a), None)
           G == Frame("gosrv", Requester(a), None, None)
<1>2. K.pc = "kick" /\ R.pc = "recoverplayer" /\ N.pc \in {"sethome", "nettransfer"}
      /\ G.pc = "gosrv"
  BY DEF Frame
<1>3. Spawn(<<R, N>>) \/ Spawn(<<K, R, N>>) \/ Spawn(<<G>>) \/ Spawn(<<K, G>>)
  BY <1>1
<1> HIDE DEF K, R, N, G
<1>4. stack[1] = <<>>
  BY <1>3, Begins
<1>5. \/ Piled2(<<>>, stack'[1], R, N) \/ Piled3(<<>>, stack'[1], K, R, N)
      \/ Piled1(<<>>, stack'[1], G) \/ Piled2(<<>>, stack'[1], K, G)
  BY <1>3, <1>4, Begins
<1>6. H = 0
  BY <1>4 DEF H
<1>7. NewWeight(K) = 0 /\ NewWeight(R) = 0 /\ NewWeight(N) = 1 /\ NewWeight(G) = 0
  BY <1>2, Weights DEF Coming
<1> QED
  BY <1>5, <1>6, <1>7, RoomOpened

LEMMA RoomMessage ==
    ASSUME FreshInv, FreshInv', Serial, RoomKept, Message
    PROVE  RoomKept'
<1>0. IInv /\ IInv' /\ KnownKept /\ [Next]_vars
  <2>1. [Next]_vars
    BY DEF Message, Next
  <2> QED
    BY <2>1, ObjectsKept DEF FreshInv
<1> DEFINE S == Surplus(Comers, Goers, H)
           T == Surplus(Comers', Goers', H')
<1>1. /\ S \in Int /\ T \in Int /\ cnt["online"] \in Int /\ cnt'["online"] = cnt["online"]
      /\ OnlineLimit \in Nat /\ tokened \in Nat /\ tokened' \in Nat /\ tokened' >= tokened
      /\ cnt["online"] + S <= OnlineLimit + tokened
      /\ H = 0 => S = 0
  <2>1. cnt["online"] \in Int
    BY <1>0 DEF IInv, RegType, States
  <2>2. H = 0 => S = 0
    BY SurplusNext
  <2> QED
    BY <1>0, <2>1, <2>2, Heights, RoomTop, TokenedGrows, MessageTables, BoundsAssumption
       DEF RoomKept
<1> HIDE DEF S, T
<1> SUFFICES cnt'["online"] + T <= OnlineLimit + tokened'
  BY DEF RoomKept, Surplus, T
<1>2. ASSUME NEW a \in Agents, NEW r \in Roles, EnterGame(a, r)
      PROVE  cnt'["online"] + T <= OnlineLimit + tokened'
  <2>1. T <= 1
    BY <1>0, <1>2, RoomEnters DEF T
  <2>2. cnt["online"] < OnlineLimit
    BY <1>1, <1>2 DEF EnterGame, Full
  <2> QED
    BY <1>1, <2>1, <2>2
<1>3. ASSUME NEW a \in Agents, NEW r \in Roles, NEW home \in BOOLEAN, EnterByToken(a, r, home)
      PROVE  cnt'["online"] + T <= OnlineLimit + tokened'
  <2>1. H = 0 /\ T <= 1
    BY <1>0, <1>3, RoomEnters DEF T
  <2>2. tokened' = tokened + 1
    BY <1>0, <1>3, TokenedGrows
  <2> QED
    BY <1>1, <2>1, <2>2
<1>4. CASE MessageBare
  <2>1. CASE stack'[1] = stack[1]
    <3>1. H' = H /\ H \in Nat
      BY <1>0, <2>1, Heights DEF H
    <3>2. T = S
      BY <1>0, <2>1, <3>1, RoomBelow DEF F, S, T
    <3> QED
      BY <1>1, <3>2
  <2>2. CASE stack[1] = <<>> /\ Bare(stack'[1])
    <3>1. H = 0
      BY <2>2 DEF H
    <3>2. \A k \in 1..H' : k \notin Comers' /\ k \notin Goers'
      BY <2>2 DEF Bare, Comers, Goers, F, H
    <3>3. \A k \in 1..H' : (k \in {} <=> k \in Comers') /\ (k \in {} <=> k \in Goers')
      BY <3>2
    <3>4. T = Surplus({}, {}, H')
      BY <1>0, <3>3, Heights, SurplusSame DEF T
    <3>5. Surplus({}, {}, H') = 0
      BY FS_EmptySet DEF Surplus
    <3> QED
      BY <1>1, <3>1, <3>4, <3>5
  <2> QED
    BY <1>4, <2>1, <2>2 DEF MessageBare
<1> QED
  BY <1>0, <1>2, <1>3, <1>4, OthersBare

LEMMA RoomAlways ==
    ASSUME Serial
    PROVE  Spec => []RoomKept
<1>1. Init => RoomKept
  <2> SUFFICES ASSUME Init PROVE RoomKept
    OBVIOUS
  <2>1. H = 0 /\ cnt["online"] = 0 /\ tokened = 0
    BY OneTask DEF Init, H, States
  <2>2. Surplus(Comers, Goers, 0) = 0
    BY SurplusNext
  <2> QED
    BY <2>1, <2>2, BoundsAssumption DEF RoomKept
<1>2. FreshInv /\ FreshInv' /\ LinkInv /\ SerialInv /\ RoomKept /\ [Next]_vars => RoomKept'
  <2> SUFFICES ASSUME FreshInv, FreshInv', LinkInv, SerialInv, RoomKept, [Next]_vars
               PROVE  RoomKept'
    OBVIOUS
  <2>1. ASSUME NEW t \in Tasks, Step(t) PROVE RoomKept'
    BY <2>1, RoomStep
  <2>2. CASE Message
    BY <2>2, RoomMessage
  <2>3. CASE UNCHANGED vars
    BY <2>3 DEF vars, reg, heap, world, RoomKept, Comers, Goers, H, F, Online
  <2> QED
    BY <2>1, <2>2, <2>3 DEF Next, Quiet, Message
<1> QED
  BY <1>1, <1>2, SerialAlways, PTL DEF Spec

(***************************************************************************)
(* What it gives.  Serial is an assumption of every theorem: one handler   *)
(* runs at a time, and no player asks for another role, which entergame    *)
(* accepts.                                                                *)
(***************************************************************************)
\* Login, kick, the queue and entergame never let two connections play one role:
\* the old client is cut off before the role is registered again.
THEOREM OneClientEach ==
    ASSUME Serial
    PROVE  Spec => []OneClientPerRole
<1>1. SerialInv => OneClientPerRole
  <2> SUFFICES ASSUME SerialInv, NEW a \in Agents, NEW b \in Agents, conn[a] = conn[b],
                      conn[a] \in Roles
               PROVE  a = b
    BY DEF OneClientPerRole
  <2>1. /\ \/ OnlineAt(conn[a]) /\ obj[id_obj[conn[a]]].agent = a
           \/ id_obj[conn[a]] = None /\ Losing(a)
        /\ \/ OnlineAt(conn[a]) /\ obj[id_obj[conn[a]]].agent = b
           \/ id_obj[conn[a]] = None /\ Losing(b)
    BY DEF SerialInv, Playing
  <2>2. Losing(a) /\ Losing(b) => a = b
    BY DEF Losing
  <2> QED
    BY <2>1, <2>2 DEF OnlineAt
<1> QED
  BY <1>1, SerialAlways, PTL

\* While no player asks for another role, onlinenum is the number of online players, at
\* every step of every handler, though it is counted up and down by state in addobject
\* and delobject, and the state of an object changes in between.
THEOREM OnlineCountExact ==
    ASSUME Serial
    PROVE  Spec => []OnlineExact
<1>1. SerialInv => OnlineExact
  BY DEF SerialInv
<1> QED
  BY <1>1, SerialAlways, PTL

LEMMA NoHandler ==
    ASSUME Serial, NoTask
    PROVE  H = 0
<1>1. stack[1] = <<>>
  BY OneTask DEF NoTask
<1> QED
  BY <1>1 DEF H

\* Between handlers a connection that plays a role has that role's online object and
\* its fd mark.
THEOREM ClientsInGame ==
    ASSUME Serial
    PROVE  Spec => []ClientInGame
<1>1. SerialInv => ClientInGame
  <2> SUFFICES ASSUME SerialInv, NoTask, NEW a \in Agents, conn[a] \in Roles
               PROVE  /\ OnlineAt(conn[a]) /\ obj[id_obj[conn[a]]].agent = a
                      /\ fd_id[a] = conn[a]
    BY DEF ClientInGame
  <2>1. ~Losing(a)
    BY NoHandler DEF Losing
  <2> QED
    BY <2>1 DEF SerialInv, Playing
<1> QED
  BY <1>1, SerialAlways, PTL

\* Between handlers the autosave manager holds the registered players and no others:
\* none is lost without being saved, and none is saved after it has left.
THEOREM AutosavedExactly ==
    ASSUME Serial
    PROVE  Spec => []AutosavedIffRegistered
<1>1. FreshInv /\ SerialInv => AutosavedIffRegistered
  <2> SUFFICES ASSUME FreshInv, SerialInv, NoTask
               PROVE  saving = {id_obj[r] : r \in Registered \cap Roles}
    BY DEF AutosavedIffRegistered
  <2>1. \A o \in saving : obj[o].pid \in Roles /\ o # None /\ id_obj[obj[o].pid] = o
    <3>1. SavedKnown
      BY SavingKnown DEF FreshInv, SerialInv
    <3> QED
      BY <3>1, Names DEF SavedKnown, SerialInv, SavingReg, Objs
  <2>2. ASSUME NEW r \in Roles, id_obj[r] # None PROVE id_obj[r] \in saving
    <3>1. ~Doomed(id_obj[r])
      <4>1. \A t \in Tasks : stack[t] = <<>>
        BY DEF NoTask, Free
      <4>2. \A t \in Tasks : 1..Len(stack[t]) = {}
        BY <4>1
      <4> QED
        BY <4>2 DEF Doomed
    <3> QED
      BY <2>2, <3>1 DEF SerialInv, RegState
  <2> QED
    BY <2>1, <2>2 DEF Registered, Pids
<1> QED
  BY <1>1, SerialAlways, PTL

\* No object writes data that is older than the data already saved: not the autosave
\* timer, a logoff, a deletion or an unload that waited for the database meanwhile.
THEOREM SavesNeverGoBack ==
    ASSUME Serial
    PROVE  Spec => NoStaleSave
<1>1. FreshInv /\ SerialInv /\ DataInv /\ [Next]_vars => [\A r \in Roles : db'[r] >= db[r]]_db
  <2> SUFFICES ASSUME FreshInv, SerialInv, DataInv, [Next]_vars, NEW r \in Roles
               PROVE  db'[r] >= db[r]
    OBVIOUS
  <2>1. Shape(stack[1]) /\ SavingReg /\ Leaving /\ RegData
    BY DEF SerialInv, DataInv
  <2>2. db \in [Roles -> Nat]
    BY DEF FreshInv, IInv, WorldType
  <2>3. ASSUME NEW y \in Players, Writes(y) PROVE db'[r] >= db[r]
    <3>1. id_obj[obj[y].pid] = y /\ y # None /\ obj[y].pid \in Roles
      BY <2>3, Names DEF Writes, Objs
    <3>2. obj[y].data >= db[obj[y].pid]
      BY <2>1, <3>1 DEF RegData
    <3> QED
      BY <2>2, <2>3, <3>2 DEF Writes
  <2>4. ASSUME db' = db PROVE db'[r] >= db[r]
    BY <2>2, <2>4
  <2> QED
    BY <2>1, <2>3, <2>4, DataMoves DEF Steady, Plays, Makes
<1> QED
  BY <1>1, SerialAlways, DataAlways, PTL DEF Spec, NoStaleSave

\* The server implements the abstract role store: a role's data is one value that only
\* the play of its one connection changes, and a role is free before it is taken again.
THEOREM RolesAreKept ==
    ASSUME Serial
    PROVE  Spec => KeepsRoles
<1>1. Init => Store!Init
  <2> SUFFICES ASSUME Init PROVE Store!Init
    OBVIOUS
  <2>1. \A r \in Roles : Value(r) = 0 /\ Holder(r) = None
    BY DEF Init, Value, Holder, OnlineAt, Pids
  <2> QED
    BY <2>1 DEF Store!Init
<1>2. FreshInv /\ FreshInv' /\ LinkInv /\ SerialInv /\ DataInv /\ [Next]_vars
      => [Store!Next]_<<[r \in Roles |-> Value(r)], [r \in Roles |-> Holder(r)]>>
  BY RolesStep
<1>3. Spec => Store!Init
  BY <1>1, PTL DEF Spec
<1>4. Spec => [][Store!Next]_<<[r \in Roles |-> Value(r)], [r \in Roles |-> Holder(r)]>>
  BY <1>2, SerialAlways, DataAlways, PTL DEF Spec
<1>5. Spec => Store!Spec
  BY <1>3, <1>4, PTL DEF Store!Spec
<1> QED
  BY <1>5 DEF KeepsRoles

\* Between handlers onlinenum is at most the limit, plus one for each entergame request
\* that carried a token, of another server or any string from a client that is logged
\* in: the place that a logoff frees is given to one client of the queue, although that
\* client comes before the leaving player is counted out.
THEOREM LimitKept ==
    ASSUME Serial
    PROVE  Spec => []LimitRespected
<1>1. FreshInv /\ RoomKept => LimitRespected
  <2> SUFFICES ASSUME FreshInv, RoomKept, NoTask
               PROVE  cnt["online"] <= OnlineLimit + tokened
    BY DEF LimitRespected
  <2>1. H = 0 /\ Surplus(Comers, Goers, 0) = 0
    BY NoHandler, SurplusNext
  <2>2. cnt["online"] \in Int /\ tokened \in Int /\ OnlineLimit \in Int
    BY BoundsAssumption DEF FreshInv, IInv, RegType, WorldType, States
  <2> QED
    BY <2>1, <2>2 DEF RoomKept
<1> QED
  BY <1>1, SerialAlways, RoomAlways, PTL

=============================================================================
