--------------------------- MODULE SessionOverlap ---------------------------
(***************************************************************************)
(* Theorems about handlers that overlap: what a delayed kick, close,       *)
(* transfer or autosave of one handler does to the objects of another.     *)
(*                                                                         *)
(* A frame is named by its height, its place counted from the bottom of    *)
(* the stack, which it keeps while the handler makes the calls above it.   *)
(***************************************************************************)
EXTENDS SessionProofs

At(s, k) == s[Len(s) + 1 - k]

\* The calls that wait in some handler: the end of CMD.close for the agent, the
\* loss of the agent's connection, the end of a delobject of the object.
Closing(a) == \E t \in Tasks : \E i \in 1..Len(stack[t]) :
                 stack[t][i].pc = "closed" /\ stack[t][i].pid = a

Kicking(a) == \E t \in Tasks : \E i \in 1..Len(stack[t]) :
                 stack[t][i].pc = "protokick" /\ stack[t][i].src = a

Doomed(o) == \E t \in Tasks : \E i \in 1..Len(stack[t]) :
                stack[t][i].pc = "deleted" /\ stack[t][i].src = o

\* The frame at height k of handler t holds the new object o, which it will add.
Holds(t, k, o) == /\ k \in 1..Len(stack[t])
                  /\ At(stack[t], k).pc \in Takers
                  /\ At(stack[t], k).dst = o

\* A frame that is none of these.
Ordinary(f) == /\ f.pc \notin {"closed", "protokick", "deleted"}
               /\ f.pc \in Takers => f.dst = None

(***************************************************************************)
(* What a step does to the calls that wait.                                *)
(***************************************************************************)
HoldsKept == \A u \in Tasks, k \in Nat, o \in Players : Holds(u, k, o)' => Holds(u, k, o)

\* Afterwards no frame of handler t above height m holds an object.
NoneAbove(t, m) == \A k \in Nat, o \in Players : Holds(t, k, o)' => k <= m

\* A handler's stack keeps its frames up to height m.
Kept(s, r, m) ==
    /\ m \in 0..Len(s) /\ m <= Len(r)
    /\ \A k \in 1..m : At(r, k) = At(s, k)

\* The calls that are added are among the frames N, and none of these holds an object.
Brings(N) ==
    /\ \A a \in Agents : Closing(a)' =>
          Closing(a) \/ \E f \in N : f.pc = "closed" /\ f.pid = a
    /\ \A a \in Agents : Kicking(a)' =>
          Kicking(a) \/ \E f \in N : f.pc = "protokick" /\ f.src = a
    /\ \A o \in Players : Doomed(o)' =>
          Doomed(o) \/ \E f \in N : f.pc = "deleted" /\ f.src = o

\* The frames above height m of the new stack r are the only ones that hold objects
\* they did not hold.
Hands(t, r, m) ==
    \A u \in Tasks, k \in Nat, o \in Players : Holds(u, k, o)' =>
       \/ Holds(u, k, o) /\ (u = t => k <= m)
       \/ u = t /\ k \in (m + 1)..Len(r) /\ At(r, k).pc \in Takers /\ At(r, k).dst = o

HoldNothing(N) == \A f \in N : f.pc \in Takers => f.dst = None

LEMMA Turn ==
    ASSUME IInv, IInv', NEW t \in Tasks, NEW r, stack' = [stack EXCEPT ![t] = r],
           NEW m, Kept(stack[t], r, m),
           NEW N, \A k \in (m + 1)..Len(r) : At(r, k) \in N
    PROVE  /\ Brings(N)
           /\ Hands(t, r, m)
           /\ HoldNothing(N) => HoldsKept /\ NoneAbove(t, m)
<1>1. /\ stack \in [Tasks -> Seq(FrameType)] /\ r \in Seq(FrameType)
      /\ stack'[t] = r /\ \A u \in Tasks \ {t} : stack'[u] = stack[u]
  BY DEF IInv, StackInv
<1>2. Len(r) \in Nat /\ Len(stack[t]) \in Nat /\ m \in Nat /\ m <= Len(stack[t])
  BY <1>1, LenProperties DEF Kept
\* A frame is an old one, or above height m.
<1>3. ASSUME NEW u \in Tasks, NEW i \in 1..Len(stack'[u])
      PROVE  \/ \E j \in 1..Len(stack[u]) : stack'[u][i] = stack[u][j]
             \/ stack'[u][i] \in N
  <2>1. CASE u # t
    BY <1>1, <2>1
  <2>2. CASE u = t
    <3> DEFINE k == Len(r) + 1 - i
    <3>1. i \in 1..Len(r) /\ k \in 1..Len(r) /\ stack'[u][i] = At(r, k)
      <4>1. i \in 1..Len(r)
        BY <1>1, <2>2
      <4>2. Len(r) + 1 - (Len(r) + 1 - i) = i /\ k \in 1..Len(r)
        BY <1>2, <4>1
      <4> QED
        BY <1>1, <2>2, <4>1, <4>2 DEF At
    <3>2. CASE k <= m
      <4>1. k \in 1..m
        BY <1>2, <3>1, <3>2
      <4>2. At(r, k) = At(stack[t], k)
        BY <4>1 DEF Kept
      <4>3. Len(stack[t]) + 1 - k \in 1..Len(stack[t])
        <5> HIDE DEF k
        <5> QED
          BY <1>2, <4>1
      <4> HIDE DEF k
      <4> QED
        BY <2>2, <3>1, <4>2, <4>3 DEF At
    <3>3. CASE k > m
      BY <1>2, <3>1, <3>3
    <3> QED
      BY <1>2, <3>1, <3>2, <3>3
  <2> QED
    BY <2>1, <2>2
<1>4. Brings(N)
  BY <1>3 DEF Brings, Closing, Kicking, Doomed
<1>5. ASSUME NEW u \in Tasks, NEW k \in Nat, NEW o \in Players, Holds(u, k, o)'
      PROVE  \/ Holds(u, k, o) /\ (u = t => k <= m)
             \/ u = t /\ k \in (m + 1)..Len(r) /\ At(r, k).pc \in Takers /\ At(r, k).dst = o
  <2>1. /\ k \in 1..Len(stack'[u]) /\ At(stack'[u], k).pc \in Takers
        /\ At(stack'[u], k).dst = o
    BY <1>5 DEF Holds
  <2>2. CASE u # t
    BY <1>1, <2>1, <2>2 DEF Holds
  <2>3. CASE u = t /\ k <= m
    <3>1. k \in 1..Len(r) /\ At(r, k).pc \in Takers /\ At(r, k).dst = o
      BY <1>1, <2>1, <2>3
    <3>2. k \in 1..m /\ k \in 1..Len(stack[t])
      BY <1>2, <2>3, <3>1
    <3>3. At(r, k) = At(stack[t], k)
      BY <3>2 DEF Kept
    <3> QED
      BY <2>3, <3>1, <3>2, <3>3 DEF Holds
  <2>4. CASE u = t /\ k > m
    BY <1>1, <1>2, <2>1, <2>4
  <2> QED
    BY <1>2, <2>2, <2>3, <2>4
<1>6. ASSUME HoldNothing(N), NEW u \in Tasks, NEW k \in Nat, NEW o \in Players, Holds(u, k, o)'
      PROVE  Holds(u, k, o) /\ (u = t => k <= m)
  <2>1. o # None
    BY Names DEF Objs
  <2> QED
    BY <1>5, <1>6, <2>1 DEF HoldNothing
<1> QED
  BY <1>4, <1>5, <1>6 DEF HoldsKept, NoneAbove, Hands

NoClose == \A a \in Agents : Closing(a)' => Closing(a)
NoKick  == \A a \in Agents : Kicking(a)' => Kicking(a)
NoDoom  == \A o \in Players : Doomed(o)' => Doomed(o)

\* A step that adds none of these calls and hands no object on.
Calm == NoClose /\ NoKick /\ NoDoom /\ HoldsKept

LEMMA SeqGrows ==
    ASSUME NEW A, NEW B, A \subseteq B, NEW s \in Seq(A)
    PROVE  s \in Seq(B)
<1>1. Len(s) \in Nat /\ \A i \in 1..Len(s) : s[i] \in B
  BY LenProperties, ElementOfSeq
<1> QED
  BY <1>1, SeqDef, LenProperties

\* The first frame of a stack becomes other frames: the ones below stay.
LEMMA Below ==
    ASSUME NEW S, NEW s \in Seq(S), s # <<>>, NEW F, NEW frames \in Seq(F)
    PROVE  LET r == frames \o Tail(s)
           IN /\ Kept(s, r, Len(s) - 1)
              /\ Len(r) = Len(frames) + Len(s) - 1
              /\ \A k \in Len(s)..Len(r) : \E j \in 1..Len(frames) :
                    j = Len(r) + 1 - k /\ At(r, k) = frames[j]
<1> DEFINE r == frames \o Tail(s)
           n == Len(s)
           l == Len(frames)
<1>1. s \in Seq(S \cup F) /\ frames \in Seq(S \cup F)
  BY SeqGrows
<1>2. /\ Len(r) = l + n - 1
      /\ \A i \in 1..Len(r) : r[i] = IF i <= l THEN frames[i] ELSE s[i - l + 1]
  BY <1>1, Replaced
<1>3. n \in Nat /\ l \in Nat /\ n > 0
  BY EmptySeq, LenProperties
<1> HIDE DEF r, n, l
<1>4. ASSUME NEW k \in 1..(n - 1)
      PROVE  At(r, k) = At(s, k)
  <2>1. PICK i \in 1..Len(r) : i = Len(r) + 1 - k
    BY <1>2, <1>3
  <2>2. ~(i <= l) /\ i - l + 1 = n + 1 - k
    BY <1>2, <1>3, <2>1
  <2>3. r[i] = s[n + 1 - k]
    BY <1>2, <2>2
  <2> QED
    BY <2>1, <2>3 DEF At, n
<1>5. ASSUME NEW k \in n..Len(r)
      PROVE  \E j \in 1..l : j = Len(r) + 1 - k /\ At(r, k) = frames[j]
  <2>1. Len(r) + 1 - k \in 1..Len(r) /\ Len(r) + 1 - k \in 1..l
    BY <1>2, <1>3
  <2>2. At(r, k) = r[Len(r) + 1 - k] /\ r[Len(r) + 1 - k] = frames[Len(r) + 1 - k]
    BY <1>2, <2>1 DEF At
  <2> QED
    BY <2>1, <2>2
<1>6. Kept(s, r, n - 1)
  BY <1>2, <1>3, <1>4 DEF Kept, n
<1> QED
  BY <1>2, <1>5, <1>6 DEF r, n, l

LEMMA Replacing ==
    ASSUME IInv, IInv', NEW t \in Tasks, stack[t] # <<>>, NEW N, NEW frames \in Seq(N),
           Continue(t, frames) \/ Suspend(t, frames)
    PROVE  Brings(N) /\ (HoldNothing(N) => HoldsKept /\ NoneAbove(t, Len(stack[t]) - 1))
<1> DEFINE r == frames \o Tail(stack[t])
           m == Len(stack[t]) - 1
<1>1. stack[t] \in Seq(FrameType) /\ Len(stack[t]) \in Nat
  BY LenProperties DEF IInv, StackInv
<1>2. stack' = [stack EXCEPT ![t] = r]
  BY DEF Continue, Suspend
<1>3. Kept(stack[t], r, m)
  BY <1>1, Below
<1>4. \A k \in (m + 1)..Len(r) : At(r, k) \in N
  <2>1. \A k \in Len(stack[t])..Len(r) : \E j \in 1..Len(frames) :
          j = Len(r) + 1 - k /\ At(r, k) = frames[j]
    BY <1>1, Below
  <2>2. \A j \in 1..Len(frames) : frames[j] \in N
    BY ElementOfSeq
  <2>3. m + 1 = Len(stack[t])
    BY <1>1
  <2> HIDE DEF r, m
  <2> QED
    BY <2>1, <2>2, <2>3
<1> HIDE DEF r, m
<1>5. Brings(N) /\ (HoldNothing(N) => HoldsKept /\ NoneAbove(t, m))
  BY <1>2, <1>3, <1>4, Turn
<1> QED
  BY <1>5 DEF m

LEMMA OrdinaryBring ==
    ASSUME NEW N, \A f \in N : Ordinary(f)
    PROVE  HoldNothing(N) /\ (Brings(N) => NoClose /\ NoKick /\ NoDoom)
BY DEF Ordinary, HoldNothing, Brings, NoClose, NoKick, NoDoom

LEMMA ReplacedCalm ==
    ASSUME IInv, IInv', NEW t \in Tasks, stack[t] # <<>>,
           NEW N, \A f \in N : Ordinary(f), NEW frames \in Seq(N),
           Continue(t, frames) \/ Suspend(t, frames)
    PROVE  Calm /\ NoneAbove(t, Len(stack[t]) - 1)
BY Replacing, OrdinaryBring DEF Calm

LEMMA EndedCalm ==
    ASSUME IInv, IInv', NEW t \in Tasks, stack[t] # <<>>, Continue(t, <<>>)
    PROVE  Calm /\ NoneAbove(t, Len(stack[t]) - 1)
<1> <<>> \in Seq({})
  OBVIOUS
<1> QED
  BY ReplacedCalm

LEMMA OneCalm ==
    ASSUME IInv, IInv', NEW t \in Tasks, stack[t] # <<>>, NEW f, Ordinary(f),
           Continue(t, <<f>>) \/ Suspend(t, <<f>>)
    PROVE  Calm /\ NoneAbove(t, Len(stack[t]) - 1)
<1> <<f>> \in Seq({f})
  OBVIOUS
<1> QED
  BY ReplacedCalm

LEMMA TwoCalm ==
    ASSUME IInv, IInv', NEW t \in Tasks, stack[t] # <<>>, NEW f, Ordinary(f), NEW g, Ordinary(g),
           Continue(t, <<f, g>>) \/ Suspend(t, <<f, g>>)
    PROVE  Calm /\ NoneAbove(t, Len(stack[t]) - 1)
<1> <<f, g>> \in Seq({f, g})
  OBVIOUS
<1> QED
  BY ReplacedCalm

\* What is left of a stack after an error is its lower part.
LEMMA Unwound ==
    ASSUME NEW s \in Seq(FrameType)
    PROVE  Kept(s, Unwind(s), Len(Unwind(s)))
<1> DEFINE caught == {i \in 2..Len(s) : s[i].pc = "deleted"}
           first == CHOOSE i \in caught : \A j \in caught : i <= j
<1>1. Len(s) \in Nat
  BY LenProperties
<1>2. CASE caught = {}
  <2>1. Unwind(s) = <<>> /\ Len(<<>>) = 0
    BY <1>2 DEF Unwind
  <2> QED
    BY <1>1, <2>1 DEF Kept
<1>3. CASE caught # {}
  <2>1. Unwind(s) = SubSeq(s, first, Len(s))
    BY <1>3 DEF Unwind
  <2>2. \E i \in caught : \A j \in caught : i <= j
    <3>1. caught \in SUBSET Nat
      BY <1>1
    <3> HIDE DEF caught
    <3> QED
      BY <1>3, <3>1, LeastElement
  <2>3. first \in caught
    <3> HIDE DEF caught
    <3> QED
      BY <2>2
  <2>4. first \in 2..Len(s)
    BY <2>3
  <2> HIDE DEF first
  <2> DEFINE u == SubSeq(s, first, Len(s))
  <2>5. \A i \in first..Len(s) : s[i] \in FrameType
    BY <1>1, <2>4, ElementOfSeq
  <2>6. Len(u) = Len(s) - first + 1 /\ \A i \in 1..Len(u) : u[i] = s[first + i - 1]
    BY <1>1, <2>4, <2>5, SubSeqProperties
  <2> HIDE DEF u
  <2>7. ASSUME NEW k \in 1..Len(u)
        PROVE  At(u, k) = At(s, k)
    <3>1. Len(u) \in Nat /\ first \in Int /\ Len(u) = Len(s) - first + 1
      BY <1>1, <2>4, <2>6
    <3>2. Len(u) + 1 - k \in 1..Len(u)
      BY <3>1
    <3>3. PICK i \in 1..Len(u) : i = Len(u) + 1 - k
      BY <3>2
    <3>4. first + i - 1 = Len(s) + 1 - k
      BY <1>1, <3>1, <3>3
    <3>5. u[i] = s[Len(s) + 1 - k]
      BY <2>6, <3>4
    <3> QED
      BY <3>3, <3>5 DEF At
  <2>8. Kept(s, u, Len(u))
    BY <1>1, <2>4, <2>6, <2>7 DEF Kept
  <2> QED
    BY <2>1, <2>8 DEF u
<1> QED
  BY <1>2, <1>3

LEMMA RaisedCalm ==
    ASSUME IInv, IInv', NEW t \in Tasks, Raise(t)
    PROVE  Calm
<1> DEFINE r == Unwind(stack[t])
<1>1. stack' = [stack EXCEPT ![t] = r] /\ stack[t] \in Seq(FrameType)
  BY DEF Raise, IInv, StackInv
<1>2. Kept(stack[t], r, Len(r))
  BY <1>1, Unwound
<1>3. r \in Seq(FrameType)
  BY <1>1, UnwoundGood DEF IInv, StackInv, StacksGood, GoodStack
<1> HIDE DEF r
<1>4. \A k \in (Len(r) + 1)..Len(r) : At(r, k) \in {}
  BY <1>3, LenProperties
<1>5. Brings({}) /\ (HoldNothing({}) => HoldsKept)
  BY <1>1, <1>2, <1>4, Turn
<1> QED
  BY <1>5, OrdinaryBring DEF Calm

\* A new handler.
LEMMA Spawned ==
    ASSUME IInv, IInv', NEW N, NEW frames \in Seq(N), Spawn(frames) \/ SpawnWaiting(frames)
    PROVE  /\ Brings(N) /\ (HoldNothing(N) => HoldsKept)
           /\ NextFree \in Tasks /\ stack' = [stack EXCEPT ![NextFree] = frames]
<1>1. NextFree \in Tasks /\ stack[NextFree] = <<>>
  <2>1. Free \subseteq Tasks /\ Free # {} /\ Tasks \subseteq Nat
    BY BoundsAssumption DEF Free, Spawn, SpawnWaiting, Tasks
  <2>2. \E t \in Free : \A u \in Free : t <= u
    BY <2>1, LeastElement
  <2>3. NextFree \in Free
    BY <2>2 DEF NextFree
  <2> QED
    BY <2>3 DEF Free
<1>2. PICK t \in Tasks : t = NextFree
  BY <1>1
<1>3. stack' = [stack EXCEPT ![t] = frames]
  BY <1>2 DEF Spawn, SpawnWaiting
<1>4. Len(frames) \in Nat
  BY LenProperties
<1>5. Kept(stack[t], frames, 0)
  BY <1>1, <1>2, <1>4 DEF Kept
<1>6. \A k \in (0 + 1)..Len(frames) : At(frames, k) \in N
  BY <1>4, ElementOfSeq DEF At
<1> QED
  BY <1>1, <1>2, <1>3, <1>5, <1>6, Turn

LEMMA SpawnedCalm ==
    ASSUME IInv, IInv', NEW N, \A f \in N : Ordinary(f), NEW frames \in Seq(N),
           Spawn(frames) \/ SpawnWaiting(frames)
    PROVE  Calm
BY Spawned, OrdinaryBring DEF Calm

(***************************************************************************)
(* The steps of a handler.                                                 *)
(***************************************************************************)
LEMMA OrdinaryCall ==
    ASSUME NEW pc, pc \notin {"closed", "protokick", "deleted"}, NEW pid, NEW src, NEW dst,
           pc \notin Takers \/ dst = None
    PROVE  Ordinary(Frame(pc, pid, src, dst))
BY DEF Ordinary, Frame

LEMMA CalmStep ==
    ASSUME IInv, IInv', NEW t \in Tasks,
           \/ DelNothing(t) \/ DelLink(t) \/ Deleted(t) \/ OnLogin(t)
           \/ ProtoKick(t) \/ Closed(t) \/ AddRepeat(t) \/ CallFails(t)
           \/ ExitGame(t) \/ Saved(t) \/ GoSrv(t) \/ ReenterGame(t)
           \/ Pop(t) \/ Unload(t)
    PROVE  Calm
<1>1. CASE DelNothing(t) \/ DelLink(t) \/ Deleted(t) \/ OnLogin(t) \/ ProtoKick(t) \/ Closed(t)
  <2>1. stack[t] # <<>> /\ Continue(t, <<>>)
    BY <1>1 DEF DelNothing, DelLink, Deleted, OnLogin, ProtoKick, Closed, Runs
  <2> QED
    BY <2>1, EndedCalm
<1>2. CASE AddRepeat(t) \/ CallFails(t)
  BY <1>2, RaisedCalm DEF AddRepeat, CallFails
<1>3. CASE ExitGame(t)
  <2>1. Ordinary(Frame("saved", None, stack[t][1].src, None))
    BY OrdinaryCall
  <2> QED
    BY <1>3, <2>1, OneCalm DEF ExitGame, Runs
<1>4. CASE Saved(t)
  <2> DEFINE D == Frame("delobject", obj[stack[t][1].src].pid, None, None)
  <2>1. Ordinary(D)
    BY OrdinaryCall
  <2>2. stack[t] # <<>> /\ (Continue(t, <<D>>) \/ Continue(t, <<>>))
    BY <1>4 DEF Saved, Runs
  <2> HIDE DEF D
  <2> QED
    BY <2>1, <2>2, OneCalm, EndedCalm
<1>5. CASE GoSrv(t)
  <2>1. Ordinary(Frame("reentergame", stack[t][1].pid, None, None))
    BY OrdinaryCall
  <2> QED
    BY <1>5, <2>1, OneCalm DEF GoSrv, Runs
<1>6. CASE ReenterGame(t)
  <2>1. Ordinary(Frame("kick", stack[t][1].pid, None, None))
    BY OrdinaryCall
  <2> QED
    BY <1>6, <2>1, OneCalm DEF ReenterGame, Runs
<1>7. CASE Pop(t)
  <2> DEFINE R == Frame("recoverplayer", Head(queue).role, None, None)
             N == Frame("nettransfer", None, id_obj[Head(queue).pid], None)
  <2>1. Ordinary(R) /\ Ordinary(N)
    BY OrdinaryCall
  <2>2. stack[t] # <<>> /\ (Continue(t, <<R, N>>) \/ Continue(t, <<>>))
    BY <1>7 DEF Pop, Runs
  <2> HIDE DEF R, N
  <2> QED
    BY <2>1, <2>2, TwoCalm, EndedCalm
<1>8. CASE Unload(t)
  <2> DEFINE D == Frame("delobject", stack[t][1].pid, None, None)
             N == Frame("newplayer", stack[t][1].pid, None, None)
  <2>1. Ordinary(D) /\ Ordinary(N)
    BY OrdinaryCall
  <2>2. stack[t] # <<>> /\ (Continue(t, <<D, N>>) \/ Continue(t, <<N>>))
    BY <1>8 DEF Unload, Runs
  <2> HIDE DEF D, N
  <2> QED
    BY <2>1, <2>2, TwoCalm, OneCalm
<1> QED
  BY <1>1, <1>2, <1>3, <1>4, <1>5, <1>6, <1>7, <1>8

\* addobject takes the object out of the frame that held it.
LEMMA AddCalm ==
    ASSUME IInv, IInv', NEW t \in Tasks, AddPlayer(t) \/ AddOffline(t) \/ AddKuafu(t)
    PROVE  Calm /\ NoneAbove(t, Len(stack[t]) - 1)
<1>1. CASE AddPlayer(t)
  <2>1. Ordinary(Frame("onlogin", None, None, stack[t][1].dst))
    BY OrdinaryCall DEF Takers
  <2> QED
    BY <1>1, <2>1, OneCalm DEF AddPlayer, Runs
<1>2. CASE AddOffline(t) \/ AddKuafu(t)
  <2>1. stack[t] # <<>> /\ Continue(t, <<>>)
    BY <1>2 DEF AddOffline, AddKuafu, Runs
  <2> QED
    BY <2>1, EndedCalm
<1> QED
  BY <1>1, <1>2

\* playermgr.kick will drop the connection of the object it found.
LEMMA KickWaits ==
    ASSUME IInv, IInv', NEW t \in Tasks, Kick(t)
    PROVE  /\ NoClose /\ NoDoom /\ HoldsKept
           /\ \A a \in Agents : Kicking(a)' => Kicking(a) \/ id_obj[stack[t][1].pid] = a
<1> DEFINE p == stack[t][1].pid
           D == Frame("delobject", p, None, None)
           K == Frame("protokick", None, id_obj[p], None)
<1>1. stack[t] # <<>>
  BY DEF Kick, Runs
<1>2. CASE id_obj[p] = None
  <2>1. Continue(t, <<>>)
    BY <1>2 DEF Kick
  <2> QED
    BY <1>1, <2>1, EndedCalm DEF Calm, NoKick
<1>3. CASE id_obj[p] # None
  <2>1. Continue(t, <<D, K>>)
    BY <1>3 DEF Kick
  <2>2. /\ D.pc = "delobject" /\ D.dst = None
        /\ K.pc = "protokick" /\ K.src = id_obj[p] /\ K.dst = None
    BY DEF Frame
  <2> HIDE DEF D, K
  <2>3. <<D, K>> \in Seq({D, K})
    OBVIOUS
  <2>4. Brings({D, K}) /\ (HoldNothing({D, K}) => HoldsKept)
    BY <1>1, <2>1, <2>3, Replacing
  <2> QED
    BY <2>2, <2>4 DEF Brings, HoldNothing, NoClose, NoDoom
<1> QED
  BY <1>2, <1>3

\* delobject will drop the object it found.
LEMMA DelWaits ==
    ASSUME IInv, IInv', NEW t \in Tasks, DelOnline(t) \/ DelOffline(t) \/ DelKuafu(t)
    PROVE  /\ NoClose /\ NoKick /\ HoldsKept
           /\ \A o \in Players : Doomed(o)' => Doomed(o) \/ o = id_obj[stack[t][1].pid]
<1> DEFINE p == stack[t][1].pid
           o == id_obj[p]
           E == Frame("exitgame", None, o, None)
           P == Frame("pop", None, None, None)
           S == Frame("saved", None, o, None)
           D == Frame("deleted", p, o, None)
<1>1. /\ stack[t] # <<>>
      /\ \/ Suspend(t, <<E, P, D>>) \/ Suspend(t, <<S, D>>) \/ Continue(t, <<D>>)
  BY DEF DelOnline, DelOffline, DelKuafu, Runs
<1>2. /\ E.pc = "exitgame" /\ P.pc = "pop" /\ S.pc = "saved" /\ D.pc = "deleted"
      /\ D.src = o /\ E.dst = None /\ P.dst = None /\ S.dst = None /\ D.dst = None
  BY DEF Frame
<1> HIDE DEF E, P, S, D
<1>3. /\ <<E, P, D>> \in Seq({E, P, S, D}) /\ <<S, D>> \in Seq({E, P, S, D})
      /\ <<D>> \in Seq({E, P, S, D})
  OBVIOUS
<1>4. Brings({E, P, S, D}) /\ (HoldNothing({E, P, S, D}) => HoldsKept)
  BY <1>1, <1>3, Replacing
<1> QED
  BY <1>2, <1>4 DEF Brings, HoldNothing, NoClose, NoKick

\* The frame below the first takes its place, with the object it waited for.
LEMMA HandedBelow ==
    ASSUME NEW s \in Seq(FrameType), Len(s) > 1, NEW x
    PROVE  LET r == <<[s[2] EXCEPT !.dst = x]>> \o SubSeq(s, 3, Len(s))
           IN /\ Kept(s, r, Len(s) - 2)
              /\ Len(r) = Len(s) - 1
              /\ At(r, Len(s) - 1) = [s[2] EXCEPT !.dst = x]
              /\ At(s, Len(s) - 1) = s[2]
<1> DEFINE f == [s[2] EXCEPT !.dst = x]
           u == SubSeq(s, 3, Len(s))
           r == <<f>> \o u
           m == Len(s) - 2
<1>1. Len(s) \in Nat
  BY LenProperties
<1> HIDE DEF f
<1>3. /\ u \in Seq(FrameType) /\ Len(u) = m
      /\ \A i \in 1..m : u[i] = s[i + 2]
  <2>1. \A i \in 3..Len(s) : s[i] \in FrameType
    BY <1>1, ElementOfSeq
  <2>2. /\ u \in Seq(FrameType)
        /\ Len(u) = IF 3 <= Len(s) THEN Len(s) - 3 + 1 ELSE 0
        /\ \A i \in 1..(Len(s) - 3 + 1) : u[i] = s[3 + i - 1]
    BY <1>1, <2>1, SubSeqProperties
  <2> HIDE DEF u
  <2>3. Len(u) = m
    <3>1. \A k \in Nat : k > 1 => (IF 3 <= k THEN k - 3 + 1 ELSE 0) = k - 2
      OBVIOUS
    <3> QED
      BY <1>1, <2>2, <3>1
  <2>4. \A i \in 1..m : u[i] = s[i + 2]
    BY <1>1, <2>2
  <2> QED
    BY <2>2, <2>3, <2>4
<1> HIDE DEF u
<1>4. Len(r) = m + 1 /\ r[1] = f /\ \A i \in 2..(m + 1) : r[i] = u[i - 1]
  <2>1. <<f>> \in Seq(FrameType \cup {f}) /\ u \in Seq(FrameType \cup {f})
        /\ Len(<<f>>) = 1 /\ <<f>>[1] = f
    BY <1>3, SeqGrows
  <2>2. m \in Nat
    BY <1>1
  <2> HIDE DEF m
  <2> QED
    BY <1>3, <2>1, <2>2, ConcatProperties
<1> HIDE DEF r
<1>5. Kept(s, r, m)
  <2>1. ASSUME NEW k \in 1..m PROVE At(r, k) = At(s, k)
    <3>1. PICK i \in 2..(m + 1) : i = Len(r) + 1 - k /\ i - 1 \in 1..m /\ i + 1 = Len(s) + 1 - k
      <4>1. m \in Nat /\ Len(s) = m + 2
        BY <1>1
      <4> HIDE DEF m
      <4>2. m + 2 - k \in 2..(m + 1)
        BY <4>1
      <4> QED
        BY <1>4, <4>1, <4>2
    <3>2. r[i] = s[i + 1]
      <4>1. r[i] = u[i - 1] /\ u[i - 1] = s[(i - 1) + 2] /\ (i - 1) + 2 = i + 1
        BY <1>3, <1>4, <3>1
      <4> QED
        BY <4>1
    <3>3. At(r, k) = r[i]
      BY <3>1 DEF At
    <3>4. At(s, k) = s[i + 1]
      BY <3>1 DEF At
    <3> QED
      BY <3>2, <3>3, <3>4
  <2> QED
    BY <1>1, <1>4, <2>1 DEF Kept
<1>6. Len(r) = Len(s) - 1 /\ At(r, Len(s) - 1) = f /\ At(s, Len(s) - 1) = s[2]
  BY <1>1, <1>4 DEF At
<1> QED
  BY <1>5, <1>6 DEF r, f, u

\* A new object is held by the frame that asked for it.
LEMMA NewHeld ==
    ASSUME IInv, IInv', NEW t \in Tasks, NewPlayer(t)
    PROVE  /\ NoClose /\ NoKick /\ NoDoom
           /\ \A u \in Tasks, k \in Nat, o \in Players : Holds(u, k, o)' =>
                 Holds(u, k, o) \/ (u = t /\ k = Len(stack[t]) - 1 /\ o = nobj + 1)
<1> DEFINE s == stack[t]
           g == s[2]
           f == [g EXCEPT !.dst = nobj + 1]
           r == <<f>> \o SubSeq(s, 3, Len(s))
           m == Len(s) - 2
<1>1. /\ s \in Seq(FrameType) /\ Len(s) \in Nat /\ Len(s) > 1 /\ g \in FrameType
      /\ stack' = [stack EXCEPT ![t] = r]
  BY LenProperties, ElementOfSeq DEF NewPlayer, IInv, StackInv
<1>2. /\ f.pc = g.pc /\ f.pid = g.pid /\ f.src = g.src /\ f.dst = nobj + 1
  BY <1>1 DEF FrameType
<1>3. Kept(s, r, m) /\ Len(r) = Len(s) - 1 /\ At(r, Len(s) - 1) = f /\ At(s, Len(s) - 1) = g
  <2> HIDE DEF s
  <2> QED
    BY <1>1, HandedBelow
<1> HIDE DEF s, f, g, r
<1>5. Kept(s, r, m)
  BY <1>3
<1>6. Len(r) = m + 1 /\ At(r, m + 1) = f /\ m \in Nat
  BY <1>1, <1>3
<1>7. g = At(s, m + 1) /\ m + 1 \in 1..Len(s) /\ 2 \in 1..Len(s)
  BY <1>1, <1>3
<1>8. \A k \in (m + 1)..Len(r) : k = m + 1
  BY <1>6
<1> HIDE DEF m
<1>9. Kept(stack[t], r, m) /\ \A k \in (m + 1)..Len(r) : At(r, k) \in {f}
  BY <1>5, <1>6, <1>8 DEF s
<1>10. Brings({f})
  BY <1>1, <1>9, Turn
<1>15. Hands(t, r, m)
  BY <1>1, <1>9, Turn
<1>11. NoClose
  BY <1>2, <1>7, <1>10 DEF Brings, NoClose, Closing, s, g
<1>12. NoKick
  BY <1>2, <1>7, <1>10 DEF Brings, NoKick, Kicking, s, g
<1>13. NoDoom
  BY <1>2, <1>7, <1>10 DEF Brings, NoDoom, Doomed, s, g
<1>14. m + 1 = Len(stack[t]) - 1
  BY <1>1 DEF m, s
<1>16. ASSUME NEW v \in Tasks, NEW k \in Nat, NEW o \in Players, Holds(v, k, o)', ~Holds(v, k, o)
       PROVE  v = t /\ k = Len(stack[t]) - 1 /\ o = nobj + 1
  <2>1. v = t /\ k \in (m + 1)..Len(r) /\ At(r, k).dst = o
    BY <1>15, <1>16 DEF Hands
  <2>2. k = m + 1
    BY <1>8, <2>1
  <2> QED
    BY <1>2, <1>6, <1>14, <2>1, <2>2
<1> QED
  BY <1>11, <1>12, <1>13, <1>16

\* The top frame hands its object to the last of the frames that follow it, which
\* takes its place.
LEMMA HandedCalm ==
    ASSUME IInv, IInv', NEW t \in Tasks, stack[t] # <<>>, stack[t][1].pc \in Takers,
           NEW N, \A f \in N : f.pc \notin {"closed", "protokick", "deleted"},
           NEW frames \in Seq(N), Continue(t, frames) \/ Suspend(t, frames),
           \A j \in 1..Len(frames) :
              frames[j].pc \in Takers => j = Len(frames) /\ frames[j].dst = stack[t][1].dst
    PROVE  Calm
<1> DEFINE r == frames \o Tail(stack[t])
           m == Len(stack[t]) - 1
<1>1. stack[t] \in Seq(FrameType) /\ Len(stack[t]) \in Nat /\ Len(stack[t]) > 0
  BY LenProperties, EmptySeq DEF IInv, StackInv
<1>2. stack' = [stack EXCEPT ![t] = r]
  BY DEF Continue, Suspend
<1>3. /\ Kept(stack[t], r, m) /\ Len(r) = Len(frames) + m
      /\ \A k \in Len(stack[t])..Len(r) : \E j \in 1..Len(frames) :
            j = Len(r) + 1 - k /\ At(r, k) = frames[j]
  <2>1. Kept(stack[t], r, m)
    BY <1>1, Below
  <2>2. \A k \in Len(stack[t])..Len(r) : \E j \in 1..Len(frames) :
           j = Len(r) + 1 - k /\ At(r, k) = frames[j]
    BY <1>1, Below
  <2>3. Len(r) = Len(frames) + Len(stack[t]) - 1
    BY <1>1, Below
  <2>4. Len(frames) + Len(stack[t]) - 1 = Len(frames) + m
    BY <1>1, LenProperties
  <2> HIDE DEF r, m
  <2> QED
    BY <2>1, <2>2, <2>3, <2>4
<1>4. Brings(N)
  BY <1>1, Replacing
<1>5. NoClose /\ NoKick /\ NoDoom
  BY <1>4 DEF Brings, NoClose, NoKick, NoDoom
<1> HIDE DEF r, m
<1>6. m + 1 = Len(stack[t]) /\ m \in Nat /\ Len(frames) \in Nat /\ Len(r) \in Int
  BY <1>1, <1>3, LenProperties DEF m
<1>7. \A k \in (m + 1)..Len(r) : At(r, k) \in N
  <2>1. \A j \in 1..Len(frames) : frames[j] \in N
    BY ElementOfSeq
  <2> QED
    BY <1>3, <1>6, <2>1
<1>8. Hands(t, r, m)
  BY <1>2, <1>3, <1>7, Turn
<1>9. ASSUME NEW k \in Nat, NEW o \in Players,
             k \in (m + 1)..Len(r), At(r, k).pc \in Takers, At(r, k).dst = o
      PROVE  Holds(t, k, o)
  <2>1. PICK j \in 1..Len(frames) : j = Len(r) + 1 - k /\ At(r, k) = frames[j]
    BY <1>3, <1>6, <1>9
  <2>2. j = Len(frames) /\ stack[t][1].dst = o
    BY <1>9, <2>1
  <2>3. k = Len(stack[t])
    BY <1>3, <1>6, <2>1, <2>2
  <2>4. At(stack[t], k) = stack[t][1]
    BY <1>1, <2>3 DEF At
  <2> QED
    BY <1>1, <2>2, <2>3, <2>4 DEF Holds
<1>10. HoldsKept
  BY <1>8, <1>9 DEF Hands, HoldsKept
<1> QED
  BY <1>5, <1>10 DEF Calm

LEMMA TransferCalm ==
    ASSUME IInv, IInv', NEW t \in Tasks, SetHome(t) \/ NetTransfer(t)
    PROVE  Calm
<1> DEFINE f == stack[t][1]
           N == Frame("nettransfer", None, f.src, f.dst)
           D == Frame("delobject", PidOf(f.src), None, None)
           A == Frame("addplayer", None, f.src, f.dst)
<1>1. stack[t] # <<>> /\ f.pc \in Takers
  BY DEF SetHome, NetTransfer, Runs, Takers
<1>2. /\ N.pc = "nettransfer" /\ N.dst = f.dst /\ D.pc = "delobject"
      /\ A.pc = "addplayer" /\ A.dst = f.dst
  BY DEF Frame
<1>3. CASE SetHome(t)
  <2>1. Suspend(t, <<N>>)
    BY <1>3 DEF SetHome
  <2> HIDE DEF N, D, A, f
  <2>2. /\ <<N>> \in Seq({N}) /\ Len(<<N>>) = 1
        /\ \A j \in 1..Len(<<N>>) : j = 1 /\ <<N>>[j] = N
    OBVIOUS
  <2>3. \A j \in 1..Len(<<N>>) :
           <<N>>[j].pc \in Takers => j = Len(<<N>>) /\ <<N>>[j].dst = f.dst
    BY <1>2, <2>2
  <2> QED
    BY <1>1, <1>2, <2>1, <2>2, <2>3, HandedCalm DEF f
<1>4. CASE NetTransfer(t) /\ Raise(t)
  BY <1>4, RaisedCalm
<1>5. CASE NetTransfer(t) /\ ~Raise(t)
  <2>1. Continue(t, <<D, A>>)
    BY <1>5 DEF NetTransfer
  <2> HIDE DEF N, D, A, f
  <2>2. /\ <<D, A>> \in Seq({D, A}) /\ Len(<<D, A>>) = 2
        /\ \A j \in 1..Len(<<D, A>>) : <<D, A>>[j] = D \/ (j = 2 /\ <<D, A>>[j] = A)
    OBVIOUS
  <2>3. \A j \in 1..Len(<<D, A>>) :
           <<D, A>>[j].pc \in Takers => j = Len(<<D, A>>) /\ <<D, A>>[j].dst = f.dst
    BY <1>2, <2>2 DEF Takers
  <2> QED
    BY <1>1, <1>2, <2>1, <2>2, <2>3, HandedCalm DEF f
<1> QED
  BY <1>3, <1>4, <1>5

(***************************************************************************)
(* Messages and timers.                                                    *)
(***************************************************************************)
LEMMA SameCalm == UNCHANGED stack => Calm
BY DEF Calm, NoClose, NoKick, NoDoom, HoldsKept, Closing, Kicking, Doomed, Holds

LEMMA OneSpawned ==
    ASSUME IInv, IInv', NEW f, Ordinary(f), Spawn(<<f>>) \/ SpawnWaiting(<<f>>)
    PROVE  Calm
<1> <<f>> \in Seq({f})
  OBVIOUS
<1> QED
  BY SpawnedCalm

LEMMA TwoSpawned ==
    ASSUME IInv, IInv', NEW f, Ordinary(f), NEW g, Ordinary(g), Spawn(<<f, g>>)
    PROVE  Calm
<1> <<f, g>> \in Seq({f, g})
  OBVIOUS
<1> QED
  BY SpawnedCalm

\* The calls of entergame, after an optional kick.
LEMMA EnterCalm ==
    ASSUME IInv, IInv', NEW a \in Agents, NEW r \in Roles,
           EnterGame(a, r) \/ \E home \in BOOLEAN : EnterByToken(a, r, home)
    PROVE  Calm
<1> DEFINE K == Frame("kick", r, None, None)
           R == Frame("recoverplayer", r, None, None)
           S == Frame("sethome", None, Requester(a), None)
           N == Frame("nettransfer", None, Requester(a), None)
           G == Frame("gosrv", PidOf(Requester(a)), None, None)
           kick == IF id_obj[r] = None THEN <<>> ELSE <<K>>
           F == {K, R, S, N, G}
<1>1. \A f \in F : Ordinary(f)
  BY OrdinaryCall
<1>2. Spawn(kick \o <<R, N>>) \/ Spawn(kick \o <<R, S>>) \/ Spawn(kick \o <<G>>)
  <2>1. CASE EnterGame(a, r)
    BY <2>1 DEF EnterGame
  <2>2. ASSUME NEW home \in BOOLEAN, EnterByToken(a, r, home)
        PROVE  Spawn(kick \o <<R, N>>) \/ Spawn(kick \o <<R, S>>)
    <3>1. CASE home
      BY <2>2, <3>1 DEF EnterByToken
    <3>2. CASE ~home
      BY <2>2, <3>2 DEF EnterByToken
    <3> QED
      BY <3>1, <3>2
  <2> QED
    BY <2>1, <2>2
<1> HIDE DEF K, R, S, N, G
<1>3. /\ kick \in Seq(F) /\ <<R, N>> \in Seq(F) /\ <<R, S>> \in Seq(F) /\ <<G>> \in Seq(F)
  <2>1. <<>> \in Seq(F) /\ <<K>> \in Seq(F)
    OBVIOUS
  <2>2. <<R, N>> \in Seq(F) /\ <<R, S>> \in Seq(F) /\ <<G>> \in Seq(F)
    OBVIOUS
  <2> HIDE DEF F
  <2> QED
    BY <2>1, <2>2
<1> HIDE DEF kick, F
<1>4. /\ kick \o <<R, N>> \in Seq(F) /\ kick \o <<R, S>> \in Seq(F) /\ kick \o <<G>> \in Seq(F)
  BY <1>3, ConcatProperties
<1> QED
  BY <1>1, <1>2, <1>4, SpawnedCalm

LEMMA CalmClient ==
    ASSUME IInv, IInv', NEW a \in Agents, Client(a), ~Close(a)
    PROVE  Calm
<1>1. CASE Start(a) \/ Login(a) \/ Play(a) \/ \E r \in Roles : EnterQueued(a, r)
  BY <1>1, SameCalm DEF Start, Login, Play, EnterQueued
<1>2. CASE ExitRequest(a)
  <2>1. Ordinary(Frame("exitgame", None, Requester(a), None))
    BY OrdinaryCall
  <2> QED
    BY <1>2, <2>1, OneSpawned DEF ExitRequest
<1>3. CASE GoRequest(a)
  <2>1. Ordinary(Frame("reentergame", PidOf(Requester(a)), None, None))
    BY OrdinaryCall
  <2> QED
    BY <1>3, <2>1, OneSpawned DEF GoRequest
<1> QED
  BY <1>1, <1>2, <1>3, EnterCalm DEF Client

LEMMA CalmServer ==
    ASSUME IInv, IInv', Server
    PROVE  Calm
<1>1. ASSUME NEW r \in Roles, SetGoSrv(r)
      PROVE  Calm
  <2>1. CASE id_obj[r] = None
    <3>1. Ordinary(Frame("recoverplayer", r, None, None))
          /\ Ordinary(Frame("addkuafu", r, None, None))
      BY OrdinaryCall
    <3> QED
      BY <1>1, <2>1, <3>1, TwoSpawned DEF SetGoSrv
  <2>2. CASE id_obj[r] # None
    BY <1>1, <2>2, SameCalm DEF SetGoSrv
  <2> QED
    BY <2>1, <2>2
<1>2. ASSUME NEW r \in Roles, LoadOffline(r)
      PROVE  Calm
  <2>1. Ordinary(Frame("newplayer", r, None, None))
        /\ Ordinary(Frame("addoffline", r, None, None))
    BY OrdinaryCall
  <2> QED
    BY <1>2, <2>1, TwoSpawned DEF LoadOffline
<1>3. ASSUME NEW p \in Pids, GmKick(p)
      PROVE  Calm
  <2>1. Ordinary(Frame("kick", p, None, None))
    BY OrdinaryCall
  <2> QED
    BY <1>3, <2>1, OneSpawned DEF GmKick
<1>4. ASSUME NEW o \in Players, AutoSave(o)
      PROVE  Calm
  <2>1. Ordinary(Frame("saved", None, o, None))
    BY OrdinaryCall
  <2> QED
    BY <1>4, <2>1, OneSpawned, SameCalm DEF AutoSave
<1>5. ASSUME NEW o \in Players, GrowIdle(o)
      PROVE  Calm
  BY <1>5, SameCalm DEF GrowIdle
<1> QED
  BY <1>1, <1>2, <1>3, <1>4, <1>5 DEF Server

\* CMD.close will clear the entry of its own agent, after it has deleted the object.
LEMMA CloseWaits ==
    ASSUME IInv, IInv', NEW a \in Agents, Close(a), conn[a] # None
    PROVE  /\ NoKick /\ NoDoom /\ HoldsKept
           /\ \A b \in Agents : Closing(b)' => Closing(b) \/ b = a
           /\ cpu' \in Tasks /\ stack'[cpu'] # <<>>
           /\ stack'[cpu'][1].pc = "delobject" /\ stack'[cpu'][1].pid = conn[a]
<1> DEFINE D == Frame("delobject", conn[a], None, None)
           C == Frame("closed", a, None, None)
<1>1. Spawn(<<D, C>>) /\ cpu' = NextFree
  BY DEF Close, Spawn
<1>2. /\ D.pc = "delobject" /\ D.pid = conn[a] /\ D.dst = None
      /\ C.pc = "closed" /\ C.pid = a /\ C.dst = None
  BY DEF Frame
<1> HIDE DEF D, C
<1>3. <<D, C>> \in Seq({D, C}) /\ <<D, C>>[1] = D /\ <<D, C>> # <<>>
  OBVIOUS
<1>4. /\ Brings({D, C}) /\ (HoldNothing({D, C}) => HoldsKept)
      /\ NextFree \in Tasks /\ stack' = [stack EXCEPT ![NextFree] = <<D, C>>]
  BY <1>1, <1>3, Spawned
<1>5. stack'[NextFree] = <<D, C>>
  BY <1>4 DEF IInv, StackInv
<1>6. NoKick /\ NoDoom /\ HoldsKept
  BY <1>2, <1>4 DEF Brings, HoldNothing, NoKick, NoDoom
<1>7. \A b \in Agents : Closing(b)' => Closing(b) \/ b = a
  BY <1>2, <1>4 DEF Brings
<1> QED
  BY <1>1, <1>2, <1>3, <1>4, <1>5, <1>6, <1>7

(***************************************************************************)
(* An object that a handler holds is new: nobody else holds it, it is not  *)
(* registered, not under autosave and not being deleted.                   *)
(***************************************************************************)
HeldOnce ==
    \A t, u \in Tasks, k, m \in Nat, o \in Players :
        Holds(t, k, o) /\ Holds(u, m, o) => t = u /\ k = m

HeldFresh ==
    \A t \in Tasks, k \in Nat, o \in Players : Holds(t, k, o) =>
        o \notin saving /\ ~Doomed(o) /\ \A p \in Pids : id_obj[p] # o

DoomedUnsaved == \A o \in Players : Doomed(o) => o \notin saving

FreshInv == IInv /\ HeldOnce /\ HeldFresh /\ DoomedUnsaved

\* A step that puts no player object in a slot or under autosave.
Unregistered ==
    /\ saving' \subseteq saving
    /\ \A p \in Pids, o \in Players : id_obj'[p] = o => id_obj[p] = o

LEMMA CalmFresh ==
    ASSUME FreshInv, IInv', HoldsKept, NoDoom, Unregistered
    PROVE  FreshInv'
<1>1. HeldOnce'
  BY DEF FreshInv, HeldOnce, HoldsKept
<1>2. HeldFresh'
  BY DEF FreshInv, HeldFresh, HoldsKept, NoDoom, Unregistered
<1>3. DoomedUnsaved'
  BY DEF FreshInv, DoomedUnsaved, NoDoom, Unregistered
<1> QED
  BY <1>1, <1>2, <1>3 DEF FreshInv

LEMMA DropUnregisters ==
    ASSUME IInv, NEW p \in Pids, NEW o, DropObject(p, o), saving' = saving
    PROVE  Unregistered
BY Names DEF DropObject, Unregistered, IInv, RegType, Objs

LEMMA StepUnregisters ==
    ASSUME IInv, NEW t \in Tasks, Step(t), ~AddPlayer(t), ~AddOffline(t), ~AddKuafu(t)
    PROVE  Unregistered
<1>1. CASE DelLink(t)
  <2>1. stack[t][1].pid \in Pids
    BY <1>1, StepTop DEF DelLink, GoodFrame
  <2> QED
    BY <1>1, <2>1, DropUnregisters DEF DelLink, heap
<1>2. CASE Deleted(t)
  <2>1. stack[t][1].pid \in Pids
    BY <1>2, StepTop DEF Deleted, GoodFrame, Makers, Pids
  <2> QED
    BY <1>2, <2>1, DropUnregisters DEF Deleted, heap
<1>3. CASE DelNothing(t) \/ ExitGame(t) \/ Pop(t) \/ SetHome(t) \/ AddRepeat(t) \/ CallFails(t) \/ OnLogin(t)
           \/ Kick(t) \/ ProtoKick(t) \/ Closed(t) \/ GoSrv(t) \/ ReenterGame(t)
  BY <1>3 DEF DelNothing, ExitGame, Pop, SetHome, AddRepeat, CallFails, OnLogin, Kick, ProtoKick,
              Closed, GoSrv, ReenterGame, heap, reg, Unregistered
<1>4. CASE DelOnline(t) \/ DelOffline(t) \/ DelKuafu(t)
  BY <1>4 DEF DelOnline, DelOffline, DelKuafu, reg, Unregistered
<1>5. CASE Saved(t) \/ Unload(t) \/ NewPlayer(t) \/ NetTransfer(t)
  BY <1>5 DEF Saved, Unload, NewPlayer, NetTransfer, reg, Unregistered
<1> QED
  BY <1>1, <1>2, <1>3, <1>4, <1>5 DEF Step

LEMMA MessageUnregisters ==
    ASSUME IInv, Server \/ \E a \in Agents : Client(a)
    PROVE  Unregistered
<1>1. ASSUME NEW a \in Agents, Start(a)
      PROVE  Unregistered
  BY <1>1, Names DEF Start, AddObject, IInv, RegType, Unregistered
<1>2. ASSUME NEW a \in Agents, Client(a), ~Start(a)
      PROVE  Unregistered
  BY <1>2 DEF Client, Close, Login, ExitRequest, Play, GoRequest, EnterQueued, EnterGame,
              EnterByToken, heap, reg, Unregistered
<1>3. CASE Server
  BY <1>3 DEF Server, SetGoSrv, LoadOffline, GmKick, AutoSave, GrowIdle,
              heap, reg, Unregistered
<1> QED
  BY <1>1, <1>2, <1>3

\* The object that a delobject found is registered, so no handler holds it.
LEMMA DelFresh ==
    ASSUME FreshInv, IInv', NEW t \in Tasks, DelOnline(t) \/ DelOffline(t) \/ DelKuafu(t)
    PROVE  FreshInv'
<1> DEFINE x == id_obj[stack[t][1].pid]
<1>1. /\ HoldsKept
      /\ \A o \in Players : Doomed(o)' => Doomed(o) \/ o = x
  BY DelWaits DEF FreshInv
<1>2. saving' = saving \ {x} /\ id_obj' = id_obj
  BY DEF DelOnline, DelOffline, DelKuafu, reg
<1>3. stack[t][1].pid \in Pids
  BY StepTop DEF DelOnline, DelOffline, DelKuafu, GoodFrame, FreshInv
<1> HIDE DEF x
<1>4. HeldOnce'
  BY <1>1 DEF FreshInv, HeldOnce, HoldsKept
<1>5. HeldFresh'
  BY <1>1, <1>2, <1>3 DEF FreshInv, HeldFresh, HoldsKept, x
<1>6. DoomedUnsaved'
  BY <1>1, <1>2 DEF FreshInv, DoomedUnsaved
<1> QED
  BY <1>4, <1>5, <1>6 DEF FreshInv

\* Nothing names the object that newplayer makes.
LEMMA NewNumber ==
    ASSUME IInv, nobj + 1 \in Players
    PROVE  /\ \A t \in Tasks, k \in Nat : ~Holds(t, k, nobj + 1)
           /\ nobj + 1 \notin saving /\ ~Doomed(nobj + 1)
           /\ \A p \in Pids : id_obj[p] # nobj + 1
<1>1. nobj \in Nat /\ nobj + 1 \notin 1..nobj /\ nobj + 1 \notin Agents /\ nobj + 1 # None
  BY Names DEF IInv, StackInv, Objs
<1>2. \A t \in Tasks : \A i \in 1..Len(stack[t]) :
         /\ stack[t][i].pc = "deleted" => stack[t][i].src \in 1..nobj
         /\ stack[t][i].dst \in 1..nobj \cup {None}
  BY DEF IInv, StackInv, StacksGood, GoodStack, GoodFrame
<1>3. \A t \in Tasks, k \in Nat : ~Holds(t, k, nobj + 1)
  <2> SUFFICES ASSUME NEW t \in Tasks, NEW k \in Nat, Holds(t, k, nobj + 1) PROVE FALSE
    OBVIOUS
  <2>1. Len(stack[t]) \in Nat /\ k \in 1..Len(stack[t]) /\ At(stack[t], k).dst = nobj + 1
    BY LenProperties DEF IInv, StackInv, Holds
  <2>2. Len(stack[t]) + 1 - k \in 1..Len(stack[t])
    BY <2>1
  <2> QED
    BY <1>1, <1>2, <2>1, <2>2 DEF At
<1>4. ~Doomed(nobj + 1)
  BY <1>1, <1>2 DEF Doomed
<1>5. nobj + 1 \notin saving
  BY <1>1 DEF IInv, HeapType
<1>6. \A p \in Pids : id_obj[p] # nobj + 1
  BY <1>1 DEF IInv, RegGood
<1> QED
  BY <1>3, <1>4, <1>5, <1>6

LEMMA NewFresh ==
    ASSUME FreshInv, IInv', NEW t \in Tasks, NewPlayer(t)
    PROVE  FreshInv'
<1> DEFINE x == nobj + 1
           h == Len(stack[t]) - 1
<1>1. /\ NoDoom
      /\ \A u \in Tasks, k \in Nat, o \in Players : Holds(u, k, o)' =>
            Holds(u, k, o) \/ (u = t /\ k = h /\ o = x)
  BY NewHeld DEF FreshInv
<1>2. x \in Players
  BY BoundsAssumption DEF NewPlayer, NewObject, FreshInv, IInv, StackInv, Players
<1>3. /\ \A u \in Tasks, k \in Nat : ~Holds(u, k, x)
      /\ x \notin saving /\ ~Doomed(x) /\ \A p \in Pids : id_obj[p] # x
  BY <1>2, NewNumber DEF FreshInv
<1>4. saving' = saving /\ id_obj' = id_obj
  BY DEF NewPlayer, reg
<1> HIDE DEF x, h
<1>5. HeldOnce'
  BY <1>1, <1>3 DEF FreshInv, HeldOnce
<1>6. HeldFresh'
  BY <1>1, <1>2, <1>3, <1>4 DEF FreshInv, HeldFresh, NoDoom
<1>7. DoomedUnsaved'
  BY <1>1, <1>4 DEF FreshInv, DoomedUnsaved, NoDoom
<1> QED
  BY <1>5, <1>6, <1>7 DEF FreshInv

\* addobject registers an object that one handler held, and which it holds no more.
LEMMA AddFresh ==
    ASSUME FreshInv, IInv', NEW t \in Tasks, AddPlayer(t) \/ AddOffline(t) \/ AddKuafu(t)
    PROVE  FreshInv'
<1> DEFINE x == stack[t][1].dst
           n == Len(stack[t])
<1>1. NoDoom /\ HoldsKept /\ NoneAbove(t, n - 1)
  BY AddCalm DEF FreshInv, Calm
<1>2. x \in Players /\ obj[x].pid \in Pids
  BY Taken DEF AddPlayer, AddOffline, AddKuafu, Takers, FreshInv, Pids
<1>3. saving' = saving \cup {x} /\ id_obj' = [id_obj EXCEPT ![obj[x].pid] = x]
  BY DEF AddPlayer, AddOffline, AddKuafu, AddObject
<1>4. n \in Nat /\ n > 0 /\ id_obj \in [Pids -> Objs \cup {None}]
  BY LenProperties, EmptySeq
     DEF AddPlayer, AddOffline, AddKuafu, Runs, FreshInv, IInv, StackInv, RegType
<1>5. Holds(t, n, x)
  <2>1. At(stack[t], n) = stack[t][1]
    BY <1>4 DEF At
  <2> QED
    BY <1>4, <2>1 DEF AddPlayer, AddOffline, AddKuafu, Runs, Takers, Holds
<1> HIDE DEF x, n
<1>6. ASSUME NEW u \in Tasks, NEW k \in Nat, NEW o \in Players, Holds(u, k, o)'
      PROVE  o # x
  <2> SUFFICES ASSUME o = x PROVE FALSE
    OBVIOUS
  <2>1. Holds(u, k, x)
    BY <1>1, <1>6 DEF HoldsKept
  <2>2. u = t /\ k = n
    BY <1>2, <1>4, <1>5, <2>1 DEF FreshInv, HeldOnce
  <2>3. k <= n - 1
    BY <1>1, <1>2, <1>6, <2>2 DEF NoneAbove
  <2> QED
    BY <1>4, <2>2, <2>3
<1>7. ~Doomed(x)
  BY <1>2, <1>4, <1>5 DEF FreshInv, HeldFresh
<1>8. HeldOnce'
  BY <1>1 DEF FreshInv, HeldOnce, HoldsKept
<1>9. HeldFresh'
  BY <1>1, <1>2, <1>3, <1>4, <1>6 DEF FreshInv, HeldFresh, HoldsKept, NoDoom
<1>10. DoomedUnsaved'
  BY <1>1, <1>3, <1>7 DEF FreshInv, DoomedUnsaved, NoDoom
<1> QED
  BY <1>8, <1>9, <1>10 DEF FreshInv

LEMMA FreshStep ==
    ASSUME FreshInv, [Next]_vars
    PROVE  FreshInv'
<1>1. IInv /\ IInv'
  BY NextInv DEF FreshInv
<1>2. ASSUME NEW t \in Tasks, Step(t)
      PROVE  FreshInv'
  <2>1. CASE DelOnline(t) \/ DelOffline(t) \/ DelKuafu(t)
    BY <1>1, <2>1, DelFresh
  <2>2. CASE NewPlayer(t)
    BY <1>1, <2>2, NewFresh
  <2>3. CASE AddPlayer(t) \/ AddOffline(t) \/ AddKuafu(t)
    BY <1>1, <2>3, AddFresh
  <2>4. CASE ~AddPlayer(t) /\ ~AddOffline(t) /\ ~AddKuafu(t) /\ ~NewPlayer(t)
             /\ ~DelOnline(t) /\ ~DelOffline(t) /\ ~DelKuafu(t)
    <3>1. HoldsKept /\ NoDoom
      BY <1>1, <1>2, <2>4, CalmStep, TransferCalm, KickWaits DEF Step, Calm
    <3>2. Unregistered
      BY <1>1, <1>2, <2>4, StepUnregisters
    <3> QED
      BY <1>1, <3>1, <3>2, CalmFresh
  <2> QED
    BY <2>1, <2>2, <2>3, <2>4
<1>3. ASSUME NEW a \in Agents, Client(a)
      PROVE  FreshInv'
  <2>1. HoldsKept /\ NoDoom
    <3>1. CASE ~Close(a)
      BY <1>1, <1>3, <3>1, CalmClient DEF Calm
    <3>2. CASE Close(a)
      BY <1>1, <3>2, CloseWaits, SameCalm DEF Close, Calm
    <3> QED
      BY <3>1, <3>2
  <2>2. Unregistered
    BY <1>1, <1>3, MessageUnregisters
  <2> QED
    BY <1>1, <2>1, <2>2, CalmFresh
<1>4. CASE Server
  BY <1>1, <1>4, CalmServer, MessageUnregisters, CalmFresh DEF Calm
<1>5. CASE UNCHANGED vars
  <2>1. Calm /\ Unregistered
    BY <1>5, SameCalm DEF vars, heap, reg, Unregistered
  <2> QED
    BY <1>1, <2>1, CalmFresh DEF Calm
<1> QED
  BY <1>2, <1>3, <1>4, <1>5 DEF Next, Quiet

LEMMA FreshInit == Init => FreshInv
<1> SUFFICES ASSUME Init PROVE FreshInv
  OBVIOUS
<1>1. \A t \in Tasks : Len(stack[t]) = 0
  BY DEF Init
<1>2. HeldOnce /\ HeldFresh /\ DoomedUnsaved
  BY <1>1 DEF HeldOnce, HeldFresh, DoomedUnsaved, Holds, Doomed
<1> QED
  BY <1>2, InitInv DEF FreshInv

LEMMA FreshUnsaved == FreshInv => DeletedNotSaved
<1> SUFFICES ASSUME FreshInv, NEW t \in Tasks, NEW i \in 1..Len(stack[t]),
                    stack[t][i].pc = "deleted"
             PROVE  stack[t][i].src \notin saving
  BY DEF DeletedNotSaved
<1>1. saving \subseteq Players
  BY Made DEF FreshInv, IInv, HeapType
<1>2. stack[t][i].src \in Players => Doomed(stack[t][i].src)
  BY DEF Doomed
<1> QED
  BY <1>1, <1>2 DEF FreshInv, DoomedUnsaved

\* Once delobject has taken an object out of autosave nothing puts it back, however
\* many loads, logins and deletions of the same player overlap: its last write is the
\* one delobject waits for.
THEOREM DeletedStaysUnsaved == Spec => []DeletedNotSaved
<1>1. Spec => []FreshInv
  BY FreshInit, FreshStep, PTL DEF Spec
<1> QED
  BY <1>1, FreshUnsaved, PTL

(***************************************************************************)
(* A link leaves once: when its delobject is the next call of the handler  *)
(* that runs, and afterwards.  What takes a connection or an fd mark away  *)
(* later waits for a link that leaves.                                     *)
(***************************************************************************)
Going(a) == /\ cpu \in Tasks
            /\ stack[cpu] # <<>>
            /\ stack[cpu][1].pc = "delobject"
            /\ stack[cpu][1].pid = a

Leaves(a) == sock[a] # "new" /\ (id_obj[a] # a \/ Going(a))

Marked == \A a \in Agents : id_obj[a] = a => sock[a] # "new" /\ conn[a] = a /\ fd_id[a] = a

Connected == \A a \in Agents : conn[a] # None => sock[a] # "new"

AgentsLeave == \A o \in Players, a \in Agents : obj[o].agent = a => Leaves(a)

CallsLeave == \A a \in Agents : Closing(a) \/ Kicking(a) => Leaves(a)

LinkInv == IInv /\ Marked /\ Connected /\ AgentsLeave /\ CallsLeave

LEMMA AgentType ==
    ASSUME IInv, NEW o \in Objs
    PROVE  /\ AgentOf(o) \in Agents \cup {None}
           /\ o \in Players => AgentOf(o) = obj[o].agent
           /\ o \in Agents => AgentOf(o) = o
BY Names DEF AgentOf, Objs, IInv, HeapType

\* While another call runs, a link that leaves has left.
LEMMA HasLeft ==
    ASSUME NEW t \in Tasks, NEW pc, Runs(t, pc), pc # "delobject", NEW a, Leaves(a)
    PROVE  id_obj[a] # a
<1>1. cpu \in Tasks => cpu = t
  BY Names, BoundsAssumption DEF Runs, Tasks
<1> QED
  BY <1>1 DEF Runs, Leaves, Going

LEMMA StepSock ==
    ASSUME NEW t \in Tasks, Step(t)
    PROVE  sock' = sock
<1>1. CASE DelNothing(t) \/ DelLink(t) \/ DelOnline(t) \/ DelOffline(t) \/ DelKuafu(t)
           \/ Deleted(t) \/ ExitGame(t) \/ Saved(t) \/ Pop(t)
  BY <1>1 DEF DelNothing, DelLink, DelOnline, DelOffline, DelKuafu, Deleted, ExitGame, Saved,
              Pop, tables
<1>2. CASE Unload(t) \/ NewPlayer(t) \/ SetHome(t) \/ NetTransfer(t)
           \/ AddPlayer(t) \/ AddOffline(t) \/ AddKuafu(t) \/ AddRepeat(t) \/ CallFails(t) \/ OnLogin(t)
  BY <1>2 DEF Unload, NewPlayer, SetHome, NetTransfer, AddPlayer, AddOffline, AddKuafu,
              AddRepeat, CallFails, OnLogin, tables
<1>3. CASE Kick(t) \/ ProtoKick(t) \/ Closed(t) \/ GoSrv(t) \/ ReenterGame(t)
  BY <1>3 DEF Kick, ProtoKick, Closed, GoSrv, ReenterGame, tables
<1> QED
  BY <1>1, <1>2, <1>3 DEF Step

\* The steps that change neither the tables of connections nor those of links.
Untied == UNCHANGED <<conn, id_obj, fd_id>>

LEMMA StepUntied ==
    ASSUME NEW t \in Tasks, Step(t),
           ~DelLink(t), ~Deleted(t), ~ProtoKick(t), ~Closed(t),
           ~AddPlayer(t), ~AddOffline(t), ~AddKuafu(t)
    PROVE  Untied
<1>1. CASE DelNothing(t) \/ DelOnline(t) \/ DelOffline(t) \/ DelKuafu(t)
           \/ ExitGame(t) \/ Saved(t) \/ Pop(t)
  BY <1>1 DEF DelNothing, DelOnline, DelOffline, DelKuafu, ExitGame, Saved,
              Pop, tables, reg, Untied
<1>2. CASE Unload(t) \/ NewPlayer(t) \/ SetHome(t) \/ NetTransfer(t)
           \/ AddRepeat(t) \/ CallFails(t) \/ OnLogin(t)
  BY <1>2 DEF Unload, NewPlayer, SetHome, NetTransfer, AddRepeat, CallFails, OnLogin, tables, reg, Untied
<1>3. CASE Kick(t) \/ GoSrv(t) \/ ReenterGame(t)
  BY <1>3 DEF Kick, GoSrv, ReenterGame, tables, reg, Untied
<1> QED
  BY <1>1, <1>2, <1>3 DEF Step

\* A link that stays keeps its connection and its fd mark; no step makes a link.
StaysTied ==
    \A a \in Agents : id_obj'[a] = a =>
        id_obj[a] = a /\ conn'[a] = conn[a] /\ fd_id'[a] = fd_id[a]

NoConnection == \A a \in Agents : conn'[a] # None => conn[a] # None

\* delobject of a link clears the marks of that link only.
LEMMA DelLinkTied ==
    ASSUME IInv, NEW t \in Tasks, DelLink(t)
    PROVE  StaysTied /\ NoConnection
<1> DEFINE p == stack[t][1].pid
<1>1. p \in Pids /\ id_obj[p] \in Agents /\ id_obj[p] # None
  BY StepTop, NamesAssumption DEF DelLink, GoodFrame
<1>2. p \in Agents /\ id_obj[p] = p
  BY <1>1, RegisteredGood
<1>3. AgentOf(p) = p /\ p # None
  BY <1>2, Names DEF AgentOf, Objs
<1>4. id_obj' = [id_obj EXCEPT ![p] = None] /\ fd_id' = [fd_id EXCEPT ![p] = None] /\ conn' = conn
  BY <1>2, <1>3 DEF DelLink, DropObject, tables
<1> HIDE DEF p
<1> QED
  BY <1>2, <1>3, <1>4 DEF StaysTied, NoConnection, IInv, RegType, Pids

\* The agent of a player has left, so its fd mark and connection are no link's.
LEMMA PlayerTied ==
    ASSUME LinkInv, NEW t \in Tasks,
           Deleted(t) \/ AddPlayer(t) \/ AddOffline(t) \/ AddKuafu(t)
    PROVE  StaysTied /\ NoConnection
<1>0. /\ id_obj \in [Pids -> Objs \cup {None}] /\ fd_id \in [Agents -> Pids \cup {None}]
      /\ conn \in [Agents -> Pids \cup {None}]
      /\ Agents \subseteq Pids /\ Agents \cap Roles = {} /\ None \notin Agents
      /\ Agents \cap Players = {}
  BY Names DEF LinkInv, IInv, RegType, TablesType, Pids, Objs
<1>1. CASE Deleted(t)
  <2> DEFINE p == stack[t][1].pid
             o == stack[t][1].src
             b == obj[o].agent
  <2>1. p \in Roles /\ o \in Players
    BY <1>1, StepTop, Made DEF Deleted, GoodFrame, Makers, LinkInv, IInv
  <2>2. AgentOf(o) = b /\ b \in Agents \cup {None}
    BY <2>1, AgentType DEF LinkInv, Objs
  <2>3. b # None => id_obj[b] # b
    BY <1>1, <2>1, <2>2, HasLeft DEF Deleted, LinkInv, AgentsLeave
  <2>4. /\ id_obj' = [id_obj EXCEPT ![p] = None] /\ conn' = conn
        /\ fd_id' = IF b = None THEN fd_id ELSE [fd_id EXCEPT ![b] = None]
    BY <1>1, <2>2 DEF Deleted, DropObject, tables
  <2> HIDE DEF p, o, b
  <2> QED
    BY <1>0, <2>1, <2>2, <2>3, <2>4 DEF StaysTied, NoConnection
<1>2. CASE AddPlayer(t)
  <2> DEFINE o == stack[t][1].dst
             p == obj[o].pid
             b == obj[o].agent
  <2>1. o \in Players /\ p \in Roles
    BY <1>2, Taken DEF AddPlayer, Takers, LinkInv
  <2>2. b \in Agents \cup {None}
    BY <2>1 DEF LinkInv, IInv, HeapType
  <2>3. b # None => id_obj[b] # b
    BY <1>2, <2>1, <2>2, HasLeft DEF AddPlayer, LinkInv, AgentsLeave
  <2>4. /\ id_obj' = [id_obj EXCEPT ![p] = o]
        /\ fd_id' = IF b = None THEN fd_id ELSE [fd_id EXCEPT ![b] = p]
        /\ conn' = IF conn[b] = None THEN conn ELSE [conn EXCEPT ![b] = p]
    BY <1>2 DEF AddPlayer, AddObject
  <2> HIDE DEF p, o, b
  <2> QED
    BY <1>0, <2>1, <2>2, <2>3, <2>4 DEF StaysTied, NoConnection
<1>3. CASE AddOffline(t) \/ AddKuafu(t)
  <2> DEFINE o == stack[t][1].dst
             p == obj[o].pid
  <2>1. o \in Players /\ p \in Roles
    BY <1>3, Taken DEF AddOffline, AddKuafu, Takers, LinkInv
  <2>2. id_obj' = [id_obj EXCEPT ![p] = o] /\ fd_id' = fd_id /\ conn' = conn
    BY <1>3 DEF AddOffline, AddKuafu, AddObject, tables
  <2> HIDE DEF p, o
  <2> QED
    BY <1>0, <2>1, <2>2 DEF StaysTied, NoConnection
<1> QED
  BY <1>1, <1>2, <1>3

\* proto.kick and the end of CMD.close: the agent has left.
LEMMA CutTied ==
    ASSUME LinkInv, NEW t \in Tasks, ProtoKick(t) \/ Closed(t)
    PROVE  StaysTied /\ NoConnection
<1>0. conn \in [Agents -> Pids \cup {None}] /\ id_obj' = id_obj /\ fd_id' = fd_id
  BY DEF LinkInv, IInv, TablesType, ProtoKick, Closed, reg
<1>1. stack[t] # <<>> /\ 1 \in 1..Len(stack[t])
  BY EmptySeq, LenProperties DEF ProtoKick, Closed, Runs, LinkInv, IInv, StackInv
<1>2. CASE ProtoKick(t)
  <2> DEFINE o == stack[t][1].src
             b == AgentOf(o)
  <2>1. o \in Agents \cup Players
    BY <1>2, StepTop, Made DEF ProtoKick, GoodFrame, LinkInv, IInv
  <2>2. b \in Agents \cup {None}
    BY <2>1, AgentType DEF LinkInv, Objs
  <2>3. b # None => Leaves(b)
    <3>1. CASE o \in Agents
      <4>1. b = o /\ Kicking(o)
        BY <1>1, <1>2, <2>1, <3>1, AgentType DEF LinkInv, Objs, Kicking, ProtoKick, Runs
      <4> QED
        BY <3>1, <4>1 DEF LinkInv, CallsLeave
    <3>2. CASE o \in Players
      <4>1. b = obj[o].agent
        BY <3>2, AgentType DEF LinkInv, Objs
      <4> QED
        BY <2>2, <3>2, <4>1 DEF LinkInv, AgentsLeave
    <3> QED
      BY <2>1, <3>1, <3>2
  <2>4. b # None => id_obj[b] # b
    BY <1>2, <2>3, HasLeft DEF ProtoKick
  <2>5. conn' = IF b = None THEN conn ELSE [conn EXCEPT ![b] = None]
    BY <1>2 DEF ProtoKick
  <2> HIDE DEF o, b
  <2> QED
    BY <1>0, <2>2, <2>4, <2>5 DEF StaysTied, NoConnection
<1>3. CASE Closed(t)
  <2> DEFINE b == stack[t][1].pid
  <2>1. b \in Agents
    BY <1>3, StepTop DEF Closed, GoodFrame, LinkInv
  <2>2. Closing(b)
    BY <1>1, <1>3 DEF Closing, Closed, Runs
  <2>3. id_obj[b] # b
    BY <1>3, <2>1, <2>2, HasLeft DEF Closed, LinkInv, CallsLeave
  <2>4. conn' = [conn EXCEPT ![b] = None]
    BY <1>3 DEF Closed
  <2> HIDE DEF b
  <2> QED
    BY <1>0, <2>1, <2>3, <2>4 DEF StaysTied, NoConnection
<1> QED
  BY <1>2, <1>3

LEMMA StepTied ==
    ASSUME LinkInv, NEW t \in Tasks, Step(t)
    PROVE  StaysTied /\ NoConnection
<1>1. Untied => StaysTied /\ NoConnection
  BY DEF Untied, StaysTied, NoConnection
<1> QED
  BY <1>1, StepUntied, DelLinkTied, PlayerTied, CutTied DEF LinkInv

LEMMA StepTurn ==
    ASSUME NEW t \in Tasks, Step(t)
    PROVE  /\ cpu \in {None, t}
           /\ stack[t][1].pc = "delobject" =>
                 DelNothing(t) \/ DelLink(t) \/ DelOnline(t) \/ DelOffline(t) \/ DelKuafu(t)
<1>1. CASE DelNothing(t) \/ DelLink(t) \/ DelOnline(t) \/ DelOffline(t) \/ DelKuafu(t)
  BY <1>1 DEF DelNothing, DelLink, DelOnline, DelOffline, DelKuafu, Runs
<1>2. CASE Deleted(t) \/ ExitGame(t) \/ Saved(t) \/ Pop(t)
           \/ Unload(t) \/ NewPlayer(t) \/ SetHome(t) \/ NetTransfer(t)
  BY <1>2 DEF Deleted, ExitGame, Saved, Pop, Unload, NewPlayer, SetHome, NetTransfer, Runs
<1>3. CASE AddPlayer(t) \/ AddOffline(t) \/ AddKuafu(t) \/ AddRepeat(t) \/ CallFails(t) \/ OnLogin(t)
           \/ Kick(t) \/ ProtoKick(t) \/ Closed(t) \/ GoSrv(t) \/ ReenterGame(t)
  BY <1>3 DEF AddPlayer, AddOffline, AddKuafu, AddRepeat, CallFails, OnLogin,
              Kick, ProtoKick, Closed, GoSrv, ReenterGame, Runs
<1> QED
  BY <1>1, <1>2, <1>3 DEF Step

\* A link whose delobject is the next call is deleted by the next step.
LEMMA LeavesStep ==
    ASSUME LinkInv, NEW t \in Tasks, Step(t), NEW a \in Agents, Leaves(a)
    PROVE  Leaves(a)'
<1>1. sock' = sock /\ sock[a] # "new"
  BY StepSock DEF Leaves
<1>2. CASE id_obj[a] # a
  BY <1>1, <1>2, StepTied DEF StaysTied, Leaves
<1>3. CASE id_obj[a] = a /\ Going(a)
  <2>1. cpu = t
    BY <1>3, StepTurn, Names, BoundsAssumption DEF Going, Tasks
  <2>2. stack[t][1].pc = "delobject" /\ stack[t][1].pid = a
    BY <1>3, <2>1 DEF Going
  <2>3. a # None /\ a \notin Players
    BY Names DEF Objs
  <2>4. DelLink(t)
    BY <1>3, <2>2, <2>3, StepTurn DEF DelNothing, DelOnline, DelOffline, DelKuafu
  <2>5. id_obj' = [id_obj EXCEPT ![a] = None]
    BY <2>2, <2>4 DEF DelLink, DropObject
  <2>6. id_obj'[a] # a
    BY <2>3, <2>5 DEF LinkInv, IInv, RegType, Pids
  <2> QED
    BY <1>1, <2>6 DEF Leaves
<1> QED
  BY <1>2, <1>3 DEF Leaves

\* What a message or a timer leaves alone; it comes while no call runs.
LEMMA MessageTurn ==
    ASSUME IInv, Server \/ \E a \in Agents : Client(a)
    PROVE  /\ cpu = None
           /\ \A o \in Players : obj'[o].agent = obj[o].agent
           /\ \/ \E a \in Agents : Start(a)
              \/ /\ Untied
                 /\ sock' = sock \/ \E a \in Agents : sock' = [sock EXCEPT ![a] = "closed"]
<1>1. ASSUME NEW a \in Agents, Start(a) \/ Close(a)
      PROVE  /\ cpu = None /\ obj' = obj
             /\ Start(a) \/ (Untied /\ sock' = [sock EXCEPT ![a] = "closed"])
  BY <1>1 DEF Start, Close, Spawn, heap, reg, Untied
<1>2. ASSUME NEW a \in Agents, Client(a), ~Start(a), ~Close(a)
      PROVE  /\ cpu = None /\ Untied /\ sock' = sock
             /\ \A o \in Players : obj'[o].agent = obj[o].agent
  <2>1. Requester(a) # None => cpu = None
    BY DEF Requester
  <2>2. a # None /\ None \notin Players
    BY Names DEF Objs
  <2>3. CASE Login(a)
    BY <2>1, <2>2, <2>3 DEF Login, heap, reg, Untied
  <2>4. CASE ExitRequest(a) \/ GoRequest(a)
    BY <2>1, <2>2, <2>4 DEF ExitRequest, GoRequest, tables, heap, reg, Untied
  <2>5. CASE Play(a)
    BY <2>1, <2>2, <2>5 DEF Play, tables, reg, Untied, IInv, HeapType
  <2>6. CASE \E r \in Roles : EnterQueued(a, r)
    BY <2>1, <2>6 DEF EnterQueued, MayEnter, tables, reg, Untied
  <2>7. CASE \E r \in Roles : EnterGame(a, r)
    BY <2>1, <2>7 DEF EnterGame, MayEnter, tables, reg, Untied
  <2>8. CASE \E r \in Roles : \E home \in BOOLEAN : EnterByToken(a, r, home)
    BY <2>1, <2>8 DEF EnterByToken, MayEnter, tables, reg, Untied
  <2> QED
    BY <1>2, <2>3, <2>4, <2>5, <2>6, <2>7, <2>8 DEF Client
<1>3. CASE Server
  BY <1>3 DEF Server, SetGoSrv, LoadOffline, GmKick, AutoSave, GrowIdle, Spawn, SpawnWaiting,
              tables, heap, reg, Untied
<1> QED
  BY <1>1, <1>2, <1>3

LEMMA LeavesMessage ==
    ASSUME IInv, Server \/ \E b \in Agents : Client(b), NEW a \in Agents, Leaves(a)
    PROVE  Leaves(a)'
<1>1. cpu = None /\ None \notin Tasks
  BY MessageTurn, Names, BoundsAssumption DEF Tasks
<1>2. sock[a] # "new" /\ id_obj[a] # a
  BY <1>1 DEF Leaves, Going
<1>3. CASE Untied /\ (sock' = sock \/ \E b \in Agents : sock' = [sock EXCEPT ![b] = "closed"])
  BY <1>2, <1>3 DEF Untied, Leaves, IInv, TablesType
<1>4. ASSUME NEW b \in Agents, Start(b)
      PROVE  Leaves(a)'
  <2>1. b # a /\ sock' = [sock EXCEPT ![b] = "open"] /\ id_obj' = [id_obj EXCEPT ![b] = b]
    BY <1>2, <1>4 DEF Start, AddObject
  <2> QED
    BY <1>2, <2>1 DEF Leaves, IInv, TablesType, RegType, Pids
<1> QED
  BY <1>3, <1>4, MessageTurn

LEMMA LeavesKept ==
    ASSUME LinkInv, [Next]_vars, NEW a \in Agents, Leaves(a)
    PROVE  Leaves(a)'
<1>1. CASE UNCHANGED vars
  BY <1>1 DEF vars, tables, reg, Leaves, Going
<1> QED
  BY <1>1, LeavesStep, LeavesMessage DEF Next, Quiet, LinkInv

LEMMA MarkedKept ==
    ASSUME LinkInv, [Next]_vars
    PROVE  Marked' /\ Connected'
<1>1. ASSUME NEW t \in Tasks, Step(t)
      PROVE  Marked' /\ Connected'
  BY <1>1, StepTied, StepSock DEF LinkInv, StaysTied, NoConnection, Marked, Connected
<1>2. ASSUME NEW b \in Agents, Start(b)
      PROVE  Marked' /\ Connected'
  <2>1. /\ sock' = [sock EXCEPT ![b] = "open"] /\ id_obj' = [id_obj EXCEPT ![b] = b]
        /\ fd_id' = [fd_id EXCEPT ![b] = b] /\ conn' = [conn EXCEPT ![b] = b]
    BY <1>2, Names DEF Start, AddObject, Objs
  <2> QED
    BY <2>1 DEF LinkInv, Marked, Connected, IInv, TablesType, RegType, Pids
<1>3. CASE Untied /\ (sock' = sock \/ \E b \in Agents : sock' = [sock EXCEPT ![b] = "closed"])
  BY <1>3 DEF Untied, LinkInv, Marked, Connected, IInv, TablesType
<1>4. CASE UNCHANGED vars
  BY <1>4 DEF vars, tables, reg, LinkInv, Marked, Connected
<1> QED
  BY <1>1, <1>2, <1>3, <1>4, MessageTurn DEF Next, Quiet, LinkInv


\* Only nettransfer gives a player object an agent.
LEMMA StepAgents ==
    ASSUME IInv, NEW t \in Tasks, Step(t), ~NetTransfer(t), NEW o \in Players
    PROVE  obj'[o].agent \in {obj[o].agent, None}
<1>1. CASE DelNothing(t) \/ DelLink(t) \/ DelOnline(t) \/ DelOffline(t) \/ DelKuafu(t)
           \/ Deleted(t) \/ ExitGame(t) \/ Saved(t) \/ Pop(t)
  BY <1>1 DEF DelNothing, DelLink, DelOnline, DelOffline, DelKuafu, Deleted, ExitGame, Saved,
              Pop, heap
<1>2. CASE Unload(t) \/ SetHome(t) \/ AddPlayer(t) \/ AddRepeat(t) \/ CallFails(t) \/ OnLogin(t)
  BY <1>2 DEF Unload, SetHome, AddPlayer, AddRepeat, CallFails, OnLogin, heap
<1>3. CASE NewPlayer(t)
  BY <1>3 DEF NewPlayer, NewObject, IInv, HeapType
<1>4. CASE AddOffline(t) \/ AddKuafu(t)
  BY <1>4 DEF AddOffline, AddKuafu, IInv, HeapType
<1>5. CASE Kick(t) \/ ProtoKick(t) \/ Closed(t) \/ GoSrv(t) \/ ReenterGame(t)
  BY <1>5 DEF Kick, ProtoKick, Closed, GoSrv, ReenterGame, heap
<1> QED
  BY <1>1, <1>2, <1>3, <1>4, <1>5 DEF Step

\* The agent that nettransfer moves to a player object is that of a link it deletes
\* next, or that of another player object.
LEMMA TransferLeaves ==
    ASSUME LinkInv, NEW t \in Tasks, NetTransfer(t), NEW o \in Players, NEW a \in Agents,
           obj'[o].agent = a
    PROVE  Leaves(a)'
<1> DEFINE f == stack[t][1]
           D == Frame("delobject", PidOf(f.src), None, None)
           A == Frame("addplayer", None, f.src, f.dst)
<1>0. IInv /\ a # None /\ (Leaves(a) => Leaves(a)')
  BY LeavesStep, Names DEF LinkInv, Step, Objs
<1>1. CASE obj[o].agent = a
  BY <1>0, <1>1 DEF LinkInv, AgentsLeave
<1>2. CASE obj[o].agent # a
  <2>1. /\ a = AgentOf(f.src) /\ conn[a] # None /\ Continue(t, <<D, A>>)
    BY <1>0, <1>2 DEF NetTransfer, IInv, HeapType
  <2>2. f.src \in Agents \cup Players
    BY <1>0, StepTop, Made DEF NetTransfer, GoodFrame, IInv
  <2>3. CASE f.src \in Players
    BY <1>0, <2>1, <2>3, AgentType DEF LinkInv, AgentsLeave, Objs
  <2>4. CASE f.src \in Agents
    <3>1. f.src = a /\ PidOf(f.src) = a
      BY <1>0, <2>1, <2>4, AgentType DEF Objs, PidOf
    <3>2. D.pc = "delobject" /\ D.pid = a
      BY <3>1 DEF Frame
    <3>3. stack[t] \in Seq(FrameType) /\ stack[t] # <<>>
      BY <1>0 DEF NetTransfer, Runs, IInv, StackInv
    <3> HIDE DEF D, A
    <3>4. <<D, A>> \o Tail(stack[t]) # <<>> /\ (<<D, A>> \o Tail(stack[t]))[1] = D
      BY <3>3
    <3>5. cpu' = t /\ stack'[t] = <<D, A>> \o Tail(stack[t])
      BY <1>0, <2>1, <3>4 DEF Continue, IInv, StackInv
    <3>6. Going(a)'
      BY <3>2, <3>4, <3>5 DEF Going
    <3>7. sock'[a] # "new"
      BY <2>1, StepSock DEF LinkInv, Connected, Step
    <3> QED
      BY <3>6, <3>7 DEF Leaves
  <2> QED
    BY <2>2, <2>3, <2>4
<1> QED
  BY <1>1, <1>2

LEMMA AgentsKept ==
    ASSUME LinkInv, [Next]_vars
    PROVE  AgentsLeave'
<1> SUFFICES ASSUME NEW o \in Players, NEW a \in Agents, obj'[o].agent = a
             PROVE  Leaves(a)'
  BY DEF AgentsLeave
<1>1. CASE \E t \in Tasks : NetTransfer(t)
  BY <1>1, TransferLeaves
<1>2. CASE \A t \in Tasks : ~NetTransfer(t)
  <2>1. obj'[o].agent \in {obj[o].agent, None}
    <3>1. CASE UNCHANGED vars
      BY <3>1 DEF vars, heap
    <3> QED
      BY <1>2, <3>1, StepAgents, MessageTurn DEF Next, Quiet, LinkInv
  <2>2. a # None
    BY Names DEF Objs
  <2>3. obj[o].agent = a
    BY <2>1, <2>2
  <2> QED
    BY <2>3, LeavesKept DEF LinkInv, AgentsLeave
<1> QED
  BY <1>1, <1>2

\* A kick or a close that finds a link deletes it first.
LEMMA KickLeaves ==
    ASSUME LinkInv, NEW t \in Tasks, Kick(t), NEW a \in Agents, id_obj[stack[t][1].pid] = a
    PROVE  Leaves(a)'
<1> DEFINE p == stack[t][1].pid
           D == Frame("delobject", p, None, None)
           K == Frame("protokick", None, id_obj[p], None)
<1>1. IInv /\ a # None
  BY Names DEF LinkInv, Objs
<1>2. p \in Pids
  BY <1>1, StepTop DEF Kick, GoodFrame
<1>3. p = a
  BY <1>1, <1>2, RegisteredGood
<1>4. Continue(t, <<D, K>>) /\ D.pc = "delobject" /\ D.pid = a
  BY <1>1, <1>3 DEF Kick, Frame
<1>5. stack[t] \in Seq(FrameType) /\ stack[t] # <<>>
  BY <1>1 DEF Kick, Runs, IInv, StackInv
<1> HIDE DEF D, K
<1>6. <<D, K>> \o Tail(stack[t]) # <<>> /\ (<<D, K>> \o Tail(stack[t]))[1] = D
  BY <1>5
<1>7. cpu' = t /\ stack'[t] = <<D, K>> \o Tail(stack[t])
  BY <1>1, <1>4, <1>6 DEF Continue, IInv, StackInv
<1>8. Going(a)'
  BY <1>4, <1>6, <1>7 DEF Going
<1>9. sock'[a] # "new"
  BY <1>3, StepSock DEF LinkInv, Marked, Step
<1> QED
  BY <1>8, <1>9 DEF Leaves

LEMMA CloseLeaves ==
    ASSUME LinkInv, IInv', NEW a \in Agents, Close(a), conn[a] # None
    PROVE  Leaves(a)'
<1>1. sock'[a] # "new" /\ id_obj' = id_obj
  BY DEF Close, reg, LinkInv, IInv, TablesType
<1>2. CASE conn[a] = a
  BY <1>1, <1>2, CloseWaits DEF LinkInv, Leaves, Going
<1>3. CASE conn[a] # a
  BY <1>1, <1>3 DEF LinkInv, Marked, Leaves
<1> QED
  BY <1>2, <1>3

LEMMA CallsKept ==
    ASSUME LinkInv, IInv', [Next]_vars
    PROVE  CallsLeave'
<1> SUFFICES ASSUME NEW a \in Agents, (Closing(a) \/ Kicking(a))' PROVE Leaves(a)'
  BY DEF CallsLeave
<1>0. IInv
  BY DEF LinkInv
<1>1. Closing(a) \/ Kicking(a) => Leaves(a)'
  BY LeavesKept DEF LinkInv, CallsLeave
<1>2. ASSUME NEW t \in Tasks, Kick(t)
      PROVE  Leaves(a)'
  BY <1>0, <1>1, <1>2, KickWaits, KickLeaves DEF NoClose
<1>3. ASSUME NEW b \in Agents, Close(b)
      PROVE  Leaves(a)'
  <2>1. CASE conn[b] = None
    <3>1. Calm
      BY <1>3, <2>1, SameCalm DEF Close
    <3> QED
      BY <1>1, <3>1 DEF Calm, NoClose, NoKick
  <2>2. CASE conn[b] # None
    BY <1>0, <1>1, <1>3, <2>2, CloseWaits, CloseLeaves DEF NoKick
  <2> QED
    BY <2>1, <2>2
<1>4. CASE NoClose /\ NoKick
  BY <1>1, <1>4 DEF NoClose, NoKick
<1>5. ASSUME NEW t \in Tasks, Step(t), ~Kick(t)
      PROVE  NoClose /\ NoKick
  BY <1>0, <1>5, CalmStep, AddCalm, TransferCalm, DelWaits, NewHeld DEF Step, Calm
<1>6. ASSUME NEW b \in Agents, Client(b), ~Close(b)
      PROVE  NoClose /\ NoKick
  BY <1>0, <1>6, CalmClient DEF Calm
<1>7. CASE Server \/ UNCHANGED vars
  BY <1>0, <1>4, <1>7, CalmServer, SameCalm DEF Calm, vars
<1> QED
  BY <1>2, <1>3, <1>4, <1>5, <1>6, <1>7 DEF Next, Quiet

LEMMA LinkStep ==
    ASSUME LinkInv, [Next]_vars
    PROVE  LinkInv'
BY NextInv, MarkedKept, AgentsKept, CallsKept DEF LinkInv

LEMMA LinkInit == Init => LinkInv
<1> SUFFICES ASSUME Init PROVE LinkInv
  OBVIOUS
<1>1. \A t \in Tasks : Len(stack[t]) = 0
  BY DEF Init
<1>2. CallsLeave
  BY <1>1 DEF CallsLeave, Closing, Kicking
<1>3. Marked /\ Connected /\ AgentsLeave
  BY Names DEF Init, Marked, Connected, AgentsLeave, Objs, Pids
<1> QED
  BY <1>2, <1>3, InitInv DEF LinkInv

\* A connected link keeps its entry in the connection table and its fd mark until it is
\* deleted, whatever kicks, closes and transfers of other clients are still on their way:
\* a handler that waits to drop a connection waits for one whose link has left.
THEOREM LinksStayConnected == Spec => []LinkConnected
<1>1. Spec => []LinkInv
  BY LinkInit, LinkStep, PTL DEF Spec
<1>2. LinkInv => LinkConnected
  BY DEF LinkInv, Marked, LinkConnected
<1> QED
  BY <1>1, <1>2, PTL

=============================================================================
