--------------------------- MODULE SessionProofs ---------------------------
(***************************************************************************)
(* Theorems about the session core, for every number of clients, roles,    *)
(* objects and handlers.                                                   *)
(***************************************************************************)
EXTENDS Session, FiniteSetTheorems, SequenceTheorems, WellFoundedInduction, TLAPS

(***************************************************************************)
(* What the frames of a handler look like.  recoverplayer and newplayer    *)
(* hand the object they make to the frame below them, so only there may a  *)
(* frame still wait for its object.                                        *)
(***************************************************************************)
Takers == {"sethome", "nettransfer", "addplayer", "addoffline", "addkuafu"}
Makers == {"recoverplayer", "newplayer"}

GoodFrame(f, n) ==
    /\ f \in FrameType
    /\ f.pc \in {"deleted", "exitgame", "saved"} => f.src \in 1..n
    /\ f.pc \in {"sethome", "nettransfer", "protokick"} => f.src \in Agents \cup 1..n
    /\ f.pc \in Makers \cup {"deleted"} => f.pid \in Roles
    /\ f.pc \in {"delobject", "kick", "gosrv", "reentergame"} => f.pid \in Pids
    /\ f.pc = "closed" => f.pid \in Agents
    /\ f.dst \in 1..n \cup {None}

Waits(f) == f.pc \in Takers /\ f.dst = None

GoodStack(s, n) ==
    /\ s \in Seq(FrameType)
    /\ \A i \in 1..Len(s) :
        /\ GoodFrame(s[i], n)
        /\ Waits(s[i]) => i > 1 /\ s[i - 1].pc \in Makers

StacksGood == \A t \in Tasks : GoodStack(stack[t], nobj)

\* Every object that was made is of a role.
ObjectsGood == \A o \in 1..nobj : obj[o].pid \in Roles

\* An object is registered under its own pid.
RegGood ==
    \A p \in Pids : id_obj[p] # None =>
        PidOf(id_obj[p]) = p /\ id_obj[p] \in Agents \cup 1..nobj

StackInv ==
    /\ stack \in [Tasks -> Seq(FrameType)]
    /\ cpu \in Tasks \cup {None}
    /\ nobj \in Nat
    /\ StacksGood

\* TypeOK in the groups of variables that the actions leave alone together.
TablesType ==
    /\ sock \in [Agents -> {"new", "open", "closed"}]
    /\ conn \in [Agents -> Pids \cup {None}]
    /\ auth \subseteq Agents

RegType ==
    /\ id_obj \in [Pids -> Objs \cup {None}]
    /\ fd_id \in [Agents -> Pids \cup {None}]
    /\ cnt \in [States -> Int]
    /\ num \in Int

HeapType ==
    /\ obj \in [Players -> [pid : Roles \cup {None}, agent : Agents \cup {None},
                            state : {"new", "online", "offline", "kuafu"}, data : Nat]]
    /\ nobj \in 0..MaxObj
    /\ idle \subseteq Players
    /\ saving \subseteq 1..nobj
    /\ ObjectsGood

QueueType == queue \in Seq([pid : Pids, role : Roles])

WorldType ==
    /\ db \in [Roles -> Nat]
    /\ clock \in Nat
    /\ tokened \in Nat
    /\ gone \subseteq Roles

IInv ==
    /\ TablesType /\ RegType /\ HeapType /\ QueueType /\ WorldType
    /\ StackInv /\ RegGood

(***************************************************************************)
(* Frames and stacks.                                                      *)
(***************************************************************************)
LEMMA FrameField ==
    ASSUME NEW pc, NEW pid, NEW src, NEW dst
    PROVE  /\ Frame(pc, pid, src, dst).pc = pc
           /\ Frame(pc, pid, src, dst).pid = pid
           /\ Frame(pc, pid, src, dst).src = src
           /\ Frame(pc, pid, src, dst).dst = dst
BY DEF Frame

LEMMA LeastElement ==
    ASSUME NEW S \in SUBSET Nat, S # {}
    PROVE  \E x \in S : \A y \in S : x <= y
<1> DEFINE R == OpToRel(<, Nat)
<1>1. R = {ss \in Nat \X Nat : ss[1] < ss[2]}
  BY DEF OpToRel
<1>2. IsWellFoundedOn(R, Nat)
  BY NatLessThanWellFounded
<1> HIDE DEF R
<1>3. PICK x \in S : \A y \in S : <<y, x>> \notin R
  BY <1>2, WFMin
<1>4. \A y \in S : ~(y < x)
  BY <1>1, <1>3
<1> QED
  BY <1>4

\* Replacing the first frame of a stack.
LEMMA Replaced ==
    ASSUME NEW S, NEW frames \in Seq(S), NEW s \in Seq(S), s # <<>>
    PROVE  LET r == frames \o Tail(s)
           IN /\ r \in Seq(S)
              /\ Len(r) = Len(frames) + Len(s) - 1
              /\ \A i \in 1..Len(r) :
                    r[i] = IF i <= Len(frames) THEN frames[i] ELSE s[i - Len(frames) + 1]
<1>1. /\ Tail(s) \in Seq(S)
      /\ Len(Tail(s)) = Len(s) - 1
      /\ \A i \in 1..Len(Tail(s)) : Tail(s)[i] = s[i + 1]
  BY HeadTailProperties
<1>2. /\ frames \o Tail(s) \in Seq(S)
      /\ Len(frames \o Tail(s)) = Len(frames) + Len(Tail(s))
      /\ \A i \in 1..(Len(frames) + Len(Tail(s))) :
            (frames \o Tail(s))[i] =
              IF i <= Len(frames) THEN frames[i] ELSE Tail(s)[i - Len(frames)]
  BY <1>1, ConcatProperties
<1>3. Len(frames) \in Nat /\ Len(s) \in Nat
  BY LenProperties
<1> QED
  BY <1>1, <1>2, <1>3

LEMMA NoFrame == ASSUME NEW n PROVE GoodStack(<<>>, n)
BY DEF GoodStack

LEMMA OneFrame ==
    ASSUME NEW n, NEW f, GoodFrame(f, n), ~Waits(f)
    PROVE  GoodStack(<<f>>, n)
BY DEF GoodStack, GoodFrame

LEMMA TwoFrames ==
    ASSUME NEW n, NEW f, NEW g, GoodFrame(f, n), GoodFrame(g, n),
           ~Waits(f), Waits(g) => f.pc \in Makers
    PROVE  GoodStack(<<f, g>>, n)
BY DEF GoodStack, GoodFrame

LEMMA ThreeFrames ==
    ASSUME NEW n, NEW f, NEW g, NEW h,
           GoodFrame(f, n), GoodFrame(g, n), GoodFrame(h, n),
           ~Waits(f), Waits(g) => f.pc \in Makers, Waits(h) => g.pc \in Makers
    PROVE  GoodStack(<<f, g, h>>, n)
BY DEF GoodStack, GoodFrame

\* A stack stays good when its first frame becomes other frames: the frame below
\* waits for an object only if the first frame makes it, and then another maker
\* comes last among the new frames.
LEMMA ReplacedGood ==
    ASSUME NEW n, NEW s, NEW frames,
           GoodStack(s, n), s # <<>>, GoodStack(frames, n),
           \/ s[1].pc \notin Makers
           \/ frames # <<>> /\ frames[Len(frames)].pc \in Makers
    PROVE  GoodStack(frames \o Tail(s), n)
<1> DEFINE r == frames \o Tail(s)
<1>1. /\ s \in Seq(FrameType) /\ frames \in Seq(FrameType)
      /\ Len(s) \in Nat \ {0} /\ Len(frames) \in Nat
      /\ frames # <<>> => Len(frames) \in Nat \ {0}
  BY EmptySeq, LenProperties DEF GoodStack
<1>2. /\ r \in Seq(FrameType)
      /\ Len(r) = Len(frames) + Len(s) - 1
      /\ \A i \in 1..Len(r) :
            r[i] = IF i <= Len(frames) THEN frames[i] ELSE s[i - Len(frames) + 1]
  BY <1>1, Replaced
<1>3. SUFFICES ASSUME NEW i \in 1..Len(r)
               PROVE  /\ GoodFrame(r[i], n)
                      /\ Waits(r[i]) => i > 1 /\ r[i - 1].pc \in Makers
  BY <1>2 DEF GoodStack
<1> HIDE DEF r
<1>4. CASE i <= Len(frames)
  <2>1. r[i] = frames[i] /\ (i > 1 => r[i - 1] = frames[i - 1])
    BY <1>1, <1>2, <1>4
  <2> QED
    BY <1>1, <1>4, <2>1 DEF GoodStack
<1>5. CASE i > Len(frames) + 1
  <2>1. /\ r[i] = s[i - Len(frames) + 1]
        /\ r[i - 1] = s[i - Len(frames)]
        /\ i - Len(frames) + 1 \in 1..Len(s)
    BY <1>1, <1>2, <1>5
  <2>2. Waits(s[i - Len(frames) + 1]) => s[(i - Len(frames) + 1) - 1].pc \in Makers
    BY <2>1 DEF GoodStack
  <2> QED
    BY <1>1, <1>5, <2>1, <2>2 DEF GoodStack
<1>6. CASE i = Len(frames) + 1
  <2>1. r[i] = s[2] /\ 2 \in 1..Len(s)
    BY <1>1, <1>2, <1>6
  <2>2. GoodFrame(s[2], n) /\ (Waits(s[2]) => s[2 - 1].pc \in Makers)
    BY <2>1 DEF GoodStack
  <2>3. CASE s[1].pc \notin Makers
    BY <2>1, <2>2, <2>3
  <2>4. CASE frames # <<>> /\ frames[Len(frames)].pc \in Makers
    <3>1. r[i - 1] = frames[Len(frames)] /\ i > 1
      BY <1>1, <1>2, <1>6, <2>4
    <3> QED
      BY <2>1, <2>2, <2>4, <3>1
  <2> QED
    BY <2>3, <2>4
<1> QED
  BY <1>1, <1>3, <1>4, <1>5, <1>6

(***************************************************************************)
(* The scheduler keeps the stacks good.                                    *)
(***************************************************************************)
LEMMA TopFrame ==
    ASSUME StackInv, NEW t \in Tasks, stack[t] # <<>>
    PROVE  GoodFrame(stack[t][1], nobj) /\ ~Waits(stack[t][1])
<1>1. GoodStack(stack[t], nobj)
  BY DEF StackInv, StacksGood
<1>2. 1 \in 1..Len(stack[t])
  BY <1>1, EmptySeq DEF GoodStack
<1> QED
  BY <1>1, <1>2 DEF GoodStack

LEMMA ReplaceGood ==
    ASSUME StackInv, NEW t \in Tasks, stack[t] # <<>>,
           NEW frames, GoodStack(frames, nobj),
           \/ stack[t][1].pc \notin Makers
           \/ frames # <<>> /\ frames[Len(frames)].pc \in Makers,
           stack' = [stack EXCEPT ![t] = frames \o Tail(stack[t])],
           nobj' = nobj, cpu' \in {None, t}
    PROVE  StackInv'
<1>1. GoodStack(frames \o Tail(stack[t]), nobj)
  BY ReplacedGood DEF StackInv, StacksGood
<1>2. \A u \in Tasks : GoodStack(stack'[u], nobj')
  BY <1>1 DEF StackInv, StacksGood
<1>3. stack' \in [Tasks -> Seq(FrameType)]
  BY <1>1 DEF StackInv, GoodStack
<1> QED
  BY <1>2, <1>3 DEF StackInv, StacksGood

LEMMA ContinueGood ==
    ASSUME StackInv, NEW t \in Tasks, stack[t] # <<>>,
           NEW frames, GoodStack(frames, nobj),
           \/ stack[t][1].pc \notin Makers
           \/ frames # <<>> /\ frames[Len(frames)].pc \in Makers,
           Continue(t, frames), nobj' = nobj
    PROVE  StackInv'
<1>1. /\ stack' = [stack EXCEPT ![t] = frames \o Tail(stack[t])]
      /\ cpu' \in {None, t}
  BY DEF Continue
<1> QED
  BY <1>1, ReplaceGood

LEMMA SuspendGood ==
    ASSUME StackInv, NEW t \in Tasks, stack[t] # <<>>,
           NEW frames, GoodStack(frames, nobj),
           stack[t][1].pc \notin Makers,
           Suspend(t, frames), nobj' = nobj
    PROVE  StackInv'
<1>1. /\ stack' = [stack EXCEPT ![t] = frames \o Tail(stack[t])]
      /\ cpu' \in {None, t}
  BY DEF Suspend
<1> QED
  BY <1>1, ReplaceGood

\* What is left of a stack after an error begins with a deleted frame, which does
\* not wait for an object.
LEMMA SuffixGood ==
    ASSUME NEW n, NEW s, GoodStack(s, n),
           NEW k \in 2..Len(s), s[k].pc = "deleted"
    PROVE  GoodStack(SubSeq(s, k, Len(s)), n)
<1> DEFINE u == SubSeq(s, k, Len(s))
<1>1. s \in Seq(FrameType) /\ Len(s) \in Nat
  BY LenProperties DEF GoodStack
<1>2. \A i \in k..Len(s) : s[i] \in FrameType
  BY <1>1, ElementOfSeq
<1>3. /\ u \in Seq(FrameType)
      /\ Len(u) = Len(s) - k + 1
      /\ \A i \in 1..Len(u) : u[i] = s[k + i - 1]
  BY <1>1, <1>2, SubSeqProperties
<1> HIDE DEF u
<1>4. ASSUME NEW i \in 1..Len(u)
      PROVE  GoodFrame(u[i], n) /\ (Waits(u[i]) => i > 1 /\ u[i - 1].pc \in Makers)
  <2>1. u[i] = s[k + i - 1] /\ k + i - 1 \in 1..Len(s)
    BY <1>1, <1>3
  <2>2. GoodFrame(u[i], n) /\ (Waits(u[i]) => s[(k + i - 1) - 1].pc \in Makers)
    BY <2>1 DEF GoodStack
  <2>3. CASE i = 1
    BY <2>1, <2>2, <2>3 DEF Waits, Takers
  <2>4. CASE i > 1
    <3>1. u[i - 1] = s[(k + i - 1) - 1]
      BY <1>1, <1>3, <2>4
    <3> QED
      BY <2>2, <2>4, <3>1
  <2> QED
    BY <1>1, <1>3, <2>3, <2>4
<1>5. GoodStack(u, n)
  BY <1>3, <1>4 DEF GoodStack
<1> QED
  BY <1>5 DEF u

LEMMA UnwoundGood ==
    ASSUME NEW n, NEW s, GoodStack(s, n)
    PROVE  GoodStack(Unwind(s), n)
<1> DEFINE caught == {i \in 2..Len(s) : s[i].pc = "deleted"}
           first == CHOOSE i \in caught : \A j \in caught : i <= j
<1>1. s \in Seq(FrameType) /\ Len(s) \in Nat
  BY LenProperties DEF GoodStack
<1>2. CASE caught = {}
  <2>1. Unwind(s) = <<>>
    BY <1>2 DEF Unwind
  <2> QED
    BY <2>1, NoFrame
<1>3. CASE caught # {}
  <2>1. Unwind(s) = SubSeq(s, first, Len(s))
    BY <1>3 DEF Unwind
  <2>2. \E i \in caught : \A j \in caught : i <= j
    <3>1. caught \in SUBSET Nat
      BY <1>1
    <3> HIDE DEF caught
    <3> QED
      BY <1>3, <3>1, LeastElement
  <2>3. first \in caught
    <3> HIDE DEF caught
    <3> QED
      BY <2>2
  <2>4. first \in 2..Len(s) /\ s[first].pc = "deleted"
    BY <2>3
  <2> HIDE DEF first
  <2>5. GoodStack(SubSeq(s, first, Len(s)), n)
    BY <2>4, SuffixGood
  <2> QED
    BY <2>1, <2>5
<1> QED
  BY <1>2, <1>3

LEMMA RaiseGood ==
    ASSUME StackInv, NEW t \in Tasks, stack[t] # <<>>, Raise(t), nobj' = nobj
    PROVE  StackInv'
<1>1. GoodStack(Unwind(stack[t]), nobj)
  BY UnwoundGood DEF StackInv, StacksGood
<1>2. /\ stack' = [stack EXCEPT ![t] = Unwind(stack[t])]
      /\ cpu' \in {None, t}
  BY DEF Raise
<1> QED
  BY <1>1, <1>2 DEF StackInv, StacksGood, GoodStack

\* A new handler takes a free task.
LEMMA SpawnGood ==
    ASSUME StackInv, NEW frames, GoodStack(frames, nobj), nobj' = nobj,
           Spawn(frames) \/ SpawnWaiting(frames)
    PROVE  StackInv'
<1>1. NextFree \in Tasks
  <2>1. Free \subseteq Tasks /\ Free # {}
    BY DEF Free, Spawn, SpawnWaiting
  <2>2. Tasks \subseteq Nat
    BY BoundsAssumption DEF Tasks
  <2>3. \E t \in Free : \A u \in Free : t <= u
    BY <2>1, <2>2, LeastElement
  <2> QED
    BY <2>1, <2>3 DEF NextFree
<1>2. /\ stack' = [stack EXCEPT ![NextFree] = frames]
      /\ cpu' \in {cpu, NextFree}
  BY DEF Spawn, SpawnWaiting
<1> QED
  BY <1>1, <1>2 DEF StackInv, StacksGood, GoodStack

(***************************************************************************)
(* The parts of the actions.                                               *)
(***************************************************************************)
LEMMA Names ==
    /\ None \notin Objs /\ None \notin Pids
    /\ Agents \cap Players = {} /\ Agents \cap Roles = {}
    /\ \A n : n \subseteq Int => None \notin n
BY NamesAssumption DEF Objs, Pids, Players

LEMMA Made ==
    ASSUME HeapType
    PROVE  1..nobj \subseteq Players /\ nobj \in Nat
BY BoundsAssumption DEF HeapType, Players

\* What is registered is a link under its own pid, or a player of a role.
LEMMA RegisteredGood ==
    ASSUME IInv, NEW p \in Pids, id_obj[p] # None
    PROVE  /\ id_obj[p] \in Agents \cup 1..nobj
           /\ id_obj[p] \in Agents => id_obj[p] = p
           /\ id_obj[p] \in Players =>
                 id_obj[p] \in 1..nobj /\ p \in Roles /\ obj[id_obj[p]].pid = p
<1>1. id_obj[p] \in Agents \cup 1..nobj /\ PidOf(id_obj[p]) = p
  BY DEF IInv, RegGood
<1>2. id_obj[p] \in Players => id_obj[p] \notin Agents
  BY Names
<1> QED
  BY <1>1, <1>2 DEF PidOf, IInv, HeapType, ObjectsGood

LEMMA IInvTypes == IInv => TypeOK
BY Made DEF IInv, TablesType, RegType, HeapType, QueueType, WorldType, StackInv, TypeOK

LEMMA Same ==
    /\ TablesType /\ UNCHANGED tables => TablesType'
    /\ RegType /\ UNCHANGED reg => RegType'
    /\ HeapType /\ UNCHANGED heap => HeapType'
    /\ QueueType /\ UNCHANGED queue => QueueType'
    /\ WorldType /\ UNCHANGED world => WorldType'
    /\ StackInv /\ UNCHANGED <<stack, cpu, nobj>> => StackInv'
    /\ RegGood /\ UNCHANGED <<reg, obj, nobj>> => RegGood'
    /\ RegGood /\ UNCHANGED <<reg, heap>> => RegGood'
<1>1. TablesType /\ UNCHANGED tables => TablesType'
  BY DEF TablesType, tables
<1>2. RegType /\ UNCHANGED reg => RegType'
  BY DEF RegType, reg
<1>3. HeapType /\ UNCHANGED heap => HeapType'
  BY DEF HeapType, heap, ObjectsGood
<1>4. QueueType /\ UNCHANGED queue => QueueType'
  BY DEF QueueType
<1>5. WorldType /\ UNCHANGED world => WorldType'
  BY DEF WorldType, world
<1>6. StackInv /\ UNCHANGED <<stack, cpu, nobj>> => StackInv'
  BY DEF StackInv, StacksGood
<1>7. RegGood /\ UNCHANGED <<reg, obj, nobj>> => RegGood'
  BY DEF RegGood, reg, PidOf
<1>8. RegGood /\ UNCHANGED <<reg, heap>> => RegGood'
  BY DEF RegGood, reg, heap, PidOf
<1> QED
  BY <1>1, <1>2, <1>3, <1>4, <1>5, <1>6, <1>7, <1>8

LEMMA DroppedGood ==
    ASSUME RegGood, RegType, NEW q, NEW o, DropObject(q, o), obj' = obj, nobj' = nobj
    PROVE  RegGood'
<1> SUFFICES ASSUME NEW p \in Pids, id_obj'[p] # None
             PROVE  (PidOf(id_obj[p]) = p /\ id_obj[p] \in Agents \cup 1..nobj)'
  BY DEF RegGood
<1>1. id_obj'[p] = id_obj[p]
  BY DEF RegType, DropObject
<1>2. PidOf(id_obj[p]) = p /\ id_obj[p] \in Agents \cup 1..nobj
  BY <1>1 DEF RegGood
<1> QED
  BY <1>1, <1>2 DEF PidOf

\* Objects keep their pid.
LEMMA RegKept ==
    ASSUME RegGood, RegType, nobj \in Nat, nobj' \in Nat, nobj <= nobj',
           \A o \in 1..nobj : obj'[o].pid = obj[o].pid,
           id_obj' = id_obj
    PROVE  RegGood'
<1> SUFFICES ASSUME NEW p \in Pids, id_obj'[p] # None
             PROVE  (PidOf(id_obj[p]) = p /\ id_obj[p] \in Agents \cup 1..nobj)'
  BY DEF RegGood
<1>1. id_obj'[p] = id_obj[p]
  BY DEF RegType
<1>2. PidOf(id_obj[p]) = p /\ id_obj[p] \in Agents \cup 1..nobj
  BY <1>1 DEF RegGood
<1> QED
  BY <1>1, <1>2 DEF PidOf

LEMMA AddedGood ==
    ASSUME RegGood, RegType, nobj \in Nat, UNCHANGED nobj,
           NEW o \in 1..nobj, o \notin Agents,
           id_obj' = [id_obj EXCEPT ![obj[o].pid] = o],
           \A x \in 1..nobj : obj'[x].pid = obj[x].pid
    PROVE  RegGood'
<1> SUFFICES ASSUME NEW p \in Pids, id_obj'[p] # None
             PROVE  (PidOf(id_obj[p]) = p /\ id_obj[p] \in Agents \cup 1..nobj)'
  BY DEF RegGood
<1>1. CASE p = obj[o].pid
  BY <1>1 DEF RegType, PidOf
<1>2. CASE p # obj[o].pid
  <2>1. id_obj'[p] = id_obj[p]
    BY <1>2 DEF RegType
  <2>2. PidOf(id_obj[p]) = p /\ id_obj[p] \in Agents \cup 1..nobj
    BY <2>1 DEF RegGood
  <2> QED
    BY <2>1, <2>2 DEF PidOf
<1> QED
  BY <1>1, <1>2

LEMMA AddObjectType ==
    ASSUME RegType, saving \subseteq 1..nobj,
           NEW p \in Pids \cup {None}, NEW o \in Objs, NEW s, NEW agent,
           s # "link" => o \in 1..nobj, AddObject(p, o, s, agent)
    PROVE  RegType' /\ saving' \subseteq 1..nobj
<1>1. Counter(s) \in States
  BY DEF Counter, States
<1>2. id_obj' \in [Pids -> Objs \cup {None}]
  BY DEF AddObject, RegType
<1>6. num' \in Int
  BY DEF AddObject, RegType
<1>3. fd_id' \in [Agents -> Pids \cup {None}]
  BY DEF AddObject, RegType
<1>4. cnt' \in [States -> Int]
  BY <1>1 DEF AddObject, RegType
<1>5. saving' \subseteq 1..nobj
  BY DEF AddObject
<1> QED
  BY <1>2, <1>3, <1>4, <1>5, <1>6 DEF RegType

LEMMA DropObjectType ==
    ASSUME RegType, NEW p, NEW o, DropObject(p, o)
    PROVE  RegType'
<1>1. Counter(StateOf(o)) \in States
  BY DEF Counter, States
<1>2. id_obj' \in [Pids -> Objs \cup {None}]
  BY DEF DropObject, RegType
<1>6. num' \in Int
  BY DEF DropObject, RegType
<1>3. fd_id' \in [Agents -> Pids \cup {None}]
  BY DEF DropObject, RegType
<1>4. cnt' \in [States -> Int]
  BY <1>1 DEF DropObject, RegType
<1> QED
  BY <1>2, <1>3, <1>4, <1>6 DEF RegType

LEMMA QueueRemoveType ==
    ASSUME QueueType, NEW p, QueueRemove(p)
    PROVE  QueueType'
<1> DEFINE hits == {i \in 1..Len(queue) : queue[i].pid = p}
           first == CHOOSE i \in hits : \A j \in hits : i <= j
           S == [pid : Pids, role : Roles]
<1>1. queue \in Seq(S) /\ Len(queue) \in Nat
  BY LenProperties DEF QueueType
<1>2. CASE hits = {}
  BY <1>1, <1>2 DEF QueueRemove, QueueType
<1>3. CASE hits # {}
  <2>1. queue' = SubSeq(queue, 1, first - 1) \o SubSeq(queue, first + 1, Len(queue))
    BY <1>3 DEF QueueRemove
  <2>2. \E i \in hits : \A j \in hits : i <= j
    <3>1. hits \in SUBSET Nat
      BY <1>1
    <3> HIDE DEF hits
    <3> QED
      BY <1>3, <3>1, LeastElement
  <2>3. first \in hits
    <3> HIDE DEF hits
    <3> QED
      BY <2>2
  <2>4. first \in 1..Len(queue)
    BY <2>3
  <2> HIDE DEF first, S
  <2>5. \A i \in 1..Len(queue) : queue[i] \in S
    BY <1>1, ElementOfSeq
  <2>6. SubSeq(queue, 1, first - 1) \in Seq(S)
    BY <1>1, <2>4, <2>5, SubSeqProperties
  <2>7. SubSeq(queue, first + 1, Len(queue)) \in Seq(S)
    BY <1>1, <2>4, <2>5, SubSeqProperties
  <2>8. queue' \in Seq(S)
    BY <2>1, <2>6, <2>7, ConcatProperties
  <2> QED
    BY <2>8 DEF QueueType, S
<1> QED
  BY <1>2, <1>3

LEMMA SaveType ==
    ASSUME db \in [Roles -> Nat], NEW o \in Players, obj[o].data \in Nat, Save(o)
    PROVE  db' \in [Roles -> Nat]
BY DEF Save

LEMMA GetPlayerType ==
    ASSUME idle \subseteq Players, NEW p, GetPlayer(p)
    PROVE  idle' \subseteq Players
BY DEF GetPlayer

(***************************************************************************)
(* Each step of a handler keeps the invariant.                             *)
(***************************************************************************)
LEMMA StepTop ==
    ASSUME IInv, NEW t \in Tasks, NEW pc, Runs(t, pc)
    PROVE  /\ StackInv /\ stack[t] # <<>> /\ stack[t][1].pc = pc
           /\ GoodFrame(stack[t][1], nobj)
           /\ ~Waits(stack[t][1])
BY TopFrame DEF IInv, Runs

LEMMA DelNothingInv ==
    ASSUME IInv, NEW t \in Tasks, DelNothing(t)
    PROVE  IInv'
<1>1. StackInv'
  BY StepTop, NoFrame, ContinueGood DEF DelNothing, Makers, heap
<1>2. QueueType'
  BY QueueRemoveType DEF DelNothing, IInv
<1> QED
  BY <1>1, <1>2, Same DEF DelNothing, IInv

LEMMA DelLinkInv ==
    ASSUME IInv, NEW t \in Tasks, DelLink(t)
    PROVE  IInv'
<1>1. StackInv'
  BY StepTop, NoFrame, ContinueGood DEF DelLink, Makers, heap
<1>2. QueueType' /\ RegType'
  BY QueueRemoveType, DropObjectType DEF DelLink, IInv
<1>3. RegGood'
  BY DroppedGood DEF DelLink, IInv, heap
<1> QED
  BY <1>1, <1>2, <1>3, Same DEF DelLink, IInv

LEMMA DeletedInv ==
    ASSUME IInv, NEW t \in Tasks, Deleted(t)
    PROVE  IInv'
<1>1. StackInv'
  BY StepTop, NoFrame, ContinueGood DEF Deleted, Makers, heap
<1>2. QueueType' /\ RegType'
  BY QueueRemoveType, DropObjectType DEF Deleted, IInv
<1>3. RegGood'
  BY DroppedGood DEF Deleted, IInv, heap
<1> QED
  BY <1>1, <1>2, <1>3, Same DEF Deleted, IInv

\* The three ways in which delobject begins to delete a player object.
LEMMA DelPlayerInv ==
    ASSUME IInv, NEW t \in Tasks, DelOnline(t) \/ DelOffline(t) \/ DelKuafu(t)
    PROVE  IInv'
<1> DEFINE p == stack[t][1].pid
           o == id_obj[p]
           E == Frame("exitgame", None, o, None)
           P == Frame("pop", None, None, None)
           S == Frame("saved", None, o, None)
           D == Frame("deleted", p, o, None)
<1>1. Runs(t, "delobject") /\ o \in Players
  BY DEF DelOnline, DelOffline, DelKuafu
<1>2. /\ StackInv /\ stack[t] # <<>> /\ stack[t][1].pc = "delobject"
      /\ p \in Roles /\ o \in 1..nobj /\ nobj \in 0..MaxObj
  <2>1. p \in Pids
    BY <1>1, StepTop DEF GoodFrame
  <2>2. o # None
    BY <1>1, Names DEF Objs
  <2> QED
    BY <1>1, <2>1, <2>2, StepTop, RegisteredGood DEF IInv, HeapType
<1>3. /\ GoodFrame(E, nobj) /\ GoodFrame(P, nobj) /\ GoodFrame(S, nobj) /\ GoodFrame(D, nobj)
      /\ ~Waits(E) /\ ~Waits(P) /\ ~Waits(S) /\ ~Waits(D)
  <2>1. GoodFrame(E, nobj) /\ ~Waits(E)
    BY <1>1, <1>2 DEF Frame, GoodFrame, FrameType, Waits, Makers, Takers, Objs
  <2>2. GoodFrame(P, nobj) /\ ~Waits(P)
    BY DEF Frame, GoodFrame, FrameType, Waits, Makers, Takers, Objs
  <2>3. GoodFrame(S, nobj) /\ ~Waits(S)
    BY <1>1, <1>2 DEF Frame, GoodFrame, FrameType, Waits, Makers, Takers, Objs
  <2>4. GoodFrame(D, nobj) /\ ~Waits(D)
    BY <1>1, <1>2 DEF Frame, GoodFrame, FrameType, Waits, Makers, Takers, Objs, Pids
  <2> QED
    BY <2>1, <2>2, <2>3, <2>4
<1>4. GoodStack(<<E, P, D>>, nobj) /\ GoodStack(<<S, D>>, nobj) /\ GoodStack(<<D>>, nobj)
  BY <1>3, ThreeFrames, TwoFrames, OneFrame
<1>5. HeapType' /\ nobj' = nobj
  BY DEF DelOnline, DelOffline, DelKuafu, heap, IInv, HeapType, ObjectsGood
<1>9. RegGood'
  BY Same DEF DelOnline, DelOffline, DelKuafu, heap, IInv
<1>6. CASE DelOnline(t)
  <2>1. StackInv'
    BY <1>2, <1>4, <1>5, <1>6, SuspendGood DEF DelOnline, Makers
  <2> QED
    BY <1>5, <1>6, <1>9, <2>1, Same DEF DelOnline, IInv
<1>7. CASE DelOffline(t)
  <2>1. StackInv'
    BY <1>2, <1>4, <1>5, <1>7, SuspendGood DEF DelOffline, Makers
  <2>2. WorldType'
    BY <1>1, <1>7 DEF DelOffline, Save, IInv, WorldType, HeapType
  <2> QED
    BY <1>5, <1>7, <1>9, <2>1, <2>2, Same DEF DelOffline, IInv
<1>8. CASE DelKuafu(t)
  <2>1. StackInv'
    BY <1>2, <1>4, <1>5, <1>8, ContinueGood DEF DelKuafu, Makers
  <2> QED
    BY <1>5, <1>8, <1>9, <2>1, Same DEF DelKuafu, IInv
<1> QED
  BY <1>6, <1>7, <1>8

LEMMA ExitGameInv ==
    ASSUME IInv, NEW t \in Tasks, ExitGame(t)
    PROVE  IInv'
<1> DEFINE o == stack[t][1].src
           S == Frame("saved", None, o, None)
<1>1. /\ StackInv /\ stack[t] # <<>> /\ stack[t][1].pc = "exitgame"
      /\ o \in 1..nobj /\ o \in Players /\ nobj \in 0..MaxObj
  BY StepTop, Made DEF ExitGame, GoodFrame, IInv, HeapType
<1>2. GoodStack(<<S>>, nobj)
  <2>1. GoodFrame(S, nobj) /\ ~Waits(S)
    BY <1>1 DEF Frame, GoodFrame, FrameType, Waits, Makers, Takers, Objs
  <2> QED
    BY <2>1, OneFrame
<1>3. StackInv'
  BY <1>1, <1>2, SuspendGood DEF ExitGame, Makers, heap
<1>4. WorldType'
  BY <1>1 DEF ExitGame, Save, IInv, WorldType, HeapType
<1> QED
  BY <1>3, <1>4, Same DEF ExitGame, IInv

LEMMA SavedInv ==
    ASSUME IInv, NEW t \in Tasks, Saved(t)
    PROVE  IInv'
<1> DEFINE o == stack[t][1].src
           p == obj[o].pid
           D == Frame("delobject", p, None, None)
<1>1. /\ StackInv /\ stack[t] # <<>> /\ stack[t][1].pc = "saved"
      /\ o \in 1..nobj /\ o \in Players /\ nobj \in 0..MaxObj
  BY StepTop, Made DEF Saved, GoodFrame, IInv, HeapType
<1>2. p \in Pids
  BY <1>1 DEF IInv, HeapType, ObjectsGood, Pids
<1>3. GoodStack(<<D>>, nobj) /\ GoodStack(<<>>, nobj)
  <2>1. GoodFrame(D, nobj) /\ ~Waits(D)
    BY <1>1, <1>2 DEF Frame, GoodFrame, FrameType, Waits, Makers, Takers, Objs
  <2> QED
    BY <2>1, OneFrame, NoFrame
<1>4. nobj' = nobj /\ (Continue(t, <<D>>) \/ Continue(t, <<>>))
  BY DEF Saved
<1>5. StackInv'
  BY <1>1, <1>3, <1>4, ContinueGood DEF Makers
<1>6. HeapType'
  BY DEF Saved, GetPlayer, IInv, HeapType, ObjectsGood
<1>7. RegGood'
  BY Same DEF Saved, IInv
<1> QED
  BY <1>5, <1>6, <1>7, Same DEF Saved, IInv

LEMMA PopInv ==
    ASSUME IInv, NEW t \in Tasks, Pop(t)
    PROVE  IInv'
<1> DEFINE v == Head(queue)
           R == Frame("recoverplayer", v.role, None, None)
           N == Frame("nettransfer", None, id_obj[v.pid], None)
<1>1. StackInv /\ stack[t] # <<>> /\ stack[t][1].pc = "pop" /\ nobj' = nobj
  BY StepTop DEF Pop, heap
<1>2. CASE queue = <<>>
  <2>1. StackInv'
    BY <1>1, <1>2, NoFrame, ContinueGood DEF Pop, Makers
  <2>2. QueueType'
    BY <1>2 DEF Pop, IInv, QueueType
  <2> QED
    BY <2>1, <2>2, Same DEF Pop, IInv
<1>3. CASE queue # <<>>
  <2>1. v \in [pid : Pids, role : Roles] /\ Tail(queue) \in Seq([pid : Pids, role : Roles])
    BY <1>3, HeadTailProperties DEF IInv, QueueType
  <2>2. QueueType'
    BY <1>3, <2>1 DEF Pop, QueueType
  <2>3. CASE id_obj[v.pid] = None
    <3>1. StackInv'
      BY <1>1, <1>3, <2>3, NoFrame, ContinueGood DEF Pop, Makers
    <3> QED
      BY <2>2, <3>1, Same DEF Pop, IInv
  <2>4. CASE id_obj[v.pid] # None
    <3>1. id_obj[v.pid] \in Objs /\ id_obj[v.pid] \in Agents \cup 1..nobj
      BY <2>1, <2>4, RegisteredGood DEF IInv, RegType
    <3>2. GoodFrame(R, nobj) /\ ~Waits(R) /\ R.pc \in Makers
      BY <2>1 DEF Frame, GoodFrame, FrameType, Waits, Makers, Takers, Pids
    <3>3. GoodFrame(N, nobj)
      BY <3>1 DEF Frame, GoodFrame, FrameType, Makers
    <3>4. GoodStack(<<R, N>>, nobj)
      BY <3>2, <3>3, TwoFrames
    <3>5. Continue(t, <<R, N>>)
      BY <1>3, <2>4 DEF Pop
    <3>6. StackInv'
      BY <1>1, <3>4, <3>5, ContinueGood DEF Makers
    <3> QED
      BY <2>2, <3>6, Same DEF Pop, IInv
  <2> QED
    BY <2>3, <2>4
<1> QED
  BY <1>2, <1>3

LEMMA UnloadInv ==
    ASSUME IInv, NEW t \in Tasks, Unload(t)
    PROVE  IInv'
<1> DEFINE p == stack[t][1].pid
           D == Frame("delobject", p, None, None)
           N == Frame("newplayer", p, None, None)
<1>1. /\ StackInv /\ stack[t] # <<>> /\ stack[t][1].pc = "recoverplayer"
      /\ p \in Roles /\ nobj' = nobj
  BY StepTop DEF Unload, GoodFrame, Makers
<1>2. GoodFrame(D, nobj) /\ ~Waits(D)
  BY <1>1 DEF Frame, GoodFrame, FrameType, Waits, Makers, Takers, Pids
<1>3. GoodFrame(N, nobj) /\ ~Waits(N) /\ N.pc \in Makers
  BY <1>1 DEF Frame, GoodFrame, FrameType, Waits, Makers, Takers, Pids
<1>4. GoodStack(<<D, N>>, nobj) /\ GoodStack(<<N>>, nobj)
  BY <1>2, <1>3, OneFrame, TwoFrames
<1>5. Continue(t, <<D, N>>) \/ Continue(t, <<N>>)
  BY DEF Unload
<1>6. /\ <<D, N>> # <<>> /\ <<D, N>>[Len(<<D, N>>)].pc \in Makers
      /\ <<N>> # <<>> /\ <<N>>[Len(<<N>>)].pc \in Makers
  <2> HIDE DEF D, N
  <2> QED
    BY <1>3
<1>7. StackInv'
  <2> HIDE DEF D, N
  <2> QED
    BY <1>1, <1>4, <1>5, <1>6, ContinueGood
<1>8. HeapType'
  BY DEF Unload, GetPlayer, IInv, HeapType, ObjectsGood
<1>9. RegGood'
  BY Same DEF Unload, IInv
<1> QED
  BY <1>7, <1>8, <1>9, Same DEF Unload, IInv

\* The new object is handed to the frame below.
LEMMA HandedGood ==
    ASSUME NEW n \in Nat, n + 1 \in Players, NEW s, GoodStack(s, n), Len(s) > 1
    PROVE  GoodStack(<<[s[2] EXCEPT !.dst = n + 1]>> \o SubSeq(s, 3, Len(s)), n + 1)
<1> DEFINE f == [s[2] EXCEPT !.dst = n + 1]
           u == SubSeq(s, 3, Len(s))
           r == <<f>> \o u
<1>1. s \in Seq(FrameType) /\ Len(s) \in Nat
  BY LenProperties DEF GoodStack
<1>2. \A i \in 1..Len(s) :
        /\ GoodFrame(s[i], n)
        /\ Waits(s[i]) => i > 1 /\ s[i - 1].pc \in Makers
  BY DEF GoodStack
<1>3. \A g : GoodFrame(g, n) => GoodFrame(g, n + 1)
  BY DEF GoodFrame
<1>4. /\ GoodFrame(f, n + 1) /\ ~Waits(f) /\ f.pc = s[2].pc
  <2>1. GoodFrame(s[2], n)
    BY <1>1, <1>2
  <2> QED
    BY <2>1, NamesAssumption DEF GoodFrame, FrameType, Waits
<1>5. f \in FrameType
  BY <1>4 DEF GoodFrame
<1>6. \A i \in 3..Len(s) : s[i] \in FrameType
  BY <1>1, ElementOfSeq
<1>7. /\ u \in Seq(FrameType)
      /\ Len(u) = Len(s) - 2
      /\ \A i \in 1..Len(u) : u[i] = s[i + 2]
  <2>1. \A m \in Int : (\A i \in m..Len(s) : s[i] \in FrameType) =>
           /\ SubSeq(s, m, Len(s)) \in Seq(FrameType)
           /\ Len(SubSeq(s, m, Len(s))) = IF m <= Len(s) THEN Len(s) - m + 1 ELSE 0
           /\ \A i \in 1..(Len(s) - m + 1) : SubSeq(s, m, Len(s))[i] = s[m + i - 1]
    BY <1>1, SubSeqProperties
  <2>2. u \in Seq(FrameType)
    BY <1>6, <2>1
  <2>3. Len(u) = Len(s) - 2
    <3>1. Len(u) = IF 3 <= Len(s) THEN Len(s) - 3 + 1 ELSE 0
      BY <1>6, <2>1
    <3>2. \A k \in Nat : k > 1 => (IF 3 <= k THEN k - 3 + 1 ELSE 0) = k - 2
      OBVIOUS
    <3> HIDE DEF u
    <3> QED
      BY <1>1, <3>1, <3>2
  <2>4. \A i \in 1..(Len(s) - 3 + 1) : u[i] = s[3 + i - 1]
    BY <1>6, <2>1
  <2> HIDE DEF u
  <2>5. \A i \in 1..Len(u) : u[i] = s[i + 2]
    BY <1>1, <2>3, <2>4
  <2> QED
    BY <2>2, <2>3, <2>5
<1>8. <<f>> \in Seq(FrameType) /\ Len(<<f>>) = 1 /\ <<f>>[1] = f
  BY <1>5
<1> HIDE DEF f, u
<1>9. /\ r \in Seq(FrameType)
      /\ Len(r) = Len(s) - 1
      /\ r[1] = f
      /\ \A i \in 2..Len(r) : r[i] = u[i - 1]
  BY <1>1, <1>7, <1>8, ConcatProperties
<1> HIDE DEF r
<1>10. \A i \in 2..Len(r) : r[i] = s[i + 1]
  BY <1>1, <1>7, <1>9
<1>11. ASSUME NEW i \in 1..Len(r)
       PROVE  GoodFrame(r[i], n + 1) /\ (Waits(r[i]) => i > 1 /\ r[i - 1].pc \in Makers)
  <2>1. CASE i = 1
    BY <1>4, <1>9, <2>1
  <2>2. CASE i > 1
    <3>1. r[i] = s[i + 1] /\ i + 1 \in 1..Len(s)
      BY <1>1, <1>9, <1>10, <2>2
    <3>2. r[i - 1].pc = s[(i + 1) - 1].pc
      <4>1. CASE i = 2
        BY <1>4, <1>9, <4>1
      <4>2. CASE i > 2
        BY <1>1, <1>9, <1>10, <4>2
      <4> QED
        BY <2>2, <4>1, <4>2
    <3> QED
      BY <1>2, <1>3, <2>2, <3>1, <3>2
  <2> QED
    BY <1>1, <1>9, <2>1, <2>2
<1>12. GoodStack(r, n + 1)
  BY <1>9, <1>11 DEF GoodStack
<1> QED
  BY <1>12 DEF r, f, u

LEMMA NewPlayerInv ==
    ASSUME IInv, NEW t \in Tasks, NewPlayer(t)
    PROVE  IInv'
<1> DEFINE p == stack[t][1].pid
           s == << [stack[t][2] EXCEPT !.dst = nobj + 1] >> \o SubSeq(stack[t], 3, Len(stack[t]))
<1>1. /\ StackInv /\ stack[t] # <<>> /\ p \in Roles
  BY StepTop DEF NewPlayer, GoodFrame, Makers
<1>2. nobj \in Nat /\ nobj + 1 \in Players /\ nobj' = nobj + 1
  BY <1>1, BoundsAssumption DEF NewPlayer, NewObject, StackInv, Players
<1>3. GoodStack(s, nobj + 1)
  BY <1>1, <1>2, HandedGood DEF NewPlayer, StackInv, StacksGood
<1>4. \A g : GoodFrame(g, nobj) => GoodFrame(g, nobj + 1)
  BY <1>2 DEF GoodFrame
<1>5. \A u \in Tasks : GoodStack(stack[u], nobj + 1)
  BY <1>1, <1>4 DEF StackInv, StacksGood, GoodStack
<1>6. stack' = [stack EXCEPT ![t] = s] /\ cpu' = None
  BY DEF NewPlayer
<1>7. s \in Seq(FrameType)
  BY <1>3 DEF GoodStack
<1> HIDE DEF s
<1>8. StackInv'
  <2>1. stack' \in [Tasks -> Seq(FrameType)]
    BY <1>1, <1>6, <1>7 DEF StackInv
  <2>2. \A u \in Tasks : GoodStack(stack'[u], nobj')
    BY <1>1, <1>2, <1>3, <1>5, <1>6 DEF StackInv
  <2> QED
    BY <1>2, <1>6, <2>1, <2>2 DEF StackInv, StacksGood
<1>9. HeapType'
  <2>1. db[p] \in Nat
    BY <1>1 DEF IInv, WorldType
  <2>2. obj' = [obj EXCEPT ![nobj + 1] =
                  [pid |-> p, agent |-> None, state |-> "new", data |-> db[p]]]
    BY DEF NewPlayer, NewObject
  <2>3. obj' \in [Players -> [pid : Roles \cup {None}, agent : Agents \cup {None},
                              state : {"new", "online", "offline", "kuafu"}, data : Nat]]
    BY <1>1, <2>1, <2>2 DEF IInv, HeapType
  <2>4. nobj' \in 0..MaxObj
    BY <1>2, BoundsAssumption DEF Players
  <2>5. ObjectsGood'
    <3>1. \A o \in 1..nobj : obj[o].pid \in Roles
      BY DEF IInv, HeapType, ObjectsGood
    <3>2. \A o \in 1..(nobj + 1) : obj'[o].pid \in Roles
      BY <1>1, <1>2, <2>2, <3>1 DEF IInv, HeapType, Players
    <3> QED
      BY <1>2, <3>2 DEF ObjectsGood
  <2>6. saving' \subseteq 1..nobj'
    BY <1>2, Made DEF NewPlayer, IInv, HeapType
  <2> QED
    BY <2>3, <2>4, <2>5, <2>6 DEF HeapType, IInv, NewPlayer
<1>10. RegGood'
  <2>1. \A o \in 1..nobj : obj'[o].pid = obj[o].pid
    BY <1>2 DEF NewPlayer, NewObject, IInv, HeapType, Players
  <2> QED
    BY <1>2, <2>1, RegKept DEF NewPlayer, IInv, reg
<1> QED
  BY <1>8, <1>9, <1>10, Same DEF NewPlayer, IInv

LEMMA SetHomeInv ==
    ASSUME IInv, NEW t \in Tasks, SetHome(t)
    PROVE  IInv'
<1> DEFINE f == stack[t][1]
           N == Frame("nettransfer", None, f.src, f.dst)
<1>1. /\ StackInv /\ stack[t] # <<>> /\ f.pc = "sethome" /\ nobj' = nobj
      /\ f \in FrameType /\ f.src \in Objs /\ f.dst \in 1..nobj \cup {None} /\ ~Waits(f)
      /\ f.src \in Agents \cup 1..nobj
  <2>1. GoodFrame(f, nobj) /\ StackInv /\ stack[t] # <<>> /\ f.pc = "sethome" /\ ~Waits(f)
    BY StepTop DEF SetHome
  <2>2. f.src \in Agents \cup 1..nobj /\ f.dst \in 1..nobj \cup {None} /\ f \in FrameType
    BY <2>1 DEF GoodFrame
  <2> QED
    BY <2>1, <2>2, Made DEF SetHome, heap, IInv, Objs
<1>2. f.dst # None
  BY <1>1 DEF Waits, Takers
<1>3. GoodFrame(N, nobj) /\ ~Waits(N)
  BY <1>1, <1>2 DEF Frame, GoodFrame, FrameType, Waits, Makers
<1>4. GoodStack(<<N>>, nobj)
  BY <1>3, OneFrame
<1>5. StackInv'
  BY <1>1, <1>4, SuspendGood DEF SetHome, Makers
<1> QED
  BY <1>5, Same DEF SetHome, IInv

LEMMA NetTransferInv ==
    ASSUME IInv, NEW t \in Tasks, NetTransfer(t)
    PROVE  IInv'
<1> DEFINE f == stack[t][1]
           a == AgentOf(f.src)
           D == Frame("delobject", PidOf(f.src), None, None)
           A == Frame("addplayer", None, f.src, f.dst)
<1>1. /\ StackInv /\ stack[t] # <<>> /\ f.pc = "nettransfer" /\ nobj' = nobj
      /\ f \in FrameType /\ f.src \in Objs /\ f.dst \in 1..nobj \cup {None} /\ ~Waits(f)
      /\ f.src \in Agents \cup 1..nobj
  <2>1. GoodFrame(f, nobj) /\ StackInv /\ stack[t] # <<>> /\ f.pc = "nettransfer" /\ ~Waits(f)
    BY StepTop DEF NetTransfer
  <2>2. f.src \in Agents \cup 1..nobj /\ f.dst \in 1..nobj \cup {None} /\ f \in FrameType
    BY <2>1 DEF GoodFrame
  <2> QED
    BY <2>1, <2>2, Made DEF NetTransfer, IInv, Objs
<1>2. CASE a = None \/ conn[a] = None
  <2>1. Raise(t) /\ obj' = obj
    BY <1>2 DEF NetTransfer
  <2>2. StackInv'
    BY <1>1, <2>1, RaiseGood
  <2> QED
    BY <2>1, <2>2, Same DEF NetTransfer, IInv, heap
<1>3. CASE a # None /\ conn[a] # None
  <2>1. /\ obj' = [obj EXCEPT ![f.dst].agent = a, ![f.dst].state = "online"]
        /\ Continue(t, <<D, A>>)
    BY <1>3 DEF NetTransfer
  <2>2. f.dst \in 1..nobj /\ f.dst \in Players
    BY <1>1, NamesAssumption DEF Waits, Takers, FrameType
  <2>3. a \in Agents
    BY <1>1, <1>3 DEF AgentOf, Objs, IInv, HeapType
  <2>4. PidOf(f.src) \in Pids
    BY <1>1 DEF PidOf, Pids, IInv, HeapType, ObjectsGood
  <2>5. GoodFrame(D, nobj) /\ ~Waits(D)
    BY <2>4 DEF Frame, GoodFrame, FrameType, Waits, Makers, Takers
  <2>6. GoodFrame(A, nobj) /\ ~Waits(A)
    BY <1>1, <2>2, NamesAssumption DEF Frame, GoodFrame, FrameType, Waits, Makers
  <2>7. GoodStack(<<D, A>>, nobj)
    BY <2>5, <2>6, TwoFrames
  <2>8. StackInv'
    BY <1>1, <2>1, <2>7, ContinueGood DEF Makers
  <2>9. HeapType'
    <3>1. obj' \in [Players -> [pid : Roles \cup {None}, agent : Agents \cup {None},
                               state : {"new", "online", "offline", "kuafu"}, data : Nat]]
      BY <2>1, <2>2, <2>3 DEF IInv, HeapType
    <3>2. ObjectsGood'
      BY <1>1, <2>1, BoundsAssumption DEF ObjectsGood, IInv, HeapType, Players
    <3> QED
      BY <3>1, <3>2 DEF NetTransfer, IInv, HeapType
  <2>10. RegGood'
    <3>1. \A o \in 1..nobj : obj'[o].pid = obj[o].pid
      BY <1>1, <2>1, BoundsAssumption DEF IInv, HeapType, Players
    <3> QED
      BY <1>1, <3>1, RegKept DEF NetTransfer, IInv, StackInv, reg
  <2> QED
    BY <2>8, <2>9, <2>10, Same DEF NetTransfer, IInv
<1> QED
  BY <1>2, <1>3 DEF NetTransfer

\* The object that a taker on top of a stack adds.
LEMMA Taken ==
    ASSUME IInv, NEW t \in Tasks, NEW pc \in Takers, Runs(t, pc)
    PROVE  LET o == stack[t][1].dst
           IN o \in 1..nobj /\ o \in Players /\ obj[o].pid \in Roles
<1>1. stack[t][1].dst \in 1..nobj
  BY StepTop DEF GoodFrame, Waits
<1>2. nobj \in 0..MaxObj
  BY DEF IInv, HeapType
<1> QED
  BY <1>1, <1>2, BoundsAssumption DEF IInv, HeapType, ObjectsGood, Players

LEMMA AddPlayerInv ==
    ASSUME IInv, NEW t \in Tasks, AddPlayer(t)
    PROVE  IInv'
<1> DEFINE o == stack[t][1].dst
           a == obj[o].agent
           L == Frame("onlogin", None, None, o)
<1>1. /\ StackInv /\ stack[t] # <<>> /\ stack[t][1].pc = "addplayer" /\ nobj' = nobj
      /\ o \in 1..nobj /\ o \in Players /\ obj[o].pid \in Roles
  BY StepTop, Taken DEF AddPlayer, Takers
<1>2. GoodFrame(L, nobj) /\ ~Waits(L)
  BY <1>1 DEF Frame, GoodFrame, FrameType, Waits, Makers, Takers
<1>3. StackInv'
  BY <1>1, <1>2, OneFrame, SuspendGood DEF AddPlayer, Makers
<1>4. RegType' /\ saving' \subseteq 1..nobj
  BY <1>1, AddObjectType DEF AddPlayer, IInv, HeapType, Objs, Pids
<1>5. HeapType'
  BY <1>4 DEF AddPlayer, IInv, HeapType, ObjectsGood
<1>6. TablesType'
  <2>1. conn' \in [Agents -> Pids \cup {None}]
    BY <1>1 DEF AddPlayer, IInv, TablesType, Pids
  <2> QED
    BY <2>1 DEF AddPlayer, IInv, TablesType
<1>7. RegGood'
  BY <1>1, AddedGood, Names DEF AddPlayer, AddObject, IInv, StackInv
<1> QED
  BY <1>3, <1>4, <1>5, <1>6, <1>7, Same DEF AddPlayer, IInv

LEMMA AddOfflineInv ==
    ASSUME IInv, NEW t \in Tasks, AddOffline(t)
    PROVE  IInv'
<1> DEFINE o == stack[t][1].dst
<1>1. /\ StackInv /\ stack[t] # <<>> /\ stack[t][1].pc = "addoffline" /\ nobj' = nobj
      /\ o \in 1..nobj /\ o \in Players /\ obj[o].pid \in Roles
  BY StepTop, Taken DEF AddOffline, Takers
<1>2. StackInv'
  BY <1>1, NoFrame, ContinueGood DEF AddOffline, Makers
<1>3. RegType' /\ saving' \subseteq 1..nobj
  BY <1>1, AddObjectType DEF AddOffline, IInv, HeapType, Objs, Pids
<1>4. HeapType'
  <2>1. obj' = [obj EXCEPT ![o].state = "offline"] /\ idle' = idle \cup {o}
    BY DEF AddOffline
  <2>2. obj' \in [Players -> [pid : Roles \cup {None}, agent : Agents \cup {None},
                             state : {"new", "online", "offline", "kuafu"}, data : Nat]]
    BY <1>1, <2>1 DEF IInv, HeapType
  <2>3. ObjectsGood'
    BY <1>1, <2>1, BoundsAssumption DEF ObjectsGood, IInv, HeapType, Players
  <2> QED
    BY <1>1, <1>3, <2>1, <2>2, <2>3 DEF IInv, HeapType
<1>5. RegGood'
  <2>1. \A x \in 1..nobj : obj'[x].pid = obj[x].pid
    BY <1>1, BoundsAssumption DEF AddOffline, IInv, HeapType, Players
  <2> QED
    BY <1>1, <2>1, AddedGood, Names DEF AddOffline, AddObject, IInv, StackInv
<1> QED
  BY <1>2, <1>3, <1>4, <1>5, Same DEF AddOffline, IInv

LEMMA AddKuafuInv ==
    ASSUME IInv, NEW t \in Tasks, AddKuafu(t)
    PROVE  IInv'
<1> DEFINE o == stack[t][1].dst
<1>1. /\ StackInv /\ stack[t] # <<>> /\ stack[t][1].pc = "addkuafu" /\ nobj' = nobj
      /\ o \in 1..nobj /\ o \in Players /\ obj[o].pid \in Roles
  BY StepTop, Taken DEF AddKuafu, Takers
<1>2. StackInv'
  BY <1>1, NoFrame, ContinueGood DEF AddKuafu, Makers
<1>3. RegType' /\ saving' \subseteq 1..nobj
  BY <1>1, AddObjectType DEF AddKuafu, IInv, HeapType, Objs, Pids
<1>4. HeapType'
  <2>1. obj' = [obj EXCEPT ![o].state = "kuafu"] /\ idle' = idle
    BY DEF AddKuafu
  <2>2. obj' \in [Players -> [pid : Roles \cup {None}, agent : Agents \cup {None},
                             state : {"new", "online", "offline", "kuafu"}, data : Nat]]
    BY <1>1, <2>1 DEF IInv, HeapType
  <2>3. ObjectsGood'
    BY <1>1, <2>1, BoundsAssumption DEF ObjectsGood, IInv, HeapType, Players
  <2> QED
    BY <1>1, <1>3, <2>1, <2>2, <2>3 DEF IInv, HeapType
<1>5. RegGood'
  <2>1. \A x \in 1..nobj : obj'[x].pid = obj[x].pid
    BY <1>1, BoundsAssumption DEF AddKuafu, IInv, HeapType, Players
  <2> QED
    BY <1>1, <2>1, AddedGood, Names DEF AddKuafu, AddObject, IInv, StackInv
<1> QED
  BY <1>2, <1>3, <1>4, <1>5, Same DEF AddKuafu, IInv

LEMMA HandlerFailsInv ==
    ASSUME IInv, NEW t \in Tasks, AddRepeat(t) \/ CallFails(t)
    PROVE  IInv'
<1>1. StackInv /\ stack[t] # <<>> /\ nobj' = nobj
  BY StepTop DEF AddRepeat, CallFails, heap
<1>2. StackInv'
  BY <1>1, RaiseGood DEF AddRepeat, CallFails
<1> QED
  BY <1>2, Same DEF AddRepeat, CallFails, IInv

LEMMA OnLoginInv ==
    ASSUME IInv, NEW t \in Tasks, OnLogin(t)
    PROVE  IInv'
<1>1. StackInv'
  BY StepTop, NoFrame, ContinueGood DEF OnLogin, Makers, heap
<1> QED
  BY <1>1, Same DEF OnLogin, IInv

LEMMA KickInv ==
    ASSUME IInv, NEW t \in Tasks, Kick(t)
    PROVE  IInv'
<1> DEFINE p == stack[t][1].pid
           D == Frame("delobject", p, None, None)
           K == Frame("protokick", None, id_obj[p], None)
<1>1. /\ StackInv /\ stack[t] # <<>> /\ stack[t][1].pc = "kick" /\ nobj' = nobj
      /\ p \in Pids
  BY StepTop DEF Kick, GoodFrame, FrameType, heap
<1>2. CASE id_obj[p] = None
  <2>1. StackInv'
    BY <1>1, <1>2, NoFrame, ContinueGood DEF Kick, Makers
  <2> QED
    BY <2>1, Same DEF Kick, IInv
<1>3. CASE id_obj[p] # None
  <2>1. id_obj[p] \in Objs /\ id_obj[p] \in Agents \cup 1..nobj
    BY <1>1, <1>3, RegisteredGood DEF IInv, RegType
  <2>2. GoodFrame(D, nobj) /\ ~Waits(D)
    BY <1>1 DEF Frame, GoodFrame, FrameType, Waits, Makers, Takers
  <2>3. GoodFrame(K, nobj) /\ ~Waits(K)
    BY <2>1 DEF Frame, GoodFrame, FrameType, Waits, Makers, Takers
  <2>4. GoodStack(<<D, K>>, nobj)
    BY <2>2, <2>3, TwoFrames
  <2>5. Continue(t, <<D, K>>)
    BY <1>3 DEF Kick
  <2>6. StackInv'
    BY <1>1, <2>4, <2>5, ContinueGood DEF Makers
  <2> QED
    BY <2>6, Same DEF Kick, IInv
<1> QED
  BY <1>2, <1>3

LEMMA ProtoKickInv ==
    ASSUME IInv, NEW t \in Tasks, ProtoKick(t)
    PROVE  IInv'
<1>1. StackInv'
  BY StepTop, NoFrame, ContinueGood DEF ProtoKick, Makers, heap
<1>2. TablesType'
  BY DEF ProtoKick, IInv, TablesType
<1> QED
  BY <1>1, <1>2, Same DEF ProtoKick, IInv

LEMMA ClosedInv ==
    ASSUME IInv, NEW t \in Tasks, Closed(t)
    PROVE  IInv'
<1>1. StackInv'
  BY StepTop, NoFrame, ContinueGood DEF Closed, Makers, heap
<1>2. TablesType'
  BY DEF Closed, IInv, TablesType
<1> QED
  BY <1>1, <1>2, Same DEF Closed, IInv

LEMMA GoSrvInv ==
    ASSUME IInv, NEW t \in Tasks, GoSrv(t)
    PROVE  IInv'
<1> DEFINE R == Frame("reentergame", stack[t][1].pid, None, None)
<1>1. /\ StackInv /\ stack[t] # <<>> /\ stack[t][1].pc = "gosrv" /\ nobj' = nobj
      /\ stack[t][1].pid \in Pids
  BY StepTop DEF GoSrv, GoodFrame, heap
<1>2. GoodFrame(R, nobj) /\ ~Waits(R)
  BY <1>1 DEF Frame, GoodFrame, FrameType, Waits, Makers, Takers
<1>3. StackInv'
  BY <1>1, <1>2, OneFrame, SuspendGood DEF GoSrv, Makers
<1> QED
  BY <1>3, Same DEF GoSrv, IInv

LEMMA ReenterGameInv ==
    ASSUME IInv, NEW t \in Tasks, ReenterGame(t)
    PROVE  IInv'
<1> DEFINE K == Frame("kick", stack[t][1].pid, None, None)
<1>1. /\ StackInv /\ stack[t] # <<>> /\ stack[t][1].pc = "reentergame" /\ nobj' = nobj
      /\ stack[t][1].pid \in Pids
  BY StepTop DEF ReenterGame, GoodFrame, heap
<1>2. GoodFrame(K, nobj) /\ ~Waits(K)
  BY <1>1 DEF Frame, GoodFrame, FrameType, Waits, Makers, Takers
<1>3. StackInv'
  BY <1>1, <1>2, OneFrame, ContinueGood DEF ReenterGame, Makers
<1>4. WorldType'
  BY DEF ReenterGame, IInv, WorldType
<1> QED
  BY <1>3, <1>4, Same DEF ReenterGame, IInv

LEMMA StepInv ==
    ASSUME IInv, NEW t \in Tasks, Step(t)
    PROVE  IInv'
BY DelNothingInv, DelLinkInv, DelPlayerInv, DeletedInv, ExitGameInv,
   SavedInv, PopInv, UnloadInv, NewPlayerInv, SetHomeInv,
   NetTransferInv, AddPlayerInv, AddOfflineInv, AddKuafuInv,
   HandlerFailsInv, OnLoginInv, KickInv, ProtoKickInv, ClosedInv,
   GoSrvInv, ReenterGameInv DEF Step

(***************************************************************************)
(* Messages and timers keep the invariant.                                 *)
(***************************************************************************)
\* The object of a request is registered: it has a pid.
LEMMA RequesterType ==
    ASSUME IInv, NEW a \in Agents, Requester(a) # None
    PROVE  /\ Requester(a) \in Objs /\ PidOf(Requester(a)) \in Pids
           /\ Requester(a) \in Agents \cup 1..nobj
           /\ conn[a] \in Pids /\ Requester(a) = id_obj[conn[a]]
<1>1. conn[a] \in Pids /\ Requester(a) = id_obj[conn[a]]
  BY DEF Requester, IInv, TablesType
<1> QED
  BY <1>1, RegisteredGood DEF IInv, RegType, RegGood

LEMMA StartInv ==
    ASSUME IInv, NEW a \in Agents, Start(a)
    PROVE  IInv'
<1>1. RegType' /\ saving' \subseteq 1..nobj
  BY AddObjectType DEF Start, IInv, HeapType, Pids, Objs
<1>2. HeapType'
  BY <1>1 DEF Start, IInv, HeapType, ObjectsGood
<1>3. TablesType'
  BY DEF Start, IInv, TablesType, Pids
<1>4. RegGood'
  <2> SUFFICES ASSUME NEW p \in Pids, id_obj'[p] # None
               PROVE  (PidOf(id_obj[p]) = p /\ id_obj[p] \in Agents \cup 1..nobj)'
    BY DEF RegGood
  <2>1. id_obj' = [id_obj EXCEPT ![a] = a] /\ obj' = obj /\ nobj' = nobj
    BY DEF Start, AddObject
  <2>2. CASE p = a
    BY <2>1, <2>2 DEF IInv, RegType, PidOf
  <2>3. CASE p # a
    BY <2>1, <2>3 DEF IInv, RegType, RegGood, PidOf
  <2> QED
    BY <2>2, <2>3
<1> QED
  BY <1>1, <1>2, <1>3, <1>4, Same DEF Start, IInv

LEMMA CloseInv ==
    ASSUME IInv, NEW a \in Agents, Close(a)
    PROVE  IInv'
<1> DEFINE D == Frame("delobject", conn[a], None, None)
           C == Frame("closed", a, None, None)
<1>1. StackInv /\ nobj' = nobj
  BY DEF IInv, Close, heap
<1>2. StackInv'
  <2>1. CASE conn[a] = None
    BY <1>1, <2>1, Same DEF Close
  <2>2. CASE conn[a] # None
    <3>1. conn[a] \in Pids
      BY <2>2 DEF IInv, TablesType
    <3>2. GoodFrame(D, nobj) /\ ~Waits(D)
      BY <3>1 DEF Frame, GoodFrame, FrameType, Waits, Makers, Takers
    <3>3. GoodFrame(C, nobj) /\ ~Waits(C)
      BY DEF Frame, GoodFrame, FrameType, Waits, Makers, Takers, Pids
    <3> QED
      BY <1>1, <2>2, <3>2, <3>3, TwoFrames, SpawnGood DEF Close
  <2> QED
    BY <2>1, <2>2
<1>3. TablesType'
  BY DEF Close, IInv, TablesType
<1> QED
  BY <1>2, <1>3, Same DEF Close, IInv

LEMMA LoginInv ==
    ASSUME IInv, NEW a \in Agents, Login(a)
    PROVE  IInv'
<1>1. TablesType'
  BY DEF Login, IInv, TablesType
<1> QED
  BY <1>1, Same DEF Login, IInv, heap

LEMMA EnterQueuedInv ==
    ASSUME IInv, NEW a \in Agents, NEW r \in Roles, EnterQueued(a, r)
    PROVE  IInv'
<1>1. PidOf(Requester(a)) \in Pids
  BY RequesterType DEF EnterQueued, MayEnter
<1>2. QueueType'
  <2>1. [pid |-> PidOf(Requester(a)), role |-> r] \in [pid : Pids, role : Roles]
    BY <1>1
  <2> QED
    BY <2>1 DEF EnterQueued, IInv, QueueType
<1>3. HeapType'
  BY GetPlayerType DEF EnterQueued, IInv, HeapType, ObjectsGood
<1> QED
  BY <1>2, <1>3, Same DEF EnterQueued, IInv

\* An optional kick before the calls of entergame.
LEMMA AfterKick ==
    ASSUME NEW S, NEW k \in S, NEW s \in Seq(S), Len(s) \in {1, 2}
    PROVE  /\ <<>> \o s = s
           /\ Len(s) = 1 => <<k>> \o s = <<k, s[1]>>
           /\ Len(s) = 2 => <<k>> \o s = <<k, s[1], s[2]>>
<1> DEFINE c == <<k>> \o s
<1>0. <<k>> \in Seq(S) /\ Len(<<k>>) = 1 /\ <<k>>[1] = k
  OBVIOUS
<1>1. /\ c \in Seq(S) /\ Len(c) = 1 + Len(s)
      /\ \A i \in 1..(1 + Len(s)) : c[i] = IF i <= 1 THEN k ELSE s[i - 1]
  <2>1. \A i \in 1..1 : <<k>>[i] = k
    OBVIOUS
  <2> QED
    BY <1>0, <2>1, ConcatProperties
<1>2. <<>> \o s = s
  BY ConcatEmptySeq
<1> HIDE DEF c
<1>3. Len(s) = 1 => c = <<k, s[1]>>
  <2> SUFFICES ASSUME Len(s) = 1 PROVE c = <<k, s[1]>>
    OBVIOUS
  <2>1. s[1] \in S
    BY ElementOfSeq
  <2>2. <<k, s[1]>> \in Seq(S) /\ Len(<<k, s[1]>>) = 2
    BY <2>1
  <2>3. Len(c) = 2 /\ c[1] = k /\ c[2] = s[1]
    BY <1>1
  <2>4. \A i \in 1..Len(c) : c[i] = <<k, s[1]>>[i]
    BY <2>3
  <2> QED
    BY <1>1, <2>2, <2>3, <2>4, SeqEqual
<1>4. Len(s) = 2 => c = <<k, s[1], s[2]>>
  <2> SUFFICES ASSUME Len(s) = 2 PROVE c = <<k, s[1], s[2]>>
    OBVIOUS
  <2>1. s[1] \in S /\ s[2] \in S
    BY ElementOfSeq
  <2>2. <<k, s[1], s[2]>> \in Seq(S) /\ Len(<<k, s[1], s[2]>>) = 3
    BY <2>1
  <2>3. Len(c) = 3 /\ c[1] = k /\ c[2] = s[1] /\ c[3] = s[2]
    BY <1>1
  <2>4. \A i \in 1..Len(c) : c[i] = <<k, s[1], s[2]>>[i]
    BY <2>3
  <2> QED
    BY <1>1, <2>2, <2>3, <2>4, SeqEqual
<1> QED
  BY <1>2, <1>3, <1>4 DEF c

LEMMA EnterFrames ==
    ASSUME IInv, NEW a \in Agents, NEW r \in Roles, Requester(a) # None,
           NEW home \in BOOLEAN, NEW kicked \in BOOLEAN
    PROVE  LET kick == IF kicked THEN << Frame("kick", r, None, None) >> ELSE <<>>
               pc   == IF home THEN "sethome" ELSE "nettransfer"
           IN /\ GoodStack(kick \o << Frame("recoverplayer", r, None, None),
                                      Frame(pc, None, Requester(a), None) >>, nobj)
              /\ GoodStack(kick \o << Frame("gosrv", PidOf(Requester(a)), None, None) >>, nobj)
<1> DEFINE pc == IF home THEN "sethome" ELSE "nettransfer"
           K == Frame("kick", r, None, None)
           R == Frame("recoverplayer", r, None, None)
           N == Frame(pc, None, Requester(a), None)
           G == Frame("gosrv", PidOf(Requester(a)), None, None)
<1>1. /\ Requester(a) \in Objs /\ PidOf(Requester(a)) \in Pids
      /\ Requester(a) \in Agents \cup 1..nobj
  BY RequesterType
<1>2. GoodFrame(K, nobj) /\ ~Waits(K)
  BY DEF Frame, GoodFrame, FrameType, Waits, Makers, Takers, Pids
<1>3. GoodFrame(R, nobj) /\ ~Waits(R) /\ R.pc \in Makers
  BY DEF Frame, GoodFrame, FrameType, Waits, Makers, Takers, Pids
<1>4. GoodFrame(N, nobj)
  BY <1>1 DEF Frame, GoodFrame, FrameType, Makers
<1>5. GoodFrame(G, nobj) /\ ~Waits(G)
  BY <1>1 DEF Frame, GoodFrame, FrameType, Waits, Makers, Takers
<1> HIDE DEF K, R, N, G
<1>6. /\ GoodStack(<<R, N>>, nobj) /\ GoodStack(<<K, R, N>>, nobj)
      /\ GoodStack(<<G>>, nobj) /\ GoodStack(<<K, G>>, nobj)
  BY <1>2, <1>3, <1>4, <1>5, OneFrame, TwoFrames, ThreeFrames
<1>7. /\ GoodStack((IF kicked THEN <<K>> ELSE <<>>) \o <<R, N>>, nobj)
      /\ GoodStack((IF kicked THEN <<K>> ELSE <<>>) \o <<G>>, nobj)
  <2> DEFINE S == {K, R, N, G}
             E == <<R, N>>
             H == <<G>>
  <2>1. K \in S /\ E \in Seq(S) /\ H \in Seq(S)
    OBVIOUS
  <2>2. Len(E) = 2 /\ E[1] = R /\ E[2] = N /\ Len(H) = 1 /\ H[1] = G
    OBVIOUS
  <2> HIDE DEF S, E, H
  <2>3. <<>> \o E = E /\ <<K>> \o E = <<K, R, N>>
    BY <2>1, <2>2, AfterKick
  <2>4. <<>> \o H = H /\ <<K>> \o H = <<K, G>>
    BY <2>1, <2>2, AfterKick
  <2>5. /\ GoodStack((IF kicked THEN <<K>> ELSE <<>>) \o E, nobj)
        /\ GoodStack((IF kicked THEN <<K>> ELSE <<>>) \o H, nobj)
    <3>1. CASE kicked
      <4>1. (IF kicked THEN <<K>> ELSE <<>>) = <<K>>
        BY <3>1
      <4> QED
        BY <1>6, <4>1, <2>3, <2>4
    <3>2. CASE ~kicked
      <4>1. (IF kicked THEN <<K>> ELSE <<>>) = <<>>
        BY <3>2
      <4> QED
        BY <1>6, <4>1, <2>3, <2>4 DEF E, H
    <3> QED
      BY <3>1, <3>2
  <2> QED
    BY <2>5 DEF E, H
<1> QED
  BY <1>7 DEF K, R, N, G

LEMMA EnterGameInv ==
    ASSUME IInv, NEW a \in Agents, NEW r \in Roles, EnterGame(a, r)
    PROVE  IInv'
<1> DEFINE kicked == ~(id_obj[r] = None)
           kick == IF kicked THEN << Frame("kick", r, None, None) >> ELSE <<>>
           E == kick \o << Frame("recoverplayer", r, None, None),
                           Frame("nettransfer", None, Requester(a), None) >>
           G == kick \o << Frame("gosrv", PidOf(Requester(a)), None, None) >>
<1>1. Requester(a) # None /\ StackInv /\ nobj' = nobj
  BY DEF EnterGame, MayEnter, IInv
<1>2. GoodStack(E, nobj) /\ GoodStack(G, nobj)
  BY <1>1, EnterFrames
<1>3. Spawn(E) \/ Spawn(G)
  BY DEF EnterGame
<1> HIDE DEF E, G
<1>4. StackInv'
  BY <1>1, <1>2, <1>3, SpawnGood
<1>5. HeapType'
  BY GetPlayerType DEF EnterGame, IInv, HeapType, ObjectsGood
<1> QED
  BY <1>4, <1>5, Same DEF EnterGame, IInv

LEMMA EnterByTokenInv ==
    ASSUME IInv, NEW a \in Agents, NEW r \in Roles, NEW home \in BOOLEAN,
           EnterByToken(a, r, home)
    PROVE  IInv'
<1> DEFINE kicked == ~(id_obj[r] = None)
           kick == IF kicked THEN << Frame("kick", r, None, None) >> ELSE <<>>
           E == kick \o << Frame("recoverplayer", r, None, None),
                           Frame(IF home THEN "sethome" ELSE "nettransfer",
                                 None, Requester(a), None) >>
<1>1. Requester(a) # None /\ StackInv /\ nobj' = nobj
  BY DEF EnterByToken, MayEnter, IInv
<1>2. GoodStack(E, nobj)
  BY <1>1, EnterFrames
<1>3. Spawn(E)
  BY DEF EnterByToken
<1> HIDE DEF E
<1>4. StackInv'
  BY <1>1, <1>2, <1>3, SpawnGood
<1>5. HeapType'
  BY GetPlayerType DEF EnterByToken, IInv, HeapType, ObjectsGood
<1>6. WorldType' /\ TablesType'
  BY DEF EnterByToken, IInv, WorldType, TablesType
<1> QED
  BY <1>4, <1>5, <1>6, Same DEF EnterByToken, IInv

LEMMA ExitRequestInv ==
    ASSUME IInv, NEW a \in Agents, ExitRequest(a)
    PROVE  IInv'
<1> DEFINE E == Frame("exitgame", None, Requester(a), None)
<1>1. StackInv /\ nobj' = nobj /\ Requester(a) \in Players /\ Requester(a) \in 1..nobj
  <2>1. StackInv /\ nobj' = nobj /\ Requester(a) \in Players
    BY DEF ExitRequest, IInv, heap
  <2>2. Requester(a) # None /\ Requester(a) \notin Agents
    BY <2>1, Names DEF Objs
  <2> QED
    BY <2>1, <2>2, RequesterType
<1>2. GoodFrame(E, nobj) /\ ~Waits(E)
  BY <1>1 DEF Frame, GoodFrame, FrameType, Waits, Makers, Takers, Objs
<1>3. StackInv'
  BY <1>1, <1>2, OneFrame, SpawnGood DEF ExitRequest
<1> QED
  BY <1>3, Same DEF ExitRequest, IInv

LEMMA PlayInv ==
    ASSUME IInv, NEW a \in Agents, Play(a)
    PROVE  IInv'
<1> DEFINE o == Requester(a)
<1>1. o \in Players /\ obj' = [obj EXCEPT ![o].data = clock + 1] /\ clock \in Nat
  BY DEF Play, IInv, WorldType
<1>2. HeapType'
  <2>1. obj' \in [Players -> [pid : Roles \cup {None}, agent : Agents \cup {None},
                             state : {"new", "online", "offline", "kuafu"}, data : Nat]]
    BY <1>1 DEF IInv, HeapType
  <2>2. ObjectsGood'
    BY <1>1, BoundsAssumption DEF Play, ObjectsGood, IInv, HeapType, Players
  <2> QED
    BY <2>1, <2>2 DEF Play, IInv, HeapType
<1>3. WorldType'
  BY DEF Play, IInv, WorldType
<1>4. RegGood'
  <2>1. \A x \in 1..nobj : obj'[x].pid = obj[x].pid
    BY <1>1, BoundsAssumption DEF IInv, HeapType, Players
  <2> QED
    BY <2>1, RegKept DEF Play, IInv, StackInv, reg
<1> QED
  BY <1>2, <1>3, <1>4, Same DEF Play, IInv

LEMMA GoRequestInv ==
    ASSUME IInv, NEW a \in Agents, GoRequest(a)
    PROVE  IInv'
<1> DEFINE R == Frame("reentergame", PidOf(Requester(a)), None, None)
<1>1. StackInv /\ nobj' = nobj /\ PidOf(Requester(a)) \in Pids
  BY RequesterType, NamesAssumption DEF GoRequest, IInv, heap, PassLogin
<1>2. GoodFrame(R, nobj) /\ ~Waits(R)
  BY <1>1 DEF Frame, GoodFrame, FrameType, Waits, Makers, Takers
<1>3. StackInv'
  BY <1>1, <1>2, OneFrame, SpawnGood DEF GoRequest
<1>4. WorldType'
  BY DEF GoRequest, IInv, WorldType, world
<1> QED
  BY <1>3, <1>4, Same DEF GoRequest, IInv

LEMMA SetGoSrvInv ==
    ASSUME IInv, NEW r \in Roles, SetGoSrv(r)
    PROVE  IInv'
<1> DEFINE R == Frame("recoverplayer", r, None, None)
           A == Frame("addkuafu", r, None, None)
<1>1. StackInv /\ nobj' = nobj
  BY DEF SetGoSrv, IInv
<1>2. GoodFrame(R, nobj) /\ ~Waits(R) /\ R.pc \in Makers
  BY DEF Frame, GoodFrame, FrameType, Waits, Makers, Takers, Pids
<1>3. GoodFrame(A, nobj)
  BY DEF Frame, GoodFrame, FrameType, Makers, Pids
<1>4. StackInv'
  <2>1. CASE id_obj[r] = None
    BY <1>1, <1>2, <1>3, <2>1, TwoFrames, SpawnGood DEF SetGoSrv
  <2>2. CASE id_obj[r] # None
    BY <1>1, <2>2, Same DEF SetGoSrv
  <2> QED
    BY <2>1, <2>2
<1>5. HeapType'
  BY GetPlayerType DEF SetGoSrv, IInv, HeapType, ObjectsGood
<1>6. WorldType'
  BY DEF SetGoSrv, IInv, WorldType, world
<1> QED
  BY <1>4, <1>5, <1>6, Same DEF SetGoSrv, IInv

LEMMA GmKickInv ==
    ASSUME IInv, NEW p \in Pids, GmKick(p)
    PROVE  IInv'
<1> DEFINE K == Frame("kick", p, None, None)
<1>1. StackInv /\ nobj' = nobj
  BY DEF GmKick, IInv, heap
<1>2. GoodFrame(K, nobj) /\ ~Waits(K)
  BY DEF Frame, GoodFrame, FrameType, Waits, Makers, Takers
<1>3. StackInv'
  BY <1>1, <1>2, OneFrame, SpawnGood DEF GmKick
<1> QED
  BY <1>3, Same DEF GmKick, IInv

LEMMA LoadOfflineInv ==
    ASSUME IInv, NEW r \in Roles, LoadOffline(r)
    PROVE  IInv'
<1> DEFINE R == Frame("newplayer", r, None, None)
           A == Frame("addoffline", r, None, None)
<1>1. StackInv /\ nobj' = nobj
  BY DEF LoadOffline, IInv
<1>2. GoodFrame(R, nobj) /\ ~Waits(R) /\ R.pc \in Makers
  BY DEF Frame, GoodFrame, FrameType, Waits, Makers, Takers, Pids
<1>3. GoodFrame(A, nobj)
  BY DEF Frame, GoodFrame, FrameType, Makers, Pids
<1>4. StackInv'
  BY <1>1, <1>2, <1>3, TwoFrames, SpawnGood DEF LoadOffline
<1>5. HeapType'
  BY GetPlayerType DEF LoadOffline, IInv, HeapType, ObjectsGood
<1> QED
  BY <1>4, <1>5, Same DEF LoadOffline, IInv

LEMMA AutoSaveInv ==
    ASSUME IInv, NEW o \in Players, AutoSave(o)
    PROVE  IInv'
<1> DEFINE S == Frame("saved", None, o, None)
<1>1. StackInv /\ nobj' = nobj /\ o \in 1..nobj
  BY DEF AutoSave, IInv, heap, HeapType
<1>2. GoodFrame(S, nobj) /\ ~Waits(S)
  BY <1>1 DEF Frame, GoodFrame, FrameType, Waits, Makers, Takers, Objs
<1>3. CASE obj[o].state = "kuafu"
  <2>1. StackInv' /\ WorldType'
    BY <1>1, <1>3, Same DEF AutoSave, IInv, WorldType
  <2> QED
    BY <2>1, Same DEF AutoSave, IInv
<1>4. CASE obj[o].state # "kuafu"
  <2>1. StackInv'
    BY <1>1, <1>2, <1>4, OneFrame, SpawnGood DEF AutoSave
  <2>2. WorldType'
    BY <1>4 DEF AutoSave, Save, IInv, WorldType, HeapType
  <2> QED
    BY <2>1, <2>2, Same DEF AutoSave, IInv
<1> QED
  BY <1>3, <1>4

LEMMA GrowIdleInv ==
    ASSUME IInv, NEW o \in Players, GrowIdle(o)
    PROVE  IInv'
<1>1. HeapType'
  BY DEF GrowIdle, IInv, HeapType, ObjectsGood
<1> QED
  BY <1>1, Same DEF GrowIdle, IInv

LEMMA NextInv ==
    ASSUME IInv, [Next]_vars
    PROVE  IInv'
<1>1. CASE \E t \in Tasks : Step(t)
  BY <1>1, StepInv
<1>2. ASSUME NEW a \in Agents, Client(a)
      PROVE  IInv'
  BY <1>2, StartInv, CloseInv, LoginInv, ExitRequestInv, PlayInv, GoRequestInv,
     EnterQueuedInv, EnterGameInv, EnterByTokenInv DEF Client
<1>3. CASE Server
  BY <1>3, SetGoSrvInv, LoadOfflineInv, GmKickInv, AutoSaveInv, GrowIdleInv DEF Server
<1>4. CASE UNCHANGED vars
  BY <1>4, Same DEF vars, tables, reg, heap, world, IInv
<1> QED
  BY <1>1, <1>2, <1>3, <1>4 DEF Next, Quiet

LEMMA InitInv == Init => IInv
<1> SUFFICES ASSUME Init PROVE IInv
  OBVIOUS
<1>1. TablesType /\ RegType /\ QueueType /\ WorldType
  BY DEF Init, TablesType, RegType, QueueType, WorldType
<1>2. HeapType
  BY BoundsAssumption DEF Init, HeapType, ObjectsGood
<1>3. StackInv
  BY NoFrame DEF Init, StackInv, StacksGood
<1>4. RegGood
  BY DEF Init, RegGood
<1> QED
  BY <1>1, <1>2, <1>3, <1>4 DEF IInv

\* In every state the variables of playermgr and its handlers have their types:
\* every call finds the object it was promised.
THEOREM TypeCorrect == Spec => []TypeOK
<1>1. Spec => []IInv
  BY InitInv, NextInv, PTL DEF Spec
<1> QED
  BY <1>1, IInvTypes, PTL

=============================================================================
