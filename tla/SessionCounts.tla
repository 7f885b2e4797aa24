--------------------------- MODULE SessionCounts ---------------------------
(***************************************************************************)
(* Theorems about playermgr's counters.  An action of the session core     *)
(* leaves the registry alone, or counts one object in, or counts one out:  *)
(* Counted says which, and the three counting invariants follow from it.   *)
(***************************************************************************)
EXTENDS SessionProofs

\* An agent that has not connected yet has no link.
Fresh == \A a \in Agents : sock[a] = "new" => id_obj[a] = None

SockKept == \A a \in Agents : sock'[a] = "new" => sock[a] = "new"

CountedIn(p, o, c) ==
    /\ id_obj[p] = None
    /\ id_obj' = [id_obj EXCEPT ![p] = o]
    /\ num' = num + 1
    /\ cnt' = [cnt EXCEPT ![c] = @ + 1]

CountedOut(p, c) ==
    /\ id_obj' = [id_obj EXCEPT ![p] = None]
    /\ num' = num - 1
    /\ cnt' = [cnt EXCEPT ![c] = @ - 1]

PlayerStates == States \ {"link"}

LinkIn    == \E a \in Agents : sock'[a] # "new" /\ CountedIn(a, a, "link")
LinkOut   == \E a \in Agents : id_obj[a] = a /\ CountedOut(a, "link")
PlayerIn  == \E p \in Roles, o \in Players, c \in PlayerStates : CountedIn(p, o, c)
PlayerOut == \E p \in Roles, c \in PlayerStates : CountedOut(p, c)
Untouched == UNCHANGED <<id_obj, num, cnt>>

Counted == LinkIn \/ LinkOut \/ PlayerIn \/ PlayerOut \/ Untouched

CountInv == IInv /\ Fresh

(***************************************************************************)
(* The actions that register an object or drop one.                        *)
(***************************************************************************)
\* No player object has the state of a link.
LEMMA PlayerCounter ==
    ASSUME IInv, NEW o \in Players
    PROVE  StateOf(o) # "link" /\ Counter(StateOf(o)) \in PlayerStates
<1>1. o \notin Agents
  BY Names
<1>2. obj[o].state \in {"new", "online", "offline", "kuafu"}
  BY DEF IInv, HeapType
<1> QED
  BY <1>1, <1>2 DEF StateOf, Counter, PlayerStates, States

LEMMA StartCounted ==
    ASSUME CountInv, NEW a \in Agents, Start(a)
    PROVE  LinkIn /\ SockKept
<1>1. id_obj[a] = None
  BY DEF CountInv, Fresh, Start
<1>2. CountedIn(a, a, "link")
  BY <1>1 DEF Start, AddObject, Counter, CountedIn
<1>3. SockKept /\ sock'[a] # "new"
  BY DEF Start, SockKept, CountInv, IInv, TablesType
<1> QED
  BY <1>2, <1>3 DEF LinkIn

LEMMA DelLinkCounted ==
    ASSUME IInv, NEW t \in Tasks, DelLink(t)
    PROVE  LinkOut
<1> DEFINE p == stack[t][1].pid
<1>1. p \in Pids
  BY StepTop DEF DelLink, GoodFrame
<1>2. id_obj[p] \in Agents
  BY DEF DelLink
<1>3. id_obj[p] # None
  BY <1>2, NamesAssumption
<1>4. p \in Agents /\ id_obj[p] = p
  BY <1>1, <1>2, <1>3, RegisteredGood
<1>5. DropObject(p, p)
  BY <1>4 DEF DelLink
<1>6. CountedOut(p, "link")
  BY <1>4, <1>5 DEF DropObject, CountedOut, StateOf, Counter
<1> QED
  BY <1>4, <1>6 DEF LinkOut

LEMMA DeletedCounted ==
    ASSUME IInv, NEW t \in Tasks, Deleted(t)
    PROVE  PlayerOut
<1> DEFINE p == stack[t][1].pid
           o == stack[t][1].src
<1>1. p \in Roles /\ o \in 1..nobj
  BY StepTop DEF Deleted, GoodFrame, Makers
<1>2. o \in Players
  BY <1>1, Made DEF IInv
<1>3. CountedOut(p, Counter(StateOf(o)))
  BY DEF Deleted, DropObject, CountedOut
<1> QED
  BY <1>1, <1>2, <1>3, PlayerCounter DEF PlayerOut

LEMMA AddCounted ==
    ASSUME IInv, NEW t \in Tasks, AddPlayer(t) \/ AddOffline(t) \/ AddKuafu(t)
    PROVE  PlayerIn
<1> DEFINE o == stack[t][1].dst
           p == obj[o].pid
<1>1. o \in Players /\ p \in Roles
  BY Taken DEF AddPlayer, AddOffline, AddKuafu, Takers
<1>2. id_obj[p] = None
  BY DEF AddPlayer, AddOffline, AddKuafu, CanAdd
<1>3. CASE AddPlayer(t)
  <2>1. CountedIn(p, o, "online")
    BY <1>2, <1>3 DEF AddPlayer, AddObject, Counter, CountedIn
  <2> QED
    BY <1>1, <2>1 DEF PlayerIn, PlayerStates, States
<1>4. CASE AddOffline(t)
  <2>1. CountedIn(p, o, "offline")
    BY <1>2, <1>4 DEF AddOffline, AddObject, Counter, CountedIn
  <2> QED
    BY <1>1, <2>1 DEF PlayerIn, PlayerStates, States
<1>5. CASE AddKuafu(t)
  <2>1. CountedIn(p, o, "kuafu")
    BY <1>2, <1>5 DEF AddKuafu, AddObject, Counter, CountedIn
  <2> QED
    BY <1>1, <2>1 DEF PlayerIn, PlayerStates, States
<1> QED
  BY <1>3, <1>4, <1>5

(***************************************************************************)
(* Every action.                                                           *)
(***************************************************************************)
LEMMA StepCounted ==
    ASSUME IInv, NEW t \in Tasks, Step(t)
    PROVE  Counted /\ sock' = sock
<1>1. CASE DelNothing(t) \/ DelOnline(t) \/ DelOffline(t) \/ DelKuafu(t)
           \/ ExitGame(t) \/ Saved(t) \/ Pop(t)
  BY <1>1 DEF DelNothing, DelOnline, DelOffline, DelKuafu, ExitGame, Saved, Pop,
              tables, reg, Untouched, Counted
<1>2. CASE Unload(t) \/ NewPlayer(t) \/ SetHome(t) \/ NetTransfer(t)
           \/ AddRepeat(t) \/ CallFails(t) \/ OnLogin(t)
  BY <1>2 DEF Unload, NewPlayer, SetHome, NetTransfer, AddRepeat, CallFails, OnLogin,
              tables, reg, Untouched, Counted
<1>3. CASE Kick(t) \/ ProtoKick(t) \/ Closed(t) \/ GoSrv(t) \/ ReenterGame(t)
  BY <1>3 DEF Kick, ProtoKick, Closed, GoSrv, ReenterGame,
              tables, reg, Untouched, Counted
<1>4. CASE DelLink(t)
  BY <1>4, DelLinkCounted DEF DelLink, tables, Counted
<1>5. CASE Deleted(t)
  BY <1>5, DeletedCounted DEF Deleted, tables, Counted
<1>6. CASE AddPlayer(t) \/ AddOffline(t) \/ AddKuafu(t)
  BY <1>6, AddCounted DEF AddPlayer, AddOffline, AddKuafu, tables, Counted
<1> QED
  BY <1>1, <1>2, <1>3, <1>4, <1>5, <1>6 DEF Step

LEMMA ClientCounted ==
    ASSUME CountInv, NEW a \in Agents, Client(a)
    PROVE  Counted /\ SockKept
<1>1. CASE Start(a)
  BY <1>1, StartCounted DEF Counted
<1>2. CASE Close(a)
  BY <1>2 DEF Close, reg, Counted, Untouched, SockKept, CountInv, IInv, TablesType
<1>3. CASE Login(a) \/ ExitRequest(a) \/ Play(a) \/ GoRequest(a)
  BY <1>3 DEF Login, ExitRequest, Play, GoRequest, tables, reg, Counted, Untouched, SockKept
<1>4. ASSUME NEW r \in Roles, EnterQueued(a, r) \/ EnterGame(a, r)
      PROVE  Counted /\ SockKept
  BY <1>4 DEF EnterQueued, EnterGame, tables, reg, Counted, Untouched, SockKept
<1>5. ASSUME NEW r \in Roles, NEW home \in BOOLEAN, EnterByToken(a, r, home)
      PROVE  Counted /\ SockKept
  BY <1>5 DEF EnterByToken, reg, Counted, Untouched, SockKept
<1> QED
  BY <1>1, <1>2, <1>3, <1>4, <1>5 DEF Client

LEMMA NextCounted ==
    ASSUME CountInv, [Next]_vars
    PROVE  Counted /\ SockKept
<1>1. CASE \E t \in Tasks : Step(t)
  BY <1>1, StepCounted DEF CountInv, SockKept
<1>2. CASE \E a \in Agents : Client(a)
  BY <1>2, ClientCounted
<1>3. CASE Server
  BY <1>3 DEF Server, SetGoSrv, LoadOffline, GmKick, AutoSave, GrowIdle,
              tables, reg, Counted, Untouched, SockKept
<1>4. CASE UNCHANGED vars
  BY <1>4 DEF vars, tables, reg, Counted, Untouched, SockKept
<1> QED
  BY <1>1, <1>2, <1>3, <1>4 DEF Next, Quiet

LEMMA CountInvStep ==
    ASSUME CountInv, [Next]_vars
    PROVE  CountInv'
<1>1. IInv'
  BY NextInv DEF CountInv
<1>2. Counted /\ SockKept
  BY NextCounted
<1>3. id_obj \in [Pids -> Objs \cup {None}] /\ sock' \in [Agents -> {"new", "open", "closed"}]
  BY <1>1 DEF CountInv, IInv, RegType, TablesType
<1>4. ASSUME NEW a \in Agents, sock'[a] = "new"
      PROVE  id_obj'[a] = None
  <2>1. id_obj[a] = None /\ a \in Pids /\ a \notin Roles
    BY <1>2, <1>4, NamesAssumption DEF SockKept, CountInv, Fresh, Pids
  <2>2. CASE LinkIn
    <3>1. PICK b \in Agents : sock'[b] # "new" /\ id_obj' = [id_obj EXCEPT ![b] = b]
      BY <2>2 DEF LinkIn, CountedIn
    <3> QED
      BY <1>3, <1>4, <2>1, <3>1
  <2>3. CASE LinkOut
    <3>1. PICK b \in Agents : id_obj' = [id_obj EXCEPT ![b] = None]
      BY <2>3 DEF LinkOut, CountedOut
    <3> QED
      BY <1>3, <2>1, <3>1
  <2>4. CASE PlayerIn
    <3>1. PICK p \in Roles, o \in Players : id_obj' = [id_obj EXCEPT ![p] = o]
      BY <2>4 DEF PlayerIn, CountedIn
    <3> QED
      BY <1>3, <2>1, <3>1
  <2>5. CASE PlayerOut
    <3>1. PICK p \in Roles : id_obj' = [id_obj EXCEPT ![p] = None]
      BY <2>5 DEF PlayerOut, CountedOut
    <3> QED
      BY <1>3, <2>1, <3>1
  <2> QED
    BY <1>2, <2>1, <2>2, <2>3, <2>4, <2>5 DEF Counted, Untouched
<1> QED
  BY <1>1, <1>4 DEF CountInv, Fresh

(***************************************************************************)
(* The invariants.                                                         *)
(***************************************************************************)
LEMMA CountersStep ==
    ASSUME CountInv, CountersAgree, [Next]_vars
    PROVE  CountersAgree'
<1> USE DEF CountersAgree
<1>1. cnt \in [States -> Int] /\ num \in Int
  BY DEF CountInv, IInv, RegType
<1>2. ASSUME NEW c \in States, num' = num + 1, cnt' = [cnt EXCEPT ![c] = @ + 1]
      PROVE  CountersAgree'
  BY <1>1, <1>2 DEF States
<1>3. ASSUME NEW c \in States, num' = num - 1, cnt' = [cnt EXCEPT ![c] = @ - 1]
      PROVE  CountersAgree'
  BY <1>1, <1>3 DEF States
<1>4. Counted
  BY NextCounted
<1>5. CASE LinkIn \/ PlayerIn
  BY <1>2, <1>5 DEF LinkIn, PlayerIn, CountedIn, PlayerStates, States
<1>6. CASE LinkOut \/ PlayerOut
  BY <1>3, <1>6 DEF LinkOut, PlayerOut, CountedOut, PlayerStates, States
<1>7. CASE Untouched
  BY <1>7 DEF Untouched
<1> QED
  BY <1>4, <1>5, <1>6, <1>7 DEF Counted

\* What a slot that is filled, and one that is emptied, does to Registered.
LEMMA RegisteredFinite ==
    IsFiniteSet(Registered) /\ Cardinality(Registered) \in Nat
<1>1. IsFiniteSet(Pids)
  BY FiniteAssumption, FS_Union DEF Pids
<1>2. Registered \in SUBSET Pids
  BY DEF Registered
<1> QED
  BY <1>1, <1>2, FS_Subset, FS_CardinalityType

LEMMA RegisteredIn ==
    ASSUME id_obj \in [Pids -> Objs \cup {None}], NEW p \in Pids, NEW o \in Objs,
           id_obj[p] = None, id_obj' = [id_obj EXCEPT ![p] = o]
    PROVE  Cardinality(Registered') = Cardinality(Registered) + 1
<1>1. Registered' = Registered \cup {p} /\ p \notin Registered
  BY Names DEF Registered
<1> QED
  BY <1>1, RegisteredFinite, FS_AddElement

LEMMA RegisteredOut ==
    ASSUME id_obj \in [Pids -> Objs \cup {None}], NEW p \in Pids,
           id_obj' = [id_obj EXCEPT ![p] = None]
    PROVE  /\ Cardinality(Registered') \in Nat
           /\ Cardinality(Registered') >= Cardinality(Registered) - 1
<1>1. Registered' = Registered \ {p}
  BY DEF Registered
<1>2. Cardinality(Registered \ {p}) =
        IF p \in Registered THEN Cardinality(Registered) - 1 ELSE Cardinality(Registered)
  BY RegisteredFinite, FS_RemoveElement
<1>3. Cardinality(Registered \ {p}) \in Nat
  BY RegisteredFinite, FS_RemoveElement, FS_CardinalityType
<1> DEFINE n == Cardinality(Registered)
           m == Cardinality(Registered \ {p})
<1>4. n \in Nat /\ m \in Nat /\ (m = n - 1 \/ m = n)
  BY <1>2, <1>3, RegisteredFinite
<1> HIDE DEF n, m
<1>5. m >= n - 1
  BY <1>4
<1> QED
  BY <1>1, <1>3, <1>5 DEF n, m

LEMMA OvercountStep ==
    ASSUME CountInv, NumNeverOvercounts, [Next]_vars
    PROVE  NumNeverOvercounts'
<1> DEFINE n == Cardinality(Registered)
           m == Cardinality(Registered')
<1>1. /\ id_obj \in [Pids -> Objs \cup {None}] /\ num \in Int
      /\ n \in Nat /\ num <= n
  BY RegisteredFinite DEF CountInv, IInv, RegType, NumNeverOvercounts
<1>2. SUFFICES num' <= m
  BY DEF NumNeverOvercounts
<1> HIDE DEF n, m
<1>3. ASSUME NEW p \in Pids, NEW o \in Objs, NEW c, CountedIn(p, o, c)
      PROVE  num' <= m
  <2>1. m = n + 1 /\ num' = num + 1
    BY <1>1, <1>3, RegisteredIn DEF CountedIn, n, m
  <2> QED
    BY <1>1, <2>1
<1>4. ASSUME NEW p \in Pids, NEW c, CountedOut(p, c)
      PROVE  num' <= m
  <2>1. m \in Nat /\ m >= n - 1 /\ num' = num - 1
    BY <1>1, <1>4, RegisteredOut DEF CountedOut, n, m
  <2> QED
    BY <1>1, <2>1
<1>5. CASE LinkIn \/ PlayerIn
  BY <1>3, <1>5 DEF LinkIn, PlayerIn, Pids, Objs
<1>6. CASE LinkOut \/ PlayerOut
  BY <1>4, <1>6 DEF LinkOut, PlayerOut, Pids
<1>7. CASE Untouched
  BY <1>1, <1>7 DEF Untouched, n, m, Registered
<1> QED
  BY <1>5, <1>6, <1>7, NextCounted DEF Counted

Links == {a \in Agents : id_obj[a] = a}

LEMMA LinksFinite == IsFiniteSet(Links) /\ Cardinality(Links) \in Nat
<1>1. Links \in SUBSET Agents
  BY DEF Links
<1> QED
  BY <1>1, FiniteAssumption, FS_Subset, FS_CardinalityType

LEMMA LinkCountStep ==
    ASSUME CountInv, LinkCountExact, [Next]_vars
    PROVE  LinkCountExact'
<1>1. /\ id_obj \in [Pids -> Objs \cup {None}] /\ cnt \in [States -> Int]
      /\ "link" \in States /\ Agents \subseteq Pids /\ Agents \cap Roles = {}
      /\ None \notin Agents
  BY NamesAssumption DEF CountInv, IInv, RegType, States, Pids
<1>2. cnt["link"] = Cardinality(Links)
  BY DEF LinkCountExact, Links
<1>3. SUFFICES cnt'["link"] = Cardinality(Links')
  BY DEF LinkCountExact, Links
<1>4. CASE LinkIn
  <2>1. PICK a \in Agents : CountedIn(a, a, "link")
    BY <1>4 DEF LinkIn
  <2>2. Links' = Links \cup {a} /\ a \notin Links
    BY <1>1, <2>1 DEF Links, CountedIn
  <2>3. cnt'["link"] = cnt["link"] + 1
    BY <1>1, <2>1 DEF CountedIn
  <2>4. Cardinality(Links') = Cardinality(Links) + 1
    BY <2>2, LinksFinite, FS_AddElement
  <2> QED
    BY <1>2, <2>3, <2>4
<1>5. CASE LinkOut
  <2>1. PICK a \in Agents : id_obj[a] = a /\ CountedOut(a, "link")
    BY <1>5 DEF LinkOut
  <2>2. Links' = Links \ {a} /\ a \in Links
    BY <1>1, <2>1 DEF Links, CountedOut
  <2>3. cnt'["link"] = cnt["link"] - 1
    BY <1>1, <2>1 DEF CountedOut
  <2>4. Cardinality(Links') = Cardinality(Links) - 1
    BY <2>2, LinksFinite, FS_RemoveElement
  <2> QED
    BY <1>2, <2>3, <2>4
<1>6. CASE PlayerIn
  <2>1. PICK p \in Roles, o \in Players, c \in PlayerStates : CountedIn(p, o, c)
    BY <1>6 DEF PlayerIn
  <2>2. Links' = Links
    BY <1>1, <2>1 DEF Links, CountedIn
  <2>3. cnt'["link"] = cnt["link"]
    BY <1>1, <2>1 DEF CountedIn, PlayerStates
  <2> QED
    BY <1>2, <2>2, <2>3
<1>7. CASE PlayerOut
  <2>1. PICK p \in Roles, c \in PlayerStates : CountedOut(p, c)
    BY <1>7 DEF PlayerOut
  <2>2. Links' = Links
    BY <1>1, <2>1 DEF Links, CountedOut
  <2>3. cnt'["link"] = cnt["link"]
    BY <1>1, <2>1 DEF CountedOut, PlayerStates
  <2> QED
    BY <1>2, <2>2, <2>3
<1>8. CASE Untouched
  BY <1>2, <1>8 DEF Untouched, Links
<1> QED
  BY <1>4, <1>5, <1>6, <1>7, <1>8, NextCounted DEF Counted

LEMMA CountInit == Init => CountInv /\ CountersAgree /\ NumNeverOvercounts /\ LinkCountExact
<1> SUFFICES ASSUME Init PROVE CountInv /\ CountersAgree /\ NumNeverOvercounts /\ LinkCountExact
  OBVIOUS
<1>1. CountInv
  BY InitInv DEF Init, CountInv, Fresh, Pids
<1>2. CountersAgree
  BY DEF Init, CountersAgree, States
<1>3. NumNeverOvercounts
  <2>1. Registered = {}
    BY DEF Init, Registered
  <2> QED
    BY <2>1, FS_EmptySet DEF Init, NumNeverOvercounts
<1>4. LinkCountExact
  <2>1. {a \in Agents : id_obj[a] = a} = {}
    BY NamesAssumption DEF Init, Pids
  <2> QED
    BY <2>1, FS_EmptySet DEF Init, LinkCountExact, States
<1> QED
  BY <1>1, <1>2, <1>3, <1>4

LEMMA CountInvariant == Spec => []CountInv
BY CountInit, CountInvStep, PTL DEF Spec

\* playermgr.num is the sum of the four counters it is kept beside, through any
\* interleaving of addobject and delobject.
THEOREM CountersAlwaysAgree == Spec => []CountersAgree
BY CountInit, CountInvariant, CountersStep, PTL DEF Spec

\* A player that is erased by a stale delobject is counted out with it: num is
\* never more than the objects registered.
THEOREM NeverOvercounted == Spec => []NumNeverOvercounts
BY CountInit, CountInvariant, OvercountStep, PTL DEF Spec

\* linknum is the number of registered links: only players are counted out twice.
THEOREM LinksCountedExactly == Spec => []LinkCountExact
BY CountInit, CountInvariant, LinkCountStep, PTL DEF Spec

=============================================================================
