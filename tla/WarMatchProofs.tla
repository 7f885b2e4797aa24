--------------------------- MODULE WarMatchProofs ---------------------------
(***************************************************************************)
(* Proofs about WarMatch, for any players, levels and war servers, any     *)
(* number of chains, wars and lost calls: fight records name wars of their *)
(* players, removals from a pool never hit somebody who came earlier, a    *)
(* profile is in one allocation, and its state only moves forward.         *)
(***************************************************************************)
EXTENDS WarMatch, SequenceTheorems, FiniteSetTheorems, TLAPS

WarType == [attacker : Pids, defenser : Pids, open : BOOLEAN, ended : BOOLEAN]

ProfileType == [pid : Pids \cup {None}, lv : Levels \cup {None},
                state : {States[k] : k \in 1..5},
                enemy_pid : Pids \cup {None}, pos : Nat]

\* A pid leads to a profile of its own whose war has not ended.
MgrInv ==
    /\ nprof \in 0..MaxProf
    /\ pid_profile \in [Pids -> 1..nprof \cup {None}]
    /\ profile \in [Profiles -> ProfileType]
    /\ \A i \in Profiles :
          /\ i <= nprof => /\ profile[i].pid \in Pids
                           /\ profile[i].lv \in Levels
                           /\ profile[i].state # "none"
          /\ i > nprof => profile[i].state = "none"
    /\ \A p \in Pids : pid_profile[p] # None =>
          /\ profile[pid_profile[p]].pid = p
          /\ profile[pid_profile[p]].state # "endwar"

PoolInv == lv_profiles \in [Levels -> Seq(1..nprof)] /\ PosNeverBefore

OpenWars(s) == {w \in 1..Len(wars[s]) : wars[s][w].open}

\* A war server counts its open wars exactly.
WarInv ==
    /\ wars \in [Servers -> Seq(WarType)]
    /\ \A s \in Servers : Len(wars[s]) <= MaxWar
    /\ num \in [Servers -> Nat]
    /\ \A s \in Servers : num[s] = Cardinality(OpenWars(s))

FightInv ==
    /\ fight \in [Pids -> [srv : Servers, warid : Warids] \cup {None}]
    /\ loaded \subseteq Pids
    /\ FightIsMember

\* A call names a war that was made, and reports its start to a player who is in it.
GoodCall(c) ==
    /\ c \in CallType
    /\ c.warid \in 1..Len(wars[c.srv])
    /\ c.pc \notin {"started", "delwar"} => c.pid \in Pids
    /\ c.pc \in {"startwar", "startwar player", "load player"} =>
          c.pid \in Members(c.srv, c.warid)

GoodCreate(c) ==
    /\ c \in CreateType
    /\ c.attacker \in 1..nprof
    /\ c.defenser \in 1..nprof

Good == {c \in CallType \cup CreateType : GoodCall(c) \/ GoodCreate(c)}

\* The createwar of allocer is the call that its chain began with.
AtBottom(q) == \A k \in 1..Len(q) : q[k].pc = "createwar" => k = Len(q)

Held(q) == {i \in Profiles : \E k \in 1..Len(q) :
               q[k].pc = "createwar" /\ i \in {q[k].attacker, q[k].defenser}}

\* Profiles that allocer does not take (again).
Taken == {i \in 1..nprof : profile[i].state \notin {"none", "ready"}}

ChainInv ==
    /\ stack \in [Chains -> Seq(Good)]
    /\ \A t \in Chains : AtBottom(stack[t])

AllocInv ==
    /\ \A t \in Chains : Held(stack[t]) \subseteq Taken
    /\ \A t, u \in Chains : t # u => Held(stack[t]) \cap Held(stack[u]) = {}

RestInv == known \subseteq Servers /\ lost \in 0..MaxLost

IInv == MgrInv /\ PoolInv /\ WarInv /\ FightInv /\ ChainInv /\ AllocInv /\ RestInv

LEMMA Bounds ==
    /\ WarLimit \in Nat /\ MaxProf \in Nat /\ MaxWar \in Nat /\ MaxChain \in Nat /\ MaxLost \in Nat
BY BoundsAssumption

LEMMA StateNames == {States[k] : k \in 1..5} = {"none", "ready", "match", "startwar", "endwar"}
<1>1. \A k \in 1..5 : k = 1 \/ k = 2 \/ k = 3 \/ k = 4 \/ k = 5
  OBVIOUS
<1>2. /\ States[1] = "none" /\ States[2] = "ready" /\ States[3] = "match"
      /\ States[4] = "startwar" /\ States[5] = "endwar"
  BY DEF States
<1> HIDE DEF States
<1>3. {States[k] : k \in 1..5} = {States[1], States[2], States[3], States[4], States[5]}
  BY <1>1
<1> QED BY <1>2, <1>3

----------------------------------------------------------------------------
(***************************************************************************)
(* Sequences and records                                                   *)
(***************************************************************************)
\* What is left after table.remove (cwarsrvmgr, delprofile).
LEMMA RemoveAtProperties ==
    ASSUME NEW S, NEW q \in Seq(S), NEW i \in 1..Len(q)
    PROVE  /\ RemoveAt(q, i) \in Seq(S)
           /\ Len(RemoveAt(q, i)) = Len(q) - 1
           /\ \A k \in 1..Len(q) - 1 : RemoveAt(q, i)[k] = IF k < i THEN q[k] ELSE q[k + 1]
<1> DEFINE a == SubSeq(q, 1, i - 1)
           b == SubSeq(q, i + 1, Len(q))
<1>0. Len(q) \in Nat /\ i \in Nat /\ \A k \in 1..Len(q) : q[k] \in S
  BY LenProperties, ElementOfSeq
<1>1. /\ a \in Seq(S) /\ Len(a) = i - 1
      /\ \A k \in 1..i - 1 : a[k] = q[k]
  BY <1>0, SubSeqProperties
<1>2. /\ b \in Seq(S) /\ Len(b) = Len(q) - i
      /\ \A k \in 1..Len(q) - i : b[k] = q[i + k]
  BY <1>0, SubSeqProperties
<1> HIDE DEF a, b
<1>3. /\ a \o b \in Seq(S) /\ Len(a \o b) = Len(q) - 1
      /\ \A k \in 1..Len(q) - 1 : (a \o b)[k] = IF k <= i - 1 THEN a[k] ELSE b[k - (i - 1)]
  BY <1>0, <1>1, <1>2, ConcatProperties
<1>4. ASSUME NEW k \in 1..Len(q) - 1 PROVE (a \o b)[k] = IF k < i THEN q[k] ELSE q[k + 1]
  <2>1. CASE k < i
    BY <1>0, <1>1, <1>3, <2>1
  <2>2. CASE ~(k < i)
    <3>1. k - (i - 1) \in 1..Len(q) - i /\ i + (k - (i - 1)) = k + 1
      BY <1>0, <2>2
    <3>2. (a \o b)[k] = b[k - (i - 1)]
      BY <1>0, <1>3, <2>2
    <3>3. b[k - (i - 1)] = q[k + 1]
      BY <1>2, <3>1
    <3> QED BY <2>2, <3>2, <3>3, Zenon
  <2> QED BY <2>1, <2>2
<1> QED BY <1>3, <1>4 DEF RemoveAt, a, b

LEMMA CreateTyped ==
    ASSUME NEW i, NEW j, NEW srvs
    PROVE  /\ Create(i, j, srvs).pc = "createwar"
           /\ Create(i, j, srvs).attacker = i
           /\ Create(i, j, srvs).defenser = j
           /\ Create(i, j, srvs).srvs = srvs
           /\ i \in Profiles /\ j \in Profiles /\ srvs \subseteq Servers
              => Create(i, j, srvs) \in CreateType
BY DEF Create, CreateType

LEMMA CallFields ==
    ASSUME NEW c \in CallType
    PROVE  /\ c.pc \in {"startwar", "startwar player", "load player", "started",
                        "finish", "endwar", "endwar player", "delwar"}
           /\ c.pid \in Pids \cup {None}
           /\ c.srv \in Servers
           /\ c.warid \in Warids
BY DEF CallType

LEMMA CreateFields ==
    ASSUME NEW c \in CreateType
    PROVE  /\ c.pc = "createwar"
           /\ c.attacker \in Profiles /\ c.defenser \in Profiles
           /\ c.srvs \subseteq Servers
BY DEF CreateType

LEMMA GoodByPc ==
    ASSUME NEW c \in Good
    PROVE  /\ c.pc # "createwar" => GoodCall(c)
           /\ c.pc = "createwar" => GoodCreate(c)
BY CallFields, CreateFields DEF Good, GoodCall, GoodCreate

\* Wars are only added, and keep their players.
WarsGrow ==
    \A s \in Servers : \A w \in 1..Len(wars[s]) :
        /\ w \in 1..Len(wars'[s])
        /\ wars'[s][w].attacker = wars[s][w].attacker
        /\ wars'[s][w].defenser = wars[s][w].defenser

Grows == WarsGrow /\ nprof \in Nat /\ nprof' \in Nat /\ nprof <= nprof'

LEMMA GoodGrows == ASSUME Grows PROVE Good \subseteq Good'
<1> SUFFICES ASSUME NEW c \in Good PROVE c \in Good'
  OBVIOUS
<1>1. CASE GoodCall(c)
  <2>1. c.srv \in Servers
    BY <1>1, CallFields DEF GoodCall
  <2>2. Members(c.srv, c.warid)' = Members(c.srv, c.warid) /\ c.warid \in 1..Len(wars'[c.srv])
    BY <1>1, <2>1 DEF GoodCall, Grows, WarsGrow, Members
  <2>3. GoodCall(c)'
    BY <1>1, <2>2 DEF GoodCall
  <2> QED BY <2>3, <1>1 DEF Good, GoodCall
<1>2. CASE GoodCreate(c)
  <2>1. GoodCreate(c)'
    BY <1>2 DEF GoodCreate, Grows
  <2> QED BY <2>1, <1>2 DEF Good, GoodCreate
<1> QED BY <1>1, <1>2 DEF Good

----------------------------------------------------------------------------
(***************************************************************************)
(* Chains                                                                  *)
(***************************************************************************)
\* A call that has been made leaves the stack, and others come in its place.
LEMMA JoinTail ==
    ASSUME NEW G, NEW q \in Seq(G), q # <<>>, AtBottom(q), NEW calls \in Seq(G),
           \A k \in 1..Len(calls) : calls[k].pc # "createwar"
    PROVE  /\ calls \o Tail(q) \in Seq(G)
           /\ AtBottom(calls \o Tail(q))
           /\ Held(calls \o Tail(q)) \subseteq Held(q)
<1> DEFINE n == Len(calls)
           r == calls \o Tail(q)
<1>1. n \in Nat /\ Len(q) \in Nat /\ Len(q) > 0
  BY EmptySeq, LenProperties
<1>2. /\ Tail(q) \in Seq(G) /\ Len(Tail(q)) = Len(q) - 1
      /\ \A i \in 1..Len(q) - 1 : Tail(q)[i] = q[i + 1]
  BY HeadTailProperties
<1>3. /\ r \in Seq(G) /\ Len(r) = n + Len(q) - 1
      /\ \A i \in 1..n + (Len(q) - 1) : r[i] = IF i <= n THEN calls[i] ELSE Tail(q)[i - n]
  BY <1>1, <1>2, ConcatProperties
<1> HIDE DEF r
<1>4. ASSUME NEW k \in 1..Len(r), r[k].pc = "createwar"
      PROVE  k - n + 1 \in 1..Len(q) /\ r[k] = q[k - n + 1]
  <2>1. ~(k <= n)
    BY <1>1, <1>3, <1>4 DEF n
  <2>2. r[k] = Tail(q)[k - n]
    BY <1>1, <1>3, <2>1
  <2>3. k - n \in 1..Len(q) - 1
    BY <1>1, <1>3, <2>1
  <2>4. Tail(q)[k - n] = q[k - n + 1]
    BY <1>2, <2>3
  <2> QED BY <1>1, <2>2, <2>3, <2>4
<1>5. AtBottom(r)
  <2> SUFFICES ASSUME NEW k \in 1..Len(r), r[k].pc = "createwar" PROVE k = Len(r)
    BY DEF AtBottom
  <2>1. k - n + 1 = Len(q)
    BY <1>4 DEF AtBottom
  <2> QED BY <1>1, <1>3, <2>1
<1>6. Held(r) \subseteq Held(q)
  BY <1>4 DEF Held
<1> QED BY <1>3, <1>5, <1>6 DEF r

\* What an error leaves of a chain is its end.
LEMMA Suffix ==
    ASSUME NEW G, NEW q \in Seq(G), AtBottom(q), NEW i \in 1..Len(q)
    PROVE  /\ SubSeq(q, i, Len(q)) \in Seq(G)
           /\ AtBottom(SubSeq(q, i, Len(q)))
           /\ Held(SubSeq(q, i, Len(q))) \subseteq Held(q)
<1> DEFINE r == SubSeq(q, i, Len(q))
<1>1. Len(q) \in Nat /\ \A k \in i..Len(q) : q[k] \in G
  BY LenProperties, ElementOfSeq
<1>2. /\ r \in Seq(G) /\ Len(r) = Len(q) - i + 1
      /\ \A k \in 1..Len(q) - i + 1 : r[k] = q[i + k - 1]
  BY <1>1, SubSeqProperties
<1> HIDE DEF r
<1>3. ASSUME NEW k \in 1..Len(r) PROVE i + k - 1 \in 1..Len(q) /\ r[k] = q[i + k - 1]
  BY <1>1, <1>2
<1>4. AtBottom(r)
  <2> SUFFICES ASSUME NEW k \in 1..Len(r), r[k].pc = "createwar" PROVE k = Len(r)
    BY DEF AtBottom
  <2>1. i + k - 1 = Len(q)
    BY <1>3 DEF AtBottom
  <2> QED BY <1>1, <1>2, <2>1
<1>5. Held(r) \subseteq Held(q)
  BY <1>3 DEF Held
<1> QED BY <1>2, <1>4, <1>5 DEF r

LEMMA Nothing ==
    ASSUME NEW G PROVE <<>> \in Seq(G) /\ AtBottom(<<>>) /\ Held(<<>>) = {}
BY EmptySeq DEF AtBottom, Held

\* Chain t goes on, and holds no profile it did not hold before.
ChainMoves(t) ==
    \E r \in Seq(Good') :
        /\ AtBottom(r)
        /\ Held(r) \subseteq Held(stack[t])
        /\ stack' = [stack EXCEPT ![t] = r]

LEMMA ChainMovesInv ==
    ASSUME ChainInv, AllocInv, NEW t \in Chains, ChainMoves(t),
           Good \subseteq Good', Taken \subseteq Taken'
    PROVE  ChainInv' /\ AllocInv'
<1>1. PICK r \in Seq(Good') :
         /\ AtBottom(r)
         /\ Held(r) \subseteq Held(stack[t])
         /\ stack' = [stack EXCEPT ![t] = r]
  BY DEF ChainMoves
<1>2. \A u \in Chains : stack'[u] = IF u = t THEN r ELSE stack[u]
  BY <1>1 DEF ChainInv
<1>3. \A u \in Chains : stack[u] \in Seq(Good')
  BY SeqMonotonic DEF ChainInv
<1>4. stack' \in [Chains -> Seq(Good')]
  BY <1>1, <1>3 DEF ChainInv
<1>5. ChainInv'
  BY <1>1, <1>2, <1>4 DEF ChainInv
<1>6. \A u \in Chains : Held(stack'[u]) \subseteq Held(stack[u])
  BY <1>1, <1>2
<1>7. AllocInv'
  BY <1>6 DEF AllocInv
<1> QED BY <1>5, <1>7

LEMMA ChainsKept ==
    ASSUME ChainInv, AllocInv, UNCHANGED stack, Good \subseteq Good', Taken \subseteq Taken'
    PROVE  ChainInv' /\ AllocInv'
<1>1. \A u \in Chains : stack[u] \in Seq(Good')
  BY SeqMonotonic DEF ChainInv
<1>2. stack' \in [Chains -> Seq(Good')]
  BY <1>1 DEF ChainInv
<1> QED BY <1>2 DEF ChainInv, AllocInv

LEMMA Top ==
    ASSUME ChainInv, NEW t \in Chains, NEW pc, Runs(t, pc)
    PROVE  /\ stack[t] \in Seq(Good) /\ stack[t] # <<>>
           /\ Len(stack[t]) \in Nat /\ 1 \in 1..Len(stack[t])
           /\ stack[t][1] \in Good
           /\ stack[t][1].pc = pc
<1>1. stack[t] \in Seq(Good) /\ stack[t] # <<>> /\ stack[t][1].pc = pc
  BY DEF ChainInv, Runs
<1>2. Len(stack[t]) \in Nat /\ 1 \in 1..Len(stack[t])
  BY <1>1, EmptySeq, LenProperties
<1> QED BY <1>1, <1>2, ElementOfSeq

LEMMA GoMoves ==
    ASSUME ChainInv, NEW t \in Chains, NEW pc, Runs(t, pc), Good \subseteq Good',
           NEW calls \in Seq(Good'), \A k \in 1..Len(calls) : calls[k].pc # "createwar",
           Go(t, calls)
    PROVE  ChainMoves(t)
<1>1. stack[t] \in Seq(Good') /\ stack[t] # <<>> /\ AtBottom(stack[t])
  BY Top, SeqMonotonic DEF ChainInv
<1>2. stack' = [stack EXCEPT ![t] = calls \o Tail(stack[t])]
  BY DEF Go
<1> QED BY <1>1, <1>2, JoinTail DEF ChainMoves

LEMMA GoNothing ==
    ASSUME ChainInv, NEW t \in Chains, NEW pc, Runs(t, pc), Good \subseteq Good', Go(t, <<>>)
    PROVE  ChainMoves(t)
<1>1. <<>> \in Seq(Good') /\ \A k \in 1..Len(<<>>) : <<>>[k].pc # "createwar"
  BY EmptySeq
<1> QED BY <1>1, GoMoves

LEMMA GoOne ==
    ASSUME ChainInv, NEW t \in Chains, NEW pc, Runs(t, pc), Good \subseteq Good',
           NEW c \in Good', c.pc # "createwar", Go(t, << c >>)
    PROVE  ChainMoves(t)
<1>1. << c >> \in Seq(Good') /\ \A k \in 1..Len(<< c >>) : << c >>[k].pc # "createwar"
  OBVIOUS
<1> QED BY <1>1, GoMoves

\* A createwar is alone in its chain, and hands its profiles on.
LEMMA CreateGoes ==
    ASSUME ChainInv, NEW t \in Chains, Runs(t, "createwar"), Good \subseteq Good',
           NEW calls \in Seq(Good'), AtBottom(calls), Held(calls) \subseteq Held(stack[t]),
           Go(t, calls)
    PROVE  ChainMoves(t)
<1>1. Len(stack[t]) = 1
  BY Top DEF ChainInv, AtBottom
<1>2. Tail(stack[t]) \in Seq(Good) /\ Len(Tail(stack[t])) = 0
  BY <1>1, Top, HeadTailProperties
<1>3. Tail(stack[t]) = <<>>
  BY <1>2, EmptySeq
<1>4. stack' = [stack EXCEPT ![t] = calls]
  BY <1>3, ConcatEmptySeq DEF Go
<1> QED BY <1>4 DEF ChainMoves

LEMMA RaiseMoves ==
    ASSUME ChainInv, NEW t \in Chains, NEW pc, Runs(t, pc), Good \subseteq Good', Raise(t)
    PROVE  ChainMoves(t)
<1> DEFINE caught == {i \in 2..Len(stack[t]) : stack[t][i].pc = "createwar"}
<1>0. stack[t] \in Seq(Good') /\ AtBottom(stack[t]) /\ Len(stack[t]) \in Nat
  BY Top, SeqMonotonic DEF ChainInv
<1>1. CASE caught = {}
  <2>1. stack' = [stack EXCEPT ![t] = <<>>]
    BY <1>1 DEF Raise
  <2> QED BY <2>1, Nothing DEF ChainMoves
<1>2. CASE caught # {}
  <2>1. PICK i \in caught : stack' = [stack EXCEPT ![t] = SubSeq(stack[t], i, Len(stack[t]))]
    BY <1>2 DEF Raise
  <2>2. i \in 1..Len(stack[t])
    BY <1>0
  <2> QED BY <1>0, <2>1, <2>2, Suffix DEF ChainMoves
<1> QED BY <1>1, <1>2

\* A chain that ends holds nothing.
LEMMA EndMoves ==
    ASSUME NEW t \in Chains, stack' = [stack EXCEPT ![t] = <<>>]
    PROVE  ChainMoves(t)
BY Nothing DEF ChainMoves

----------------------------------------------------------------------------
(***************************************************************************)
(* Profiles and pools                                                      *)
(***************************************************************************)
\* Of a pool: in order, and nobody further back than the stored position says.
Ordered(q) ==
    \A k \in 1..Len(q) :
        /\ profile[q[k]].pos >= k
        /\ \A l \in 1..k-1 : q[l] < q[k]

LEMMA PoolsOrdered ==
    PoolInv <=> /\ lv_profiles \in [Levels -> Seq(1..nprof)]
                /\ \A lv \in Levels : Ordered(lv_profiles[lv])
BY DEF PoolInv, PosNeverBefore, Ordered

LEMMA PoolsOrderedNext ==
    PoolInv' <=> /\ lv_profiles' \in [Levels -> Seq(1..nprof')]
                 /\ \A lv \in Levels : Ordered(lv_profiles[lv])'
BY DEF PoolInv, PosNeverBefore, Ordered

LEMMA ProfileFields ==
    ASSUME MgrInv, NEW i \in 1..nprof
    PROVE  /\ nprof \in Nat /\ nprof <= MaxProf /\ i \in Profiles
           /\ profile[i] \in ProfileType
           /\ profile[i].pid \in Pids /\ profile[i].lv \in Levels /\ profile[i].pos \in Nat
           /\ profile[i].state # "none"
BY Bounds DEF MgrInv, Profiles, ProfileType

\* Whoever moves up is still not further back than his position says.
LEMMA OrderedRemove ==
    ASSUME MgrInv, NEW q \in Seq(1..nprof), Ordered(q), NEW i \in 1..Len(q)
    PROVE  RemoveAt(q, i) \in Seq(1..nprof) /\ Ordered(RemoveAt(q, i))
<1> DEFINE r == RemoveAt(q, i)
<1>0. Len(q) \in Nat /\ nprof \in Nat /\ \A k \in 1..Len(q) : q[k] \in 1..nprof
  BY LenProperties, ElementOfSeq DEF MgrInv
<1>1. /\ r \in Seq(1..nprof) /\ Len(r) = Len(q) - 1
      /\ \A k \in 1..Len(q) - 1 : r[k] = IF k < i THEN q[k] ELSE q[k + 1]
  BY RemoveAtProperties
<1> HIDE DEF r
<1>2. \A k \in 1..Len(q) : profile[q[k]].pos \in Nat
  BY <1>0, ProfileFields
<1>3. ASSUME NEW k \in 1..Len(r) PROVE profile[r[k]].pos >= k
  <2> DEFINE k1 == IF k < i THEN k ELSE k + 1
  <2>1. k1 \in 1..Len(q) /\ k \in 1..Len(q) - 1 /\ k1 >= k
    BY <1>0, <1>1
  <2>2. r[k] = q[k1]
    BY <1>1, <2>1
  <2>3. profile[q[k1]].pos >= k1 /\ profile[q[k1]].pos \in Nat
    BY <1>2, <2>1 DEF Ordered
  <2> HIDE DEF k1
  <2> QED BY <2>1, <2>2, <2>3, <1>0
<1>4. ASSUME NEW k \in 1..Len(r), NEW l \in 1..k-1 PROVE r[l] < r[k]
  <2> DEFINE k1 == IF k < i THEN k ELSE k + 1
             l1 == IF l < i THEN l ELSE l + 1
  <2>1. k1 \in 1..Len(q) /\ l1 \in 1..k1-1 /\ l \in 1..Len(q) - 1 /\ k \in 1..Len(q) - 1
    BY <1>0, <1>1
  <2>2. r[k] = q[k1] /\ r[l] = q[l1]
    BY <1>1, <2>1
  <2> QED BY <2>1, <2>2 DEF Ordered
<1> QED BY <1>1, <1>3, <1>4 DEF Ordered, r

\* Positions do not change.
PosKept == \A i \in 1..nprof : profile'[i].pos = profile[i].pos

LEMMA PoolKept ==
    ASSUME MgrInv, PoolInv, PosKept, UNCHANGED <<lv_profiles, nprof>>
    PROVE  PoolInv'
<1>1. \A lv \in Levels : Ordered(lv_profiles[lv])'
  <2> SUFFICES ASSUME NEW lv \in Levels PROVE Ordered(lv_profiles[lv])'
    OBVIOUS
  <2>1. lv_profiles[lv] \in Seq(1..nprof) /\ Ordered(lv_profiles[lv])
    BY PoolsOrdered
  <2>2. \A k \in 1..Len(lv_profiles[lv]) : lv_profiles[lv][k] \in 1..nprof
    BY <2>1, ElementOfSeq
  <2> QED BY <2>1, <2>2 DEF Ordered, PosKept
<1> QED BY <1>1, PoolsOrdered, PoolsOrderedNext

LEMMA DelProfilePool ==
    ASSUME MgrInv, PoolInv, NEW p \in Pids, DelProfile(p), PosKept, UNCHANGED nprof
    PROVE  PoolInv' /\ pid_profile' = [pid_profile EXCEPT ![p] = None]
<1>1. CASE pid_profile[p] = None
  <2>1. UNCHANGED <<pid_profile, lv_profiles>>
    BY <1>1 DEF DelProfile
  <2> QED BY <1>1, <2>1, PoolKept DEF MgrInv
<1>2. CASE pid_profile[p] # None
  <2> DEFINE i   == pid_profile[p]
             lv0 == profile[i].lv
             pos == profile[i].pos
             q   == lv_profiles[lv0]
  <2>1. /\ pid_profile' = [pid_profile EXCEPT ![p] = None]
        /\ RemoveAtPos(i)
    BY <1>2 DEF DelProfile
  <2>2. i \in 1..nprof
    BY <1>2 DEF MgrInv
  <2>3. lv0 \in Levels
    BY <2>2, ProfileFields
  <2>4. q \in Seq(1..nprof) /\ Ordered(q)
    BY <2>3, PoolsOrdered
  <2>5. CASE pos \in 1..Len(q)
    <3>1. lv_profiles' = [lv_profiles EXCEPT ![lv0] = RemoveAt(q, pos)]
      BY <2>1, <2>5 DEF RemoveAtPos
    <3>2. RemoveAt(q, pos) \in Seq(1..nprof) /\ Ordered(RemoveAt(q, pos))
      BY <2>4, <2>5, OrderedRemove
    <3>3. \A lv \in Levels : lv_profiles'[lv] \in Seq(1..nprof) /\ Ordered(lv_profiles'[lv])
      BY <3>1, <3>2, PoolsOrdered
    <3>4. lv_profiles' \in [Levels -> Seq(1..nprof)]
      BY <3>1, <3>2, PoolsOrdered
    <3>5. \A lv \in Levels : Ordered(lv_profiles[lv])'
      <4> SUFFICES ASSUME NEW lv \in Levels PROVE Ordered(lv_profiles[lv])'
        OBVIOUS
      <4>1. \A k \in 1..Len(lv_profiles'[lv]) : lv_profiles'[lv][k] \in 1..nprof
        BY <3>3, ElementOfSeq
      <4> QED BY <3>3, <4>1 DEF Ordered, PosKept
    <3> QED BY <2>1, <3>4, <3>5, PoolsOrderedNext
  <2>6. CASE pos \notin 1..Len(q)
    <3>1. UNCHANGED lv_profiles
      BY <2>1, <2>6 DEF RemoveAtPos
    <3> QED BY <2>1, <3>1, PoolKept
  <2> QED BY <2>5, <2>6
<1> QED BY <1>1, <1>2

----------------------------------------------------------------------------
(***************************************************************************)
(* The actions of warsrvmgr                                                *)
(***************************************************************************)
\* What the state of the profiles has to do with the rest.
ForwardStep == \A i \in Profiles : Rank(profile'[i].state) >= Rank(profile[i].state)

LEMMA Ranks ==
    /\ Rank("none") = 1 /\ Rank("ready") = 2 /\ Rank("match") = 3
    /\ Rank("startwar") = 4 /\ Rank("endwar") = 5
<1>1. /\ States[1] = "none" /\ States[2] = "ready" /\ States[3] = "match"
      /\ States[4] = "startwar" /\ States[5] = "endwar"
  BY DEF States
<1>2. \A k \in 1..5 : k = 1 \/ k = 2 \/ k = 3 \/ k = 4 \/ k = 5
  OBVIOUS
<1>3. ASSUME NEW n \in 1..5, NEW x, \A k \in 1..5 : States[k] = x <=> k = n PROVE Rank(x) = n
  BY <1>3 DEF Rank
<1> HIDE DEF States
<1>4. \A k \in 1..5 : /\ States[k] = "none" <=> k = 1
                      /\ States[k] = "ready" <=> k = 2
                      /\ States[k] = "match" <=> k = 3
                      /\ States[k] = "startwar" <=> k = 4
                      /\ States[k] = "endwar" <=> k = 5
  BY <1>1, <1>2
<1>5. 1 \in 1..5 /\ 2 \in 1..5 /\ 3 \in 1..5 /\ 4 \in 1..5 /\ 5 \in 1..5
  OBVIOUS
<1> QED BY <1>3, <1>4, <1>5

LEMMA StateOf ==
    ASSUME MgrInv, NEW i \in Profiles
    PROVE  profile[i].state \in {"none", "ready", "match", "startwar", "endwar"}
<1>1. profile[i].state \in {States[k] : k \in 1..5}
  BY DEF MgrInv, ProfileType
<1> QED BY <1>1, StateNames

\* A step that leaves the wars alone.
LEMMA WarsKept ==
    ASSUME UNCHANGED wars, nprof \in Nat, nprof' \in Nat, nprof <= nprof'
    PROVE  Grows /\ Good \subseteq Good'
<1>1. Grows
  BY DEF Grows, WarsGrow
<1> QED BY <1>1, GoodGrows

LEMMA SameWars ==
    ASSUME MgrInv, UNCHANGED <<wars, nprof>> PROVE Grows /\ Good \subseteq Good'
<1>1. nprof \in Nat /\ nprof' = nprof
  BY Bounds DEF MgrInv
<1> QED BY <1>1, WarsKept

LEMMA WarKept == ASSUME WarInv, UNCHANGED war PROVE WarInv'
BY DEF WarInv, OpenWars, war

LEMMA FightKept == ASSUME FightInv, WarsGrow, UNCHANGED game PROVE FightInv'
<1>1. fight' \in [Pids -> [srv : Servers, warid : Warids] \cup {None}] /\ loaded' \subseteq Pids
  BY DEF FightInv, game
<1>2. ASSUME NEW p \in Pids, fight'[p] # None
      PROVE  (/\ fight[p].warid \in 1..Len(wars[fight[p].srv])
              /\ p \in Members(fight[p].srv, fight[p].warid))'
  <2> DEFINE s == fight[p].srv
             w == fight[p].warid
  <2>1. fight' = fight /\ s \in Servers
    BY <1>2 DEF FightInv, game
  <2>2. w \in 1..Len(wars[s]) /\ p \in {wars[s][w].attacker, wars[s][w].defenser}
    BY <1>2, <2>1 DEF FightInv, FightIsMember, Members
  <2>3. w \in 1..Len(wars'[s]) /\ p \in {wars'[s][w].attacker, wars'[s][w].defenser}
    BY <2>1, <2>2 DEF WarsGrow
  <2> QED BY <2>1, <2>3 DEF Members
<1> QED BY <1>1, <1>2 DEF FightInv, FightIsMember

LEMMA SearchInv ==
    ASSUME IInv, NEW p \in Pids, NEW lv \in Levels, Search(p, lv) PROVE IInv' /\ ForwardStep
<1> DEFINE j == nprof + 1
           new == [pid |-> p, lv |-> lv, state |-> "ready", enemy_pid |-> None, pos |-> NewPos(lv)]
           q == lv_profiles[lv]
<1> USE DEF IInv
<1>1. /\ nprof \in Nat /\ nprof' = j /\ j \in Profiles /\ MaxProf \in Nat /\ j <= MaxProf
      /\ j \in Nat
      /\ profile' = [profile EXCEPT ![j] = new]
      /\ pid_profile' = [pid_profile EXCEPT ![p] = j]
      /\ lv_profiles' = [lv_profiles EXCEPT ![lv] = Append(@, j)]
      /\ UNCHANGED <<known, war, game, stack, lost>>
  BY Bounds DEF Search, MgrInv, Profiles
<1>2. q \in Seq(1..nprof) /\ Ordered(q) /\ Len(q) \in Nat
  BY PoolsOrdered, LenProperties
<1>3. new \in ProfileType
  <2>1. "ready" \in {States[k] : k \in 1..5}
    BY StateNames
  <2>2. NewPos(lv) \in Nat
    BY <1>2 DEF NewPos
  <2> QED BY <2>1, <2>2 DEF ProfileType
<1>4. /\ new.pid = p /\ new.lv = lv /\ new.state = "ready" /\ new.pos = Len(q) + 1
  BY DEF NewPos
<1> HIDE DEF new
<1>5. profile' \in [Profiles -> ProfileType]
      /\ \A i \in Profiles : profile'[i] = IF i = j THEN new ELSE profile[i]
  BY <1>1, <1>3 DEF MgrInv
<1>6. MgrInv'
  <2>1. pid_profile' \in [Pids -> 1..nprof' \cup {None}]
    BY <1>1 DEF MgrInv
  <2>2. \A x \in Pids : pid_profile[x] # j
    BY <1>1, NamesAssumption DEF MgrInv
  <2>3. ASSUME NEW x \in Pids, pid_profile'[x] # None
        PROVE  /\ profile'[pid_profile'[x]].pid = x
               /\ profile'[pid_profile'[x]].state # "endwar"
    <3>1. CASE x = p
      BY <1>1, <1>4, <1>5, <3>1 DEF MgrInv
    <3>2. CASE x # p
      <4>1. pid_profile'[x] = pid_profile[x] /\ pid_profile[x] \in Profiles
        BY <1>1, <2>3, <3>2 DEF MgrInv, Profiles
      <4> QED BY <1>5, <2>2, <2>3, <4>1 DEF MgrInv
    <3> QED BY <3>1, <3>2
  <2>4. ASSUME NEW i \in Profiles
        PROVE  /\ i <= nprof' => /\ profile'[i].pid \in Pids
                                 /\ profile'[i].lv \in Levels
                                 /\ profile'[i].state # "none"
               /\ i > nprof' => profile'[i].state = "none"
    BY <1>1, <1>4, <1>5 DEF MgrInv, Profiles
  <2> QED BY <1>1, <1>5, <2>1, <2>3, <2>4 DEF MgrInv
<1>7. PoolInv'
  <2>1. \A x \in Levels : lv_profiles[x] \in Seq(1..nprof') /\ Ordered(lv_profiles[x])
    BY <1>1, PoolsOrdered, SeqMonotonic
  <2>2. Append(q, j) \in Seq(1..nprof')
    BY <1>1, <2>1, AppendProperties
  <2>3. lv_profiles' \in [Levels -> Seq(1..nprof')]
    BY <1>1, <2>1, <2>2, PoolsOrdered
  <2>4. ASSUME NEW x \in Levels PROVE Ordered(lv_profiles[x])'
    <3>1. CASE x = lv
      <4>1. lv_profiles'[x] = Append(q, j)
        BY <1>1, <3>1, PoolsOrdered
      <4>2. \A k \in 1..Len(q) : q[k] \in 1..nprof /\ profile'[q[k]] = profile[q[k]]
        BY <1>1, <1>2, <1>5, ElementOfSeq DEF Profiles
      <4>3. /\ Len(Append(q, j)) = Len(q) + 1
            /\ \A k \in 1..Len(q) : Append(q, j)[k] = q[k]
            /\ Append(q, j)[Len(q) + 1] = j
        BY <1>1, <1>2, <2>1, AppendProperties
      <4>4. ASSUME NEW k \in 1..Len(q) + 1
            PROVE  /\ profile'[Append(q, j)[k]].pos >= k
                   /\ \A l \in 1..k-1 : Append(q, j)[l] < Append(q, j)[k]
        <5>1. CASE k \in 1..Len(q)
          <6>1. \A l \in 1..k-1 : l \in 1..Len(q)
            BY <1>2, <5>1
          <6> QED BY <1>2, <4>2, <4>3, <5>1, <6>1 DEF Ordered
        <5>2. CASE k = Len(q) + 1
          <6>1. \A l \in 1..k-1 : l \in 1..Len(q)
            BY <1>2, <5>2
          <6>2. profile'[j].pos = k
            BY <1>1, <1>4, <1>5, <5>2
          <6> QED BY <1>1, <1>2, <4>2, <4>3, <5>2, <6>1, <6>2
        <5> QED BY <1>2, <5>1, <5>2
      <4> QED BY <4>1, <4>3, <4>4 DEF Ordered
    <3>2. CASE x # lv
      <4>1. lv_profiles'[x] = lv_profiles[x]
        BY <1>1, <3>2, PoolsOrdered
      <4>2. \A k \in 1..Len(lv_profiles[x]) :
               lv_profiles[x][k] \in 1..nprof /\ profile'[lv_profiles[x][k]] = profile[lv_profiles[x][k]]
        BY <1>1, <1>5, PoolsOrdered, ElementOfSeq DEF Profiles
      <4> QED BY <2>1, <4>1, <4>2 DEF Ordered
    <3> QED BY <3>1, <3>2
  <2> QED BY <2>3, <2>4, PoolsOrderedNext
<1>8. Grows /\ Good \subseteq Good'
  BY <1>1, WarsKept DEF war
<1>9. Taken \subseteq Taken'
  BY <1>1, <1>5 DEF Taken, Profiles
<1>10. ChainInv' /\ AllocInv'
  BY <1>1, <1>8, <1>9, ChainsKept
<1>11. WarInv' /\ FightInv' /\ RestInv'
  BY <1>1, <1>8, WarKept, FightKept DEF Grows, RestInv
<1>12. ForwardStep
  <2>1. profile[j].state = "none"
    BY <1>1 DEF MgrInv
  <2>2. \A i \in Profiles : Rank(profile[i].state) \in Nat
    BY StateOf, Ranks
  <2> QED BY <1>4, <1>5, <2>1, <2>2, Ranks DEF ForwardStep
<1> QED BY <1>6, <1>7, <1>10, <1>11, <1>12

LEMMA NprofNat == ASSUME MgrInv PROVE nprof \in Nat
BY Bounds DEF MgrInv

LEMMA ForwardKept == ASSUME MgrInv, UNCHANGED profile PROVE ForwardStep
<1>1. \A i \in Profiles : Rank(profile[i].state) \in Nat
  BY StateOf, Ranks
<1> QED BY <1>1 DEF ForwardStep

LEMMA MgrKept == ASSUME MgrInv, PoolInv, UNCHANGED mgr PROVE MgrInv' /\ PoolInv' /\ ForwardStep
<1>1. PosKept
  BY DEF PosKept, mgr
<1> QED BY <1>1, PoolKept, ForwardKept DEF MgrInv, mgr

LEMMA UnsearchInv ==
    ASSUME IInv, NEW p \in Pids, Unsearch(p) PROVE IInv' /\ ForwardStep
<1> USE DEF IInv
<1>1. DelProfile(p) /\ UNCHANGED <<profile, nprof, known, war, game, stack, lost>>
  BY DEF Unsearch
<1>2. PoolInv' /\ pid_profile' = [pid_profile EXCEPT ![p] = None]
  BY <1>1, DelProfilePool DEF PosKept
<1>3. MgrInv'
  BY <1>1, <1>2 DEF MgrInv
<1>4. Grows /\ Good \subseteq Good'
  BY <1>1, WarsKept, NprofNat DEF war
<1>5. ChainInv' /\ AllocInv'
  BY <1>1, <1>4, ChainsKept DEF Taken
<1>6. WarInv' /\ FightInv' /\ RestInv'
  BY <1>1, <1>4, WarKept, FightKept DEF Grows, RestInv
<1> QED BY <1>1, <1>2, <1>3, <1>5, <1>6, ForwardKept

\* Steps that leave profiles, wars and chains alone.
LEMMA BesideInv ==
    ASSUME IInv, UNCHANGED <<mgr, war, fight, stack, lost>>,
           known' \subseteq Servers, loaded' \subseteq Pids
    PROVE  IInv' /\ ForwardStep
<1> USE DEF IInv
<1>1. MgrInv' /\ PoolInv' /\ ForwardStep
  BY MgrKept
<1>2. Grows /\ Good \subseteq Good'
  BY WarsKept, NprofNat DEF war, mgr
<1>3. ChainInv' /\ AllocInv'
  BY <1>2, ChainsKept DEF Taken, mgr
<1>4. FightInv'
  BY DEF FightInv, FightIsMember, Members, war
<1>5. WarInv' /\ RestInv'
  BY WarKept DEF RestInv
<1> QED BY <1>1, <1>3, <1>4, <1>5

\* Steps of a chain that leave profiles and wars alone.
LEMMA QuietInv ==
    ASSUME IInv, NEW t \in Chains, ChainMoves(t),
           UNCHANGED <<mgr, known, war, game>>, lost' \in 0..MaxLost
    PROVE  IInv' /\ ForwardStep
<1> USE DEF IInv
<1>1. MgrInv' /\ PoolInv' /\ ForwardStep
  BY MgrKept
<1>2. Grows /\ Good \subseteq Good'
  BY WarsKept, NprofNat DEF war, mgr
<1>3. ChainInv' /\ AllocInv'
  BY <1>2, ChainMovesInv DEF Taken, mgr
<1>4. FightInv' /\ WarInv' /\ RestInv'
  BY <1>2, FightKept, WarKept DEF Grows, RestInv
<1> QED BY <1>1, <1>3, <1>4

----------------------------------------------------------------------------
\* A match, and the chain that makes a war of it.
LEMMA MatchFields ==
    ASSUME MgrInv, NEW i \in 1..nprof, NEW j \in 1..nprof, i # j, Match(i, j)
    PROVE  /\ profile' \in [Profiles -> ProfileType]
           /\ \A k \in Profiles :
                 /\ profile'[k].pid = profile[k].pid
                 /\ profile'[k].lv = profile[k].lv
                 /\ profile'[k].pos = profile[k].pos
                 /\ profile'[k].state = IF k \in {i, j} THEN "match" ELSE profile[k].state
<1>1. i \in Profiles /\ j \in Profiles /\ profile[i].pid \in Pids /\ profile[j].pid \in Pids
  BY ProfileFields
<1>2. "match" \in {States[k] : k \in 1..5}
  BY StateNames
<1> DEFINE S == {States[k] : k \in 1..5}
           ni == [profile[i] EXCEPT !.state = "match", !.enemy_pid = profile[j].pid]
           nj == [profile[j] EXCEPT !.state = "match", !.enemy_pid = profile[i].pid]
<1> HIDE DEF S
<1>3. profile \in [Profiles -> [pid : Pids \cup {None}, lv : Levels \cup {None}, state : S,
                                enemy_pid : Pids \cup {None}, pos : Nat]]
  BY DEF MgrInv, ProfileType, S
<1>4. /\ ni \in [pid : Pids \cup {None}, lv : Levels \cup {None}, state : S,
                 enemy_pid : Pids \cup {None}, pos : Nat]
      /\ ni.pid = profile[i].pid /\ ni.lv = profile[i].lv /\ ni.pos = profile[i].pos
      /\ ni.state = "match"
  BY <1>1, <1>2, <1>3 DEF S
<1>5. /\ nj \in [pid : Pids \cup {None}, lv : Levels \cup {None}, state : S,
                 enemy_pid : Pids \cup {None}, pos : Nat]
      /\ nj.pid = profile[j].pid /\ nj.lv = profile[j].lv /\ nj.pos = profile[j].pos
      /\ nj.state = "match"
  BY <1>1, <1>2, <1>3 DEF S
<1>6. profile' = [profile EXCEPT ![i] = ni, ![j] = nj]
  BY <1>1, <1>3 DEF Match
<1> HIDE DEF ni, nj
<1>7. \A k \in Profiles : profile'[k] = IF k = j THEN nj ELSE IF k = i THEN ni ELSE profile[k]
  BY <1>1, <1>3, <1>6
<1>8. profile' \in [Profiles -> ProfileType]
  BY <1>3, <1>4, <1>5, <1>6 DEF ProfileType, S
<1>9. \A k \in Profiles :
         /\ profile'[k].pid = profile[k].pid
         /\ profile'[k].lv = profile[k].lv
         /\ profile'[k].pos = profile[k].pos
         /\ profile'[k].state = IF k \in {i, j} THEN "match" ELSE profile[k].state
  BY <1>4, <1>5, <1>7
<1> QED BY <1>8, <1>9

LEMMA MatchMgr ==
    ASSUME MgrInv, PoolInv, NEW i \in 1..nprof, NEW j \in 1..nprof, i # j, Match(i, j),
           profile[i].state = "ready", profile[j].state = "ready",
           UNCHANGED <<lv_profiles, pid_profile, nprof>>
    PROVE  MgrInv' /\ PoolInv' /\ ForwardStep /\ Taken' = Taken \cup {i, j}
<1>1. /\ profile' \in [Profiles -> ProfileType]
      /\ \A k \in Profiles :
            /\ profile'[k].pid = profile[k].pid
            /\ profile'[k].lv = profile[k].lv
            /\ profile'[k].pos = profile[k].pos
            /\ profile'[k].state = IF k \in {i, j} THEN "match" ELSE profile[k].state
  BY MatchFields
<1>2. \A k \in 1..nprof : k \in Profiles
  BY ProfileFields
<1>3. PosKept
  BY <1>1, <1>2 DEF PosKept
<1>4. PoolInv'
  BY <1>3, PoolKept
<1>5. \A k \in Profiles : Rank(profile[k].state) \in Nat
  BY StateOf, Ranks
<1>6. ForwardStep
  BY <1>1, <1>5, Ranks DEF ForwardStep
<1>7. Taken' = Taken \cup {i, j}
  BY <1>1, <1>2 DEF Taken
<1>8. i <= nprof /\ j <= nprof
  BY NprofNat
<1>9. MgrInv'
  <2>1. ASSUME NEW k \in Profiles
        PROVE  /\ k <= nprof' => /\ profile'[k].pid \in Pids
                                 /\ profile'[k].lv \in Levels
                                 /\ profile'[k].state # "none"
               /\ k > nprof' => profile'[k].state = "none"
    <3>1. k \in {i, j} => k <= nprof /\ ~(k > nprof)
      BY <1>8, NprofNat
    <3> QED BY <1>1, <3>1 DEF MgrInv
  <2>2. \A p \in Pids : pid_profile[p] # None => pid_profile[p] \in Profiles
    BY <1>2 DEF MgrInv
  <2>3. \A p \in Pids : pid_profile'[p] # None =>
           /\ profile'[pid_profile'[p]].pid = p
           /\ profile'[pid_profile'[p]].state # "endwar"
    BY <1>1, <2>2 DEF MgrInv
  <2> QED BY <1>1, <2>1, <2>3 DEF MgrInv
<1> QED BY <1>4, <1>6, <1>7, <1>9

LEMMA BeginChain ==
    ASSUME ChainInv, NEW calls, Begin(calls)
    PROVE  \E t \in Chains : stack[t] = <<>> /\ stack' = [stack EXCEPT ![t] = calls]
BY DEF Begin, Free

LEMMA HeldOne ==
    ASSUME NEW i \in Profiles, NEW j \in Profiles, NEW srvs
    PROVE  /\ AtBottom(<< Create(i, j, srvs) >>)
           /\ Held(<< Create(i, j, srvs) >>) = {i, j}
<1> DEFINE c == Create(i, j, srvs)
           q == << c >>
<1>1. c.pc = "createwar" /\ c.attacker = i /\ c.defenser = j
  BY CreateTyped
<1> HIDE DEF c
<1>2. Len(q) = 1 /\ q[1] = c /\ \A k \in 1..Len(q) : k = 1
  OBVIOUS
<1> HIDE DEF q
<1>3. AtBottom(q) /\ Held(q) = {i, j}
  BY <1>1, <1>2 DEF AtBottom, Held
<1> QED BY <1>3 DEF q, c

LEMMA AllocerInv == ASSUME IInv, NEW lv \in Levels, Allocer(lv) PROVE IInv' /\ ForwardStep
<1> USE DEF IInv
<1> DEFINE pool == lv_profiles[lv]
<1>1. PICK m \in 1..Len(pool), n \in 1..Len(pool) :
         /\ m < n /\ profile[pool[m]].state = "ready" /\ profile[pool[n]].state = "ready"
         /\ Match(pool[m], pool[n])
         /\ \/ /\ known # {}
               /\ \E i, j \in {pool[m], pool[n]} : i # j /\ Begin(<< Create(i, j, known) >>)
            \/ known = {} /\ UNCHANGED stack
         /\ UNCHANGED <<lv_profiles, pid_profile, nprof, known, war, game, lost>>
  BY DEF Allocer
<1> DEFINE x == pool[m]
           y == pool[n]
<1>2. pool \in Seq(1..nprof) /\ Ordered(pool) /\ Len(pool) \in Nat
  BY PoolsOrdered, LenProperties
<1>3. x \in 1..nprof /\ y \in 1..nprof
  BY <1>2, ElementOfSeq
<1>4. x # y
  <2>1. m \in 1..n-1
    BY <1>1, <1>2
  <2>2. x < y
    BY <1>2, <2>1 DEF Ordered
  <2> QED BY <1>3, <2>2, NprofNat
<1>5. Match(x, y) /\ profile[x].state = "ready" /\ profile[y].state = "ready"
  BY <1>1
<1> HIDE DEF x, y
<1>6. MgrInv' /\ PoolInv' /\ ForwardStep /\ Taken' = Taken \cup {x, y}
  BY <1>1, <1>3, <1>4, <1>5, MatchMgr
<1>7. Grows /\ Good \subseteq Good'
  BY <1>1, WarsKept, NprofNat DEF war
<1>8. WarInv' /\ FightInv' /\ RestInv'
  BY <1>1, <1>7, WarKept, FightKept DEF Grows, RestInv
<1>9. CASE UNCHANGED stack
  <2>1. ChainInv' /\ AllocInv'
    BY <1>6, <1>7, <1>9, ChainsKept
  <2> QED BY <1>6, <1>8, <2>1
<1>10. ASSUME NEW i \in {x, y}, NEW j \in {x, y}, i # j, Begin(<< Create(i, j, known) >>)
       PROVE  IInv'
  <2> DEFINE c == Create(i, j, known)
  <2>1. PICK t \in Chains : stack[t] = <<>> /\ stack' = [stack EXCEPT ![t] = << c >>]
    BY <1>10, BeginChain
  <2>2. i \in Profiles /\ j \in Profiles /\ i \in 1..nprof /\ j \in 1..nprof
    BY <1>3, ProfileFields
  <2>3. AtBottom(<< c >>) /\ Held(<< c >>) = {i, j}
    BY <2>2, HeldOne
  <2>4. c \in Good
    BY <2>2, CreateTyped DEF Good, GoodCreate, RestInv
  <2>5. << c >> \in Seq(Good')
    BY <1>7, <2>4
  <2>6. \A u \in Chains : stack'[u] = IF u = t THEN << c >> ELSE stack[u]
    BY <2>1 DEF ChainInv
  <2>7. \A u \in Chains : stack[u] \in Seq(Good')
    BY <1>7, SeqMonotonic DEF ChainInv
  <2>8. ChainInv'
    <3>1. stack' \in [Chains -> Seq(Good')]
      BY <2>1, <2>5, <2>7 DEF ChainInv
    <3>2. \A u \in Chains : AtBottom(stack'[u])
      BY <2>3, <2>6 DEF ChainInv
    <3> QED BY <3>1, <3>2 DEF ChainInv
  <2>9. {i, j} \cap Taken = {} /\ {i, j} \subseteq Taken'
    BY <1>5, <1>6 DEF Taken
  <2>10. \A u \in Chains : Held(stack'[u]) = IF u = t THEN {i, j} ELSE Held(stack[u])
    BY <2>3, <2>6
  <2>11. \A u \in Chains : Held(stack'[u]) \subseteq Taken'
    BY <1>6, <2>9, <2>10 DEF AllocInv
  <2>12. \A u, v \in Chains : u # v => Held(stack'[u]) \cap Held(stack'[v]) = {}
    BY <2>9, <2>10 DEF AllocInv
  <2>13. AllocInv'
    BY <2>11, <2>12 DEF AllocInv
  <2> QED BY <1>6, <1>8, <2>8, <2>13
<1>11. \/ UNCHANGED stack
       \/ \E i, j \in {x, y} : i # j /\ Begin(<< Create(i, j, known) >>)
  BY <1>1 DEF x, y
<1> QED BY <1>6, <1>9, <1>10, <1>11

----------------------------------------------------------------------------
(***************************************************************************)
(* The reports of a war's start and end                                    *)
(***************************************************************************)
\* One profile gets a later state.
SetState(i, x) == profile' = [profile EXCEPT ![i].state = x]

LEMMA SetStateFields ==
    ASSUME MgrInv, NEW i \in 1..nprof, NEW x \in {"startwar", "endwar"}, SetState(i, x)
    PROVE  /\ profile' \in [Profiles -> ProfileType]
           /\ \A k \in Profiles :
                 /\ profile'[k].pid = profile[k].pid
                 /\ profile'[k].lv = profile[k].lv
                 /\ profile'[k].pos = profile[k].pos
                 /\ profile'[k].state = IF k = i THEN x ELSE profile[k].state
<1> DEFINE S == {States[k] : k \in 1..5}
           ni == [profile[i] EXCEPT !.state = x]
<1>1. i \in Profiles /\ x \in S
  BY ProfileFields, StateNames
<1> HIDE DEF S
<1>2. profile \in [Profiles -> [pid : Pids \cup {None}, lv : Levels \cup {None}, state : S,
                                enemy_pid : Pids \cup {None}, pos : Nat]]
  BY DEF MgrInv, ProfileType, S
<1>3. /\ ni \in [pid : Pids \cup {None}, lv : Levels \cup {None}, state : S,
                 enemy_pid : Pids \cup {None}, pos : Nat]
      /\ ni.pid = profile[i].pid /\ ni.lv = profile[i].lv /\ ni.pos = profile[i].pos
      /\ ni.state = x
  BY <1>1, <1>2
<1>4. profile' = [profile EXCEPT ![i] = ni]
  BY DEF SetState
<1> HIDE DEF ni
<1>5. \A k \in Profiles : profile'[k] = IF k = i THEN ni ELSE profile[k]
  BY <1>1, <1>2, <1>4
<1>6. profile' \in [Profiles -> ProfileType]
  BY <1>2, <1>3, <1>4 DEF ProfileType, S
<1> QED BY <1>3, <1>5, <1>6

\* The profile that is told of an end has left the pids; a later one of the same player
\* is another profile.
LEMMA SetStateMgr ==
    ASSUME MgrInv, NEW i \in 1..nprof, NEW x \in {"startwar", "endwar"}, SetState(i, x),
           UNCHANGED nprof,
           pid_profile' \in [Pids -> 1..nprof \cup {None}],
           \A p \in Pids : pid_profile'[p] \in {pid_profile[p], None},
           x = "endwar" => \A p \in Pids : pid_profile'[p] # i,
           x = "startwar" => profile[i].state # "endwar"
    PROVE  MgrInv' /\ PosKept /\ ForwardStep /\ Taken \subseteq Taken'
<1>1. /\ profile' \in [Profiles -> ProfileType]
      /\ \A k \in Profiles :
            /\ profile'[k].pid = profile[k].pid
            /\ profile'[k].lv = profile[k].lv
            /\ profile'[k].pos = profile[k].pos
            /\ profile'[k].state = IF k = i THEN x ELSE profile[k].state
  BY SetStateFields
<1>2. \A k \in 1..nprof : k \in Profiles
  BY ProfileFields
<1>3. PosKept
  BY <1>1, <1>2 DEF PosKept
<1>4. ForwardStep
  <2> SUFFICES ASSUME NEW k \in Profiles PROVE Rank(profile'[k].state) >= Rank(profile[k].state)
    BY DEF ForwardStep
  <2>1. profile[k].state \in {"none", "ready", "match", "startwar", "endwar"}
    BY StateOf
  <2>2. Rank(profile[k].state) \in 1..5
    BY <2>1, Ranks
  <2>3. CASE k # i
    BY <1>1, <2>2, <2>3
  <2>4. CASE k = i /\ x = "endwar"
    BY <1>1, <2>2, <2>4, Ranks
  <2>5. CASE k = i /\ x = "startwar"
    BY <1>1, <2>1, <2>5, Ranks
  <2> QED BY <2>3, <2>4, <2>5
<1>5. Taken \subseteq Taken'
  BY <1>1, <1>2 DEF Taken
<1>6. i <= nprof /\ ~(i > nprof) /\ i \in Profiles
  BY NprofNat, ProfileFields
<1>7. \A k \in Profiles :
         /\ k <= nprof' => /\ profile'[k].pid \in Pids
                           /\ profile'[k].lv \in Levels
                           /\ profile'[k].state # "none"
         /\ k > nprof' => profile'[k].state = "none"
  BY <1>1, <1>6 DEF MgrInv
<1>8. ASSUME NEW p \in Pids, pid_profile'[p] # None
      PROVE  /\ profile'[pid_profile'[p]].pid = p
             /\ profile'[pid_profile'[p]].state # "endwar"
  <2>1. pid_profile'[p] = pid_profile[p] /\ pid_profile[p] # None /\ pid_profile[p] \in Profiles
    BY <1>2, <1>8 DEF MgrInv
  <2>2. profile[pid_profile[p]].pid = p /\ profile[pid_profile[p]].state # "endwar"
    BY <2>1 DEF MgrInv
  <2>3. pid_profile[p] = i => x # "endwar"
    BY <2>1
  <2> QED BY <1>1, <2>1, <2>2, <2>3
<1>9. MgrInv'
  BY <1>1, <1>7, <1>8 DEF MgrInv
<1> QED BY <1>3, <1>4, <1>5, <1>9

\* The same report, passed on.
LEMMA PassedOn ==
    ASSUME NEW c \in Good, GoodCall(c),
           NEW x \in {"startwar player", "load player", "endwar player"},
           c.pid \in Pids, x # "endwar player" => c.pc \in {"startwar", "startwar player"}
    PROVE  [c EXCEPT !.pc = x] \in Good /\ [c EXCEPT !.pc = x].pc # "createwar"
<1> DEFINE d == [c EXCEPT !.pc = x]
<1>1. c \in CallType
  BY DEF GoodCall
<1>2. d \in CallType /\ d.pc = x /\ d.pid = c.pid /\ d.srv = c.srv /\ d.warid = c.warid
  BY <1>1 DEF CallType
<1> HIDE DEF d
<1>3. GoodCall(d)
  BY <1>2 DEF GoodCall
<1>4. d \in Good /\ d.pc # "createwar"
  BY <1>2, <1>3 DEF Good
<1> QED BY <1>4 DEF d

LEMMA StartWarInv == ASSUME IInv, NEW t \in Chains, StartWar(t) PROVE IInv' /\ ForwardStep
<1> USE DEF IInv
<1> DEFINE c == stack[t][1]
           i == pid_profile[c.pid]
<1>1. /\ Runs(t, "startwar")
      /\ UNCHANGED <<lv_profiles, pid_profile, nprof, known, war, game, lost>>
  BY DEF StartWar
<1>2. c \in Good /\ c.pc = "startwar"
  BY <1>1, Top
<1>3. GoodCall(c) /\ c.pid \in Pids
  BY <1>2, GoodByPc DEF GoodCall
<1>4. Grows /\ Good \subseteq Good'
  BY <1>1, WarsKept, NprofNat DEF war
<1>5. WarInv' /\ FightInv' /\ RestInv'
  BY <1>1, <1>4, WarKept, FightKept DEF Grows, RestInv
<1>6. CASE i = None
  <2>1. Raise(t) /\ UNCHANGED profile
    BY <1>6 DEF StartWar
  <2>2. ChainMoves(t)
    BY <1>1, <1>4, <2>1, RaiseMoves
  <2>3. UNCHANGED <<mgr, known, war, game>>
    BY <1>1, <2>1 DEF mgr
  <2>4. lost' \in 0..MaxLost
    BY <1>1 DEF RestInv
  <2> QED BY <2>2, <2>3, <2>4, QuietInv
<1>7. CASE i # None
  <2>1. /\ SetState(i, "startwar")
        /\ Go(t, <<>>) \/ Raise(t) \/ Go(t, << [c EXCEPT !.pc = "startwar player"] >>)
    BY <1>7 DEF StartWar, SetState
  <2>2. i \in 1..nprof /\ profile[i].state # "endwar"
    BY <1>3, <1>7 DEF MgrInv
  <2>3. /\ pid_profile' \in [Pids -> 1..nprof \cup {None}]
        /\ \A p \in Pids : pid_profile'[p] \in {pid_profile[p], None}
    BY <1>1 DEF MgrInv
  <2>4. MgrInv' /\ PosKept /\ ForwardStep /\ Taken \subseteq Taken'
    BY <1>1, <2>1, <2>2, <2>3, SetStateMgr
  <2>5. PoolInv'
    BY <1>1, <2>4, PoolKept
  <2>6. [c EXCEPT !.pc = "startwar player"] \in Good'
        /\ [c EXCEPT !.pc = "startwar player"].pc # "createwar"
    BY <1>2, <1>3, <1>4, PassedOn
  <2>7. ChainMoves(t)
    BY <1>1, <1>4, <2>1, <2>6, GoNothing, RaiseMoves, GoOne
  <2>8. ChainInv' /\ AllocInv'
    BY <1>4, <2>4, <2>7, ChainMovesInv
  <2> QED BY <1>5, <2>4, <2>5, <2>8
<1> QED BY <1>6, <1>7

LEMMA EndWarInv == ASSUME IInv, NEW t \in Chains, EndWar(t) PROVE IInv' /\ ForwardStep
<1> USE DEF IInv
<1> DEFINE c == stack[t][1]
           i == pid_profile[c.pid]
<1>1. /\ Runs(t, "endwar")
      /\ DelProfile(c.pid)
      /\ UNCHANGED <<nprof, known, war, game, lost>>
  BY DEF EndWar
<1>2. c \in Good /\ c.pc = "endwar"
  BY <1>1, Top
<1>3. GoodCall(c) /\ c.pid \in Pids
  BY <1>2, GoodByPc DEF GoodCall
<1>4. Grows /\ Good \subseteq Good'
  BY <1>1, WarsKept, NprofNat DEF war
<1>5. WarInv' /\ FightInv' /\ RestInv'
  BY <1>1, <1>4, WarKept, FightKept DEF Grows, RestInv
<1>6. CASE Raise(t) /\ UNCHANGED profile
  <2>1. ChainMoves(t)
    BY <1>1, <1>4, <1>6, RaiseMoves
  <2>2. PoolInv' /\ pid_profile' = [pid_profile EXCEPT ![c.pid] = None]
    BY <1>1, <1>3, <1>6, DelProfilePool DEF PosKept
  <2>3. MgrInv'
    BY <1>1, <1>6, <2>2 DEF MgrInv
  <2>4. ChainInv' /\ AllocInv'
    BY <1>1, <1>4, <1>6, <2>1, ChainMovesInv DEF Taken
  <2> QED BY <1>5, <1>6, <2>2, <2>3, <2>4, ForwardKept
<1>7. CASE /\ i # None
           /\ SetState(i, "endwar")
           /\ Go(t, << [c EXCEPT !.pc = "endwar player"] >>)
  <2>1. i \in 1..nprof /\ profile[i].pid = c.pid
    BY <1>3, <1>7 DEF MgrInv
  <2>2. pid_profile' = [pid_profile EXCEPT ![c.pid] = None]
    BY <1>1, <1>7 DEF DelProfile
  <2>3. \A p \in Pids : pid_profile'[p] = IF p = c.pid THEN None ELSE pid_profile[p]
    BY <1>3, <2>2 DEF MgrInv
  <2>4. ASSUME NEW p \in Pids PROVE pid_profile'[p] # i
    <3>1. pid_profile[p] # None => profile[pid_profile[p]].pid = p
      BY DEF MgrInv
    <3> HIDE DEF i
    <3>2. pid_profile[p] = i => p = c.pid
      BY <1>7, <2>1, <3>1
    <3> QED BY <1>7, <2>3, <3>2
  <2>5. pid_profile' \in [Pids -> 1..nprof \cup {None}]
    BY <2>2 DEF MgrInv
  <2>6. \A p \in Pids : pid_profile'[p] \in {pid_profile[p], None}
    BY <2>3
  <2>7. MgrInv' /\ PosKept /\ ForwardStep /\ Taken \subseteq Taken'
    BY <1>1, <1>7, <2>1, <2>4, <2>5, <2>6, SetStateMgr
  <2>8. PoolInv'
    BY <1>1, <1>3, <2>7, DelProfilePool
  <2>9. [c EXCEPT !.pc = "endwar player"] \in Good'
        /\ [c EXCEPT !.pc = "endwar player"].pc # "createwar"
    BY <1>2, <1>3, <1>4, PassedOn
  <2>10. ChainMoves(t)
    BY <1>1, <1>4, <1>7, <2>9, GoOne
  <2>11. ChainInv' /\ AllocInv'
    BY <1>4, <2>7, <2>10, ChainMovesInv
  <2> QED BY <1>5, <2>7, <2>8, <2>11
<1> QED BY <1>6, <1>7 DEF EndWar, SetState

\* The game server tells the player at once, begins to load the player, or has done so.
LEMMA GameTold ==
    ASSUME IInv, NEW t \in Chains, NEW x \in {"startwar player", "load player"}, Runs(t, x),
           SetFight(stack[t][1]) \/ UNCHANGED fight,
           loaded' \in {loaded, loaded \cup {stack[t][1].pid}},
           \/ Go(t, <<>>) \/ Raise(t)
           \/ x = "startwar player" /\ Go(t, << [stack[t][1] EXCEPT !.pc = "load player"] >>),
           UNCHANGED <<mgr, known, war, lost>>
    PROVE  IInv' /\ ForwardStep
<1> USE DEF IInv
<1> DEFINE c == stack[t][1]
           f == [srv |-> c.srv, warid |-> c.warid]
<1>1. fight' = [fight EXCEPT ![c.pid] = f] \/ UNCHANGED fight
  BY DEF SetFight
<1>2. c \in Good /\ c.pc = x
  BY Top
<1>3. GoodCall(c) /\ c.pid \in Pids /\ c.srv \in Servers /\ c.warid \in Warids
  BY <1>2, GoodByPc, CallFields DEF GoodCall
<1>4. Grows /\ Good \subseteq Good'
  BY SameWars DEF war, mgr
<1>5. ChainMoves(t)
  <2>1. CASE Go(t, <<>>) \/ Raise(t)
    BY <1>4, <2>1, GoNothing, RaiseMoves
  <2>2. CASE x = "startwar player" /\ Go(t, << [c EXCEPT !.pc = "load player"] >>)
    <3>1. [c EXCEPT !.pc = "load player"] \in Good'
          /\ [c EXCEPT !.pc = "load player"].pc # "createwar"
      BY <1>2, <1>3, <1>4, <2>2, PassedOn
    <3> QED BY <1>4, <2>2, <3>1, GoOne
  <2> QED BY <2>1, <2>2
<1>6. MgrInv' /\ PoolInv' /\ ForwardStep
  BY MgrKept
<1>7. ChainInv' /\ AllocInv'
  BY <1>4, <1>5, ChainMovesInv DEF Taken, mgr
<1>8. WarInv' /\ RestInv'
  BY WarKept DEF RestInv
<1>9. FightInv'
  <2>0. loaded' \subseteq Pids
    BY <1>3 DEF FightInv
  <2>1. fight' \in [Pids -> [srv : Servers, warid : Warids] \cup {None}]
    <3>1. f \in [srv : Servers, warid : Warids]
      BY <1>3
    <3> HIDE DEF f
    <3> QED BY <1>1, <3>1 DEF FightInv
  <2>2. UNCHANGED wars
    BY DEF war
  <2>3. c.warid \in 1..Len(wars[c.srv]) /\ c.pid \in Members(c.srv, c.warid)
    BY <1>2, <1>3 DEF GoodCall
  <2>4. f.srv = c.srv /\ f.warid = c.warid
    OBVIOUS
  <2>5. \A p \in Pids : fight'[p] = fight[p] \/ (p = c.pid /\ fight'[p] = f)
    BY <1>1, <1>3 DEF FightInv
  <2> HIDE DEF f, c
  <2>6. FightIsMember'
    BY <2>2, <2>3, <2>4, <2>5 DEF FightInv, FightIsMember, Members
  <2> QED BY <2>0, <2>1, <2>6 DEF FightInv
<1> QED BY <1>6, <1>7, <1>8, <1>9

LEMMA StartWarPlayerInv ==
    ASSUME IInv, NEW t \in Chains, StartWarPlayer(t) PROVE IInv' /\ ForwardStep
<1>1. loaded' = loaded /\ Runs(t, "startwar player") /\ UNCHANGED <<mgr, known, war, lost>>
  BY DEF StartWarPlayer
<1>2. /\ SetFight(stack[t][1]) \/ UNCHANGED fight
      /\ Go(t, <<>>) \/ Go(t, << [stack[t][1] EXCEPT !.pc = "load player"] >>)
  BY DEF StartWarPlayer
<1> QED BY <1>1, <1>2, GameTold

LEMMA LoadPlayerInv ==
    ASSUME IInv, NEW t \in Chains, LoadPlayer(t) PROVE IInv' /\ ForwardStep
<1>1. /\ Runs(t, "load player") /\ UNCHANGED <<mgr, known, war, lost>>
      /\ SetFight(stack[t][1]) \/ UNCHANGED fight
      /\ loaded' \in {loaded, loaded \cup {stack[t][1].pid}}
      /\ Go(t, <<>>) \/ Raise(t)
  BY DEF LoadPlayer, game
<1> QED BY <1>1, GameTold

LEMMA EndWarPlayerInv ==
    ASSUME IInv, NEW t \in Chains, EndWarPlayer(t) PROVE IInv' /\ ForwardStep
<1> USE DEF IInv
<1> DEFINE c == stack[t][1]
<1>1. /\ Runs(t, "endwar player")
      /\ Go(t, <<>>) \/ Raise(t)
      /\ UNCHANGED fight \/ fight' = [fight EXCEPT ![c.pid] = None]
      /\ UNCHANGED <<mgr, known, war, loaded, lost>>
  BY DEF EndWarPlayer
<1>2. Grows /\ Good \subseteq Good'
  BY <1>1, SameWars DEF war, mgr
<1>3. ChainMoves(t)
  BY <1>1, <1>2, GoNothing, RaiseMoves
<1>4. MgrInv' /\ PoolInv' /\ ForwardStep
  BY <1>1, MgrKept
<1>5. ChainInv' /\ AllocInv'
  BY <1>1, <1>2, <1>3, ChainMovesInv DEF Taken, mgr
<1>6. WarInv' /\ RestInv'
  BY <1>1, WarKept DEF RestInv
<1>7. FightInv'
  <2>1. UNCHANGED wars /\ UNCHANGED loaded
    BY <1>1 DEF war
  <2>2. fight' \in [Pids -> [srv : Servers, warid : Warids] \cup {None}]
    BY <1>1 DEF FightInv
  <2>3. \A p \in Pids : fight'[p] \in {fight[p], None}
    BY <1>1 DEF FightInv
  <2>4. FightIsMember'
    BY <2>1, <2>3 DEF FightInv, FightIsMember, Members
  <2> QED BY <2>1, <2>2, <2>4 DEF FightInv
<1> QED BY <1>4, <1>5, <1>6, <1>7

----------------------------------------------------------------------------
(***************************************************************************)
(* The war servers                                                         *)
(***************************************************************************)
LEMMA WarsType ==
    ASSUME WarInv, NEW s \in Servers
    PROVE  /\ wars[s] \in Seq(WarType) /\ Len(wars[s]) \in Nat
           /\ \A w \in 1..Len(wars[s]) : wars[s][w] \in WarType
           /\ IsFiniteSet(OpenWars(s)) /\ num[s] \in Nat
           /\ num[s] = Cardinality(OpenWars(s))
<1>1. wars[s] \in Seq(WarType)
  BY DEF WarInv
<1>2. Len(wars[s]) \in Nat /\ \A w \in 1..Len(wars[s]) : wars[s][w] \in WarType
  BY <1>1, LenProperties, ElementOfSeq
<1>3. IsFiniteSet(1..Len(wars[s]))
  BY <1>2, FS_Interval
<1>4. IsFiniteSet(OpenWars(s))
  BY <1>3, FS_Subset DEF OpenWars
<1> QED BY <1>1, <1>2, <1>4 DEF WarInv

\* Only one war server's wars and number change.
LEMMA OneServer ==
    ASSUME WarInv, NEW s \in Servers, NEW q \in Seq(WarType), NEW n \in Nat,
           Len(q) <= MaxWar,
           wars' = [wars EXCEPT ![s] = q], num' = [num EXCEPT ![s] = n],
           n = Cardinality({w \in 1..Len(q) : q[w].open})
    PROVE  WarInv'
<1>1. \A u \in Servers : wars'[u] = (IF u = s THEN q ELSE wars[u]) /\ num'[u] = IF u = s THEN n ELSE num[u]
  BY DEF WarInv
<1>2. wars' \in [Servers -> Seq(WarType)] /\ num' \in [Servers -> Nat]
  BY DEF WarInv
<1>3. \A u \in Servers : Len(wars'[u]) <= MaxWar
  BY <1>1 DEF WarInv
<1>4. ASSUME NEW u \in Servers PROVE num'[u] = Cardinality(OpenWars(u))'
  <2>1. CASE u = s
    BY <1>1, <2>1 DEF OpenWars
  <2>2. CASE u # s
    BY <1>1, <2>2 DEF WarInv, OpenWars
  <2> QED BY <2>1, <2>2
<1> QED BY <1>2, <1>3, <1>4 DEF WarInv

\* A war whose flags change keeps its players.
LEMMA FlagsChange ==
    ASSUME WarInv, NEW s \in Servers, NEW w \in 1..Len(wars[s]), NEW v \in WarType,
           v.attacker = wars[s][w].attacker, v.defenser = wars[s][w].defenser,
           NEW q, q = [wars[s] EXCEPT ![w] = v], wars' = [wars EXCEPT ![s] = q]
    PROVE  /\ WarsGrow
           /\ q \in Seq(WarType) /\ Len(q) = Len(wars[s])
           /\ \A x \in 1..Len(wars[s]) : q[x] = IF x = w THEN v ELSE wars[s][x]
<1>1. wars[s] \in Seq(WarType)
  BY WarsType
<1>2. /\ q \in Seq(WarType) /\ Len(q) = Len(wars[s])
      /\ \A x \in 1..Len(wars[s]) : q[x] = IF x = w THEN v ELSE wars[s][x]
  BY <1>1, ExceptSeq
<1>3. \A u \in Servers : wars'[u] = IF u = s THEN q ELSE wars[u]
  BY DEF WarInv
<1>4. WarsGrow
  BY <1>2, <1>3 DEF WarsGrow
<1> QED BY <1>2, <1>4

LEMMA FinishInv == ASSUME IInv, NEW t \in Chains, Finish(t) PROVE IInv' /\ ForwardStep
<1> USE DEF IInv
<1> DEFINE c == stack[t][1]
           s == c.srv
           w == c.warid
           v == wars[s][w]
           e == [v EXCEPT !.ended = TRUE]
<1>1. /\ Runs(t, "finish")
      /\ UNCHANGED <<mgr, known, num, game, lost>>
  BY DEF Finish
<1>2. c \in Good /\ c.pc = "finish"
  BY <1>1, Top
<1>3. GoodCall(c) /\ s \in Servers /\ w \in Warids /\ w \in 1..Len(wars[s])
  BY <1>2, GoodByPc, CallFields DEF GoodCall
<1>4. CASE (Go(t, <<>>) \/ Raise(t)) /\ UNCHANGED wars
  <2>1. UNCHANGED <<mgr, known, war, game>>
    BY <1>1, <1>4 DEF war
  <2>2. Good \subseteq Good'
    BY <1>4, <2>1, WarsKept, NprofNat DEF mgr
  <2>3. ChainMoves(t)
    BY <1>1, <1>4, <2>2, GoNothing, RaiseMoves
  <2>4. lost' \in 0..MaxLost
    BY <1>1 DEF RestInv
  <2> QED BY <2>1, <2>3, <2>4, QuietInv
<1>5. CASE /\ wars' = [wars EXCEPT ![s][w].ended = TRUE]
           /\ Go(t, << Call("endwar", v.attacker, s, w), Call("endwar", v.defenser, s, w),
                       Call("delwar", None, s, w) >>)
  <2>1. v \in WarType
    BY <1>3, WarsType
  <2>2. /\ e \in WarType /\ e.attacker = v.attacker /\ e.defenser = v.defenser
        /\ e.open = v.open
        /\ v.attacker \in Pids /\ v.defenser \in Pids
    BY <2>1 DEF WarType
  <2>3. wars' = [wars EXCEPT ![s] = [wars[s] EXCEPT ![w] = e]]
    BY <1>5
  <2> DEFINE q == [wars[s] EXCEPT ![w] = e]
  <2> HIDE DEF e
  <2>4. /\ WarsGrow
        /\ q \in Seq(WarType) /\ Len(q) = Len(wars[s])
        /\ \A x \in 1..Len(wars[s]) : q[x] = IF x = w THEN e ELSE wars[s][x]
    <3>1. e.attacker = wars[s][w].attacker /\ e.defenser = wars[s][w].defenser
      BY <2>2
    <3>2. s \in Servers /\ w \in 1..Len(wars[s]) /\ e \in WarType /\ WarInv
      BY <1>3, <2>2
    <3>3. q = [wars[s] EXCEPT ![w] = e] /\ wars' = [wars EXCEPT ![s] = q]
      BY <2>3
    <3> HIDE DEF s, w, v, c, q, IInv
    <3>4. WarsGrow
      BY <3>1, <3>2, <3>3, FlagsChange
    <3>5. q \in Seq(WarType)
      BY <3>1, <3>2, <3>3, FlagsChange, Zenon
    <3>6. Len(q) = Len(wars[s])
      BY <3>2, <3>3, WarsType, ExceptSeq
    <3>7. \A x \in 1..Len(wars[s]) : q[x] = IF x = w THEN e ELSE wars[s][x]
      BY <3>1, <3>2, <3>3, FlagsChange
    <3> QED BY <3>4, <3>5, <3>6, <3>7
  <2>5. {x \in 1..Len(q) : q[x].open} = OpenWars(s)
    BY <2>2, <2>4 DEF OpenWars
  <2> HIDE DEF v
  <2>6. WarInv'
    <3>1. num' = [num EXCEPT ![s] = num[s]]
      BY <1>1, <1>3 DEF WarInv
    <3>2. Len(q) <= MaxWar
      BY <1>3, <2>4 DEF WarInv
    <3>3. wars' = [wars EXCEPT ![s] = q]
      BY <2>3
    <3>4. num[s] \in Nat /\ num[s] = Cardinality({x \in 1..Len(q) : q[x].open})
      BY <1>3, <2>5, WarsType
    <3> HIDE DEF q, s
    <3> QED BY <1>3, <2>4, <3>1, <3>2, <3>3, <3>4, OneServer
  <2>7. Grows
    BY <1>1, <2>4, NprofNat DEF Grows, mgr
  <2>8. Good \subseteq Good'
    BY <2>7, GoodGrows
  <2> DEFINE c1 == Call("endwar", v.attacker, s, w)
             c2 == Call("endwar", v.defenser, s, w)
             c3 == Call("delwar", None, s, w)
  <2>9. /\ c1 \in Good /\ c2 \in Good /\ c3 \in Good
        /\ c1.pc # "createwar" /\ c2.pc # "createwar" /\ c3.pc # "createwar"
    <3> HIDE DEF s, w, c, IInv
    <3>0. None \in Pids \cup {None} /\ v.attacker \in Pids \cup {None} /\ v.defenser \in Pids \cup {None}
      BY <2>2
    <3>1. /\ c1 \in CallType /\ c1.pc = "endwar" /\ c1.pid \in Pids /\ c1.srv = s /\ c1.warid = w
      BY <1>3, <2>2, <3>0 DEF Call, CallType
    <3>2. /\ c2 \in CallType /\ c2.pc = "endwar" /\ c2.pid \in Pids /\ c2.srv = s /\ c2.warid = w
      BY <1>3, <2>2, <3>0 DEF Call, CallType
    <3>3. /\ c3 \in CallType /\ c3.pc = "delwar" /\ c3.srv = s /\ c3.warid = w
      BY <1>3, <3>0 DEF Call, CallType
    <3> HIDE DEF c1, c2, c3
    <3>4. GoodCall(c1) /\ GoodCall(c2) /\ GoodCall(c3)
      BY <1>3, <3>1, <3>2, <3>3 DEF GoodCall
    <3> QED BY <3>1, <3>2, <3>3, <3>4 DEF Good
  <2> HIDE DEF c1, c2, c3
  <2>10. ChainMoves(t)
    <3>1. << c1, c2, c3 >> \in Seq(Good')
      BY <2>8, <2>9
    <3>2. \A k \in 1..Len(<< c1, c2, c3 >>) : << c1, c2, c3 >>[k].pc # "createwar"
      <4>1. \A k \in 1..3 : k = 1 \/ k = 2 \/ k = 3
        OBVIOUS
      <4> QED BY <2>9, <4>1
    <3>3. Go(t, << c1, c2, c3 >>)
      BY <1>5 DEF c1, c2, c3
    <3> QED BY <1>1, <2>8, <3>1, <3>2, <3>3, GoMoves
  <2>11. MgrInv' /\ PoolInv' /\ ForwardStep
    BY <1>1, MgrKept
  <2>12. ChainInv' /\ AllocInv'
    BY <1>1, <2>8, <2>10, ChainMovesInv DEF Taken, mgr
  <2>13. FightInv' /\ RestInv'
    BY <1>1, <2>4, FightKept DEF RestInv
  <2> QED BY <2>6, <2>11, <2>12, <2>13
<1> QED BY <1>4, <1>5 DEF Finish

LEMMA CloseWar ==
    ASSUME WarInv, NEW s \in Servers, NEW w, IsOpen(s, w),
           wars' = [wars EXCEPT ![s][w].open = FALSE], num' = [num EXCEPT ![s] = @ - 1]
    PROVE  WarInv' /\ WarsGrow
<1> DEFINE v == [wars[s][w] EXCEPT !.open = FALSE]
           q == [wars[s] EXCEPT ![w] = v]
           n == num[s] - 1
<1>1. w \in 1..Len(wars[s]) /\ wars[s][w].open /\ wars[s][w] \in WarType
  BY WarsType DEF IsOpen
<1>2. /\ v \in WarType /\ v.attacker = wars[s][w].attacker /\ v.defenser = wars[s][w].defenser
      /\ v.open = FALSE
  BY <1>1 DEF WarType
<1>3. wars' = [wars EXCEPT ![s] = q] /\ num' = [num EXCEPT ![s] = n]
  OBVIOUS
<1>4. q = [wars[s] EXCEPT ![w] = v]
  OBVIOUS
<1> HIDE DEF v, q, n
<1>5. q \in Seq(WarType)
  BY <1>1, <1>2, <1>4, WarsType, ExceptSeq
<1>6. Len(q) = Len(wars[s])
      /\ \A x \in 1..Len(wars[s]) : q[x] = IF x = w THEN v ELSE wars[s][x]
  BY <1>1, <1>2, <1>4, WarsType, ExceptSeq
<1>7. WarsGrow
  <2>1. \A u \in Servers : wars'[u] = IF u = s THEN q ELSE wars[u]
    BY <1>3 DEF WarInv
  <2> QED BY <1>2, <1>6, <2>1 DEF WarsGrow
<1>8. {x \in 1..Len(q) : q[x].open} = OpenWars(s) \ {w}
  BY <1>1, <1>2, <1>6 DEF OpenWars
<1>9. w \in OpenWars(s)
  BY <1>1 DEF OpenWars
<1>10. /\ IsFiniteSet(OpenWars(s) \ {w})
      /\ Cardinality(OpenWars(s) \ {w}) = Cardinality(OpenWars(s)) - 1
  BY <1>9, WarsType, FS_RemoveElement
<1>11. n = Cardinality({x \in 1..Len(q) : q[x].open})
  BY <1>8, <1>10, WarsType DEF n
<1>12. n \in Nat
  BY <1>8, <1>10, <1>11, FS_CardinalityType
<1>13. Len(q) <= MaxWar
  BY <1>6 DEF WarInv
<1>14. WarInv'
  BY <1>3, <1>5, <1>11, <1>12, <1>13, OneServer
<1> QED BY <1>7, <1>14

\* The new war is the last one of its server.
LEMMA OpenWar ==
    ASSUME WarInv, NEW s \in Servers, NEW v \in WarType, v.open,
           Len(wars[s]) + 1 \in Warids,
           wars' = [wars EXCEPT ![s] = Append(@, v)], num' = [num EXCEPT ![s] = @ + 1]
    PROVE  /\ WarInv' /\ WarsGrow
           /\ Len(wars[s]) + 1 \in 1..Len(wars'[s])
           /\ wars'[s][Len(wars[s]) + 1] = v
<1> DEFINE q == Append(wars[s], v)
           w == Len(wars[s]) + 1
           n == num[s] + 1
<1>1. /\ wars[s] \in Seq(WarType) /\ Len(wars[s]) \in Nat /\ num[s] \in Nat
      /\ IsFiniteSet(OpenWars(s)) /\ num[s] = Cardinality(OpenWars(s))
  BY WarsType
<1>2. /\ q \in Seq(WarType) /\ Len(q) = w
      /\ \A x \in 1..Len(wars[s]) : q[x] = wars[s][x]
      /\ q[w] = v
  BY <1>1, AppendProperties
<1>3. wars' = [wars EXCEPT ![s] = q] /\ num' = [num EXCEPT ![s] = n]
  OBVIOUS
<1>4. n \in Nat /\ w \in Nat /\ w <= MaxWar
  BY <1>1, Bounds DEF Warids
<1> HIDE DEF q
<1>5. \A u \in Servers : wars'[u] = IF u = s THEN q ELSE wars[u]
  BY <1>3 DEF WarInv
<1>6. WarsGrow
  BY <1>1, <1>2, <1>5 DEF WarsGrow
<1>7. {x \in 1..Len(q) : q[x].open} = OpenWars(s) \cup {w}
  <2>1. \A x : x \in 1..Len(q) <=> x \in 1..Len(wars[s]) \/ x = w
    BY <1>1, <1>2
  <2>2. ~(w \in 1..Len(wars[s]))
    BY <1>1
  <2> HIDE DEF w
  <2> QED BY <1>2, <2>1, <2>2 DEF OpenWars
<1>8. w \notin OpenWars(s)
  BY <1>1 DEF OpenWars
<1>9. Cardinality(OpenWars(s) \cup {w}) = n
  BY <1>1, <1>8, FS_AddElement
<1>10. n = Cardinality({x \in 1..Len(q) : q[x].open})
  BY <1>7, <1>9
<1>11. WarInv'
  <2>1. Len(q) <= MaxWar
    BY <1>2, <1>4
  <2> HIDE DEF n, w
  <2> QED BY <1>2, <1>3, <1>4, <1>10, <2>1, OneServer
<1>12. w \in 1..Len(wars'[s]) /\ wars'[s][w] = v
  BY <1>1, <1>2, <1>5
<1> QED BY <1>6, <1>11, <1>12

LEMMA DelWarInv == ASSUME IInv, NEW t \in Chains, DelWar(t) PROVE IInv' /\ ForwardStep
<1> USE DEF IInv
<1>1. /\ Runs(t, "delwar")
      /\ Go(t, <<>>)
      /\ UNCHANGED <<mgr, known, game, lost>>
  BY DEF DelWar
<1>2. stack[t][1].srv \in Servers
  BY <1>1, Top, GoodByPc, CallFields DEF GoodCall
<1>3. CASE UNCHANGED war
  <2>1. Good \subseteq Good'
    BY <1>1, <1>3, SameWars DEF war, mgr
  <2>2. ChainMoves(t)
    BY <1>1, <2>1, GoNothing
  <2>3. lost' \in 0..MaxLost
    BY <1>1 DEF RestInv
  <2> QED BY <1>1, <1>3, <2>2, <2>3, QuietInv
<1>4. ASSUME NEW s \in Servers, NEW w, IsOpen(s, w),
             wars' = [wars EXCEPT ![s][w].open = FALSE], num' = [num EXCEPT ![s] = @ - 1]
      PROVE  IInv' /\ ForwardStep
  <2>1. WarInv' /\ WarsGrow
    BY <1>4, CloseWar
  <2>2. nprof \in Nat /\ nprof' = nprof
    BY <1>1, NprofNat DEF mgr
  <2>3. Good \subseteq Good'
    BY <2>1, <2>2, GoodGrows DEF Grows
  <2>4. ChainMoves(t)
    BY <1>1, <2>3, GoNothing
  <2>5. MgrInv' /\ PoolInv' /\ ForwardStep
    BY <1>1, MgrKept
  <2>6. ChainInv' /\ AllocInv'
    BY <1>1, <2>3, <2>4, ChainMovesInv DEF Taken, mgr
  <2>7. FightInv' /\ RestInv'
    BY <1>1, <2>1, FightKept DEF RestInv
  <2> QED BY <2>1, <2>5, <2>6, <2>7
<1> QED BY <1>2, <1>3, <1>4 DEF DelWar

LEMMA CallAfter ==
    ASSUME NEW c \in CallType, c.warid \in 1..Len(wars'[c.srv]),
           c.pc \notin {"started", "delwar"} => c.pid \in Pids,
           c.pc \in {"startwar", "startwar player", "load player"} =>
               c.pid \in {wars'[c.srv][c.warid].attacker, wars'[c.srv][c.warid].defenser}
    PROVE  c \in Good'
<1>1. GoodCall(c)'
  BY DEF GoodCall, Members
<1> QED BY <1>1 DEF Good

LEMMA CreateAfter ==
    ASSUME NEW c \in CreateType, c.attacker \in 1..nprof', c.defenser \in 1..nprof'
    PROVE  c \in Good'
<1>1. GoodCreate(c)'
  BY DEF GoodCreate
<1> QED BY <1>1 DEF Good

\* Its calls are for a war that is there now, and its profiles stay in one hand.
LEMMA CreateWarInv == ASSUME IInv, NEW t \in Chains, CreateWar(t) PROVE IInv' /\ ForwardStep
<1> USE DEF IInv
<1> DEFINE c == stack[t][1]
           a == profile[c.attacker].pid
           d == profile[c.defenser].pid
           v == [attacker |-> a, defenser |-> d, open |-> TRUE, ended |-> FALSE]
<1>1. PICK s \in c.srvs :
         /\ NewWarid(s) \in Warids
         /\ wars' = [wars EXCEPT ![s] = Append(@, v)]
         /\ num' = [num EXCEPT ![s] = @ + 1]
         /\ Go(t, << Call("startwar", a, s, NewWarid(s)), Call("startwar", d, s, NewWarid(s)),
                     Call("started", None, s, NewWarid(s)),
                     Create(c.attacker, c.defenser, c.srvs \ {s}) >>)
  BY DEF CreateWar
<1>2. Runs(t, "createwar") /\ UNCHANGED <<mgr, known, game, lost>>
  BY DEF CreateWar
<1>3. c \in Good /\ c.pc = "createwar"
  BY <1>2, Top
<1>4. /\ c \in CreateType /\ c.attacker \in 1..nprof /\ c.defenser \in 1..nprof
      /\ c.srvs \subseteq Servers
  BY <1>3, GoodByPc, CreateFields DEF GoodCreate
<1>5. a \in Pids /\ d \in Pids
  BY <1>4, ProfileFields
<1>6. v \in WarType /\ v.open /\ v.attacker = a /\ v.defenser = d
  BY <1>5 DEF WarType
<1> HIDE DEF v
<1>7. s \in Servers
  BY <1>1, <1>4
<1>8. /\ WarInv' /\ WarsGrow
      /\ NewWarid(s) \in 1..Len(wars'[s])
      /\ wars'[s][NewWarid(s)] = v
  BY <1>1, <1>6, <1>7, OpenWar DEF NewWarid
<1>9. nprof \in Nat /\ nprof' = nprof
  BY <1>2, NprofNat DEF mgr
<1>10. Good \subseteq Good'
  BY <1>8, <1>9, GoodGrows DEF Grows
<1> DEFINE c1 == Call("startwar", a, s, NewWarid(s))
           c2 == Call("startwar", d, s, NewWarid(s))
           c3 == Call("started", None, s, NewWarid(s))
           c4 == Create(c.attacker, c.defenser, c.srvs \ {s})
<1>11. /\ c1 \in Good' /\ c2 \in Good' /\ c3 \in Good'
       /\ c1.pc # "createwar" /\ c2.pc # "createwar" /\ c3.pc # "createwar"
  <2> HIDE DEF a, d
  <2>1. /\ c1 \in CallType /\ c1.pc = "startwar" /\ c1.pid = a /\ c1.srv = s
        /\ c1.warid = NewWarid(s)
    BY <1>1, <1>5, <1>7 DEF Call, CallType
  <2>2. /\ c2 \in CallType /\ c2.pc = "startwar" /\ c2.pid = d /\ c2.srv = s
        /\ c2.warid = NewWarid(s)
    BY <1>1, <1>5, <1>7 DEF Call, CallType
  <2>3. /\ c3 \in CallType /\ c3.pc = "started" /\ c3.srv = s /\ c3.warid = NewWarid(s)
    BY <1>1, <1>7 DEF Call, CallType
  <2> HIDE DEF c1, c2, c3
  <2> HIDE DEF v
  <2>4. c1.warid \in 1..Len(wars'[c1.srv]) /\ c1.pid = wars'[c1.srv][c1.warid].attacker
    BY <1>6, <1>8, <2>1
  <2>5. c2.warid \in 1..Len(wars'[c2.srv]) /\ c2.pid = wars'[c2.srv][c2.warid].defenser
    BY <1>6, <1>8, <2>2
  <2>6. c3.warid \in 1..Len(wars'[c3.srv])
    BY <1>8, <2>3
  <2>7. c1 \in Good'
    BY <1>5, <2>1, <2>4, CallAfter
  <2>8. c2 \in Good'
    BY <1>5, <2>2, <2>5, CallAfter
  <2>9. c3 \in Good'
    BY <2>3, <2>6, CallAfter
  <2> QED BY <2>1, <2>2, <2>3, <2>7, <2>8, <2>9
<1>12. /\ c4 \in Good' /\ c4.pc = "createwar"
       /\ c4.attacker = c.attacker /\ c4.defenser = c.defenser
  <2>1. c4 \in CreateType /\ c4.pc = "createwar"
        /\ c4.attacker = c.attacker /\ c4.defenser = c.defenser
    BY <1>4, ProfileFields DEF Create, CreateType
  <2> HIDE DEF c4
  <2>2. c4 \in Good'
    BY <1>4, <1>9, <2>1, CreateAfter
  <2> QED BY <2>1, <2>2
<1>13. Go(t, << c1, c2, c3, c4 >>)
  BY <1>1
<1> HIDE DEF c1, c2, c3, c4
<1>14. ChainMoves(t)
  <2> DEFINE q == << c1, c2, c3, c4 >>
  <2>1. q \in Seq(Good')
    BY <1>11, <1>12
  <2>2. /\ Len(q) = 4 /\ q[1] = c1 /\ q[2] = c2 /\ q[3] = c3 /\ q[4] = c4
        /\ \A k \in 1..Len(q) : k = 1 \/ k = 2 \/ k = 3 \/ k = 4
    OBVIOUS
  <2>3. Go(t, q)
    BY <1>13
  <2> HIDE DEF q
  <2>4. \A k \in 1..Len(q) : q[k].pc = "createwar" => k = 4
    BY <1>11, <2>2
  <2>5. AtBottom(q)
    BY <2>2, <2>4 DEF AtBottom
  <2>6. Held(q) \subseteq Held(stack[t])
    <3>1. ASSUME NEW i \in Held(q) PROVE i \in Profiles /\ i \in {c.attacker, c.defenser}
      BY <1>12, <2>2, <2>4 DEF Held
    <3>2. 1 \in 1..Len(stack[t])
      BY <1>2, Top
    <3> QED BY <1>3, <3>1, <3>2 DEF Held
  <2> QED BY <1>2, <1>10, <2>1, <2>3, <2>5, <2>6, CreateGoes
<1>15. MgrInv' /\ PoolInv' /\ ForwardStep
  BY <1>2, MgrKept
<1>16. ChainInv' /\ AllocInv'
  BY <1>2, <1>10, <1>14, ChainMovesInv DEF Taken, mgr
<1>17. FightInv' /\ RestInv'
  BY <1>2, <1>8, FightKept DEF RestInv
<1> QED BY <1>8, <1>15, <1>16, <1>17

LEMMA NextSrvInv == ASSUME IInv, NEW t \in Chains, NextSrv(t) PROVE IInv' /\ ForwardStep
<1> USE DEF IInv
<1> DEFINE c == stack[t][1]
<1>1. Runs(t, "createwar") /\ UNCHANGED <<mgr, known, war, game>>
  BY DEF NextSrv
<1>2. Good \subseteq Good'
  BY <1>1, SameWars DEF war, mgr
<1>3. lost' \in 0..MaxLost
  <2>1. lost' = lost \/ (lost < MaxLost /\ lost' = lost + 1)
    BY DEF NextSrv
  <2> QED BY <2>1, Bounds DEF RestInv
<1>4. c \in Good /\ c.pc = "createwar"
  BY <1>1, Top
<1>5. /\ c \in CreateType /\ c.attacker \in 1..nprof /\ c.defenser \in 1..nprof
      /\ c.srvs \subseteq Servers
  BY <1>4, GoodByPc, CreateFields DEF GoodCreate
<1>6. c.attacker \in Profiles /\ c.defenser \in Profiles
  BY <1>5, ProfileFields
<1>7. ASSUME NEW s, Go(t, << Create(c.attacker, c.defenser, c.srvs \ {s}) >>) PROVE ChainMoves(t)
  <2> DEFINE d == Create(c.attacker, c.defenser, c.srvs \ {s})
  <2>1. /\ d \in CreateType /\ d.attacker = c.attacker /\ d.defenser = c.defenser
    BY <1>5, <1>6 DEF Create, CreateType
  <2>2. AtBottom(<< d >>) /\ Held(<< d >>) = {c.attacker, c.defenser}
    BY <1>6, HeldOne
  <2>3. Go(t, << d >>)
    BY <1>7
  <2> HIDE DEF d
  <2>4. d \in Good
    BY <1>5, <2>1 DEF Good, GoodCreate
  <2>5. << d >> \in Seq(Good')
    BY <1>2, <2>4
  <2>6. {c.attacker, c.defenser} \subseteq Held(stack[t])
    <3>1. 1 \in 1..Len(stack[t])
      BY <1>1, Top
    <3> QED BY <1>4, <1>6, <3>1 DEF Held
  <2> QED BY <1>1, <1>2, <2>2, <2>3, <2>5, <2>6, CreateGoes
<1>8. ChainMoves(t)
  <2>1. CASE Go(t, <<>>)
    BY <1>1, <1>2, <2>1, GoNothing
  <2> QED BY <1>7, <2>1 DEF NextSrv
<1> QED BY <1>1, <1>3, <1>8, QuietInv

LEMMA StartedInv == ASSUME IInv, NEW t \in Chains, Started(t) PROVE IInv' /\ ForwardStep
<1> USE DEF IInv
<1>1. /\ Runs(t, "started")
      /\ stack' = [stack EXCEPT ![t] = <<>>] \/ Raise(t)
      /\ UNCHANGED <<mgr, known, war, game, lost>>
  BY DEF Started
<1>2. Good \subseteq Good'
  BY <1>1, SameWars DEF war, mgr
<1>3. ChainMoves(t)
  BY <1>1, <1>2, EndMoves, RaiseMoves
<1>4. lost' \in 0..MaxLost
  BY <1>1 DEF RestInv
<1> QED BY <1>1, <1>3, <1>4, QuietInv

LEMMA LoseInv == ASSUME IInv, NEW t \in Chains, Lose(t) PROVE IInv' /\ ForwardStep
<1> USE DEF IInv
<1>1. PICK pc : Runs(t, pc)
  BY DEF Lose
<1>2. Raise(t) /\ UNCHANGED <<mgr, known, war, game>> /\ lost' = lost + 1 /\ lost < MaxLost
  BY DEF Lose
<1>3. Good \subseteq Good'
  BY <1>2, SameWars DEF war, mgr
<1>4. ChainMoves(t)
  BY <1>1, <1>2, <1>3, RaiseMoves
<1>5. lost' \in 0..MaxLost
  BY <1>2, Bounds DEF RestInv
<1> QED BY <1>2, <1>4, <1>5, QuietInv

LEMMA WarRequestInv == ASSUME IInv, NEW p \in Pids, WarRequest(p) PROVE IInv' /\ ForwardStep
<1> USE DEF IInv
<1> DEFINE c == Call("finish", p, fight[p].srv, fight[p].warid)
<1>1. /\ fight[p] # None
      /\ Begin(<< c >>)
      /\ UNCHANGED <<mgr, known, war, game, lost>>
  BY DEF WarRequest
<1>2. /\ fight[p].srv \in Servers /\ fight[p].warid \in Warids
      /\ fight[p].warid \in 1..Len(wars[fight[p].srv])
  BY <1>1 DEF FightInv, FightIsMember
<1>3. /\ c \in CallType /\ c.pc = "finish" /\ c.pid = p /\ c.srv = fight[p].srv
      /\ c.warid = fight[p].warid
  BY <1>2 DEF Call, CallType
<1> HIDE DEF c
<1>4. GoodCall(c)
  BY <1>2, <1>3 DEF GoodCall
<1>5. Good \subseteq Good'
  BY <1>1, SameWars DEF war, mgr
<1>6. PICK t \in Chains : stack[t] = <<>> /\ stack' = [stack EXCEPT ![t] = << c >>]
  BY <1>1, BeginChain
<1>7. c \in Good
  BY <1>3, <1>4 DEF Good
<1>8. << c >> \in Seq(Good')
  BY <1>5, <1>7
<1>9. Len(<< c >>) = 1 /\ << c >>[1] = c
  OBVIOUS
<1>10. AtBottom(<< c >>) /\ Held(<< c >>) = {}
  BY <1>3, <1>9 DEF AtBottom, Held
<1>11. ChainMoves(t)
  BY <1>6, <1>8, <1>10 DEF ChainMoves
<1>12. lost' \in 0..MaxLost
  BY <1>1 DEF RestInv
<1> QED BY <1>1, <1>11, <1>12, QuietInv

----------------------------------------------------------------------------
LEMMA InitInv == ASSUME Init PROVE IInv
<1>1. MgrInv
  <2> DEFINE e == [pid |-> None, lv |-> None, state |-> "none", enemy_pid |-> None, pos |-> 0]
  <2>1. /\ pid_profile = [p \in Pids |-> None] /\ nprof = 0
        /\ profile = [i \in Profiles |-> e]
    BY DEF Init
  <2>2. e \in ProfileType /\ e.state = "none"
    BY StateNames DEF ProfileType
  <2> HIDE DEF e
  <2>3. profile \in [Profiles -> ProfileType] /\ \A i \in Profiles : profile[i].state = "none"
    BY <2>1, <2>2
  <2>4. pid_profile \in [Pids -> 1..nprof \cup {None}] /\ \A p \in Pids : pid_profile[p] = None
    BY <2>1
  <2>5. nprof \in 0..MaxProf /\ \A i \in Profiles : ~(i <= nprof)
    BY <2>1, Bounds DEF Profiles
  <2> QED BY <2>3, <2>4, <2>5 DEF MgrInv
<1>2. PoolInv
  BY EmptySeq DEF Init, PoolInv, PosNeverBefore
<1>3. WarInv
  <2>1. /\ wars = [s \in Servers |-> <<>>] /\ num = [s \in Servers |-> 0]
    BY DEF Init
  <2>2. \A s \in Servers : OpenWars(s) = {}
    BY <2>1 DEF OpenWars
  <2>3. \A s \in Servers : num[s] = Cardinality(OpenWars(s))
    BY <2>1, <2>2, FS_EmptySet
  <2> QED BY <2>1, <2>3, Bounds, EmptySeq DEF WarInv
<1>4. FightInv
  BY DEF Init, FightInv, FightIsMember
<1>5. ChainInv /\ AllocInv
  BY Nothing DEF Init, ChainInv, AllocInv
<1>6. RestInv
  BY Bounds DEF Init, RestInv
<1> QED BY <1>1, <1>2, <1>3, <1>4, <1>5, <1>6 DEF IInv

LEMMA NextInv == ASSUME IInv, [Next]_vars PROVE IInv' /\ ForwardStep
<1>1. ASSUME NEW t \in Chains, Step(t) PROVE IInv' /\ ForwardStep
  BY <1>1, CreateWarInv, NextSrvInv, StartWarInv, StartWarPlayerInv, LoadPlayerInv,
     StartedInv, FinishInv, EndWarInv, EndWarPlayerInv, DelWarInv DEF Step
<1>2. ASSUME NEW t \in Chains, Lose(t) PROVE IInv' /\ ForwardStep
  BY <1>2, LoseInv
<1>3. ASSUME NEW p \in Pids, NEW lv \in Levels, Search(p, lv) PROVE IInv' /\ ForwardStep
  BY <1>3, SearchInv
<1>4. ASSUME NEW p \in Pids, Unsearch(p) \/ WarRequest(p) PROVE IInv' /\ ForwardStep
  BY <1>4, UnsearchInv, WarRequestInv
<1>5. ASSUME NEW p \in Pids, LogOff(p) \/ LogIn(p) PROVE IInv' /\ ForwardStep
  BY <1>5, BesideInv DEF LogOff, LogIn, IInv, FightInv, RestInv
<1>6. ASSUME NEW lv \in Levels, Allocer(lv) PROVE IInv' /\ ForwardStep
  BY <1>6, AllocerInv
<1>7. ASSUME NEW s \in Servers, QueryStat(s) PROVE IInv' /\ ForwardStep
  BY <1>7, BesideInv DEF QueryStat, game, IInv, FightInv, RestInv
<1>8. CASE UNCHANGED vars
  BY <1>8, BesideInv DEF vars, game, IInv, FightInv, RestInv
<1> QED BY <1>1, <1>2, <1>3, <1>4, <1>5, <1>6, <1>7, <1>8 DEF Next

LEMMA OneHolder == ASSUME ChainInv, AllocInv PROVE OneAllocation
<1> SUFFICES ASSUME NEW t \in Chains, NEW u \in Chains,
                    NEW k \in 1..Len(stack[t]), NEW l \in 1..Len(stack[u]),
                    stack[t][k].pc = "createwar", stack[u][l].pc = "createwar",
                    <<t, k>> # <<u, l>>
             PROVE  {stack[t][k].attacker, stack[t][k].defenser}
                    \cap {stack[u][l].attacker, stack[u][l].defenser} = {}
  BY DEF OneAllocation
<1>1. k = Len(stack[t]) /\ l = Len(stack[u])
  BY DEF ChainInv, AtBottom
<1>2. t # u
  BY <1>1
<1>3. /\ stack[t][k] \in Good /\ stack[u][l] \in Good
  BY ElementOfSeq DEF ChainInv
<1>4. /\ {stack[t][k].attacker, stack[t][k].defenser} \subseteq Held(stack[t])
      /\ {stack[u][l].attacker, stack[u][l].defenser} \subseteq Held(stack[u])
  BY <1>3, GoodByPc, CreateFields DEF GoodCreate, Held
<1> QED BY <1>2, <1>4 DEF AllocInv

LEMMA Consequences == IInv => TypeOK /\ FightIsMember /\ PosNeverBefore /\ OneAllocation
<1> SUFFICES ASSUME IInv PROVE TypeOK /\ FightIsMember /\ PosNeverBefore /\ OneAllocation
  OBVIOUS
<1>1. stack \in [Chains -> Seq(CallType \cup CreateType)]
  <2>1. Good \subseteq CallType \cup CreateType
    BY DEF Good
  <2>2. \A t \in Chains : stack[t] \in Seq(CallType \cup CreateType)
    BY <2>1, SeqMonotonic DEF IInv, ChainInv
  <2> QED BY <2>2 DEF IInv, ChainInv
<1>2. TypeOK
  BY <1>1 DEF IInv, MgrInv, ProfileType, PoolInv, WarInv, WarType, FightInv, RestInv, TypeOK
<1>3. OneAllocation
  BY OneHolder DEF IInv
<1> QED BY <1>2, <1>3 DEF IInv, FightInv, PoolInv

----------------------------------------------------------------------------
LEMMA Inductive == Spec => []IInv
<1>1. Init => IInv
  BY InitInv
<1>2. IInv /\ [Next]_vars => IInv'
  BY NextInv
<1> QED BY <1>1, <1>2, PTL DEF Spec

\* The three kinds of servers hold what the code puts in them, and a war server's count
\* of its wars does not go below zero (search_opponent, createwar, delwar, startwar).
THEOREM WarTypeCorrect == Spec => []TypeOK
BY Inductive, Consequences, PTL

\* A player's fight record names a war that was made with the player in it, for any loss
\* of calls, logging off and matching anew (startwar of warsrvmgr and of gamesrv).
THEOREM FightsNameOwnWars == Spec => []FightIsMember
BY Inductive, Consequences, PTL

\* table.remove at a stale position never takes out somebody who came earlier than the
\* player to be removed, for pools of any length (search_opponent, delprofile).
THEOREM RemovalsHitNoOneEarlier == Spec => []PosNeverBefore
BY Inductive, Consequences, PTL

\* However many allocations wait for war servers at once, no profile is in two of them
\* (allocer, onmatch).
THEOREM AllocationsDisjoint == Spec => []OneAllocation
BY Inductive, Consequences, PTL

\* No report, however late, takes the state of a profile back (onmatch, startwar, endwar
\* of warsrvmgr).
THEOREM StatesOnlyForward == Spec => StatesForward
<1>1. IInv /\ [Next]_vars => [ForwardStep]_profile
  BY NextInv
<1> QED BY <1>1, Inductive, PTL DEF Spec, StatesForward, ForwardStep

=============================================================================
