------------------------------ MODULE WarMatch ------------------------------
(***************************************************************************)
(* War matching: warsrvmgr pairs players who search for an opponent and    *)
(* asks a war server to make a war of them; the war server reports its     *)
(* start and its end for both players to warsrvmgr, which passes them on   *)
(* to the players' game server.                                            *)
(*                                                                         *)
(* cluster.call waits for the answer, and the service that waits serves    *)
(* other calls meanwhile.  So what a timer or a request sets off is a      *)
(* chain: a stack of the calls that it has still to make, whichever server *)
(* makes them.  Each call is an action, and chains interleave.             *)
(***************************************************************************)
EXTENDS Integers, SequencesExt

CONSTANTS
    Pids,       \* players
    Levels,     \* their levels
    Servers,    \* war servers
    None,       \* Lua's nil
    WarLimit,   \* wars of a war server above which it refuses (100000 in the code)
    MaxProf,    \* bound: profiles made by search_opponent
    MaxWar,     \* bound: wars made by one war server
    MaxChain,   \* bound: chains at once
    MaxLost     \* bound: calls that fail on their way

Profiles == 1..MaxProf
Warids   == 1..MaxWar
Chains   == 1..MaxChain

ASSUME BoundsAssumption ==
    {WarLimit, MaxProf, MaxWar, MaxChain, MaxLost} \subseteq Nat

ASSUME NamesAssumption == None \notin Int \cup Pids \cup Levels \cup Servers

VARIABLES
    lv_profiles,  \* warsrvmgr: level -> sequence of profiles
    pid_profile,  \* warsrvmgr: pid -> profile, or None
    profile,      \* the profiles made so far
    nprof,        \* their number
    known,        \* war servers that have answered query_stat
    wars,         \* war server -> the wars it has made, by warid
    num,          \* war server -> warmgr.num
    fight,        \* game server: pid -> fight.warsrvname and fight.warid, or None
    loaded,       \* game server: players that have an object
    stack,        \* chain -> the calls it has still to make
    lost          \* calls that have failed on their way

mgr  == <<lv_profiles, pid_profile, profile, nprof>>
war  == <<wars, num>>
game == <<fight, loaded>>
vars == <<mgr, known, war, game, stack, lost>>

Call(pc, pid, srv, warid) == [pc |-> pc, pid |-> pid, srv |-> srv, warid |-> warid]

\* The call of allocer that is under pcall: a war of these profiles, to be made by
\* one of these war servers.
Create(attacker, defenser, srvs) ==
    [pc |-> "createwar", attacker |-> attacker, defenser |-> defenser, srvs |-> srvs]

Members(s, w) == {wars[s][w].attacker, wars[s][w].defenser}
IsOpen(s, w)  == w \in 1..Len(wars[s]) /\ wars[s][w].open

(***************************************************************************)
(* Calls between servers.                                                  *)
(***************************************************************************)
Runs(t, pc) == stack[t] # <<>> /\ stack[t][1].pc = pc

Go(t, calls) == stack' = [stack EXCEPT ![t] = calls \o Tail(@)]

\* An error is answered, and raised again by the caller, up to the pcall of allocer
\* if the chain began there.
Raise(t) ==
    LET caught == {i \in 2..Len(stack[t]) : stack[t][i].pc = "createwar"}
    IN stack' = [stack EXCEPT ![t] =
                   IF caught = {} THEN <<>>
                   ELSE SubSeq(@, CHOOSE i \in caught : TRUE, Len(@))]

Free == {t \in Chains : stack[t] = <<>>}

Begin(calls) ==
    /\ Free # {}
    /\ stack' = [stack EXCEPT ![CHOOSE t \in Free : TRUE] = calls]

\* A call fails before it reaches the other server; with "started", that is a call of
\* s2csync.
Lose(t) ==
    /\ \E pc \in {"startwar", "startwar player", "started", "endwar", "endwar player"} :
          Runs(t, pc)
    /\ lost < MaxLost
    /\ lost' = lost + 1
    /\ Raise(t)
    /\ UNCHANGED <<mgr, known, war, game>>

----------------------------------------------------------------------------
(***************************************************************************)
(* warsrvmgr                                                               *)
(***************************************************************************)
NewPosEarly(lv) == Len(lv_profiles[lv])    \* a mutated form of NewPos: before the insert

NewPos(lv) == Len(lv_profiles[lv]) + 1

\* search_opponent: one profile of a player at a time.
Search(p, lv) ==
    /\ pid_profile[p] = None
    /\ nprof < MaxProf
    /\ nprof' = nprof + 1
    /\ profile' = [profile EXCEPT ![nprof + 1] =
                     [pid |-> p, lv |-> lv, state |-> "ready", enemy_pid |-> None,
                      pos |-> NewPos(lv)]]
    /\ pid_profile' = [pid_profile EXCEPT ![p] = nprof + 1]
    /\ lv_profiles' = [lv_profiles EXCEPT ![lv] = Append(@, nprof + 1)]
    /\ UNCHANGED <<known, war, game, stack, lost>>

\* table.remove at the position the profile had when it was added: whatever is there
\* by now; nothing just behind the end; an error further behind it.
RemoveAtPos(i) ==
    LET lv  == profile[i].lv
        pos == profile[i].pos
    IN lv_profiles' = IF pos \in 1..Len(lv_profiles[lv])
                      THEN [lv_profiles EXCEPT ![lv] = RemoveAt(@, pos)]
                      ELSE lv_profiles

OutOfBounds(i) == profile[i].pos > Len(lv_profiles[profile[i].lv]) + 1

DelProfileKeeps(p) ==    \* a mutated form of DelProfile: the pid keeps it
    IF pid_profile[p] = None THEN UNCHANGED <<pid_profile, lv_profiles>>
    ELSE RemoveAtPos(pid_profile[p]) /\ UNCHANGED pid_profile

DelProfile(p) ==
    IF pid_profile[p] = None THEN UNCHANGED <<pid_profile, lv_profiles>>
    ELSE /\ pid_profile' = [pid_profile EXCEPT ![p] = None]
         /\ RemoveAtPos(pid_profile[p])

\* unsearch_opponent: no state is called "statwar", so the profile goes in any state.
Unsearch(p) ==
    /\ pid_profile[p] # None
    /\ DelProfile(p)
    /\ UNCHANGED <<profile, nprof, known, war, game, stack, lost>>

\* checkwarsrv: a war server has answered.
QueryStat(s) ==
    /\ s \notin known
    /\ known' = known \cup {s}
    /\ UNCHANGED <<mgr, war, game, stack, lost>>

MatchLate(i, j) == UNCHANGED profile    \* a mutated form of Match

MatchProfiles(i, j) ==    \* a mutated form of Match: the profile, not its pid
    profile' = [profile EXCEPT ![i].state = "match", ![i].enemy_pid = j,
                               ![j].state = "match", ![j].enemy_pid = i]

\* onmatch
Match(i, j) ==
    profile' = [profile EXCEPT
                  ![i].state = "match", ![i].enemy_pid = profile[j].pid,
                  ![j].state = "match", ![j].enemy_pid = profile[i].pid]

\* allocer, every second: the first two ready profiles of a level are matched, and
\* the war servers are asked one after the other.
Allocer(lv) ==
    LET pool     == lv_profiles[lv]
        Ready(k) == profile[pool[k]].state = "ready"
    IN \E m, n \in 1..Len(pool) :
        /\ m < n /\ Ready(m) /\ Ready(n)
        /\ \A k \in 1..n : Ready(k) => k \in {m, n}
        /\ Match(pool[m], pool[n])
        /\ \/ /\ known # {}
              /\ \E i, j \in {pool[m], pool[n]} :
                    i # j /\ Begin(<< Create(i, j, known) >>)
           \/ known = {} /\ UNCHANGED stack
        /\ UNCHANGED <<lv_profiles, pid_profile, nprof, known, war, game, lost>>

\* startwar of one player, from its war server.  Without an enemy the player's game
\* server is not told.
StartWar(t) ==
    /\ Runs(t, "startwar")
    /\ LET c == stack[t][1]
           i == pid_profile[c.pid]
       IN IF i = None THEN Raise(t) /\ UNCHANGED profile
          ELSE /\ profile' = [profile EXCEPT ![i].state = "startwar"]
               /\ IF profile[i].enemy_pid = None THEN Go(t, <<>>)
                  ELSE IF pid_profile[profile[i].enemy_pid] = None THEN Raise(t)
                  ELSE Go(t, << [c EXCEPT !.pc = "startwar player"] >>)
    /\ UNCHANGED <<lv_profiles, pid_profile, nprof, known, war, game, lost>>

EndWar(t) ==
    /\ Runs(t, "endwar")
    /\ LET c == stack[t][1]
           i == pid_profile[c.pid]
       IN /\ DelProfile(c.pid)
          /\ IF i = None \/ (i # None /\ OutOfBounds(i))
             THEN Raise(t) /\ UNCHANGED profile
             ELSE /\ profile' = [profile EXCEPT ![i].state = "endwar"]
                  /\ Go(t, << [c EXCEPT !.pc = "endwar player"] >>)
    /\ UNCHANGED <<nprof, known, war, game, lost>>

----------------------------------------------------------------------------
(***************************************************************************)
(* warsrv                                                                  *)
(***************************************************************************)
NewWaridNext(s) == Len(wars[s]) + 2    \* a mutated form of NewWarid: the id after it

\* genwarid
NewWarid(s) == Len(wars[s]) + 1

\* createwar at one of the servers that are left: it adds the war and reports its
\* start for both players.
CreateWar(t) ==
    /\ Runs(t, "createwar")
    /\ \E s \in stack[t][1].srvs :
        LET c == stack[t][1]
            w == NewWarid(s)
            a == profile[c.attacker].pid
            d == profile[c.defenser].pid
        IN /\ num[s] <= WarLimit
           /\ w \in Warids
           /\ wars' = [wars EXCEPT ![s] =
                         Append(@, [attacker |-> a, defenser |-> d,
                                    open |-> TRUE, ended |-> FALSE])]
           /\ num' = [num EXCEPT ![s] = @ + 1]
           /\ Go(t, << Call("startwar", a, s, w), Call("startwar", d, s, w),
                       Call("started", None, s, w),
                       Create(c.attacker, c.defenser, c.srvs \ {s}) >>)
    /\ UNCHANGED <<mgr, known, game, lost>>

\* A server refuses or does not answer, and the next one is asked; after the last
\* one the players stay matched.
NextSrv(t) ==
    /\ Runs(t, "createwar")
    /\ LET c == stack[t][1]
       IN \/ /\ c.srvs = {}
             /\ Go(t, <<>>)
             /\ UNCHANGED lost
          \/ \E s \in c.srvs :
                /\ Go(t, << Create(c.attacker, c.defenser, c.srvs \ {s}) >>)
                /\ \/ num[s] > WarLimit /\ UNCHANGED lost
                   \/ lost < MaxLost /\ lost' = lost + 1
    /\ UNCHANGED <<mgr, known, war, game>>

\* The rest of startwar uses the war, which may be deleted by now, and s2csync sends its
\* cards to the players.  Success ends the loop of allocer.
Started(t) ==
    /\ Runs(t, "started")
    /\ LET c == stack[t][1]
       IN IF IsOpen(c.srv, c.warid)
          THEN stack' = [stack EXCEPT ![t] = <<>>]
          ELSE Raise(t)
    /\ UNCHANGED <<mgr, known, war, game, lost>>

\* giveupwar, and any other request after which check_endwar finds the war over.
Finish(t) ==
    /\ Runs(t, "finish")
    /\ LET c == stack[t][1]
           v == wars[c.srv][c.warid]
       IN IF ~IsOpen(c.srv, c.warid) THEN Go(t, <<>>) /\ UNCHANGED wars
          ELSE IF c.pid \notin Members(c.srv, c.warid) THEN Raise(t) /\ UNCHANGED wars
          ELSE /\ wars' = [wars EXCEPT ![c.srv][c.warid].ended = TRUE]
               /\ Go(t, << Call("endwar", v.attacker, c.srv, c.warid),
                           Call("endwar", v.defenser, c.srv, c.warid),
                           Call("delwar", None, c.srv, c.warid) >>)
    /\ UNCHANGED <<mgr, known, num, game, lost>>

DelWar(t) ==
    /\ Runs(t, "delwar")
    /\ LET c == stack[t][1]
       IN IF IsOpen(c.srv, c.warid)
          THEN /\ wars' = [wars EXCEPT ![c.srv][c.warid].open = FALSE]
               /\ num' = [num EXCEPT ![c.srv] = @ - 1]
          ELSE UNCHANGED war
    /\ Go(t, <<>>)
    /\ UNCHANGED <<mgr, known, game, lost>>

----------------------------------------------------------------------------
(***************************************************************************)
(* gamesrv                                                                 *)
(***************************************************************************)
\* The player's fight record is set at once, or after the load of a player who has
\* no object, which yields.
SetFight(c) == fight' = [fight EXCEPT ![c.pid] = [srv |-> c.srv, warid |-> c.warid]]

StartWarPlayer(t) ==
    /\ Runs(t, "startwar player")
    /\ LET c == stack[t][1]
       IN IF c.pid \in loaded THEN SetFight(c) /\ Go(t, <<>>)
          ELSE Go(t, << [c EXCEPT !.pc = "load player"] >>) /\ UNCHANGED fight
    /\ UNCHANGED <<mgr, known, war, loaded, lost>>

\* The data are there.  If the player came meanwhile, loadofflineplayer fails by the
\* assert of addobject, "repeat object pid".
LoadPlayer(t) ==
    /\ Runs(t, "load player")
    /\ LET c == stack[t][1]
       IN IF c.pid \in loaded THEN Raise(t) /\ UNCHANGED game
          ELSE SetFight(c) /\ loaded' = loaded \cup {c.pid} /\ Go(t, <<>>)
    /\ UNCHANGED <<mgr, known, war, lost>>

\* The assert of endwar, "Not match warid".
MayEnd(c) == fight[c.pid] # None /\ fight[c.pid].warid = c.warid

EndWarPlayer(t) ==
    /\ Runs(t, "endwar player")
    /\ LET c == stack[t][1]
       IN IF c.pid \notin loaded THEN Go(t, <<>>) /\ UNCHANGED fight
          ELSE IF ~MayEnd(c) THEN Raise(t) /\ UNCHANGED fight
          ELSE fight' = [fight EXCEPT ![c.pid] = None] /\ Go(t, <<>>)
    /\ UNCHANGED <<mgr, known, war, loaded, lost>>

\* A request of a player in a war goes to the war server that the player's data name.
WarRequest(p) ==
    /\ p \in loaded
    /\ fight[p] # None
    /\ Begin(<< Call("finish", p, fight[p].srv, fight[p].warid) >>)
    /\ UNCHANGED <<mgr, known, war, game, lost>>

\* The player's object comes and goes; the fight record is saved with its data.
LogOff(p) ==
    /\ p \in loaded
    /\ loaded' = loaded \ {p}
    /\ UNCHANGED <<mgr, known, war, fight, stack, lost>>

LogIn(p) ==
    /\ p \notin loaded
    /\ loaded' = loaded \cup {p}
    /\ UNCHANGED <<mgr, known, war, fight, stack, lost>>

----------------------------------------------------------------------------
Init ==
    /\ lv_profiles = [lv \in Levels |-> <<>>]
    /\ pid_profile = [p \in Pids |-> None]
    /\ profile = [i \in Profiles |-> [pid |-> None, lv |-> None, state |-> "none",
                                      enemy_pid |-> None, pos |-> 0]]
    /\ nprof = 0
    /\ known = {}
    /\ wars = [s \in Servers |-> <<>>]
    /\ num = [s \in Servers |-> 0]
    /\ fight = [p \in Pids |-> None]
    /\ loaded = Pids
    /\ stack = [t \in Chains |-> <<>>]
    /\ lost = 0

Step(t) ==
    \/ CreateWar(t) \/ NextSrv(t) \/ StartWar(t) \/ StartWarPlayer(t) \/ LoadPlayer(t)
    \/ Started(t) \/ Finish(t) \/ EndWar(t) \/ EndWarPlayer(t) \/ DelWar(t)

Next ==
    \/ \E t \in Chains : Step(t) \/ Lose(t)
    \/ \E p \in Pids : \/ \E lv \in Levels : Search(p, lv)
                       \/ Unsearch(p) \/ WarRequest(p) \/ LogOff(p) \/ LogIn(p)
    \/ \E lv \in Levels : Allocer(lv)
    \/ \E s \in Servers : QueryStat(s)

Spec == Init /\ [][Next]_vars

----------------------------------------------------------------------------
States == <<"none", "ready", "match", "startwar", "endwar">>

CallType == [pc : {"startwar", "startwar player", "load player", "started", "finish",
                   "endwar", "endwar player", "delwar"},
             pid : Pids \cup {None}, srv : Servers, warid : Warids]
CreateType == [pc : {"createwar"}, attacker : Profiles, defenser : Profiles,
               srvs : SUBSET Servers]

\* Profiles, wars, fight records and calls hold what the code puts in them.
TypeOK ==
    /\ lv_profiles \in [Levels -> Seq(1..nprof)]
    /\ pid_profile \in [Pids -> 1..nprof \cup {None}]
    /\ profile \in [Profiles -> [pid : Pids \cup {None}, lv : Levels \cup {None},
                                 state : {States[k] : k \in 1..5},
                                 enemy_pid : Pids \cup {None}, pos : Nat]]
    /\ nprof \in 0..MaxProf
    /\ known \subseteq Servers
    /\ wars \in [Servers -> Seq([attacker : Pids, defenser : Pids, open : BOOLEAN,
                                 ended : BOOLEAN])]
    /\ num \in [Servers -> Nat]
    /\ fight \in [Pids -> [srv : Servers, warid : Warids] \cup {None}]
    /\ loaded \subseteq Pids
    /\ stack \in [Chains -> Seq(CallType \cup CreateType)]
    /\ lost \in 0..MaxLost

\* What getwarobj of warsrv asserts of every request: a player's fight record names a
\* war that was made with the player in it, on the war server it names.
FightIsMember ==
    \A p \in Pids : fight[p] # None =>
        /\ fight[p].warid \in 1..Len(wars[fight[p].srv])
        /\ p \in Members(fight[p].srv, fight[p].warid)

\* A stored position goes stale, but only to one side: a pool stays in the order of
\* arrival, and no profile is further back than its position says.  So a removal never
\* takes out a player who came before the one to be removed.
PosNeverBefore ==
    \A lv \in Levels : \A k \in 1..Len(lv_profiles[lv]) :
        /\ profile[lv_profiles[lv][k]].pos >= k
        /\ \A l \in 1..k-1 : lv_profiles[lv][l] < lv_profiles[lv][k]

\* A profile is in the hands of one allocation only, though the timer fires again
\* while allocer waits for the war servers.
OneAllocation ==
    \A t, u \in Chains : \A k \in 1..Len(stack[t]), l \in 1..Len(stack[u]) :
        LET c == stack[t][k]
            d == stack[u][l]
        IN /\ c.pc = "createwar" /\ d.pc = "createwar" /\ <<t, k>> # <<u, l>>
           => {c.attacker, c.defenser} \cap {d.attacker, d.defenser} = {}

\* The state of a profile never goes back: no late report of a start reaches the
\* profile of a war that has ended.
Rank(state) == CHOOSE k \in 1..5 : States[k] = state

StatesForward ==
    [][\A i \in Profiles : Rank(profile'[i].state) >= Rank(profile[i].state)]_profile

(***************************************************************************)
(* What the code says of itself and does not keep.                         *)
(***************************************************************************)
\* The assert of gamesrv's endwar, "Not match warid": the war that a loaded player is
\* told the end of is the war the player is in.
EndMatchesWar ==
    \A t \in Chains : Runs(t, "endwar player") /\ stack[t][1].pid \in loaded
                      => MayEnd(stack[t][1])

=============================================================================
