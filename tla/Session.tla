------------------------------ MODULE Session ------------------------------
(***************************************************************************)
(* The session core of the game server: playermgr, loginqueue, the         *)
(* connection table of script/proto and the login, logoff, kick, autosave  *)
(* and cross-server paths of cplayer.  All of it runs in one skynet        *)
(* service, so a handler is a coroutine: it runs alone until it calls the  *)
(* database, the account centre or another server, and then every other    *)
(* handler may run before it is resumed.                                   *)
(*                                                                         *)
(* A coroutine is a stack of frames, the calls it still has to make, with  *)
(* the next one first; cpu is the coroutine that is running, None while    *)
(* all of them wait.  Each frame is run by one action.                     *)
(***************************************************************************)
EXTENDS Integers, Sequences, FiniteSets

CONSTANTS
    Agents,       \* the connections: one agent service, one fd each
    Roles,        \* role ids (positive pids) whose data the database holds
    OnlineLimit,  \* server.onlinelimit
    None,         \* Lua's nil
    MaxObj,       \* bound: player objects created by cplayer.new
    MaxTasks,     \* bound: handlers in progress at once
    MaxDepth,     \* bound: frames of one handler that are counted
    MaxQueue,     \* bound: entries of the login queue
    MaxPlay,      \* bound: changes of player data
    MaxTokens,    \* bound: entergame requests with a token
    Triggers      \* bound: the optional messages and timers that occur

Tasks   == 1..MaxTasks
Players == 1..MaxObj
Pids    == Agents \cup Roles     \* a link's negative pid is named by its agent
Objs    == Agents \cup Players   \* and so is the link object itself
States  == {"link", "online", "offline", "kuafu"}   \* of a registered object

ASSUME BoundsAssumption ==
    /\ MaxObj \in Nat /\ MaxTasks \in Nat /\ MaxDepth \in Nat /\ MaxQueue \in Nat
    /\ MaxPlay \in Nat /\ MaxTokens \in Nat /\ OnlineLimit \in Nat

ASSUME NamesAssumption ==
    /\ Agents \cap Roles = {}
    /\ (Agents \cup Roles \cup {None}) \cap Int = {}
    /\ None \notin Agents \cup Roles

ASSUME FiniteAssumption == IsFiniteSet(Agents) /\ IsFiniteSet(Roles)

VARIABLES
    sock,    \* agent -> "new", "open", "closed": has its close message come?
    conn,    \* agent -> proto.connection[agent].pid, None if no entry
    auth,    \* the agents whose object has passlogin set
    id_obj,  \* pid -> the object registered for it, or None
    fd_id,   \* agent's fd -> pid, or None
    obj,     \* player object -> its pid, agent, state and data version
    nobj,    \* number of player objects created
    idle,    \* offline objects whose __activetime is missing or too old
    saving,  \* player objects under autosave (__saveobjs)
    cnt,     \* state -> linknum, onlinenum, offlinenum, kuafunum
    num,     \* playermgr.num
    queue,   \* loginqueue.queue
    db,      \* role -> version of the data in the database
    clock,   \* the last data version made by a client's play
    tokened, \* entergame requests with a token so far
    gone,    \* roles another server may report as having arrived there
    stack,   \* task -> the frames it still has to run
    cpu      \* the running task, or None

tables == <<sock, conn, auth>>
reg    == <<id_obj, fd_id, cnt, num>>
heap   == <<obj, nobj, idle, saving>>
world  == <<db, clock, tokened, gone>>
vars   == <<tables, reg, heap, queue, world, stack, cpu>>

Frame(pc, pid, src, dst) == [pc |-> pc, pid |-> pid, src |-> src, dst |-> dst]

StateOf(o) == IF o \in Agents THEN "link" ELSE obj[o].state
PidOf(o)   == IF o \in Agents THEN o ELSE obj[o].pid
AgentOf(o) == IF o \in Agents THEN o ELSE obj[o].agent

Registered == {p \in Pids : id_obj[p] # None}

\* Mutated forms of Counter.
CounterNoLink(s) == IF s \in {"offline", "kuafu"} THEN s ELSE "online"
CounterNoOffline(s) == IF s \in {"link", "kuafu"} THEN s ELSE "online"

\* addobject and delobject count every state they do not name as online.
Counter(s) == IF s \in {"link", "offline", "kuafu"} THEN s ELSE "online"

(***************************************************************************)
(* The coroutine scheduler of skynet.                                      *)
(***************************************************************************)
Runs(t, pc) == /\ cpu \in {None, t}
               /\ stack[t] # <<>>
               /\ stack[t][1].pc = pc

\* The running frame becomes these calls, made now (Continue) or after the
\* answer of a call that yields (Suspend).
Continue(t, frames) ==
    LET rest == frames \o Tail(stack[t])
    IN /\ stack' = [stack EXCEPT ![t] = rest]
       /\ cpu' = IF rest = <<>> THEN None ELSE t

Suspend(t, frames) ==
    /\ stack' = [stack EXCEPT ![t] = frames \o Tail(stack[t])]
    /\ cpu' = None

\* An error of the first frame unwinds to the xpcall of the innermost delobject
\* below it, else it ends the coroutine.
Unwind(s) ==
    LET caught == {i \in 2..Len(s) : s[i].pc = "deleted"}
        first  == CHOOSE i \in caught : \A j \in caught : i <= j
    IN IF caught = {} THEN <<>> ELSE SubSeq(s, first, Len(s))

RaiseLost(t) == cpu' = None /\ UNCHANGED stack    \* a mutated form of Raise

Raise(t) ==
    LET rest == Unwind(stack[t])
    IN /\ stack' = [stack EXCEPT ![t] = rest]
       /\ cpu' = IF rest = <<>> THEN None ELSE t

\* A message starts a coroutine: it runs at once, or its first call yields.
Free == {t \in Tasks : stack[t] = <<>>}
NextFree == CHOOSE t \in Free : \A u \in Free : t <= u

Spawn(frames) ==
    /\ cpu = None /\ Free # {}
    /\ stack' = [stack EXCEPT ![NextFree] = frames]
    /\ cpu' = NextFree

SpawnWaiting(frames) ==
    /\ cpu = None /\ Free # {}
    /\ stack' = [stack EXCEPT ![NextFree] = frames]
    /\ UNCHANGED cpu

----------------------------------------------------------------------------
(***************************************************************************)
(* playermgr                                                               *)
(***************************************************************************)
\* getplayer refreshes the __activetime of an offline object.
GetPlayer(p) ==
    idle' = IF id_obj[p] # None /\ StateOf(id_obj[p]) = "offline"
            THEN idle \ {id_obj[p]} ELSE idle

\* Mutated forms of AddObject: no fd mark; autosave of online players only.
AddObjectNoFd(p, o, s, agent) ==
    /\ id_obj' = [id_obj EXCEPT ![p] = o]
    /\ num' = num + 1
    /\ cnt' = [cnt EXCEPT ![Counter(s)] = @ + 1]
    /\ saving' = IF s = "link" THEN saving ELSE saving \cup {o}
    /\ UNCHANGED fd_id

AddObjectUnsaved(p, o, s, agent) ==
    /\ id_obj' = [id_obj EXCEPT ![p] = o]
    /\ fd_id' = IF agent = None THEN fd_id ELSE [fd_id EXCEPT ![agent] = p]
    /\ num' = num + 1
    /\ cnt' = [cnt EXCEPT ![Counter(s)] = @ + 1]
    /\ saving' = IF s = "online" THEN saving \cup {o} ELSE saving

\* addobject, past its assert: a player object goes under autosave.
AddObject(p, o, s, agent) ==
    /\ id_obj' = [id_obj EXCEPT ![p] = o]
    /\ fd_id' = IF agent = None THEN fd_id ELSE [fd_id EXCEPT ![agent] = p]
    /\ num' = num + 1
    /\ cnt' = [cnt EXCEPT ![Counter(s)] = @ + 1]
    /\ saving' = IF s = "link" THEN saving ELSE saving \cup {o}

\* Mutated forms of DropObject: num is left alone; only the object that is still
\* in the slot is counted out.
DropKeepsNum(p, o) ==
    /\ cnt' = [cnt EXCEPT ![Counter(StateOf(o))] = @ - 1]
    /\ id_obj' = [id_obj EXCEPT ![p] = None]
    /\ fd_id' = IF AgentOf(o) = None THEN fd_id
                ELSE [fd_id EXCEPT ![AgentOf(o)] = None]
    /\ UNCHANGED num

DropCountsOwn(p, o) ==
    /\ num' = IF id_obj[p] = o THEN num - 1 ELSE num
    /\ cnt' = IF id_obj[p] = o THEN [cnt EXCEPT ![Counter(StateOf(o))] = @ - 1] ELSE cnt
    /\ id_obj' = [id_obj EXCEPT ![p] = None]
    /\ fd_id' = IF AgentOf(o) = None THEN fd_id
                ELSE [fd_id EXCEPT ![AgentOf(o)] = None]

\* What delobject does once the object is saved: the slot of the pid is cleared
\* whatever object it holds by now.
DropObject(p, o) ==
    /\ num' = num - 1
    /\ cnt' = [cnt EXCEPT ![Counter(StateOf(o))] = @ - 1]
    /\ id_obj' = [id_obj EXCEPT ![p] = None]
    /\ fd_id' = IF AgentOf(o) = None THEN fd_id
                ELSE [fd_id EXCEPT ![AgentOf(o)] = None]

\* loginqueue.remove takes out the first entry of the pid only.
QueueRemove(p) ==
    LET hits  == {i \in 1..Len(queue) : queue[i].pid = p}
        first == CHOOSE i \in hits : \A j \in hits : i <= j
    IN queue' = IF hits = {} THEN queue
                ELSE SubSeq(queue, 1, first - 1)
                     \o SubSeq(queue, first + 1, Len(queue))

\* savetodatabase issues its writes in order and yields on each.
Save(o) == db' = [db EXCEPT ![obj[o].pid] = obj[o].data]

\* delobject(pid) of an unknown pid or a link never yields.
DelNothing(t) ==
    /\ Runs(t, "delobject")
    /\ LET p == stack[t][1].pid
       IN /\ id_obj[p] = None
          /\ QueueRemove(p)
    /\ Continue(t, <<>>)
    /\ UNCHANGED <<tables, reg, heap, world>>

DelLink(t) ==
    /\ Runs(t, "delobject")
    /\ LET p == stack[t][1].pid
       IN /\ id_obj[p] \in Agents
          /\ DropObject(p, id_obj[p])
          /\ QueueRemove(p)
    /\ Continue(t, <<>>)
    /\ UNCHANGED <<tables, heap, world>>

\* An online object is logged off and saved, and then frees its slot in the
\* login queue, before it is counted out.
DelOnline(t) ==
    /\ Runs(t, "delobject")
    /\ LET p == stack[t][1].pid
           o == id_obj[p]
       IN /\ o \in Players
          /\ obj[o].state = "online"
          /\ saving' = saving \ {o}
          /\ Suspend(t, << Frame("exitgame", None, o, None),
                           Frame("pop", None, None, None),
                           Frame("deleted", p, o, None) >>)
    /\ UNCHANGED <<tables, reg, obj, nobj, idle, queue, world>>

DelOfflineSaving(t) ==    \* a mutated form of DelOffline: no closesave
    /\ Runs(t, "delobject")
    /\ LET p == stack[t][1].pid
           o == id_obj[p]
       IN /\ o \in Players
          /\ obj[o].state = "offline"
          /\ Save(o)
          /\ Suspend(t, << Frame("saved", None, o, None),
                           Frame("deleted", p, o, None) >>)
    /\ UNCHANGED <<tables, reg, heap, queue, clock, tokened, gone>>

DelOffline(t) ==
    /\ Runs(t, "delobject")
    /\ LET p == stack[t][1].pid
           o == id_obj[p]
       IN /\ o \in Players
          /\ obj[o].state = "offline"
          /\ saving' = saving \ {o}
          /\ Save(o)
          /\ Suspend(t, << Frame("saved", None, o, None),
                           Frame("deleted", p, o, None) >>)
    /\ UNCHANGED <<tables, reg, obj, nobj, idle, queue, clock, tokened, gone>>

\* A cross-server placeholder has nosavetodatabase, so nothing yields.
DelKuafu(t) ==
    /\ Runs(t, "delobject")
    /\ LET p == stack[t][1].pid
           o == id_obj[p]
       IN /\ o \in Players
          /\ obj[o].state = "kuafu"
          /\ saving' = saving \ {o}
          /\ Continue(t, << Frame("deleted", p, o, None) >>)
    /\ UNCHANGED <<tables, reg, obj, nobj, idle, queue, world>>

Deleted(t) ==
    /\ Runs(t, "deleted")
    /\ LET f == stack[t][1]
       IN /\ DropObject(f.pid, f.src)
          /\ QueueRemove(f.pid)
    /\ Continue(t, <<>>)
    /\ UNCHANGED <<tables, heap, world>>

ExitGameUnsaved(t) ==    \* a mutated form of ExitGame: closesave was thought to save
    /\ Runs(t, "exitgame")
    /\ Suspend(t, << Frame("saved", None, stack[t][1].src, None) >>)
    /\ UNCHANGED <<tables, reg, heap, queue, world>>

\* cplayer:exitgame, once the calls of onlogoff are answered.
ExitGame(t) ==
    /\ Runs(t, "exitgame")
    /\ LET o == stack[t][1].src
       IN /\ Save(o)
          /\ Suspend(t, << Frame("saved", None, o, None) >>)
    /\ UNCHANGED <<tables, reg, heap, queue, clock, tokened, gone>>

\* The tail of savetodatabase: an offline object that is idle is unloaded.
Saved(t) ==
    /\ Runs(t, "saved")
    /\ LET o == stack[t][1].src
           p == obj[o].pid
       IN IF obj[o].state = "offline" /\ o \in idle
          THEN /\ GetPlayer(p)
               /\ Continue(t, IF id_obj[p] # None /\ StateOf(id_obj[p]) = "offline"
                              THEN << Frame("delobject", p, None, None) >>
                              ELSE <<>>)
          ELSE /\ UNCHANGED idle
               /\ Continue(t, <<>>)
    /\ UNCHANGED <<tables, reg, obj, nobj, saving, queue, world>>

\* loginqueue.pop lets the first waiting client in, if its object still exists.
Pop(t) ==
    /\ Runs(t, "pop")
    /\ IF queue = <<>>
       THEN /\ UNCHANGED queue
            /\ Continue(t, <<>>)
       ELSE LET v == Head(queue)
            IN /\ queue' = Tail(queue)
               /\ Continue(t, IF id_obj[v.pid] = None THEN <<>>
                              ELSE << Frame("recoverplayer", v.role, None, None),
                                      Frame("nettransfer", None, id_obj[v.pid], None) >>)
    /\ UNCHANGED <<tables, reg, heap, world>>

\* recoverplayer unloads an offline object first ...
Unload(t) ==
    /\ Runs(t, "recoverplayer")
    /\ LET p == stack[t][1].pid
       IN /\ GetPlayer(p)
          /\ IF id_obj[p] # None /\ StateOf(id_obj[p]) = "offline"
             THEN Continue(t, << Frame("delobject", p, None, None),
                                 Frame("newplayer", p, None, None) >>)
             ELSE Continue(t, << Frame("newplayer", p, None, None) >>)
    /\ UNCHANGED <<tables, reg, obj, nobj, saving, queue, world>>

\* Mutated forms of NewObject: in the state of a link; without its data.
NewObjectLink(p) ==
    /\ nobj < MaxObj
    /\ nobj' = nobj + 1
    /\ obj' = [obj EXCEPT ![nobj + 1] =
                 [pid |-> p, agent |-> None, state |-> "link", data |-> db[p]]]

NewObjectEmpty(p) ==
    /\ nobj < MaxObj
    /\ nobj' = nobj + 1
    /\ obj' = [obj EXCEPT ![nobj + 1] =
                 [pid |-> p, agent |-> None, state |-> "new", data |-> 0]]

NewObject(p) ==
    /\ nobj < MaxObj
    /\ nobj' = nobj + 1
    /\ obj' = [obj EXCEPT ![nobj + 1] =
                 [pid |-> p, agent |-> None, state |-> "new", data |-> db[p]]]

\* ... then makes a new one and waits for its data; the caller gets the object.
NewPlayer(t) ==
    /\ Runs(t, "newplayer")
    /\ Len(stack[t]) > 1
    /\ NewObject(stack[t][1].pid)
    /\ stack' = [stack EXCEPT ![t] =
                   << [stack[t][2] EXCEPT !.dst = nobj + 1] >>
                   \o SubSeq(stack[t], 3, Len(stack[t]))]
    /\ cpu' = None
    /\ UNCHANGED <<tables, reg, idle, saving, queue, world>>

\* A guest of another server: its home server is told where the player is.
SetHome(t) ==
    /\ Runs(t, "sethome")
    /\ LET f == stack[t][1]
       IN Suspend(t, << Frame("nettransfer", None, f.src, f.dst) >>)
    /\ UNCHANGED <<tables, reg, heap, queue, world>>

\* nettransfer asserts that the connection is still there, moves it to the
\* player object and deletes the object that stood for it.
NetTransfer(t) ==
    /\ Runs(t, "nettransfer")
    /\ LET f == stack[t][1]
           a == AgentOf(f.src)
       IN IF a = None \/ (a # None /\ conn[a] = None)
          THEN /\ Raise(t)
               /\ UNCHANGED obj
          ELSE /\ obj' = [obj EXCEPT ![f.dst].agent = a, ![f.dst].state = "online"]
               /\ Continue(t, << Frame("delobject", PidOf(f.src), None, None),
                                 Frame("addplayer", None, f.src, f.dst) >>)
    /\ UNCHANGED <<tables, reg, nobj, idle, saving, queue, world>>

CanAdd(o) == id_obj[obj[o].pid] = None    \* the assert of addobject

\* addobject of the player, then player:entergame, which yields.  connect.pid is
\* set in the entry found above: no effect if the entry is gone.
AddPlayer(t) ==
    /\ Runs(t, "addplayer")
    /\ LET o == stack[t][1].dst
           a == obj[o].agent
       IN /\ CanAdd(o)
          /\ AddObject(obj[o].pid, o, "online", a)
          /\ conn' = IF conn[a] = None THEN conn
                     ELSE [conn EXCEPT ![a] = obj[o].pid]
          /\ Suspend(t, << Frame("onlogin", None, None, o) >>)
    /\ UNCHANGED <<sock, auth, obj, nobj, idle, queue, world>>

AddOffline(t) ==
    /\ Runs(t, "addoffline")
    /\ LET o == stack[t][1].dst
       IN /\ CanAdd(o)
          /\ obj' = [obj EXCEPT ![o].state = "offline"]
          /\ AddObject(obj[o].pid, o, "offline", None)
          /\ idle' = idle \cup {o}
    /\ Continue(t, <<>>)
    /\ UNCHANGED <<tables, nobj, queue, world>>

AddKuafu(t) ==
    /\ Runs(t, "addkuafu")
    /\ LET o == stack[t][1].dst
       IN /\ CanAdd(o)
          /\ obj' = [obj EXCEPT ![o].state = "kuafu"]
          /\ AddObject(obj[o].pid, o, "kuafu", None)
    /\ Continue(t, <<>>)
    /\ UNCHANGED <<tables, nobj, idle, queue, world>>

\* "repeat object pid": the assert fails and the handler ends there.
AddRepeat(t) ==
    /\ \E pc \in {"addplayer", "addoffline", "addkuafu"} : Runs(t, pc)
    /\ ~CanAdd(stack[t][1].dst)
    /\ Raise(t)
    /\ UNCHANGED <<tables, reg, heap, queue, world>>

OnLogin(t) ==
    /\ Runs(t, "onlogin")
    /\ Continue(t, <<>>)
    /\ UNCHANGED <<tables, reg, heap, queue, world>>

KickSwapped(t) ==    \* a mutated form of Kick: the connection goes first
    /\ Runs(t, "kick")
    /\ LET p == stack[t][1].pid
       IN Continue(t, IF id_obj[p] = None THEN <<>>
                      ELSE << Frame("protokick", None, id_obj[p], None),
                              Frame("delobject", p, None, None) >>)
    /\ UNCHANGED <<tables, reg, heap, queue, world>>

\* playermgr.kick: the object is looked up before delobject, and its connection
\* is dropped after it.
Kick(t) ==
    /\ Runs(t, "kick")
    /\ LET p == stack[t][1].pid
       IN Continue(t, IF id_obj[p] = None THEN <<>>
                      ELSE << Frame("delobject", p, None, None),
                              Frame("protokick", None, id_obj[p], None) >>)
    /\ UNCHANGED <<tables, reg, heap, queue, world>>

ProtoKickKeeps(t) ==    \* a mutated form of ProtoKick: the entry stays
    /\ Runs(t, "protokick")
    /\ Continue(t, <<>>)
    /\ UNCHANGED <<tables, reg, heap, queue, world>>

ProtoKick(t) ==
    /\ Runs(t, "protokick")
    /\ LET a == AgentOf(stack[t][1].src)
       IN conn' = IF a = None THEN conn ELSE [conn EXCEPT ![a] = None]
    /\ Continue(t, <<>>)
    /\ UNCHANGED <<sock, auth, reg, heap, queue, world>>

\* The second half of CMD.close.
Closed(t) ==
    /\ Runs(t, "closed")
    /\ conn' = [conn EXCEPT ![stack[t][1].pid] = None]
    /\ Continue(t, <<>>)
    /\ UNCHANGED <<sock, auth, reg, heap, queue, world>>

\* gosrv and gohome send a token to the other server, which yields.  Then they
\* tell the client, if it still has an object, to connect there, and kick
\* whatever object the pid has by then.  A token for a link's pid opens nothing.
GoSrv(t) ==
    /\ Runs(t, "gosrv")
    /\ Suspend(t, << Frame("reentergame", stack[t][1].pid, None, None) >>)
    /\ UNCHANGED <<tables, reg, heap, queue, world>>

ReenterGame(t) ==
    /\ Runs(t, "reentergame")
    /\ LET p == stack[t][1].pid
       IN /\ gone' = gone \cup (Registered \cap Roles \cap {p})
          /\ Continue(t, << Frame("kick", p, None, None) >>)
    /\ UNCHANGED <<tables, reg, heap, queue, db, clock, tokened>>

\* The call of set_go_srvname or of addtoken fails: the handler ends there.
CallFails(t) ==
    /\ \E pc \in {"sethome", "reentergame"} : Runs(t, pc)
    /\ Raise(t)
    /\ UNCHANGED <<tables, reg, heap, queue, world>>

----------------------------------------------------------------------------
(***************************************************************************)
(* Messages and timers: each starts a handler.                             *)
(***************************************************************************)
\* CMD.start: a client connected.
Start(a) ==
    /\ cpu = None
    /\ sock[a] = "new"
    /\ sock' = [sock EXCEPT ![a] = "open"]
    /\ AddObject(a, a, "link", a)
    /\ conn' = [conn EXCEPT ![a] = a]
    /\ UNCHANGED <<auth, obj, nobj, idle, queue, world, stack, cpu>>

\* CMD.close: the socket was closed, by the client or after a kick.
Close(a) ==
    /\ sock[a] = "open"
    /\ sock' = [sock EXCEPT ![a] = "closed"]
    /\ IF conn[a] = None
       THEN cpu = None /\ UNCHANGED <<stack, cpu>>
       ELSE Spawn(<< Frame("delobject", conn[a], None, None),
                     Frame("closed", a, None, None) >>)
    /\ UNCHANGED <<conn, auth, reg, heap, queue, world>>

\* The object that onrequest finds for a client's request.
Requester(a) ==
    IF cpu = None /\ sock[a] = "open" /\ conn[a] # None
    THEN id_obj[conn[a]] ELSE None

\* The object has passlogin: a link after login, a player by transfer_mark.
PassLogin(a) ==
    LET o == Requester(a)
    IN o # None /\ IF o \in Agents THEN a \in auth ELSE obj[o].state = "online"

\* Bound: objects that the handlers and the queue may still create.
Loads == {ti \in Tasks \X (1..MaxDepth) :
            /\ ti[2] <= Len(stack[ti[1]])
            /\ stack[ti[1]][ti[2]].pc \in {"recoverplayer", "newplayer"}}

RoomToLoad == nobj + Len(queue) + Cardinality(Loads) < MaxObj

\* login and register: the account centre accepted the password.
Login(a) ==
    /\ Requester(a) = a
    /\ auth' = auth \cup {a}
    /\ UNCHANGED <<sock, conn, reg, heap, queue, world, stack, cpu>>

FullLate == cnt["online"] > OnlineLimit    \* a mutated form of Full

Full == cnt["online"] >= OnlineLimit

\* An object that asks for itself gets REPEAT_LOGIN.  A player object that asks
\* wants to change its role ("switch").
MayEnter(a, r) ==
    /\ Requester(a) \notin {None, id_obj[r]}
    /\ Requester(a) \in Players => "switch" \in Triggers

\* entergame: a client without a token waits while the server is full.
EnterQueued(a, r) ==
    /\ MayEnter(a, r) /\ PassLogin(a) /\ RoomToLoad
    /\ GetPlayer(r)
    /\ Full
    /\ Len(queue) < MaxQueue
    /\ queue' = Append(queue, [pid |-> PidOf(Requester(a)), role |-> r])
    /\ UNCHANGED <<tables, reg, obj, nobj, saving, world, stack, cpu>>

\* Otherwise the role's present object is kicked, the role is loaded and the
\* connection moves to it.  A role that is on another server is redirected there.
EnterGame(a, r) ==
    /\ MayEnter(a, r) /\ PassLogin(a)
    /\ GetPlayer(r)
    /\ ~Full
    /\ LET o    == Requester(a)
           old  == id_obj[r]
           away == old # None /\ StateOf(old) = "kuafu"
           kick == IF old = None THEN <<>> ELSE << Frame("kick", r, None, None) >>
       IN /\ away \/ RoomToLoad
          /\ Spawn(IF away
                   THEN kick \o << Frame("gosrv", PidOf(o), None, None) >>
                   ELSE kick \o << Frame("recoverplayer", r, None, None),
                                   Frame("nettransfer", None, o, None) >>)
    /\ UNCHANGED <<tables, reg, obj, nobj, saving, queue, world>>

\* With a token it neither waits nor is redirected.  On a fresh link the token
\* is one that another server gave; a guest (home) reports its arrival to its
\* home server.  Once passlogin is set any token will do, and no home is known.
EnterByToken(a, r, home) ==
    /\ MayEnter(a, r) /\ RoomToLoad
    /\ PassLogin(a) => ~home
    /\ tokened < MaxTokens
    /\ tokened' = tokened + 1
    /\ auth' = auth \cup {a}
    /\ GetPlayer(r)
    /\ LET old  == id_obj[r]
           kick == IF old = None THEN <<>> ELSE << Frame("kick", r, None, None) >>
       IN Spawn(kick \o << Frame("recoverplayer", r, None, None),
                           Frame(IF home THEN "sethome" ELSE "nettransfer",
                                 None, Requester(a), None) >>)
    /\ UNCHANGED <<sock, conn, reg, obj, nobj, saving, queue, db, clock, gone>>

\* exitgame: the player is logged off and saved, and stays registered.
ExitRequest(a) ==
    /\ "exit" \in Triggers
    /\ Requester(a) \in Players
    /\ SpawnWaiting(<< Frame("exitgame", None, Requester(a), None) >>)
    /\ UNCHANGED <<tables, reg, heap, queue, world>>

\* Any request of a player that changes the player's data, a handler that never
\* yields: it needs one of the bounded tasks, and is over at once.
Play(a) ==
    /\ PassLogin(a) /\ Requester(a) \in Players
    /\ Free # {}
    /\ clock < MaxPlay
    /\ clock' = clock + 1
    /\ obj' = [obj EXCEPT ![Requester(a)].data = clock + 1]
    /\ UNCHANGED <<tables, reg, nobj, idle, saving, queue, db, tokened, gone, stack, cpu>>

\* gosrv and gohome requests.
GoRequest(a) ==
    /\ "go" \in Triggers
    /\ PassLogin(a) /\ Requester(a) \in Players
    /\ SpawnWaiting(<< Frame("reentergame", PidOf(Requester(a)), None, None) >>)
    /\ UNCHANGED <<tables, reg, heap, queue, world>>

\* set_go_srvname, called by a server the role has arrived at: once or again.
SetGoSrv(r) ==
    /\ r \in gone /\ RoomToLoad
    /\ GetPlayer(r)
    /\ IF id_obj[r] = None
       THEN Spawn(<< Frame("recoverplayer", r, None, None),
                     Frame("addkuafu", r, None, None) >>)
       ELSE cpu = None /\ UNCHANGED <<stack, cpu>>  \* already marked, or the assert fails
    /\ UNCHANGED <<tables, reg, obj, nobj, saving, queue, world>>

\* gm kick, and kickall for each pid.
GmKick(p) ==
    /\ "gmkick" \in Triggers
    /\ id_obj[p] # None
    /\ Spawn(<< Frame("kick", p, None, None) >>)
    /\ UNCHANGED <<tables, reg, heap, queue, world>>

\* loadofflineplayer, called by gm, mail, friend and resume code.
LoadOffline(r) ==
    /\ "offline" \in Triggers
    /\ RoomToLoad
    /\ GetPlayer(r)
    /\ id_obj[r] = None
    /\ Spawn(<< Frame("newplayer", r, None, None),
                Frame("addoffline", r, None, None) >>)
    /\ UNCHANGED <<tables, reg, obj, nobj, saving, queue, world>>

\* The autosave timer of a registered object.
AutoSave(o) ==
    /\ "autosave" \in Triggers
    /\ o \in saving
    /\ IF obj[o].state = "kuafu" THEN cpu = None /\ UNCHANGED <<stack, cpu, db>>
       ELSE /\ Save(o)
            /\ SpawnWaiting(<< Frame("saved", None, o, None) >>)
    /\ UNCHANGED <<tables, reg, heap, queue, clock, tokened, gone>>

\* 300 seconds pass without anybody asking for an offline object: longer than
\* any database call, so not while the object is being saved.
GrowIdle(o) ==
    /\ cpu = None
    /\ o \in saving \ idle
    /\ obj[o].state = "offline"
    /\ \A t \in Tasks : \A i \in 1..Len(stack[t]) : stack[t][i].src # o
    /\ idle' = idle \cup {o}
    /\ UNCHANGED <<tables, reg, obj, nobj, saving, queue, world, stack, cpu>>

----------------------------------------------------------------------------
Init ==
    /\ sock   = [a \in Agents |-> "new"]
    /\ conn   = [a \in Agents |-> None]
    /\ auth   = {}
    /\ id_obj = [p \in Pids |-> None]
    /\ fd_id  = [a \in Agents |-> None]
    /\ obj    = [o \in Players |-> [pid |-> None, agent |-> None, state |-> "new", data |-> 0]]
    /\ nobj   = 0
    /\ idle   = {}
    /\ saving = {}
    /\ cnt    = [s \in States |-> 0]
    /\ num    = 0
    /\ queue  = <<>>
    /\ db     = [r \in Roles |-> 0]
    /\ clock  = 0
    /\ tokened = 0
    /\ gone   = {}
    /\ stack  = [t \in Tasks |-> <<>>]
    /\ cpu    = None

Step(t) ==
    \/ DelNothing(t) \/ DelLink(t) \/ DelOnline(t) \/ DelOffline(t) \/ DelKuafu(t)
    \/ Deleted(t) \/ ExitGame(t) \/ Saved(t) \/ Pop(t)
    \/ Unload(t) \/ NewPlayer(t) \/ SetHome(t) \/ NetTransfer(t)
    \/ AddPlayer(t) \/ AddOffline(t) \/ AddKuafu(t) \/ AddRepeat(t) \/ OnLogin(t)
    \/ Kick(t) \/ ProtoKick(t) \/ Closed(t) \/ GoSrv(t) \/ ReenterGame(t)
    \/ CallFails(t)

Client(a) ==
    \/ Start(a) \/ Close(a) \/ Login(a)
    \/ ExitRequest(a) \/ Play(a) \/ GoRequest(a)
    \/ \E r \in Roles : \/ EnterQueued(a, r) \/ EnterGame(a, r)
                        \/ \E home \in BOOLEAN : EnterByToken(a, r, home)

Server ==
    \/ \E r \in Roles : SetGoSrv(r) \/ LoadOffline(r)
    \/ \E p \in Pids : GmKick(p)
    \/ \E o \in Players : AutoSave(o) \/ GrowIdle(o)

\* Nothing is left to do: without this the end of a bounded run is a deadlock.
Quiet == Free = Tasks /\ UNCHANGED vars

Next ==
    \/ \E t \in Tasks : Step(t)
    \/ \E a \in Agents : Client(a)
    \/ Server
    \/ Quiet

Spec == Init /\ [][Next]_vars

FairSpec == Spec /\ \A t \in Tasks : SF_vars(Step(t))

----------------------------------------------------------------------------
FrameType == [pc : {"delobject", "deleted", "exitgame", "saved", "pop",
                    "recoverplayer", "newplayer", "sethome", "nettransfer",
                    "addplayer", "addoffline", "addkuafu", "onlogin", "kick",
                    "protokick", "closed", "gosrv", "reentergame"},
              pid : Pids \cup {None},
              src : Objs \cup {None},
              dst : Players \cup {None}]

\* The tables hold what the code puts in them: pids, objects, fds, handler frames.
TypeOK ==
    /\ sock \in [Agents -> {"new", "open", "closed"}]
    /\ conn \in [Agents -> Pids \cup {None}]
    /\ auth \subseteq Agents
    /\ id_obj \in [Pids -> Objs \cup {None}]
    /\ fd_id \in [Agents -> Pids \cup {None}]
    /\ obj \in [Players -> [pid : Roles \cup {None}, agent : Agents \cup {None},
                            state : {"new", "online", "offline", "kuafu"}, data : Nat]]
    /\ nobj \in 0..MaxObj
    /\ idle \subseteq Players
    /\ saving \subseteq Players
    /\ cnt \in [States -> Int]
    /\ num \in Int
    /\ queue \in Seq([pid : Pids, role : Roles])
    /\ db \in [Roles -> Nat]
    /\ clock \in Nat
    /\ tokened \in Nat
    /\ gone \subseteq Roles
    /\ stack \in [Tasks -> Seq(FrameType)]
    /\ cpu \in Tasks \cup {None}

(***************************************************************************)
(* Properties that hold however handlers overlap.                          *)
(***************************************************************************)
\* The comment on playermgr.num: it is the sum of the four counters.
CountersAgree == num = cnt["link"] + cnt["online"] + cnt["offline"] + cnt["kuafu"]

\* A registry slot that is emptied is always counted out, even when a delobject
\* that lost a race empties the slot of an object that came later.
NumNeverOvercounts == num <= Cardinality(Registered)

\* Links are counted exactly: deleting one never yields, so no second delobject
\* can count it out again, as happens to players.
LinkCountExact == cnt["link"] = Cardinality({a \in Agents : id_obj[a] = a})

\* A registered link still has its connection and its fd mark: no kick, close or
\* transfer that is delayed takes them away from it.
LinkConnected ==
    \A a \in Agents : id_obj[a] = a => conn[a] = a /\ fd_id[a] = a

\* An object whose deletion has begun is not under autosave again: a late timer
\* would write its data over that of the object that follows it.
DeletedNotSaved ==
    \A t \in Tasks : \A i \in 1..Len(stack[t]) :
        stack[t][i].pc = "deleted" => stack[t][i].src \notin saving

\* Every handler ends: by returning, or by an error.
HandlersEnd == \A t \in Tasks : stack[t] # <<>> ~> stack[t] = <<>>

(***************************************************************************)
(* Properties that hold when one handler runs at a time and no player asks *)
(* for another role.                                                       *)
(***************************************************************************)
NoTask == Free = Tasks

OnlineAt(p) == id_obj[p] # None /\ StateOf(id_obj[p]) = "online"

\* entergame kicks the role's old client: no role is played by two connections.
OneClientPerRole ==
    \A a, b \in Agents : conn[a] = conn[b] /\ conn[a] \in Roles => a = b

\* onlinenum, which decides who waits, counts the online players, as long as no
\* player asks for another role ("switch" is not among the Triggers): entergame
\* accepts that, and the count goes wrong even with one handler at a time.
OnlineExact == cnt["online"] = Cardinality({p \in Roles : OnlineAt(p)})

\* Between handlers the online limit is kept, whoever was kicked, let in from
\* the queue, or lost its connection on the way: only an entergame request that
\* carries a token goes beyond it, by one player each.  That is a client that
\* comes from another server, and also a client that is logged in already and
\* sends any token: entergame then looks at neither the limit nor the token.
LimitRespected == NoTask => cnt["online"] <= OnlineLimit + tokened

\* A client that is in the game has the object of its role, and its fd is marked.
\* (The converse fails: a client can be let in twice, by the queue while its own
\* entergame waits, and leaves an online object behind that has no connection.)
ClientInGame ==
    NoTask =>
    \A a \in Agents : conn[a] \in Roles =>
        LET r == conn[a] IN OnlineAt(r) /\ obj[id_obj[r]].agent = a /\ fd_id[a] = r

\* Between handlers exactly the registered players are under autosave.
AutosavedIffRegistered ==
    NoTask => saving = {id_obj[r] : r \in Registered \cap Roles}

\* No object writes data that is older than the data already saved.
NoStaleSave == [][\A r \in Roles : db'[r] >= db[r]]_db

(***************************************************************************)
(* What the code says of itself and does not keep.                         *)
(***************************************************************************)
\* The assert of addobject, "repeat object pid", never fails.
NoRepeatObject ==
    \A t \in Tasks :
        cpu \in {None, t} /\ stack[t] # <<>>
        /\ stack[t][1].pc \in {"addplayer", "addoffline", "addkuafu"}
        => CanAdd(stack[t][1].dst)

\* The comment above playermgr.init: every object of a player is in id_obj; so a
\* client that plays a role has an object there.
InGameRegistered ==
    NoTask => \A a \in Agents : conn[a] \in Roles => id_obj[conn[a]] # None

=============================================================================
