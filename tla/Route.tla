-------------------------------- MODULE Route --------------------------------
(***************************************************************************)
(* The directory of the cluster: clustermgr and route.  Every game server  *)
(* keeps, for each game server, the roles that live there; getsrvname and  *)
(* with it mail, friends and awards look a role up in it.  A server that   *)
(* finds another one connected sends it all its roles in batches, and      *)
(* sends each new role to the servers that are connected by then.          *)
(*                                                                         *)
(* A server is one process whose handlers wait at every cluster call.  A   *)
(* call is one step here: it is executed at its destination and answered,  *)
(* or it fails, because the destination is down or the link breaks.        *)
(***************************************************************************)
EXTENDS Integers, FiniteSets

CONSTANTS
    Servers,    \* the game servers of clustermgr.srvlist
    None,       \* Lua's nil
    Listed,     \* server -> the roles its database lists at first
    Step,       \* syncto: roles sent at once
    MaxPid,     \* bound: roles
    MaxCrash,   \* bound: crashes
    MaxLost     \* bound: calls that fail between two servers that are up

Pids == 1..MaxPid

ASSUME RouteAssumption ==
    /\ Listed \in [Servers -> SUBSET Pids]
    /\ \A s, t \in Servers : s # t => Listed[s] \cap Listed[t] = {}
    /\ Step \in Nat \ {0}
    /\ MaxPid \in Nat /\ MaxCrash \in Nat /\ MaxLost \in Nat
    /\ None \notin Servers

VARIABLES
    up,          \* the servers that run
    roles,       \* server -> the list "role" of its database
    map,         \* server -> server -> route.map
    sync_state,  \* server -> the servers that have finished their sync
    connection,  \* server -> clustermgr.connection
    asking,      \* server -> the servers its checkserver still has to ask
    target,      \* server -> the server it syncs its roles to, or None
    rest,        \* server -> the roles this sync still has to send
    casts,       \* addroutes under way: server, role, has its database answered,
                 \* servers told, servers connected since the loop began
    stale,       \* history: server -> connected servers that a call of it has
                 \* failed to reach, or that have restarted, unnoticed
    crashes, lost

checks == <<asking, target, rest>>
local  == <<map, sync_state, connection, checks, casts>>
vars   == <<up, roles, local, stale, crashes, lost>>

Created == UNION {roles[s] : s \in Servers}

Cast(s, p, sent, done, seen) ==
    [srv |-> s, pid |-> p, sent |-> sent, done |-> done, seen |-> seen]

Reached(c, t) == Cast(c.srv, c.pid, c.sent, c.done \cup {t}, c.seen)

Unseen(c, t) == Cast(c.srv, c.pid, c.sent, c.done, c.seen \ {t})

Replace(c, d) == casts' = (casts \ {c}) \cup {d}

LearnAsOwn(t, s, pids) == map' = [map EXCEPT ![t][t] = @ \cup pids]    \* a mutated form of Learn

\* CMD.addroute and addroute: routes are added, the database is not asked.
Learn(t, s, pids) == map' = [map EXCEPT ![t][s] = @ \cup pids]

\* The call fails: always when the server is down, else as often as links break.
Fails(t) ==
    \/ t \notin up /\ UNCHANGED lost
    \/ t \in up /\ lost < MaxLost /\ lost' = lost + 1

----------------------------------------------------------------------------
(***************************************************************************)
(* checkserver, every 60 seconds.                                          *)
(***************************************************************************)
CheckServerSelf(s) ==    \* a mutated form of CheckServer: it asks itself too
    /\ s \in up
    /\ asking[s] = {} /\ target[s] = None
    /\ asking' = [asking EXCEPT ![s] = Servers]
    /\ UNCHANGED <<target, rest, up, roles, map, sync_state, connection, casts, stale, crashes, lost>>

CheckServer(s) ==
    /\ s \in up
    /\ asking[s] = {} /\ target[s] = None
    /\ asking' = [asking EXCEPT ![s] = Servers \ {s}]
    /\ UNCHANGED <<target, rest, up, roles, map, sync_state, connection, casts, stale, crashes, lost>>

OnConnectQuiet(s, t) ==    \* a mutated form of OnConnect: syncto is not called
    /\ connection' = [connection EXCEPT ![s] = @ \cup {t}]
    /\ asking' = [asking EXCEPT ![s] = @ \ {t}]
    /\ UNCHANGED <<target, rest>>

\* onconnect: a server that was not connected gets all the roles of this one.
OnConnect(s, t) ==
    /\ connection' = [connection EXCEPT ![s] = @ \cup {t}]
    /\ asking' = [asking EXCEPT ![s] = @ \ {t}]
    /\ IF t \in connection[s] THEN UNCHANGED <<target, rest>>
       ELSE /\ target' = [target EXCEPT ![s] = t]
            /\ rest' = [rest EXCEPT ![s] = map[s][s]]

HeartbeatOk(s, t) ==
    /\ s \in up /\ t \in up
    /\ target[s] = None
    /\ t \in asking[s]
    /\ OnConnect(s, t)
    /\ UNCHANGED <<up, roles, map, sync_state, casts, stale, crashes, lost>>

\* disconnect: the connection is forgotten, the routes are kept.
HeartbeatFails(s, t) ==
    /\ s \in up
    /\ target[s] = None
    /\ t \in asking[s]
    /\ Fails(t)
    /\ asking' = [asking EXCEPT ![s] = @ \ {t}]
    /\ connection' = [connection EXCEPT ![s] = @ \ {t}]
    /\ casts' = {IF c.srv = s THEN Unseen(c, t) ELSE c : c \in casts}
    /\ stale' = [stale EXCEPT ![s] = @ \ {t}]
    /\ UNCHANGED <<up, roles, map, sync_state, target, rest, crashes>>

\* syncto: the next batch, in any order, and sync_finish after the last one.
Batches(pids) ==
    {b \in SUBSET pids : Cardinality(b) = Step} \cup
    (IF Cardinality(pids) < Step THEN {pids} ELSE {})

SyncBatch(s) ==
    /\ s \in up
    /\ LET t == target[s]
       IN /\ t \in up
          /\ rest[s] # {}
          /\ \E b \in Batches(rest[s]) :
                /\ Learn(t, s, b)
                /\ rest' = [rest EXCEPT ![s] = @ \ b]
    /\ UNCHANGED <<asking, target, up, roles, sync_state, connection, casts, stale, crashes, lost>>

SyncFinish(s) ==
    /\ s \in up
    /\ LET t == target[s]
       IN /\ t \in up
          /\ rest[s] = {}
          /\ sync_state' = [sync_state EXCEPT ![t] = @ \cup {s}]
    /\ target' = [target EXCEPT ![s] = None]
    /\ UNCHANGED <<asking, rest, up, roles, map, connection, casts, stale, crashes, lost>>

\* An error ends the whole sync; the server stays connected.
SyncFails(s) ==
    /\ s \in up
    /\ target[s] # None
    /\ Fails(target[s])
    /\ target' = [target EXCEPT ![s] = None]
    /\ rest' = [rest EXCEPT ![s] = {}]
    /\ stale' = [stale EXCEPT ![s] = @ \cup {target[s]}]
    /\ UNCHANGED <<up, roles, map, sync_state, connection, asking, casts, crashes>>

----------------------------------------------------------------------------
(***************************************************************************)
(* cplayer:create.                                                         *)
(***************************************************************************)
\* The role is written to the list of the database ...
CreateRole(s) ==
    /\ s \in up
    /\ \E p \in Pids \ Created :
        /\ \A q \in Pids \ Created : p <= q
        /\ roles' = [roles EXCEPT ![s] = @ \cup {p}]
        /\ casts' = casts \cup {Cast(s, p, FALSE, {}, {})}
    /\ UNCHANGED <<up, map, sync_state, connection, checks, stale, crashes, lost>>

AddRouteBefore(c) ==    \* a mutated form of AddRoute: only servers that have synced
    /\ c \in casts /\ ~c.sent
    /\ Learn(c.srv, c.srv, {c.pid})
    /\ Replace(c, Cast(c.srv, c.pid, TRUE, {}, connection[c.srv] \cap sync_state[c.srv]))
    /\ UNCHANGED <<up, roles, sync_state, connection, checks, stale, crashes, lost>>

\* ... and then addroute adds it here and goes through the connected servers.
AddRoute(c) ==
    /\ c \in casts /\ ~c.sent
    /\ Learn(c.srv, c.srv, {c.pid})
    /\ Replace(c, Cast(c.srv, c.pid, TRUE, {}, connection[c.srv]))
    /\ UNCHANGED <<up, roles, sync_state, connection, checks, stale, crashes, lost>>

CastTo(c, t) ==
    /\ c \in casts /\ c.sent
    /\ t \in connection[c.srv] \ c.done
    /\ t \in up
    /\ Learn(t, c.srv, {c.pid})
    /\ Replace(c, Reached(c, t))
    /\ UNCHANGED <<up, roles, sync_state, connection, checks, stale, crashes, lost>>

\* xpcall: the loop goes on with the next server.
CastFails(c, t) ==
    /\ c \in casts /\ c.sent
    /\ t \in connection[c.srv] \ c.done
    /\ Fails(t)
    /\ Replace(c, Reached(c, t))
    /\ stale' = [stale EXCEPT ![c.srv] = @ \cup {t}]
    /\ UNCHANGED <<up, roles, map, sync_state, connection, checks, crashes>>

CastEndsFirst(c) ==    \* a mutated form of CastEnds: the first server told ends the loop
    /\ c \in casts /\ c.sent
    /\ c.seen = {} \/ c.done # {}
    /\ casts' = casts \ {c}
    /\ UNCHANGED <<up, roles, map, sync_state, connection, checks, stale, crashes, lost>>

\* A server that connects while the loop waits may be left out of it: what Lua's
\* next does with keys added to the table is undefined.
CastEnds(c) ==
    /\ c \in casts /\ c.sent
    /\ c.seen \subseteq c.done
    /\ casts' = casts \ {c}
    /\ UNCHANGED <<up, roles, map, sync_state, connection, checks, stale, crashes, lost>>

\* If besides the key it stands on was taken out, next may raise an error.
CastBreaks(c) ==
    /\ c \in casts /\ c.sent
    /\ c.done \ connection[c.srv] # {}
    /\ connection[c.srv] \ c.seen # {}
    /\ casts' = casts \ {c}
    /\ stale' = [stale EXCEPT ![c.srv] = @ \cup (c.seen \ c.done)]
    /\ UNCHANGED <<up, roles, map, sync_state, connection, checks, crashes, lost>>

----------------------------------------------------------------------------
(***************************************************************************)
(* The processes.  A server keeps nothing but its database, and may be     *)
(* back before the others have missed a heartbeat.                         *)
(***************************************************************************)
Crash(s) ==
    /\ s \in up
    /\ crashes < MaxCrash
    /\ crashes' = crashes + 1
    /\ up' = up \ {s}
    /\ map' = [map EXCEPT ![s] = [t \in Servers |-> {}]]
    /\ sync_state' = [sync_state EXCEPT ![s] = {}]
    /\ connection' = [connection EXCEPT ![s] = {}]
    /\ asking' = [asking EXCEPT ![s] = {}]
    /\ target' = [target EXCEPT ![s] = None]
    /\ rest' = [rest EXCEPT ![s] = {}]
    /\ casts' = {c \in casts : c.srv # s}
    /\ stale' = [stale EXCEPT ![s] = {}]
    /\ UNCHANGED <<roles, lost>>

\* route.init reads the list of the database.
Restart(s) ==
    /\ s \notin up
    /\ up' = up \cup {s}
    /\ map' = [map EXCEPT ![s][s] = roles[s]]
    /\ stale' = [t \in Servers |-> IF s \in connection[t] THEN stale[t] \cup {s} ELSE stale[t]]
    /\ UNCHANGED <<roles, sync_state, connection, checks, casts, crashes, lost>>

----------------------------------------------------------------------------
Init ==
    /\ up         = Servers
    /\ roles      = Listed
    /\ map        = [s \in Servers |-> [t \in Servers |-> IF s = t THEN Listed[s] ELSE {}]]
    /\ sync_state = [s \in Servers |-> {}]
    /\ connection = [s \in Servers |-> {}]
    /\ asking     = [s \in Servers |-> {}]
    /\ target     = [s \in Servers |-> None]
    /\ rest       = [s \in Servers |-> {}]
    /\ casts      = {}
    /\ stale      = [s \in Servers |-> {}]
    /\ crashes    = 0
    /\ lost       = 0

Sync(s) == SyncBatch(s) \/ SyncFinish(s) \/ SyncFails(s)

Heartbeat(s, t) == HeartbeatOk(s, t) \/ HeartbeatFails(s, t)

Broadcast(c) ==
    \/ AddRoute(c)
    \/ \E t \in Servers : CastTo(c, t) \/ CastFails(c, t)
    \/ CastEnds(c)
    \/ CastBreaks(c)

Next ==
    \/ \E s \in Servers : CheckServer(s) \/ Sync(s) \/ CreateRole(s) \/ Crash(s) \/ Restart(s)
    \/ \E s, t \in Servers : Heartbeat(s, t)
    \/ \E c \in casts : Broadcast(c)

Spec == Init /\ [][Next]_vars

\* skynet fires its timers and answers or fails every call; a server that is down
\* is started again.
Fairness ==
    /\ \A s \in Servers : WF_vars(CheckServer(s)) /\ WF_vars(Sync(s)) /\ WF_vars(Restart(s))
    /\ \A s, t \in Servers : WF_vars(Heartbeat(s, t))
    /\ \A s \in Servers, p \in Pids :
          WF_vars(\E c \in casts : c.srv = s /\ c.pid = p /\ Broadcast(c))

FairSpec == Spec /\ Fairness

----------------------------------------------------------------------------
\* The tables name servers and roles; no server connects or syncs to itself.
TypeOK ==
    /\ up \subseteq Servers
    /\ roles \in [Servers -> SUBSET Pids]
    /\ map \in [Servers -> [Servers -> SUBSET Pids]]
    /\ sync_state \in [Servers -> SUBSET Servers]
    /\ connection \in [Servers -> SUBSET Servers]
    /\ asking \in [Servers -> SUBSET Servers]
    /\ target \in [Servers -> Servers \cup {None}]
    /\ rest \in [Servers -> SUBSET Pids]
    /\ \A s \in Servers : s \notin connection[s] /\ s \notin asking[s] /\ s # target[s]
    /\ \A c \in casts :
          c \in [srv : Servers, pid : Pids, sent : BOOLEAN,
                 done : SUBSET Servers, seen : SUBSET Servers]
    /\ stale \in [Servers -> SUBSET Servers]
    /\ crashes \in 0..MaxCrash
    /\ lost \in 0..MaxLost

\* getsrvname never sends anybody to a server that does not have the role, nor finds
\* two servers for it: whatever was lost, a route leads to the database that lists it.
RoutesSound ==
    \A s, t \in Servers :
        /\ map[s][t] \subseteq roles[t]
        /\ \A u \in Servers : u # t => map[s][t] \cap map[s][u] = {}

\* The sync of s to t, or a broadcast that may still reach t, is under way.
UnderWay(s, t) ==
    \/ target[s] = t
    \/ \E c \in casts : c.srv = s /\ t \in c.seen \ c.done

\* A connected server knows all the roles of this one, however syncs, new roles and
\* new connections interleave.  What breaks it is a call that failed or a restart
\* that no heartbeat has noticed: then nothing sends the routes again.
KnownUnlessStale ==
    \A s, t \in up :
        t \in connection[s] \ stale[s] /\ ~UnderWay(s, t) => map[s][s] \subseteq map[t][s]

\* A role becomes known to every server that stays up and in reach.
RoutesSpread ==
    \A s, t \in Servers : \A p \in Pids :
        s \in up /\ p \in map[s][s]
        ~> \/ p \in map[t][s]
           \/ s \notin up \/ t \notin up
           \/ t \in stale[s]

=============================================================================
