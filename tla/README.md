# Verification of gamesrv

`gamesrv` is a game server written in Lua on skynet. One service (`.MAINSRV`) of each game server runs nearly all
of the game: connections, logins, player objects, mail, teams, friends, activities. This directory holds TLA+ models
of its core, the TLC runs that check them, and TLAPS proofs about them.

All handlers of the main service share its Lua state. A handler (a client's request, a call of another server, a
timer) is a coroutine. It runs alone until it makes a call that yields: to the database service, to the account
centre by http, or to another server. Then any other handler may run, change the same tables, and yield in turn.
There are no locks. What can go wrong is therefore seldom in one handler and mostly in what two of them do to the
registry, the counters and the login queue around their yields; that is what these models are about.

Paths below are relative to `script/` of the repository.

## 1. Inventory

| component | state it keeps | operations | in contact with |
|---|---|---|---|
| playermgr (`playermgr.lua`) | `id_obj` pid -> object, `fd_id`, `num` and four counters, `tokens` | addobject, delobject, kick, getplayer, load/unload offline, recoverplayer, nettransfer, genpid, createplayer | everything |
| loginqueue (`loginqueue.lua`) | `queue` of {pid, roleid} | push, pop, remove | entergame pushes, delobject removes, ondisconnect pops |
| connections (`proto/init.lua`) | `connection` agent -> {pid, fd, sessions} | start, data, close, kick | agent services; playermgr |
| login (`net/login.lua`) | none of its own; `passlogin` of objects | register, login, createrole, entergame, exitgame | account centre (http), playermgr, loginqueue |
| cplayer (`player.lua`) | the player's data, `loadstate`, `__state`, `__activetime` | load, save, entergame, exitgame, disconnect | database, mail, scene, friend |
| saveobj (`base/saveobj.lua`) | `__saveobjs`, a save timer for each object | autosave, oncesave, nowsave, closesave, mergeto | every object that is stored |
| kuafu (`playermgr/kuafu.lua`, `net/kuafu.lua`) | `go_srvname`, `home_srvname`, state "kuafu" | gosrv, gohome, addkuafuplayer, set_go_srvname | the other game servers |
| votemgr (`vote/votemgr.lua`) | open votes, pid -> vote index | addvote, delvote, voteto, cancel_voteto, giveup_vote, quit_vote, check_timeout | callbacks of the code that adds votes |
| war matching (`cluster/warsrvmgr.lua`, `gamesrv.lua`, `warsrv.lua`) | profiles by level and by pid; wars; `fight.warid` of players | search, unsearch, allocer, createwar, startwar, endwar, giveupwar | three kinds of server, calls both ways |
| mail (`mail/`) | mailboxes by pid | load, unload, send, read, delete | database |
| resume, netcache (`resume/`, `base/netcache.lua`) | reference-counted summaries of players | getresume, addref, delref, sync | other servers |
| team (`team/`) | teams, members, applicants, match lists | create, join, apply, leave, quit, dismiss, automatch | scene, player |
| friend (`friend/frienddb.lua`) | friend and applicant lists | apply, agree, reject, delete | the other player, maybe abroad |
| ranks (`base/ranks.lua`) | sorted entries and index | add, del, update, sort | none |
| cluster (`cluster/route.lua`, `clustermgr.lua`, `rpc.lua`) | routes pid -> server, heartbeats | sync, addroute, delroute, checkserver | all servers |
| tasks, items, cards, awards, activities, scene, chat, gm | one player's data, or messages sent on | | |
| watchdog, agent, redisd, loggerd services | fd -> agent; one redis connection | open, close, kick; database commands | main service |

What is hard. *Interleaving*: delobject, entergame, recoverplayer, loadofflineplayer, pop and CMD.close all yield
between reading the registry and changing it. *Re-entrancy*: delobject saves the object, and saving an idle offline
object calls delobject; delobject logs a player off, which lets the next player in from the queue, in the middle of
the deletion. *Partial failure*: asserts end a handler half way; only delobject catches errors. *Servers*: a role
may be at home, under way, or on another server; a call between servers may fail, and a server may restart before the
others notice. *Timers*: autosave of an object that is being deleted.

What makes each component correct (components with a module have these stated as properties, section 4):

* playermgr: one object for each pid; the counters agree with the registry and with each other; the online limit is
  kept; no object outlives its registration under autosave; data never goes back to an older version.
* connections: a live link keeps its entry; one connection plays a role; an online player has a connection.
* loginqueue: whoever is let in gets its role; nobody is let in past the limit.
* handlers: every handler ends.
* votemgr: the index leads to open votes of their members; ballots are counted once; a decided vote does not stay
  open; an expired vote ends.
* war matching: a fight record names a war of that player; a profile is in one allocation at a time and its state only
  moves forward; a removal never hits a player who came earlier; a war's end is told after its start.
* routes: a route leads to the server whose database lists the role, and to no other; a connected server knows all the
  roles of this one; a new role becomes known to every server in reach.
* kuafu: nobody is a guest in its own home; while a guest plays abroad, its home has the mark, with the right server
  (the code keeps this only as long as no entergame meets another handler of the role); a client that is sent elsewhere
  is let in there.
* all of them, to the players: what a player did is there at the next login, and a role passes from one client to
  another by way of nobody.
* without a module: a mail that was sent is in the mailbox (mail); an object with references is in the table
  (resume); the index names the team a player is in, and the size limit holds (team); friendship is mutual (friend);
  the order is kept and the index is its inverse (ranks).

## 2. Plan

Written, each with its MC module: `Session`, with the abstract `RoleStore` that `SessionStore` shows it to implement;
`Vote`; `WarMatch`; `Route`; `Kuafu`. Proofs are in `SessionProofs`, `SessionCounts`, `SessionOverlap`, `SessionSerial`,
`VoteProofs`, `RouteProofs`, `KuafuProofs` and `WarMatchProofs`.

What is left, most important first:

1. `Mail`: mailboxes that are loaded and unloaded around database calls, with mail sent to a role on another server by
   way of its route.
2. `Resume`: reference counts of summaries that are loaded, synchronised and dropped across database calls.
3. `RoleCreation`: genpid and createplayer (`playermgr.lua:162-191`) under overlap. Route has what follows it, the
   listing of the new role.
4. `Friend` on top of `Route`: lists of two players, kept in step by calls that may cross servers.
5. `WarMatch` further: abandoned matches (a profile that is matched and never told), and a war that both players end,
   which takes four searches to happen twice.
6. Proofs: every invariant and action property of the runs has one. What is left is to prove more of session_serial
   with role switches (TLC finds only `OnlineExact` broken by them), and to say which pairs of handlers may overlap
   without harm.

A module that is proved about uses functions and folds, no RECURSIVE operator.

## 3. Modules

### Session

The main service of one game server, as far as connections and players are concerned. The variables are the code's
tables:

| variable | code |
|---|---|
| `sock`, `conn` | has the client's close message come; `proto.connection[agent].pid` |
| `auth` | links with `passlogin` |
| `id_obj`, `fd_id`, `cnt`, `num` | the same of playermgr; `cnt` is linknum, onlinenum, offlinenum, kuafunum |
| `obj`, `nobj` | the player objects made by `cplayer.new`: pid, `__agent`, `__state`, a version for all of the data |
| `idle` | offline objects that `savetodatabase` would unload (`__activetime` missing or over 300 s old) |
| `saving` | player objects in `__saveobjs` |
| `queue`, `db` | `loginqueue.queue`; role -> version of the stored data |
| `gone` | roles whose arrival another server may report, as often as it likes |
| `tokened`, `clock` | entergame requests that carried a token; changes of data so far |
| `stack`, `cpu` | the handlers in progress and the one that is running |

A link and its negative pid are both named by the agent they belong to (`cobject:init` makes one link for each
CMD.start, with a pid that is never used again). Versions stand for data: an object that is loaded has the stored
version, a request that changes the player gives the object a new one, a save stores the object's.

A handler is a stack of frames, the calls it has still to make, each with its pid and objects. Each frame is run by
one action, which reads and changes the tables as the code between two yields does, and then either goes on at once
with other frames (`Continue`, the handler keeps `cpu`) or waits for an answer (`Suspend`, `cpu` is free). `Raise` is
an error: it unwinds the stack to the xpcall in delobject (`playermgr.lua:106-115`) or ends the handler. So

* `delobject` is `DelNothing`, `DelLink`, `DelOnline`, `DelOffline` or `DelKuafu` by the object it finds, then
  `ExitGame`, `Saved`, `Pop` for the calls it makes, and `Deleted` for the part after them;
* `recoverplayer` is `Unload` and `NewPlayer`; `nettransfer` is `NetTransfer`, a `delobject` and `AddPlayer`;
* `entergame` is `EnterQueued`, `EnterGame` or `EnterByToken`, which start a handler with the frames kick,
  recoverplayer, (sethome,) nettransfer; `CMD.close` is `Close`, a `delobject` and `Closed`;
* `kick` is `Kick`, a `delobject` and `ProtoKick`; `gosrv` and `gohome` are `GoSrv` and `ReenterGame`;
* a call of set_go_srvname or addtoken that raises an error instead of its answer is `CallFails`.

`EnterByToken` is every entergame request that carries a token. On a fresh link the token has been accepted. On a link
that is logged in already (`passlogin`) entergame looks at the token no more (`net/login.lua:183`), so any token will do,
no home is told of the arrival, and the request is not compared with the limit either (200).

The environment is the clients (`Start`, `Close`, `Login`, `EnterGame`, `ExitRequest`, `Play`, `GoRequest`), other
servers (`EnterByToken`, `SetGoSrv`), gm commands and code that loads offline players (`GmKick`, `LoadOffline`), and
timers (`AutoSave`, `GrowIdle`).

Abstractions: the several writes of one save are one step, since they are issued in order by one handler and every
reader issues its reads through the same service; the calls made in `onlogin` and `onlogoff` are one yield each; a
role that is asked for exists in the database; the other server's part of a move is nondeterministic.

### SessionStore and RoleStore

`RoleStore` is what a game server promises, without objects, registries, handlers or a database: a role's data is one
value, one connection at a time plays it, and only play changes the value. `SessionStore` maps `Session` to it: the
value of a role (`Value`) is in the object registered for it, and in the database while there is none; its holder
(`Holder`) is the connection of its online object. `KeepsRoles` says that every step of Session is then a `Take`, a
`Release` or a `Play` of one role, or changes nothing, so that queue admissions, replacements, offline loads, idle
unloads and saves do not show. It holds when one handler runs at a time; the violations of section 5 are violations
of it when handlers overlap.

### Vote

`cvotemgr` for one type of vote (types share nothing but the id counter). A handler of it never yields, so each
operation is one action: `AddVote`, `Voteto`, `CancelVoteto`, `GiveupVote`, `QuitVote`, `CheckTimeout`, each ending
with `Update`, which is check_endvote and the delvote that follows. The votes and their callbacks come from callers;
`Elections` are the ones that may be added, with the supporters and abstentions they begin with, which newvote takes as they
are; that those fit the members (`BallotsFit`) is assumed of the caller. A `bad` election has a callback that raises an error,
which leaves the decided vote open and stops check_timeout where it is. Two variables are history: `shared` are players
whom a caller has put in two open votes, `unchecked` are votes that check_endvote has not looked at since they were added.

### WarMatch

Three kinds of server: warsrvmgr (`lv_profiles`, `pid_profile`, the profiles), the war servers (`wars` by warid,
`num`), and the players' game server (`fight`: what `fight.warid` and `fight.warsrvname` of a player's data say;
`loaded`: who has an object). `known` are the war servers that checkwarsrv has heard of.

`cluster.call` waits for its answer, and the server that waits serves others meanwhile. A timer or a request
therefore sets off a chain of calls: `stack[t]` holds the calls that chain t has still to make, across all servers.
`Allocer` starts a chain with one frame, the createwar that is tried server after server; `CreateWar` puts the two
start reports and the rest of startwar above it; `WarRequest` starts the chain of a request that ends a war
(`Finish`), which reports the end twice and then deletes the war (`DelWar`). `Raise` is an error: cluster.dispatch
answers with it, the caller raises it again, and so on up to the pcall in allocer, or to the end of the chain. Hence a
start report that fails makes allocer go to the next war server, and an end report that fails leaves the war in the
table. `Lose` is a call that fails on its way; `MaxLost` bounds them.

Abstractions: a profile is its pid, level, state, enemy and position; card play is whatever request finds the war over
(`giveupwar` can come at once); war servers are asked in any order, since the order comes from numbers up to a minute old;
each level is a timer of its own. A war server does not restart: warids would begin anew, and the fight records of its
lost wars would name new ones. A start report to a player without an object loads one (`StartWarPlayer`, then
`LoadPlayer`), and fails by the assert of addobject if the player has come meanwhile.

### Route

The directory of the cluster, on all servers.

| variable | code |
|---|---|
| `map`, `sync_state` | `route.map` and `route.sync_state` of each server (`cluster/route.lua`) |
| `connection` | `clustermgr.connection` of each server |
| `roles` | the list of roles in each server's database, which is all that a crash leaves |
| `asking`, `target`, `rest` | where checkserver and syncto of a server are: servers still to ask, the server they sync to, what is left to send |
| `casts` | the addroutes under way: each walks over `connection`, which changes while it waits |
| `up`, `crashes`, `lost` | which servers run; bounds |
| `stale` | history: connected servers that a call has failed to reach, or that have restarted unnoticed |

`CheckServer`, `HeartbeatOk` and `HeartbeatFails` are checkserver with onconnect and disconnect; `SyncBatch`,
`SyncFinish` and `SyncFails` are syncto; `CreateRole` is cplayer:create up to addroute, which is `AddRoute` and then
`CastTo` or `CastFails` for each server. The loop over `connection` is Lua's `next` over a table that others change:
what was in it all the time is visited (`seen`), what was added may be visited or not (`CastEnds`), and if the key it
stands on is removed while others are added, `next` may raise an error (`CastBreaks`). `Crash` and `Restart` are the
process; `Restart` is route.init. Every cluster call is one step, executed and answered or failed: nothing is known to
the caller of a call that was executed and whose answer was lost, and executing addroute again changes nothing.

Abstractions: the rounds of checkserver of one server do not overlap each other (a round would have to take a minute);
a role is listed at one server, as genpid hands out disjoint ranges; delroute is called by nothing.

### Kuafu

The journeys of one role, on all servers: `playermgr/kuafu.lua`, `net/kuafu.lua`, the tokens, and the part of
entergame that meets them. A server keeps one slot for the role: `state`, `who`, `go` and `home` are the object's
`__state`, connection, `go_srvname` and `home_srvname`.

| variable | code |
|---|---|
| `state`, `who`, `go`, `home` | the object in each server's `id_obj[pid]` |
| `deletes` | the delobjects that wait for their save: where, whose connection is dropped after it, who called it (`cause`) and for which connection; any number of one slot overlap |
| `tokens` | those of `playermgr.tokens` that a client was told: for the role or, by the redirect, for the link's pid, and with the home of a guest |
| `srv`, `open` | the server a connection is at; the connections that are not closed |
| `pc` | which answer the last request of a connection waits for |
| `pass` | `passlogin`, which a link keeps when its entergame fails |
| `via`, `target` | locals of a waiting handler: the token's `home_srvname`; the server and token of a move |
| `alone` | history, see below |

`EnterToken` and `EnterPassed` begin entergame, on a fresh link and on one with `passlogin`, where no token is looked at and
no home is known. `Deleted`, `Loaded`, `SetGo`, `Marked` and `Entered` are its parts after each wait; as a guest it calls
addkuafuplayer and set_go_srvname at home, which may refuse. Without a token a role that is marked as abroad is
redirected (`Redirected`). `GoSrv` and `GoHome` begin a move, `TokenAdded` ends it: reentergame goes to the connection of
whatever object is in the slot by then, and that object is kicked. Its client may use the token at once, keep the old
connection, or close it, which starts a second delobject beside the kick. `Deleted` empties the slot whatever is in it by
now. `CallFails`, `Close`, `LoadOffline`, `UnloadOffline` and `Expire` come at any time.

`alone` is true as long as no entergame has met another handler of the role: when it began, no other entergame and no
move was waiting, nothing was being deleted at its server, and the role was not played at another one (`Calm`); while it
runs no move begins (`MoveTo`) and nothing else begins to delete the role's object at its server (`Close`,
`UnloadOffline`); and the mark is set where no deletion is going on (`MarkedCalm`). Failed calls, retries, expired and
reused tokens, disconnects and the logoff of the server the guest comes from are all among those histories.

Abstractions and bounds: one role; a password login is made at home; a link does not ask for a move itself (it would get
the token that the redirect gets); a placeholder gets no requests; the answer of another server is lost only before its
handler begins or after it has ended; one request at a time unloads the offline object, which is loaded at home only;
`MaxTokens` counts tokens in force and moves under way. Saved data, the queue and the limit are in Session.

Session and Kuafu are two views of one component: Session has one server, several roles, the queue and the data, and
takes the other server's part as any possible one; Kuafu has all servers and one role. Both have overlapping deletions.
`go_srvname` and the state "kuafu" are in both. Route and Session meet in `cplayer:create`, whose list of roles `Route`
starts from.

### MCSession, MCVote, MCWarMatch, MCRoute, MCKuafu

Instances for TLC: symmetry of agents and roles (not in the liveness run), of players and war servers, of servers that
start without roles (not where liveness is checked), of servers that are not the role's home and
of the connections; the set of elections and
the roles listed at first.

### Mutated forms

A definition whose comment says "a mutated form of X" is X with a plausible slip: a guard dropped, an order swapped,
a reset missing. No action uses it. Each property of a passing run has one: with X's body replaced by it, TLC finds
that property violated, so the property does depend on X.

## 4. Runs

| run | instance | what it shows |
|---|---|---|
| session_overlap | 2 agents, 2 roles, 2 handlers at once, 2 player objects, queue of 1, one entry with a token | under every interleaving: `CountersAgree`, `NumNeverOvercounts`, `LinkCountExact`, `LinkConnected`, `DeletedNotSaved`, `TypeOK` |
| session_serial | 3 agents, 2 roles, one handler at a time, 3 objects, queue of 2, one change of data, two entries with a token, no role switch | when handlers do not overlap and no player asks for another role: `OneClientPerRole`, `OnlineExact`, `LimitRespected`, `ClientInGame`, `AutosavedIffRegistered`, `NoStaleSave` as an action property, and the refinement `KeepsRoles` |
| session_live | 2 agents, 1 role, 2 handlers, one entry with a token | `HandlersEnd`: every handler ends |
| session_repeat | 2 agents, 1 role, limit 1, one handler at a time | `NoRepeatObject` is violated (section 5) |
| session_erased | 2 agents, 1 role, 2 handlers | `InGameRegistered` is violated (section 5) |
| war | 2 players, 3 searches, 2 war servers with one war at a time, 2 chains, one lost call | `FightIsMember`, `PosNeverBefore`, `OneAllocation`, `StatesForward`, `TypeOK` |
| war_assert | 2 players, 2 searches, 1 war server, 2 chains, no lost call | `EndMatchesWar` is violated (section 5) |
| route | 2 servers, 3 roles (2 at one server at first), batches of 1, 2 crashes, 1 lost call | `RoutesSound`, `KnownUnlessStale`, `TypeOK`, and under `FairSpec` `RoutesSpread` |
| route_three | 3 servers, 2 roles, no crash, 1 lost call | `RoutesSound`, `KnownUnlessStale` while a broadcast walks over connections that change |
| kuafu | 2 connections, 3 servers, one token at a time | `NeverOwnGuest`, `AbroadMarked`, `TypeOK` |
| kuafu_tickets | the same | `TicketsAdmit` is violated (section 5) |
| vote | 3 members with 1, 2 and 3 votes, 6 kinds of election, 2 votes | `IndexSound`, `BallotsValid`, `OpenUndecided`, `MembersIndexed`, `TypeOK`, and `ExpiredEnd` |

Why two groups. With overlapping handlers much of what one expects of the registry is false. The second finding is
one case. Another is `NoStaleSave`: a load of an offline player that began before a session of that player and is
registered after it saves the older data. And the limit is compared long before the player is counted.
session_overlap checks what survives every interleaving; session_serial checks what the code promises when handlers
do not meet, and still has the re-entrant calls, the queue, errors, moves to other servers and every order of requests. It
has no role switches (a player that asks entergame for another role, which the code accepts): with them `OnlineExact` is
false even for one handler at a time (section 6). `LimitRespected` allows one player over the limit for each entergame
request with a token: entergame does not test the limit for it (`net/login.lua:200`), and on a link that is logged in
already it does not look at the token either (183).

Bounds. `MaxObj` bounds the objects made in one behaviour: two let an object and its successor overlap, three let a
role be replaced and the queue bring in a third. `MaxTasks` is two: every race found here is between two handlers.
`MaxDepth` only counts frames; no handler of these runs comes near 12. `OnlineLimit` is 1 so that the server is full
and the queue is used. `Triggers` names the optional messages that occur: role switches, exit requests, moves, kicks
by gm commands, offline loads, autosave. session_serial leaves out gm commands, whose kick it has from logins and
moves; session_overlap and session_live have them. `MaxPlay`, `MaxTokens` and `MaxQueue` bound what clients may
repeat. In Vote two votes suffice for members who are in two, and for one failing callback to stop another vote; the
kinds of election include one that begins with a supporter and a member who gave up, and one with a threshold of 0,
which is decided before anybody votes.

In `war` two searches make a war and the third is the one that follows it while the first war's reports are under way;
with `WarLimit` 0 a war server refuses while it has a war, so the loop of allocer reaches the second server both by a
refusal and by an error. Two chains are an allocation and a request, or two requests.

In `route` a server starts with two roles and sends one at a time, so that a sync has several batches, a third role is
created during it, a server restarts unnoticed, and one call fails. Two servers suffice for what one tells another; that a
broadcast leaves out a third server, or breaks, needs three servers, and `route_three` has those with a role created
at any point. `kuafu` has three servers, so that a role moves on from one foreign server to another while the reports of
both reach its home, and two connections, so that a client comes back while its old connection is there, another client logs
in, and two handlers and several deletions of one slot overlap. `MaxTokens` is 1: one move at a time is made, and its
token is in force until it expires; a role still makes any number of journeys, one after the other.

What `AbroadMarked` assumes. That the home of a guest has the mark is false in this code once an entergame meets
another handler of the role, and TLC finds it violated when `alone` is taken out of the property, with one connection
already. A password login at home removes the mark (`net/login.lua:218`) of a role that is played abroad. And a close
that overlaps the kick of a move, or an unload that overlaps the kick of an entergame, starts a second delobject, and
the later of the two erases the mark that an arrival has set in between (`playermgr.lua:126`). `alone` says that this
has not happened yet. A guest that was refused once and asks again on the same link is let in without being known as a
guest (`net/login.lua:183`, 227): `AbroadMarked` speaks of those that have a `home_srvname`, in every history.
`NeverOwnGuest` assumes none of this.

Deadlock is checked in Session: `Quiet` lets a bounded behaviour stop only when no handler is waiting, so a handler that
can never be resumed is a deadlock. MCVote switches the check off: when both votes have ended nothing may happen. So do the
runs of WarMatch: when the bounds are used up and a frame waits for a warid beyond `MaxWar`, the instance stops.

Fairness. `FairSpec` assumes strong fairness of `Step(t)` for each handler. skynet resumes coroutines in the order in
which their answers arrive, so a handler whose call is answered is resumed after finitely many others. That every
call is answered is an assumption about the database and the other servers; `service/redisd.lua:33-37` does not
answer a command that fails, and a handler that meets this waits for ever. `Route` assumes weak
fairness of `CheckServer` and of each heartbeat (the timer of checkserver is armed again before it asks anybody,
`cluster/clustermgr.lua:26`, and each server is asked under pcall), of `Sync` and of each broadcast (a call is
answered or fails), and of `Restart` (a server that is down is started again). It assumes nothing of `CreateRole`, `Crash`
or lost calls. `RoutesSpread` therefore says what a call that fails or a restart in between makes impossible, by
exempting `stale` servers, and nothing more. `Vote` assumes weak fairness of
`CheckTimeout`, which re-arms its timer before it does anything else (`vote/votemgr.lua:277`).

## 5. Where the code disagrees with itself

**A repeated object** (session_repeat). `playermgr.lua:76` asserts that a pid has no object when one is added. It fails
with one handler at a time: A1 plays r1, the server is full, A2 asks for r1 and is queued, because the limit is
tested (`net/login.lua:202`) before the old client is kicked (218). A1 leaves; in the middle of deleting r1's
object, ondisconnect (`player.lua:340`) lets A2 in, whose new object of r1 meets the old one. A2's link has been
deleted by then: the client has no object, is no longer queued, and its requests are ignored.

**An erased object** (session_erased). The comment at `playermgr.lua:268` says that every object of a player is in
`id_obj`. delobject yields and then clears the slot without looking (`playermgr.lua:126`). A close of the old client
and the kick by the new one both delete r1; the first lets the login go on, and the second erases the object that the
login has registered. The client is in the game, its requests are dropped, and it is neither kicked nor saved at
shutdown.

**An end before the start** (war_assert). `cluster/gamesrv.lua:40` asserts that the war that has ended is the player's
own. The start is reported to the attacker and then to the defenser (`war/init.lua:145-152`). The attacker is told and
gives up; the defenser is told of the end of a war whose start has not arrived. The assert fails, the war is never
deleted from its server (`war/warmgr.lua:47` is not reached), and a start report that is under way sets the defenser's
`fight.warid` to a war that is over. A neighbour of this line: `own_warsrvname` (39) is read and not used, and warids of
two war servers coincide, so that after a repeated createwar the end of one war takes its players out of the other.

**A ticket to nowhere** (kuafu_tickets). A client that logs in at home while its role is marked as abroad is sent after
it: `net/login.lua:222` calls gosrv with the connection object, as the comment at `playermgr/kuafu.lua:42` allows. gosrv
adds a token for that object's pid (43, 57), a negative number, and entergame at the other server compares the token's
pid with the role (`net/login.lua:187`): the client is refused, although the comment at `kuafu.lua:8-9` says that it is
let in by the token. The mark has been removed by then (218), so the next login plays the role at home.

**A client let in twice** (seen with 4 agents, 2 roles, a limit of 2, 4 objects and a queue of 2; no run, since it takes
too long for one). A client waits in the queue for r1. Places become free without it being let in: `loginqueue.remove`
(`loginqueue.lua:32-39`) takes out only the first entry of a pid, and a pop whose role is still registered raises the
error of the first finding. The client asks again, for r2, while the server is not full and r2 is online. Its entergame kicks
r2's client (`net/login.lua:218`), and ondisconnect lets the waiting client in as r1. Then its own entergame goes
on and gives the same connection, whose link is deleted by now, to the object of r2. The connection and `fd_id` say
r2; the object of r1 stays online with the connection's agent, without a mark, counted in onlinenum, and the close of
the connection deletes r2 only. The comment at `playermgr.lua:268-272` has every online object marked in `fd_id`.
`ClientInGame` says what is left: who has a connection has its object, not the converse.

**Entries past the limit and past the mark** (facts that the models have; no run, since no doc denies them). entergame
looks at a token only on a link without `passlogin` (`net/login.lua:183`), and lines 200 and 211 only ask whether one
was sent. So a client that is logged in by password and sends any token neither waits in the queue nor is sent after a
role that is abroad; the comment at 200 has authentication by token skip the queue. And a guest whose set_go_srvname
failed has `passlogin` from its first attempt (193): its second has no `token_cache`, so no home is told (227), and
the role plays abroad with no `home_srvname` and no mark. From there a gosrv to its real home takes it for a guest
(`playermgr/kuafu.lua:45-51`) whose home is the server it comes from. A mark can be lost in two more ways: by the
later of two overlapping delobjects (`playermgr.lua:126`), and by a password login at home while the role is played
abroad (218), where the comment at `playermgr/kuafu.lua:17-18` has the mark removed once the token of the way back is
authenticated.

Three more facts that the models keep. `cserver.getsrvname()` ignores its argument (`server.lua:134`), so a guest's
data is loaded from the database of the server it is at. A token is not deleted when it is used
(`playermgr.lua:241`), so it admits for all of its 300 seconds. And an offline object at home makes set_go_srvname
refuse a guest (`playermgr/kuafu.lua:104`), each attempt keeping it from being idle.

## 6. Theorems

The constants are arbitrary, under the assumptions that Session names: the bounds are natural numbers
(`BoundsAssumption`), agents, roles and nil are different things and no numbers (`NamesAssumption`), and there are
finitely many agents and roles (`FiniteAssumption`). So the results hold for any number of clients, roles, overlapping
handlers and objects.

* `TypeCorrect` (SessionProofs): `Spec => []TypeOK`.
* `CountersAlwaysAgree`, `NeverOvercounted`, `LinksCountedExactly` (SessionCounts): the counting invariants.

**Why an inductive invariant.** `TypeOK` is not inductive. It does not say that a waiting frame refers to an object
that has been made, or that a registered object is the one of its slot; without that, deleting what a frame names
would use an object that does not exist. `IInv` adds

* `StackInv`: every frame is good for its kind: what it names are pids, links or objects already made, and a frame
  that makes an object is above the frame that takes it;
* `RegGood`: the slot of a link holds that link, the slot of a role holds a made object of that role;
* `HeapType`: objects under autosave have been made, and a made object belongs to a role.

`SessionProofs` has one lemma for each action (`DelLinkInv`, `NewPlayerInv`, ...) on top of lemmas about stacks
(`ReplaceGood`, `RaiseGood`, `SpawnGood`, ...), which say that each way the scheduler changes a stack keeps it good,
and `NextInv` puts them together.

**Counting.** `SessionCounts` shows that each action either leaves the registry alone, or registers one object in an
empty slot and counts it, or empties a slot and counts one out (`Counted`, with `LinkIn`, `LinkOut`, `PlayerIn`,
`PlayerOut`). `CountInv` adds `Fresh`: a client that has not connected has no link. That `num` is the sum of the
counters follows for all four kinds of step. `num <= Cardinality(Registered)` holds because a step that registers uses
an empty slot, and a step that deletes takes at most one object out while it always subtracts one. `linknum` is exact
because a link is deleted in the step that finds it; for players the same equation is false, as the second
finding shows.

**Routes** (RouteProofs): `RouteTypeCorrect`, `RoutesAreSound`, `ConnectedServersKnow`, for any number of servers, roles,
crashes and lost calls and any batch size, from `RouteAssumption`: the lists of two servers are disjoint.
`RoutesSound` needs `Listing`: what a server holds as its own, sends in a sync or broadcasts is in its database's
list, and lists stay disjoint. `KnownUnlessStale` needs `Covered`: a role that a connected server does not know is in
the rest of a running sync, or in a broadcast that is still to visit that server, or the server is stale; and
`DownEmpty`: a server that is down has no connection, sync or broadcast, so that after a restart it starts from
nothing. Covered is the argument of the code: onconnect takes its list after the server is in `connection`, and a role
that is added later finds the server there.

**Votes** (VoteProofs): `VoteTypeCorrect`, `IndexAlwaysSound`, `BallotsAlwaysValid`, `MembersAlwaysIndexed`,
`OpenAlwaysUndecided`, which is every invariant that vote checks, for any elections and any number of votes. `IInv`
has the types of each open vote, its ballots, the index, and `Fresh`: ids not given out yet have no vote.
`VoteAssumption` says what newvote is called with, first ballots included, `FiniteAssumption` that its tables are
finite. `OpenUndecided` compares sums, which are folds: that a sum over a finite set is a natural number, and how it
changes with one element, is proved from the recursion of the fold and the induction over finite sets of numbers that
FiniteSetTheorems states for subsets. Every operation but addvote and cancel_voteto ends with check_endvote
(`Update`), so a vote that stays open has just been found undecided; a cancelled ballot takes votes away and leaves a
vote that could still be passed; a vote nobody touched has the same sums. A vote whose callback fails, and one that
was only added or cancelled in (`unchecked`), are exempt by the property.

**War matching** (WarMatchProofs): `WarTypeCorrect`, `FightsNameOwnWars`, `RemovalsHitNoOneEarlier`,
`AllocationsDisjoint`, `StatesOnlyForward`, which is every property that war checks, for any players, levels and war
servers, any number of profiles, wars, chains and lost calls, from `BoundsAssumption` and `NamesAssumption`. `IInv` is

* `MgrInv`: a pid leads to a profile of its own whose war has not ended. That is why no report takes a state back:
  startwar and endwar reach a profile through its pid only, and delprofile has cut that way when the war has ended;
* `PoolInv`: a pool is in the order of arrival, and nobody is further back than the stored position. delprofile only
  moves others forward and a new profile is put at the end, so both survive a removal at a wrong position;
* `WarInv`: a war server's `num` is exactly the number of its open wars, so that it never counts below zero although
  both players' requests may end one war;
* `FightInv` and `ChainInv`: a call that waits names a war that was made, and a start is reported only to a player of
  it; wars are never forgotten and keep their players (`GoodGrows`). The createwar of allocer is the call its chain
  began with, so what an error leaves of a chain (`Suffix`) is again such a chain;
* `AllocInv`: the profiles that a chain still has to find a war for have left the state ready for good, and chains
  hold different ones. The first half carries the second: allocer takes ready profiles, so none that is held.

**Moves** (KuafuProofs): `KuafuTypeCorrect`, `GuestsAreAbroad` and `GuestsAreMarked` are every property that kuafu checks, for
any number of servers, connections and tokens, from `KuafuAssumption` (nil is no server and no connection). `IInv` is what
holds whatever handlers meet: the shape of the slots, with no guest in its own home and no mark that leads to where it is
(`SlotInv`); tokens that make nobody a guest of its own home (`TokenInv`); nobody enters its own home as a guest, and no
move is on its way there (`ClientInv`); who waits for a deletion waits for nothing else (`DeleteInv`).

`CalmInv` is what holds besides while `alone` is true, and gives `AbroadMarked`: there is one entergame at most (`OneEnters`),
nobody plays while it waits, and at its server only its own deletion goes on (`EntersAlone`); a guest that is about to get
its object has told its home (`Told`, the order of addkuafuplayer, set_go_srvname and nettransfer in the code); no slot that is
being emptied holds a mark, and whoever plays in it is dropped (`Dropped`), so that a late delobject finds no mark; a
move is made by the object in the slot (`Owned`, `MoveUnmarked`). What a player's entry abroad leaves at home is `PlayedMarked`.

**Overlapping handlers** (SessionOverlap): `DeletedStaysUnsaved` and `LinksStayConnected` prove `DeletedNotSaved` and
`LinkConnected` for any number of handlers at once. `FreshInv` says of an object that was made and not yet registered:
one frame holds it (`HeldOnce`), it is not registered, not under autosave and not being deleted (`HeldFresh`); hence what
addobject puts under autosave is never an object whose deletion has begun (`DoomedUnsaved`). `LinkInv` says when a
connection may lose its entry: a handler that still has to drop it (`CallsLeave`) and an object that has its agent
(`AgentsLeave`) have seen the link leave, or leave next in the same run without a yield (`Going`); a link that is
registered has all of its marks (`Marked`).

**One handler at a time** (SessionSerial). `Serial` says that there is one handler (`MaxTasks = 1`) and that no player
asks for a role switch ("switch" is not in `Triggers`). With two handlers every one of the following properties is
false: TLC finds a counterexample to each. With a switch `OnlineExact` is: a player that waits in the queue for
another role and closes its connection lets itself in while it is deleted, and is then deleted, and counted out,
twice. Everything else is arbitrary: clients, roles, objects, the length of the queue, the limit, changes of data,
moves, entries with a token, the depth of the nested calls. The handler is one stack, and the invariants speak of its
frames by height, so that what is below the running call is left alone by it.

* `OneClientEach`, `OnlineCountExact`, `ClientsInGame`, `AutosavedExactly` come from `SerialInv`. `Shape` says how
  calls nest: no kick, close or move to a server waits above a deletion, an object that is held is near the top.
  `Deleting`: until the deletion of an online object ends, its slot holds it; that is false with two handlers and is
  what goes wrong there. `Cut` and `CutNext`: below the deletion of an online object is the call that cuts off its
  client. `Light`: the deletion of an object that is not online makes no one online. `RegState` and `SavingReg`: a
  player in a slot is under autosave until its deletion begins, and what is under autosave is in its slot. `Playing`
  is the induction hypothesis for clients: a connection that plays a role has its online object and its mark, or is
  cut off by the very next call. `AgentIffOnline`, `HeldState` and `QueueLinks` say what objects, frames and queue
  entries are. It is an invariant on top of `FreshInv` and `LinkInv`, which hold in any case.
* `SavesNeverGoBack` proves the action property `NoStaleSave` and needs `DataInv`: an object that waits to be
  registered has the data of the database (`HeldData`), a registered one is never behind it, and ahead of it only
  while online (`RegData`), a deletion has saved what it will erase (`DoomedData`), a logoff saves a registered object
  (`Leaving`), and versions are handed out in order (`ClockAhead`).
* `RolesAreKept` is the refinement: `Spec => KeepsRoles`. Each step of Session changes the slot of one role at most
  (`StepStill`). `Deleted` of an online object is `Release`, the `AddPlayer` of an object is `Take`, `Play` is `Play`;
  all others stutter: a load, an unload and a save move the role's data between the object and the database, which
  `DataInv` says are equal at that moment.
* `LimitKept` proves `LimitRespected` from `RoomKept`: onlinenum, plus the calls on the stack that bring a player
  online, minus the ends of deletions of online objects, is within the limit and the entergame requests with a token
  (`tokened`). onlinenum alone is not inductive: the queue lets a client in while the player who leaves is still
  counted, and a login is tested long before it is counted. The stack is counted height by height (`SurplusNext`); an
  error only takes away calls that come (`SurplusDrop`), since deletions catch it.

**Only model-checked**: the liveness properties `HandlersEnd`, `ExpiredEnd` and `RoutesSpread`, which need fairness and
are out of the prover's reach, and the four violations of section 5, which are counterexamples. Every invariant, action
property and refinement that a passing run checks has a theorem; those of session_serial carry the hypotheses
named above, and `AbroadMarked` carries `alone` in its statement.

## 7. Not modelled

Mail, resume with netcache, friend, overlapping role creation, and sessions of requests that the server sends are left
for the modules of section 2; their hazards are known and listed with the project. Team is not modelled because no
team is ever registered: `cplayer:teamstate` calls `teammgr.getteam(teamid)` with a dot (`player.lua:500`), so that
getteam indexes a number and raises, and `cteam:create` (`team/init.lua:93`) calls it before `createteam` gets to
addteam (`team/teammgr.lua:122-123`). The player keeps a teamid of no team, which the next getteamid clears
(`player.lua:508-528`). None is loaded either: `cteammgr:save` (53-61) returns nothing. Ranks is a pure insertion sort
that never yields. Of saveobj, oncesave and mergeto have no caller. Task, items and cards are one player's tables,
changed by one handler at a time. Card rules, heroes and scenes work on tables generated from spreadsheets and never
yield between a check and its use. Chat, notices, logging, time formatting, hotfix and console keep no state of
interest. rpc, forward and method calls look up a function and call it; the callers modelled here have their failures.
`3rd/` is vendored, and `daobiao/` is a build-time converter of spreadsheets with a vendored library.
