-------------------------------- MODULE Kuafu --------------------------------
(***************************************************************************)
(* The journeys of one role between game servers: playermgr/kuafu.lua,     *)
(* net/kuafu.lua, entergame of net/login.lua and the tokens of playermgr.  *)
(* A server keeps one slot for the role: nothing, the online object, an    *)
(* offline object loaded for somebody else's request, or the placeholder   *)
(* that marks the role as being abroad.                                    *)
(*                                                                         *)
(* A handler is a coroutine: pc says which answer the last request of a    *)
(* connection waits for, and any other handler of any server may run       *)
(* before it comes, another delobject of the same slot included.  A client *)
(* that is told to reenter may keep its old connection, close it or wait   *)
(* to be kicked, and any client may use the token it was told.             *)
(***************************************************************************)
EXTENDS FiniteSets, Naturals

CONSTANTS
    Servers,    \* the game servers
    Home,       \* the server whose database lists the role
    Conns,      \* connections of clients that log in to the role's account
    None,       \* Lua's nil
    MaxTokens   \* a bound: tokens in force and moves that make one

ASSUME KuafuAssumption == Home \in Servers /\ None \notin Servers \cup Conns

\* A token is for the role or, if a link asked for the move, for the link's own pid;
\* it names the home of a guest.
Tokens == [pid : {"role", "link"}, home : Servers \cup {None}]

Entering == {"kickold", "load", "setgo", "mark", "transfer"}   \* entergame waits
Moves    == {"gosrv", "gohome"}                                \* for addtoken's answer
Played   == Moves \cup {"online", "kick"}                      \* a player's connection

VARIABLES
    state,    \* server -> __state of the object in the slot, or "none"
    who,      \* server -> the connection the object has, or None
    go,       \* server -> its go_srvname, or None
    home,     \* server -> its home_srvname, or None
    deletes,  \* delobjects that wait for their save: server, connection to be dropped
              \* after it or None, who called it and for which connection
    tokens,   \* server -> those of playermgr.tokens that a client was told
    srv,      \* connection -> the server it or its handler is at, or None
    open,     \* the connections that are not closed
    pc,       \* connection -> what its last request is waiting for
    pass,     \* connections with passlogin
    via,      \* connection -> home_srvname of the token it is entering with, or None
    target,   \* connection -> where a move of it leads: a server and a token, or None
    alone     \* whether no entergame has met another handler of the role (Calm)

slots   == <<state, who, go, home>>
clients == <<srv, open, pc, pass, via, target>>
vars    == <<slots, deletes, tokens, clients, alone>>

FillWith(s, st, c, g, h) ==
    /\ state' = [state EXCEPT ![s] = st]
    /\ who' = [who EXCEPT ![s] = c]
    /\ go' = [go EXCEPT ![s] = g]
    /\ home' = [home EXCEPT ![s] = h]

Clear(s) == FillWith(s, "none", None, None, None)

Saved(s) == state[s] \in {"online", "offline"}

\* delobject: an object that is saved leaves its slot later, a placeholder at once.
Delete(s, agent, cause, c) ==
    /\ deletes' = IF Saved(s)
                  THEN deletes \cup {[srv |-> s, agent |-> agent, cause |-> cause, conn |-> c]}
                  ELSE deletes
    /\ IF state[s] = "kuafu" THEN Clear(s) ELSE UNCHANGED slots

Goto(c, p) == pc' = [pc EXCEPT ![c] = p]

\* The connection is closed, and no handler of it is left.
Leaves(c) ==
    /\ open' = open \ {c}
    /\ srv' = [srv EXCEPT ![c] = None]
    /\ pass' = pass \ {c}
    /\ via' = [via EXCEPT ![c] = None]
    /\ target' = [target EXCEPT ![c] = None]
    /\ Goto(c, "none")

\* The handler ends, and the connection is what it was before it: in particular a
\* link keeps its passlogin.
Ends(c, p) ==
    IF c \in open
    THEN /\ Goto(c, p)
         /\ via' = [via EXCEPT ![c] = None]
         /\ target' = [target EXCEPT ![c] = None]
         /\ UNCHANGED <<srv, open, pass>>
    ELSE Leaves(c)

\* The role is played at s: it is online there and not being logged off.
PlayedAt(s) == state[s] = "online" /\ \A x \in deletes : x.srv # s

\* An entergame that begins at s meets no other, no move that is being made, no
\* deletion at s, and the role is not played anywhere else.
Calm(s) ==
    /\ \A c \in Conns : pc[c] \notin Entering \cup Moves
    /\ \A x \in deletes : x.srv # s
    /\ \A t \in Servers \ {s} : ~PlayedAt(t)

NobodyEnters == \A c \in Conns : pc[c] \notin Entering

NobodyEntersAt(s) == \A c \in Conns : pc[c] \in Entering => srv[c] # s

----------------------------------------------------------------------------
(***************************************************************************)
(* Login                                                                   *)
(***************************************************************************)
\* A token leads its client to a server; by password it logs in at home.
Connect(c) ==
    /\ pc[c] = "none"
    /\ \A s \in Servers : who[s] # c
    /\ \A x \in deletes : c \notin {x.agent, x.conn}
    /\ \E s \in Servers :
          /\ s = Home \/ tokens[s] # {}
          /\ srv' = [srv EXCEPT ![c] = s]
    /\ open' = open \cup {c}
    /\ Goto(c, "link")
    /\ UNCHANGED <<slots, deletes, tokens, pass, via, target, alone>>

Login(c) ==
    /\ pc[c] = "link"
    /\ srv[c] = Home
    /\ pass' = pass \cup {c}
    /\ UNCHANGED <<slots, deletes, tokens, srv, open, pc, via, target, alone>>

\* The object of the role is kicked and saved before the role is loaded.
Enter(c, v) ==
    LET s == srv[c]
    IN /\ Delete(s, who[s], "enter", c)
       /\ Goto(c, IF Saved(s) THEN "kickold" ELSE "load")
       /\ pass' = pass \cup {c}
       /\ via' = [via EXCEPT ![c] = v]
       /\ alone' = (alone /\ Calm(s))
       /\ UNCHANGED <<tokens, srv, open, target>>

Accepted(t) == t.pid = "role"    \* token_cache.pid == roleid

\* Without passlogin the token must be one of this server's, for the role.
EnterToken(c) ==
    /\ pc[c] = "link"
    /\ c \notin pass
    /\ \E t \in tokens[srv[c]] : Accepted(t) /\ Enter(c, t.home)

Room == Cardinality(UNION {{s} \X tokens[s] : s \in Servers})
            + Cardinality({c \in Conns : target[c] # None}) < MaxTokens

\* With passlogin no token is looked at, and no home is known.  Without a token a
\* role that is marked as abroad loses its mark, and the client is sent after it.
EnterPassed(c, withToken) ==
    LET s == srv[c]
    IN /\ pc[c] = "link"
       /\ c \in pass
       /\ IF ~withToken /\ state[s] = "kuafu"
          THEN /\ Room
               /\ Clear(s)
               /\ target' = [target EXCEPT ![c] =
                                [srv |-> go[s], token |-> [pid |-> "link", home |-> s]]]
               /\ Goto(c, "redirect")
               /\ alone' = (alone /\ Calm(s))
               /\ UNCHANGED <<deletes, tokens, srv, open, pass, via>>
          ELSE Enter(c, None)

\* gosrv with the link: the token is for the link's pid, and the link is kicked.
Redirected(c) ==
    /\ pc[c] = "redirect"
    /\ tokens' = IF c \in open
                 THEN [tokens EXCEPT ![target[c].srv] = @ \cup {target[c].token}]
                 ELSE tokens
    /\ Leaves(c)
    /\ UNCHANGED <<slots, deletes, alone>>

\* nettransfer: the connection must be there and the slot be free.
Transfer(c) ==
    IF c \in open /\ state[srv[c]] = "none"
    THEN FillWith(srv[c], "online", c, None, via[c]) /\ Ends(c, "online")
    ELSE UNCHANGED slots /\ Ends(c, "lost")

\* recoverplayer has loaded the role: a guest's home is told first.
Loaded(c) ==
    /\ pc[c] = "load"
    /\ IF via[c] = None
       THEN Transfer(c)
       ELSE Goto(c, "setgo") /\ UNCHANGED <<slots, srv, open, pass, via, target>>
    /\ UNCHANGED <<deletes, tokens, alone>>

\* The mark is made where no deletion is going on.
MarkedCalm(h) == alone' = (alone /\ \A x \in deletes : x.srv # h)

SetGoUnchecked(c) ==    \* a mutated form of SetGo: any object takes the mark
    LET h == via[c]
    IN /\ pc[c] = "setgo"
       /\ IF state[h] # "none"
          THEN /\ go' = [go EXCEPT ![h] = srv[c]]
               /\ Goto(c, "transfer")
               /\ MarkedCalm(h)
               /\ UNCHANGED <<state, who, home>>
          ELSE /\ Goto(c, "mark")
               /\ UNCHANGED <<slots, alone>>
       /\ UNCHANGED <<deletes, tokens, srv, open, pass, via, target>>

\* set_go_srvname at the home server asserts that the object there is a mark; if
\* there is none, addkuafuplayer loads the role first.
SetGo(c) ==
    LET h == via[c]
    IN /\ pc[c] = "setgo"
       /\ \/ /\ state[h] = "kuafu"
             /\ go' = [go EXCEPT ![h] = srv[c]]
             /\ Goto(c, "transfer")
             /\ MarkedCalm(h)
             /\ UNCHANGED <<state, who, home, srv, open, pass, via, target>>
          \/ /\ state[h] = "none"
             /\ Goto(c, "mark")
             /\ UNCHANGED <<slots, srv, open, pass, via, target, alone>>
          \/ /\ Saved(h)
             /\ Ends(c, "link")
             /\ UNCHANGED <<slots, alone>>
       /\ UNCHANGED <<deletes, tokens>>

Marked(c) ==
    LET h == via[c]
    IN /\ pc[c] = "mark"
       /\ IF state[h] = "none"
          THEN /\ FillWith(h, "kuafu", None, srv[c], None)
               /\ Goto(c, "transfer")
               /\ MarkedCalm(h)
               /\ UNCHANGED <<srv, open, pass, via, target>>
          ELSE /\ Ends(c, "link")
               /\ UNCHANGED <<slots, alone>>
       /\ UNCHANGED <<deletes, tokens>>

Entered(c) ==
    /\ pc[c] = "transfer"
    /\ Transfer(c)
    /\ UNCHANGED <<deletes, tokens, alone>>

----------------------------------------------------------------------------
(***************************************************************************)
(* Moves                                                                   *)
(***************************************************************************)
\* Requests of a connection are made to the object in the slot.  Those to a
\* placeholder, which has no passlogin, are not modelled.
Playing(c) == pc[c] = "online" /\ state[srv[c]] = "online"

HomeOf(s) == IF home[s] = None THEN s ELSE home[s]

MoveTo(c, g, p, h) ==
    /\ Room
    /\ target' = [target EXCEPT ![c] = [srv |-> g, token |-> [pid |-> "role", home |-> h]]]
    /\ Goto(c, p)
    /\ alone' = (alone /\ NobodyEnters)
    /\ UNCHANGED <<slots, deletes, tokens, srv, open, pass, via>>

GoSrvAnywhere(c, g) ==    \* a mutated form of GoSrv: one's home is a destination
    /\ Playing(c)
    /\ g # srv[c]
    /\ MoveTo(c, g, "gosrv", HomeOf(srv[c]))

GoSrv(c, g) ==
    /\ Playing(c)
    /\ g # srv[c]
    /\ g # HomeOf(srv[c])
    /\ MoveTo(c, g, "gosrv", HomeOf(srv[c]))

GoHome(c) ==
    /\ Playing(c)
    /\ home[srv[c]] # None
    /\ MoveTo(c, home[srv[c]], "gohome", None)

\* The token is added at the other server: reentergame is sent to the connection of
\* the object that is in the slot by now, and that object is kicked.
TokenAdded(c) ==
    LET s == srv[c]
    IN /\ pc[c] \in Moves
       /\ tokens' = IF who[s] \in open
                    THEN [tokens EXCEPT ![target[c].srv] = @ \cup {target[c].token}]
                    ELSE tokens
       /\ Delete(s, who[s], "move", c)
       /\ IF Saved(s)
          THEN /\ Goto(c, "kick")
               /\ target' = [target EXCEPT ![c] = None]
               /\ UNCHANGED <<srv, open, pass, via>>
          ELSE Ends(c, "online")
       /\ UNCHANGED alone

----------------------------------------------------------------------------
(***************************************************************************)
(* Failed calls, deletions, disconnects, offline objects, the token timer  *)
(***************************************************************************)
\* A call of another server raises an error instead of its answer, before the other
\* server's handler has begun or after it has ended.
CallFails(c) ==
    /\ \/ pc[c] = "setgo" /\ Ends(c, "link")
       \/ pc[c] = "transfer" /\ via[c] # None /\ Ends(c, "link")
       \/ pc[c] = "redirect" /\ Ends(c, "link")
       \/ pc[c] \in Moves /\ Ends(c, "online")
    /\ UNCHANGED <<slots, deletes, tokens, alone>>

\* delobject empties the slot whatever is in it by now; the connection of the object
\* it was called for is dropped, and the handler that called it goes on.
Deleted(x) ==
    LET left    == open \ {x.agent}
        resumed == {c \in Conns : c = x.conn /\ x.cause = "enter"}
        moved   == {c \in Conns : c = x.conn /\ x.cause = "move"}
        gone    == (moved \ left) \cup {c \in Conns : c = x.agent /\ pc[c] = "online"}
    IN /\ x \in deletes
       /\ deletes' = deletes \ {x}
       /\ Clear(x.srv)
       /\ open' = left
       /\ pc' = [c \in Conns |-> IF c \in gone THEN "none"
                                 ELSE IF c \in resumed THEN "load"
                                 ELSE IF c \in moved THEN "online" ELSE pc[c]]
       /\ srv' = [c \in Conns |-> IF c \in gone THEN None ELSE srv[c]]
       /\ pass' = pass \ gone
       /\ UNCHANGED <<tokens, via, target, alone>>

\* The connection breaks, or its client closes it: a link is gone at once, a player
\* is deleted, which nothing keeps from happening while it is being kicked.
Close(c) ==
    /\ c \in open
    /\ IF pc[c] \in Played
       THEN /\ Delete(srv[c], None, "close", c)
            /\ alone' = (alone /\ NobodyEntersAt(srv[c]))
       ELSE UNCHANGED <<slots, deletes, alone>>
    /\ IF pc[c] \in {"link", "online", "lost"}
       THEN Leaves(c)
       ELSE /\ open' = open \ {c}
            /\ UNCHANGED <<srv, pc, pass, via, target>>
    /\ UNCHANGED tokens

\* Somebody else's request loads the role where its data is.
LoadOffline ==
    /\ state[Home] = "none"
    /\ FillWith(Home, "offline", None, None, None)
    /\ UNCHANGED <<deletes, tokens, clients, alone>>

\* A bound: one request at a time unloads it.
UnloadOffline ==
    /\ state[Home] = "offline"
    /\ \A x \in deletes : x.cause # "unload"
    /\ Delete(Home, None, "unload", None)
    /\ alone' = (alone /\ NobodyEntersAt(Home))
    /\ UNCHANGED <<tokens, clients>>

\* A token lasts 300 seconds, used or not.
Expire(s) ==
    /\ \E t \in tokens[s] : tokens' = [tokens EXCEPT ![s] = @ \ {t}]
    /\ UNCHANGED <<slots, deletes, clients, alone>>

----------------------------------------------------------------------------
Init ==
    /\ state = [s \in Servers |-> "none"]
    /\ who = [s \in Servers |-> None]
    /\ go = [s \in Servers |-> None]
    /\ home = [s \in Servers |-> None]
    /\ deletes = {}
    /\ tokens = [s \in Servers |-> {}]
    /\ srv = [c \in Conns |-> None]
    /\ open = {}
    /\ pc = [c \in Conns |-> "none"]
    /\ pass = {}
    /\ via = [c \in Conns |-> None]
    /\ target = [c \in Conns |-> None]
    /\ alone = TRUE

EnterGame(c) ==
    \/ EnterToken(c)
    \/ \E withToken \in BOOLEAN : EnterPassed(c, withToken)
    \/ Redirected(c) \/ Loaded(c) \/ SetGo(c) \/ Marked(c) \/ Entered(c)

Next ==
    \/ \E c \in Conns :
          \/ Connect(c) \/ Login(c) \/ EnterGame(c)
          \/ GoHome(c) \/ TokenAdded(c) \/ CallFails(c) \/ Close(c)
          \/ \E g \in Servers : GoSrv(c, g)
    \/ \E x \in deletes : Deleted(x)
    \/ LoadOffline
    \/ UnloadOffline
    \/ \E s \in Servers : Expire(s)

Spec == Init /\ [][Next]_vars

----------------------------------------------------------------------------
\* Slots, tokens and connections keep their shape: only a placeholder leads away,
\* and only an online object has a home and a connection.
TypeOK ==
    /\ state \in [Servers -> {"none", "online", "offline", "kuafu"}]
    /\ who \in [Servers -> Conns \cup {None}]
    /\ go \in [Servers -> Servers \cup {None}]
    /\ home \in [Servers -> Servers \cup {None}]
    /\ deletes \subseteq [srv : Servers, agent : Conns \cup {None},
                          cause : {"enter", "move", "close", "unload"}, conn : Conns \cup {None}]
    /\ tokens \in [Servers -> SUBSET Tokens]
    /\ srv \in [Conns -> Servers \cup {None}]
    /\ open \subseteq Conns
    /\ pc \in [Conns -> Entering \cup Played \cup {"none", "link", "lost", "redirect"}]
    /\ pass \subseteq Conns
    /\ via \in [Conns -> Servers \cup {None}]
    /\ target \in [Conns -> {None} \cup [srv : Servers, token : Tokens]]
    /\ alone \in BOOLEAN
    /\ \A c \in Conns : pc[c] = "none" <=> srv[c] = None
    /\ \A s \in Servers : go[s] # None <=> state[s] = "kuafu"
    /\ \A s \in Servers : home[s] # None => state[s] = "online"
    /\ \A s \in Servers : who[s] # None => state[s] = "online"

\* Nobody is a guest in its own home, no mark leads back to where it is, and no token
\* makes a guest of its own home: the asserts of a redirect (kuafu.lua:53) and of
\* gohome (kuafu.lua:78) never fail, whatever handlers meet, calls fail and guests
\* come in without a mark.
NeverOwnGuest ==
    /\ \A s \in Servers : home[s] # s /\ go[s] # s
    /\ \A s \in Servers : \A t \in tokens[s] : t.home # s

\* While a guest is known to be one and plays abroad its home server has the mark,
\* with the right server: whoever asks for the role at home is led to where it is.
\* This is said of histories in which no entergame meets another handler of the role
\* (Calm, NobodyEnters, MarkedCalm): otherwise a login at home removes the mark of a
\* role that is played abroad, and a late delobject erases it.
AbroadMarked ==
    alone => \A s \in Servers :
                PlayedAt(s) /\ home[s] # None
                    => state[home[s]] = "kuafu" /\ go[home[s]] = s

\* A client that is told where to go is let in there as long as its token lasts:
\* "GS1 authenticates by the token, and then lets C log in" (kuafu.lua:9).
TicketsAdmit == \A s \in Servers : \A t \in tokens[s] : Accepted(t)

=============================================================================
