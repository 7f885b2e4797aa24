----------------------------- MODULE KuafuProofs -----------------------------
(***************************************************************************)
(* Proofs about Kuafu, for any servers, any number of connections and any  *)
(* number of tokens: where marks, guests and tokens can be, whatever       *)
(* handlers meet; and that a guest is marked at home as long as no         *)
(* entergame meets another handler of the role.                            *)
(***************************************************************************)
EXTENDS Kuafu, TLAPS

States == {"none", "online", "offline", "kuafu"}
Steps  == Entering \cup Played \cup {"none", "link", "lost", "redirect"}
Causes == {"enter", "move", "close", "unload"}

DeleteType == [srv : Servers, agent : Conns \cup {None}, cause : Causes, conn : Conns \cup {None}]
MoveType   == [srv : Servers, token : Tokens]

SlotInv ==
    /\ state \in [Servers -> States]
    /\ who \in [Servers -> Conns \cup {None}]
    /\ go \in [Servers -> Servers \cup {None}]
    /\ home \in [Servers -> Servers \cup {None}]
    /\ \A s \in Servers : go[s] # None <=> state[s] = "kuafu"
    /\ \A s \in Servers : home[s] # None => state[s] = "online"
    /\ \A s \in Servers : who[s] # None => state[s] = "online"
    /\ \A s \in Servers : home[s] # s /\ go[s] # s

TokenInv ==
    /\ tokens \in [Servers -> SUBSET Tokens]
    /\ \A s \in Servers : \A t \in tokens[s] : t.home # s

\* Nobody enters its own home as a guest, and no move is on its way there.
ClientInv ==
    /\ srv \in [Conns -> Servers \cup {None}]
    /\ open \subseteq Conns
    /\ pc \in [Conns -> Steps]
    /\ pass \subseteq Conns
    /\ via \in [Conns -> Servers \cup {None}]
    /\ target \in [Conns -> {None} \cup MoveType]
    /\ alone \in BOOLEAN
    /\ \A c \in Conns : pc[c] = "none" <=> srv[c] = None
    /\ \A c \in Conns : pc[c] = "online" => c \in open
    /\ \A c \in Conns : pc[c] \in Entering => via[c] # srv[c]
    /\ \A c \in Conns : pc[c] \in {"setgo", "mark"} => via[c] # None
    /\ \A c \in Conns : pc[c] \in Moves \cup {"redirect"} =>
          /\ target[c] \in MoveType
          /\ target[c].srv # target[c].token.home

\* Who waits for a deletion waits for nothing else.
DeleteInv ==
    /\ deletes \subseteq DeleteType
    /\ \A x \in deletes : x.cause = "enter" => x.conn \in Conns /\ pc[x.conn] = "kickold"
    /\ \A x \in deletes : x.cause = "move" => x.conn \in Conns /\ pc[x.conn] = "kick"
    /\ \A x, y \in deletes :
          x.cause \in {"enter", "move"} /\ x.cause = y.cause /\ x.conn = y.conn => x = y

IInv == SlotInv /\ TokenInv /\ ClientInv /\ DeleteInv

\* While no entergame has met another handler: there is one entergame at most, nobody
\* plays while it waits, no move is being made, and at its server only its own
\* deletion goes on.
OneEnters == \A c, d \in Conns : pc[c] \in Entering /\ pc[d] \in Entering => c = d

EntersAlone ==
    \A c \in Conns :
        pc[c] \in Entering =>
            /\ \A d \in Conns : pc[d] \notin Moves
            /\ \A s \in Servers : ~PlayedAt(s)
            /\ \A x \in deletes : x.srv = srv[c] => x.cause = "enter"

\* A player's open connection is the one of the object in the slot.
Owned == \A c \in open : pc[c] \in Played => who[srv[c]] = c

\* No placeholder is in a slot that is being emptied, and whoever is in it with an open
\* connection is dropped by every deletion that is under way.
Dropped ==
    \A x \in deletes :
        /\ state[x.srv] # "kuafu"
        /\ who[x.srv] \in open => x.agent = who[x.srv]

MoveUnmarked == \A c \in Conns : pc[c] \in Moves => state[srv[c]] # "kuafu"

\* A guest enters once its home has the mark.
Told ==
    \A c \in Conns :
        pc[c] = "transfer" /\ via[c] # None
            => state[via[c]] = "kuafu" /\ go[via[c]] = srv[c]

PlayedMarked ==
    \A s \in Servers :
        PlayedAt(s) /\ home[s] # None => state[home[s]] = "kuafu" /\ go[home[s]] = s

CalmInv ==
    /\ OneEnters
    /\ EntersAlone
    /\ Owned
    /\ Dropped
    /\ MoveUnmarked
    /\ Told
    /\ PlayedMarked

AloneInv == alone => CalmInv

LEMMA InitInv == ASSUME Init PROVE IInv /\ AloneInv
<1> USE KuafuAssumption
<1>1. SlotInv
  BY DEF Init, SlotInv, States
<1>2. TokenInv /\ DeleteInv
  BY DEF Init, TokenInv, DeleteInv, DeleteType
<1>3. ClientInv
  BY DEF Init, ClientInv, Steps, Entering, Played, Moves
<1>4. CalmInv
  BY DEF Init, CalmInv, OneEnters, EntersAlone, Owned, Dropped, MoveUnmarked, Told,
         PlayedMarked, PlayedAt, Entering, Moves
<1> QED BY <1>1, <1>2, <1>3, <1>4 DEF IInv, AloneInv

----------------------------------------------------------------------------
(***************************************************************************)
(* Slots, the ends of handlers, and deletions                              *)
(***************************************************************************)
LEMMA FillSlot ==
    ASSUME SlotInv, NEW s \in Servers, NEW st \in States, NEW c \in Conns \cup {None},
           NEW g \in Servers \cup {None}, NEW h \in Servers \cup {None},
           g # None <=> st = "kuafu",
           h # None => st = "online",
           c # None => st = "online",
           h # s, g # s,
           FillWith(s, st, c, g, h)
    PROVE  SlotInv'
BY DEF SlotInv, FillWith

LEMMA ClearSlot ==
    ASSUME SlotInv, NEW s \in Servers, Clear(s)
    PROVE  SlotInv'
BY FillSlot, KuafuAssumption DEF Clear, States

LEMMA SameSlots ==
    ASSUME SlotInv, UNCHANGED slots
    PROVE  SlotInv'
BY DEF SlotInv, slots

LEMMA DeleteSlots ==
    ASSUME SlotInv, NEW s \in Servers, NEW agent, NEW cause, NEW c,
           Delete(s, agent, cause, c)
    PROVE  SlotInv'
BY ClearSlot, SameSlots DEF Delete

LEMMA LeavesKeeps ==
    ASSUME ClientInv, NEW c \in Conns, Leaves(c), alone' \in BOOLEAN
    PROVE  ClientInv'
BY KuafuAssumption DEF ClientInv, Leaves, Goto, Steps, Entering, Played, Moves

LEMMA EndsKeeps ==
    ASSUME ClientInv, NEW c \in Conns, NEW p \in {"link", "online", "lost"}, Ends(c, p),
           pc[c] # "none", alone' \in BOOLEAN
    PROVE  ClientInv'
<1>1. CASE c \in open
  BY <1>1, KuafuAssumption DEF ClientInv, Ends, Goto, Steps, Entering, Played, Moves
<1>2. CASE c \notin open
  BY <1>2, LeavesKeeps DEF Ends
<1> QED BY <1>1, <1>2

\* The other connections are not touched by the end of a handler.
LEMMA EndsOthers ==
    ASSUME ClientInv, NEW c \in Conns, NEW p, Leaves(c) \/ Ends(c, p)
    PROVE  /\ \A d \in Conns : d # c => pc'[d] = pc[d] /\ srv'[d] = srv[d] /\ via'[d] = via[d]
           /\ open' \subseteq open
           /\ c \in open' => pc'[c] = p /\ srv'[c] = srv[c]
           /\ pc'[c] \in {p, "none"}
<1>1. ASSUME Leaves(c)
      PROVE  /\ \A d \in Conns : d # c => pc'[d] = pc[d] /\ srv'[d] = srv[d] /\ via'[d] = via[d]
             /\ open' \subseteq open
             /\ c \notin open'
             /\ pc'[c] = "none"
  BY <1>1 DEF Leaves, Goto, ClientInv
<1>2. CASE Leaves(c)
  BY <1>1, <1>2
<1>3. CASE Ends(c, p) /\ c \notin open
  BY <1>1, <1>3 DEF Ends
<1>4. CASE Ends(c, p) /\ c \in open
  BY <1>4 DEF Ends, Goto, ClientInv
<1> QED BY <1>2, <1>3, <1>4

LEMMA SameDeletes ==
    ASSUME DeleteInv, UNCHANGED deletes,
           \A d \in Conns : pc[d] \in {"kickold", "kick"} => pc'[d] = pc[d]
    PROVE  DeleteInv'
<1>1. \A x \in deletes : x.cause = "enter" => x.conn \in Conns /\ pc'[x.conn] = "kickold"
  BY DEF DeleteInv
<1>2. \A x \in deletes : x.cause = "move" => x.conn \in Conns /\ pc'[x.conn] = "kick"
  BY DEF DeleteInv
<1> QED BY <1>1, <1>2 DEF DeleteInv

\* A handler that deletes an object waits for its save, and was not waiting before.
LEMMA DeleteKeeps ==
    ASSUME DeleteInv, NEW s \in Servers, NEW agent \in Conns \cup {None}, NEW cause \in Causes,
           NEW c \in Conns \cup {None},
           cause \in {"enter", "move"} => c \in Conns /\ pc[c] \notin {"kickold", "kick"},
           cause = "enter" /\ Saved(s) => pc'[c] = "kickold",
           cause = "move" /\ Saved(s) => pc'[c] = "kick",
           \A d \in Conns : pc[d] \in {"kickold", "kick"} => pc'[d] = pc[d],
           Delete(s, agent, cause, c)
    PROVE  DeleteInv'
<1> DEFINE x == [srv |-> s, agent |-> agent, cause |-> cause, conn |-> c]
<1>1. CASE Saved(s)
  <2>1. deletes' = deletes \cup {x}
    BY <1>1 DEF Delete
  <2>2. x \in DeleteType /\ x.cause = cause /\ x.conn = c
    BY DEF DeleteType
  <2> HIDE DEF x
  <2>3. \A y \in deletes : y.cause = "enter" => y.conn \in Conns /\ pc'[y.conn] = "kickold"
    BY DEF DeleteInv
  <2>4. \A y \in deletes : y.cause = "move" => y.conn \in Conns /\ pc'[y.conn] = "kick"
    BY DEF DeleteInv
  <2>5. \A y \in deletes' : y.cause = "enter" => y.conn \in Conns /\ pc'[y.conn] = "kickold"
    BY <1>1, <2>1, <2>2, <2>3
  <2>6. \A y \in deletes' : y.cause = "move" => y.conn \in Conns /\ pc'[y.conn] = "kick"
    BY <1>1, <2>1, <2>2, <2>4
  <2>7. \A y \in deletes : y.cause = cause /\ cause \in {"enter", "move"} => y.conn # c
    BY DEF DeleteInv
  <2>8. \A y, z \in deletes' :
            y.cause \in {"enter", "move"} /\ y.cause = z.cause /\ y.conn = z.conn => y = z
    BY <2>1, <2>2, <2>7 DEF DeleteInv
  <2>9. deletes' \subseteq DeleteType
    BY <2>1, <2>2 DEF DeleteInv
  <2> QED BY <2>5, <2>6, <2>8, <2>9 DEF DeleteInv
<1>2. CASE ~Saved(s)
  BY <1>2, SameDeletes DEF Delete
<1> QED BY <1>1, <1>2

----------------------------------------------------------------------------
(***************************************************************************)
(* Every step keeps the invariant                                          *)
(***************************************************************************)
LEMMA ConnectInv == ASSUME IInv, NEW c \in Conns, Connect(c) PROVE IInv'
<1> USE KuafuAssumption DEF IInv
<1>1. SlotInv' /\ TokenInv'
  BY SameSlots DEF Connect, TokenInv
<1>2. ClientInv'
  BY DEF Connect, ClientInv, Goto, Steps, Entering, Played, Moves
<1>3. DeleteInv'
  BY SameDeletes DEF Connect, Goto, ClientInv
<1> QED BY <1>1, <1>2, <1>3

LEMMA LoginInv == ASSUME IInv, NEW c \in Conns, Login(c) PROVE IInv'
<1> USE DEF IInv
<1>1. SlotInv' /\ TokenInv'
  BY SameSlots DEF Login, TokenInv
<1>2. ClientInv'
  BY DEF Login, ClientInv
<1>3. DeleteInv'
  BY SameDeletes DEF Login
<1> QED BY <1>1, <1>2, <1>3

LEMMA EnterInv ==
    ASSUME IInv, NEW c \in Conns, NEW v \in Servers \cup {None}, pc[c] = "link",
           v # srv[c], Enter(c, v)
    PROVE  IInv'
<1> USE KuafuAssumption DEF IInv
<1> DEFINE s == srv[c]
<1>1. s \in Servers
  BY DEF ClientInv
<1>2. SlotInv' /\ TokenInv'
  BY <1>1, DeleteSlots DEF Enter, TokenInv
<1>3. ClientInv'
  BY DEF Enter, ClientInv, Goto, Steps, Entering, Played, Moves
<1>4. who[s] \in Conns \cup {None}
  BY <1>1 DEF SlotInv
<1>5. /\ Saved(s) => pc'[c] = "kickold"
      /\ \A d \in Conns : pc[d] \in {"kickold", "kick"} => pc'[d] = pc[d]
  BY DEF Enter, Goto, ClientInv
<1>6. Delete(s, who[s], "enter", c)
  BY DEF Enter
<1> HIDE DEF s
<1>7. DeleteInv'
  BY <1>1, <1>4, <1>5, <1>6, DeleteKeeps DEF Causes
<1> QED BY <1>2, <1>3, <1>7

LEMMA EnterTokenInv == ASSUME IInv, NEW c \in Conns, EnterToken(c) PROVE IInv'
<1>1. pc[c] = "link" /\ srv[c] \in Servers
  BY KuafuAssumption DEF EnterToken, IInv, ClientInv
<1>2. PICK t \in tokens[srv[c]] : Enter(c, t.home)
  BY DEF EnterToken
<1>3. t.home \in Servers \cup {None} /\ t.home # srv[c]
  BY <1>1 DEF IInv, TokenInv, Tokens
<1> QED BY <1>1, <1>2, <1>3, EnterInv

LEMMA EnterPassedInv ==
    ASSUME IInv, NEW c \in Conns, NEW withToken \in BOOLEAN, EnterPassed(c, withToken)
    PROVE  IInv'
<1> USE KuafuAssumption
<1>1. pc[c] = "link" /\ srv[c] \in Servers /\ srv[c] # None
  BY DEF EnterPassed, IInv, ClientInv
<1>2. CASE Enter(c, None)
  BY <1>1, <1>2, EnterInv
<1>3. CASE ~withToken /\ state[srv[c]] = "kuafu"
  <2> DEFINE s == srv[c]
             m == [srv |-> go[s], token |-> [pid |-> "link", home |-> s]]
  <2>1. /\ Clear(s)
        /\ target' = [target EXCEPT ![c] = m]
        /\ Goto(c, "redirect")
        /\ alone' = (alone /\ Calm(s))
        /\ UNCHANGED <<deletes, tokens, srv, open, pass, via>>
    BY <1>3 DEF EnterPassed
  <2>2. go[s] \in Servers /\ go[s] # s
    BY <1>1, <1>3 DEF IInv, SlotInv
  <2>3. m \in MoveType /\ m.srv # m.token.home
    BY <1>1, <2>2 DEF MoveType, Tokens
  <2>4. SlotInv' /\ TokenInv'
    BY <1>1, <2>1, ClearSlot DEF IInv, TokenInv
  <2>5. DeleteInv'
    BY <1>1, <2>1, SameDeletes DEF IInv, ClientInv, Goto
  <2>6. alone' \in BOOLEAN
    BY <2>1 DEF IInv, ClientInv
  <2> HIDE DEF m
  <2>7. ClientInv'
    BY <1>1, <2>1, <2>3, <2>6 DEF IInv, ClientInv, Goto, Steps, Entering, Played, Moves
  <2> QED BY <2>4, <2>5, <2>7 DEF IInv
<1> QED BY <1>2, <1>3 DEF EnterPassed

\* A handler that does not wait for a deletion ends.
LEMMA EndsInv ==
    ASSUME IInv, NEW c \in Conns, NEW p \in {"link", "online", "lost"}, Ends(c, p),
           pc[c] \notin {"none", "kickold", "kick"},
           alone' \in BOOLEAN, UNCHANGED deletes
    PROVE  ClientInv' /\ DeleteInv'
<1>1. ClientInv'
  BY EndsKeeps DEF IInv
<1>2. \A d \in Conns : pc[d] \in {"kickold", "kick"} => pc'[d] = pc[d]
  BY EndsOthers DEF IInv
<1> QED BY <1>1, <1>2, SameDeletes DEF IInv

\* A token that is told is added where the move leads.
LEMMA TokenTold ==
    ASSUME IInv, NEW c \in Conns, pc[c] \in Moves \cup {"redirect"},
           \/ UNCHANGED tokens
           \/ tokens' = [tokens EXCEPT ![target[c].srv] = @ \cup {target[c].token}]
    PROVE  TokenInv'
<1>1. /\ target[c].srv \in Servers
      /\ target[c].token \in Tokens
      /\ target[c].token.home # target[c].srv
  BY DEF IInv, ClientInv, MoveType
<1> QED BY <1>1 DEF IInv, TokenInv

LEMMA RedirectedInv == ASSUME IInv, NEW c \in Conns, Redirected(c) PROVE IInv'
<1>1. SlotInv'
  BY SameSlots DEF Redirected, IInv
<1>2. TokenInv'
  BY TokenTold DEF Redirected
<1>3. ClientInv'
  BY LeavesKeeps DEF Redirected, IInv, ClientInv
<1>4. DeleteInv'
  BY SameDeletes, EndsOthers DEF Redirected, IInv
<1> QED BY <1>1, <1>2, <1>3, <1>4 DEF IInv

LEMMA TransferInv ==
    ASSUME IInv, NEW c \in Conns, pc[c] \in {"load", "transfer"}, Transfer(c),
           UNCHANGED <<deletes, tokens, alone>>
    PROVE  IInv'
<1> USE KuafuAssumption
<1>1. PICK p \in {"online", "lost"} : Ends(c, p)
  BY DEF Transfer
<1>2. ClientInv' /\ DeleteInv'
  BY <1>1, EndsInv DEF IInv, ClientInv
<1>3. TokenInv'
  BY DEF IInv, TokenInv
<1>4. srv[c] \in Servers /\ via[c] \in Servers \cup {None} /\ via[c] # srv[c]
  BY DEF IInv, ClientInv, Entering
<1>5. FillWith(srv[c], "online", c, None, via[c]) \/ UNCHANGED slots
  BY DEF Transfer
<1>6. SlotInv'
  BY <1>4, <1>5, FillSlot, SameSlots DEF IInv, States
<1> QED BY <1>2, <1>3, <1>6 DEF IInv

LEMMA LoadedInv == ASSUME IInv, NEW c \in Conns, Loaded(c) PROVE IInv'
<1>1. CASE via[c] = None
  BY <1>1, TransferInv DEF Loaded
<1>2. CASE via[c] # None
  <2>1. SlotInv' /\ TokenInv'
    BY <1>2, SameSlots DEF Loaded, IInv, TokenInv
  <2>2. ClientInv'
    BY <1>2, KuafuAssumption DEF Loaded, IInv, ClientInv, Goto, Steps, Entering, Played, Moves
  <2>3. DeleteInv'
    BY <1>2, SameDeletes DEF Loaded, IInv, ClientInv, Goto
  <2> QED BY <2>1, <2>2, <2>3 DEF IInv
<1> QED BY <1>1, <1>2

\* entergame waits for the answer of the home server, or of its load.
LEMMA GotoInv ==
    ASSUME IInv, NEW c \in Conns, NEW p \in {"mark", "transfer"}, Goto(c, p),
           pc[c] \in {"setgo", "mark"}, alone' \in BOOLEAN,
           UNCHANGED <<deletes, srv, open, pass, via, target>>
    PROVE  ClientInv' /\ DeleteInv'
<1>1. ClientInv'
  BY KuafuAssumption DEF IInv, ClientInv, Goto, Steps, Entering, Played, Moves
<1>2. DeleteInv'
  BY SameDeletes DEF IInv, ClientInv, Goto
<1> QED BY <1>1, <1>2

LEMMA SetGoInv == ASSUME IInv, NEW c \in Conns, SetGo(c) PROVE IInv'
<1> USE KuafuAssumption
<1> DEFINE h == via[c]
<1>1. pc[c] = "setgo" /\ srv[c] \in Servers /\ h \in Servers /\ h # srv[c]
  BY DEF SetGo, IInv, ClientInv, Entering
<1>2. TokenInv' /\ alone' \in BOOLEAN
  BY DEF SetGo, MarkedCalm, IInv, TokenInv, ClientInv
<1>3. CASE state[h] = "kuafu"
  <2>1. /\ go' = [go EXCEPT ![h] = srv[c]]
        /\ Goto(c, "transfer")
        /\ UNCHANGED <<state, who, home, srv, open, pass, via, target, deletes>>
    BY <1>3 DEF SetGo, Saved
  <2>2. SlotInv'
    BY <1>1, <1>3, <2>1 DEF IInv, SlotInv
  <2> QED BY <1>1, <1>2, <2>1, <2>2, GotoInv DEF IInv
<1>4. CASE state[h] = "none"
  <2>1. /\ Goto(c, "mark")
        /\ UNCHANGED <<slots, srv, open, pass, via, target, deletes>>
    BY <1>4 DEF SetGo, Saved
  <2> QED BY <1>1, <1>2, <2>1, SameSlots, GotoInv DEF IInv
<1>5. CASE Saved(h)
  <2>1. Ends(c, "link") /\ UNCHANGED <<slots, deletes>>
    BY <1>5 DEF SetGo, Saved
  <2> QED BY <1>1, <1>2, <2>1, SameSlots, EndsInv DEF IInv
<1> QED BY <1>3, <1>4, <1>5 DEF SetGo

LEMMA MarkedInv == ASSUME IInv, NEW c \in Conns, Marked(c) PROVE IInv'
<1> USE KuafuAssumption
<1> DEFINE h == via[c]
<1>1. pc[c] = "mark" /\ srv[c] \in Servers /\ h \in Servers /\ h # srv[c]
  BY DEF Marked, IInv, ClientInv, Entering
<1>2. TokenInv' /\ alone' \in BOOLEAN
  BY DEF Marked, MarkedCalm, IInv, TokenInv, ClientInv
<1>3. CASE state[h] = "none"
  <2>1. /\ FillWith(h, "kuafu", None, srv[c], None)
        /\ Goto(c, "transfer")
        /\ UNCHANGED <<srv, open, pass, via, target, deletes>>
    BY <1>3 DEF Marked
  <2>2. SlotInv'
    BY <1>1, <2>1, FillSlot DEF IInv, States
  <2> QED BY <1>1, <1>2, <2>1, <2>2, GotoInv DEF IInv
<1>4. CASE state[h] # "none"
  <2>1. Ends(c, "link") /\ UNCHANGED <<slots, deletes>>
    BY <1>4 DEF Marked
  <2> QED BY <1>1, <1>2, <2>1, SameSlots, EndsInv DEF IInv
<1> QED BY <1>3, <1>4

LEMMA EnteredInv == ASSUME IInv, NEW c \in Conns, Entered(c) PROVE IInv'
BY TransferInv DEF Entered

LEMMA MoveToInv ==
    ASSUME IInv, NEW c \in Conns, NEW g \in Servers, NEW p \in Moves, NEW h \in Servers \cup {None},
           Playing(c), g # h, MoveTo(c, g, p, h)
    PROVE  IInv'
<1> DEFINE m == [srv |-> g, token |-> [pid |-> "role", home |-> h]]
<1>1. /\ pc[c] = "online"
      /\ target' = [target EXCEPT ![c] = m]
      /\ Goto(c, p)
      /\ UNCHANGED <<slots, deletes, tokens, srv, open, pass, via>>
  BY DEF MoveTo, Playing
<1>2. m \in MoveType /\ m.srv # m.token.home
  BY DEF MoveType, Tokens
<1>3. alone' \in BOOLEAN
  BY DEF MoveTo, IInv, ClientInv
<1>4. SlotInv' /\ TokenInv'
  BY <1>1, SameSlots DEF IInv, TokenInv
<1>5. DeleteInv'
  BY <1>1, SameDeletes DEF IInv, ClientInv, Goto
<1> HIDE DEF m
<1>6. ClientInv'
  BY <1>1, <1>2, <1>3, KuafuAssumption
     DEF IInv, ClientInv, Goto, Steps, Entering, Played, Moves
<1> QED BY <1>4, <1>5, <1>6 DEF IInv

LEMMA GoSrvInv ==
    ASSUME IInv, NEW c \in Conns, NEW g \in Servers, GoSrv(c, g) PROVE IInv'
<1>1. pc[c] = "online" /\ srv[c] \in Servers
  BY KuafuAssumption DEF GoSrv, Playing, IInv, ClientInv
<1>2. HomeOf(srv[c]) \in Servers \cup {None}
  BY <1>1 DEF HomeOf, IInv, SlotInv
<1> QED BY <1>1, <1>2, MoveToInv DEF GoSrv, Moves

LEMMA GoHomeInv == ASSUME IInv, NEW c \in Conns, GoHome(c) PROVE IInv'
<1>1. pc[c] = "online" /\ srv[c] \in Servers
  BY KuafuAssumption DEF GoHome, Playing, IInv, ClientInv
<1>2. home[srv[c]] \in Servers
  BY <1>1 DEF GoHome, IInv, SlotInv
<1> QED BY <1>2, MoveToInv, KuafuAssumption DEF GoHome, Moves

LEMMA TokenAddedInv == ASSUME IInv, NEW c \in Conns, TokenAdded(c) PROVE IInv'
<1> USE KuafuAssumption
<1> DEFINE s == srv[c]
<1>1. pc[c] \in Moves /\ s \in Servers
  BY DEF TokenAdded, IInv, ClientInv, Moves
<1>2. Delete(s, who[s], "move", c)
  BY DEF TokenAdded
<1>3. SlotInv'
  BY <1>1, <1>2, DeleteSlots DEF IInv
<1>4. TokenInv'
  BY <1>1, TokenTold DEF TokenAdded
<1>5. alone' \in BOOLEAN /\ who[s] \in Conns \cup {None}
  BY <1>1 DEF TokenAdded, IInv, ClientInv, SlotInv
<1>6. CASE Saved(s)
  <2>1. /\ Goto(c, "kick")
        /\ target' = [target EXCEPT ![c] = None]
        /\ UNCHANGED <<srv, open, pass, via>>
    BY <1>6 DEF TokenAdded
  <2>2. ClientInv'
    BY <1>1, <1>5, <2>1 DEF IInv, ClientInv, Goto, Steps, Entering, Played, Moves
  <2>3. pc'[c] = "kick" /\ \A d \in Conns : pc[d] \in {"kickold", "kick"} => pc'[d] = pc[d]
    BY <1>1, <2>1 DEF IInv, ClientInv, Goto, Moves
  <2>4. pc[c] \notin {"kickold", "kick"}
    BY <1>1 DEF Moves
  <2> HIDE DEF s
  <2>5. DeleteInv'
    BY <1>1, <1>2, <1>5, <2>3, <2>4, DeleteKeeps DEF IInv, Causes
  <2> QED BY <1>3, <1>4, <2>2, <2>5 DEF IInv
<1>7. CASE ~Saved(s)
  <2>1. Ends(c, "online") /\ UNCHANGED deletes
    BY <1>2, <1>7 DEF TokenAdded, Delete
  <2>2. ClientInv' /\ DeleteInv'
    BY <1>1, <1>5, <2>1, EndsInv DEF Moves
  <2> QED BY <1>3, <1>4, <2>2 DEF IInv
<1> QED BY <1>6, <1>7

LEMMA CallFailsInv == ASSUME IInv, NEW c \in Conns, CallFails(c) PROVE IInv'
<1>1. PICK p \in {"link", "online"} : Ends(c, p)
  BY DEF CallFails
<1>2. pc[c] \notin {"none", "kickold", "kick"}
  BY DEF CallFails, Moves
<1>3. ClientInv' /\ DeleteInv'
  BY <1>1, <1>2, EndsInv DEF CallFails, IInv, ClientInv
<1>4. SlotInv' /\ TokenInv'
  BY SameSlots DEF CallFails, IInv, TokenInv
<1> QED BY <1>3, <1>4 DEF IInv

\* After a deletion its connection is gone, and its handler waits for it no longer.
LEMMA DeletedSteps ==
    ASSUME IInv, NEW x \in deletes, Deleted(x), NEW c \in Conns
    PROVE  /\ \/ pc'[c] = pc[c] /\ srv'[c] = srv[c] /\ ~(pc[c] = "online" /\ c = x.agent)
              \/ /\ pc'[c] = "load" /\ pc[c] = "kickold" /\ srv'[c] = srv[c]
                 /\ c = x.conn /\ x.cause = "enter"
              \/ /\ pc'[c] = "online" /\ pc[c] = "kick" /\ srv'[c] = srv[c]
                 /\ c = x.conn /\ x.cause = "move" /\ c \in open /\ c # x.agent
              \/ /\ pc'[c] = "none" /\ srv'[c] = None
                 /\ \/ pc[c] = "kick" /\ c = x.conn /\ x.cause = "move"
                    \/ pc[c] = "online" /\ c = x.agent
           /\ open' = open \ {x.agent}
<1>1. /\ c = x.conn /\ x.cause = "enter" => pc[c] = "kickold"
      /\ c = x.conn /\ x.cause = "move" => pc[c] = "kick"
  BY DEF IInv, DeleteInv
<1> QED BY <1>1 DEF Deleted

LEMMA DeletedInv == ASSUME IInv, NEW x \in deletes, Deleted(x) PROVE IInv'
<1> USE KuafuAssumption
<1>1. x \in DeleteType
  BY DEF IInv, DeleteInv
<1>2. SlotInv' /\ TokenInv'
  BY <1>1, ClearSlot DEF Deleted, IInv, TokenInv, DeleteType
<1>3. ClientInv'
  <2>1. /\ pc' \in [Conns -> Steps]
        /\ srv' \in [Conns -> Servers \cup {None}]
    BY DEF Deleted, IInv, ClientInv, Steps, Entering, Played
  <2>2. /\ open' \subseteq Conns /\ pass' \subseteq Conns /\ alone' \in BOOLEAN
        /\ via' = via /\ target' = target
    BY DEF Deleted, IInv, ClientInv
  <2>3. \A c \in Conns : pc'[c] = "none" <=> srv'[c] = None
    BY DeletedSteps DEF IInv, ClientInv
  <2>4. \A c \in Conns : pc'[c] = "online" => c \in open'
    BY DeletedSteps DEF IInv, ClientInv
  <2>5. \A c \in Conns : pc'[c] \in Entering => via'[c] # srv'[c]
    BY <2>2, DeletedSteps DEF IInv, ClientInv, Entering
  <2>6. \A c \in Conns : pc'[c] \in {"setgo", "mark"} \cup Moves \cup {"redirect"} => pc'[c] = pc[c]
    BY DeletedSteps DEF Moves
  <2> QED BY <2>1, <2>2, <2>3, <2>4, <2>5, <2>6 DEF IInv, ClientInv
<1>4. DeleteInv'
  <2>1. deletes' = deletes \ {x}
    BY DEF Deleted
  <2>2. ASSUME NEW y \in deletes', y.cause = "enter"
        PROVE  y.conn \in Conns /\ pc'[y.conn] = "kickold"
    <3>1. y.conn \in Conns /\ pc[y.conn] = "kickold"
      BY <2>1, <2>2 DEF IInv, DeleteInv
    <3>2. ~(y.conn = x.conn /\ x.cause = "enter")
      BY <2>1, <2>2 DEF IInv, DeleteInv
    <3> QED BY <3>1, <3>2, DeletedSteps
  <2>3. ASSUME NEW y \in deletes', y.cause = "move"
        PROVE  y.conn \in Conns /\ pc'[y.conn] = "kick"
    <3>1. y.conn \in Conns /\ pc[y.conn] = "kick"
      BY <2>1, <2>3 DEF IInv, DeleteInv
    <3>2. ~(y.conn = x.conn /\ x.cause = "move")
      BY <2>1, <2>3 DEF IInv, DeleteInv
    <3> QED BY <3>1, <3>2, DeletedSteps
  <2> QED BY <2>1, <2>2, <2>3 DEF IInv, DeleteInv
<1> QED BY <1>2, <1>3, <1>4 DEF IInv

\* What a closed connection leaves behind in its slot.
LEMMA CloseSlots ==
    ASSUME IInv, NEW c \in Conns, Close(c), ClientInv',
           \A d \in Conns : pc[d] \in {"kickold", "kick"} => pc'[d] = pc[d]
    PROVE  IInv'
<1> USE KuafuAssumption
<1>1. TokenInv'
  BY DEF Close, IInv, TokenInv
<1>2. CASE pc[c] \in Played
  <2>1. srv[c] \in Servers /\ Delete(srv[c], None, "close", c)
    BY <1>2 DEF Close, IInv, ClientInv, Played, Moves
  <2>2. SlotInv'
    BY <2>1, DeleteSlots DEF IInv
  <2>3. DeleteInv'
    BY <2>1, DeleteKeeps DEF IInv, Causes
  <2> QED BY <1>1, <2>2, <2>3 DEF IInv
<1>3. CASE pc[c] \notin Played
  BY <1>1, <1>3, SameSlots, SameDeletes DEF Close, IInv
<1> QED BY <1>2, <1>3

LEMMA CloseInv == ASSUME IInv, NEW c \in Conns, Close(c) PROVE IInv'
<1> USE KuafuAssumption
<1>1. CASE pc[c] \in {"link", "online", "lost"}
  <2>1. Leaves(c) /\ alone' \in BOOLEAN
    BY <1>1 DEF Close, IInv, ClientInv
  <2>2. ClientInv'
    BY <2>1, LeavesKeeps DEF IInv
  <2>3. \A d \in Conns : pc[d] \in {"kickold", "kick"} => pc'[d] = pc[d]
    BY <1>1, <2>1, EndsOthers DEF IInv
  <2> QED BY <2>2, <2>3, CloseSlots
<1>2. CASE pc[c] \notin {"link", "online", "lost"}
  <2>1. /\ open' = open \ {c}
        /\ UNCHANGED <<srv, pc, pass, via, target>>
        /\ alone' \in BOOLEAN
    BY <1>2 DEF Close, IInv, ClientInv
  <2>2. ClientInv'
    BY <1>2, <2>1 DEF IInv, ClientInv
  <2> QED BY <2>1, <2>2, CloseSlots
<1> QED BY <1>1, <1>2

LEMMA OfflineInv == ASSUME IInv, LoadOffline \/ UnloadOffline PROVE IInv'
<1> USE KuafuAssumption
<1>1. TokenInv' /\ ClientInv'
  BY DEF LoadOffline, UnloadOffline, IInv, TokenInv, ClientInv, clients
<1>2. pc' = pc
  BY DEF LoadOffline, UnloadOffline, clients
<1>3. CASE LoadOffline
  <2>1. SlotInv'
    BY <1>3, FillSlot DEF LoadOffline, IInv, States
  <2>2. DeleteInv'
    BY <1>2, <1>3, SameDeletes DEF LoadOffline, IInv
  <2> QED BY <1>1, <2>1, <2>2 DEF IInv
<1>4. CASE UnloadOffline
  <2>1. SlotInv'
    BY <1>4, DeleteSlots DEF UnloadOffline, IInv
  <2>2. DeleteInv'
    BY <1>2, <1>4, DeleteKeeps DEF UnloadOffline, IInv, Causes
  <2> QED BY <1>1, <2>1, <2>2 DEF IInv
<1> QED BY <1>3, <1>4

LEMMA ExpireInv == ASSUME IInv, NEW s \in Servers, Expire(s) PROVE IInv'
<1>1. SlotInv' /\ DeleteInv' /\ ClientInv'
  BY SameSlots DEF Expire, IInv, DeleteInv, ClientInv, clients
<1>2. TokenInv'
  BY DEF Expire, IInv, TokenInv
<1> QED BY <1>1, <1>2 DEF IInv

LEMMA NextInv == ASSUME IInv, [Next]_vars PROVE IInv'
<1>1. CASE UNCHANGED vars
  BY <1>1 DEF vars, slots, clients, IInv, SlotInv, TokenInv, ClientInv, DeleteInv
<1>2. ASSUME NEW c \in Conns, EnterGame(c) PROVE IInv'
  BY <1>2, EnterTokenInv, EnterPassedInv, RedirectedInv, LoadedInv, SetGoInv, MarkedInv,
     EnteredInv DEF EnterGame
<1>3. ASSUME NEW c \in Conns, Connect(c) \/ Login(c) \/ Close(c) \/ CallFails(c) PROVE IInv'
  BY <1>3, ConnectInv, LoginInv, CloseInv, CallFailsInv
<1>4. ASSUME NEW c \in Conns, GoHome(c) \/ TokenAdded(c) \/ \E g \in Servers : GoSrv(c, g)
      PROVE  IInv'
  BY <1>4, GoHomeInv, TokenAddedInv, GoSrvInv
<1>5. ASSUME NEW x \in deletes, Deleted(x) PROVE IInv'
  BY <1>5, DeletedInv
<1>6. CASE LoadOffline \/ UnloadOffline
  BY <1>6, OfflineInv
<1>7. ASSUME NEW s \in Servers, Expire(s) PROVE IInv'
  BY <1>7, ExpireInv
<1> QED BY <1>1, <1>2, <1>3, <1>4, <1>5, <1>6, <1>7 DEF Next

THEOREM KuafuInvariant == Spec => []IInv
<1>1. Init => IInv
  BY InitInv
<1>2. IInv /\ [Next]_vars => IInv'
  BY NextInv
<1> QED BY <1>1, <1>2, PTL DEF Spec

\* On every server slots, tokens and connections keep their shape, however the
\* handlers of the servers meet: only a placeholder leads away, and only an online
\* object has a home and a connection.
THEOREM KuafuTypeCorrect == Spec => []TypeOK
<1>1. IInv => TypeOK
  BY DEF IInv, SlotInv, TokenInv, ClientInv, DeleteInv, TypeOK, States, Steps, Causes,
         DeleteType, MoveType
<1> QED BY <1>1, KuafuInvariant, PTL

\* Nobody is a guest in its own home, no mark leads to the server it is on, and no
\* token makes a guest of its own home: the asserts of gosrv in a redirect and of
\* gohome hold, whatever handlers meet and calls fail.
THEOREM GuestsAreAbroad == Spec => []NeverOwnGuest
<1>1. IInv => NeverOwnGuest
  BY DEF IInv, SlotInv, TokenInv, NeverOwnGuest
<1> QED BY <1>1, KuafuInvariant, PTL

----------------------------------------------------------------------------
(***************************************************************************)
(* A guest is marked at home                                               *)
(***************************************************************************)
\* No entergame begins or is let in, and a move begins only while there is none.
Goes(c) ==
    /\ pc'[c] \in Entering =>
          /\ pc[c] \in Entering
          /\ pc'[c] = "transfer" => pc[c] = "transfer"
          /\ srv'[c] = srv[c] /\ via'[c] = via[c]
    /\ pc'[c] \in Moves =>
          /\ srv'[c] = srv[c]
          /\ pc[c] \in Moves \/ (state[srv[c]] = "online" /\ NobodyEnters)
    /\ pc'[c] \in Played /\ c \in open' => pc[c] \in Played /\ c \in open /\ srv'[c] = srv[c]

LEMMA QuietStep ==
    ASSUME IInv, IInv', CalmInv, UNCHANGED <<slots, deletes>>,
           \A c \in Conns : Goes(c),
           \A s \in Servers : who[s] \in open' => who[s] \in open
    PROVE  CalmInv'
<1> USE DEF CalmInv
<1>1. state' = state /\ who' = who /\ go' = go /\ home' = home /\ deletes' = deletes
  BY DEF slots
<1>2. \A s \in Servers : PlayedAt(s)' <=> PlayedAt(s)
  BY <1>1 DEF PlayedAt
<1>3. OneEnters'
  BY DEF OneEnters, Goes
<1>4. EntersAlone'
  BY <1>1, <1>2 DEF EntersAlone, Goes, NobodyEnters
<1>5. Owned'
  BY <1>1 DEF Owned, IInv, ClientInv, Goes
<1>6. Dropped'
  BY <1>1 DEF Dropped, IInv, DeleteInv, DeleteType
<1>7. MoveUnmarked'
  BY <1>1 DEF MoveUnmarked, Goes
<1>8. Told'
  BY <1>1 DEF Told, Goes, Entering
<1>9. PlayedMarked'
  BY <1>1, <1>2 DEF PlayedMarked
<1> QED BY <1>3, <1>4, <1>5, <1>6, <1>7, <1>8, <1>9

\* An object begins to be logged off where nobody enters.
LEMMA LogoffStep ==
    ASSUME IInv, IInv', CalmInv, UNCHANGED slots, NEW x, deletes' = deletes \cup {x},
           x.srv \in Servers, Saved(x.srv), NobodyEntersAt(x.srv),
           who[x.srv] \in open' => x.agent = who[x.srv],
           \A c \in Conns : Goes(c),
           open' \subseteq open
    PROVE  CalmInv'
<1> USE DEF CalmInv
<1>1. state' = state /\ who' = who /\ go' = go /\ home' = home
  BY DEF slots
<1>2. \A s \in Servers : PlayedAt(s)' => PlayedAt(s)
  BY <1>1 DEF PlayedAt
<1>3. OneEnters'
  BY DEF OneEnters, Goes
<1>4. EntersAlone'
  BY <1>1, <1>2 DEF EntersAlone, Goes, NobodyEnters, NobodyEntersAt
<1>5. Owned'
  BY <1>1 DEF Owned, IInv, ClientInv, Goes
<1>6. Dropped'
  BY <1>1 DEF Dropped, Saved
<1>7. MoveUnmarked'
  BY <1>1 DEF MoveUnmarked, Goes
<1>8. Told'
  BY <1>1 DEF Told, Goes, Entering
<1>9. PlayedMarked'
  BY <1>1, <1>2 DEF PlayedMarked
<1> QED BY <1>3, <1>4, <1>5, <1>6, <1>7, <1>8, <1>9

\* A handler that ends begins nothing.
LEMMA EndsGoes ==
    ASSUME IInv, NEW c \in Conns, NEW p \in {"link", "lost", "online"}, Ends(c, p) \/ Leaves(c),
           p = "online" => pc[c] \in Moves
    PROVE  /\ \A d \in Conns : Goes(d)
           /\ open' \subseteq open
<1>1. open' \subseteq open
  BY EndsOthers DEF IInv
<1>2. ASSUME NEW d \in Conns, d # c PROVE Goes(d)
  BY <1>1, <1>2, EndsOthers DEF IInv, Goes
<1>3. /\ pc'[c] \in {p, "none"}
      /\ c \in open' => pc'[c] = p /\ srv'[c] = srv[c]
  BY EndsOthers DEF IInv
<1>4. Goes(c)
  BY <1>1, <1>3 DEF Goes, Entering, Moves, Played
<1> QED BY <1>1, <1>2, <1>4

LEMMA EndsStep ==
    ASSUME IInv, IInv', CalmInv, UNCHANGED <<slots, deletes>>, NEW c \in Conns,
           NEW p \in {"link", "lost", "online"}, Ends(c, p) \/ Leaves(c),
           p = "online" => pc[c] \in Moves
    PROVE  CalmInv'
<1>1. (\A d \in Conns : Goes(d)) /\ open' \subseteq open
  BY EndsGoes
<1> QED BY <1>1, QuietStep

\* A connection waits for another answer.
LEMMA GotoGoes ==
    ASSUME IInv, NEW c \in Conns, NEW p \in Steps, Goto(c, p), UNCHANGED <<srv, open, via>>,
           p \in Entering => pc[c] \in Entering /\ p # "transfer",
           p \in Moves => state[srv[c]] = "online" /\ NobodyEnters,
           p \in Played => pc[c] \in Played
    PROVE  \A d \in Conns : Goes(d)
BY DEF IInv, ClientInv, Goes, Goto

LEMMA ConnectAlone ==
    ASSUME IInv, IInv', AloneInv, NEW c \in Conns, Connect(c) PROVE AloneInv'
<1>1. \A s \in Servers : who[s] \in open' => who[s] \in open
  BY DEF Connect
<1>2. ASSUME NEW d \in Conns, d # c PROVE Goes(d)
  BY <1>2 DEF Connect, Goto, Goes, IInv, ClientInv
<1>3. Goes(c)
  BY DEF Connect, Goto, Goes, IInv, ClientInv, Entering, Moves, Played
<1>4. CalmInv => CalmInv'
  BY <1>1, <1>2, <1>3, QuietStep DEF Connect
<1> QED BY <1>4 DEF AloneInv, Connect

LEMMA LoginAlone ==
    ASSUME IInv, IInv', AloneInv, NEW c \in Conns, Login(c) PROVE AloneInv'
<1>1. \A d \in Conns : Goes(d)
  BY DEF Login, Goes
<1>2. CalmInv => CalmInv'
  BY <1>1, QuietStep DEF Login
<1> QED BY <1>2 DEF AloneInv, Login

LEMMA RedirectedAlone ==
    ASSUME IInv, IInv', AloneInv, NEW c \in Conns, Redirected(c) PROVE AloneInv'
BY EndsStep DEF AloneInv, Redirected

LEMMA CallFailsAlone ==
    ASSUME IInv, IInv', AloneInv, NEW c \in Conns, CallFails(c) PROVE AloneInv'
<1>1. \/ Ends(c, "link")
      \/ Ends(c, "online") /\ pc[c] \in Moves
  BY DEF CallFails
<1>2. CalmInv => CalmInv'
  BY <1>1, EndsStep DEF CallFails
<1> QED BY <1>2 DEF AloneInv, CallFails

LEMMA ExpireAlone ==
    ASSUME IInv, IInv', AloneInv, NEW s \in Servers, Expire(s) PROVE AloneInv'
<1>1. \A d \in Conns : Goes(d)
  BY DEF Expire, Goes, clients
<1>2. CalmInv => CalmInv'
  BY <1>1, QuietStep DEF Expire, clients
<1> QED BY <1>2 DEF AloneInv, Expire

LEMMA MoveToAlone ==
    ASSUME IInv, IInv', AloneInv, NEW c \in Conns, NEW g, NEW p \in Moves, NEW h,
           Playing(c), MoveTo(c, g, p, h)
    PROVE  AloneInv'
<1>1. alone' => alone /\ NobodyEnters
  BY DEF MoveTo, IInv, ClientInv
<1>2. ASSUME NobodyEnters PROVE \A d \in Conns : Goes(d)
  BY <1>2, GotoGoes DEF MoveTo, Playing, Moves, Steps, Played, Entering
<1>3. NobodyEnters /\ CalmInv => CalmInv'
  BY <1>2, QuietStep DEF MoveTo
<1> QED BY <1>1, <1>3 DEF AloneInv

\* The entergame that begins is the only one, and nobody plays from now on.
LEMMA EnterAlone ==
    ASSUME IInv, IInv', AloneInv, NEW c \in Conns, NEW v, pc[c] = "link", Enter(c, v)
    PROVE  AloneInv'
<1> SUFFICES ASSUME alone' PROVE CalmInv'
  BY DEF AloneInv
<1> USE KuafuAssumption
<1>1. PICK s \in Servers : s = srv[c]
  BY DEF IInv, ClientInv
<1> DEFINE x == [srv |-> s, agent |-> who[s], cause |-> "enter", conn |-> c]
<1>2. CalmInv /\ Calm(s)
  BY <1>1 DEF Enter, AloneInv, IInv, ClientInv
<1>3. /\ \A d \in Conns : pc[d] \notin Entering \cup Moves
      /\ \A y \in deletes : y.srv # s
      /\ \A t \in Servers \ {s} : ~PlayedAt(t)
  BY <1>2 DEF Calm
<1>4. /\ \A d \in Conns : d # c => pc'[d] = pc[d]
      /\ pc'[c] \in {"kickold", "load"}
      /\ srv' = srv /\ open' = open
  BY DEF Enter, Goto, IInv, ClientInv
<1>5. /\ \A t \in Servers \ {s} : state'[t] = state[t] /\ who'[t] = who[t]
      /\ \/ Saved(s) /\ deletes' = deletes \cup {x} /\ UNCHANGED slots
         \/ state[s] = "kuafu" /\ deletes' = deletes /\ state'[s] = "none"
         \/ ~Saved(s) /\ state[s] # "kuafu" /\ deletes' = deletes /\ UNCHANGED slots
  BY <1>1 DEF Enter, Delete, Clear, FillWith, IInv, SlotInv, Saved, slots
<1>6. x.srv = s /\ x.agent = who[s] /\ x.cause = "enter"
  OBVIOUS
<1> HIDE DEF x
<1>7. \A t \in Servers : ~PlayedAt(t)'
  <2>1. ASSUME NEW t \in Servers \ {s} PROVE ~PlayedAt(t)'
    BY <1>3, <1>5 DEF PlayedAt
  <2>2. state'[s] # "online" \/ \E y \in deletes' : y.srv = s
    BY <1>5, <1>6 DEF Saved, slots
  <2> QED BY <2>1, <2>2 DEF PlayedAt
<1>8. OneEnters'
  BY <1>3, <1>4 DEF OneEnters
<1>9. EntersAlone'
  <2>1. \A d \in Conns : pc'[d] \notin Moves
    BY <1>3, <1>4 DEF Moves
  <2>2. \A d \in Conns : pc'[d] \in Entering => d = c
    BY <1>3, <1>4
  <2>3. \A y \in deletes' : y.srv = s => y.cause = "enter"
    BY <1>3, <1>5, <1>6
  <2> QED BY <1>1, <1>4, <1>7, <2>1, <2>2, <2>3 DEF EntersAlone
<1>10. Owned'
  <2> SUFFICES ASSUME NEW d \in open', pc'[d] \in Played PROVE who'[srv'[d]] = d
    BY DEF Owned
  <2>1. d \in Conns /\ d # c /\ pc[d] \in Played /\ who[srv[d]] = d
    BY <1>2, <1>4 DEF CalmInv, Owned, IInv, ClientInv, Played, Moves
  <2>2. srv[d] \in Servers
    BY <2>1 DEF IInv, ClientInv, Played, Moves
  <2>3. state[srv[d]] = "online"
    BY <2>1, <2>2 DEF IInv, SlotInv
  <2> QED BY <1>1, <1>4, <1>5, <2>1, <2>2, <2>3 DEF slots
<1>11. Dropped'
  <2> SUFFICES ASSUME NEW y \in deletes'
               PROVE  /\ state'[y.srv] # "kuafu"
                      /\ who'[y.srv] \in open' => y.agent = who'[y.srv]
    BY DEF Dropped
  <2>1. CASE y \in deletes
    <3>1. y.srv \in Servers \ {s}
      BY <1>3, <2>1 DEF IInv, DeleteInv, DeleteType
    <3> QED BY <1>2, <1>4, <1>5, <2>1, <3>1 DEF CalmInv, Dropped
  <2>2. CASE y = x /\ Saved(s) /\ UNCHANGED slots
    BY <1>6, <2>2 DEF Saved, slots
  <2> QED BY <1>5, <2>1, <2>2
<1>12. MoveUnmarked'
  BY <1>3, <1>4 DEF MoveUnmarked, Moves
<1>13. Told'
  BY <1>3, <1>4 DEF Told, Entering
<1>14. PlayedMarked'
  BY <1>7 DEF PlayedMarked
<1> QED BY <1>8, <1>9, <1>10, <1>11, <1>12, <1>13, <1>14 DEF CalmInv

LEMMA EnterTokenAlone ==
    ASSUME IInv, IInv', AloneInv, NEW c \in Conns, EnterToken(c) PROVE AloneInv'
BY EnterAlone DEF EnterToken

\* The placeholder is removed when nobody plays the role elsewhere.
LEMMA EnterPassedAlone ==
    ASSUME IInv, IInv', AloneInv, NEW c \in Conns, NEW withToken \in BOOLEAN,
           EnterPassed(c, withToken)
    PROVE  AloneInv'
<1> USE KuafuAssumption
<1>1. PICK s \in Servers : s = srv[c]
  BY DEF EnterPassed, IInv, ClientInv
<1>2. CASE Enter(c, None)
  BY <1>2, EnterAlone DEF EnterPassed
<1>3. CASE ~withToken /\ state[s] = "kuafu"
  <2> SUFFICES ASSUME alone' PROVE CalmInv'
    BY DEF AloneInv
  <2>1. /\ Clear(s)
        /\ Goto(c, "redirect")
        /\ alone' = (alone /\ Calm(s))
        /\ UNCHANGED <<deletes, srv, open, via>>
    BY <1>1, <1>3 DEF EnterPassed
  <2>2. CalmInv /\ Calm(s)
    BY <2>1 DEF AloneInv, IInv, ClientInv
  <2>3. \A d \in Conns : pc[d] \notin Entering \cup Moves
    BY <2>2 DEF Calm
  <2>4. /\ \A d \in Conns : d # c => pc'[d] = pc[d]
        /\ pc'[c] = "redirect"
    BY <2>1 DEF Goto, IInv, ClientInv
  <2>5. \A d \in Conns : pc'[d] \notin Entering \cup Moves
    BY <2>3, <2>4 DEF Entering, Moves
  <2>6. \A t \in Servers \ {s} : state'[t] = state[t] /\ who'[t] = who[t]
    BY <2>1 DEF Clear, FillWith, IInv, SlotInv
  <2>7. state'[s] = "none" /\ who'[s] = None
    BY <2>1 DEF Clear, FillWith, IInv, SlotInv
  <2>8. \A t \in Servers : ~PlayedAt(t)'
    BY <2>1, <2>2, <2>6, <2>7 DEF Calm, PlayedAt
  <2>9. Owned'
    <3> SUFFICES ASSUME NEW d \in open', pc'[d] \in Played PROVE who'[srv'[d]] = d
      BY DEF Owned
    <3>1. d \in Conns /\ pc[d] \in Played /\ who[srv[d]] = d
      BY <2>1, <2>2, <2>4 DEF CalmInv, Owned, IInv, ClientInv, Played, Moves
    <3>2. srv[d] \in Servers
      BY <3>1 DEF IInv, ClientInv, Played, Moves
    <3>3. state[srv[d]] = "online"
      BY <3>1, <3>2 DEF IInv, SlotInv
    <3> QED BY <1>3, <2>1, <2>6, <3>1, <3>2, <3>3
  <2>10. Dropped'
    BY <2>1, <2>2, <2>6, <2>7 DEF CalmInv, Dropped, IInv, ClientInv, DeleteInv, DeleteType
  <2> QED BY <2>5, <2>8, <2>9, <2>10
          DEF CalmInv, OneEnters, EntersAlone, MoveUnmarked, Told, PlayedMarked, Entering, Moves
<1> QED BY <1>1, <1>2, <1>3 DEF EnterPassed

\* At the server of an entergame that has loaded the role nothing is being deleted.
LEMMA NothingDeleted ==
    ASSUME IInv, CalmInv, NEW c \in Conns, pc[c] \in Entering \ {"kickold"}, NEW x \in deletes
    PROVE  x.srv # srv[c]
<1> SUFFICES ASSUME x.srv = srv[c] PROVE FALSE
  OBVIOUS
<1>1. x.cause = "enter"
  BY DEF CalmInv, EntersAlone
<1>2. x.conn \in Conns /\ pc[x.conn] = "kickold"
  BY <1>1 DEF IInv, DeleteInv
<1>3. x.conn = c
  BY <1>2 DEF CalmInv, OneEnters, Entering
<1> QED BY <1>2, <1>3

LEMMA TransferAlone ==
    ASSUME IInv, IInv', AloneInv, NEW c \in Conns, Transfer(c),
           pc[c] = "transfer" \/ (pc[c] = "load" /\ via[c] = None),
           UNCHANGED <<deletes, alone>>
    PROVE  AloneInv'
<1> USE KuafuAssumption
<1> SUFFICES ASSUME CalmInv PROVE CalmInv'
  BY DEF AloneInv
<1>1. CASE Ends(c, "lost") /\ UNCHANGED slots
  BY <1>1, EndsStep
<1>2. CASE /\ c \in open /\ state[srv[c]] = "none"
           /\ FillWith(srv[c], "online", c, None, via[c]) /\ Ends(c, "online")
  <2>1. PICK s \in Servers : s = srv[c]
    BY DEF IInv, ClientInv
  <2>2. PICK h \in Servers \cup {None} : h = via[c] /\ h # s
    BY <2>1 DEF IInv, ClientInv, Entering
  <2>3. /\ state' = [state EXCEPT ![s] = "online"]
        /\ who' = [who EXCEPT ![s] = c]
        /\ go' = [go EXCEPT ![s] = None]
        /\ home' = [home EXCEPT ![s] = h]
    BY <1>2, <2>1, <2>2 DEF FillWith
  <2>4. /\ \A t \in Servers \ {s} : /\ state'[t] = state[t] /\ who'[t] = who[t]
                                    /\ go'[t] = go[t] /\ home'[t] = home[t]
        /\ state'[s] = "online" /\ who'[s] = c /\ home'[s] = h
    BY <2>3 DEF IInv, SlotInv
  <2>5. /\ \A d \in Conns : d # c => pc'[d] = pc[d]
        /\ pc'[c] = "online"
        /\ srv' = srv /\ open' = open
    BY <1>2 DEF Ends, Goto, IInv, ClientInv
  <2>6. pc[c] \in Entering \ {"kickold"}
    BY DEF Entering
  <2>7. \A d \in Conns : pc[d] \in Entering => d = c
    BY <2>6 DEF CalmInv, OneEnters
  <2>8. /\ \A d \in Conns : pc[d] \notin Moves
        /\ \A t \in Servers : ~PlayedAt(t)
    BY <2>6 DEF CalmInv, EntersAlone
  <2>9. \A d \in Conns : pc'[d] \notin Entering \cup Moves
    BY <2>5, <2>7, <2>8 DEF Entering, Moves
  <2>10. Owned'
    <3> SUFFICES ASSUME NEW d \in open', pc'[d] \in Played PROVE who'[srv'[d]] = d
      BY DEF Owned
    <3>1. CASE d = c
      BY <2>1, <2>4, <2>5, <3>1
    <3>2. CASE d # c
      <4>1. d \in Conns /\ pc[d] \in Played /\ who[srv[d]] = d
        BY <2>5, <3>2 DEF CalmInv, Owned, IInv, ClientInv
      <4>2. srv[d] \in Servers
        BY <4>1 DEF IInv, ClientInv, Played, Moves
      <4>3. state[srv[d]] = "online"
        BY <4>1, <4>2 DEF IInv, SlotInv
      <4> QED BY <1>2, <2>1, <2>4, <2>5, <4>1, <4>2, <4>3
    <3> QED BY <3>1, <3>2
  <2>11. Dropped'
    <3> SUFFICES ASSUME NEW y \in deletes
                 PROVE  /\ state'[y.srv] # "kuafu"
                        /\ who'[y.srv] \in open => y.agent = who'[y.srv]
      BY <2>5 DEF Dropped
    <3>1. y.srv \in Servers \ {s}
      BY <2>1, <2>6, NothingDeleted DEF IInv, DeleteInv, DeleteType
    <3> QED BY <2>4, <3>1 DEF CalmInv, Dropped
  <2>12. PlayedMarked'
    <3> SUFFICES ASSUME NEW t \in Servers, PlayedAt(t)', home'[t] # None
                 PROVE  state'[home'[t]] = "kuafu" /\ go'[home'[t]] = t
      BY DEF PlayedMarked
    <3>1. t = s
      BY <2>4, <2>8 DEF PlayedAt
    <3>2. h \in Servers \ {s}
      BY <2>2, <2>4, <3>1
    <3>3. state[h] = "kuafu" /\ go[h] = s
      BY <2>1, <2>2, <3>2 DEF CalmInv, Told
    <3> QED BY <2>4, <3>1, <3>2, <3>3
  <2> QED BY <2>9, <2>10, <2>11, <2>12
          DEF CalmInv, OneEnters, EntersAlone, MoveUnmarked, Told, Entering, Moves
<1> QED BY <1>1, <1>2 DEF Transfer

LEMMA LoadedAlone ==
    ASSUME IInv, IInv', AloneInv, NEW c \in Conns, Loaded(c) PROVE AloneInv'
<1>1. CASE via[c] = None
  BY <1>1, TransferAlone DEF Loaded
<1>2. CASE via[c] # None
  <2>1. Goto(c, "setgo") /\ UNCHANGED <<slots, deletes, srv, open, via, alone>> /\ pc[c] = "load"
    BY <1>2 DEF Loaded
  <2>2. \A d \in Conns : Goes(d)
    BY <2>1, GotoGoes DEF Steps, Entering, Moves, Played
  <2> QED BY <2>1, <2>2, QuietStep DEF AloneInv
<1> QED BY <1>1, <1>2

LEMMA EnteredAlone ==
    ASSUME IInv, IInv', AloneInv, NEW c \in Conns, Entered(c) PROVE AloneInv'
BY TransferAlone DEF Entered

\* The mark is made while nobody plays the role.
LEMMA MarkStep ==
    ASSUME IInv, IInv', CalmInv, NEW c \in Conns, pc[c] \in {"setgo", "mark"},
           NEW h \in Servers, h = via[c],
           state[h] \in {"none", "kuafu"},
           state' = [state EXCEPT ![h] = "kuafu"],
           go' = [go EXCEPT ![h] = srv[c]],
           who' = who, home' = home,
           \A x \in deletes : x.srv # h,
           Goto(c, "transfer"),
           UNCHANGED <<deletes, srv, open, via>>
    PROVE  CalmInv'
<1> USE KuafuAssumption
<1>1. /\ \A t \in Servers \ {h} : state'[t] = state[t] /\ go'[t] = go[t]
      /\ state'[h] = "kuafu" /\ go'[h] = srv[c]
  BY DEF IInv, SlotInv
<1>2. /\ \A d \in Conns : d # c => pc'[d] = pc[d]
      /\ pc'[c] = "transfer"
  BY DEF Goto, IInv, ClientInv
<1>3. pc[c] \in Entering
  BY DEF Entering
<1>4. \A d \in Conns : pc[d] \in Entering => d = c
  BY <1>3 DEF CalmInv, OneEnters
<1>5. /\ \A d \in Conns : pc[d] \notin Moves
      /\ \A t \in Servers : ~PlayedAt(t)
      /\ \A x \in deletes : x.srv = srv[c] => x.cause = "enter"
  BY <1>3 DEF CalmInv, EntersAlone
<1>6. \A d \in Conns : pc'[d] \in Entering => d = c
  BY <1>2, <1>4
<1>7. \A d \in Conns : pc'[d] \notin Moves
  BY <1>2, <1>5 DEF Moves
<1>8. \A t \in Servers : ~PlayedAt(t)'
  BY <1>1, <1>5 DEF PlayedAt
<1>9. OneEnters'
  BY <1>6 DEF OneEnters
<1>10. EntersAlone'
  BY <1>5, <1>6, <1>7, <1>8 DEF EntersAlone
<1>11. Owned'
  BY <1>2 DEF CalmInv, Owned, Played, Moves, IInv, ClientInv
<1>12. Dropped'
  BY <1>1 DEF CalmInv, Dropped, IInv, DeleteInv, DeleteType
<1>13. MoveUnmarked'
  BY <1>7 DEF MoveUnmarked
<1>14. Told'
  BY <1>1, <1>6 DEF Told, Entering
<1>15. PlayedMarked'
  BY <1>8 DEF PlayedMarked
<1> QED BY <1>9, <1>10, <1>11, <1>12, <1>13, <1>14, <1>15 DEF CalmInv

LEMMA SetGoAlone ==
    ASSUME IInv, IInv', AloneInv, NEW c \in Conns, SetGo(c) PROVE AloneInv'
<1>1. PICK h \in Servers : h = via[c]
  BY DEF SetGo, IInv, ClientInv
<1>2. CASE state[h] = "kuafu"
  <2> SUFFICES ASSUME alone' PROVE CalmInv'
    BY DEF AloneInv
  <2>1. /\ go' = [go EXCEPT ![h] = srv[c]]
        /\ Goto(c, "transfer")
        /\ MarkedCalm(h)
        /\ UNCHANGED <<state, who, home, srv, open, via, deletes>>
    BY <1>1, <1>2 DEF SetGo, Saved
  <2>2. CalmInv /\ \A x \in deletes : x.srv # h
    BY <2>1 DEF AloneInv, MarkedCalm, IInv, ClientInv
  <2>3. state' = [state EXCEPT ![h] = "kuafu"]
    BY <1>2, <2>1 DEF IInv, SlotInv
  <2>4. pc[c] = "setgo"
    BY DEF SetGo
  <2> QED BY <1>1, <1>2, <2>1, <2>2, <2>3, <2>4, MarkStep
<1>3. CASE state[h] = "none"
  <2>1. Goto(c, "mark") /\ UNCHANGED <<slots, deletes, srv, open, via, alone>> /\ pc[c] = "setgo"
    BY <1>1, <1>3 DEF SetGo, Saved
  <2>2. \A d \in Conns : Goes(d)
    BY <2>1, GotoGoes DEF Steps, Entering, Moves, Played
  <2> QED BY <2>1, <2>2, QuietStep DEF AloneInv
<1>4. CASE Saved(h)
  <2>1. Ends(c, "link") /\ UNCHANGED <<slots, deletes, alone>>
    BY <1>1, <1>4 DEF SetGo, Saved
  <2> QED BY <2>1, EndsStep DEF AloneInv
<1> QED BY <1>1, <1>2, <1>3, <1>4 DEF SetGo

LEMMA MarkedAlone ==
    ASSUME IInv, IInv', AloneInv, NEW c \in Conns, Marked(c) PROVE AloneInv'
<1>1. PICK h \in Servers : h = via[c]
  BY DEF Marked, IInv, ClientInv
<1>2. CASE state[h] = "none"
  <2> SUFFICES ASSUME alone' PROVE CalmInv'
    BY DEF AloneInv
  <2>1. /\ FillWith(h, "kuafu", None, srv[c], None)
        /\ Goto(c, "transfer")
        /\ MarkedCalm(h)
        /\ UNCHANGED <<srv, open, via, deletes>>
        /\ pc[c] = "mark"
    BY <1>1, <1>2 DEF Marked
  <2>2. CalmInv /\ \A x \in deletes : x.srv # h
    BY <2>1 DEF AloneInv, MarkedCalm, IInv, ClientInv
  <2>3. who[h] = None /\ home[h] = None
    BY <1>2 DEF IInv, SlotInv
  <2>4. who' = who /\ home' = home
    BY <2>1, <2>3 DEF FillWith, IInv, SlotInv
  <2>5. state' = [state EXCEPT ![h] = "kuafu"] /\ go' = [go EXCEPT ![h] = srv[c]]
    BY <2>1 DEF FillWith
  <2> QED BY <1>1, <1>2, <2>1, <2>2, <2>4, <2>5, MarkStep
<1>3. CASE state[h] # "none"
  <2>1. Ends(c, "link") /\ UNCHANGED <<slots, deletes, alone>>
    BY <1>1, <1>3 DEF Marked
  <2> QED BY <2>1, EndsStep DEF AloneInv
<1> QED BY <1>2, <1>3

\* The object a move kicks is not the placeholder of a role that is abroad.
LEMMA TokenAddedAlone ==
    ASSUME IInv, IInv', AloneInv, NEW c \in Conns, TokenAdded(c) PROVE AloneInv'
<1> USE KuafuAssumption
<1> SUFFICES ASSUME CalmInv PROVE CalmInv'
  BY DEF AloneInv, TokenAdded
<1>1. PICK s \in Servers : s = srv[c]
  BY DEF TokenAdded, IInv, ClientInv, Moves
<1>2. pc[c] \in Moves /\ state[s] # "kuafu"
  BY <1>1 DEF TokenAdded, CalmInv, MoveUnmarked
<1>3. \A d \in Conns : pc[d] \notin Entering
  BY <1>2 DEF CalmInv, EntersAlone
<1>4. CASE Saved(s)
  <2> DEFINE x == [srv |-> s, agent |-> who[s], cause |-> "move", conn |-> c]
  <2>1. /\ Goto(c, "kick")
        /\ UNCHANGED <<slots, srv, open, via>>
        /\ deletes' = deletes \cup {x}
    BY <1>1, <1>2, <1>4 DEF TokenAdded, Delete
  <2>2. x.srv = s /\ x.agent = who[s]
    OBVIOUS
  <2> HIDE DEF x
  <2>3. \A d \in Conns : Goes(d)
    BY <1>2, <2>1, GotoGoes DEF Steps, Entering, Moves, Played
  <2> QED BY <1>3, <1>4, <2>1, <2>2, <2>3, LogoffStep DEF NobodyEntersAt
<1>5. CASE ~Saved(s)
  <2>1. Ends(c, "online") /\ UNCHANGED <<slots, deletes>>
    BY <1>1, <1>2, <1>5 DEF TokenAdded, Delete
  <2> QED BY <1>2, <2>1, EndsStep
<1> QED BY <1>4, <1>5

\* The object that a closed connection logs off is its own.
LEMMA CloseAlone ==
    ASSUME IInv, IInv', AloneInv, NEW c \in Conns, Close(c) PROVE AloneInv'
<1> USE KuafuAssumption
<1>1. (\A d \in Conns : Goes(d)) /\ open' \subseteq open /\ c \notin open'
  <2>1. CASE Leaves(c)
    BY <2>1, EndsGoes DEF Leaves, IInv
  <2>2. CASE open' = open \ {c} /\ UNCHANGED <<srv, pc, via>>
    BY <2>2 DEF Goes
  <2> QED BY <2>1, <2>2 DEF Close
<1>2. CASE pc[c] \notin Played
  BY <1>1, <1>2, QuietStep DEF Close, AloneInv
<1>3. CASE pc[c] \in Played
  <2> SUFFICES ASSUME alone' PROVE CalmInv'
    BY DEF AloneInv
  <2>1. PICK s \in Servers : s = srv[c]
    BY <1>3 DEF IInv, ClientInv, Played, Moves
  <2>2. /\ Delete(s, None, "close", c)
        /\ alone' = (alone /\ NobodyEntersAt(s))
    BY <1>3, <2>1 DEF Close
  <2>3. CalmInv /\ NobodyEntersAt(s)
    BY <2>2 DEF AloneInv, IInv, ClientInv
  <2>4. who[s] = c
    BY <1>3, <2>1, <2>3 DEF CalmInv, Owned, Close
  <2>5. state[s] = "online"
    BY <2>4 DEF IInv, SlotInv
  <2> DEFINE x == [srv |-> s, agent |-> None, cause |-> "close", conn |-> c]
  <2>6. UNCHANGED slots /\ deletes' = deletes \cup {x} /\ Saved(s)
    BY <2>2, <2>5 DEF Delete, Saved
  <2>7. x.srv = s
    OBVIOUS
  <2> HIDE DEF x
  <2> QED BY <1>1, <2>3, <2>4, <2>6, <2>7, LogoffStep
<1> QED BY <1>2, <1>3

LEMMA OfflineAlone ==
    ASSUME IInv, IInv', AloneInv, LoadOffline \/ UnloadOffline PROVE AloneInv'
<1> USE KuafuAssumption
<1>1. CASE LoadOffline
  <2> SUFFICES ASSUME CalmInv PROVE CalmInv'
    BY <1>1 DEF AloneInv, LoadOffline
  <2>1. /\ state[Home] = "none"
        /\ FillWith(Home, "offline", None, None, None)
        /\ UNCHANGED <<deletes, srv, open, pc, via>>
    BY <1>1 DEF LoadOffline, clients
  <2>2. who[Home] = None /\ go[Home] = None /\ home[Home] = None
    BY <2>1 DEF IInv, SlotInv
  <2>3. who' = who /\ go' = go /\ home' = home
    BY <2>1, <2>2 DEF FillWith, IInv, SlotInv
  <2>4. /\ \A t \in Servers \ {Home} : state'[t] = state[t]
        /\ state'[Home] = "offline"
    BY <2>1 DEF FillWith, IInv, SlotInv
  <2>5. \A t \in Servers : PlayedAt(t)' <=> PlayedAt(t)
    BY <2>1, <2>4 DEF PlayedAt
  <2>6. OneEnters' /\ Owned'
    BY <2>1, <2>3 DEF CalmInv, OneEnters, Owned
  <2>7. EntersAlone'
    BY <2>1, <2>5 DEF CalmInv, EntersAlone
  <2>8. Dropped'
    BY <2>1, <2>3, <2>4 DEF CalmInv, Dropped, IInv, DeleteInv, DeleteType
  <2>9. MoveUnmarked'
    BY <2>1, <2>4 DEF CalmInv, MoveUnmarked, IInv, ClientInv, Moves
  <2>10. Told'
    BY <2>1, <2>3, <2>4 DEF CalmInv, Told, IInv, ClientInv
  <2>11. PlayedMarked'
    BY <2>1, <2>3, <2>4, <2>5 DEF CalmInv, PlayedMarked, IInv, SlotInv
  <2> QED BY <2>6, <2>7, <2>8, <2>9, <2>10, <2>11 DEF CalmInv
<1>2. CASE UnloadOffline
  <2> SUFFICES ASSUME alone' PROVE CalmInv'
    BY DEF AloneInv
  <2> DEFINE x == [srv |-> Home, agent |-> None, cause |-> "unload", conn |-> None]
  <2>1. /\ Saved(Home) /\ state[Home] = "offline"
        /\ UNCHANGED <<slots, srv, open, pc, via>>
        /\ deletes' = deletes \cup {x}
        /\ alone' = (alone /\ NobodyEntersAt(Home))
    BY <1>2 DEF UnloadOffline, Delete, Saved, clients
  <2>2. x.srv = Home
    OBVIOUS
  <2>3. CalmInv /\ NobodyEntersAt(Home)
    BY <2>1 DEF AloneInv, IInv, ClientInv
  <2>4. who[Home] \notin open
    BY <2>1 DEF IInv, SlotInv, ClientInv
  <2>5. \A d \in Conns : Goes(d)
    BY <2>1 DEF Goes
  <2> HIDE DEF x
  <2> QED BY <2>1, <2>2, <2>3, <2>4, <2>5, LogoffStep
<1> QED BY <1>1, <1>2

\* A deletion empties a slot that holds no mark, and drops its player.
LEMMA DeletedAlone ==
    ASSUME IInv, IInv', AloneInv, NEW x \in deletes, Deleted(x) PROVE AloneInv'
<1> USE KuafuAssumption
<1> SUFFICES ASSUME CalmInv PROVE CalmInv'
  BY DEF AloneInv, Deleted
<1>1. PICK s \in Servers : s = x.srv
  BY DEF IInv, DeleteInv, DeleteType
<1>2. /\ \A t \in Servers \ {s} : /\ state'[t] = state[t] /\ who'[t] = who[t]
                                  /\ go'[t] = go[t] /\ home'[t] = home[t]
      /\ state'[s] = "none" /\ who'[s] = None
  BY <1>1 DEF Deleted, Clear, FillWith, IInv, SlotInv
<1>3. deletes' = deletes \ {x} /\ via' = via
  BY DEF Deleted
<1>4. state[s] # "kuafu" /\ (who[s] \in open => x.agent = who[s])
  BY <1>1 DEF CalmInv, Dropped
<1>5. \A t \in Servers : PlayedAt(t)' => PlayedAt(t) /\ t # s
  <2> SUFFICES ASSUME NEW t \in Servers, PlayedAt(t)' PROVE PlayedAt(t) /\ t # s
    OBVIOUS
  <2>1. t # s
    BY <1>2 DEF PlayedAt
  <2> QED BY <1>1, <1>2, <1>3, <2>1 DEF PlayedAt
<1>6. \A c \in Conns : pc'[c] \in Entering =>
          pc[c] \in Entering /\ srv'[c] = srv[c] /\ (pc'[c] = "transfer" => pc[c] = "transfer")
  BY DeletedSteps DEF Entering
<1>7. \A c \in Conns : pc'[c] \in Moves => pc[c] \in Moves /\ srv'[c] = srv[c]
  BY DeletedSteps DEF Moves
<1>8. OneEnters'
  BY <1>6 DEF CalmInv, OneEnters
<1>9. EntersAlone'
  BY <1>3, <1>5, <1>6, <1>7 DEF CalmInv, EntersAlone
<1>10. Owned'
  <2> SUFFICES ASSUME NEW c \in open', pc'[c] \in Played PROVE who'[srv'[c]] = c
    BY DEF Owned
  <2>1. c \in Conns /\ c \in open /\ c # x.agent
    BY DEF Deleted, IInv, ClientInv
  <2>2. pc[c] \in Played /\ srv'[c] = srv[c]
    BY <2>1, DeletedSteps DEF Played, Moves
  <2>3. who[srv[c]] = c /\ srv[c] \in Servers
    BY <2>1, <2>2 DEF CalmInv, Owned, IInv, ClientInv, Played, Moves
  <2>4. srv[c] # s
    BY <1>4, <2>1, <2>3
  <2> QED BY <1>2, <2>2, <2>3, <2>4
<1>11. Dropped'
  <2> SUFFICES ASSUME NEW y \in deletes'
               PROVE  /\ state'[y.srv] # "kuafu"
                      /\ who'[y.srv] \in open' => y.agent = who'[y.srv]
    BY DEF Dropped
  <2>1. y \in deletes /\ y.srv \in Servers
    BY <1>3 DEF IInv, DeleteInv, DeleteType
  <2>2. None \notin open' /\ open' \subseteq open
    BY DEF Deleted, IInv, ClientInv
  <2> QED BY <1>2, <2>1, <2>2 DEF CalmInv, Dropped
<1>12. MoveUnmarked'
  <2> SUFFICES ASSUME NEW c \in Conns, pc'[c] \in Moves PROVE state'[srv'[c]] # "kuafu"
    BY DEF MoveUnmarked
  <2>1. pc[c] \in Moves /\ srv'[c] = srv[c] /\ srv[c] \in Servers
    BY <1>7 DEF IInv, ClientInv, Moves
  <2> QED BY <1>2, <2>1 DEF CalmInv, MoveUnmarked
<1>13. Told'
  <2> SUFFICES ASSUME NEW c \in Conns, pc'[c] = "transfer", via[c] # None
               PROVE  state'[via[c]] = "kuafu" /\ go'[via[c]] = srv'[c]
    BY <1>3 DEF Told
  <2>1. pc[c] = "transfer" /\ srv'[c] = srv[c] /\ via[c] \in Servers
    BY <1>6 DEF Entering, IInv, ClientInv
  <2>2. state[via[c]] = "kuafu" /\ go[via[c]] = srv[c]
    BY <2>1 DEF CalmInv, Told
  <2> QED BY <1>2, <1>4, <2>1, <2>2
<1>14. PlayedMarked'
  <2> SUFFICES ASSUME NEW t \in Servers, PlayedAt(t)', home'[t] # None
               PROVE  state'[home'[t]] = "kuafu" /\ go'[home'[t]] = t
    BY DEF PlayedMarked
  <2>1. PlayedAt(t) /\ t # s /\ home'[t] = home[t] /\ home[t] \in Servers
    BY <1>2, <1>5 DEF IInv, SlotInv
  <2>2. state[home[t]] = "kuafu" /\ go[home[t]] = t
    BY <2>1 DEF CalmInv, PlayedMarked
  <2> QED BY <1>2, <1>4, <2>1, <2>2
<1> QED BY <1>8, <1>9, <1>10, <1>11, <1>12, <1>13, <1>14 DEF CalmInv

LEMMA NextAlone == ASSUME IInv, IInv', AloneInv, [Next]_vars PROVE AloneInv'
<1>1. CASE UNCHANGED vars
  <2>1. UNCHANGED <<slots, deletes, srv, open, pc, via, alone>>
    BY <1>1 DEF vars, clients
  <2>2. \A d \in Conns : Goes(d)
    BY <2>1 DEF Goes
  <2> QED BY <2>1, <2>2, QuietStep DEF AloneInv
<1>2. ASSUME NEW c \in Conns, EnterGame(c) PROVE AloneInv'
  BY <1>2, EnterTokenAlone, EnterPassedAlone, RedirectedAlone, LoadedAlone, SetGoAlone,
     MarkedAlone, EnteredAlone DEF EnterGame
<1>3. ASSUME NEW c \in Conns, Connect(c) \/ Login(c) \/ Close(c) \/ CallFails(c) PROVE AloneInv'
  BY <1>3, ConnectAlone, LoginAlone, CloseAlone, CallFailsAlone
<1>4. ASSUME NEW c \in Conns, GoHome(c) \/ TokenAdded(c) \/ \E g \in Servers : GoSrv(c, g)
      PROVE  AloneInv'
  BY <1>4, MoveToAlone, TokenAddedAlone DEF GoHome, GoSrv, Moves
<1>5. ASSUME NEW x \in deletes, Deleted(x) PROVE AloneInv'
  BY <1>5, DeletedAlone
<1>6. CASE LoadOffline \/ UnloadOffline
  BY <1>6, OfflineAlone
<1>7. ASSUME NEW s \in Servers, Expire(s) PROVE AloneInv'
  BY <1>7, ExpireAlone
<1> QED BY <1>1, <1>2, <1>3, <1>4, <1>5, <1>6, <1>7 DEF Next

\* As long as no entergame has met another handler of the role, a guest that is known
\* to be one and plays abroad has its mark at home, with the server it is at, whatever
\* calls fail, tokens expire, offline objects come and go, and connections close where
\* nobody is entering.
THEOREM GuestsAreMarked == Spec => []AbroadMarked
<1>1. Init => AloneInv
  BY InitInv
<1>2. IInv /\ IInv' /\ AloneInv /\ [Next]_vars => AloneInv'
  BY NextAlone
<1>3. AloneInv => AbroadMarked
  BY DEF AloneInv, CalmInv, PlayedMarked, AbroadMarked
<1> QED BY <1>1, <1>2, <1>3, KuafuInvariant, PTL DEF Spec
=============================================================================
