------------------------------ MODULE RouteProofs ------------------------------
(***************************************************************************)
(* Proofs about Route, for any servers, roles, batches, crashes and lost    *)
(* calls: the routes are sound, and a connected server knows every role of  *)
(* this one unless a call to it failed or a restart of it went unnoticed.   *)
(***************************************************************************)
EXTENDS Route, TLAPS

CastType ==
    [srv : Servers, pid : Pids, sent : BOOLEAN, done : SUBSET Servers, seen : SUBSET Servers]

\* Everything that may still be sent is listed by the database of its server.
Listing ==
    /\ \A s, t \in Servers : map[s][t] \subseteq roles[t]
    /\ \A s \in Servers : rest[s] \subseteq roles[s]
    /\ \A c \in casts : c.pid \in roles[c.srv]
    /\ \A s, t \in Servers : s # t => roles[s] \cap roles[t] = {}

\* What a process keeps is gone while it is down.
DownEmpty == \A s \in Servers \ up : connection[s] = {}

OnItsWay(s, t, p) ==
    \E c \in casts : c.srv = s /\ c.pid = p /\ c.sent /\ t \in c.seen \ c.done

Told(s, t, p) ==
    \/ p \in map[t][s]
    \/ target[s] = t /\ p \in rest[s]
    \/ OnItsWay(s, t, p)

\* The strengthening of KnownUnlessStale: role by role, it is known or on its way.
Covered ==
    \A s, t \in up : t \in connection[s] \ stale[s] => \A p \in map[s][s] : Told(s, t, p)

IInv == TypeOK /\ Listing /\ DownEmpty /\ Covered

----------------------------------------------------------------------------
\* The type invariant without the broadcasts.
TypesRest ==
    /\ up \subseteq Servers
    /\ roles \in [Servers -> SUBSET Pids]
    /\ map \in [Servers -> [Servers -> SUBSET Pids]]
    /\ sync_state \in [Servers -> SUBSET Servers]
    /\ connection \in [Servers -> SUBSET Servers]
    /\ asking \in [Servers -> SUBSET Servers]
    /\ target \in [Servers -> Servers \cup {None}]
    /\ rest \in [Servers -> SUBSET Pids]
    /\ \A s \in Servers : s \notin connection[s] /\ s \notin asking[s] /\ s # target[s]
    /\ stale \in [Servers -> SUBSET Servers]
    /\ crashes \in 0..MaxCrash
    /\ lost \in 0..MaxLost

LEMMA InitInv == ASSUME Init PROVE IInv
<1> USE RouteAssumption
<1>1. TypeOK
  BY DEF Init, TypeOK
<1>2. Listing
  BY DEF Init, Listing
<1>3. DownEmpty /\ Covered
  BY DEF Init, DownEmpty, Covered
<1> QED BY <1>1, <1>2, <1>3 DEF IInv

LEMMA CastTyped ==
    ASSUME NEW s \in Servers, NEW p \in Pids, NEW sent \in BOOLEAN,
           NEW done \in SUBSET Servers, NEW seen \in SUBSET Servers
    PROVE  /\ Cast(s, p, sent, done, seen) \in CastType
           /\ Cast(s, p, sent, done, seen).srv = s
           /\ Cast(s, p, sent, done, seen).pid = p
           /\ Cast(s, p, sent, done, seen).sent = sent
           /\ Cast(s, p, sent, done, seen).done = done
           /\ Cast(s, p, sent, done, seen).seen = seen
BY DEF Cast, CastType

LEMMA CastFields ==
    ASSUME NEW c \in CastType
    PROVE  /\ c.srv \in Servers /\ c.pid \in Pids /\ c.sent \in BOOLEAN
           /\ c.done \in SUBSET Servers /\ c.seen \in SUBSET Servers
BY DEF CastType

LEMMA CastsTyped == TypeOK <=> TypesRest /\ casts \subseteq CastType
BY DEF TypeOK, TypesRest, CastType

LEMMA CastsTypedNext == TypeOK' <=> TypesRest' /\ casts' \subseteq CastType
BY DEF TypeOK, TypesRest, CastType

\* The two ways a broadcast is changed keep its type.
LEMMA ReplaceTyped ==
    ASSUME casts \subseteq CastType, NEW c, NEW d \in CastType, Replace(c, d)
    PROVE  casts' \subseteq CastType
BY DEF Replace

LEMMA LearnTyped ==
    ASSUME map \in [Servers -> [Servers -> SUBSET Pids]],
           NEW t \in Servers, NEW s \in Servers, NEW b \in SUBSET Pids, Learn(t, s, b)
    PROVE  /\ map' \in [Servers -> [Servers -> SUBSET Pids]]
           /\ map'[t][s] = map[t][s] \cup b
           /\ \A u, v \in Servers : <<u, v>> # <<t, s>> => map'[u][v] = map[u][v]
BY DEF Learn

LEMMA TypeStep == ASSUME TypeOK, [Next]_vars PROVE TypeOK'
<1> USE RouteAssumption
<1>0. TypesRest /\ casts \subseteq CastType
  BY CastsTyped
<1>a. ASSUME TypesRest', UNCHANGED casts PROVE TypeOK'
  BY <1>0, <1>a, CastsTypedNext
<1>1. ASSUME NEW s \in Servers, CheckServer(s) PROVE TypeOK'
  BY <1>0, <1>1, <1>a DEF TypesRest, CheckServer
<1>2. ASSUME NEW s \in Servers, SyncBatch(s) PROVE TypeOK'
  <2>1. PICK b \in Batches(rest[s]) :
           /\ Learn(target[s], s, b)
           /\ rest' = [rest EXCEPT ![s] = @ \ b]
    BY <1>2 DEF SyncBatch
  <2>2. b \in SUBSET Pids
    BY <1>0, <2>1 DEF Batches, TypesRest
  <2>3. target[s] \in Servers
    BY <1>0, <1>2 DEF TypesRest, SyncBatch
  <2>4. map' \in [Servers -> [Servers -> SUBSET Pids]]
    BY <1>0, <2>1, <2>2, <2>3, LearnTyped DEF TypesRest
  <2>5. rest' \in [Servers -> SUBSET Pids]
    BY <1>0, <2>1 DEF TypesRest
  <2> QED BY <1>0, <1>2, <1>a, <2>4, <2>5 DEF TypesRest, SyncBatch
<1>3. ASSUME NEW s \in Servers, SyncFinish(s) PROVE TypeOK'
  BY <1>0, <1>3, <1>a DEF TypesRest, SyncFinish
<1>4. ASSUME NEW s \in Servers, SyncFails(s) PROVE TypeOK'
  BY <1>0, <1>4, <1>a DEF TypesRest, SyncFails, Fails
<1>5. ASSUME NEW s \in Servers, CreateRole(s) PROVE TypeOK'
  <2>1. PICK p \in Pids \ Created :
           /\ roles' = [roles EXCEPT ![s] = @ \cup {p}]
           /\ casts' = casts \cup {Cast(s, p, FALSE, {}, {})}
    BY <1>5 DEF CreateRole
  <2>2. Cast(s, p, FALSE, {}, {}) \in CastType
    BY <2>1, CastTyped
  <2>3. casts' \subseteq CastType
    BY <1>0, <2>1, <2>2
  <2>4. TypesRest'
    BY <1>0, <1>5, <2>1 DEF TypesRest, CreateRole, checks
  <2> QED BY <2>3, <2>4, CastsTypedNext
<1>6. ASSUME NEW s \in Servers, Crash(s) PROVE TypeOK'
  <2>1. map' \in [Servers -> [Servers -> SUBSET Pids]]
    BY <1>0, <1>6 DEF TypesRest, Crash
  <2>2. /\ crashes' \in 0..MaxCrash
        /\ casts' \subseteq CastType
    BY <1>0, <1>6 DEF TypesRest, Crash
  <2>3. TypesRest'
    BY <1>0, <1>6, <2>1, <2>2 DEF TypesRest, Crash
  <2> QED BY <2>2, <2>3, CastsTypedNext
<1>7. ASSUME NEW s \in Servers, Restart(s) PROVE TypeOK'
  <2>1. map' \in [Servers -> [Servers -> SUBSET Pids]]
    BY <1>0, <1>7 DEF TypesRest, Restart
  <2>2. stale' \in [Servers -> SUBSET Servers]
    BY <1>0, <1>7 DEF TypesRest, Restart
  <2> QED BY <1>0, <1>7, <1>a, <2>1, <2>2 DEF TypesRest, Restart, checks
<1>8. ASSUME NEW s \in Servers, NEW t \in Servers, HeartbeatOk(s, t) PROVE TypeOK'
  <2>1. s # t
    BY <1>0, <1>8 DEF TypesRest, HeartbeatOk
  <2>2. CASE t \in connection[s]
    BY <1>0, <1>8, <1>a, <2>1, <2>2 DEF TypesRest, HeartbeatOk, OnConnect
  <2>3. CASE t \notin connection[s]
    <3>1. /\ connection' = [connection EXCEPT ![s] = @ \cup {t}]
          /\ asking' = [asking EXCEPT ![s] = @ \ {t}]
          /\ target' = [target EXCEPT ![s] = t]
          /\ rest' = [rest EXCEPT ![s] = map[s][s]]
      BY <1>8, <2>3 DEF HeartbeatOk, OnConnect
    <3>2. rest' \in [Servers -> SUBSET Pids]
      BY <1>0, <3>1 DEF TypesRest
    <3>3. \A u \in Servers : u \notin connection'[u] /\ u \notin asking'[u] /\ u # target'[u]
      BY <1>0, <2>1, <3>1 DEF TypesRest
    <3> QED BY <1>0, <1>8, <1>a, <3>1, <3>2, <3>3 DEF TypesRest, HeartbeatOk
  <2> QED BY <2>2, <2>3
<1>9. ASSUME NEW s \in Servers, NEW t \in Servers, HeartbeatFails(s, t) PROVE TypeOK'
  <2>1. \A c \in CastType : Unseen(c, t) \in CastType
    BY CastTyped, CastFields DEF Unseen
  <2>2. casts' \subseteq CastType
    BY <1>0, <1>9, <2>1 DEF HeartbeatFails
  <2>3. TypesRest'
    BY <1>0, <1>9 DEF TypesRest, HeartbeatFails, Fails
  <2> QED BY <2>2, <2>3, CastsTypedNext
<1>10. ASSUME NEW c \in casts, AddRoute(c) PROVE TypeOK'
  <2>1. c.srv \in Servers /\ c.pid \in Pids /\ connection[c.srv] \in SUBSET Servers
    BY <1>0, CastFields DEF TypesRest
  <2>2. casts' \subseteq CastType
    BY <1>0, <1>10, <2>1, CastTyped, ReplaceTyped DEF AddRoute
  <2>3. map' \in [Servers -> [Servers -> SUBSET Pids]]
    BY <1>0, <1>10, <2>1, LearnTyped DEF AddRoute, TypesRest
  <2>4. TypesRest'
    BY <1>0, <1>10, <2>3 DEF TypesRest, AddRoute, checks
  <2> QED BY <2>2, <2>4, CastsTypedNext
<1>11. ASSUME NEW c \in casts, NEW t \in Servers, CastTo(c, t) PROVE TypeOK'
  <2>1. c.srv \in Servers /\ c.pid \in Pids /\ Reached(c, t) \in CastType
    BY <1>0, CastFields, CastTyped DEF Reached
  <2>2. casts' \subseteq CastType
    BY <1>0, <1>11, <2>1, ReplaceTyped DEF CastTo
  <2>3. map' \in [Servers -> [Servers -> SUBSET Pids]]
    BY <1>0, <1>11, <2>1, LearnTyped DEF CastTo, TypesRest
  <2>4. TypesRest'
    BY <1>0, <1>11, <2>3 DEF TypesRest, CastTo, checks
  <2> QED BY <2>2, <2>4, CastsTypedNext
<1>12. ASSUME NEW c \in casts, NEW t \in Servers, CastFails(c, t) PROVE TypeOK'
  <2>1. c.srv \in Servers /\ c.pid \in Pids /\ Reached(c, t) \in CastType
    BY <1>0, CastFields, CastTyped DEF Reached
  <2>2. casts' \subseteq CastType
    BY <1>0, <1>12, <2>1, ReplaceTyped DEF CastFails
  <2>3. TypesRest'
    BY <1>0, <1>12, <2>1 DEF TypesRest, CastFails, Fails, checks
  <2> QED BY <2>2, <2>3, CastsTypedNext
<1>13. ASSUME NEW c \in casts, CastEnds(c) PROVE TypeOK'
  <2>1. casts' \subseteq CastType /\ TypesRest'
    BY <1>0, <1>13 DEF CastEnds, TypesRest, checks
  <2> QED BY <2>1, CastsTypedNext
<1>14. ASSUME NEW c \in casts, CastBreaks(c) PROVE TypeOK'
  <2>1. c.srv \in Servers /\ c.seen \in SUBSET Servers
    BY <1>0, CastFields
  <2>2. casts' \subseteq CastType /\ TypesRest'
    BY <1>0, <1>14, <2>1 DEF CastBreaks, TypesRest, checks
  <2> QED BY <2>2, CastsTypedNext
<1>15. ASSUME UNCHANGED vars PROVE TypeOK'
  BY <1>0, <1>15, <1>a DEF TypesRest, vars, local, checks
<1> QED
  BY <1>1, <1>2, <1>3, <1>4, <1>5, <1>6, <1>7, <1>8, <1>9, <1>10, <1>11, <1>12, <1>13,
     <1>14, <1>15 DEF Next, Sync, Heartbeat, Broadcast

----------------------------------------------------------------------------
(***************************************************************************)
(* RoutesSound: whatever may still be sent is listed.                      *)
(***************************************************************************)
LEMMA ListingStep ==
    ASSUME TypeOK, Listing, [Next]_vars
    PROVE  Listing'
<1> USE RouteAssumption
<1>0. TypesRest /\ casts \subseteq CastType
  BY CastsTyped
<1>a. ASSUME UNCHANGED <<roles, map, rest, casts>> PROVE Listing'
  BY <1>a DEF Listing
<1>b. ASSUME UNCHANGED <<roles, map, rest>>,
             \A d \in casts' : \E c \in casts : d.srv = c.srv /\ d.pid = c.pid
      PROVE  Listing'
  BY <1>b DEF Listing
<1>c. ASSUME NEW t \in Servers, NEW s \in Servers, NEW b \in SUBSET roles[s],
             Learn(t, s, b), UNCHANGED roles
      PROVE  \A u, v \in Servers : map'[u][v] \subseteq roles'[v]
  <2>1. b \in SUBSET Pids
    BY <1>0 DEF TypesRest
  <2> QED BY <1>0, <1>c, <2>1, LearnTyped DEF TypesRest, Listing
<1>1. ASSUME NEW s \in Servers, CheckServer(s) PROVE Listing'
  BY <1>1, <1>a DEF CheckServer
<1>2. ASSUME NEW s \in Servers, SyncBatch(s) PROVE Listing'
  <2>1. PICK b \in Batches(rest[s]) :
           /\ Learn(target[s], s, b)
           /\ rest' = [rest EXCEPT ![s] = @ \ b]
    BY <1>2 DEF SyncBatch
  <2>2. b \in SUBSET roles[s]
    BY <1>0, <2>1 DEF Batches, Listing
  <2>3. target[s] \in Servers /\ UNCHANGED <<roles, casts>>
    BY <1>0, <1>2 DEF TypesRest, SyncBatch
  <2>4. \A u, v \in Servers : map'[u][v] \subseteq roles'[v]
    BY <1>c, <2>1, <2>2, <2>3
  <2>5. \A u \in Servers : rest'[u] \subseteq roles'[u]
    BY <1>0, <2>1, <2>3 DEF TypesRest, Listing
  <2> QED BY <2>3, <2>4, <2>5 DEF Listing
<1>3. ASSUME NEW s \in Servers, SyncFinish(s) PROVE Listing'
  BY <1>3, <1>a DEF SyncFinish
<1>4. ASSUME NEW s \in Servers, SyncFails(s) PROVE Listing'
  BY <1>0, <1>4 DEF SyncFails, Listing, TypesRest
<1>5. ASSUME NEW s \in Servers, CreateRole(s) PROVE Listing'
  <2>1. PICK p \in Pids \ Created :
           /\ roles' = [roles EXCEPT ![s] = @ \cup {p}]
           /\ casts' = casts \cup {Cast(s, p, FALSE, {}, {})}
    BY <1>5 DEF CreateRole
  <2>2. Cast(s, p, FALSE, {}, {}).srv = s /\ Cast(s, p, FALSE, {}, {}).pid = p
    BY DEF Cast
  <2>3. /\ roles'[s] = roles[s] \cup {p}
        /\ \A u \in Servers : u # s => roles'[u] = roles[u]
    BY <1>0, <2>1 DEF TypesRest
  <2>4. \A u \in Servers : p \notin roles[u]
    BY <2>1, <1>0 DEF Created, TypesRest
  <2>5. \A u, v \in Servers : u # v => roles'[u] \cap roles'[v] = {}
    BY <2>3, <2>4 DEF Listing
  <2>6. \A c \in casts' : c.pid \in roles'[c.srv]
    <3>1. ASSUME NEW c \in casts PROVE c.pid \in roles'[c.srv]
      BY <1>0, <2>3, CastFields DEF Listing
    <3> HIDE DEF Cast
    <3> QED BY <2>1, <2>2, <2>3, <3>1
  <2>7. \A u, v \in Servers : map'[u][v] \subseteq roles'[v] /\ rest'[u] \subseteq roles'[u]
    BY <1>5, <2>3 DEF CreateRole, checks, Listing
  <2> QED BY <2>5, <2>6, <2>7 DEF Listing
<1>6. ASSUME NEW s \in Servers, Crash(s) PROVE Listing'
  <2>1. UNCHANGED roles /\ casts' \subseteq casts
    BY <1>6 DEF Crash
  <2>2. \A u, v \in Servers : map'[u][v] \subseteq roles[v] /\ rest'[u] \subseteq roles[u]
    BY <1>0, <1>6 DEF Crash, Listing, TypesRest
  <2> QED BY <2>1, <2>2 DEF Listing
<1>7. ASSUME NEW s \in Servers, Restart(s) PROVE Listing'
  <2>1. /\ map'[s][s] = roles[s]
        /\ \A u, v \in Servers : <<u, v>> # <<s, s>> => map'[u][v] = map[u][v]
    BY <1>0, <1>7 DEF Restart, TypesRest
  <2>2. \A u, v \in Servers : map'[u][v] \subseteq roles[v]
    BY <2>1 DEF Listing
  <2> QED BY <1>7, <2>2 DEF Restart, checks, Listing
<1>8. ASSUME NEW s \in Servers, NEW t \in Servers, HeartbeatOk(s, t) PROVE Listing'
  <2>1. \A u \in Servers : rest'[u] \subseteq roles[u]
    BY <1>0, <1>8 DEF HeartbeatOk, OnConnect, Listing, TypesRest
  <2> QED BY <1>8, <2>1 DEF HeartbeatOk, Listing
<1>9. ASSUME NEW s \in Servers, NEW t \in Servers, HeartbeatFails(s, t) PROVE Listing'
  <2>1. \A c \in casts : Unseen(c, t).srv = c.srv /\ Unseen(c, t).pid = c.pid
    BY <1>0, CastTyped, CastFields DEF Unseen
  <2>2. \A d \in casts' : \E c \in casts : d.srv = c.srv /\ d.pid = c.pid
    BY <1>9, <2>1 DEF HeartbeatFails
  <2> QED BY <1>9, <1>b, <2>2 DEF HeartbeatFails
<1>10. ASSUME NEW c \in casts, AddRoute(c) PROVE Listing'
  <2> DEFINE d == Cast(c.srv, c.pid, TRUE, {}, connection[c.srv])
  <2>1. c.srv \in Servers /\ c.pid \in Pids /\ connection[c.srv] \in SUBSET Servers
    BY <1>0, CastFields DEF TypesRest
  <2>2. d.srv = c.srv /\ d.pid = c.pid
    BY DEF Cast
  <2>3. casts' \subseteq casts \cup {d} /\ UNCHANGED <<roles, rest>>
    BY <1>10 DEF AddRoute, Replace, checks
  <2>4. {c.pid} \in SUBSET roles[c.srv]
    BY DEF Listing
  <2>5. \A u, v \in Servers : map'[u][v] \subseteq roles'[v]
    BY <1>10, <1>c, <2>1, <2>3, <2>4 DEF AddRoute
  <2> HIDE DEF d
  <2>6. \A e \in casts' : e.pid \in roles'[e.srv]
    BY <2>2, <2>3, <2>4 DEF Listing
  <2>7. \A u \in Servers : rest'[u] \subseteq roles'[u]
    BY <2>3 DEF Listing
  <2> QED BY <2>3, <2>5, <2>6, <2>7 DEF Listing
<1>11. ASSUME NEW c \in casts, NEW t \in Servers, CastTo(c, t) PROVE Listing'
  <2>1. c.srv \in Servers /\ Reached(c, t).srv = c.srv /\ Reached(c, t).pid = c.pid
    BY <1>0, CastFields, CastTyped DEF Reached
  <2>2. casts' \subseteq casts \cup {Reached(c, t)} /\ UNCHANGED <<roles, rest>>
    BY <1>11 DEF CastTo, Replace, checks
  <2>3. {c.pid} \in SUBSET roles[c.srv]
    BY DEF Listing
  <2>4. \A u, v \in Servers : map'[u][v] \subseteq roles'[v]
    BY <1>11, <1>c, <2>1, <2>2, <2>3 DEF CastTo
  <2> QED BY <2>1, <2>2, <2>4 DEF Listing
<1>12. ASSUME NEW c \in casts, NEW t \in Servers, CastFails(c, t) PROVE Listing'
  <2>1. Reached(c, t).srv = c.srv /\ Reached(c, t).pid = c.pid
    BY <1>0, CastFields, CastTyped DEF Reached
  <2>2. casts' \subseteq casts \cup {Reached(c, t)} /\ UNCHANGED <<roles, map, rest>>
    BY <1>12 DEF CastFails, Replace, checks
  <2> QED BY <1>b, <2>1, <2>2
<1>13. ASSUME NEW c \in casts, CastEnds(c) PROVE Listing'
  BY <1>13, <1>b DEF CastEnds, checks
<1>14. ASSUME NEW c \in casts, CastBreaks(c) PROVE Listing'
  BY <1>14, <1>b DEF CastBreaks, checks
<1>15. ASSUME UNCHANGED vars PROVE Listing'
  BY <1>15, <1>a DEF vars, local, checks
<1> QED
  BY <1>1, <1>2, <1>3, <1>4, <1>5, <1>6, <1>7, <1>8, <1>9, <1>10, <1>11, <1>12, <1>13,
     <1>14, <1>15 DEF Next, Sync, Heartbeat, Broadcast

----------------------------------------------------------------------------
(***************************************************************************)
(* KnownUnlessStale: role by role, for every pair of servers.              *)
(***************************************************************************)
LEMMA DownStep == ASSUME TypeOK, DownEmpty, [Next]_vars PROVE DownEmpty'
<1>0. TypesRest
  BY CastsTyped
<1>1. ASSUME NEW s \in Servers, CheckServer(s) \/ Sync(s) \/ CreateRole(s) PROVE DownEmpty'
  BY <1>1 DEF CheckServer, Sync, SyncBatch, SyncFinish, SyncFails, CreateRole, DownEmpty
<1>2. ASSUME NEW s \in Servers, Crash(s) \/ Restart(s) PROVE DownEmpty'
  BY <1>0, <1>2 DEF Crash, Restart, DownEmpty, TypesRest
<1>3. ASSUME NEW s \in Servers, NEW t \in Servers, Heartbeat(s, t) PROVE DownEmpty'
  BY <1>0, <1>3
  DEF Heartbeat, HeartbeatOk, OnConnect, HeartbeatFails, DownEmpty, TypesRest
<1>4. ASSUME NEW c \in casts, Broadcast(c) PROVE DownEmpty'
  BY <1>4 DEF Broadcast, AddRoute, CastTo, CastFails, CastEnds, CastBreaks, DownEmpty
<1>5. ASSUME UNCHANGED vars PROVE DownEmpty'
  BY <1>5 DEF vars, local, DownEmpty
<1> QED BY <1>1, <1>2, <1>3, <1>4, <1>5 DEF Next

\* A role in the map of its server stays told to a server that stays connected.
LEMMA CoveredStep ==
    ASSUME TypeOK, DownEmpty, Covered, [Next]_vars
    PROVE  Covered'
<1>0. TypesRest /\ casts \subseteq CastType
  BY CastsTyped
<1> SUFFICES ASSUME NEW s \in up', NEW t \in up', t \in connection'[s] \ stale'[s],
                    NEW p \in map'[s][s]
             PROVE  Told(s, t, p)'
  BY DEF Covered
<1>u. CASE UNCHANGED <<up, map, connection, target, rest, casts, stale>>
  BY <1>u DEF Covered, Told, OnItsWay
<1>1. ASSUME NEW r \in Servers, CheckServer(r) PROVE Told(s, t, p)'
  BY <1>1, <1>u DEF CheckServer
<1>2. ASSUME NEW r \in Servers, SyncBatch(r) PROVE Told(s, t, p)'
  <2>1. PICK b \in Batches(rest[r]) :
           /\ Learn(target[r], r, b)
           /\ rest' = [rest EXCEPT ![r] = @ \ b]
    BY <1>2 DEF SyncBatch
  <2>2. b \in SUBSET Pids
    BY <1>0, <2>1 DEF Batches, TypesRest
  <2>3. /\ target[r] \in Servers /\ target[r] # r /\ s \in Servers /\ t \in Servers
        /\ UNCHANGED <<up, connection, target, casts, stale>>
    BY <1>0, <1>2 DEF TypesRest, SyncBatch
  <2>4. /\ map'[target[r]][r] = map[target[r]][r] \cup b
        /\ \A u, v \in Servers : <<u, v>> # <<target[r], r>> => map'[u][v] = map[u][v]
    BY <1>0, <2>1, <2>2, <2>3, LearnTyped DEF TypesRest
  <2>5. Told(s, t, p)
    BY <2>3, <2>4 DEF Covered
  <2>6. CASE p \in map[t][s]
    BY <2>3, <2>4, <2>6 DEF Told
  <2>7. CASE target[s] = t /\ p \in rest[s]
    <3>1. CASE s = r
      BY <1>0, <2>1, <2>3, <2>4, <2>7, <3>1 DEF Told, TypesRest
    <3>2. CASE s # r
      BY <1>0, <2>1, <2>3, <2>7, <3>2 DEF Told, TypesRest
    <3> QED BY <3>1, <3>2
  <2>8. CASE OnItsWay(s, t, p)
    BY <2>3, <2>8 DEF Told, OnItsWay
  <2> QED BY <2>5, <2>6, <2>7, <2>8 DEF Told
<1>3. ASSUME NEW r \in Servers, SyncFinish(r) PROVE Told(s, t, p)'
  <2>1. /\ UNCHANGED <<up, map, connection, rest, casts, stale>>
        /\ rest[r] = {}
        /\ s \in Servers
        /\ target' = [target EXCEPT ![r] = None]
    BY <1>0, <1>3 DEF SyncFinish, TypesRest
  <2>2. Told(s, t, p)
    BY <2>1 DEF Covered
  <2> QED BY <1>0, <2>1, <2>2 DEF Told, OnItsWay, TypesRest
<1>4. ASSUME NEW r \in Servers, SyncFails(r) PROVE Told(s, t, p)'
  <2>1. /\ UNCHANGED <<up, map, connection, casts>>
        /\ s \in Servers
        /\ target' = [target EXCEPT ![r] = None]
        /\ rest' = [rest EXCEPT ![r] = {}]
        /\ stale' = [stale EXCEPT ![r] = @ \cup {target[r]}]
    BY <1>0, <1>4 DEF SyncFails, TypesRest
  <2>2. t \in connection[s] \ stale[s] /\ (s = r => target[s] # t)
    BY <1>0, <2>1 DEF TypesRest
  <2>3. Told(s, t, p)
    BY <2>1, <2>2 DEF Covered
  <2> QED BY <1>0, <2>1, <2>2, <2>3 DEF Told, OnItsWay, TypesRest
<1>5. ASSUME NEW r \in Servers, CreateRole(r) PROVE Told(s, t, p)'
  <2>1. /\ UNCHANGED <<up, map, connection, target, rest, stale>>
        /\ casts \subseteq casts'
    BY <1>5 DEF CreateRole, checks
  <2>2. Told(s, t, p)
    BY <2>1 DEF Covered
  <2> QED BY <2>1, <2>2 DEF Told, OnItsWay
<1>6. ASSUME NEW r \in Servers, Crash(r) PROVE Told(s, t, p)'
  <2>1. s \in up /\ t \in up /\ s # r /\ t # r /\ s \in Servers /\ t \in Servers
    BY <1>0, <1>6 DEF Crash, TypesRest
  <2>2. /\ map'[s] = map[s] /\ map'[t] = map[t]
        /\ connection'[s] = connection[s] /\ stale'[s] = stale[s]
        /\ target'[s] = target[s] /\ rest'[s] = rest[s]
        /\ casts' = {c \in casts : c.srv # r}
    BY <1>0, <1>6, <2>1 DEF Crash, TypesRest
  <2>3. Told(s, t, p)
    BY <2>1, <2>2 DEF Covered
  <2> QED BY <2>1, <2>2, <2>3 DEF Told, OnItsWay
<1>7. ASSUME NEW r \in Servers, Restart(r) PROVE Told(s, t, p)'
  <2>1. /\ UNCHANGED <<connection, target, rest, casts>>
        /\ up' = up \cup {r}
        /\ r \notin up
        /\ s \in Servers /\ t \in Servers
    BY <1>0, <1>7 DEF Restart, checks, TypesRest
  <2>2. s # r
    BY <2>1 DEF DownEmpty
  <2>3. t # r /\ stale[s] \subseteq stale'[s]
    BY <1>7, <2>1 DEF Restart
  <2>4. map'[s] = map[s] /\ map'[t] = map[t]
    BY <1>0, <1>7, <2>1, <2>2, <2>3 DEF Restart, TypesRest
  <2>5. Told(s, t, p)
    BY <2>1, <2>2, <2>3, <2>4 DEF Covered
  <2> QED BY <2>1, <2>4, <2>5 DEF Told, OnItsWay
<1>8. ASSUME NEW r \in Servers, NEW q \in Servers, HeartbeatOk(r, q) PROVE Told(s, t, p)'
  <2>1. /\ UNCHANGED <<up, map, casts, stale>>
        /\ connection' = [connection EXCEPT ![r] = @ \cup {q}]
        /\ target[r] = None
        /\ s \in Servers /\ t \in Servers
    BY <1>0, <1>8 DEF HeartbeatOk, OnConnect, TypesRest
  <2>2. CASE q \in connection[r]
    <3>1. UNCHANGED <<target, rest, connection>>
      BY <1>0, <1>8, <2>1, <2>2 DEF HeartbeatOk, OnConnect, TypesRest
    <3> QED BY <1>u, <2>1, <3>1
  <2>3. CASE q \notin connection[r]
    <3>1. /\ target' = [target EXCEPT ![r] = q]
          /\ rest' = [rest EXCEPT ![r] = map[r][r]]
      BY <1>8, <2>3 DEF HeartbeatOk, OnConnect
    <3>2. CASE s = r /\ t = q
      BY <1>0, <2>1, <3>1, <3>2 DEF Told, TypesRest
    <3>3. CASE s = r /\ t # q
      <4>1. Told(s, t, p)
        BY <1>0, <2>1, <3>3 DEF Covered, TypesRest
      <4>2. target[s] # t
        BY <1>0, <2>1, <3>3, RouteAssumption
      <4> QED BY <2>1, <4>1, <4>2 DEF Told, OnItsWay
    <3>4. CASE s # r
      <4>1. Told(s, t, p)
        BY <1>0, <2>1, <3>4 DEF Covered, TypesRest
      <4>2. target'[s] = target[s] /\ rest'[s] = rest[s]
        BY <1>0, <2>1, <3>1, <3>4 DEF TypesRest
      <4> QED BY <2>1, <4>1, <4>2 DEF Told, OnItsWay
    <3> QED BY <3>2, <3>3, <3>4
  <2> QED BY <2>2, <2>3
<1>9. ASSUME NEW r \in Servers, NEW q \in Servers, HeartbeatFails(r, q)
      PROVE  Told(s, t, p)'
  <2>1. /\ UNCHANGED <<up, map, target, rest>>
        /\ connection' = [connection EXCEPT ![r] = @ \ {q}]
        /\ stale' = [stale EXCEPT ![r] = @ \ {q}]
        /\ casts' = {IF c.srv = r THEN Unseen(c, q) ELSE c : c \in casts}
        /\ s \in Servers /\ t \in Servers
    BY <1>0, <1>9 DEF HeartbeatFails, TypesRest
  <2>2. t \in connection[s] \ stale[s] /\ (s = r => t # q)
    BY <1>0, <2>1 DEF TypesRest
  <2>3. Told(s, t, p)
    BY <2>1, <2>2 DEF Covered
  <2>4. ASSUME OnItsWay(s, t, p) PROVE OnItsWay(s, t, p)'
    <3>1. PICK c \in casts : c.srv = s /\ c.pid = p /\ c.sent /\ t \in c.seen \ c.done
      BY <2>4 DEF OnItsWay
    <3> DEFINE d == IF c.srv = r THEN Unseen(c, q) ELSE c
    <3>2. d \in casts'
      <4>1. \A e \in casts : (IF e.srv = r THEN Unseen(e, q) ELSE e) \in casts'
        BY <2>1
      <4> QED BY <4>1
    <3>3. d.srv = s /\ d.pid = p /\ d.sent /\ t \in d.seen \ d.done
      BY <2>2, <3>1 DEF Unseen, Cast
    <3> QED BY <3>2, <3>3 DEF OnItsWay
  <2> QED BY <2>1, <2>3, <2>4 DEF Told
<1>10. ASSUME NEW c \in casts, AddRoute(c) PROVE Told(s, t, p)'
  <2> DEFINE d == Cast(c.srv, c.pid, TRUE, {}, connection[c.srv])
  <2>1. /\ UNCHANGED <<up, connection, target, rest, stale>>
        /\ ~c.sent
        /\ casts' = (casts \ {c}) \cup {d}
        /\ Learn(c.srv, c.srv, {c.pid})
        /\ s \in Servers /\ t \in Servers
    BY <1>0, <1>10 DEF AddRoute, Replace, checks, TypesRest
  <2>2. c.srv \in Servers /\ c.pid \in Pids
    BY <1>0, CastFields
  <2>3. /\ map'[c.srv][c.srv] = map[c.srv][c.srv] \cup {c.pid}
        /\ \A u, v \in Servers : <<u, v>> # <<c.srv, c.srv>> => map'[u][v] = map[u][v]
    <3>1. {c.pid} \in SUBSET Pids /\ map \in [Servers -> [Servers -> SUBSET Pids]]
      BY <1>0, <2>2 DEF TypesRest
    <3>2. Learn(c.srv, c.srv, {c.pid})
      BY <2>1
    <3> HIDE DEF Learn
    <3> QED BY <2>2, <3>1, <3>2, LearnTyped
  <2>4. d.srv = c.srv /\ d.pid = c.pid /\ d.sent /\ d.seen = connection[c.srv] /\ d.done = {}
    BY DEF Cast
  <2>5. CASE p \in map[s][s]
    <3>1. Told(s, t, p)
      BY <2>1, <2>5 DEF Covered
    <3>2. map[t][s] \subseteq map'[t][s]
      BY <2>1, <2>2, <2>3
    <3>3. OnItsWay(s, t, p) => OnItsWay(s, t, p)'
      BY <2>1 DEF OnItsWay
    <3> QED BY <2>1, <3>1, <3>2, <3>3 DEF Told
  <2>6. CASE p \notin map[s][s]
    <3>1. s = c.srv /\ p = c.pid
      BY <2>1, <2>2, <2>3, <2>6
    <3> HIDE DEF d
    <3>2. OnItsWay(s, t, p)'
      BY <2>1, <2>4, <3>1 DEF OnItsWay
    <3> QED BY <3>2 DEF Told
  <2> QED BY <2>5, <2>6
<1>11. ASSUME NEW c \in casts, NEW q \in Servers, CastTo(c, q) PROVE Told(s, t, p)'
  <2>1. /\ UNCHANGED <<up, connection, target, rest, stale>>
        /\ q \in connection[c.srv]
        /\ casts' = (casts \ {c}) \cup {Reached(c, q)}
        /\ Learn(q, c.srv, {c.pid})
        /\ s \in Servers /\ t \in Servers
    BY <1>0, <1>11 DEF CastTo, Replace, checks, TypesRest
  <2>2. c.srv \in Servers /\ c.pid \in Pids
    BY <1>0, CastFields
  <2>3. q # c.srv
    BY <1>0, <2>1, <2>2 DEF TypesRest
  <2>4. /\ map'[q][c.srv] = map[q][c.srv] \cup {c.pid}
        /\ \A u, v \in Servers : <<u, v>> # <<q, c.srv>> => map'[u][v] = map[u][v]
    <3>1. {c.pid} \in SUBSET Pids /\ map \in [Servers -> [Servers -> SUBSET Pids]]
      BY <1>0, <2>2 DEF TypesRest
    <3>2. Learn(q, c.srv, {c.pid})
      BY <2>1
    <3> HIDE DEF Learn
    <3> QED BY <2>2, <3>1, <3>2, LearnTyped
  <2>5. Told(s, t, p) /\ map[t][s] \subseteq map'[t][s]
    <3>1. map'[s][s] = map[s][s]
      BY <2>1, <2>2, <2>3, <2>4
    <3>2. map[t][s] \subseteq map'[t][s]
      BY <2>1, <2>2, <2>4
    <3>3. t \in connection[s] \ stale[s] /\ s \in up /\ t \in up
      BY <2>1
    <3> QED BY <3>1, <3>2, <3>3 DEF Covered
  <2>6. ASSUME OnItsWay(s, t, p) PROVE p \in map'[t][s] \/ OnItsWay(s, t, p)'
    <3>1. PICK e \in casts : e.srv = s /\ e.pid = p /\ e.sent /\ t \in e.seen \ e.done
      BY <2>6 DEF OnItsWay
    <3>2. CASE e = c /\ t = q
      BY <2>4, <3>1, <3>2
    <3>3. CASE e = c /\ t # q
      <4> DEFINE d == Reached(c, q)
      <4>1. d.srv = s /\ d.pid = p /\ d.sent /\ t \in d.seen \ d.done
        BY <3>1, <3>3 DEF Reached, Cast
      <4>2. d \in casts'
        BY <2>1
      <4> QED BY <4>1, <4>2 DEF OnItsWay
    <3>4. CASE e # c
      BY <2>1, <3>1, <3>4 DEF OnItsWay
    <3> QED BY <3>2, <3>3, <3>4
  <2> QED BY <2>1, <2>5, <2>6 DEF Told
<1>12. ASSUME NEW c \in casts, NEW q \in Servers, CastFails(c, q) PROVE Told(s, t, p)'
  <2>1. /\ UNCHANGED <<up, map, connection, target, rest>>
        /\ stale' = [stale EXCEPT ![c.srv] = @ \cup {q}]
        /\ casts' = (casts \ {c}) \cup {Reached(c, q)}
        /\ s \in Servers /\ t \in Servers
    BY <1>0, <1>12 DEF CastFails, Replace, checks, TypesRest
  <2>2. stale[s] \subseteq stale'[s] /\ (s = c.srv => t # q)
    BY <1>0, <2>1 DEF TypesRest
  <2>3. Told(s, t, p)
    BY <2>1, <2>2 DEF Covered
  <2>4. ASSUME OnItsWay(s, t, p) PROVE OnItsWay(s, t, p)'
    <3>1. PICK e \in casts : e.srv = s /\ e.pid = p /\ e.sent /\ t \in e.seen \ e.done
      BY <2>4 DEF OnItsWay
    <3>2. CASE e = c
      <4> DEFINE d == Reached(c, q)
      <4>1. d.srv = s /\ d.pid = p /\ d.sent /\ t \in d.seen \ d.done
        BY <2>2, <3>1, <3>2 DEF Reached, Cast
      <4>2. d \in casts'
        BY <2>1
      <4> QED BY <4>1, <4>2 DEF OnItsWay
    <3>3. CASE e # c
      BY <2>1, <3>1, <3>3 DEF OnItsWay
    <3> QED BY <3>2, <3>3
  <2> QED BY <2>1, <2>3, <2>4 DEF Told
<1>13. ASSUME NEW c \in casts, CastEnds(c) PROVE Told(s, t, p)'
  <2>1. /\ UNCHANGED <<up, map, connection, target, rest, stale>>
        /\ c.seen \subseteq c.done
        /\ casts' = casts \ {c}
    BY <1>13 DEF CastEnds, checks
  <2>2. Told(s, t, p)
    BY <2>1 DEF Covered
  <2> QED BY <2>1, <2>2 DEF Told, OnItsWay
<1>14. ASSUME NEW c \in casts, CastBreaks(c) PROVE Told(s, t, p)'
  <2>1. /\ UNCHANGED <<up, map, connection, target, rest>>
        /\ stale' = [stale EXCEPT ![c.srv] = @ \cup (c.seen \ c.done)]
        /\ casts' = casts \ {c}
        /\ s \in Servers
    BY <1>0, <1>14 DEF CastBreaks, checks, TypesRest
  <2>2. stale[s] \subseteq stale'[s] /\ (s = c.srv => t \notin c.seen \ c.done)
    BY <1>0, <2>1 DEF TypesRest
  <2>3. Told(s, t, p)
    BY <2>1, <2>2 DEF Covered
  <2> QED BY <2>1, <2>2, <2>3 DEF Told, OnItsWay
<1>15. CASE UNCHANGED vars
  BY <1>15, <1>u DEF vars, local, checks
<1> QED
  BY <1>1, <1>2, <1>3, <1>4, <1>5, <1>6, <1>7, <1>8, <1>9, <1>10, <1>11, <1>12, <1>13,
     <1>14, <1>15 DEF Next, Sync, Heartbeat, Broadcast

----------------------------------------------------------------------------
LEMMA InvStep == IInv /\ [Next]_vars => IInv'
BY TypeStep, ListingStep, DownStep, CoveredStep DEF IInv

LEMMA InvImplies == IInv => RoutesSound /\ KnownUnlessStale
<1> SUFFICES ASSUME IInv PROVE RoutesSound /\ KnownUnlessStale
  OBVIOUS
<1>1. RoutesSound
  BY DEF IInv, Listing, RoutesSound
<1>2. KnownUnlessStale
  BY DEF IInv, Covered, Told, OnItsWay, KnownUnlessStale, UnderWay
<1> QED BY <1>1, <1>2

LEMMA Inductive == Spec => []IInv
BY InitInv, InvStep, PTL DEF Spec

\* route.map and clustermgr's tables keep their shape, and no server ever connects
\* or syncs to itself.
THEOREM RouteTypeCorrect == Spec => []TypeOK
BY Inductive, PTL DEF IInv

\* route.getsrvname, on any number of servers and whatever crashes or is lost: a
\* route leads to the one server whose database lists the role.
THEOREM RoutesAreSound == Spec => []RoutesSound
BY Inductive, InvImplies, PTL

\* syncto and addroute together reach every connected server with every role; the
\* only ways to miss one are a failed call and a restart within the heartbeats.
THEOREM ConnectedServersKnow == Spec => []KnownUnlessStale
BY Inductive, InvImplies, PTL

=============================================================================
