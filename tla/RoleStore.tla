------------------------------ MODULE RoleStore ------------------------------
(***************************************************************************)
(* What a game server promises its players, without objects, registries,   *)
(* handlers or a database: a role's data is one value, one connection at a *)
(* time plays the role, and only that connection's play changes the value. *)
(* Loading, saving, unloading, queueing, kicking and logging off do not    *)
(* show: what a player did is there at the next login.                     *)
(***************************************************************************)
EXTENDS Integers

CONSTANTS Roles, Agents, None

VARIABLES
    data,     \* role -> version of its data
    holder    \* role -> the connection that plays it, or None

Init ==
    /\ data = [r \in Roles |-> 0]
    /\ holder = [r \in Roles |-> None]

\* A role changes hands by being released first.
Take(r, a) ==
    /\ holder[r] = None
    /\ holder' = [holder EXCEPT ![r] = a]
    /\ UNCHANGED data

Release(r) ==
    /\ holder[r] # None
    /\ holder' = [holder EXCEPT ![r] = None]
    /\ UNCHANGED data

Play(r) ==
    /\ holder[r] # None
    /\ data'[r] > data[r]
    /\ data' = [data EXCEPT ![r] = data'[r]]
    /\ UNCHANGED holder

Next ==
    \E r \in Roles :
        \/ \E a \in Agents : Take(r, a)
        \/ Release(r)
        \/ Play(r)

Spec == Init /\ [][Next]_<<data, holder>>

=============================================================================
