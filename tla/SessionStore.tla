---------------------------- MODULE SessionStore ----------------------------
(***************************************************************************)
(* Session implements RoleStore when one handler runs at a time: the value *)
(* of a role is in the object registered for it, and in the database while *)
(* there is none; its holder is the connection of its online object.       *)
(***************************************************************************)
EXTENDS Session

Value(r)  == IF id_obj[r] = None THEN db[r] ELSE obj[id_obj[r]].data
Holder(r) == IF OnlineAt(r) THEN obj[id_obj[r]].agent ELSE None

Store == INSTANCE RoleStore WITH data   <- [r \in Roles |-> Value(r)],
                                 holder <- [r \in Roles |-> Holder(r)]

\* Nothing but play changes what a role's next login finds, whatever loads, saves,
\* unloads, queue admissions, kicks and logoffs come between; and a role passes from
\* one connection to another by way of nobody.
KeepsRoles == Store!Spec

=============================================================================
