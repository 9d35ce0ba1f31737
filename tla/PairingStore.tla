---------------------------- MODULE PairingStore ----------------------------
(***************************************************************************)
(* What the pairing database promises to a controller: a set of pairings,  *)
(* the first of which is made by pair-setup and the others by              *)
(* administrators, and a durable copy that a restart goes back to.         *)
(* Connections, sessions, slots and the steps of handlers do not appear.   *)
(***************************************************************************)
CONSTANTS Ids        \* controller identifiers

VARIABLES
  paired,   \* the pairings in force: records [id, perms]
  durable   \* the pairings a restart brings back

vars == <<paired, durable>>

Pairing == [id : Ids, perms : {0, 1}]
HasAdmin == \E r \in paired : r.perms = 1
Others(set, id) == {r \in set : r.id # id}

Init == paired = {} /\ durable = {}

\* Pair-setup makes the first pairing, always an administrator.
Setup(id) ==
  /\ paired = {}
  /\ paired' = {[id |-> id, perms |-> 1]}
  /\ durable' = Others(durable, id) \cup paired'

\* An administrator adds a controller or changes its permissions.
Grant(id, p) ==
  /\ HasAdmin
  /\ paired' = Others(paired, id) \cup {[id |-> id, perms |-> p]}
  /\ durable' = Others(durable, id) \cup {[id |-> id, perms |-> p]}

\* An administrator removes a controller; when no administrator is left the
\* remaining controllers are removed as well, one by one.
Revoke(id) ==
  /\ \E r \in paired : r.id = id
  /\ paired' = Others(paired, id)
  /\ durable' = Others(durable, id)

Erase   == durable' = {} /\ UNCHANGED paired
Restart == paired' = durable /\ UNCHANGED durable
Wipe    == paired' = {} /\ durable' = {}

Next ==
  \/ \E id \in Ids : Setup(id) \/ Revoke(id)
  \/ \E id \in Ids, p \in {0, 1} : Grant(id, p)
  \/ Erase \/ Restart \/ Wipe

Spec == Init /\ [][Next]_vars
=============================================================================
