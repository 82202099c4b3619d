--------------------------------- MODULE Access ---------------------------------
(***************************************************************************)
(* Who may get in, whatever the objects, caches and reconciles: accounts    *)
(* and the access keys of users come and go by what clients request or      *)
(* kubectl commands, at once, with one exception.  The keys of a user who   *)
(* was deleted go later, some or all of them, while the deletion is still   *)
(* being served, and nobody else's go with them.                            *)
(***************************************************************************)
EXTENDS Naturals

CONSTANTS
    Users, Replicas, Nobody,
    Issues,         \* the keys that requests ask for,
    Revocations,    \* the <<user, access key>> they revoke
    Departures,     \* and the users they delete
    Commands        \* the keys that kubectl applies

VARIABLES
    accounts,
    keys,       \* [name, user, accessKey, revoked]
    leaving,    \* the deleted user whose keys each replica clears away
    inputs      \* requests and commands so far

Init ==
    /\ accounts \in SUBSET Users
    /\ keys = {}
    /\ leaving = [r \in Replicas |-> Nobody]
    /\ inputs = 0

Issue ==
    /\ \E k \in Issues :
          /\ \A j \in keys : j.name # k.name
          /\ keys' = keys \cup {k}
    /\ UNCHANGED <<accounts, leaving>>

Revoked(k) ==
    [name |-> k.name, user |-> k.user, accessKey |-> k.accessKey, revoked |-> TRUE]
Revoke ==
    /\ \E k \in keys :
          /\ <<k.user, k.accessKey>> \in Revocations
          /\ keys' = (keys \ {k}) \cup {Revoked(k)}
    /\ UNCHANGED <<accounts, leaving>>

Leave(r) ==
    /\ leaving[r] = Nobody
    /\ \E u \in Departures :
          /\ accounts' = accounts \ {u}
          /\ leaving' = [leaving EXCEPT ![r] = u]
    /\ UNCHANGED keys

Refuse == UNCHANGED <<accounts, keys, leaving>>

(* kubectl changes one object.                                              *)
Command ==
    /\ \/ accounts' \in SUBSET Users /\ UNCHANGED keys
       \/ /\ keys' \ keys \subseteq Commands
          /\ \A j, k \in (keys' \ keys) \cup (keys \ keys') : j.name = k.name
          /\ UNCHANGED accounts
    /\ UNCHANGED leaving

Input ==
    /\ inputs' = inputs + 1
    /\ Refuse \/ Issue \/ Revoke \/ Command \/ \E r \in Replicas : Leave(r)

Purge(r) ==
    /\ keys' \subseteq keys
    /\ \A k \in keys \ keys' : k.user = leaving[r]
    /\ UNCHANGED <<accounts, leaving, inputs>>

Done(r) ==
    /\ leaving' = [leaving EXCEPT ![r] = Nobody]
    /\ UNCHANGED <<accounts, keys, inputs>>

Next == Input \/ \E r \in Replicas : Purge(r) \/ Done(r)

Spec == Init /\ [][Next]_<<accounts, keys, leaving, inputs>>
=================================================================================
