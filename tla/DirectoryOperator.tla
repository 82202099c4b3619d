---------------------------- MODULE DirectoryOperator ----------------------------
(***************************************************************************)
(* The operator's reconcilers of LakeFSUsers, LakeFSGroups, LakeFSRoles,    *)
(* LakeFSRoleBindings and LakeFSGCPolicies.  Each reads an object and what  *)
(* it refers to from the caches and writes the object's Ready condition;    *)
(* that write ends the step.  A refused write requeues the request and      *)
(* leaves everything as it was.                                             *)
(***************************************************************************)
EXTENDS DirectoryObjects

(* What an object needs in order to be Resolved.  Users, roles and GC       *)
(* policies always are: names and defaults are never empty.                 *)
NoReferences(n, spec) == {}
References(n, spec) ==
    IF n \in Groups THEN spec.users
    ELSE IF n \in Bindings THEN {spec.subject, spec.role}
    ELSE {}

Condition(p, n) ==
    IF References(n, seen[p][n].spec) \subseteq Known(p, Objects)
    THEN "Resolved" ELSE "Unavailable"

ReconcileGone(p, n) ==
    /\ n \in queue
    /\ seen[p][n] = None
    /\ queue' = queue \ {n}
    /\ UNCHANGED <<objects, seen, handler, inputs>>

Reconcile(p, n) ==
    /\ n \in queue
    /\ SameVersion(objects[n], seen[p][n])
    /\ objects' = [objects EXCEPT ![n] =
          [@ EXCEPT !.ready = Condition(p, n), !.current = TRUE]]
    /\ queue' = queue \ {n}
    /\ UNCHANGED <<seen, handler, inputs>>

(* The informer's periodic resync.                                          *)
ResyncNever(p, n) == FALSE
Resync(p, n) ==
    /\ seen[p][n] # None
    /\ n \notin queue
    /\ queue' = queue \cup {n}
    /\ UNCHANGED <<objects, seen, handler, inputs>>

OperatorRestart(p) ==
    /\ seen' = [seen EXCEPT ![p] = objects]
    /\ queue' = Stored(Objects)
    /\ UNCHANGED <<objects, handler, inputs>>
================================================================================
