----------------------------- MODULE MCRepositories ----------------------------
(***************************************************************************)
(* Instances of Repositories for TLC.                                       *)
(***************************************************************************)
EXTENDS Repositories, TLC

CONSTANTS n1, n2, l1, l2, p1, p2, v1, v2

Wants(n, l, gc, p, local) ==
    [name |-> n, spec |-> [lake |-> l, gc |-> gc, policy |-> p, local |-> local]]

Empty == {}

(* One object: managed GC on and off, with the default policy p1 or with    *)
(* p2, its Secret in its namespace or elsewhere.                            *)
Wishes == {Wants(n1, l1, TRUE, p1, TRUE), Wants(n1, l1, FALSE, p1, TRUE),
           Wants(n1, l1, TRUE, p2, TRUE), Wants(n1, l1, TRUE, p1, FALSE)}
AllPolicies == [name : {p1, p2}, content : {v2}]

(* Two objects for one lakeFS repository, or one that changes repositories. *)
Rivals == {Wants(n1, l1, FALSE, p1, TRUE), Wants(n2, l1, FALSE, p1, TRUE)}
Symmetry == Permutations(Names)
Renamed == {Wants(n1, l1, FALSE, p1, TRUE), Wants(n1, l2, FALSE, p1, TRUE)}
================================================================================
