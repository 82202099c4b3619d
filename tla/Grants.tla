--------------------------------- MODULE Grants ---------------------------------
(***************************************************************************)
(* What the auth server promises of a lakeFS directory, whatever its        *)
(* objects, caches and handlers: a fact (that an account exists, that a     *)
(* user is in a group, that a role holds a policy, that a subject is        *)
(* granted a role) comes or goes only because kubectl says so or because a  *)
(* request in progress asks for it.  A request asks once, when it is        *)
(* accepted, and is over for good when it is answered.                      *)
(***************************************************************************)
EXTENDS Naturals

CONSTANTS Facts, Replicas

VARIABLES
    facts,    \* what holds
    asked,    \* what the request of each replica may add and take away
    inputs    \* requests and kubectl commands so far

Order == [gain: SUBSET Facts, lose: SUBSET Facts]
Nothing == [gain |-> {}, lose |-> {}]

Init ==
    /\ facts \in SUBSET Facts
    /\ asked = [r \in Replicas |-> Nothing]
    /\ inputs = 0

Ask(r) ==
    /\ asked[r] = Nothing
    /\ asked'[r] \in Order
    /\ asked' = [asked EXCEPT ![r] = asked'[r]]
    /\ inputs' = inputs + 1
    /\ UNCHANGED facts

Serve(r) ==
    /\ facts' \ facts \subseteq asked[r].gain
    /\ facts \ facts' \subseteq asked[r].lose
    /\ asked' \in {asked, [asked EXCEPT ![r] = Nothing]}
    /\ UNCHANGED inputs

Command ==
    /\ inputs' = inputs + 1
    /\ facts' \in SUBSET Facts
    /\ UNCHANGED asked

Next == Command \/ \E r \in Replicas : Ask(r) \/ Serve(r)

Spec == Init /\ [][Next]_<<facts, asked, inputs>>
================================================================================
