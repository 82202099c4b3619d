--------------------------------- MODULE Custody ---------------------------------
(***************************************************************************)
(* What a finalizer is for, whatever the objects, caches and reconciles: a  *)
(* repository is made on behalf of a claim on it, a claim is given up only  *)
(* after it has been marked and once nothing made on its behalf is left,    *)
(* and, hands aside, only a marked claim has a repository removed.          *)
(***************************************************************************)
EXTENDS Naturals, TLAPS

CONSTANTS LakeNames, None

VARIABLES
    claims,     \* the claims on repositories, marked ones (leaving) included
    maker,      \* on whose behalf each repository was made, 0 for nobody's
    removals    \* repositories that somebody removed by hand so far

Claim == [uid: Nat, lake: LakeNames, leaving: BOOLEAN]
TypeOK ==
    /\ claims \in SUBSET Claim
    /\ maker \in [LakeNames -> Nat \cup {None}]
    /\ removals \in Nat

Init ==
    /\ claims = {}
    /\ maker = [l \in LakeNames |-> None]
    /\ removals = 0

(* A new claim, by somebody who never had one.                              *)
Take(c) ==
    /\ c \in Claim
    /\ ~c.leaving
    /\ \A d \in claims : d.uid # c.uid
    /\ claims' = claims \cup {c}
    /\ UNCHANGED <<maker, removals>>

Marked(c) == [uid |-> c.uid, lake |-> c.lake, leaving |-> TRUE]
Mark(c) ==
    /\ c \in claims
    /\ ~c.leaving
    /\ claims' = (claims \ {c}) \cup {Marked(c)}
    /\ UNCHANGED <<maker, removals>>

Make(c) ==
    /\ c \in claims
    /\ maker[c.lake] = None
    /\ maker' = [maker EXCEPT ![c.lake] = c.uid]
    /\ UNCHANGED <<claims, removals>>

Clear(c) ==
    /\ c \in claims
    /\ c.leaving
    /\ maker' = [maker EXCEPT ![c.lake] = None]
    /\ UNCHANGED <<claims, removals>>

GiveUp(S) ==
    /\ \A c \in S : c.leaving /\ maker[c.lake] # c.uid
    /\ claims' = claims \ S
    /\ UNCHANGED <<maker, removals>>

(* Somebody makes a repository by hand, or removes one: a removal by hand   *)
(* is counted, so that no other removal passes for one.                     *)
MakeByHand(l) ==
    /\ maker[l] = None
    /\ maker' = [maker EXCEPT ![l] = 0]
    /\ UNCHANGED <<claims, removals>>

RemoveByHand(l) ==
    /\ maker' = [maker EXCEPT ![l] = None]
    /\ removals' = removals + 1
    /\ UNCHANGED claims

Next ==
    \/ GiveUp(claims \ claims')
    \/ \E c \in claims' \ claims : Take(c)
    \/ \E c \in claims : Mark(c) \/ Make(c) \/ Clear(c)
    \/ \E l \in LakeNames : MakeByHand(l) \/ RemoveByHand(l)

Spec == Init /\ [][Next]_<<claims, maker, removals>>

-----------------------------------------------------------------------------
(* No repository that was made on somebody's behalf is ever without a claim *)
(* that will have it removed.                                               *)
NoOrphans ==
    \A l \in LakeNames : maker[l] # None /\ maker[l] # 0 =>
        \E c \in claims : c.uid = maker[l] /\ c.lake = l

(* Nothing but claims and numbers.                                          *)
LEMMA NextType ==
    ASSUME TypeOK, [Next]_<<claims, maker, removals>>
    PROVE  TypeOK'
  <1>1. ASSUME NEW c \in claims, Mark(c) PROVE TypeOK'
    <2>1. Marked(c) \in Claim
      BY DEF Marked, TypeOK, Claim
    <2> QED
      BY <1>1, <2>1 DEF Mark, TypeOK
  <1>2. ASSUME NEW c \in claims, Make(c) \/ Clear(c) PROVE TypeOK'
    BY <1>2 DEF Make, Clear, TypeOK, Claim
  <1>3. ASSUME NEW c, Take(c) PROVE TypeOK'
    BY <1>3 DEF Take, TypeOK
  <1>4. CASE \/ GiveUp(claims \ claims')
             \/ \E l \in LakeNames : MakeByHand(l) \/ RemoveByHand(l)
    BY <1>4 DEF GiveUp, MakeByHand, RemoveByHand, TypeOK
  <1>5. CASE UNCHANGED <<claims, maker, removals>>
    BY <1>5 DEF TypeOK
  <1> QED
    BY <1>1, <1>2, <1>3, <1>4, <1>5 DEF Next

(* A repository finds its claim marked, or kept.                            *)
LEMMA NextNoOrphans ==
    ASSUME TypeOK, NoOrphans, [Next]_<<claims, maker, removals>>
    PROVE  NoOrphans'
  <1>1. ASSUME NEW c \in claims, Mark(c) PROVE NoOrphans'
    <2>1. Marked(c).uid = c.uid /\ Marked(c).lake = c.lake
      BY DEF Marked
    <2> QED
      BY <1>1, <2>1 DEF Mark, NoOrphans
  <1>2. ASSUME NEW c \in claims, Make(c) \/ Clear(c) PROVE NoOrphans'
    BY <1>2 DEF Make, Clear, NoOrphans, TypeOK, Claim
  <1>3. ASSUME NEW c, Take(c) PROVE NoOrphans'
    BY <1>3 DEF Take, NoOrphans
  <1>4. CASE GiveUp(claims \ claims')
    BY <1>4 DEF GiveUp, NoOrphans
  <1>5. CASE \E l \in LakeNames : MakeByHand(l) \/ RemoveByHand(l)
    BY <1>5 DEF MakeByHand, RemoveByHand, NoOrphans, TypeOK
  <1>6. CASE UNCHANGED <<claims, maker, removals>>
    BY <1>6 DEF NoOrphans
  <1> QED
    BY <1>1, <1>2, <1>3, <1>4, <1>5, <1>6 DEF Next

(* Custody is worth implementing: through claims taken, marked and given    *)
(* up, and hands in between, no repository is orphaned.                     *)
THEOREM NoOrphansHolds == Spec => []NoOrphans
  <1>1. Init => TypeOK /\ NoOrphans
    BY DEF Init, TypeOK, NoOrphans
  <1>2. TypeOK /\ NoOrphans /\ [Next]_<<claims, maker, removals>> => (TypeOK /\ NoOrphans)'
    BY NextType, NextNoOrphans
  <1> QED
    BY <1>1, <1>2, PTL DEF Spec
=================================================================================
