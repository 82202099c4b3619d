----------------------------- MODULE CustodyProofs -----------------------------
(***************************************************************************)
(* Machine-checked proofs that the operator of Repositories implements      *)
(* Custody, for every set of names and manifests and every bound.           *)
(***************************************************************************)
EXTENDS RepositoriesProofs

-----------------------------------------------------------------------------
(* What the steps do to the objects, their cached copies and lakeFS.        *)

(* A step that changes one of them is one of these.                         *)
LEMMA Steps ==
    ASSUME [Next]_vars
    PROVE  \/ UNCHANGED <<repos, seenRepos, lake, losses>> /\ inputs' \in {inputs, inputs + 1}
           \/ \E m \in Manifests : ApplyRepo(m)
           \/ \E n \in Names : RemoveRepo(n) \/ AddFinalizer(n) \/ SyncRepo(n) \/ DeleteInLake(n)
           \/ UpdateStatus \/ RemoveFinalizer \/ OperatorRestart
           \/ CreateInLake \/ SetGCRules
           \/ \E l \in LakeNames : MakeLake(l) \/ LoseLake(l)
  <1> DEFINE Still == /\ UNCHANGED <<repos, seenRepos, lake, losses>>
                      /\ inputs' \in {inputs, inputs + 1}
  <1> USE DEF api, views, operator, world
  <1>1. \A n \in Names : ReconcileGone(n) \/ HasFinalizer(n) \/ Resync(n) => Still
    BY DEF ReconcileGone, HasFinalizer, Resync
  <1>2. LookUp \/ NoCredentials \/ DeleteCronJob \/ GetPolicy \/ NoPolicy => Still
    BY DEF LookUp, NoCredentials, DeleteCronJob, GetPolicy, NoPolicy
  <1>3. CreateDefaultPolicy \/ EnsureCronJob \/ KeepCronJob \/ CallFails \/ UpdateFails => Still
    BY DEF CreateDefaultPolicy, EnsureCronJob, KeepCronJob, CallFails, UpdateFails
  <1>4. /\ \A n \in Names : SyncJob(n) \/ RemoveJob(n) \/ CollectJob(n) => Still
        /\ \A p \in PolicyNames : SyncPolicy(p) \/ RemovePolicy(p) => Still
        /\ \A m \in Policies : ApplyPolicy(m) => Still
        /\ SyncSecret \/ ToggleSecret => Still
    BY DEF SyncJob, RemoveJob, CollectJob, SyncPolicy, RemovePolicy, ApplyPolicy, SyncSecret,
           ToggleSecret, Input
  <1>5. UNCHANGED vars => Still
    BY DEF vars
  <1> HIDE DEF Still
  <1>6. CASE OperatorStep
    BY <1>1, <1>2, <1>3, <1>6 DEF OperatorStep, Begin, Proceed, EnsureGC, Finish, Fail, Still
  <1>7. CASE WatchStep
    BY <1>4, <1>7 DEF WatchStep, Still
  <1>8. CASE EnvironmentStep
    BY <1>4, <1>8 DEF EnvironmentStep, Still
  <1> QED
    BY <1>5, <1>6, <1>7, <1>8 DEF Next, Still

(* kubectl apply: a new object has a new uid and no finalizer, a changed    *)
(* one keeps uid, finalizer and mark.                                       *)
LEMMA ApplyObjects ==
    ASSUME TypeOK, NEW m \in Manifests, ApplyRepo(m)
    PROVE  LET n == m.name IN
           /\ n \in Names /\ repos'[n] # None /\ repos'[n].spec = m.spec
           /\ \A k \in Names : k # n => repos'[k] = repos[k]
           /\ repos[n] = None => repos'[n].uid = inputs + 1 /\ ~repos'[n].finalizer
           /\ repos[n] # None =>
                 /\ repos'[n].uid = repos[n].uid
                 /\ repos'[n].finalizer = repos[n].finalizer
                 /\ repos'[n].deleting = repos[n].deleting
  <1> DEFINE n == m.name
  <1>1. n \in Names /\ m.spec \in RepositorySpec
    BY InputsAssumption DEF Manifest
  <1>2. \A k \in Names : k # n => repos'[k] = repos[k]
    BY DEF ApplyRepo, TypeOK, ObjectsOK
  <1>3. CASE repos[n] = None
    <2>1. repos'[n] = NewRepository(m.spec)
      BY <1>1, <1>3 DEF ApplyRepo, TypeOK, ObjectsOK
    <2>2. NewRepository(m.spec) # None
      BY <1>1, NewRepositoryType, NoneAssumption DEF TypeOK
    <2> QED
      BY <1>1, <1>2, <1>3, <2>1, <2>2 DEF NewRepository
  <1>4. CASE repos[n] # None
    <2>1. repos[n] \in Repository /\ repos'[n] = Changed(repos[n], m.spec)
      BY <1>1, <1>4 DEF ApplyRepo, TypeOK, ObjectsOK
    <2> QED
      BY <1>1, <1>2, <1>4, <2>1, ChangedFields DEF TypeOK
  <1> QED
    BY <1>3, <1>4

(* kubectl delete: an object with the finalizer is marked and stays, any    *)
(* other goes.                                                              *)
LEMMA RemoveObjects ==
    ASSUME TypeOK, NEW n \in Names, RemoveRepo(n)
    PROVE  /\ repos[n] # None /\ repos[n].deleting = FALSE
           /\ \A k \in Names : k # n => repos'[k] = repos[k]
           /\ ~repos[n].finalizer => repos'[n] = None
           /\ repos[n].finalizer =>
                 /\ repos'[n] # None /\ repos'[n].deleting = TRUE /\ repos'[n].finalizer
                 /\ repos'[n].uid = repos[n].uid /\ repos'[n].spec = repos[n].spec
  <1>1. /\ repos[n] # None /\ ~repos[n].deleting
        /\ \A k \in Names : k # n => repos'[k] = repos[k]
        /\ repos'[n] = IF repos[n].finalizer
                       THEN [Changed(repos[n], repos[n].spec) EXCEPT !.deleting = TRUE]
                       ELSE None
    BY DEF RemoveRepo, TypeOK, ObjectsOK
  <1>2. repos[n] \in Repository /\ repos[n].spec \in RepositorySpec
    BY <1>1, Uids, RepositoryFields
  <1>3. repos[n].deleting = FALSE
    BY <1>1, <1>2, RepositoryFields
  <1> QED
    BY <1>1, <1>2, <1>3, ChangedFields DEF TypeOK

(* The finalizer goes on the object the cache shows.                        *)
LEMMA AddFinalizerObjects ==
    ASSUME TypeOK, NEW n \in Names, AddFinalizer(n)
    PROVE  /\ repos[n] # None /\ repos[n] = seenRepos[n]
           /\ ~repos[n].deleting /\ ~repos[n].finalizer
           /\ \A k \in Names : k # n => repos'[k] = repos[k]
           /\ repos'[n] # None /\ repos'[n].finalizer /\ repos'[n].deleting = FALSE
           /\ repos'[n].uid = repos[n].uid /\ repos'[n].spec = repos[n].spec
           /\ seenRepos' = seenRepos /\ lake' = lake
  <1>1. /\ repos[n] # None /\ repos[n] = seenRepos[n]
        /\ ~repos[n].deleting /\ ~repos[n].finalizer
        /\ \A k \in Names : k # n => repos'[k] = repos[k]
        /\ repos'[n] = [repos[n] EXCEPT !.finalizer = TRUE]
        /\ seenRepos' = seenRepos /\ lake' = lake
    BY DEF AddFinalizer, SameVersion, Living, views, TypeOK, ObjectsOK
  <1>2. repos[n] \in Repository
    BY <1>1, Uids
  <1>3. repos'[n] \in Repository
    BY <1>1, <1>2 DEF Repository
  <1>4. repos'[n] # None
    BY <1>3, NoneAssumption
  <1>5. /\ repos'[n].finalizer /\ repos'[n].deleting = repos[n].deleting
        /\ repos'[n].uid = repos[n].uid /\ repos'[n].spec = repos[n].spec
    BY <1>1, <1>2 DEF Repository
  <1> QED
    BY <1>1, <1>4, <1>5

(* The status says nothing about the finalizer.                             *)
LEMMA UpdateStatusObjects ==
    ASSUME TypeOK, UpdateStatus
    PROVE  LET n == reconcile.name IN
           /\ n \in Names /\ repos[n] # None /\ repos'[n] # None
           /\ \A k \in Names : k # n => repos'[k] = repos[k]
           /\ repos'[n].finalizer = repos[n].finalizer
           /\ repos'[n].deleting = repos[n].deleting
           /\ repos'[n].uid = repos[n].uid /\ repos'[n].spec = repos[n].spec
  <1> DEFINE n == reconcile.name
  <1>1. n \in Names /\ repos[n] \in Repository /\ reconcile.reason \in Reasons
    BY Uids, ReconcileFields
       DEF UpdateStatus, At, SameVersion, TypeOK, OperatorOK, Reconcile
  <1>2. /\ \A k \in Names : k # n => repos'[k] = repos[k]
        /\ repos'[n] = [repos[n] EXCEPT !.ready = reconcile.reason, !.current = TRUE]
    BY <1>1 DEF UpdateStatus, TypeOK, ObjectsOK
  <1>3. repos'[n] \in Repository
    BY <1>1, <1>2 DEF Repository
  <1>4. repos[n] # None /\ repos'[n] # None
    BY <1>1, <1>3, NoneAssumption
  <1>5. /\ repos'[n].finalizer = repos[n].finalizer
        /\ repos'[n].deleting = repos[n].deleting
        /\ repos'[n].uid = repos[n].uid /\ repos'[n].spec = repos[n].spec
    BY <1>1, <1>2 DEF Repository
  <1> QED
    BY <1>1, <1>2, <1>4, <1>5

(* The object that loses the finalizer is the one whose deletion was seen.  *)
LEMMA RemoveFinalizerObjects ==
    ASSUME TypeOK, RemoveFinalizer
    PROVE  LET n == reconcile.name IN
           /\ n \in Names /\ repos[n] # None /\ repos[n] = reconcile.repo
           /\ repos[n].deleting /\ repos[n].finalizer
           /\ repos'[n] = None /\ \A k \in Names : k # n => repos'[k] = repos[k]
           /\ seenRepos' = seenRepos /\ lake' = lake
  <1>1. /\ reconcile.name \in Names
        /\ repos[reconcile.name] # None /\ repos[reconcile.name] = reconcile.repo
        /\ reconcile # None /\ reconcile.pc = "unfinalize"
        /\ seenRepos' = seenRepos /\ lake' = lake
    BY ReconcileFields DEF RemoveFinalizer, At, SameVersion, views, TypeOK
  <1>2. reconcile.repo.deleting /\ reconcile.repo.finalizer
    BY <1>1, ReconcileFields DEF TypeOK
  <1> QED
    BY <1>1, <1>2 DEF RemoveFinalizer, TypeOK, ObjectsOK

-----------------------------------------------------------------------------
(* One uid, one object.                                                     *)

(* A cached copy changes only into what is stored.                          *)
LEMMA SeenMoves ==
    ASSUME TypeOK, [Next]_vars, NEW n \in Names
    PROVE  seenRepos'[n] \in {seenRepos[n], repos[n]}
  BY Steps
     DEF ApplyRepo, RemoveRepo, AddFinalizer, SyncRepo, DeleteInLake, UpdateStatus,
         RemoveFinalizer, OperatorRestart, CreateInLake, SetGCRules, MakeLake, LoseLake,
         views, TypeOK, ViewsOK

(* A stored object keeps its uid, and gets one nobody had.                  *)
LEMMA UidMoves ==
    ASSUME TypeOK, [Next]_vars
    PROVE  /\ inputs' \in {inputs, inputs + 1}
           /\ \/ \A n \in Names : repos'[n] # None =>
                    repos[n] # None /\ repos'[n].uid = repos[n].uid
              \/ /\ inputs' = inputs + 1
                 /\ \E m \in Names :
                       /\ repos'[m].uid = inputs + 1
                       /\ \A n \in Names : n # m => repos'[n] = repos[n]
  <1> DEFINE UidsKept == \A n \in Names : repos'[n] # None =>
                         repos[n] # None /\ repos'[n].uid = repos[n].uid
  <1>1. inputs' \in {inputs, inputs + 1}
    BY Steps
       DEF ApplyRepo, RemoveRepo, AddFinalizer, SyncRepo, DeleteInLake, UpdateStatus,
           RemoveFinalizer, OperatorRestart, CreateInLake, SetGCRules, MakeLake, LoseLake,
           world, Input
  <1>2. ASSUME NEW m \in Manifests, ApplyRepo(m)
        PROVE  \/ UidsKept
               \/ /\ inputs' = inputs + 1
                  /\ m.name \in Names /\ repos'[m.name].uid = inputs + 1
                  /\ \A n \in Names : n # m.name => repos'[n] = repos[n]
    <2>1. inputs' = inputs + 1
      BY <1>2 DEF ApplyRepo, Input
    <2> QED
      BY <1>2, <2>1, ApplyObjects
  <1>3. ASSUME NEW n \in Names, RemoveRepo(n) PROVE UidsKept
    BY <1>3, RemoveObjects
  <1>4. ASSUME NEW n \in Names, AddFinalizer(n) PROVE UidsKept
    BY <1>4, AddFinalizerObjects
  <1>5. ASSUME UpdateStatus PROVE UidsKept
    BY <1>5, UpdateStatusObjects
  <1>6. ASSUME RemoveFinalizer PROVE UidsKept
    BY <1>6, RemoveFinalizerObjects
  <1>7. ASSUME repos' = repos PROVE UidsKept
    BY <1>7
  <1>8. \/ UidsKept
        \/ \E m \in Manifests : ApplyRepo(m)
    <2> HIDE DEF UidsKept
    <2> QED
      BY <1>3, <1>4, <1>5, <1>6, <1>7, Steps
         DEF SyncRepo, DeleteInLake, OperatorRestart, CreateInLake, SetGCRules, MakeLake,
             LoseLake, api
  <1> QED
    BY <1>1, <1>2, <1>8

(* So uids stay apart.                                                      *)
LEMMA NextUids ==
    ASSUME TypeOK, UidsApart, [Next]_vars
    PROVE  UidsApart'
  <1>0. inputs \in Nat
    BY DEF TypeOK, WorldOK
  <1>1. CASE \A n \in Names : repos'[n] # None =>
                repos[n] # None /\ repos'[n].uid = repos[n].uid
    BY <1>0, <1>1, SeenMoves, UidMoves DEF UidsApart
  <1>2. ASSUME inputs' = inputs + 1, NEW m \in Names, repos'[m].uid = inputs + 1,
               \A n \in Names : n # m => repos'[n] = repos[n]
        PROVE  UidsApart'
    <2>1. \A n \in Names : seenRepos'[n] # None => seenRepos'[n].uid \in 1 .. inputs
      BY SeenMoves DEF UidsApart
    <2>2. \A n \in Names : n # m /\ repos'[n] # None => repos'[n].uid \in 1 .. inputs
      BY <1>2 DEF UidsApart
    <2>3. \A n, k \in Names : n # k /\ repos'[n] # None /\ repos'[k] # None =>
             repos'[n].uid # repos'[k].uid
      BY <1>0, <1>2, <2>2 DEF UidsApart
    <2>4. \A n, k \in Names : n # k /\ seenRepos'[n] # None /\ repos'[k] # None =>
             seenRepos'[n].uid # repos'[k].uid
      BY <1>0, <1>2, <2>1, SeenMoves DEF UidsApart
    <2> QED
      BY <1>0, <1>2, <2>1, <2>2, <2>3, <2>4 DEF UidsApart
  <1> QED
    BY <1>1, <1>2, UidMoves

(* A uid belongs to one object for ever: no other object that is stored or  *)
(* cached has it.                                                           *)
THEOREM UidsApartHolds == Spec => []UidsApart
  <1>1. Init => UidsApart
    BY DEF Init, UidsApart
  <1>2. TypeOK /\ UidsApart /\ [Next]_vars => UidsApart'
    BY NextUids
  <1> QED
    BY <1>1, <1>2, TypeCorrect, PTL DEF Spec

-----------------------------------------------------------------------------
(* Only a deletion costs data.                                              *)

(* Hands aside, only the deletion of a marked copy removes a repository.    *)
LEMMA SparesLivingStep ==
    ASSUME IInv, [Next]_vars
    PROVE  SparesLiving
  <1> SUFFICES ASSUME StableNames, NEW l \in LakeNames, lake[l] # None, lake[l].by # 0,
                      lake'[l] = None, losses' = losses
               PROVE  \E n \in Names :
                         /\ Guards(n, lake[l].by)
                         /\ \/ repos[n].deleting
                            \/ \E m \in Leavers \ {n} : seenRepos[m].spec.lake = l
    BY DEF SparesLiving
  <1> USE DEF IInv
  <1>1. PICK n \in Names : Guards(n, lake[l].by) /\ repos[n].spec.lake = l
    BY DEF MadeIsGuarded
  <1>2. CreateInLake \/ SetGCRules => FALSE
    <2>1. ASSUME CreateInLake PROVE FALSE
      BY <2>1 DEF CreateInLake, TypeOK, ObjectsOK
    <2>2. ASSUME SetGCRules PROVE FALSE
      <3>1. lake'[l] \in LakeRepository
        <4>1. l = Wanted.lake
          BY <2>2 DEF SetGCRules, TypeOK, ObjectsOK
        <4>2. reconcile.policy \in Contents
          BY <2>2 DEF SetGCRules, At, TypeOK, OperatorOK, Reconcile
        <4> QED
          BY <2>2, <4>1, <4>2 DEF SetGCRules, TypeOK, ObjectsOK, LakeRepository
      <3> QED
        BY <3>1, NoneAssumption
    <2> QED
      BY <2>1, <2>2
  <1>3. PICK m \in Names : DeleteInLake(m)
    <2>1. \A k \in LakeNames : ~(MakeLake(k) \/ LoseLake(k))
      BY DEF MakeLake, LoseLake, TypeOK, ObjectsOK, WorldOK
    <2> QED
      BY <1>2, <2>1, Steps
         DEF ApplyRepo, RemoveRepo, AddFinalizer, SyncRepo, UpdateStatus, RemoveFinalizer,
             OperatorRestart
  <1>4. m \in Leavers /\ seenRepos[m].spec.lake = l
    BY <1>3 DEF DeleteInLake, Leavers, TypeOK, ObjectsOK
  <1>5. m = n => repos[n].deleting
    BY <1>1, <1>4 DEF Leavers, MarksLast, Leaving, Guards
  <1> QED
    BY <1>1, <1>4, <1>5

(* What a reconcile made in lakeFS goes, other than by hand, only when its  *)
(* object is marked or a mark on another that names it is seen: a stale     *)
(* copy of a deleted object does not take its successor's repository.       *)
THEOREM DeletionIsMeantHolds == Spec => DeletionIsMeant
  <1>1. IInv /\ [Next]_vars => [SparesLiving]_vars
    BY SparesLivingStep
  <1> QED
    BY <1>1, IInvHolds, PTL DEF Spec, DeletionIsMeant

-----------------------------------------------------------------------------
(* The operator implements Custody.                                         *)

Claims == StoredClaims \cup SeenClaims

(* A claim is an object with the finalizer, or a marked copy of one.        *)
LEMMA ClaimCases ==
    /\ \A c : c \in StoredClaims <=>
          \E n \in Holders : c = ClaimOf(repos[n])
    /\ \A c : c \in SeenClaims <=>
          \E n \in Leavers : c = ClaimOf(seenRepos[n])
  BY DEF StoredClaims, SeenClaims, Holders

(* Claims have their types.                                                 *)
LEMMA ClaimType ==
    ASSUME TypeOK, NEW c \in Claims
    PROVE  c \in Kept!Claim
  <1>1. \A r \in Repository : ClaimOf(r) \in Kept!Claim
    BY RepositoryFields DEF ClaimOf, Kept!Claim
  <1> QED
    BY <1>1, ClaimCases, Uids DEF Claims, Holders, Leavers

(* Who made a repository.                                                   *)
LEMMA MakerValue ==
    /\ \A l \in LakeNames : Maker[l] = IF lake[l] = None THEN None ELSE lake[l].by
    /\ Maker = [l \in LakeNames |-> Maker[l]]
  BY DEF Maker

(* The same after a step.                                                   *)
LEMMA MakerAfter ==
    /\ \A l \in LakeNames : Maker'[l] = IF lake'[l] = None THEN None ELSE lake'[l].by
    /\ Maker' = [l \in LakeNames |-> Maker'[l]]
  BY DEF Maker

(* No repository goes by hand but in LoseLake.                              *)
LEMMA LossesKept ==
    ASSUME \/ \E m \in Manifests : ApplyRepo(m)
           \/ \E n \in Names : RemoveRepo(n) \/ AddFinalizer(n) \/ SyncRepo(n) \/ DeleteInLake(n)
           \/ UpdateStatus \/ RemoveFinalizer \/ OperatorRestart
           \/ CreateInLake \/ SetGCRules
           \/ \E l \in LakeNames : MakeLake(l)
    PROVE  losses' = losses
  BY DEF ApplyRepo, RemoveRepo, AddFinalizer, SyncRepo, DeleteInLake, UpdateStatus,
         RemoveFinalizer, OperatorRestart, CreateInLake, SetGCRules, MakeLake, world, Input

(* Stored claims stay while objects keep what makes a claim.                *)
LEMMA StoredClaimsKept ==
    ASSUME \A n \in Names :
              LET held == repos[n] # None /\ repos[n].finalizer
                  holds == repos'[n] # None /\ repos'[n].finalizer
              IN  held <=> holds /\ (held => ClaimOf(repos'[n]) = ClaimOf(repos[n]))
    PROVE  StoredClaims' = StoredClaims
  BY DEF StoredClaims, Holders

(* Cached claims stay while the copies do.                                  *)
LEMMA SeenClaimsKept ==
    ASSUME seenRepos' = seenRepos
    PROVE  SeenClaims' = SeenClaims
  BY DEF SeenClaims, Leavers

(* A change of the spec leaves the claim what it was.                       *)
LEMMA ApplyKeeps ==
    ASSUME StableNames, IInv, NEW m \in Manifests, ApplyRepo(m)
    PROVE  Claims' = Claims /\ Maker' = Maker /\ losses' = losses
  <1> DEFINE n == m.name
  <1>1. /\ seenRepos' = seenRepos /\ lake' = lake
    BY DEF ApplyRepo, views
  <1>2. repos[n] # None => repos'[n].spec.lake = repos[n].spec.lake
    <2>1. repos'[n].spec = m.spec /\ n \in Names
      BY ApplyObjects DEF IInv
    <2> QED
      BY <2>1 DEF IInv, Applied, From, StableNames
  <1>3. StoredClaims' = StoredClaims
    BY <1>2, ApplyObjects, StoredClaimsKept DEF IInv, ClaimOf
  <1> QED
    BY <1>1, <1>3, SeenClaimsKept, LossesKept DEF Claims, Maker

(* So does a status.                                                        *)
LEMMA UpdateStatusKeeps ==
    ASSUME IInv, UpdateStatus
    PROVE  Claims' = Claims /\ Maker' = Maker /\ losses' = losses
  <1>1. /\ seenRepos' = seenRepos /\ lake' = lake
    BY DEF UpdateStatus, views
  <1>2. StoredClaims' = StoredClaims
    BY UpdateStatusObjects, StoredClaimsKept DEF IInv, ClaimOf
  <1> QED
    BY <1>1, <1>2, SeenClaimsKept, LossesKept DEF Claims, Maker

(* A finalizer put on an object is a claim by somebody new.                 *)
LEMMA AddFinalizerTakes ==
    ASSUME IInv, UidsApart, NEW n \in Names, AddFinalizer(n)
    PROVE  \E c \in Claims' \ Claims : Kept!Take(c)
  <1> DEFINE c == ClaimOf(repos'[n])
  <1>1. /\ repos[n] # None /\ seenRepos[n] = repos[n] /\ ~repos[n].finalizer
        /\ \A k \in Names : k # n => repos'[k] = repos[k]
        /\ repos'[n] # None /\ repos'[n].finalizer
        /\ seenRepos' = seenRepos /\ lake' = lake
    BY AddFinalizerObjects DEF IInv
  <1>2. /\ c.uid = repos[n].uid /\ c.leaving = FALSE
        /\ c = [uid |-> repos[n].uid, lake |-> repos[n].spec.lake, leaving |-> FALSE]
    BY AddFinalizerObjects DEF IInv, ClaimOf
  <1>3. c \in Kept!Claim
    <2>1. repos[n] \in Repository
      BY <1>1, Uids DEF IInv
    <2> QED
      BY <1>2, <2>1, RepositoryFields DEF Kept!Claim
  <1> HIDE DEF c
  <1>4. \A d \in Claims : d.uid # c.uid
    <2>1. ASSUME NEW k \in Holders PROVE repos[k].uid # c.uid
      <3>1. k # n
        BY <1>1, <2>1 DEF Holders
      <3> QED
        BY <1>1, <1>2, <2>1, <3>1 DEF UidsApart, Holders
    <2>2. ASSUME NEW k \in Leavers PROVE seenRepos[k].uid # c.uid
      <3>1. k # n
        BY <1>1, <2>2 DEF Leavers
      <3> QED
        BY <1>1, <1>2, <2>2, <3>1 DEF UidsApart, Leavers
    <2> QED
      BY <2>1, <2>2, ClaimCases DEF Claims, ClaimOf
  <1>5. \A d : d \in StoredClaims' <=> d \in StoredClaims \/ d = c
    <2>1. Holders' = Holders \cup {n}
      BY <1>1 DEF Holders
    <2>2. \A k \in Holders : ClaimOf(repos'[k]) = ClaimOf(repos[k])
      BY <1>1 DEF Holders
    <2>3. \A d : d \in StoredClaims' <=> \E k \in Holders' : d = ClaimOf(repos'[k])
      BY DEF StoredClaims
    <2> QED
      BY <2>1, <2>2, <2>3, ClaimCases DEF c
  <1>6. Claims' = Claims \cup {c}
    BY <1>1, <1>5, SeenClaimsKept DEF Claims
  <1>7. c \in Claims' \ Claims
    BY <1>4, <1>6
  <1>8. Maker' = Maker
    BY <1>1 DEF Maker
  <1> QED
    BY <1>2, <1>3, <1>4, <1>6, <1>7, <1>8, LossesKept DEF Kept!Take, Claims

(* A deletion marks the claim, or removes an object that has none.          *)
LEMMA RemoveMarks ==
    ASSUME IInv, UidsApart, NEW n \in Names, RemoveRepo(n)
    PROVE  \/ Claims' = Claims /\ Maker' = Maker /\ losses' = losses
           \/ \E c \in Claims : Kept!Mark(c)
  <1> USE DEF IInv
  <1>1. /\ seenRepos' = seenRepos /\ lake' = lake /\ SeenClaims' = SeenClaims /\ Maker' = Maker
    BY SeenClaimsKept DEF RemoveRepo, views, Maker
  <1>0. losses' = losses
    BY LossesKept
  <1>2. CASE ~repos[n].finalizer
    <2>1. StoredClaims' = StoredClaims
      BY <1>2, RemoveObjects, StoredClaimsKept
    <2> QED
      BY <1>0, <1>1, <2>1 DEF Claims
  <1>3. CASE repos[n].finalizer
    <2> DEFINE c == ClaimOf(repos[n])
               d == ClaimOf(repos'[n])
    <2>0. /\ repos[n] # None /\ repos[n].deleting = FALSE
          /\ \A k \in Names : k # n => repos'[k] = repos[k]
          /\ repos'[n] # None /\ repos'[n].deleting = TRUE /\ repos'[n].finalizer
          /\ repos'[n].uid = repos[n].uid /\ repos'[n].spec = repos[n].spec
      BY <1>3, RemoveObjects
    <2>1. c \in StoredClaims /\ ~c.leaving /\ d = Kept!Marked(c)
      <3>1. n \in Holders
        BY <1>3, <2>0 DEF Holders
      <3>2. c \in StoredClaims
        BY <3>1, ClaimCases
      <3>3. c = [uid |-> repos[n].uid, lake |-> repos[n].spec.lake, leaving |-> FALSE]
        BY <2>0 DEF ClaimOf
      <3>4. d = [uid |-> repos[n].uid, lake |-> repos[n].spec.lake, leaving |-> TRUE]
        BY <2>0 DEF ClaimOf
      <3> HIDE DEF c, d
      <3>5. ~c.leaving
        BY <3>3
      <3>6. d = Kept!Marked(c)
        BY <3>3, <3>4 DEF Kept!Marked
      <3> QED
        BY <3>2, <3>5, <3>6
    <2>2. c \notin SeenClaims
      BY <2>1, ClaimCases DEF Leavers, ClaimOf
    <2>3. \A k \in Names : k # n /\ repos[k] # None => ClaimOf(repos[k]) # c
      BY RemoveObjects DEF UidsApart, ClaimOf
    <2>4. \A e : e \in StoredClaims' <=> e = d \/ (e \in StoredClaims /\ e # c)
      <3>1. Holders' = Holders /\ n \in Holders
        BY <1>3, <2>0 DEF Holders
      <3>2. \A k \in Holders : k # n =>
               ClaimOf(repos'[k]) = ClaimOf(repos[k]) /\ ClaimOf(repos[k]) # c
        BY <2>0, <2>3 DEF Holders
      <3>3. \A e : e \in StoredClaims' <=> \E k \in Holders' : e = ClaimOf(repos'[k])
        BY DEF StoredClaims
      <3>4. d # c
        BY <2>0 DEF ClaimOf
      <3> QED
        BY <3>1, <3>2, <3>3, <3>4, ClaimCases
    <2> HIDE DEF c, d
    <2>5. Claims' = (Claims \ {c}) \cup {d}
      BY <1>1, <2>2, <2>4 DEF Claims
    <2> QED
      BY <1>0, <1>1, <2>1, <2>5 DEF Kept!Mark, Claims
  <1> QED
    BY <1>2, <1>3

(* Nothing made for a marked copy is left once another copy takes its       *)
(* place, unless the stored object is the marked one.                       *)
LEMMA LearnGivesUp ==
    ASSUME StableNames, IInv, UidsApart, (\E n \in Names : SyncRepo(n)) \/ OperatorRestart
    PROVE  Kept!GiveUp(Claims \ Claims')
  <1>1. /\ repos' = repos /\ lake' = lake
        /\ \A n \in Names : seenRepos'[n] \in {seenRepos[n], repos[n]}
    BY DEF SyncRepo, OperatorRestart, api, IInv, TypeOK, ViewsOK
  <1>2. StoredClaims' = StoredClaims /\ Maker' = Maker
    BY <1>1 DEF StoredClaims, Holders, Maker
  <1>3. Claims' \subseteq Claims
    <2>1. \A d : d \in SeenClaims' <=> \E k \in Leavers' : d = ClaimOf(seenRepos'[k])
      BY DEF SeenClaims
    <2>2. ASSUME NEW k \in Leavers' PROVE ClaimOf(seenRepos'[k]) \in Claims
      <3>1. CASE seenRepos'[k] = seenRepos[k]
        BY <2>2, <3>1, ClaimCases DEF Leavers, Claims
      <3>2. CASE seenRepos'[k] = repos[k]
        BY <2>2, <3>2, ClaimCases DEF Leavers, Holders, Claims
      <3> QED
        BY <1>1, <2>2, <3>1, <3>2 DEF Leavers
    <2> QED
      BY <1>2, <2>1, <2>2 DEF Claims
  <1>4. ASSUME NEW c \in Claims \ Claims'
        PROVE  c.leaving /\ Maker[c.lake] # c.uid
    <2>1. PICK n \in Leavers : c = ClaimOf(seenRepos[n])
      BY <1>2, <1>4, ClaimCases DEF Claims
    <2> DEFINE u == seenRepos[n].uid
               l == seenRepos[n].spec.lake
    <2>2. /\ n \in Names /\ seenRepos[n] # None /\ seenRepos[n].deleting
          /\ c.uid = u /\ c.lake = l /\ c.leaving = seenRepos[n].deleting
      BY <2>1 DEF Leavers, ClaimOf
    <2>3. l \in LakeNames /\ u \in Nat /\ u # 0
      BY <2>2, Uids, RepositoryFields DEF IInv, UidsApart, TypeOK, WorldOK
    <2> HIDE DEF u, l
    <2>4. ASSUME Maker[l] = u PROVE FALSE
      <3>1. lake[l] # None /\ lake[l].by = u
        BY <2>3, <2>4, MakerValue, NoneAssumption
      <3>2. PICK m \in Names : Guards(m, u) /\ repos[m].spec.lake = l
        BY <2>3, <3>1 DEF IInv, MadeIsGuarded
      <3>3. m = n
        BY <2>2, <3>2 DEF UidsApart, Guards, u
      <3>4. n \in Holders /\ repos[n].deleting = TRUE /\ repos[n].uid = u /\ repos[n].spec.lake = l
        <4>1. n \in Holders /\ repos[n].uid = u /\ repos[n].spec.lake = l /\ repos[n].finalizer
          BY <3>2, <3>3 DEF Guards, Holders
        <4>2. repos[n].deleting
          BY <2>2, <4>1 DEF IInv, MarksLast, Leaving, Holders
        <4>3. repos[n] \in Repository
          BY <4>1, Uids DEF IInv, Holders
        <4> QED
          BY <4>1, <4>2, <4>3, RepositoryFields
      <3>5. seenRepos[n].deleting = TRUE
        BY <2>2, Uids, RepositoryFields DEF IInv
      <3>6. ClaimOf(repos[n]) = c
        BY <2>1, <3>4, <3>5 DEF ClaimOf, u, l
      <3>7. c \in StoredClaims
        BY <3>4, <3>6, ClaimCases
      <3> QED
        BY <1>2, <1>4, <3>7 DEF Claims
    <2> QED
      BY <2>2, <2>4
  <1> QED
    BY <1>2, <1>3, <1>4, LossesKept DEF Kept!GiveUp, Claims

(* The claim that goes with the finalizer has no repository left.           *)
LEMMA RemoveFinalizerGivesUp ==
    ASSUME IInv, UidsApart, RemoveFinalizer
    PROVE  Kept!GiveUp(Claims \ Claims')
  <1> DEFINE n == reconcile.name
             c == ClaimOf(repos[n])
  <1>1. /\ n \in Names /\ repos[n] # None /\ repos[n] = reconcile.repo
        /\ repos[n].deleting /\ repos[n].finalizer
        /\ repos'[n] = None /\ \A k \in Names : k # n => repos'[k] = repos[k]
        /\ seenRepos' = seenRepos /\ lake' = lake
    BY RemoveFinalizerObjects DEF IInv
  <1>2. Emptied(repos[n].spec.lake)
    BY <1>1 DEF RemoveFinalizer, IInv, DeletedInLake
  <1>3. Maker' = Maker /\ SeenClaims' = SeenClaims
    BY <1>1, SeenClaimsKept DEF Maker
  <1>4. /\ repos[n].spec.lake \in LakeNames /\ repos[n].uid \in Nat /\ repos[n].uid # 0
    BY <1>1, Uids, RepositoryFields DEF IInv, UidsApart, TypeOK, WorldOK
  <1>5. /\ \A d \in StoredClaims' : d \in StoredClaims
        /\ \A d \in StoredClaims : d \in StoredClaims' \/ d = c
    <2> HIDE DEF n
    <2>1. \A d : d \in StoredClaims' <=> \E k \in Holders' : d = ClaimOf(repos'[k])
      BY DEF StoredClaims
    <2>2. /\ \A k \in Holders' : k \in Holders /\ repos'[k] = repos[k]
          /\ \A k \in Holders : k \in Holders' \/ k = n
      BY <1>1 DEF Holders
    <2> QED
      BY <2>1, <2>2, ClaimCases
  <1>6. c.leaving /\ Maker[c.lake] # c.uid
    <2>1. c.leaving /\ c.lake = repos[n].spec.lake /\ c.uid = repos[n].uid
      BY <1>1 DEF ClaimOf
    <2> HIDE DEF n, c
    <2> QED
      BY <1>2, <1>4, <2>1, MakerValue, NoneAssumption DEF Emptied
  <1> HIDE DEF n, c
  <1>7. Claims' \subseteq Claims /\ \A d \in Claims \ Claims' : d = c
    BY <1>3, <1>5 DEF Claims
  <1> QED
    BY <1>3, <1>6, <1>7, LossesKept DEF Kept!GiveUp, Claims

(* Only for a marked claim does the operator remove a repository.           *)
LEMMA DeleteInLakeClears ==
    ASSUME IInv, NEW n \in Names, DeleteInLake(n)
    PROVE  \E c \in Claims : Kept!Clear(c)
  <1> DEFINE c == ClaimOf(seenRepos[n])
  <1>1. /\ n \in Leavers /\ repos' = repos /\ seenRepos' = seenRepos
        /\ lake' = [lake EXCEPT ![seenRepos[n].spec.lake] = None]
    BY DEF DeleteInLake, Leavers, api, views
  <1>2. c \in Claims
    BY <1>1, ClaimCases DEF Claims
  <1>3. c.leaving /\ c.lake = seenRepos[n].spec.lake
    BY <1>1 DEF Leavers, ClaimOf
  <1>4. Claims' = Claims
    BY <1>1, SeenClaimsKept DEF Claims, StoredClaims, Holders
  <1> HIDE DEF c
  <1>5. Maker' = [Maker EXCEPT ![c.lake] = None]
    BY <1>1, <1>3 DEF Maker, IInv, TypeOK, ObjectsOK
  <1> QED
    BY <1>2, <1>3, <1>4, <1>5, LossesKept DEF Kept!Clear, Claims

(* What it creates, it creates for a claim.                                 *)
LEMMA CreateInLakeMakes ==
    ASSUME StableNames, IInv, CreateInLake
    PROVE  \/ Claims' = Claims /\ Maker' = Maker /\ losses' = losses
           \/ \E c \in Claims : Kept!Make(c)
  <1> DEFINE n == reconcile.name
             l == Wanted.lake
             c == ClaimOf(repos[n])
  <1>1. /\ reconcile # None /\ reconcile.pc # "unfinalize"
        /\ repos' = repos /\ seenRepos' = seenRepos
        /\ lake' = [lake EXCEPT ![l] =
              IF @ = None THEN [by |-> reconcile.repo.uid, rules |-> None] ELSE @]
    BY DEF CreateInLake, At, api, views
  <1>2. n \in Names /\ l \in LakeNames /\ Guards(n, reconcile.repo.uid)
    BY <1>1, ReconcileFields DEF IInv, TypeOK, ReconcileGuards
  <1>3. repos[n].spec.lake = l
    BY <1>1, <1>2 DEF IInv, Applied, From, StableNames, Wanted, Guards
  <1>4. c \in Claims /\ c.uid = reconcile.repo.uid /\ c.lake = l
    <2>1. n \in Holders
      BY <1>2 DEF Guards, Holders
    <2> QED
      BY <1>2, <1>3, <2>1, ClaimCases DEF Claims, ClaimOf, Guards
  <1>5. Claims' = Claims
    BY <1>1, SeenClaimsKept DEF Claims, StoredClaims, Holders
  <1> HIDE DEF n, l, c
  <1>6. CASE lake[l] = None
    <2>1. Maker[l] = None /\ Maker' = [Maker EXCEPT ![l] = reconcile.repo.uid]
      <3>1. LET new == [by |-> reconcile.repo.uid, rules |-> None] IN
            /\ new # None /\ new.by = reconcile.repo.uid
            /\ lake' = [lake EXCEPT ![l] = new]
        <4>1. [by |-> reconcile.repo.uid, rules |-> None] \in LakeRepository
          BY <1>1, Uids DEF IInv, LakeRepository
        <4> QED
          BY <1>1, <1>2, <1>6, <4>1, NoneAssumption DEF IInv, TypeOK, ObjectsOK
      <3> QED
        BY <1>2, <1>6, <3>1 DEF Maker, IInv, TypeOK, ObjectsOK
    <2> QED
      BY <1>4, <1>5, <2>1, LossesKept DEF Kept!Make, Claims
  <1>7. CASE lake[l] # None
    BY <1>1, <1>2, <1>5, <1>7, LossesKept DEF Maker, IInv, TypeOK, ObjectsOK
  <1> QED
    BY <1>6, <1>7

(* Rules change nothing of whose a repository is.                           *)
LEMMA SetGCRulesKeeps ==
    ASSUME IInv, SetGCRules
    PROVE  Claims' = Claims /\ Maker' = Maker /\ losses' = losses
  <1> DEFINE l == Wanted.lake
             new == [lake[l] EXCEPT !.rules = reconcile.policy]
  <1>1. /\ repos' = repos /\ seenRepos' = seenRepos
        /\ lake[l] # None /\ lake' = [lake EXCEPT ![l] = new]
        /\ l \in LakeNames /\ reconcile.policy \in Contents
    BY ReconcileFields
       DEF SetGCRules, At, api, views, IInv, TypeOK, ObjectsOK, OperatorOK, Reconcile
  <1>2. lake[l] \in LakeRepository
    BY <1>1 DEF IInv, TypeOK, ObjectsOK
  <1>3. new \in LakeRepository /\ new.by = lake[l].by
    BY <1>1, <1>2 DEF LakeRepository
  <1> HIDE DEF new
  <1>4. new # None
    BY <1>3, NoneAssumption
  <1>5. Claims' = Claims
    BY <1>1, SeenClaimsKept DEF Claims, StoredClaims, Holders
  <1> QED
    BY <1>1, <1>3, <1>4, <1>5, LossesKept DEF Maker, IInv, TypeOK, ObjectsOK

(* People make and remove repositories by hand.                             *)
LEMMA HandsCustody ==
    ASSUME IInv, NEW l \in LakeNames, MakeLake(l) \/ LoseLake(l)
    PROVE  Kept!MakeByHand(l) \/ Kept!RemoveByHand(l)
  <1>1. repos' = repos /\ seenRepos' = seenRepos
    BY DEF MakeLake, LoseLake, api, views
  <1>2. Claims' = Claims
    BY <1>1, SeenClaimsKept DEF Claims, StoredClaims, Holders
  <1>3. CASE MakeLake(l)
    <2> DEFINE new == [by |-> 0, rules |-> None]
    <2>1. lake[l] = None /\ lake' = [lake EXCEPT ![l] = new]
      BY <1>3 DEF MakeLake
    <2>2. new \in LakeRepository /\ new.by = 0
      BY DEF LakeRepository
    <2> HIDE DEF new
    <2>3. new # None
      BY <2>2, NoneAssumption
    <2>4. Maker[l] = None /\ Maker' = [Maker EXCEPT ![l] = 0]
      BY <2>1, <2>2, <2>3 DEF Maker, IInv, TypeOK, ObjectsOK
    <2> QED
      BY <1>2, <1>3, <2>4, LossesKept DEF Kept!MakeByHand, Claims
  <1>4. CASE LoseLake(l)
    <2>1. Maker' = [Maker EXCEPT ![l] = None]
      BY <1>4 DEF LoseLake, Maker, IInv, TypeOK, ObjectsOK
    <2>2. losses' = losses + 1
      BY <1>4 DEF LoseLake
    <2> QED
      BY <1>2, <2>1, <2>2 DEF Kept!RemoveByHand, Claims
  <1> QED
    BY <1>3, <1>4

(* At the start there is neither claim nor repository.                      *)
LEMMA InitCustody == Init => Kept!Init
  <1> SUFFICES ASSUME Init PROVE Kept!Init
    OBVIOUS
  <1>1. StoredClaims = {} /\ SeenClaims = {}
    BY ClaimCases DEF Init, Holders, Leavers
  <1>2. Maker = [l \in LakeNames |-> None]
    BY DEF Init, Maker
  <1>3. losses = 0
    BY DEF Init
  <1> QED
    BY <1>1, <1>2, <1>3 DEF Kept!Init

(* Every step is one of Custody's, or changes nothing that Custody sees.    *)
LEMMA NextCustody ==
    ASSUME StableNames, IInv, UidsApart, [Next]_vars
    PROVE  Kept!Next \/ (Claims' = Claims /\ Maker' = Maker /\ losses' = losses)
  <1>1. CASE UNCHANGED <<repos, seenRepos, lake, losses>>
    BY <1>1, SeenClaimsKept DEF Claims, StoredClaims, Holders, Maker
  <1>2. CASE \E m \in Manifests : ApplyRepo(m)
    BY <1>2, ApplyKeeps
  <1>3. ASSUME NEW n \in Names, RemoveRepo(n) \/ AddFinalizer(n) \/ SyncRepo(n) \/ DeleteInLake(n)
        PROVE  Kept!Next \/ (Claims' = Claims /\ Maker' = Maker /\ losses' = losses)
    <2>1. CASE RemoveRepo(n)
      BY <2>1, RemoveMarks DEF Kept!Next, Claims
    <2>2. CASE AddFinalizer(n)
      BY <2>2, AddFinalizerTakes DEF Kept!Next, Claims
    <2>3. CASE SyncRepo(n)
      BY <2>3, LearnGivesUp DEF Kept!Next, Claims
    <2>4. CASE DeleteInLake(n)
      BY <2>4, DeleteInLakeClears DEF Kept!Next, Claims
    <2> QED
      BY <1>3, <2>1, <2>2, <2>3, <2>4
  <1>4. CASE UpdateStatus \/ SetGCRules
    BY <1>4, UpdateStatusKeeps, SetGCRulesKeeps
  <1>5. CASE RemoveFinalizer
    BY <1>5, RemoveFinalizerGivesUp DEF Kept!Next, Claims
  <1>6. CASE OperatorRestart
    BY <1>6, LearnGivesUp DEF Kept!Next, Claims
  <1>7. CASE CreateInLake
    BY <1>7, CreateInLakeMakes DEF Kept!Next, Claims
  <1>8. CASE \E l \in LakeNames : MakeLake(l) \/ LoseLake(l)
    BY <1>8, HandsCustody DEF Kept!Next
  <1> QED
    BY <1>1, <1>2, <1>3, <1>4, <1>5, <1>6, <1>7, <1>8, Steps

(* While objects keep the repository they name, the operator implements     *)
(* Custody: it makes a repository only on a claim, removes one only for a   *)
(* marked claim, and gives a claim up only when it is marked and nothing    *)
(* made on it is left.                                                      *)
THEOREM ImplementsCustodyHolds ==
    ASSUME StableNames
    PROVE  Spec => ImplementsCustody
  <1>1. IInv /\ UidsApart /\ [Next]_vars =>
            [Kept!Next]_<<StoredClaims \cup SeenClaims, Maker, losses>>
    BY NextCustody DEF Claims
  <1> QED
    BY <1>1, InitCustody, IInvHolds, UidsApartHolds, PTL DEF Spec, ImplementsCustody, Kept!Spec

================================================================================
