-------------------------- MODULE RepositoriesProofs ---------------------------
(***************************************************************************)
(* Machine-checked proofs about Repositories, for every set of names,       *)
(* policies and manifests and every bound.                                  *)
(***************************************************************************)
EXTENDS Repositories, TLAPS

-----------------------------------------------------------------------------
(* What the model builds is of the right kind.                              *)

(* A stored object's fields have their types.                               *)
LEMMA RepositoryFields ==
    ASSUME NEW r \in Repository
    PROVE  /\ r.uid \in Nat
           /\ r.spec \in RepositorySpec
           /\ r.spec.lake \in LakeNames
           /\ r.spec.policy \in PolicyNames
           /\ r.deleting \in BOOLEAN
           /\ r.finalizer \in BOOLEAN
  BY DEF Repository, RepositorySpec

(* kubectl apply makes a well-formed object,                                *)
LEMMA NewRepositoryType ==
    ASSUME WorldOK, NEW spec \in RepositorySpec
    PROVE  NewRepository(spec) \in Repository
  BY DEF WorldOK, NewRepository, Repository

(* and changes one into a well-formed object.                               *)
LEMMA ChangedType ==
    ASSUME WorldOK, NEW r \in Repository, NEW spec \in RepositorySpec
    PROVE  /\ Changed(r, spec) \in Repository
           /\ [Changed(r, spec) EXCEPT !.deleting = TRUE] \in Repository
  <1>1. inputs + 1 \in Nat
    BY DEF WorldOK
  <1>2. Changed(r, spec) \in Repository
    BY <1>1 DEF Changed, Repository
  <1>3. [Changed(r, spec) EXCEPT !.deleting = TRUE] \in Repository
    BY <1>2 DEF Repository
  <1> QED
    BY <1>2, <1>3

(* What a reconcile starts with is well formed.                             *)
LEMMA BegunType ==
    ASSUME NEW n \in Names, NEW r \in Repository, NEW pc \in {"look", "unfinalize"}
    PROVE  Begun(n, r, pc) \in Reconcile
  BY DEF Begun, Reconcile

(* The fields of a reconcile in progress have their types.                  *)
LEMMA ReconcileFields ==
    ASSUME OperatorOK, reconcile # None
    PROVE  /\ reconcile \in Reconcile
           /\ reconcile.name \in Names
           /\ reconcile.repo \in Repository
           /\ reconcile.repo.finalizer
           /\ Wanted.lake \in LakeNames
           /\ Wanted.policy \in PolicyNames
           /\ reconcile.pc = "unfinalize" <=> reconcile.repo.deleting
  BY RepositoryFields DEF OperatorOK, Reconcile, Wanted

(* A reconcile that goes on to its status stays well formed.                *)
LEMMA ConcludeType ==
    ASSUME OperatorOK, reconcile # None, reconcile.pc # "unfinalize",
           NEW reason \in Reasons, Conclude(reason), queue' = queue
    PROVE  OperatorOK'
  BY NoneAssumption DEF OperatorOK, Reconcile, Conclude

(* The same for a step that needs no policy yet.                           *)
LEMMA GoToType ==
    ASSUME OperatorOK, reconcile # None, reconcile.pc # "unfinalize",
           NEW pc \in {"create", "gc"}, GoTo(pc), queue' = queue
    PROVE  OperatorOK'
  BY NoneAssumption DEF OperatorOK, Reconcile, GoTo

-----------------------------------------------------------------------------
(* Type correctness.                                                        *)

(* The start of a reconcile keeps everything well formed.                   *)
LEMMA BeginType ==
    ASSUME TypeOK, NEW n \in Names, Begin(n)
    PROVE  TypeOK'
  <1> USE NoneAssumption DEF TypeOK, views, api, world, Start
  <1>1. CASE ReconcileGone(n)
    BY <1>1 DEF ReconcileGone, OperatorOK, ObjectsOK, ViewsOK, WorldOK
  <1>2. CASE AddFinalizer(n)
    <2>1. repos[n] \in Repository /\ ~repos[n].deleting
      BY <1>2 DEF AddFinalizer, Living, SameVersion, ObjectsOK
    <2>2. /\ [repos[n] EXCEPT !.finalizer = TRUE] \in Repository
          /\ repos'[n] = [repos[n] EXCEPT !.finalizer = TRUE]
      BY <1>2, <2>1 DEF AddFinalizer, ObjectsOK, Repository
    <2>3. /\ repos'[n] \in Repository /\ ~repos'[n].deleting /\ repos'[n].finalizer
      BY <2>1, <2>2 DEF Repository
    <2>4. OperatorOK'
      BY <1>2, <2>3, BegunType DEF AddFinalizer, OperatorOK, Begun
    <2>5. repos' \in [Names -> Repository \cup {None}]
      BY <1>2, <2>2 DEF AddFinalizer, ObjectsOK
    <2> QED
      BY <1>2, <2>4, <2>5 DEF AddFinalizer, ObjectsOK, ViewsOK, WorldOK
  <1>3. CASE HasFinalizer(n)
    <2>1. seenRepos[n] \in Repository
      BY <1>3 DEF HasFinalizer, Living, ViewsOK
    <2>2. OperatorOK'
      BY <1>3, <2>1, BegunType DEF HasFinalizer, Living, OperatorOK, Begun
    <2> QED
      BY <1>3, <2>2 DEF HasFinalizer, ObjectsOK, ViewsOK, WorldOK
  <1>4. CASE DeleteInLake(n)
    <2>1. seenRepos[n] \in Repository
      BY <1>4 DEF DeleteInLake, ViewsOK
    <2>2. OperatorOK'
      BY <1>4, <2>1, BegunType DEF DeleteInLake, OperatorOK, Begun
    <2> QED
      BY <1>4, <2>2 DEF DeleteInLake, ObjectsOK, ViewsOK, WorldOK
  <1> QED
    BY <1>1, <1>2, <1>3, <1>4 DEF Begin

(* So do the requests to lakeFS and the writes that follow.                 *)
LEMMA ProceedType ==
    ASSUME TypeOK, Proceed
    PROVE  TypeOK'
  <1> USE NoneAssumption DEF TypeOK, views, api, world, At
  <1>0. /\ reconcile # None
        /\ reconcile.pc # "unfinalize"
        /\ reconcile.pc \in {"rules", "job"} => reconcile.policy \in Contents
    <2>1. reconcile # None /\ reconcile.pc # "unfinalize"
      BY DEF Proceed, EnsureGC, LookUp, NoCredentials, CreateInLake, DeleteCronJob,
             GetPolicy, NoPolicy, CreateDefaultPolicy, SetGCRules, EnsureCronJob, KeepCronJob
    <2> QED
      BY <2>1 DEF OperatorOK, Reconcile
  <1> DEFINE n == reconcile.name
  <1>a. /\ reconcile \in Reconcile /\ n \in Names /\ reconcile.repo \in Repository
        /\ Wanted.lake \in LakeNames /\ Wanted.policy \in PolicyNames
    BY <1>0, ReconcileFields
  <1>b. {"Resolved", "Invalid", "Unavailable"} \subseteq Reasons
    BY DEF Reasons
  <1>1. CASE LookUp
    BY <1>0, <1>1, GoToType DEF LookUp, ObjectsOK, ViewsOK, WorldOK
  <1>2. CASE NoCredentials
    BY <1>0, <1>2, <1>b, ConcludeType DEF NoCredentials, ObjectsOK, ViewsOK, WorldOK
  <1>3. CASE CreateInLake
    <2>1. OperatorOK'
      BY <1>0, <1>3, GoToType DEF CreateInLake
    <2>2. lake' \in [LakeNames -> LakeRepository \cup {None}]
      BY <1>a, <1>3, RepositoryFields DEF CreateInLake, ObjectsOK, LakeRepository
    <2> QED
      BY <1>3, <2>1, <2>2 DEF CreateInLake, ObjectsOK, ViewsOK, WorldOK
  <1>4. CASE DeleteCronJob
    BY <1>0, <1>a, <1>4, <1>b, ConcludeType DEF DeleteCronJob, ObjectsOK, ViewsOK, WorldOK
  <1>5. CASE GetPolicy
    <2>1. seenPolicies[Wanted.policy] \in Contents
      BY <1>a, <1>5 DEF GetPolicy, ViewsOK
    <2>2. OperatorOK'
      BY <1>0, <1>5, <2>1 DEF GetPolicy, OperatorOK, Reconcile
    <2> QED
      BY <1>5, <2>2 DEF GetPolicy, ObjectsOK, ViewsOK, WorldOK
  <1>6. CASE NoPolicy
    BY <1>0, <1>6, <1>b, ConcludeType DEF NoPolicy, ObjectsOK, ViewsOK, WorldOK
  <1>7. CASE CreateDefaultPolicy
    <2>1. OperatorOK'
      BY <1>0, <1>7, DefaultsAssumption DEF CreateDefaultPolicy, OperatorOK, Reconcile
    <2> QED
      BY <1>7, <2>1, DefaultsAssumption DEF CreateDefaultPolicy, ObjectsOK, ViewsOK, WorldOK
  <1>8. CASE SetGCRules
    <2>1. OperatorOK'
      BY <1>0, <1>8 DEF SetGCRules, GoTo, OperatorOK, Reconcile
    <2>2. [lake[Wanted.lake] EXCEPT !.rules = reconcile.policy] \in LakeRepository
      BY <1>0, <1>a, <1>8 DEF SetGCRules, ObjectsOK, LakeRepository
    <2>3. lake' \in [LakeNames -> LakeRepository \cup {None}]
      BY <1>8, <2>2 DEF SetGCRules, ObjectsOK
    <2> QED
      BY <1>8, <2>1, <2>3 DEF SetGCRules, ObjectsOK, ViewsOK, WorldOK
  <1>9. CASE EnsureCronJob
    <2>1. OperatorOK'
      BY <1>0, <1>9, <1>b, ConcludeType DEF EnsureCronJob
    <2>2. WantedJob \in CronJob
      BY <1>0, <1>a, <1>9, RepositoryFields DEF EnsureCronJob, WantedJob, CronJob
    <2>3. jobs' \in [Names -> CronJob \cup {None}]
      BY <1>9, <2>2 DEF EnsureCronJob, ObjectsOK
    <2> QED
      BY <1>9, <2>1, <2>3 DEF EnsureCronJob, ObjectsOK, ViewsOK, WorldOK
  <1>10. CASE KeepCronJob
    BY <1>0, <1>10, <1>b, ConcludeType DEF KeepCronJob, ObjectsOK, ViewsOK, WorldOK
  <1> QED
    BY <1>1, <1>2, <1>3, <1>4, <1>5, <1>6, <1>7, <1>8, <1>9, <1>10 DEF Proceed, EnsureGC

(* So do the end of a reconcile, a failing call, a restart and a resync.    *)
LEMMA EndType ==
    ASSUME TypeOK, Finish \/ Fail \/ OperatorRestart \/ (\E n \in Names : Resync(n))
    PROVE  TypeOK'
  <1> USE NoneAssumption DEF TypeOK, views, api, world, At
  <1>1. CASE UpdateStatus
    <2>1. /\ reconcile.name \in Names
          /\ reconcile.reason \in Reasons
          /\ repos[reconcile.name] \in Repository
      BY <1>1, ReconcileFields DEF UpdateStatus, OperatorOK, Reconcile, SameVersion, ObjectsOK
    <2>2. [repos[reconcile.name] EXCEPT !.ready = reconcile.reason, !.current = TRUE]
             \in Repository
      BY <2>1 DEF Repository
    <2>3. repos' \in [Names -> Repository \cup {None}]
      BY <1>1, <2>2 DEF UpdateStatus, ObjectsOK
    <2>4. OperatorOK'
      BY <1>1, <2>1 DEF UpdateStatus, OperatorOK
    <2> QED
      BY <1>1, <2>3, <2>4 DEF UpdateStatus, ObjectsOK, ViewsOK, WorldOK
  <1>2. CASE RemoveFinalizer
    BY <1>2 DEF RemoveFinalizer, OperatorOK, ObjectsOK, ViewsOK, WorldOK
  <1>3. CASE CallFails
    <2>1. "Unavailable" \in Reasons
      BY DEF Reasons
    <2> QED
      BY <1>3, <2>1, ConcludeType DEF CallFails, ObjectsOK, ViewsOK, WorldOK
  <1>4. CASE UpdateFails
    BY <1>4, ReconcileFields DEF UpdateFails, OperatorOK, ObjectsOK, ViewsOK, WorldOK
  <1>5. CASE OperatorRestart
    BY <1>5 DEF OperatorRestart, OperatorOK, ObjectsOK, ViewsOK, WorldOK
  <1>6. CASE \E n \in Names : Resync(n)
    BY <1>6 DEF Resync, OperatorOK, ObjectsOK, ViewsOK, WorldOK
  <1> QED
    BY <1>1, <1>2, <1>3, <1>4, <1>5, <1>6 DEF Finish, Fail

(* So do watch events,                                                      *)
LEMMA WatchType ==
    ASSUME TypeOK, WatchStep
    PROVE  TypeOK'
  <1> USE NoneAssumption DEF TypeOK, api, operator, world
  <1>1. ASSUME NEW n \in Names, SyncRepo(n) PROVE TypeOK'
    BY <1>1 DEF SyncRepo, OperatorOK, ObjectsOK, ViewsOK, WorldOK
  <1>2. ASSUME NEW n \in Names, SyncJob(n) PROVE TypeOK'
    BY <1>2 DEF SyncJob, OperatorOK, ObjectsOK, ViewsOK, WorldOK
  <1>3. ASSUME NEW p \in PolicyNames, SyncPolicy(p) PROVE TypeOK'
    BY <1>3 DEF SyncPolicy, RepositoriesForPolicy, OperatorOK, ObjectsOK, ViewsOK, WorldOK
  <1>4. CASE SyncSecret
    BY <1>4 DEF SyncSecret, OperatorOK, ObjectsOK, ViewsOK, WorldOK
  <1> QED
    BY <1>1, <1>2, <1>3, <1>4 DEF WatchStep

(* and what people and the garbage collector do.                            *)
LEMMA EnvironmentType ==
    ASSUME TypeOK, EnvironmentStep
    PROVE  TypeOK'
  <1> USE NoneAssumption DEF TypeOK, views, api, operator, Input
  <1>0. WorldOK => inputs + 1 \in Nat /\ losses + 1 \in Nat
    BY DEF WorldOK
  <1>1. ASSUME NEW m \in Manifests, ApplyRepo(m) PROVE TypeOK'
    <2>1. m.name \in Names /\ m.spec \in RepositorySpec
      BY InputsAssumption DEF Manifest
    <2> DEFINE new == IF repos[m.name] = None THEN NewRepository(m.spec)
                                              ELSE Changed(repos[m.name], m.spec)
    <2>2. new \in Repository
      BY <2>1, NewRepositoryType, ChangedType DEF ObjectsOK
    <2>3. repos' = [repos EXCEPT ![m.name] = new]
      BY <1>1 DEF ApplyRepo
    <2> HIDE DEF new
    <2>4. repos' \in [Names -> Repository \cup {None}]
      BY <2>2, <2>3 DEF ObjectsOK
    <2> QED
      BY <1>0, <1>1, <2>4 DEF ApplyRepo, OperatorOK, ObjectsOK, ViewsOK, WorldOK
  <1>2. ASSUME NEW m \in Policies, ApplyPolicy(m) PROVE TypeOK'
    <2>1. m.name \in PolicyNames /\ m.content \in Contents
      BY InputsAssumption DEF PolicyManifest
    <2> QED
      BY <1>0, <1>2, <2>1 DEF ApplyPolicy, OperatorOK, ObjectsOK, ViewsOK, WorldOK
  <1>3. ASSUME NEW n \in Names, RemoveRepo(n) PROVE TypeOK'
    <2> DEFINE marked == [Changed(repos[n], repos[n].spec) EXCEPT !.deleting = TRUE]
    <2>1. marked \in Repository
      BY <1>3, ChangedType, RepositoryFields DEF RemoveRepo, ObjectsOK
    <2>2. repos' = [repos EXCEPT ![n] = IF repos[n].finalizer THEN marked ELSE None]
      BY <1>3 DEF RemoveRepo
    <2> HIDE DEF marked
    <2>3. repos' \in [Names -> Repository \cup {None}]
      BY <2>1, <2>2 DEF ObjectsOK
    <2> QED
      BY <1>0, <1>3, <2>3 DEF RemoveRepo, OperatorOK, ObjectsOK, ViewsOK, WorldOK
  <1>4. ASSUME NEW n \in Names, RemoveJob(n) \/ CollectJob(n) PROVE TypeOK'
    BY <1>0, <1>4 DEF RemoveJob, CollectJob, world, OperatorOK, ObjectsOK, ViewsOK, WorldOK
  <1>5. ASSUME NEW p \in PolicyNames, RemovePolicy(p) PROVE TypeOK'
    BY <1>0, <1>5 DEF RemovePolicy, OperatorOK, ObjectsOK, ViewsOK, WorldOK
  <1>6. ASSUME NEW l \in LakeNames, MakeLake(l) \/ LoseLake(l) PROVE TypeOK'
    BY <1>0, <1>6
       DEF MakeLake, LoseLake, LakeRepository, OperatorOK, ObjectsOK, ViewsOK, WorldOK
  <1>7. CASE ToggleSecret
    BY <1>0, <1>7 DEF ToggleSecret, OperatorOK, ObjectsOK, ViewsOK, WorldOK
  <1> QED
    BY <1>1, <1>2, <1>3, <1>4, <1>5, <1>6, <1>7 DEF EnvironmentStep

(* The program starts with nothing, which is well formed.                   *)
LEMMA InitType == Init => TypeOK
  BY NoneAssumption DEF Init, TypeOK, ObjectsOK, ViewsOK, OperatorOK, WorldOK

(* No step makes anything ill formed.                                       *)
LEMMA NextType ==
    ASSUME TypeOK, [Next]_vars
    PROVE  TypeOK'
  <1>1. CASE Next
    BY <1>1, BeginType, ProceedType, EndType, WatchType, EnvironmentType
       DEF Next, OperatorStep
  <1>2. CASE UNCHANGED vars
    BY <1>2 DEF vars, TypeOK, ObjectsOK, ViewsOK, OperatorOK, WorldOK
  <1> QED
    BY <1>1, <1>2

(* Every reachable state is well formed, and a reconcile has at each step   *)
(* what the step needs.                                                     *)
THEOREM TypeCorrect == Spec => []TypeOK
  BY InitType, NextType, PTL DEF Spec

-----------------------------------------------------------------------------
(* What the operator made in lakeFS.                                        *)

(* The variables the invariants speak of, beside types.                     *)
Objects == <<repos, seenRepos, reconcile, lake>>

(* A step that touches none of it disturbs none of the invariants.          *)
LEMMA UntouchedIInv ==
    ASSUME IInv, TypeOK', UNCHANGED Objects
    PROVE  IInv'
  BY DEF IInv, Objects, Applied, SeenGuards, MarksLast, ReconcileGuards, DeletedInLake,
         MadeIsGuarded, Guards, From, Leaving, Emptied, At

(* The uids the invariants compare are numbers.                             *)
LEMMA Uids ==
    ASSUME TypeOK
    PROVE  /\ \A n \in Names : repos[n] # None => repos[n] \in Repository
           /\ \A n \in Names : seenRepos[n] # None =>
                 seenRepos[n] \in Repository /\ seenRepos[n].uid \in Nat
           /\ reconcile # None => reconcile.name \in Names /\ reconcile.repo.uid \in Nat
           /\ \A l \in LakeNames : lake[l] # None => lake[l].by \in Nat
  BY ReconcileFields, RepositoryFields
     DEF TypeOK, ObjectsOK, ViewsOK, LakeRepository

(* A change of an object that keeps what it guards, and its mark, keeps the *)
(* invariants; the reconcile in progress may end with it.                   *)
LEMMA ReposKept ==
    ASSUME IInv, TypeOK',
           seenRepos' = seenRepos, lake' = lake, reconcile' \in {reconcile, None},
           \A n \in Names : Leaving(repos[n]) => Leaving(repos'[n]),
           \A n \in Names : repos'[n] # None => From(n, repos'[n]),
           \A n \in Names : \A u \in Nat : Guards(n, u) =>
              /\ repos'[n] # None /\ repos'[n].uid = u /\ repos'[n].finalizer
              /\ StableNames => repos'[n].spec.lake = repos[n].spec.lake
    PROVE  IInv'
  <1> USE Uids DEF IInv
  <1>1. Applied'
    BY DEF Applied, From
  <1>2. SeenGuards'
    BY DEF SeenGuards, Guards
  <1>3. MarksLast'
    BY DEF MarksLast, At
  <1>4. ReconcileGuards'
    BY DEF ReconcileGuards, Guards
  <1>5. DeletedInLake'
    BY DEF DeletedInLake, Emptied, At
  <1>6. MadeIsGuarded'
    <2> SUFFICES ASSUME StableNames, NEW l \in LakeNames, lake[l] # None, lake[l].by # 0
                 PROVE  (\E n \in Names : Guards(n, lake[l].by) /\ repos[n].spec.lake = l)'
      BY DEF MadeIsGuarded, StableNames
    <2>1. PICK n \in Names : Guards(n, lake[l].by) /\ repos[n].spec.lake = l
      BY DEF MadeIsGuarded
    <2>2. lake[l].by \in Nat
      OBVIOUS
    <2> QED
      BY <2>1, <2>2 DEF Guards
  <1> QED
    BY <1>1, <1>2, <1>3, <1>4, <1>5, <1>6

(* A change of spec, and a mark, leave uid and finalizer alone.             *)
LEMMA ChangedFields ==
    ASSUME WorldOK, NEW r \in Repository, NEW spec \in RepositorySpec
    PROVE  LET c == Changed(r, spec)
               d == [c EXCEPT !.deleting = TRUE]
           IN  /\ c # None /\ c.uid = r.uid /\ c.finalizer = r.finalizer
               /\ c.deleting = r.deleting /\ c.spec = spec
               /\ d # None /\ d.uid = r.uid /\ d.finalizer = r.finalizer
               /\ d.deleting /\ d.spec = spec
  <1> DEFINE c == Changed(r, spec)
             d == [c EXCEPT !.deleting = TRUE]
  <1>1. c \in Repository /\ d \in Repository
    BY ChangedType
  <1>2. c # None /\ d # None
    BY <1>1, NoneAssumption
  <1>3. /\ c.uid = r.uid /\ c.finalizer = r.finalizer
        /\ c.deleting = r.deleting /\ c.spec = spec
    BY DEF Changed, Repository
  <1> HIDE DEF c
  <1>4. /\ d.uid = c.uid /\ d.finalizer = c.finalizer /\ d.deleting /\ d.spec = c.spec
    BY <1>1 DEF Repository
  <1> QED
    BY <1>2, <1>3, <1>4 DEF c

(* kubectl apply: an object made anew has no finalizer yet, one that is     *)
(* changed keeps uid, finalizer, mark and, if names are stable, its lake.   *)
LEMMA ApplyIInv ==
    ASSUME IInv, TypeOK', NEW m \in Manifests, ApplyRepo(m)
    PROVE  IInv'
  <1>1. m.name \in Names /\ m.spec \in RepositorySpec
    BY InputsAssumption DEF Manifest
  <1>2. \A n \in Names : n # m.name => repos'[n] = repos[n]
    BY DEF ApplyRepo, IInv, TypeOK, ObjectsOK
  <1>3. CASE repos[m.name] = None
    <2>1. repos'[m.name] = NewRepository(m.spec)
      BY <1>1, <1>3 DEF ApplyRepo, IInv, TypeOK, ObjectsOK
    <2>2. ~repos'[m.name].finalizer /\ repos'[m.name].spec = m.spec
      BY <2>1 DEF NewRepository
    <2> QED
      BY <1>1, <1>2, <1>3, <2>2, ReposKept
         DEF ApplyRepo, operator, views, Leaving, Guards, From, IInv, Applied
  <1>4. CASE repos[m.name] # None
    <2> DEFINE old == repos[m.name]
               new == repos'[m.name]
    <2>1. old \in Repository /\ new = Changed(old, m.spec)
      BY <1>1, <1>4 DEF ApplyRepo, IInv, TypeOK, ObjectsOK
    <2>2. /\ new.uid = old.uid /\ new.finalizer = old.finalizer
          /\ new.deleting = old.deleting /\ new.spec = m.spec /\ new # None
      BY <2>1, <1>1, ChangedFields DEF IInv, TypeOK
    <2>3. StableNames => new.spec.lake = old.spec.lake
      BY <1>1, <1>4, <2>2 DEF IInv, Applied, From, StableNames
    <2> HIDE DEF new, old
    <2>4. \A n \in Names : Leaving(repos[n]) => Leaving(repos'[n])
      BY <1>2, <1>4, <2>2 DEF Leaving, new, old
    <2>5. \A n \in Names : repos'[n] # None => From(n, repos'[n])
      BY <1>2, <2>2 DEF IInv, Applied, From, new
    <2>6. \A n \in Names : \A u \in Nat : Guards(n, u) =>
             /\ repos'[n] # None /\ repos'[n].uid = u /\ repos'[n].finalizer
             /\ StableNames => repos'[n].spec.lake = repos[n].spec.lake
      BY <1>2, <2>2, <2>3 DEF Guards, new, old
    <2> QED
      BY <2>4, <2>5, <2>6, ReposKept DEF ApplyRepo, operator, views
  <1> QED
    BY <1>3, <1>4

(* kubectl delete marks an object that has a finalizer, and removes one     *)
(* that guards nothing.                                                     *)
LEMMA RemoveIInv ==
    ASSUME IInv, TypeOK', NEW n \in Names, RemoveRepo(n)
    PROVE  IInv'
  <1> DEFINE old == repos[n]
             new == repos'[n]
  <1>1. old \in Repository /\ old.spec \in RepositorySpec /\ WorldOK
    BY RepositoryFields DEF RemoveRepo, IInv, TypeOK, ObjectsOK
  <1>2. \A k \in Names : k # n => repos'[k] = repos[k]
    BY DEF RemoveRepo, IInv, TypeOK, ObjectsOK
  <1>3. CASE old.finalizer
    <2>1. new = [Changed(old, old.spec) EXCEPT !.deleting = TRUE]
      BY <1>3 DEF RemoveRepo, IInv, TypeOK, ObjectsOK
    <2> HIDE DEF new, old
    <2>2. /\ new.uid = old.uid /\ new.finalizer = old.finalizer /\ new.spec = old.spec
          /\ new.deleting /\ new # None
      BY <1>1, <1>3, <2>1, ChangedFields
    <2>3. \A k \in Names : Leaving(repos[k]) => Leaving(repos'[k])
      BY <1>2, <2>2 DEF Leaving, new, old
    <2>4. \A k \in Names : repos'[k] # None => From(k, repos'[k])
      BY <1>2, <2>2, RepositoryFields DEF IInv, Applied, From, new, old, RemoveRepo
    <2>5. \A k \in Names : \A u \in Nat : Guards(k, u) =>
             /\ repos'[k] # None /\ repos'[k].uid = u /\ repos'[k].finalizer
             /\ StableNames => repos'[k].spec.lake = repos[k].spec.lake
      BY <1>2, <2>2 DEF Guards, new, old
    <2> QED
      BY <2>3, <2>4, <2>5, ReposKept DEF RemoveRepo, operator, views
  <1>4. CASE ~old.finalizer
    <2>1. new = None
      BY <1>4 DEF RemoveRepo, IInv, TypeOK, ObjectsOK
    <2> QED
      BY <1>2, <1>4, <2>1, ReposKept
         DEF RemoveRepo, operator, views, Leaving, Guards, From, IInv, Applied
  <1> QED
    BY <1>3, <1>4

(* The status update changes nothing an invariant speaks of.                *)
LEMMA UpdateStatusIInv ==
    ASSUME IInv, TypeOK', UpdateStatus
    PROVE  IInv'
  <1> DEFINE n == reconcile.name
             old == repos[n]
             new == repos'[n]
  <1>1. n \in Names /\ old \in Repository
    BY Uids DEF UpdateStatus, At, SameVersion, IInv
  <1>2. \A k \in Names : k # n => repos'[k] = repos[k]
    BY DEF UpdateStatus, IInv, TypeOK, ObjectsOK
  <1>3. new = [old EXCEPT !.ready = reconcile.reason, !.current = TRUE]
    BY <1>1 DEF UpdateStatus, IInv, TypeOK, ObjectsOK
  <1>4. new \in Repository \cup {None}
    BY <1>1 DEF TypeOK, ObjectsOK
  <1>5. /\ new.uid = old.uid /\ new.finalizer = old.finalizer
        /\ new.spec = old.spec /\ new.deleting = old.deleting
    BY <1>1, <1>3 DEF Repository
  <1>6. old # None /\ new # None
    <2>1. DOMAIN new = DOMAIN old
      BY <1>3
    <2>2. reconcile.reason \in Reasons
      BY DEF UpdateStatus, At, IInv, TypeOK, OperatorOK, Reconcile
    <2>3. new \in Repository
      BY <1>1, <1>3, <2>2 DEF Repository
    <2> QED
      BY <1>1, <2>3, NoneAssumption
  <1> HIDE DEF new
  <1>7. \A k \in Names : Leaving(repos[k]) => Leaving(repos'[k])
    BY <1>2, <1>5, <1>6 DEF Leaving, new
  <1>8. \A k \in Names : repos'[k] # None => From(k, repos'[k])
    BY <1>1, <1>2, <1>5, <1>6 DEF IInv, Applied, From, new
  <1>9. \A k \in Names : \A u \in Nat : Guards(k, u) =>
           /\ repos'[k] # None /\ repos'[k].uid = u /\ repos'[k].finalizer
           /\ StableNames => repos'[k].spec.lake = repos[k].spec.lake
    BY <1>2, <1>5, <1>6 DEF Guards, new
  <1> QED
    BY <1>7, <1>8, <1>9, ReposKept DEF UpdateStatus, views

(* The finalizer makes an object guard: the reconcile goes on with it.      *)
LEMMA AddFinalizerIInv ==
    ASSUME IInv, TypeOK', NEW n \in Names, AddFinalizer(n)
    PROVE  IInv'
  <1> DEFINE old == repos[n]
             new == repos'[n]
  <1>1. old \in Repository /\ old = seenRepos[n] /\ ~old.deleting /\ ~old.finalizer
    BY DEF AddFinalizer, SameVersion, Living, IInv, TypeOK, ObjectsOK
  <1>2. \A k \in Names : k # n => repos'[k] = repos[k]
    BY DEF AddFinalizer, IInv, TypeOK, ObjectsOK
  <1>3. new = [old EXCEPT !.finalizer = TRUE]
    BY DEF AddFinalizer, IInv, TypeOK, ObjectsOK
  <1>4. new \in Repository
    BY <1>1, <1>3 DEF Repository
  <1>5. /\ new.uid = old.uid /\ new.finalizer /\ new.spec = old.spec /\ ~new.deleting
        /\ old # None /\ new # None
    BY <1>1, <1>3, <1>4, NoneAssumption DEF Repository
  <1>6. /\ seenRepos' = seenRepos /\ lake' = lake
        /\ reconcile' = Begun(n, new, "look") /\ reconcile' # None
    BY <1>4, BegunType, NoneAssumption DEF AddFinalizer, views
  <1>7. /\ reconcile'.name = n /\ reconcile'.repo = new /\ reconcile'.pc = "look"
    BY <1>6 DEF Begun
  <1> HIDE DEF new, old
  <1> USE DEF IInv
  <1>8. Applied'
    BY <1>2, <1>5, <1>6, <1>7 DEF Applied, From, new, old
  <1>9. SeenGuards'
    BY <1>1, <1>2, <1>6 DEF SeenGuards, Guards, old
  <1>10. MarksLast'
    BY <1>1, <1>2, <1>6, <1>7 DEF MarksLast, Leaving, At, old
  <1>11. ReconcileGuards' /\ DeletedInLake'
    BY <1>5, <1>6, <1>7 DEF ReconcileGuards, DeletedInLake, Guards, At, new
  <1>12. MadeIsGuarded'
    BY <1>1, <1>2, <1>5, <1>6 DEF MadeIsGuarded, StableNames, Guards, old
  <1> QED
    BY <1>8, <1>9, <1>10, <1>11, <1>12

(* A cached object with the finalizer is one that guards.                   *)
LEMMA HasFinalizerIInv ==
    ASSUME IInv, TypeOK', NEW n \in Names, HasFinalizer(n)
    PROVE  IInv'
  <1> DEFINE seen == seenRepos[n]
  <1>1. /\ seen # None /\ ~seen.deleting /\ seen.finalizer
        /\ UNCHANGED <<repos, seenRepos, lake>>
        /\ reconcile' = Begun(n, seen, "look")
    BY DEF HasFinalizer, Living, api, views
  <1>2. /\ reconcile'.name = n /\ reconcile'.repo = seen /\ reconcile'.pc = "look"
    BY <1>1 DEF Begun
  <1> HIDE DEF seen
  <1> USE DEF IInv
  <1>3. Applied'
    BY <1>1, <1>2 DEF Applied, From, seen
  <1>4. SeenGuards' /\ MarksLast' /\ DeletedInLake' /\ MadeIsGuarded'
    BY <1>1, <1>2
       DEF SeenGuards, MarksLast, DeletedInLake, MadeIsGuarded, StableNames, Guards, Leaving, At
  <1>5. ReconcileGuards'
    BY <1>1, <1>2 DEF ReconcileGuards, SeenGuards, Guards, seen
  <1> QED
    BY <1>3, <1>4, <1>5

(* Once a cached object is marked, the stored one is on its way out, or is  *)
(* another that guards nothing.                                             *)
LEMMA DeleteInLakeIInv ==
    ASSUME IInv, TypeOK', NEW n \in Names, DeleteInLake(n)
    PROVE  IInv'
  <1> DEFINE seen == seenRepos[n]
  <1>1. /\ seen # None /\ seen.deleting /\ seen.finalizer
        /\ UNCHANGED <<repos, seenRepos>>
        /\ lake' = [lake EXCEPT ![seen.spec.lake] = None]
        /\ reconcile' = Begun(n, seen, "unfinalize")
    BY DEF DeleteInLake, api, views
  <1>2. /\ reconcile'.name = n /\ reconcile'.repo = seen /\ reconcile'.pc = "unfinalize"
    BY <1>1 DEF Begun
  <1>3. seen.spec.lake \in LakeNames
    BY <1>1, Uids, RepositoryFields DEF IInv
  <1>4. /\ lake'[seen.spec.lake] = None
        /\ \A l \in LakeNames : lake'[l] # None => lake'[l] = lake[l]
    BY <1>1, <1>3 DEF IInv, TypeOK, ObjectsOK
  <1> HIDE DEF seen
  <1> USE DEF IInv
  <1>5. Applied'
    BY <1>1, <1>2 DEF Applied, From, seen
  <1>6. SeenGuards' /\ ReconcileGuards'
    BY <1>1, <1>2 DEF SeenGuards, ReconcileGuards, Guards
  <1>7. MarksLast'
    BY <1>1, <1>2 DEF MarksLast, Leaving, At, seen
  <1>8. DeletedInLake'
    BY <1>2, <1>4 DEF DeletedInLake, Emptied, At
  <1>9. MadeIsGuarded'
    BY <1>1, <1>4 DEF MadeIsGuarded, StableNames, Guards
  <1> QED
    BY <1>5, <1>6, <1>7, <1>8, <1>9

(* An object that goes has nothing left to guard.                           *)
LEMMA RemoveFinalizerIInv ==
    ASSUME IInv, TypeOK', RemoveFinalizer
    PROVE  IInv'
  <1> DEFINE n == reconcile.name
  <1>1. /\ n \in Names /\ repos[n] # None /\ repos[n] = reconcile.repo
        /\ At("unfinalize") /\ reconcile' = None
        /\ seenRepos' = seenRepos /\ lake' = lake
    BY Uids DEF RemoveFinalizer, SameVersion, At, views, IInv
  <1>2. repos'[n] = None /\ \A k \in Names : k # n => repos'[k] = repos[k]
    BY <1>1 DEF RemoveFinalizer, IInv, TypeOK, ObjectsOK
  <1>3. Emptied(repos[n].spec.lake) /\ Leaving(seenRepos[n])
    BY <1>1 DEF IInv, DeletedInLake, MarksLast
  <1> HIDE DEF n
  <1> USE DEF IInv
  <1>4. Applied' /\ ReconcileGuards' /\ DeletedInLake'
    BY <1>1, <1>2 DEF Applied, From, ReconcileGuards, DeletedInLake, At
  <1>5. SeenGuards'
    BY <1>1, <1>2, <1>3 DEF SeenGuards, Guards, Leaving
  <1>6. MarksLast'
    BY <1>1, <1>2 DEF MarksLast, Leaving, At
  <1>7. MadeIsGuarded'
    BY <1>1, <1>2, <1>3 DEF MadeIsGuarded, StableNames, Guards, Emptied
  <1> QED
    BY <1>4, <1>5, <1>6, <1>7

(* Between its start and its status a reconcile keeps its name and its copy.*)
LEMMA ProceedCarries ==
    ASSUME IInv, TypeOK', Proceed \/ CallFails
    PROVE  /\ reconcile # None /\ reconcile.pc # "unfinalize"
           /\ reconcile' # None /\ reconcile'.pc # "unfinalize"
           /\ reconcile'.name = reconcile.name /\ reconcile'.repo = reconcile.repo
           /\ repos' = repos /\ seenRepos' = seenRepos
           /\ CreateInLake \/ SetGCRules \/ lake' = lake
  <1> USE DEF At, api, views
  <1>1. /\ reconcile # None /\ reconcile.pc # "unfinalize"
        /\ reconcile \in Reconcile
    BY DEF Proceed, EnsureGC, LookUp, NoCredentials, CreateInLake, DeleteCronJob,
           GetPolicy, NoPolicy, CreateDefaultPolicy, SetGCRules, EnsureCronJob, KeepCronJob,
           CallFails, IInv, TypeOK, OperatorOK
  <1>2. /\ repos' = repos /\ seenRepos' = seenRepos
        /\ CreateInLake \/ SetGCRules \/ lake' = lake
    BY DEF Proceed, EnsureGC, LookUp, NoCredentials, CreateInLake, DeleteCronJob,
           GetPolicy, NoPolicy, CreateDefaultPolicy, SetGCRules, EnsureCronJob, KeepCronJob,
           CallFails
  <1> DEFINE Carried == /\ reconcile' \in Reconcile
                        /\ reconcile'.pc # "unfinalize"
                        /\ reconcile'.name = reconcile.name
                        /\ reconcile'.repo = reconcile.repo
  <1>3. ASSUME NEW pc \in {"create", "gc", "job"}, GoTo(pc) PROVE Carried
    BY <1>1, <1>3 DEF GoTo, Reconcile
  <1>4. ASSUME NEW reason \in Reasons, Conclude(reason) PROVE Carried
    BY <1>1, <1>4 DEF Conclude, Reconcile
  <1>5. ASSUME GetPolicy \/ CreateDefaultPolicy PROVE Carried
    <2>1. CASE GetPolicy
      <3>1. seenPolicies[Wanted.policy] \in Contents
        BY <1>1, <2>1, ReconcileFields DEF GetPolicy, IInv, TypeOK, ViewsOK
      <3> QED
        BY <1>1, <2>1, <3>1 DEF GetPolicy, Reconcile
    <2>2. CASE CreateDefaultPolicy
      BY <1>1, <2>2, DefaultsAssumption DEF CreateDefaultPolicy, Reconcile
    <2> QED
      BY <1>5, <2>1, <2>2
  <1>6. ASSUME LookUp \/ CreateInLake \/ SetGCRules PROVE Carried
    BY <1>3, <1>6 DEF LookUp, CreateInLake, SetGCRules
  <1>7. ASSUME \/ NoCredentials \/ DeleteCronJob \/ NoPolicy \/ EnsureCronJob \/ KeepCronJob
               \/ CallFails
        PROVE  Carried
    <2>1. PICK reason \in Reasons : Conclude(reason)
      BY <1>7 DEF NoCredentials, DeleteCronJob, NoPolicy, EnsureCronJob, KeepCronJob,
                  CallFails, Reasons
    <2> QED
      BY <1>4, <2>1
  <1>8. Carried
    BY <1>5, <1>6, <1>7 DEF Proceed, EnsureGC
  <1> QED
    BY <1>1, <1>2, <1>8, NoneAssumption

(* What is created in lakeFS is guarded by the object it is created for.    *)
LEMMA ProceedIInv ==
    ASSUME IInv, TypeOK', Proceed \/ CallFails
    PROVE  IInv'
  <1> USE ProceedCarries DEF IInv
  <1>1. Applied' /\ SeenGuards' /\ ReconcileGuards'
    BY DEF Applied, From, SeenGuards, ReconcileGuards, Guards
  <1>2. MarksLast' /\ DeletedInLake'
    BY DEF MarksLast, DeletedInLake, Leaving, At
  <1>3. MadeIsGuarded'
    <2>1. CASE lake' = lake
      BY <2>1 DEF MadeIsGuarded, StableNames, Guards
    <2>2. CASE CreateInLake
      <3> DEFINE w == Wanted.lake
                 n == reconcile.name
      <3>1. /\ w \in LakeNames /\ n \in Names
            /\ Guards(n, reconcile.repo.uid)
            /\ StableNames => repos[n].spec.lake = w
        <4>1. w \in LakeNames /\ n \in Names /\ Guards(n, reconcile.repo.uid)
          BY ReconcileFields DEF TypeOK, ReconcileGuards
        <4> QED
          BY <4>1 DEF Applied, From, StableNames, Wanted, Guards
      <3>2. \A l \in LakeNames :
               \/ lake'[l] = lake[l]
               \/ l = w /\ lake'[l].by = reconcile.repo.uid
        BY <2>2, <3>1 DEF CreateInLake, TypeOK, ObjectsOK
      <3> HIDE DEF n, w
      <3> QED
        BY <3>1, <3>2 DEF MadeIsGuarded, StableNames, Guards
    <2>3. CASE SetGCRules
      <3>1. Wanted.lake \in LakeNames
        BY ReconcileFields DEF TypeOK
      <3>2. \A l \in LakeNames :
               lake'[l] # None => lake[l] # None /\ lake'[l].by = lake[l].by
        BY <2>3, <3>1 DEF SetGCRules, TypeOK, ObjectsOK, LakeRepository
      <3> QED
        BY <3>2 DEF MadeIsGuarded, StableNames, Guards
    <2> QED
      BY <2>1, <2>2, <2>3
  <1> QED
    BY <1>1, <1>2, <1>3

(* A reconcile that is given up leaves what it made guarded.                *)
LEMMA GiveUpIInv ==
    ASSUME IInv, TypeOK', UpdateFails
    PROVE  IInv'
  BY DEF UpdateFails, api, views, IInv, Applied, From, SeenGuards, MarksLast, ReconcileGuards,
         DeletedInLake, MadeIsGuarded, StableNames, Guards, Leaving, At

(* What the cache learns is what is stored.                                 *)
LEMMA LearnIInv ==
    ASSUME IInv, TypeOK', (\E n \in Names : SyncRepo(n)) \/ OperatorRestart
    PROVE  IInv'
  <1>1. /\ repos' = repos /\ lake' = lake /\ reconcile' \in {reconcile, None}
        /\ \A n \in Names : seenRepos'[n] \in {seenRepos[n], repos[n]}
    BY DEF SyncRepo, OperatorRestart, api, IInv, TypeOK, ViewsOK
  <1> USE DEF IInv
  <1>2. Applied'
    BY <1>1 DEF Applied, From
  <1>3. SeenGuards'
    BY <1>1 DEF SeenGuards, Guards
  <1>4. MarksLast'
    BY <1>1, Uids DEF MarksLast, Leaving, At
  <1>5. ReconcileGuards' /\ DeletedInLake' /\ MadeIsGuarded'
    BY <1>1 DEF ReconcileGuards, DeletedInLake, MadeIsGuarded, StableNames, Guards, Emptied, At
  <1> QED
    BY <1>2, <1>3, <1>4, <1>5

(* What hands make in lakeFS is nobody's.                                   *)
LEMMA HandsIInv ==
    ASSUME IInv, TypeOK', NEW l \in LakeNames, MakeLake(l) \/ LoseLake(l)
    PROVE  IInv'
  <1>1. /\ UNCHANGED <<repos, seenRepos, reconcile>>
        /\ \A k \in LakeNames :
              lake'[k] = lake[k] \/ lake'[k] = None \/ lake'[k].by = 0
    BY DEF MakeLake, LoseLake, api, views, operator, IInv, TypeOK, ObjectsOK
  <1> USE DEF IInv
  <1>2. Applied' /\ SeenGuards' /\ MarksLast' /\ ReconcileGuards'
    BY <1>1 DEF Applied, From, SeenGuards, MarksLast, ReconcileGuards, Guards, Leaving, At
  <1>3. DeletedInLake'
    <2>1. reconcile # None => reconcile.repo.spec.lake \in LakeNames
      BY ReconcileFields DEF TypeOK, Wanted
    <2> QED
      BY <1>1, <2>1 DEF DeletedInLake, Emptied, At
  <1>4. MadeIsGuarded'
    BY <1>1 DEF MadeIsGuarded, StableNames, Guards
  <1> QED
    BY <1>2, <1>3, <1>4

(* Nothing is cached, in progress or made at the start.                     *)
LEMMA InitIInv == Init => IInv
  BY InitType DEF Init, IInv, Applied, SeenGuards, MarksLast, ReconcileGuards, DeletedInLake,
                  MadeIsGuarded, At

(* Every step of operator, caches and environment keeps the invariant.      *)
LEMMA NextIInv ==
    ASSUME IInv, [Next]_vars
    PROVE  IInv'
  <1>0. TypeOK'
    BY NextType DEF IInv
  <1>1. CASE UNCHANGED vars
    BY <1>0, <1>1, UntouchedIInv DEF vars, Objects
  <1>2. CASE OperatorStep
    <2>1. ASSUME NEW n \in Names, Begin(n) \/ Resync(n) PROVE IInv'
      <3>1. CASE ReconcileGone(n) \/ Resync(n)
        BY <1>0, <3>1, UntouchedIInv DEF ReconcileGone, Resync, api, views, Objects
      <3> QED
        BY <1>0, <2>1, <3>1, AddFinalizerIInv, HasFinalizerIInv, DeleteInLakeIInv DEF Begin
    <2>2. CASE Finish
      BY <1>0, <2>2, UpdateStatusIInv, RemoveFinalizerIInv DEF Finish
    <2>3. CASE Proceed \/ Fail \/ OperatorRestart
      BY <1>0, <2>3, ProceedIInv, GiveUpIInv, LearnIInv DEF Fail
    <2> QED
      BY <1>2, <2>1, <2>2, <2>3 DEF OperatorStep
  <1>3. CASE WatchStep
    <2>1. CASE \E n \in Names : SyncRepo(n)
      BY <1>0, <2>1, LearnIInv
    <2>2. CASE SyncSecret \/ (\E n \in Names : SyncJob(n)) \/ (\E p \in PolicyNames : SyncPolicy(p))
      BY <1>0, <2>2, UntouchedIInv DEF SyncSecret, SyncJob, SyncPolicy, api, operator, Objects
    <2> QED
      BY <1>3, <2>1, <2>2 DEF WatchStep
  <1>4. CASE EnvironmentStep
    <2>1. CASE \/ \E m \in Policies : ApplyPolicy(m)
               \/ \E n \in Names : RemoveJob(n) \/ CollectJob(n)
               \/ \E p \in PolicyNames : RemovePolicy(p)
               \/ ToggleSecret
      BY <1>0, <2>1, UntouchedIInv
         DEF ApplyPolicy, RemoveJob, CollectJob, RemovePolicy, ToggleSecret, views, operator, Objects
    <2> QED
      BY <1>0, <1>4, <2>1, ApplyIInv, RemoveIInv, HandsIInv DEF EnvironmentStep
  <1> QED
    BY <1>1, <1>2, <1>3, <1>4 DEF Next

(* The inductive invariant: what is cached, in progress or made in lakeFS   *)
(* has a stored object with the finalizer behind it.                        *)
THEOREM IInvHolds == Spec => []IInv
  BY InitIInv, NextIInv, PTL DEF Spec

(* What the operator makes in lakeFS has an object with the finalizer that  *)
(* will remove it, as long as objects keep the repository they name.        *)
THEOREM MadeIsGuardedHolds == Spec => []MadeIsGuarded
  <1>1. IInv => MadeIsGuarded
    BY DEF IInv
  <1> QED
    BY <1>1, IInvHolds, PTL

(* Only RemoveFinalizer takes an object that has the finalizer away.        *)
LEMMA GoesLastStep ==
    ASSUME IInv, [Next]_vars
    PROVE  GoesLast
  <1> SUFFICES ASSUME NEW n \in Names, repos[n] # None, repos[n].finalizer, repos'[n] = None
               PROVE  Emptied(repos[n].spec.lake)
    BY DEF GoesLast
  <1>0. repos[n] \in Repository /\ WorldOK /\ repos'[n] # repos[n]
    BY Uids DEF IInv, TypeOK
  <1>1. RemoveFinalizer
    <2> USE DEF IInv, TypeOK, api, views
    <2>1. ASSUME NEW m \in Manifests, ApplyRepo(m) PROVE FALSE
      <3>1. m.name = n
        BY <1>0, <2>1 DEF ApplyRepo, ObjectsOK
      <3>2. repos'[n] = Changed(repos[n], m.spec) /\ m.spec \in RepositorySpec
        BY <2>1, <3>1, InputsAssumption DEF ApplyRepo, ObjectsOK, Manifest
      <3> QED
        BY <1>0, <3>2, ChangedFields
    <2>2. ASSUME NEW k \in Names, RemoveRepo(k) PROVE FALSE
      <3>1. k = n
        BY <1>0, <2>2 DEF RemoveRepo, ObjectsOK
      <3>2. repos'[n] = [Changed(repos[n], repos[n].spec) EXCEPT !.deleting = TRUE]
        BY <2>2, <3>1 DEF RemoveRepo, ObjectsOK
      <3>3. repos[n].spec \in RepositorySpec
        BY <1>0, RepositoryFields
      <3> QED
        BY <1>0, <3>2, <3>3, ChangedFields
    <2>3. ASSUME NEW k \in Names, AddFinalizer(k) PROVE FALSE
      <3>1. k = n
        BY <1>0, <2>3 DEF AddFinalizer, ObjectsOK
      <3> QED
        BY <2>3, <3>1 DEF AddFinalizer, SameVersion
    <2>4. ASSUME UpdateStatus PROVE FALSE
      <3>1. reconcile.name = n
        BY <1>0, <2>4 DEF UpdateStatus, ObjectsOK
      <3>2. reconcile.reason \in Reasons
        BY <2>4 DEF UpdateStatus, At, OperatorOK, Reconcile
      <3>3. repos'[n] = [repos[n] EXCEPT !.ready = reconcile.reason, !.current = TRUE]
        BY <2>4, <3>1 DEF UpdateStatus, ObjectsOK
      <3>4. repos'[n] \in Repository
        BY <1>0, <3>2, <3>3 DEF Repository
      <3> QED
        BY <3>4, NoneAssumption
    <2>5. ASSUME repos' = repos PROVE FALSE
      BY <1>0, <2>5
    <2>6. Proceed \/ CallFails => repos' = repos
      BY ProceedCarries, NextType
    <2>7. CASE OperatorStep
      BY <2>3, <2>4, <2>5, <2>6, <2>7
         DEF OperatorStep, Begin, ReconcileGone, HasFinalizer, DeleteInLake, Resync, Finish,
             Fail, UpdateFails, OperatorRestart
    <2>8. CASE WatchStep
      BY <2>5, <2>8 DEF WatchStep, SyncRepo, SyncJob, SyncPolicy, SyncSecret
    <2>9. CASE EnvironmentStep
      BY <2>1, <2>2, <2>5, <2>9
         DEF EnvironmentStep, ApplyPolicy, RemoveJob, CollectJob, RemovePolicy, MakeLake,
             LoseLake, ToggleSecret
    <2> QED
      BY <2>5, <2>7, <2>8, <2>9 DEF Next, vars
  <1>2. reconcile.name = n
    BY <1>1, Uids DEF RemoveFinalizer, At, IInv, TypeOK, ObjectsOK
  <1> QED
    BY <1>1, <1>2 DEF RemoveFinalizer, SameVersion, IInv, DeletedInLake

(* An object that has the finalizer goes only after the repository it names *)
(* in lakeFS went, also if its spec changed while it was being deleted.     *)
THEOREM DeletionIsCompleteHolds == Spec => DeletionIsComplete
  <1>1. IInv /\ [Next]_vars => [GoesLast]_vars
    BY GoesLastStep
  <1> QED
    BY <1>1, IInvHolds, PTL DEF Spec, DeletionIsComplete
================================================================================
