---------------------------- MODULE ReadinessProofs ----------------------------
(***************************************************************************)
(* Machine-checked proofs that the Ready condition of a LakeFSRepository    *)
(* tells the truth and that no event is forgotten, for any number of        *)
(* objects, policies and commands.                                          *)
(***************************************************************************)
EXTENDS RepositoriesProofs

(* The parts of ReadyInv: which generation is seen, copied and reported,    *)
(* and what is provided for it.                                             *)
Tracking == GensPast /\ CurrentSeen /\ CopySeen /\ WorkLeft
Telling == StatusTells /\ ReconcileProvides

-----------------------------------------------------------------------------
(* Generations.                                                             *)

(* The generations the invariants compare are numbers.                      *)
LEMMA Gens ==
    ASSUME TypeOK
    PROVE  /\ inputs \in Nat
           /\ \A n \in Names : repos[n] # None =>
                 repos[n] \in Repository /\ repos[n].gen \in Nat
           /\ \A n \in Names : seenRepos[n] # None =>
                 seenRepos[n] \in Repository /\ seenRepos[n].gen \in Nat
           /\ reconcile # None =>
                 /\ reconcile.name \in Names
                 /\ reconcile.repo \in Repository /\ reconcile.repo.gen \in Nat
                 /\ reconcile.repo # None
  <1>1. \A r \in Repository : r.gen \in Nat /\ r # None
    BY NoneAssumption DEF Repository
  <1> QED
    BY <1>1, ReconcileFields DEF TypeOK, ObjectsOK, ViewsOK, WorldOK

(* A step that leaves objects and their views alone, drops no work and      *)
(* keeps the reconcile on its copy, keeps track.                            *)
LEMMA TrackingKept ==
    ASSUME TypeOK, TypeOK', Tracking, UNCHANGED <<repos, seenRepos>>,
           queue \subseteq queue', inputs <= inputs',
           reconcile = None <=> reconcile' = None,
           reconcile # None =>
              reconcile'.name = reconcile.name /\ reconcile'.repo = reconcile.repo
    PROVE  Tracking'
  <1> USE DEF Tracking
  <1>1. GensPast'
    BY Gens DEF GensPast, TypeOK, WorldOK
  <1>2. CurrentSeen'
    BY DEF CurrentSeen, Same, Serving
  <1>3. CopySeen'
    BY DEF CopySeen, Same
  <1>4. WorkLeft'
    BY DEF WorkLeft, Reports, Busy, Serving
  <1> QED
    BY <1>1, <1>2, <1>3, <1>4

(* A command on an object makes a generation nobody has seen.               *)
LEMMA TrackingNewGeneration ==
    ASSUME TypeOK, TypeOK', Tracking, NEW n \in Names,
           UNCHANGED <<seenRepos, queue, reconcile>>, inputs' = inputs + 1,
           \A k \in Names : k # n => repos'[k] = repos[k],
           repos'[n] # None => repos'[n].gen = inputs + 1 /\ ~repos'[n].current
    PROVE  Tracking'
  <1> USE Gens DEF Tracking
  <1>1. GensPast'
    BY DEF GensPast
  <1>2. CurrentSeen'
    BY DEF CurrentSeen, Same, Serving
  <1>3. CopySeen'
    <2> SUFFICES ASSUME reconcile # None
                 PROVE  LET k == reconcile.name IN
                        /\ Same(repos'[k], reconcile.repo) => Same(seenRepos[k], repos'[k])
                        /\ k \in queue \/ Same(seenRepos[k], reconcile.repo)
      BY DEF CopySeen, Same
    <2>1. CASE reconcile.name = n
      BY <2>1 DEF CopySeen, GensPast, Same
    <2>2. CASE reconcile.name # n
      BY <2>2 DEF CopySeen, Same
    <2> QED
      BY <2>1, <2>2
  <1>4. WorkLeft'
    <2> SUFFICES ASSUME NEW k \in Names, repos'[k] # None
                 PROVE  Reports(k, "Resolved")' \/ Busy(k)' \/ seenRepos[k] # repos'[k]
      BY DEF WorkLeft
    <2>1. CASE k = n
      BY <2>1 DEF GensPast
    <2>2. CASE k # n
      BY <2>2 DEF WorkLeft, Reports, Busy, Serving
    <2> QED
      BY <2>1, <2>2
  <1> QED
    BY <1>1, <1>2, <1>3, <1>4

(* The start of a reconcile on a cached copy.                               *)
LEMMA TrackingStart ==
    ASSUME TypeOK, TypeOK', Tracking, NEW n \in Names, n \in queue, reconcile = None,
           queue' = queue \ {n}, UNCHANGED <<repos, seenRepos, inputs>>,
           \/ seenRepos[n] = None /\ reconcile' = None
           \/ /\ seenRepos[n] # None /\ reconcile' # None
              /\ reconcile'.name = n /\ reconcile'.repo = seenRepos[n]
    PROVE  Tracking'
  <1> USE Gens DEF Tracking
  <1>1. GensPast'
    BY DEF GensPast
  <1>2. CurrentSeen'
    BY DEF CurrentSeen, Same, Serving
  <1>3. CopySeen'
    BY DEF CopySeen, Same
  <1>4. WorkLeft'
    BY DEF WorkLeft, Reports, Busy, Serving
  <1> QED
    BY <1>1, <1>2, <1>3, <1>4

(* The finalizer is added to what was seen.                                 *)
LEMMA TrackingAddFinalizer ==
    ASSUME IInv, TypeOK', Tracking, NEW n \in Names, AddFinalizer(n)
    PROVE  Tracking'
  <1> USE Gens DEF Tracking, IInv
  <1> DEFINE old == repos[n]
             new == repos'[n]
  <1>1. old \in Repository /\ old # None /\ old = seenRepos[n]
    BY DEF AddFinalizer, SameVersion, Living
  <1>2. \A k \in Names : k # n => repos'[k] = repos[k]
    BY DEF AddFinalizer, TypeOK, ObjectsOK
  <1>3. new = [old EXCEPT !.finalizer = TRUE]
    BY DEF AddFinalizer, TypeOK, ObjectsOK
  <1>4. /\ new \in Repository /\ new # None
        /\ new.uid = old.uid /\ new.gen = old.gen /\ new.spec = old.spec
        /\ new.deleting = old.deleting /\ new.current = old.current
    <2>1. new \in Repository
      BY <1>1, <1>3 DEF Repository
    <2> QED
      BY <1>1, <1>3, <2>1, NoneAssumption DEF Repository
  <1>5. /\ seenRepos' = seenRepos /\ queue' = queue \ {n} /\ reconcile = None /\ inputs' = inputs
        /\ reconcile' = Begun(n, new, "look") /\ reconcile' # None
    BY <1>4, BegunType, NoneAssumption DEF AddFinalizer, Start, views, world
  <1>6. reconcile'.name = n /\ reconcile'.repo = new
    BY <1>5 DEF Begun
  <1> HIDE DEF new, old
  <1>7. GensPast'
    BY <1>1, <1>2, <1>4, <1>5, <1>6 DEF GensPast, old, new
  <1>8. CurrentSeen'
    BY <1>1, <1>2, <1>4, <1>5, <1>6 DEF CurrentSeen, Same, Serving, old, new
  <1>9. CopySeen'
    BY <1>1, <1>4, <1>5, <1>6 DEF CopySeen, Same, old, new
  <1>10. WorkLeft'
    BY <1>2, <1>5, <1>6 DEF WorkLeft, Reports, Busy, Serving
  <1> QED
    BY <1>7, <1>8, <1>9, <1>10

(* A status is current for the generation that was copied, and seen.        *)
LEMMA TrackingUpdateStatus ==
    ASSUME IInv, TypeOK', Tracking, UpdateStatus
    PROVE  Tracking'
  <1> USE Gens DEF Tracking, IInv
  <1> DEFINE n == reconcile.name
             old == repos[n]
             new == repos'[n]
  <1>1. /\ reconcile # None /\ n \in Names /\ reconcile.pc = "status"
        /\ old \in Repository /\ old # None /\ old = reconcile.repo
    BY DEF UpdateStatus, At, SameVersion
  <1>2. \A k \in Names : k # n => repos'[k] = repos[k]
    BY DEF UpdateStatus, TypeOK, ObjectsOK
  <1>3. new = [old EXCEPT !.ready = reconcile.reason, !.current = TRUE]
    BY <1>1 DEF UpdateStatus, TypeOK, ObjectsOK
  <1>4. /\ new \in Repository /\ new # None
        /\ new.uid = old.uid /\ new.gen = old.gen /\ new.spec = old.spec
        /\ new.deleting = old.deleting /\ new.ready = reconcile.reason /\ new.current
    <2>1. reconcile.reason \in Reasons
      BY <1>1 DEF TypeOK, OperatorOK, Reconcile
    <2>2. new \in Repository
      BY <1>1, <1>3, <2>1 DEF Repository
    <2> QED
      BY <1>1, <1>3, <2>2, NoneAssumption DEF Repository
  <1>5. /\ seenRepos' = seenRepos /\ reconcile' = None /\ inputs' = inputs
        /\ queue \subseteq queue'
        /\ reconcile.reason # "Resolved" => n \in queue'
    BY DEF UpdateStatus, views, world
  <1>6. Same(seenRepos[n], old)
    BY <1>1 DEF CopySeen, Same
  <1> HIDE DEF new, old
  <1>7. GensPast'
    BY <1>1, <1>2, <1>4, <1>5 DEF GensPast, old, new
  <1>8. CurrentSeen'
    BY <1>1, <1>2, <1>4, <1>5, <1>6 DEF CurrentSeen, Same, Serving, new
  <1>9. CopySeen'
    BY <1>5 DEF CopySeen
  <1>10. WorkLeft'
    BY <1>1, <1>2, <1>4, <1>5 DEF WorkLeft, Reports, Busy, Serving, new
  <1> QED
    BY <1>7, <1>8, <1>9, <1>10

(* A reconcile that ends, with the object it was about or queued again.     *)
LEMMA TrackingEnd ==
    ASSUME IInv, TypeOK', Tracking, RemoveFinalizer \/ UpdateFails
    PROVE  Tracking'
  <1> USE Gens DEF Tracking, IInv
  <1>1. /\ reconcile # None /\ seenRepos' = seenRepos /\ reconcile' = None /\ inputs' = inputs
        /\ queue \subseteq queue'
        /\ \A k \in Names : \/ repos'[k] = repos[k] /\ (k # reconcile.name \/ k \in queue')
                            \/ repos'[k] = None
    BY DEF RemoveFinalizer, UpdateFails, At, api, views, world, TypeOK, ObjectsOK
  <1>2. GensPast' /\ CurrentSeen' /\ CopySeen'
    BY <1>1 DEF GensPast, CurrentSeen, CopySeen, Same, Serving
  <1>3. WorkLeft'
    BY <1>1 DEF WorkLeft, Reports, Busy, Serving
  <1> QED
    BY <1>2, <1>3

(* What the cache learns puts the object in the queue.                      *)
LEMMA TrackingLearn ==
    ASSUME IInv, TypeOK', Tracking, (\E n \in Names : SyncRepo(n)) \/ OperatorRestart
    PROVE  Tracking'
  <1> USE Gens DEF Tracking, IInv
  <1>1. CASE OperatorRestart
    BY <1>1 DEF OperatorRestart, api, world, GensPast, CurrentSeen, CopySeen, WorkLeft, Same,
                Serving, Busy
  <1>2. ASSUME NEW n \in Names, SyncRepo(n) PROVE Tracking'
    <2>1. /\ UNCHANGED <<repos, reconcile, inputs>> /\ queue' = queue \cup {n}
          /\ seenRepos'[n] = repos[n]
          /\ \A k \in Names : k # n => seenRepos'[k] = seenRepos[k]
      BY <1>2 DEF SyncRepo, api, world, TypeOK, ViewsOK
    <2>2. GensPast'
      BY <2>1 DEF GensPast
    <2>3. CurrentSeen'
      BY <2>1 DEF CurrentSeen, Same, Serving
    <2>4. CopySeen'
      BY <2>1 DEF CopySeen, Same
    <2>5. WorkLeft'
      BY <2>1 DEF WorkLeft, Reports, Busy, Serving
    <2> QED
      BY <2>2, <2>3, <2>4, <2>5
  <1> QED
    BY <1>1, <1>2

(* kubectl apply and delete.                                                *)
LEMMA TrackingCommand ==
    ASSUME IInv, TypeOK', Tracking,
           (\E m \in Manifests : ApplyRepo(m)) \/ (\E n \in Names : RemoveRepo(n))
    PROVE  Tracking'
  <1> USE Gens DEF IInv
  <1>0. \A r \in Repository, spec \in RepositorySpec :
           /\ Changed(r, spec).gen = inputs + 1 /\ ~Changed(r, spec).current
           /\ LET d == [Changed(r, spec) EXCEPT !.deleting = TRUE] IN
              d.gen = inputs + 1 /\ ~d.current
    <2> SUFFICES ASSUME NEW r \in Repository, NEW spec \in RepositorySpec
                 PROVE  /\ Changed(r, spec).gen = inputs + 1 /\ ~Changed(r, spec).current
                        /\ LET d == [Changed(r, spec) EXCEPT !.deleting = TRUE] IN
                           d.gen = inputs + 1 /\ ~d.current
      OBVIOUS
    <2>1. Changed(r, spec) \in Repository
      BY ChangedType DEF TypeOK
    <2>2. Changed(r, spec).gen = inputs + 1 /\ ~Changed(r, spec).current
      BY DEF Changed, Repository
    <2> QED
      BY <2>1, <2>2 DEF Repository
  <1>1. ASSUME NEW m \in Manifests, ApplyRepo(m) PROVE Tracking'
    <2>1. m.name \in Names /\ m.spec \in RepositorySpec
      BY InputsAssumption DEF Manifest
    <2>2. \A k \in Names : k # m.name => repos'[k] = repos[k]
      BY <1>1 DEF ApplyRepo, TypeOK, ObjectsOK
    <2>3. repos'[m.name] = IF repos[m.name] = None THEN NewRepository(m.spec)
                                                  ELSE Changed(repos[m.name], m.spec)
      BY <1>1, <2>1 DEF ApplyRepo, TypeOK, ObjectsOK
    <2>4. repos'[m.name].gen = inputs + 1 /\ ~repos'[m.name].current
      BY <1>0, <2>1, <2>3 DEF NewRepository
    <2> QED
      BY <1>1, <2>1, <2>2, <2>4, TrackingNewGeneration
         DEF ApplyRepo, Input, views, operator
  <1>2. ASSUME NEW n \in Names, RemoveRepo(n) PROVE Tracking'
    <2>1. \A k \in Names : k # n => repos'[k] = repos[k]
      BY <1>2 DEF RemoveRepo, TypeOK, ObjectsOK
    <2>2. repos[n] \in Repository /\ repos[n].spec \in RepositorySpec
      BY <1>2, RepositoryFields DEF RemoveRepo
    <2>3. repos'[n] = IF repos[n].finalizer
                      THEN [Changed(repos[n], repos[n].spec) EXCEPT !.deleting = TRUE]
                      ELSE None
      BY <1>2 DEF RemoveRepo, TypeOK, ObjectsOK
    <2>4. repos'[n] # None => repos'[n].gen = inputs + 1 /\ ~repos'[n].current
      BY <1>0, <2>2, <2>3
    <2> QED
      BY <1>2, <2>1, <2>4, TrackingNewGeneration DEF RemoveRepo, Input, views, operator
  <1> QED
    BY <1>1, <1>2

(* Every step keeps track.                                                  *)
LEMMA NextTracking ==
    ASSUME IInv, Tracking, [Next]_vars
    PROVE  Tracking'
  <1>0. TypeOK /\ TypeOK'
    BY NextType DEF IInv
  <1>a. inputs \in Nat
    BY <1>0, Gens
  <1>1. CASE UNCHANGED vars
    BY <1>0, <1>a, <1>1, TrackingKept DEF vars
  <1>2. CASE OperatorStep
    <2>1. ASSUME NEW n \in Names, Begin(n) PROVE Tracking'
      <3>1. CASE AddFinalizer(n)
        BY <1>0, <3>1, TrackingAddFinalizer
      <3>2. CASE ReconcileGone(n)
        BY <1>0, <3>2, TrackingStart DEF ReconcileGone, Start, api, views, world
      <3>3. CASE HasFinalizer(n) \/ DeleteInLake(n)
        <4>1. PICK pc \in {"look", "unfinalize"} : reconcile' = Begun(n, seenRepos[n], pc)
          BY <3>3 DEF HasFinalizer, DeleteInLake
        <4>2. seenRepos[n] # None /\ seenRepos[n] \in Repository
          BY <1>0, <3>3, Gens DEF HasFinalizer, DeleteInLake, Living
        <4>3. reconcile' # None /\ reconcile'.name = n /\ reconcile'.repo = seenRepos[n]
          BY <4>1, <4>2, BegunType, NoneAssumption DEF Begun
        <4> QED
          BY <1>0, <3>3, <4>2, <4>3, TrackingStart
             DEF HasFinalizer, DeleteInLake, Start, api, views, world
      <3> QED
        BY <2>1, <3>1, <3>2, <3>3 DEF Begin
    <2>2. CASE Finish \/ UpdateFails \/ OperatorRestart
      BY <1>0, <2>2, TrackingUpdateStatus, TrackingEnd, TrackingLearn DEF Finish
    <2>3. CASE Proceed \/ CallFails
      <3>1. queue' = queue /\ inputs' = inputs
        BY <2>3 DEF Proceed, EnsureGC, LookUp, NoCredentials, CreateInLake, DeleteCronJob,
             GetPolicy, NoPolicy, CreateDefaultPolicy, SetGCRules, EnsureCronJob, KeepCronJob,
             CallFails, world
      <3> QED
        BY <1>0, <1>a, <2>3, <3>1, ProceedCarries, TrackingKept
    <2>4. ASSUME NEW n \in Names, Resync(n) PROVE Tracking'
      BY <1>0, <1>a, <2>4, TrackingKept DEF Resync, api, views, world
    <2> QED
      BY <1>2, <2>1, <2>2, <2>3, <2>4 DEF OperatorStep, Fail
  <1>3. CASE WatchStep
    <2>1. CASE \E n \in Names : SyncRepo(n)
      BY <1>0, <2>1, TrackingLearn
    <2>2. CASE SyncSecret \/ (\E n \in Names : SyncJob(n)) \/ (\E p \in PolicyNames : SyncPolicy(p))
      <3>1. /\ UNCHANGED <<repos, seenRepos, reconcile, inputs>>
            /\ queue \subseteq queue'
        BY <2>2 DEF SyncSecret, SyncJob, SyncPolicy, api, operator, world
      <3> QED
        BY <1>0, <1>a, <3>1, TrackingKept
    <2> QED
      BY <1>3, <2>1, <2>2 DEF WatchStep
  <1>4. CASE EnvironmentStep
    <2>1. CASE (\E m \in Manifests : ApplyRepo(m)) \/ (\E n \in Names : RemoveRepo(n))
      BY <1>0, <2>1, TrackingCommand
    <2>2. CASE \/ \E m \in Policies : ApplyPolicy(m)
               \/ \E n \in Names : RemoveJob(n) \/ CollectJob(n)
               \/ \E p \in PolicyNames : RemovePolicy(p)
               \/ \E l \in LakeNames : MakeLake(l) \/ LoseLake(l)
               \/ ToggleSecret
      <3>1. UNCHANGED <<repos, seenRepos, reconcile, queue>> /\ inputs <= inputs'
        BY <1>a, <2>2 DEF ApplyPolicy, RemoveJob, CollectJob, RemovePolicy, MakeLake, LoseLake,
                    ToggleSecret, Input, api, views, operator, world
      <3> QED
        BY <1>0, <3>1, TrackingKept
    <2> QED
      BY <1>4, <2>1, <2>2 DEF EnvironmentStep
  <1> QED
    BY <1>1, <1>2, <1>3, <1>4 DEF Next

-----------------------------------------------------------------------------
(* What a Ready condition tells.                                            *)

(* Where an object looks for what was provided for it.                      *)
LEMMA Places ==
    ASSUME TypeOK
    PROVE  /\ \A n \in Names : repos[n] # None =>
                 /\ repos[n].spec.lake \in LakeNames /\ repos[n].spec.policy \in PolicyNames
                 /\ repos[n].spec.gc \in BOOLEAN
           /\ reconcile # None =>
                 /\ reconcile.name \in Names
                 /\ Wanted = reconcile.repo.spec
                 /\ Wanted.lake \in LakeNames /\ Wanted.policy \in PolicyNames
                 /\ Wanted.gc \in BOOLEAN
  BY ReconcileFields DEF TypeOK, ObjectsOK, Repository, RepositorySpec, Wanted

(* Objects of different names name different repositories.                  *)
LEMMA LakesApart ==
    ASSUME OwnLakes, NEW n, NEW m, NEW r1, NEW r2, From(n, r1), From(m, r2), n # m
    PROVE  r1.spec.lake # r2.spec.lake
  BY DEF OwnLakes, From

(* A step that leaves alone what the conditions are about.                  *)
LEMMA TellsKept ==
    ASSUME TypeOK, StatusTells,
           UNCHANGED <<repos, policies, jobs, seenPolicies, seenJobs>>,
           \A l \in LakeNames : lake[l] # None => lake'[l] = lake[l],
           \A n \in Names : Reports(n, "Resolved") /\ Busy(n) => Busy(n)'
    PROVE  StatusTells'
  <1> SUFFICES ASSUME NEW n \in Names, Reports(n, "Resolved")'
               PROVE  /\ repos[n].finalizer
                      /\ ~repos[n].deleting
                      /\ Provisioned(n, repos[n])'
                      /\ Busy(n)' \/ Held(n, repos[n])'
    BY DEF StatusTells
  <1>1. Reports(n, "Resolved") /\ repos[n] # None
    BY DEF Reports
  <1>2. /\ repos[n].finalizer /\ ~repos[n].deleting /\ Provisioned(n, repos[n])
        /\ Busy(n) \/ Held(n, repos[n])
    BY <1>1 DEF StatusTells
  <1>3. lake'[repos[n].spec.lake] = lake[repos[n].spec.lake]
    BY <1>1, <1>2, Places DEF Provisioned
  <1>4. Provisioned(n, repos[n])'
    BY <1>2, <1>3 DEF Provisioned
  <1>5. Busy(n)' \/ Held(n, repos[n])'
    BY <1>1, <1>2, <1>3 DEF Held, Follows
  <1> QED
    BY <1>2, <1>4, <1>5

(* The same for the reconcile in progress.                                  *)
LEMMA ProvidesKept ==
    ASSUME TypeOK, ReconcileProvides,
           UNCHANGED <<policies, jobs, seenPolicies, seenJobs, reconcile>>,
           \A l \in LakeNames : lake[l] # None => lake'[l] = lake[l],
           queue \subseteq queue'
    PROVE  ReconcileProvides'
  <1>1. CASE reconcile = None
    BY <1>1 DEF ReconcileProvides
  <1>2. CASE reconcile # None
    <2>1. lake[Wanted.lake] # None => lake'[Wanted.lake] = lake[Wanted.lake]
      BY <1>2, Places
    <2> QED
      BY <1>2, <2>1, Places DEF ReconcileProvides, Provisioned, Held, Follows, Wanted
  <1> QED
    BY <1>1, <1>2

(* A reconcile that has provided nothing yet, or is not Resolved.           *)
LEMMA ProvidesNothing ==
    ASSUME \/ reconcile' = None
           \/ reconcile'.pc \in {"look", "create", "unfinalize"}
           \/ reconcile'.pc = "status" /\ reconcile'.reason # "Resolved"
    PROVE  ReconcileProvides'
  BY DEF ReconcileProvides

-----------------------------------------------------------------------------
(* The steps of a reconcile.                                                *)

(* Its start.                                                               *)
LEMMA BeginTelling ==
    ASSUME IInv, TypeOK', Tracking, OwnLakes, Telling, NEW n \in Names, Begin(n)
    PROVE  Telling'
  <1> USE DEF IInv, Telling, Tracking
  <1>1. ReconcileProvides'
    <2>1. reconcile' = None \/ reconcile'.pc \in {"look", "unfinalize"}
      BY DEF Begin, ReconcileGone, AddFinalizer, HasFinalizer, DeleteInLake, Begun, Start
    <2> QED
      BY <2>1, ProvidesNothing
  <1>2. CASE ReconcileGone(n)
    <2>1. ~Reports(n, "Resolved")
      BY <1>2 DEF ReconcileGone, Reports, CurrentSeen, Same
    <2> QED
      BY <1>1, <1>2, <2>1, TellsKept
         DEF ReconcileGone, Start, api, views, Busy, Serving
  <1>3. CASE HasFinalizer(n)
    <2>1. reconcile' # None /\ reconcile'.name = n
      BY <1>3, Gens, BegunType, NoneAssumption DEF HasFinalizer, Living, Begun
    <2> QED
      BY <1>1, <1>3, <2>1, TellsKept DEF HasFinalizer, Start, api, views, Busy, Serving
  <1>4. CASE AddFinalizer(n)
    <2>1. /\ repos[n] \in Repository /\ repos[n] # None /\ ~repos[n].finalizer
      BY <1>4, Gens DEF AddFinalizer, SameVersion, Living
    <2>2. ~Reports(n, "Resolved")
      BY <2>1 DEF StatusTells
    <2>3. repos'[n] = [repos[n] EXCEPT !.finalizer = TRUE]
      BY <1>4 DEF AddFinalizer, TypeOK, ObjectsOK
    <2>4. repos'[n].ready = repos[n].ready /\ repos'[n].current = repos[n].current
      BY <2>1, <2>3 DEF Repository
    <2>5. ~Reports(n, "Resolved")'
      BY <2>1, <2>2, <2>4 DEF Reports
    <2>6. \A k \in Names : k # n => repos'[k] = repos[k] /\ (Busy(k) => Busy(k)')
      BY <1>4 DEF AddFinalizer, Start, TypeOK, ObjectsOK, Busy, Serving
    <2>7. UNCHANGED <<policies, jobs, lake, seenPolicies, seenJobs>>
      BY <1>4 DEF AddFinalizer, views
    <2>8. StatusTells'
      BY <2>5, <2>6, <2>7 DEF StatusTells, Reports, Provisioned, Held, Follows
    <2> QED
      BY <1>1, <2>8
  <1>5. CASE DeleteInLake(n)
    <2>1. /\ seenRepos[n] # None /\ seenRepos[n].deleting /\ From(n, seenRepos[n])
          /\ seenRepos[n].spec.lake \in LakeNames
      BY <1>5, Gens DEF DeleteInLake, Applied, Repository, RepositorySpec
    <2>2. ~Reports(n, "Resolved")
      BY <2>1 DEF Reports, StatusTells, CurrentSeen, Same
    <2>3. \A k \in Names : k # n /\ repos[k] # None =>
             lake'[repos[k].spec.lake] = lake[repos[k].spec.lake]
      <3> SUFFICES ASSUME NEW k \in Names, k # n, repos[k] # None
                   PROVE  lake'[repos[k].spec.lake] = lake[repos[k].spec.lake]
        OBVIOUS
      <3>1. From(k, repos[k])
        BY DEF Applied
      <3>2. repos[k].spec.lake # seenRepos[n].spec.lake
        BY <2>1, <3>1, LakesApart
      <3> QED
        BY <1>5, <2>1, <3>2, Places DEF DeleteInLake, TypeOK, ObjectsOK
    <2>4. \A k \in Names : k # n => (Busy(k) => Busy(k)')
      BY <1>5 DEF DeleteInLake, Start, Busy, Serving
    <2>5. UNCHANGED <<repos, policies, jobs, seenPolicies, seenJobs>>
      BY <1>5 DEF DeleteInLake, api, views
    <2>6. StatusTells'
      BY <2>2, <2>3, <2>4, <2>5 DEF StatusTells, Reports, Provisioned, Held, Follows
    <2> QED
      BY <1>1, <2>6
  <1> QED
    BY <1>2, <1>3, <1>4, <1>5 DEF Begin

(* What a reconcile in progress has to do with the object it is about.      *)
LEMMA InProgress ==
    ASSUME IInv, Tracking, reconcile # None
    PROVE  LET n == reconcile.name IN
           /\ n \in Names /\ reconcile \in Reconcile /\ reconcile.repo \in Repository
           /\ Busy(n)
           /\ Reports(n, "Resolved") => Same(reconcile.repo, repos[n])
           /\ From(n, reconcile.repo)
  BY Gens DEF IInv, TypeOK, OperatorOK, Tracking, CurrentSeen, Reports, Serving, Busy, Applied

(* A reconcile that goes on stays with its object.                          *)
LEMMA GoesOn ==
    ASSUME IInv, TypeOK', Proceed \/ CallFails
    PROVE  /\ repos' = repos /\ seenPolicies' = seenPolicies /\ seenJobs' = seenJobs
           /\ queue' = queue
           /\ reconcile # None /\ reconcile' # None
           /\ reconcile'.name = reconcile.name /\ reconcile'.repo = reconcile.repo
           /\ Wanted' = Wanted
           /\ \A n \in Names : Busy(n)' <=> Busy(n)
  <1>1. /\ seenPolicies' = seenPolicies /\ seenJobs' = seenJobs /\ queue' = queue
    BY DEF Proceed, EnsureGC, LookUp, NoCredentials, CreateInLake, DeleteCronJob,
           GetPolicy, NoPolicy, CreateDefaultPolicy, SetGCRules, EnsureCronJob, KeepCronJob,
           CallFails, views
  <1> QED
    BY <1>1, ProceedCarries DEF Wanted, Busy, Serving

(* The requests to lakeFS that come before garbage collection, and failures. *)
LEMMA LookTelling ==
    ASSUME IInv, TypeOK', Tracking, OwnLakes, Telling,
           LookUp \/ NoCredentials \/ CreateInLake \/ NoPolicy \/ CallFails
    PROVE  Telling'
  <1> USE DEF IInv, Telling, Tracking, At
  <1>0. Proceed \/ CallFails
    BY DEF Proceed, EnsureGC
  <1>a. /\ reconcile # None /\ reconcile \in Reconcile
        /\ Wanted.lake \in LakeNames /\ Wanted' = Wanted
    BY <1>0, GoesOn, InProgress, Places
  <1>1. \A l \in LakeNames : lake[l] # None => lake'[l] = lake[l]
    BY <1>a DEF LookUp, NoCredentials, CreateInLake, NoPolicy, CallFails, TypeOK, ObjectsOK
  <1>2. policies' = policies /\ jobs' = jobs
    BY DEF LookUp, NoCredentials, CreateInLake, NoPolicy, CallFails, api
  <1>3. StatusTells'
    BY <1>0, <1>1, <1>2, GoesOn, TellsKept
  <1>4. CASE LookUp
    <2>1. /\ reconcile'.pc = IF lake[Wanted.lake] = None THEN "create" ELSE "gc"
          /\ lake' = lake
      BY <1>a, <1>4 DEF LookUp, GoTo, Reconcile
    <2> QED
      BY <1>3, <1>a, <2>1 DEF ReconcileProvides
  <1>5. CASE CreateInLake
    <2>1. reconcile'.pc = "gc"
      BY <1>a, <1>5 DEF CreateInLake, GoTo, Reconcile
    <2>2. reconcile.repo.uid \in Nat
      BY <1>a, Uids
    <2>3. lake'[Wanted.lake] # None
      BY <1>a, <1>5, <2>2, NoneAssumption DEF CreateInLake, TypeOK, ObjectsOK, LakeRepository
    <2> QED
      BY <1>3, <1>a, <2>1, <2>3 DEF ReconcileProvides
  <1>6. CASE NoCredentials \/ NoPolicy \/ CallFails
    <2>1. reconcile'.pc = "status" /\ reconcile'.reason # "Resolved"
      BY <1>a, <1>6 DEF NoCredentials, NoPolicy, CallFails, Conclude, Reconcile
    <2> QED
      BY <1>3, <2>1, ProvidesNothing
  <1> QED
    BY <1>4, <1>5, <1>6

(* Without garbage collection the CronJob goes.                             *)
LEMMA DeleteCronJobTelling ==
    ASSUME IInv, TypeOK', Tracking, OwnLakes, Telling, DeleteCronJob
    PROVE  Telling'
  <1> USE DEF IInv, Telling, Tracking, At
  <1> DEFINE n == reconcile.name
  <1>0. Proceed
    BY DEF Proceed, EnsureGC
  <1>1. /\ reconcile # None /\ reconcile \in Reconcile /\ n \in Names
        /\ reconcile.pc = "gc" /\ ~Wanted.gc /\ Wanted = reconcile.repo.spec
        /\ UNCHANGED <<repos, policies, lake, seenPolicies, seenJobs>>
        /\ reconcile'.name = n /\ reconcile'.repo = reconcile.repo
    BY <1>0, GoesOn, InProgress, Places DEF DeleteCronJob
  <1>2. jobs'[n] = None /\ \A k \in Names : k # n => jobs'[k] = jobs[k]
    BY <1>1 DEF DeleteCronJob, TypeOK, ObjectsOK
  <1>3. Reports(n, "Resolved") => ~repos[n].spec.gc
    BY <1>1, InProgress DEF Same
  <1>4. Busy(n) /\ \A k \in Names : Busy(k) => Busy(k)'
    BY <1>0, <1>1, GoesOn, InProgress
  <1> HIDE DEF n
  <1>5. StatusTells'
    BY <1>1, <1>2, <1>3, <1>4 DEF StatusTells, Reports, Provisioned, Held, Follows
  <1>6. ReconcileProvides'
    <2>1. reconcile'.pc = "status"
      BY <1>1 DEF DeleteCronJob, Conclude, Reconcile
    <2>2. lake[Wanted.lake] # None
      BY <1>1 DEF ReconcileProvides
    <2> QED
      BY <1>1, <1>2, <2>1, <2>2 DEF ReconcileProvides, Provisioned, Held, n
  <1> QED
    BY <1>5, <1>6

(* The policy is the one that is seen, or a default nobody has seen yet.    *)
LEMMA PolicyTelling ==
    ASSUME IInv, TypeOK', Tracking, OwnLakes, Telling, GetPolicy \/ CreateDefaultPolicy
    PROVE  Telling'
  <1> USE DEF IInv, Telling, Tracking, At
  <1> DEFINE n == reconcile.name
  <1>0. Proceed
    BY DEF Proceed, EnsureGC
  <1>1. /\ reconcile # None /\ reconcile \in Reconcile /\ n \in Names
        /\ reconcile.pc = "gc" /\ Wanted.gc /\ Wanted' = Wanted /\ Wanted.policy \in PolicyNames
        /\ UNCHANGED <<repos, jobs, lake, seenPolicies, seenJobs>>
    BY <1>0, GoesOn, InProgress, Places DEF GetPolicy, CreateDefaultPolicy, api
  <1>2. \A p \in PolicyNames : policies[p] # None => policies'[p] # None
    BY DefaultsAssumption, NoneAssumption
       DEF GetPolicy, CreateDefaultPolicy, api, TypeOK, ObjectsOK
  <1>3. /\ reconcile'.pc = "rules"
        /\ \/ reconcile'.policy = seenPolicies[Wanted.policy]
           \/ seenPolicies[Wanted.policy] = None /\ policies'[Wanted.policy] # None
    <2>1. CASE GetPolicy
      BY <1>1, <2>1 DEF GetPolicy, Reconcile
    <2>2. CASE CreateDefaultPolicy
      <3>1. policies'[Wanted.policy] = DefaultContent /\ DefaultContent # None
        BY <1>1, <2>2, DefaultsAssumption, NoneAssumption
           DEF CreateDefaultPolicy, TypeOK, ObjectsOK
      <3> QED
        BY <1>1, <2>2, <3>1 DEF CreateDefaultPolicy, Reconcile
    <2> QED
      BY <2>1, <2>2
  <1>4. StatusTells'
    <2>1. \A k \in Names : Busy(k) => Busy(k)'
      BY <1>0, GoesOn
    <2> QED
      BY <1>1, <1>2, <2>1, Places DEF StatusTells, Reports, Provisioned, Held, Follows
  <1>5. ReconcileProvides'
    BY <1>1, <1>3 DEF ReconcileProvides, Follows
  <1> QED
    BY <1>4, <1>5

(* Rules are set for this object's repository alone.                        *)
LEMMA SetGCRulesTelling ==
    ASSUME IInv, TypeOK', Tracking, OwnLakes, Telling, SetGCRules
    PROVE  Telling'
  <1> USE DEF IInv, Telling, Tracking, At
  <1> DEFINE n == reconcile.name
             w == Wanted.lake
  <1>0. Proceed
    BY DEF Proceed, EnsureGC
  <1>1. /\ reconcile # None /\ reconcile \in Reconcile /\ n \in Names
        /\ reconcile.pc = "rules" /\ Wanted' = Wanted /\ w \in LakeNames
        /\ reconcile'.name = n /\ reconcile'.repo = reconcile.repo
        /\ From(n, reconcile.repo) /\ Wanted = reconcile.repo.spec
        /\ UNCHANGED <<repos, policies, jobs, seenPolicies, seenJobs, queue>>
    BY <1>0, GoesOn, InProgress, Places DEF SetGCRules, api
  <1>2. reconcile.policy # None
    BY <1>1 DEF TypeOK, OperatorOK
  <1>3. /\ lake'[w] # None /\ lake'[w].rules = reconcile.policy
        /\ \A l \in LakeNames : l # w => lake'[l] = lake[l]
    <2>1. lake[w] \in LakeRepository /\ lake'[w] = [lake[w] EXCEPT !.rules = reconcile.policy]
      BY <1>1 DEF SetGCRules, TypeOK, ObjectsOK
    <2>2. lake'[w].rules = reconcile.policy /\ lake'[w] \in LakeRepository
      BY <1>1, <2>1 DEF LakeRepository, Reconcile
    <2> QED
      BY <1>1, <2>2, NoneAssumption DEF SetGCRules, TypeOK, ObjectsOK
  <1>4. Busy(n) /\ \A k \in Names : Busy(k) => Busy(k)'
    BY <1>0, GoesOn, InProgress
  <1>5. \A k \in Names : k # n /\ repos[k] # None =>
           lake'[repos[k].spec.lake] = lake[repos[k].spec.lake]
    <2> SUFFICES ASSUME NEW k \in Names, k # n, repos[k] # None
                 PROVE  lake'[repos[k].spec.lake] = lake[repos[k].spec.lake]
      OBVIOUS
    <2>1. From(k, repos[k])
      BY DEF Applied
    <2>2. repos[k].spec.lake # w
      BY <1>1, <2>1, LakesApart
    <2> QED
      BY <1>3, <2>2, Places
  <1>6. Reports(n, "Resolved") => repos[n].spec.lake = w
    BY <1>1, InProgress DEF Same
  <1> HIDE DEF n, w
  <1>7. StatusTells'
    <2> SUFFICES ASSUME NEW k \in Names, Reports(k, "Resolved")'
                 PROVE  /\ repos[k].finalizer /\ ~repos[k].deleting
                        /\ Provisioned(k, repos[k])' /\ (Busy(k)' \/ Held(k, repos[k])')
      BY <1>1 DEF StatusTells
    <2>1. /\ Reports(k, "Resolved") /\ repos[k] # None
          /\ repos[k].finalizer /\ ~repos[k].deleting
          /\ Provisioned(k, repos[k]) /\ (Busy(k) \/ Held(k, repos[k]))
      BY <1>1 DEF StatusTells, Reports
    <2>2. CASE k = n
      BY <1>1, <1>2, <1>3, <1>4, <1>6, <2>1, <2>2 DEF Provisioned
    <2>3. CASE k # n
      BY <1>1, <1>4, <1>5, <2>1, <2>3 DEF Provisioned, Held, Follows
    <2> QED
      BY <2>1, <2>2, <2>3
  <1>8. ReconcileProvides'
    <2>1. reconcile'.pc = "job" /\ reconcile'.policy = reconcile.policy
      BY <1>1 DEF SetGCRules, GoTo, Reconcile
    <2> QED
      BY <1>1, <1>3, <2>1 DEF ReconcileProvides, Follows, n, w
  <1> QED
    BY <1>7, <1>8

(* The CronJob is written, or found as it should be in the cache.           *)
LEMMA CronJobTelling ==
    ASSUME IInv, TypeOK', Tracking, OwnLakes, Telling, EnsureCronJob \/ KeepCronJob
    PROVE  Telling'
  <1> USE DEF IInv, Telling, Tracking, At
  <1> DEFINE n == reconcile.name
  <1>0. Proceed
    BY DEF Proceed, EnsureGC
  <1>1. /\ reconcile # None /\ reconcile \in Reconcile /\ n \in Names
        /\ reconcile.pc = "job" /\ Wanted' = Wanted /\ Wanted = reconcile.repo.spec
        /\ reconcile'.name = n /\ reconcile'.repo = reconcile.repo
        /\ UNCHANGED <<repos, policies, lake, seenPolicies, seenJobs, queue>>
    BY <1>0, GoesOn, InProgress, Places DEF EnsureCronJob, KeepCronJob, api
  <1>2. reconcile.policy # None /\ WantedJob # None /\ WantedJob.uid = reconcile.repo.uid
    <2>1. reconcile.policy \in Contents
      BY <1>1 DEF TypeOK, OperatorOK, Reconcile
    <2>2. WantedJob \in CronJob
      BY <1>1, <2>1, ReconcileFields, Uids DEF WantedJob, CronJob, TypeOK
    <2> QED
      BY <2>1, <2>2, NoneAssumption DEF WantedJob
  <1>3. /\ \A k \in Names : k # n => jobs'[k] = jobs[k]
        /\ \/ jobs'[n] = WantedJob
           \/ jobs'[n] = jobs[n] /\ seenJobs[n] = WantedJob
    BY <1>1 DEF EnsureCronJob, KeepCronJob, api, TypeOK, ObjectsOK
  <1>4. Busy(n) /\ \A k \in Names : Busy(k) => Busy(k)'
    BY <1>0, GoesOn, InProgress
  <1>5. Reports(n, "Resolved") =>
           repos[n].spec = Wanted /\ repos[n].uid = reconcile.repo.uid
    BY <1>1, InProgress DEF Same
  <1>6. /\ Wanted.gc /\ lake[Wanted.lake] # None /\ lake[Wanted.lake].rules = reconcile.policy
        /\ n \in queue \/ Follows(reconcile.policy, Wanted.policy)
    BY <1>1 DEF ReconcileProvides
  <1> HIDE DEF n
  <1>7. StatusTells'
    <2> SUFFICES ASSUME NEW k \in Names, Reports(k, "Resolved")'
                 PROVE  /\ repos[k].finalizer /\ ~repos[k].deleting
                        /\ Provisioned(k, repos[k])' /\ (Busy(k)' \/ Held(k, repos[k])')
      BY <1>1 DEF StatusTells
    <2>1. /\ Reports(k, "Resolved") /\ repos[k] # None
          /\ repos[k].finalizer /\ ~repos[k].deleting
          /\ Provisioned(k, repos[k]) /\ (Busy(k) \/ Held(k, repos[k]))
      BY <1>1 DEF StatusTells, Reports
    <2>2. CASE k = n
      BY <1>1, <1>2, <1>3, <1>4, <1>5, <1>6, <2>1, <2>2 DEF Provisioned
    <2>3. CASE k # n
      BY <1>1, <1>3, <1>4, <2>1, <2>3 DEF Provisioned, Held, Follows
    <2> QED
      BY <2>1, <2>2, <2>3
  <1>8. ReconcileProvides'
    <2>1. reconcile'.pc = "status"
      BY <1>1 DEF EnsureCronJob, KeepCronJob, Conclude, Reconcile
    <2>2. Provisioned(n, reconcile.repo)'
      BY <1>1, <1>2, <1>3, <1>6 DEF Provisioned, n
    <2>3. n \in queue' \/ Held(n, reconcile.repo)'
      BY <1>1, <1>3, <1>6 DEF Held, Follows, WantedJob, n
    <2> QED
      BY <1>1, <2>1, <2>2, <2>3 DEF ReconcileProvides, n
  <1> QED
    BY <1>7, <1>8

(* The status is written for the object as it was copied.                   *)
LEMMA UpdateStatusTelling ==
    ASSUME IInv, TypeOK', Tracking, OwnLakes, Telling, UpdateStatus
    PROVE  Telling'
  <1> USE DEF IInv, Telling, Tracking, At
  <1> DEFINE n == reconcile.name
             old == repos[n]
             new == repos'[n]
  <1>1. /\ reconcile # None /\ n \in Names /\ reconcile.pc = "status"
        /\ old \in Repository /\ old # None /\ old = reconcile.repo
        /\ old.finalizer /\ ~old.deleting
    BY Gens, ReconcileFields DEF UpdateStatus, SameVersion, TypeOK
  <1>2. \A k \in Names : k # n => repos'[k] = repos[k]
    BY DEF UpdateStatus, TypeOK, ObjectsOK
  <1>3. /\ new.uid = old.uid /\ new.spec = old.spec /\ new.deleting = old.deleting
        /\ new.finalizer = old.finalizer /\ new.ready = reconcile.reason
    <2>1. new = [old EXCEPT !.ready = reconcile.reason, !.current = TRUE]
      BY <1>1 DEF UpdateStatus, TypeOK, ObjectsOK
    <2> QED
      BY <1>1, <2>1 DEF Repository
  <1>4. /\ UNCHANGED <<policies, jobs, lake, seenPolicies, seenJobs>> /\ reconcile' = None
        /\ queue \subseteq queue'
    BY DEF UpdateStatus, views
  <1>5. \A k \in Names : k # n => (Busy(k) => Busy(k)')
    BY <1>1, <1>4 DEF Busy, Serving
  <1>6. reconcile.reason = "Resolved" =>
           Provisioned(n, old) /\ (n \in queue \/ Held(n, old))
    BY <1>1 DEF ReconcileProvides
  <1> HIDE DEF n, new, old
  <1>7. \A k \in Names : k # n /\ Reports(k, "Resolved")' =>
           /\ repos[k].finalizer /\ ~repos[k].deleting
           /\ Provisioned(k, repos[k]) /\ (Busy(k) \/ Held(k, repos[k]))
    BY <1>2 DEF StatusTells, Reports
  <1>8. \A k \in Names : k # n => repos'[k] = repos[k] /\ (Busy(k) => Busy(k)')
    BY <1>2, <1>5
  <1>9. StatusTells'
    <2> SUFFICES ASSUME NEW k \in Names, Reports(k, "Resolved")'
                 PROVE  /\ repos'[k].finalizer /\ ~repos'[k].deleting
                        /\ Provisioned(k, repos[k])' /\ (Busy(k)' \/ Held(k, repos[k])')
      BY DEF StatusTells
    <2>1. CASE k = n
      BY <1>1, <1>3, <1>4, <1>6, <2>1 DEF Reports, Provisioned, Held, Follows, Busy, new, old
    <2>2. CASE k # n
      BY <1>4, <1>7, <1>8, <2>2 DEF Provisioned, Held, Follows
    <2> QED
      BY <2>1, <2>2
  <1> QED
    BY <1>4, <1>9, ProvidesNothing

(* A reconcile that ends otherwise.                                         *)
LEMMA EndTelling ==
    ASSUME IInv, TypeOK', Tracking, OwnLakes, Telling,
           RemoveFinalizer \/ UpdateFails \/ OperatorRestart
    PROVE  Telling'
  <1> USE DEF IInv, Telling, Tracking
  <1>1. ReconcileProvides'
    BY ProvidesNothing DEF RemoveFinalizer, UpdateFails, OperatorRestart
  <1>2. CASE RemoveFinalizer
    <2>1. /\ UNCHANGED <<policies, jobs, lake, seenPolicies, seenJobs, queue>> /\ reconcile' = None
          /\ reconcile # None /\ repos'[reconcile.name] = None
          /\ \A k \in Names : k # reconcile.name => repos'[k] = repos[k]
      BY <1>2, Gens DEF RemoveFinalizer, At, views, TypeOK, ObjectsOK
    <2>2. \A k \in Names : Reports(k, "Resolved")' =>
             /\ repos'[k] = repos[k] /\ Reports(k, "Resolved")
             /\ Busy(k) => Busy(k)'
      BY <2>1 DEF Reports, Busy, Serving
    <2> QED
      BY <1>1, <2>1, <2>2 DEF StatusTells, Provisioned, Held, Follows
  <1>3. CASE UpdateFails
    <2>1. \A k \in Names : Busy(k) => Busy(k)'
      BY <1>3 DEF UpdateFails, Busy, Serving
    <2> QED
      BY <1>1, <1>3, <2>1, TellsKept DEF UpdateFails, api, views
  <1>4. CASE OperatorRestart
    <2>1. /\ UNCHANGED <<repos, jobs, lake>> /\ seenJobs' = jobs
          /\ \A k \in Names : repos[k] # None => k \in queue'
      BY <1>4 DEF OperatorRestart, api
    <2> QED
      BY <1>1, <2>1 DEF StatusTells, Reports, Provisioned, Busy
  <1> QED
    BY <1>2, <1>3, <1>4

-----------------------------------------------------------------------------
(* Events and commands.                                                     *)

(* An event of a CronJob puts its object in the queue.                      *)
LEMMA SyncJobTelling ==
    ASSUME IInv, TypeOK', Tracking, OwnLakes, Telling, NEW n \in Names, SyncJob(n)
    PROVE  Telling'
  <1> USE DEF IInv, Telling, Tracking
  <1>1. /\ UNCHANGED <<repos, policies, jobs, lake, seenPolicies, reconcile>>
        /\ queue' = queue \cup {n}
        /\ seenJobs'[n] = jobs[n]
        /\ \A k \in Names : k # n => seenJobs'[k] = seenJobs[k]
    BY DEF SyncJob, api, world, TypeOK, ViewsOK
  <1>2. StatusTells'
    BY <1>1 DEF StatusTells, Reports, Provisioned, Held, Follows, Busy, Serving
  <1>3. ReconcileProvides'
    BY <1>1, Gens DEF ReconcileProvides, Provisioned, Held, Follows, Wanted
  <1> QED
    BY <1>2, <1>3

(* An event of a policy finds the objects that follow it, in the cache.     *)
LEMMA SyncPolicyTelling ==
    ASSUME IInv, TypeOK', Tracking, OwnLakes, Telling, NEW p \in PolicyNames, SyncPolicy(p)
    PROVE  Telling'
  <1> USE DEF IInv, Telling, Tracking
  <1>1. /\ UNCHANGED <<repos, policies, jobs, lake, seenJobs, reconcile>>
        /\ queue' = queue \cup RepositoriesForPolicy(p)
        /\ \A q \in PolicyNames : q # p => seenPolicies'[q] = seenPolicies[q]
    BY DEF SyncPolicy, api, world, TypeOK, ViewsOK
  <1>2. \A k \in Names : Reports(k, "Resolved") /\ repos[k].spec.gc /\ repos[k].spec.policy = p
           => k \in queue'
    BY <1>1 DEF Reports, CurrentSeen, Same, RepositoriesForPolicy
  <1>3. reconcile # None /\ Wanted.gc /\ Wanted.policy = p => reconcile.name \in queue'
    BY <1>1, Gens DEF CopySeen, Same, RepositoriesForPolicy, Wanted
  <1>4. StatusTells'
    <2> SUFFICES ASSUME NEW k \in Names, Reports(k, "Resolved")
                 PROVE  /\ repos[k].finalizer /\ ~repos[k].deleting
                        /\ Provisioned(k, repos[k])' /\ (Busy(k)' \/ Held(k, repos[k])')
      BY <1>1 DEF StatusTells, Reports
    <2>1. /\ repos[k].finalizer /\ ~repos[k].deleting
          /\ Provisioned(k, repos[k]) /\ (Busy(k) \/ Held(k, repos[k]))
          /\ repos[k].spec.policy \in PolicyNames
      BY Places DEF StatusTells, Reports
    <2>2. Provisioned(k, repos[k])'
      BY <1>1, <2>1 DEF Provisioned
    <2>3. Busy(k)' \/ Held(k, repos[k])'
      BY <1>1, <1>2, <2>1 DEF Held, Follows, Busy, Serving
    <2> QED
      BY <2>1, <2>2, <2>3
  <1>5. ReconcileProvides'
    <2>1. CASE reconcile = None
      BY <1>1, <2>1, ProvidesNothing
    <2>2. CASE reconcile # None
      <3>1. /\ Wanted' = Wanted /\ Wanted = reconcile.repo.spec /\ Wanted.policy \in PolicyNames
        BY <1>1, <2>2, Places DEF Wanted
      <3>2. reconcile.name \in queue' \/ ~Wanted.gc
            \/ seenPolicies'[Wanted.policy] = seenPolicies[Wanted.policy]
        BY <1>1, <1>3, <2>2, <3>1
      <3> QED
        BY <1>1, <2>2, <3>1, <3>2 DEF ReconcileProvides, Provisioned, Held, Follows
    <2> QED
      BY <2>1, <2>2
  <1> QED
    BY <1>4, <1>5

(* A command on an object leaves no current status behind.                  *)
LEMMA CommandTelling ==
    ASSUME IInv, TypeOK', Tracking, OwnLakes, Telling,
           (\E m \in Manifests : ApplyRepo(m)) \/ (\E n \in Names : RemoveRepo(n))
    PROVE  Telling'
  <1> USE DEF IInv, Telling
  <1>1. UNCHANGED <<policies, jobs, lake, seenPolicies, seenJobs, queue, reconcile>>
    BY DEF ApplyRepo, RemoveRepo, views, operator
  <1>2. \A r \in Repository : \A spec \in RepositorySpec :
           /\ ~Changed(r, spec).current
           /\ ~[Changed(r, spec) EXCEPT !.deleting = TRUE].current
    <2> SUFFICES ASSUME NEW r \in Repository, NEW spec \in RepositorySpec
                 PROVE  /\ ~Changed(r, spec).current
                        /\ ~[Changed(r, spec) EXCEPT !.deleting = TRUE].current
      OBVIOUS
    <2>1. Changed(r, spec) \in Repository /\ ~Changed(r, spec).current
      BY ChangedType DEF Changed, Repository, TypeOK
    <2> QED
      BY <2>1 DEF Repository
  <1>3. \A k \in Names : Reports(k, "Resolved")' => repos'[k] = repos[k]
    <2>1. ASSUME NEW m \in Manifests, ApplyRepo(m), NEW k \in Names
          PROVE  repos'[k] = repos[k] \/ ~repos'[k].current
      <3>1. m.name \in Names /\ m.spec \in RepositorySpec
        BY InputsAssumption DEF Manifest
      <3> QED
        BY <1>2, <2>1, <3>1 DEF ApplyRepo, NewRepository, TypeOK, ObjectsOK
    <2>2. ASSUME NEW n \in Names, RemoveRepo(n), NEW k \in Names
          PROVE  repos'[k] \in {repos[k], None} \/ ~repos'[k].current
      <3>1. repos[n] \in Repository /\ repos[n].spec \in RepositorySpec
        BY <2>2, RepositoryFields DEF RemoveRepo, TypeOK, ObjectsOK
      <3> QED
        BY <1>2, <2>2, <3>1 DEF RemoveRepo, TypeOK, ObjectsOK
    <2> QED
      BY <2>1, <2>2 DEF Reports
  <1>4. StatusTells'
    BY <1>1, <1>3 DEF StatusTells, Reports, Provisioned, Held, Follows, Busy, Serving
  <1>5. ReconcileProvides'
    BY <1>1, ProvidesKept
  <1> QED
    BY <1>4, <1>5

(* A policy that is applied or removed: what follows it has an event coming. *)
LEMMA PolicyCommandTelling ==
    ASSUME IInv, TypeOK', Tracking, OwnLakes, Telling,
           (\E m \in Policies : ApplyPolicy(m)) \/ (\E p \in PolicyNames : RemovePolicy(p))
    PROVE  Telling'
  <1> USE DEF IInv, Telling
  <1>1. UNCHANGED <<repos, jobs, lake, seenPolicies, seenJobs, queue, reconcile>>
    BY DEF ApplyPolicy, RemovePolicy, views, operator
  <1>2. \A p \in PolicyNames :
           seenPolicies[p] = None /\ policies[p] # None => policies'[p] # None
    <2>1. ASSUME NEW m \in Policies, ApplyPolicy(m)
          PROVE  \A p \in PolicyNames : policies[p] # None => policies'[p] # None
      <3>1. m.name \in PolicyNames /\ m.content # None
        BY InputsAssumption, NoneAssumption DEF PolicyManifest
      <3> QED
        BY <2>1, <3>1 DEF ApplyPolicy, TypeOK, ObjectsOK
    <2>2. ASSUME NEW p \in PolicyNames, RemovePolicy(p)
          PROVE  \A q \in PolicyNames :
                    seenPolicies[q] = None /\ policies[q] # None => policies'[q] # None
      BY <2>2 DEF RemovePolicy, TypeOK, ObjectsOK
    <2> QED
      BY <2>1, <2>2
  <1>3. StatusTells'
    BY <1>1, <1>2, Places DEF StatusTells, Reports, Provisioned, Held, Follows, Busy, Serving
  <1>4. ReconcileProvides'
    <2>1. CASE reconcile = None
      BY <1>1, <2>1, ProvidesNothing
    <2>2. CASE reconcile # None
      BY <1>1, <1>2, <2>2, Places DEF ReconcileProvides, Provisioned, Held, Follows, Wanted
    <2> QED
      BY <2>1, <2>2
  <1> QED
    BY <1>3, <1>4

(* A CronJob that is removed or collected was known, or nobody's.           *)
LEMMA JobGoneTelling ==
    ASSUME IInv, TypeOK', Tracking, OwnLakes, Telling,
           NEW n \in Names, RemoveJob(n) \/ CollectJob(n)
    PROVE  Telling'
  <1> USE DEF IInv, Telling, Tracking
  <1>1. /\ UNCHANGED <<repos, policies, lake, seenPolicies, seenJobs, queue, reconcile>>
        /\ jobs'[n] = None
        /\ \A k \in Names : k # n => jobs'[k] = jobs[k]
    BY DEF RemoveJob, CollectJob, views, operator, TypeOK, ObjectsOK
  <1>2. /\ jobs[n] # None
        /\ \/ seenJobs[n] = jobs[n]
           \/ ~Exists(n, jobs[n].uid)
    BY DEF RemoveJob, CollectJob
  <1>3. StatusTells'
    <2> SUFFICES ASSUME NEW k \in Names, Reports(k, "Resolved")
                 PROVE  /\ repos[k].finalizer /\ ~repos[k].deleting
                        /\ Provisioned(k, repos[k])' /\ (Busy(k)' \/ Held(k, repos[k])')
      BY <1>1 DEF StatusTells, Reports
    <2>1. /\ repos[k].finalizer /\ ~repos[k].deleting /\ repos[k] # None
          /\ Provisioned(k, repos[k]) /\ (Busy(k) \/ Held(k, repos[k]))
      BY DEF StatusTells, Reports
    <2>2. Provisioned(k, repos[k])'
      BY <1>1, <2>1 DEF Provisioned
    <2>3. Busy(k)' \/ Held(k, repos[k])'
      BY <1>1, <1>2, <2>1 DEF Held, Provisioned, Follows, Busy, Serving, Exists
    <2> QED
      BY <2>1, <2>2, <2>3
  <1>4. ReconcileProvides'
    <2>1. CASE reconcile = None
      BY <1>1, <2>1, ProvidesNothing
    <2>2. CASE reconcile # None
      <3>1. reconcile.pc = "status" => Exists(reconcile.name, reconcile.repo.uid)
        BY <2>2 DEF ReconcileGuards, Guards, Exists
      <3> QED
        BY <1>1, <1>2, <2>2, <3>1, Places
           DEF ReconcileProvides, Provisioned, Held, Follows, Wanted
    <2> QED
      BY <2>1, <2>2
  <1> QED
    BY <1>3, <1>4

(* Steps that at most fill the queue or make a repository in lakeFS.        *)
LEMMA HarmlessTelling ==
    ASSUME IInv, TypeOK', Telling,
           UNCHANGED <<repos, policies, jobs, seenPolicies, seenJobs, reconcile>>,
           \A l \in LakeNames : lake[l] # None => lake'[l] = lake[l],
           queue \subseteq queue'
    PROVE  Telling'
  <1> USE DEF IInv, Telling
  <1>1. \A n \in Names : Busy(n) => Busy(n)'
    BY DEF Busy, Serving
  <1> QED
    BY <1>1, TellsKept, ProvidesKept

(* A repository removed in lakeFS itself is counted.                        *)
LEMMA Losses ==
    ASSUME TypeOK, [Next]_vars, losses' = 0
    PROVE  losses = 0 /\ \A l \in LakeNames : ~LoseLake(l)
  <1>1. losses \in Nat
    BY DEF TypeOK, WorldOK
  <1>2. \A l \in LakeNames : ~LoseLake(l)
    BY <1>1 DEF LoseLake
  <1>3. CASE OperatorStep
    <2>1. ASSUME NEW n \in Names, Begin(n) \/ Resync(n) PROVE losses' = losses
      <3>1. ReconcileGone(n) => losses' = losses
        BY DEF ReconcileGone, Start, world
      <3>2. AddFinalizer(n) => losses' = losses
        BY DEF AddFinalizer, Start, world
      <3>3. HasFinalizer(n) \/ DeleteInLake(n) => losses' = losses
        BY DEF HasFinalizer, DeleteInLake, Start, world
      <3> QED
        BY <2>1, <3>1, <3>2, <3>3 DEF Begin, Resync, world
    <2>2. Proceed => losses' = losses
      BY DEF Proceed, EnsureGC, LookUp, NoCredentials, CreateInLake, DeleteCronJob, GetPolicy,
             NoPolicy, CreateDefaultPolicy, SetGCRules, EnsureCronJob, KeepCronJob, world
    <2>3. UpdateStatus => losses' = losses
      BY DEF UpdateStatus, world
    <2>4. RemoveFinalizer => losses' = losses
      BY DEF RemoveFinalizer, world
    <2>5. CallFails \/ UpdateFails \/ OperatorRestart => losses' = losses
      BY DEF CallFails, UpdateFails, OperatorRestart, world
    <2> QED
      BY <1>2, <1>3, <2>1, <2>2, <2>3, <2>4, <2>5 DEF OperatorStep, Finish, Fail
  <1>4. CASE WatchStep
    BY <1>2, <1>4 DEF WatchStep, SyncRepo, SyncJob, SyncPolicy, SyncSecret, world
  <1>5. CASE EnvironmentStep
    <2>1. (\E m \in Manifests : ApplyRepo(m)) => losses' = losses
      BY DEF ApplyRepo
    <2>2. (\E n \in Names : RemoveRepo(n)) => losses' = losses
      BY DEF RemoveRepo
    <2>3. (\E n \in Names : RemoveJob(n) \/ CollectJob(n)) => losses' = losses
      BY DEF RemoveJob, CollectJob, world
    <2>4. (\E m \in Policies : ApplyPolicy(m)) \/ (\E p \in PolicyNames : RemovePolicy(p))
             => losses' = losses
      BY DEF ApplyPolicy, RemovePolicy
    <2>5. (\E l \in LakeNames : MakeLake(l)) \/ ToggleSecret => losses' = losses
      BY DEF MakeLake, ToggleSecret
    <2> QED
      BY <1>2, <1>5, <2>1, <2>2, <2>3, <2>4, <2>5 DEF EnvironmentStep
  <1> QED
    BY <1>2, <1>3, <1>4, <1>5 DEF Next, vars

(* While nobody removes a repository in lakeFS itself, every step keeps     *)
(* conditions telling.                                                      *)
LEMMA NextTelling ==
    ASSUME IInv, Tracking, OwnLakes, Telling, [Next]_vars, losses' = 0
    PROVE  Telling'
  <1>0. TypeOK /\ TypeOK' /\ \A l \in LakeNames : ~LoseLake(l)
    BY NextType, Losses DEF IInv
  <1>1. CASE UNCHANGED vars
    BY <1>0, <1>1, HarmlessTelling DEF vars
  <1>2. CASE OperatorStep
    <2>1. ASSUME NEW n \in Names, Begin(n) PROVE Telling'
      BY <1>0, <2>1, BeginTelling
    <2>2. ASSUME NEW n \in Names, Resync(n) PROVE Telling'
      BY <1>0, <2>2, HarmlessTelling DEF Resync, api, views
    <2>3. CASE LookUp \/ NoCredentials \/ CreateInLake \/ NoPolicy \/ CallFails
      BY <1>0, <2>3, LookTelling
    <2>4. CASE DeleteCronJob
      BY <1>0, <2>4, DeleteCronJobTelling
    <2>5. CASE GetPolicy \/ CreateDefaultPolicy
      BY <1>0, <2>5, PolicyTelling
    <2>6. CASE SetGCRules
      BY <1>0, <2>6, SetGCRulesTelling
    <2>7. CASE EnsureCronJob \/ KeepCronJob
      BY <1>0, <2>7, CronJobTelling
    <2>8. CASE UpdateStatus
      BY <1>0, <2>8, UpdateStatusTelling
    <2>9. CASE RemoveFinalizer \/ UpdateFails \/ OperatorRestart
      BY <1>0, <2>9, EndTelling
    <2> QED
      BY <1>2, <2>1, <2>2, <2>3, <2>4, <2>5, <2>6, <2>7, <2>8, <2>9
         DEF OperatorStep, Proceed, EnsureGC, Finish, Fail
  <1>3. CASE WatchStep
    <2>1. ASSUME NEW n \in Names, SyncJob(n) PROVE Telling'
      BY <1>0, <2>1, SyncJobTelling
    <2>2. ASSUME NEW p \in PolicyNames, SyncPolicy(p) PROVE Telling'
      BY <1>0, <2>2, SyncPolicyTelling
    <2>3. CASE SyncSecret \/ \E n \in Names : SyncRepo(n)
      BY <1>0, <2>3, HarmlessTelling DEF SyncSecret, SyncRepo, api, operator
    <2> QED
      BY <1>3, <2>1, <2>2, <2>3 DEF WatchStep
  <1>4. CASE EnvironmentStep
    <2>1. CASE (\E m \in Manifests : ApplyRepo(m)) \/ (\E n \in Names : RemoveRepo(n))
      BY <1>0, <2>1, CommandTelling
    <2>2. CASE (\E m \in Policies : ApplyPolicy(m)) \/ (\E p \in PolicyNames : RemovePolicy(p))
      BY <1>0, <2>2, PolicyCommandTelling
    <2>3. ASSUME NEW n \in Names, RemoveJob(n) \/ CollectJob(n) PROVE Telling'
      BY <1>0, <2>3, JobGoneTelling
    <2>4. ASSUME NEW l \in LakeNames, MakeLake(l) PROVE Telling'
      <3>1. \A k \in LakeNames : lake[k] # None => lake'[k] = lake[k]
        BY <1>0, <2>4 DEF MakeLake, TypeOK, ObjectsOK
      <3> QED
        BY <1>0, <2>4, <3>1, HarmlessTelling DEF MakeLake, api, views, operator
    <2>5. CASE ToggleSecret
      BY <1>0, <2>5, HarmlessTelling DEF ToggleSecret, views, operator
    <2> QED
      BY <1>0, <1>4, <2>1, <2>2, <2>3, <2>4, <2>5 DEF EnvironmentStep
  <1> QED
    BY <1>1, <1>2, <1>3, <1>4 DEF Next

-----------------------------------------------------------------------------
(* The theorems.                                                            *)

LEMMA InitReadyInv == Init => ReadyInv
  BY BoundsAssumption, NoneAssumption
     DEF Init, ReadyInv, GensPast, CurrentSeen, CopySeen, WorkLeft, StatusTells,
         ReconcileProvides, Reports

LEMMA NextReadyInv ==
    ASSUME IInv, ReadyInv, [Next]_vars
    PROVE  ReadyInv'
  <1>1. Tracking'
    BY NextTracking DEF ReadyInv, Tracking
  <1>2. ASSUME OwnLakes, losses' = 0
        PROVE  Telling'
    <2>1. losses = 0
      BY <1>2, Losses DEF IInv
    <2> QED
      BY <1>2, <2>1, NextTelling DEF ReadyInv, Tracking, Telling
  <1> QED
    BY <1>1, <1>2 DEF ReadyInv, Tracking, Telling, OwnLakes

(* What a status or a reconcile is about is the generation it saw, what is  *)
(* not Resolved has work left, and what is Resolved was provided.           *)
THEOREM ReadyInvHolds == Spec => []ReadyInv
  <1>1. IInv /\ ReadyInv /\ [Next]_vars => ReadyInv'
    BY NextReadyInv
  <1> QED
    BY <1>1, InitReadyInv, IInvHolds, PTL DEF Spec

(* While lakeFS repositories have one object each and none is removed in    *)
(* lakeFS itself, a current Ready condition is true of lakeFS and of the    *)
(* CronJob, or the object is about to be reconciled.                        *)
THEOREM ReadyIsProvisionedHolds == Spec => []ReadyIsProvisioned
  <1>1. ASSUME IInv, ReadyInv
        PROVE  ReadyIsProvisioned
    <2> SUFFICES ASSUME OwnLakes, losses = 0, NEW n \in Names, Reports(n, "Resolved")
                 PROVE  LET l == lake[repos[n].spec.lake] IN
                        /\ ~repos[n].deleting
                        /\ l # None
                        /\ IF repos[n].spec.gc
                           THEN /\ l.rules # None
                                /\ \/ Awaited(n)
                                   \/ jobs[n] # None /\ jobs[n].uid = repos[n].uid
                           ELSE jobs[n] = None
      BY DEF ReadyIsProvisioned
    <2>1. /\ ~repos[n].deleting
          /\ Provisioned(n, repos[n])
          /\ Busy(n) \/ Held(n, repos[n])
      BY <1>1 DEF ReadyInv, StatusTells
    <2>2. ASSUME repos[n].spec.gc
          PROVE  Awaited(n) \/ (jobs[n] # None /\ jobs[n].uid = repos[n].uid)
      <3> DEFINE made == [uid |-> repos[n].uid, lake |-> repos[n].spec.lake,
                          from |-> lake[repos[n].spec.lake].rules]
      <3>1. repos[n].spec.lake \in LakeNames /\ repos[n].uid \in Nat
        BY <1>1, Places, Uids DEF IInv, Reports, Repository
      <3>2. lake[repos[n].spec.lake].rules \in Contents
        BY <1>1, <2>1, <2>2, <3>1 DEF IInv, TypeOK, ObjectsOK, LakeRepository, Provisioned
      <3>3. made \in CronJob /\ made.uid = repos[n].uid
        BY <3>1, <3>2 DEF CronJob
      <3>4. made # None
        BY <3>3, NoneAssumption
      <3>5. Awaited(n) \/ jobs[n] = made
        BY <2>1, <2>2 DEF Busy, Serving, Held, Awaited
      <3> HIDE DEF made
      <3> QED
        BY <3>3, <3>4, <3>5
    <2> QED
      BY <2>1, <2>2 DEF Provisioned
  <1> QED
    BY <1>1, IInvHolds, ReadyInvHolds, PTL

(* When no work and no event is left for an object, lakeFS and its CronJob  *)
(* are as the object and its policy ask: no wake-up of the reconciler is    *)
(* lost.                                                                    *)
THEOREM NoLostWakeUpHolds == Spec => []NoLostWakeUp
  <1>1. ASSUME ReadyInv
        PROVE  NoLostWakeUp
    <2> SUFFICES ASSUME OwnLakes, losses = 0, NEW n \in Names, repos[n] # None, Quiet(n)
                 PROVE  Converged(n)
      BY DEF NoLostWakeUp
    <2>1. Reports(n, "Resolved") /\ ~Busy(n)
      BY <1>1 DEF ReadyInv, WorkLeft, Quiet, Busy, Serving
    <2>2. repos[n].finalizer /\ Provisioned(n, repos[n]) /\ Held(n, repos[n])
      BY <1>1, <2>1 DEF ReadyInv, StatusTells
    <2>3. repos[n].spec.gc =>
             lake[repos[n].spec.lake].rules = policies[repos[n].spec.policy]
      BY <2>2 DEF Held, Follows, Quiet
    <2> QED
      BY <2>1, <2>2, <2>3 DEF Converged, Provisioned, Held, Quiet
  <1> QED
    BY <1>1, ReadyInvHolds, PTL
================================================================================
