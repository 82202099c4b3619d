----------------------------- MODULE Repositories ------------------------------
(***************************************************************************)
(* The life of a LakeFSRepository: the operator between Kubernetes, lakeFS  *)
(* and kubectl, and what holds of it.                                       *)
(***************************************************************************)
EXTENDS RepositoryOperator

Begin(n) ==
    \/ ReconcileGone(n)
    \/ AddFinalizer(n)
    \/ HasFinalizer(n)
    \/ DeleteInLake(n)

EnsureGC ==
    \/ DeleteCronJob
    \/ GetPolicy
    \/ NoPolicy
    \/ CreateDefaultPolicy
    \/ SetGCRules
    \/ EnsureCronJob
    \/ KeepCronJob

Proceed == LookUp \/ NoCredentials \/ CreateInLake \/ EnsureGC
Finish == UpdateStatus \/ RemoveFinalizer
Fail == CallFails \/ UpdateFails

OperatorStep ==
    \/ \E n \in Names : Begin(n) \/ Resync(n)
    \/ Proceed
    \/ Finish
    \/ Fail
    \/ OperatorRestart

WatchStep ==
    \/ \E n \in Names : SyncRepo(n) \/ SyncJob(n)
    \/ \E p \in PolicyNames : SyncPolicy(p)
    \/ SyncSecret

EnvironmentStep ==
    \/ \E m \in Manifests : ApplyRepo(m)
    \/ \E m \in Policies : ApplyPolicy(m)
    \/ \E n \in Names : RemoveRepo(n) \/ RemoveJob(n) \/ CollectJob(n)
    \/ \E p \in PolicyNames : RemovePolicy(p)
    \/ \E l \in LakeNames : MakeLake(l) \/ LoseLake(l)
    \/ ToggleSecret

Next == OperatorStep \/ WatchStep \/ EnvironmentStep

Spec == Init /\ [][Next]_vars

(* Fairness: watch events arrive, the queue is served, a reconcile goes on, *)
(* and a call that is tried again and again succeeds some day.  The resync  *)
(* is left out: events and retries are enough.                              *)
Fairness ==
    /\ \A n \in Names :
          WF_vars(SyncRepo(n)) /\ WF_vars(SyncJob(n)) /\ SF_vars(Begin(n))
    /\ \A p \in PolicyNames : WF_vars(SyncPolicy(p))
    /\ WF_vars(SyncSecret)
    /\ WF_vars(Proceed \/ Finish \/ Fail)
    /\ SF_vars(LookUp)
    /\ SF_vars(CreateInLake)
    /\ SF_vars(EnsureGC)
    /\ SF_vars(SetGCRules)
    /\ SF_vars(EnsureCronJob \/ KeepCronJob)
    /\ SF_vars(UpdateStatus /\ reconcile.reason = "Resolved")
    /\ SF_vars(RemoveFinalizer)

LiveSpec == Spec /\ Fairness

-----------------------------------------------------------------------------
(* Properties.                                                             *)

(* No object ever changes the lakeFS repository it names, and no two        *)
(* objects name the same one.                                               *)
StableNames ==
    \A m1, m2 \in Manifests : m1.name = m2.name => m1.spec.lake = m2.spec.lake
OwnLakes ==
    \A m1, m2 \in Manifests : m1.spec.lake = m2.spec.lake => m1.name = m2.name

Reports(n, reason) ==
    repos[n] # None /\ repos[n].current /\ repos[n].ready = reason

Guards(n, uid) ==
    repos[n] # None /\ repos[n].uid = uid /\ repos[n].finalizer

(* What a reconcile made in lakeFS has an object, with the finalizer that   *)
(* will remove it: through crashes between finalizer, creation and status,  *)
(* deletions at any moment, recreated and rival objects.                    *)
MadeIsGuarded ==
    StableNames =>
        \A l \in LakeNames : lake[l] # None /\ lake[l].by # 0 =>
            \E n \in Names : Guards(n, lake[l].by) /\ repos[n].spec.lake = l

(* Why MadeIsGuarded and DeletionIsComplete hold: the invariant their       *)
(* proofs carry through.                                                    *)

(* What is stored, cached or in use was applied under this name.            *)
From(n, repo) == \E m \in Manifests : m.name = n /\ m.spec = repo.spec
Applied ==
    /\ \A n \in Names :
          /\ repos[n] # None => From(n, repos[n])
          /\ seenRepos[n] # None => From(n, seenRepos[n])
    /\ reconcile # None => From(reconcile.name, reconcile.repo)

(* A cached object with its finalizer, not marked, is still stored: only    *)
(* the operator, which would have seen the mark, lets it go.                *)
SeenGuards ==
    \A n \in Names :
        LET seen == seenRepos[n] IN
        seen # None /\ seen.finalizer /\ ~seen.deleting => Guards(n, seen.uid)

(* Gone, marked, or an object made since that has no finalizer yet.         *)
Leaving(repo) == repo # None /\ repo.finalizer => repo.deleting
MarksLast ==
    /\ \A n \in Names :
          seenRepos[n] # None /\ seenRepos[n].deleting => Leaving(repos[n])
    /\ At("unfinalize") =>
          Leaving(repos[reconcile.name]) /\ Leaving(seenRepos[reconcile.name])

(* A reconcile that may create has an object with a finalizer, and one that *)
(* is about to remove the finalizer has removed the repository.             *)
ReconcileGuards ==
    reconcile # None /\ reconcile.pc # "unfinalize" =>
        Guards(reconcile.name, reconcile.repo.uid)
Emptied(l) == lake[l] = None \/ lake[l].by = 0
DeletedInLake == At("unfinalize") => Emptied(reconcile.repo.spec.lake)

IInv ==
    /\ TypeOK
    /\ Applied
    /\ SeenGuards
    /\ MarksLast
    /\ ReconcileGuards
    /\ DeletedInLake
    /\ MadeIsGuarded

(* An object that has the finalizer goes only after its repository went,    *)
(* even if its spec changes while it is being deleted.                      *)
GoesLast ==
    \A n \in Names :
        repos[n] # None /\ repos[n].finalizer /\ repos'[n] = None =>
            Emptied(repos[n].spec.lake)
DeletionIsComplete == [][GoesLast]_vars

(* An object that carries the finalizer, as it is stored or, once it is     *)
(* marked, as the operator still sees it, is a claim on the repository.     *)
ClaimOf(repo) == [uid |-> repo.uid, lake |-> repo.spec.lake, leaving |-> repo.deleting]
Holders == {n \in Names : repos[n] # None /\ repos[n].finalizer}
Leavers ==
    {n \in Names : seenRepos[n] # None /\ seenRepos[n].finalizer /\ seenRepos[n].deleting}
StoredClaims == {ClaimOf(repos[n]) : n \in Holders}
SeenClaims == {ClaimOf(seenRepos[n]) : n \in Leavers}
Maker == [l \in LakeNames |-> IF lake[l] = None THEN None ELSE lake[l].by]

(* While objects keep the repository they name, the finalizer does what it  *)
(* is for: reconciles that work from old copies, crash and start again,     *)
(* rivals and recreated objects included, never make a repository without   *)
(* a claim, never remove one but for a marked claim, and never let a claim  *)
(* go that still has one.                                                   *)
Kept == INSTANCE Custody WITH
    claims <- StoredClaims \cup SeenClaims, maker <- Maker, removals <- losses

ImplementsCustody == Kept!Spec

(* Why it does, beside IInv: no two objects were ever given one uid.        *)
UidsApart ==
    /\ \A n \in Names :
          /\ repos[n] # None => repos[n].uid \in 1 .. inputs
          /\ seenRepos[n] # None => seenRepos[n].uid \in 1 .. inputs
    /\ \A n, m \in Names : n # m =>
          /\ repos[n] # None /\ repos[m] # None => repos[n].uid # repos[m].uid
          /\ seenRepos[n] # None /\ repos[m] # None => seenRepos[n].uid # repos[m].uid

(* Only a deletion costs data: what a reconcile made in lakeFS goes, other  *)
(* than by hand, when the object it was made for is marked, or when the     *)
(* operator sees a mark on another object that names it.  A stale copy of a *)
(* deleted object never takes the repository of its successor.              *)
SparesLiving ==
    StableNames =>
        \A l \in LakeNames :
            lake[l] # None /\ lake[l].by # 0 /\ lake'[l] = None /\ losses' = losses =>
                \E n \in Names :
                    /\ Guards(n, lake[l].by)
                    /\ \/ repos[n].deleting
                       \/ \E m \in Leavers \ {n} : seenRepos[m].spec.lake = l
DeletionIsMeant == [][SparesLiving]_vars

(* The operator is to reconcile n, now or on the event of its CronJob.      *)
Awaited(n) ==
    \/ n \in queue
    \/ reconcile # None /\ reconcile.name = n
    \/ seenJobs[n] # jobs[n]

(* An object whose current status is Ready is not being deleted, and has a  *)
(* repository in lakeFS; with managed GC it has rules and its CronJob, or   *)
(* is about to be reconciled, without GC it has no CronJob.  At risk: the   *)
(* status is written from a copy, after several calls on cached objects.    *)
ReadyIsProvisioned ==
    OwnLakes /\ losses = 0 =>
        \A n \in Names : Reports(n, "Resolved") =>
            LET l == lake[repos[n].spec.lake] IN
            /\ ~repos[n].deleting
            /\ l # None
            /\ IF repos[n].spec.gc
               THEN /\ l.rules # None
                    /\ Awaited(n) \/ (jobs[n] # None /\ jobs[n].uid = repos[n].uid)
               ELSE jobs[n] = None

(* All that the reconciler is after: lakeFS and CronJob agree with the      *)
(* object and the policy as they are now.                                   *)
Converged(n) ==
    LET repo == repos[n]
        l == lake[repo.spec.lake]
        policy == policies[repo.spec.policy]
    IN  /\ Reports(n, "Resolved")
        /\ repo.finalizer
        /\ l # None
        /\ IF repo.spec.gc
           THEN /\ l.rules = policy
                /\ jobs[n] = [uid |-> repo.uid, lake |-> repo.spec.lake, from |-> policy]
           ELSE jobs[n] = None

(* No work and no event is left for object n.                               *)
Quiet(n) ==
    /\ n \notin queue
    /\ reconcile # None => reconcile.name # n
    /\ seenRepos[n] = repos[n]
    /\ seenPolicies = policies
    /\ seenJobs[n] = jobs[n]

(* When the reconciler rests, it is done: no change of the object, of its   *)
(* policy, or of its CronJob, seen in whatever order and in the middle of   *)
(* whatever reconcile, is forgotten.                                        *)
NoLostWakeUp ==
    OwnLakes /\ losses = 0 =>
        \A n \in Names : repos[n] # None /\ Quiet(n) => Converged(n)

(* Why ReadyIsProvisioned and NoLostWakeUp hold: the invariant their proofs *)
(* carry through.                                                           *)

(* One object in one generation, whatever its finalizer and status.         *)
Same(repo1, repo2) ==
    /\ repo1 # None /\ repo2 # None
    /\ repo1.uid = repo2.uid /\ repo1.gen = repo2.gen
    /\ repo1.spec = repo2.spec /\ repo1.deleting = repo2.deleting

Serving(n) == reconcile # None /\ reconcile.name = n
Busy(n) == n \in queue \/ Serving(n)

GensPast ==
    /\ \A n \in Names :
          /\ repos[n] # None => repos[n].gen <= inputs
          /\ seenRepos[n] # None => seenRepos[n].gen <= inputs
    /\ reconcile # None => reconcile.repo.gen <= inputs

(* A status is current only if the operator has seen that generation, and   *)
(* from then on it reconciles nothing older.                                *)
CurrentSeen ==
    \A n \in Names : repos[n] # None /\ repos[n].current =>
        /\ Same(seenRepos[n], repos[n])
        /\ Serving(n) => Same(reconcile.repo, repos[n])

(* While a reconcile works on a copy, what the operator sees is the same,   *)
(* or the object is queued once more.                                       *)
CopySeen ==
    reconcile # None => LET n == reconcile.name IN
        /\ Same(repos[n], reconcile.repo) => Same(seenRepos[n], repos[n])
        /\ n \in queue \/ Same(seenRepos[n], reconcile.repo)

(* What is not Resolved has work or an event left.                          *)
WorkLeft ==
    \A n \in Names :
        repos[n] # None => Reports(n, "Resolved") \/ Busy(n) \/ seenRepos[n] # repos[n]

(* What a Ready condition says whatever is pending: a CronJob the operator  *)
(* knows nothing of was made for this object.                               *)
Provisioned(n, repo) ==
    LET l == lake[repo.spec.lake] IN
    /\ l # None
    /\ IF repo.spec.gc
       THEN /\ l.rules # None
            /\ jobs[n] # None /\ seenJobs[n] = None => jobs[n].uid = repo.uid
       ELSE jobs[n] = None

(* And what it says of an object that is not going to be reconciled again:  *)
(* rules and CronJob are those of the policy as it was seen, or an event    *)
(* of the CronJob or of the default policy is under way.                    *)
Follows(content, p) ==
    content = seenPolicies[p] \/ (seenPolicies[p] = None /\ policies[p] # None)
Held(n, repo) ==
    LET rules == lake[repo.spec.lake].rules IN
    repo.spec.gc =>
        /\ Follows(rules, repo.spec.policy)
        /\ \/ jobs[n] = [uid |-> repo.uid, lake |-> repo.spec.lake, from |-> rules]
           \/ seenJobs[n] # jobs[n]

StatusTells ==
    \A n \in Names : Reports(n, "Resolved") =>
        /\ repos[n].finalizer
        /\ ~repos[n].deleting
        /\ Provisioned(n, repos[n])
        /\ Busy(n) \/ Held(n, repos[n])

(* A reconcile gets there step by step.                                     *)
ReconcileProvides ==
    reconcile # None => LET n == reconcile.name IN
        /\ reconcile.pc \in {"gc", "rules", "job"} => lake[Wanted.lake] # None
        /\ reconcile.pc \in {"rules", "job"} =>
              /\ Wanted.gc
              /\ n \in queue \/ Follows(reconcile.policy, Wanted.policy)
        /\ reconcile.pc = "job" => lake[Wanted.lake].rules = reconcile.policy
        /\ reconcile.pc = "status" /\ reconcile.reason = "Resolved" =>
              /\ Provisioned(n, reconcile.repo)
              /\ n \in queue \/ Held(n, reconcile.repo)

ReadyInv ==
    /\ GensPast
    /\ CurrentSeen
    /\ CopySeen
    /\ WorkLeft
    /\ OwnLakes /\ losses = 0 => StatusTells /\ ReconcileProvides

(* Nothing stands in the way of object n.                                   *)
Sound(n) ==
    /\ repos[n] # None
    /\ ~repos[n].deleting
    /\ secret
    /\ repos[n].spec.gc =>
          /\ repos[n].spec.local
          /\ policies[repos[n].spec.policy] # None \/ repos[n].spec.policy = DefaultName

(* An object that stays sound converges again and again, although calls may *)
(* fail and the operator crash without end, and although the reconciler     *)
(* does not watch the credentials Secret.                                   *)
ConvergedEventually ==
    \A n \in Names : <>[]Sound(n) => []<>Converged(n)

(* While lakeFS can be reached, no object is being deleted for ever.        *)
DeletedEventually ==
    <>[]secret => \A n \in Names : []<>(repos[n] = None \/ ~repos[n].deleting)

(* The message of the Ready condition: "lakeFS repository ... exist".       *)
ReadyRepositoryExists ==
    \A n \in Names : Reports(n, "Resolved") => lake[repos[n].spec.lake] # None
================================================================================
