-------------------------- MODULE RepositoryOperator ---------------------------
(***************************************************************************)
(* The operator's LakeFSRepositoryReconciler with the lakeFS client: one    *)
(* work queue, one worker.  A step ends at each write to Kubernetes and at  *)
(* each request to lakeFS.  A reconcile that returns an error is queued     *)
(* again: while it has changed nothing, that is a stuttering step.          *)
(*                                                                         *)
(* Beside some actions stand faulty variants (ConcludeBlank,                *)
(* BeginUnguarded, DeleteInLakeTried, DeleteInLakeUnmarked,                 *)
(* CallFailsUnnoticed, UpdateStatusOnce, UpdateFailsForGood) that nothing   *)
(* uses: they show that the properties of Repositories depend on the action.*)
(***************************************************************************)
EXTENDS RepositoryObjects

Start(n) ==
    /\ n \in queue
    /\ reconcile = None
    /\ queue' = queue \ {n}

Begun(n, repo, pc) ==
    [name |-> n, repo |-> repo, pc |-> pc, policy |-> None, reason |-> None]

At(pc) == reconcile # None /\ reconcile.pc = pc
Wanted == reconcile.repo.spec
GoTo(pc) == reconcile' = [reconcile EXCEPT !.pc = pc]
ConcludeBlank(reason) == GoTo("status")
Conclude(reason) ==
    reconcile' = [reconcile EXCEPT !.pc = "status", !.reason = reason]

-----------------------------------------------------------------------------
(* Reconcile: not found, or nothing left to do; the finalizer; the copy     *)
(* that is carried on is the one the API server returned.                   *)

ReconcileGone(n) ==
    /\ Start(n)
    /\ seenRepos[n] = None
    /\ UNCHANGED <<api, lake, views, reconcile, world>>

Living(n) == seenRepos[n] # None /\ ~seenRepos[n].deleting

AddFinalizer(n) ==
    /\ Start(n)
    /\ Living(n)
    /\ ~seenRepos[n].finalizer
    /\ SameVersion(repos[n], seenRepos[n])
    /\ repos' = [repos EXCEPT ![n].finalizer = TRUE]
    /\ reconcile' = Begun(n, repos'[n], "look")
    /\ UNCHANGED <<policies, jobs, secret, lake, views, world>>

BeginUnguarded(n) ==
    /\ Start(n)
    /\ Living(n)
    /\ reconcile' = Begun(n, seenRepos[n], "look")
    /\ UNCHANGED <<api, lake, views, world>>

HasFinalizer(n) ==
    /\ Start(n)
    /\ Living(n)
    /\ seenRepos[n].finalizer
    /\ reconcile' = Begun(n, seenRepos[n], "look")
    /\ UNCHANGED <<api, lake, views, world>>

DeleteInLakeTried(n) ==
    /\ Start(n)
    /\ seenRepos[n] # None
    /\ seenRepos[n].deleting
    /\ reconcile' = Begun(n, seenRepos[n], "unfinalize")
    /\ UNCHANGED <<api, lake, views, world>>

DeleteInLakeUnmarked(n) ==
    /\ Start(n)
    /\ seenRepos[n] # None
    /\ seenRepos[n].finalizer
    /\ lake' = [lake EXCEPT ![seenRepos[n].spec.lake] = None]
    /\ reconcile' = Begun(n, seenRepos[n], "unfinalize")
    /\ UNCHANGED <<api, views, world>>

(* deleteRepository: DELETE with force, 404 is as good as 204.              *)
DeleteInLake(n) ==
    /\ Start(n)
    /\ seenRepos[n] # None
    /\ seenRepos[n].deleting
    /\ seenRepos[n].finalizer
    /\ seenSecret
    /\ lake' = [lake EXCEPT ![seenRepos[n].spec.lake] = None]
    /\ reconcile' = Begun(n, seenRepos[n], "unfinalize")
    /\ UNCHANGED <<api, views, world>>

(* A deleted object goes when its last finalizer does.                      *)
RemoveFinalizer ==
    LET n == reconcile.name IN
    /\ At("unfinalize")
    /\ SameVersion(repos[n], reconcile.repo)
    /\ repos' = [repos EXCEPT ![n] = None]
    /\ reconcile' = None
    /\ UNCHANGED <<policies, jobs, secret, lake, views, queue, world>>

-----------------------------------------------------------------------------
(* ensureRepository: the lakeFS repository.                                 *)

(* EnsureRepository's GET, if there are credentials to send it with.        *)
LookUp ==
    /\ At("look")
    /\ seenSecret
    /\ GoTo(IF lake[Wanted.lake] = None THEN "create" ELSE "gc")
    /\ UNCHANGED <<api, lake, views, queue, world>>

NoCredentials ==
    /\ At("look")
    /\ ~seenSecret
    /\ Conclude("Unavailable")
    /\ UNCHANGED <<api, lake, views, queue, world>>

(* POST: a conflict with a repository made meanwhile is as good as 201.     *)
CreateInLake ==
    /\ At("create")
    /\ lake' = [lake EXCEPT ![Wanted.lake] =
          IF @ = None THEN [by |-> reconcile.repo.uid, rules |-> None] ELSE @]
    /\ GoTo("gc")
    /\ UNCHANGED <<api, views, queue, world>>

-----------------------------------------------------------------------------
(* ensureRepository: garbage collection.                                    *)

DeleteCronJob ==
    /\ At("gc")
    /\ ~Wanted.gc
    /\ jobs' = [jobs EXCEPT ![reconcile.name] = None]
    /\ Conclude("Resolved")
    /\ UNCHANGED <<repos, policies, secret, lake, views, queue, world>>

GetPolicy ==
    /\ At("gc")
    /\ Wanted.gc
    /\ seenPolicies[Wanted.policy] # None
    /\ reconcile' = [reconcile EXCEPT !.pc = "rules", !.policy = seenPolicies[Wanted.policy]]
    /\ UNCHANGED <<api, lake, views, queue, world>>

NoPolicy ==
    /\ At("gc")
    /\ Wanted.gc
    /\ seenPolicies[Wanted.policy] = None
    /\ Wanted.policy # DefaultName
    /\ Conclude("Invalid")
    /\ UNCHANGED <<api, lake, views, queue, world>>

CreateDefaultPolicy ==
    /\ At("gc")
    /\ Wanted.gc
    /\ seenPolicies[Wanted.policy] = None
    /\ Wanted.policy = DefaultName
    /\ policies[DefaultName] = None
    /\ policies' = [policies EXCEPT ![DefaultName] = DefaultContent]
    /\ reconcile' = [reconcile EXCEPT !.pc = "rules", !.policy = DefaultContent]
    /\ UNCHANGED <<repos, jobs, secret, lake, views, queue, world>>

(* PUT gc_rules, refused for a repository that does not exist.              *)
SetGCRules ==
    /\ At("rules")
    /\ lake[Wanted.lake] # None
    /\ lake' = [lake EXCEPT ![Wanted.lake].rules = reconcile.policy]
    /\ GoTo("job")
    /\ UNCHANGED <<api, views, queue, world>>

WantedJob == [uid |-> reconcile.repo.uid, lake |-> Wanted.lake, from |-> reconcile.policy]

(* CreateOrUpdate: create, update or leave the CronJob.                     *)
EnsureCronJob ==
    LET n == reconcile.name IN
    /\ At("job")
    /\ Wanted.local
    /\ \/ seenJobs[n] = None /\ jobs[n] = None
       \/ SameVersion(jobs[n], seenJobs[n])
    /\ jobs' = [jobs EXCEPT ![n] = WantedJob]
    /\ Conclude("Resolved")
    /\ UNCHANGED <<repos, policies, secret, lake, views, queue, world>>

KeepCronJob ==
    /\ At("job")
    /\ Wanted.local
    /\ seenJobs[reconcile.name] = WantedJob
    /\ Conclude("Resolved")
    /\ UNCHANGED <<api, lake, views, queue, world>>

(* Any call may fail; so does a POST, PUT or write that meets what it does  *)
(* not expect, and a CronJob whose Secret is in another namespace.          *)
CallFailsUnnoticed ==
    /\ \E pc \in {"look", "create", "gc", "rules", "job"} : At(pc)
    /\ Conclude("Resolved")
    /\ UNCHANGED <<api, lake, views, queue, world>>

CallFails ==
    /\ \E pc \in {"look", "create", "gc", "rules", "job"} : At(pc)
    /\ Conclude("Unavailable")
    /\ UNCHANGED <<api, lake, views, queue, world>>

-----------------------------------------------------------------------------
(* The status.                                                              *)

UpdateStatusOnce ==
    LET n == reconcile.name IN
    /\ At("status")
    /\ SameVersion(repos[n], reconcile.repo)
    /\ repos' = [repos EXCEPT ![n].ready = reconcile.reason, ![n].current = TRUE]
    /\ reconcile' = None
    /\ UNCHANGED <<policies, jobs, secret, lake, views, queue, world>>

UpdateStatus ==
    LET n == reconcile.name IN
    /\ At("status")
    /\ SameVersion(repos[n], reconcile.repo)
    /\ repos' = [repos EXCEPT ![n].ready = reconcile.reason, ![n].current = TRUE]
    /\ queue' = IF reconcile.reason = "Resolved" THEN queue ELSE queue \cup {n}
    /\ reconcile' = None
    /\ UNCHANGED <<policies, jobs, secret, lake, views, world>>

(* The last write of a reconcile fails: start again.                        *)
UpdateFailsForGood ==
    /\ At("status") \/ At("unfinalize")
    /\ reconcile' = None
    /\ UNCHANGED <<api, lake, views, queue, world>>

UpdateFails ==
    /\ At("status") \/ At("unfinalize")
    /\ queue' = queue \cup {reconcile.name}
    /\ reconcile' = None
    /\ UNCHANGED <<api, lake, views, world>>

(* The operator starts anew: it reads everything and queues every object.   *)
OperatorRestart ==
    /\ seenRepos' = repos
    /\ seenPolicies' = policies
    /\ seenJobs' = jobs
    /\ seenSecret' = secret
    /\ queue' = {n \in Names : repos[n] # None}
    /\ reconcile' = None
    /\ UNCHANGED <<api, lake, world>>

(* The periodic resync of the informers.                                    *)
Resync(n) ==
    /\ seenRepos[n] # None
    /\ queue' = queue \cup {n}
    /\ UNCHANGED <<api, lake, views, reconcile, world>>
================================================================================
