--------------------------- MODULE RepositoryObjects ---------------------------
(***************************************************************************)
(* The objects behind a LakeFSRepository: the LakeFSRepositories,           *)
(* LakeFSGCPolicies and CronJobs of one namespace, the Secret with the      *)
(* lakeFS admin credentials, the repositories in lakeFS, the operator's     *)
(* cached view of what Kubernetes stores, kubectl and the garbage collector.*)
(*                                                                         *)
(* The operator reads Kubernetes objects from caches that lag, and lakeFS   *)
(* over HTTP.  Update and Status().Update succeed only while the stored     *)
(* object still equals the copy that was read.                              *)
(***************************************************************************)
EXTENDS Naturals, FiniteSets

CONSTANTS
    Names,          \* object names of LakeFSRepositories; gcCronJobName maps
                    \* them one to one to the names of CronJobs
    LakeNames,      \* names of repositories in lakeFS
    PolicyNames,    \* object names of LakeFSGCPolicies
    DefaultName,    \* DefaultGCPolicyName
    Contents,       \* specs of LakeFSGCPolicies
    DefaultContent, \* the spec defaultGCPolicy makes
    Manifests,      \* the repositories kubectl may apply
    Policies,       \* the policies kubectl may apply
    MaxInputs,      \* bound: commands (kubectl, lakeFS) in a behaviour
    MaxLosses,      \* bound: repositories removed in lakeFS itself in a behaviour
    None            \* an absent object or value

(* LakeFSRepositorySpec: lake is RepositoryName(), gc GCEnabled(), policy   *)
(* GCPolicyName(); local says that the credentials Secret is in the         *)
(* repository's own namespace.                                              *)
RepositorySpec == [lake: LakeNames, gc: BOOLEAN, policy: PolicyNames, local: BOOLEAN]

(* A LakeFSRepository: gen is the number of the command that last changed   *)
(* it, deleting stands for deletionTimestamp, ready for the reason of the   *)
(* Ready condition, current for an up-to-date status.observedGeneration.    *)
Reasons == {"Resolved", "Invalid", "Unavailable"}
Repository == [uid: Nat, gen: Nat, spec: RepositorySpec, deleting: BOOLEAN,
               finalizer: BOOLEAN, ready: Reasons \cup {None}, current: BOOLEAN]

(* A GC CronJob: the controlling object's uid, the lakeFS repository in its *)
(* arguments, the policy spec it was made from.                             *)
CronJob == [uid: Nat, lake: LakeNames, from: Contents]

(* A repository in lakeFS: whose reconcile made it (0: nobody's), its rules. *)
LakeRepository == [by: Nat, rules: Contents \cup {None}]

(* A reconcile in progress: its copy of the object, the policy it read, the *)
(* condition it is going to write.                                          *)
Reconcile == [name: Names, repo: Repository,
              pc: {"look", "create", "gc", "rules", "job", "status", "unfinalize"},
              policy: Contents \cup {None}, reason: Reasons \cup {None}]

Manifest == [name: Names, spec: RepositorySpec]
PolicyManifest == [name: PolicyNames, content: Contents]

ASSUME DefaultsAssumption == DefaultName \in PolicyNames /\ DefaultContent \in Contents
ASSUME InputsAssumption == Manifests \subseteq Manifest /\ Policies \subseteq PolicyManifest
ASSUME BoundsAssumption == MaxInputs \in Nat /\ MaxLosses \in Nat
ASSUME NoneAssumption ==
    /\ None \notin Repository \cup CronJob \cup LakeRepository \cup Reconcile
    /\ None \notin Contents \cup Reasons \cup Nat

VARIABLES
    repos,        \* the LakeFSRepositories
    policies,     \* the LakeFSGCPolicies
    jobs,         \* the CronJobs, by the name of their LakeFSRepository
    secret,       \* the credentials Secret exists and has its keys
    lake,         \* the repositories in lakeFS
    seenRepos,    \* the operator's cached view of repos ...
    seenPolicies, \* ... of policies ...
    seenJobs,     \* ... of jobs ...
    seenSecret,   \* ... and of the Secret
    queue,        \* the reconciler's work queue
    reconcile,    \* the reconcile in progress
    inputs,       \* commands so far
    losses        \* repositories removed in lakeFS itself so far

api == <<repos, policies, jobs, secret>>
views == <<seenRepos, seenPolicies, seenJobs, seenSecret>>
operator == <<queue, reconcile>>
world == <<inputs, losses>>
vars == <<repos, policies, jobs, secret, lake, seenRepos, seenPolicies, seenJobs,
          seenSecret, queue, reconcile, inputs, losses>>

ObjectsOK ==
    /\ repos \in [Names -> Repository \cup {None}]
    /\ policies \in [PolicyNames -> Contents \cup {None}]
    /\ jobs \in [Names -> CronJob \cup {None}]
    /\ secret \in BOOLEAN
    /\ lake \in [LakeNames -> LakeRepository \cup {None}]

ViewsOK ==
    /\ seenRepos \in [Names -> Repository \cup {None}]
    /\ seenPolicies \in [PolicyNames -> Contents \cup {None}]
    /\ seenJobs \in [Names -> CronJob \cup {None}]
    /\ seenSecret \in BOOLEAN

OperatorOK ==
    /\ queue \in SUBSET Names
    /\ reconcile \in Reconcile \cup {None}
    /\ reconcile # None =>
          /\ reconcile.pc = "status" => reconcile.reason # None
          /\ reconcile.pc \in {"rules", "job"} => reconcile.policy # None
          /\ reconcile.pc = "unfinalize" <=> reconcile.repo.deleting
          /\ reconcile.repo.finalizer

WorldOK == inputs \in Nat /\ losses \in Nat

(* Every variable holds what the code can put there; a reconcile that has   *)
(* got to a step brings what the step needs.                                *)
TypeOK == ObjectsOK /\ ViewsOK /\ OperatorOK /\ WorldOK

Init ==
    /\ repos = [n \in Names |-> None]
    /\ policies = [p \in PolicyNames |-> None]
    /\ jobs = [n \in Names |-> None]
    /\ secret \in BOOLEAN
    /\ lake = [l \in LakeNames |-> None]
    /\ seenRepos = repos
    /\ seenPolicies = policies
    /\ seenJobs = jobs
    /\ seenSecret = secret
    /\ queue = {}
    /\ reconcile = None
    /\ inputs = 0
    /\ losses = 0

-----------------------------------------------------------------------------
(* Watch events: the reconciler is triggered by LakeFSRepositories, by the  *)
(* CronJobs they control and by the policies they name, not by the Secret.  *)

(* The API server's check of an update's resourceVersion.                   *)
Overwrites(stored, copy) == stored # None /\ copy # None
SameVersion(stored, copy) == stored # None /\ stored = copy

(* repositoriesForPolicy: looked up in the cache.  Beside it a faulty form, *)
(* that nothing uses, without the event.                                    *)
NoRepositories(p) == {}
RepositoriesForPolicy(p) ==
    {n \in Names : /\ seenRepos[n] # None
                   /\ seenRepos[n].spec.gc
                   /\ seenRepos[n].spec.policy = p}

SyncRepo(n) ==
    /\ seenRepos[n] # repos[n]
    /\ seenRepos' = [seenRepos EXCEPT ![n] = repos[n]]
    /\ queue' = queue \cup {n}
    /\ UNCHANGED <<api, lake, seenPolicies, seenJobs, seenSecret, reconcile, world>>

SyncPolicy(p) ==
    /\ seenPolicies[p] # policies[p]
    /\ seenPolicies' = [seenPolicies EXCEPT ![p] = policies[p]]
    /\ queue' = queue \cup RepositoriesForPolicy(p)
    /\ UNCHANGED <<api, lake, seenRepos, seenJobs, seenSecret, reconcile, world>>

SyncJob(n) ==
    /\ seenJobs[n] # jobs[n]
    /\ seenJobs' = [seenJobs EXCEPT ![n] = jobs[n]]
    /\ queue' = queue \cup {n}
    /\ UNCHANGED <<api, lake, seenRepos, seenPolicies, seenSecret, reconcile, world>>

SyncSecret ==
    /\ seenSecret # secret
    /\ seenSecret' = secret
    /\ UNCHANGED <<api, lake, seenRepos, seenPolicies, seenJobs, operator, world>>

-----------------------------------------------------------------------------
(* kubectl, hands in lakeFS and the garbage collector.                      *)

Input == inputs < MaxInputs /\ inputs' = inputs + 1

(* metadata.uid: unique for ever, like the number of the command.           *)
NewRepository(spec) ==
    [uid |-> inputs + 1, gen |-> inputs + 1, spec |-> spec, deleting |-> FALSE,
     finalizer |-> FALSE, ready |-> None, current |-> FALSE]

Changed(repo, spec) ==
    [repo EXCEPT !.spec = spec, !.gen = inputs + 1, !.current = FALSE]

ApplyRepo(m) ==
    /\ Input
    /\ repos[m.name] # None => repos[m.name].spec # m.spec
    /\ repos' = [repos EXCEPT ![m.name] =
          IF @ = None THEN NewRepository(m.spec) ELSE Changed(@, m.spec)]
    /\ UNCHANGED <<policies, jobs, secret, lake, views, operator, losses>>

(* An object with a finalizer stays, marked (a new generation).             *)
RemoveRepo(n) ==
    /\ Input
    /\ repos[n] # None
    /\ ~repos[n].deleting
    /\ repos' = [repos EXCEPT ![n] =
          IF @.finalizer THEN [Changed(@, @.spec) EXCEPT !.deleting = TRUE] ELSE None]
    /\ UNCHANGED <<policies, jobs, secret, lake, views, operator, losses>>

ApplyPolicy(m) ==
    /\ Input
    /\ policies[m.name] # m.content
    /\ policies' = [policies EXCEPT ![m.name] = m.content]
    /\ UNCHANGED <<repos, jobs, secret, lake, views, operator, losses>>

(* A policy or CronJob is removed once the operator has seen it: events are *)
(* compressed here, so that one that came and went unseen would cause none. *)
RemovePolicy(p) ==
    /\ Input
    /\ policies[p] # None
    /\ seenPolicies[p] = policies[p]
    /\ policies' = [policies EXCEPT ![p] = None]
    /\ UNCHANGED <<repos, jobs, secret, lake, views, operator, losses>>

(* The credentials Secret appears, or vanishes or loses its keys.           *)
ToggleSecret ==
    /\ Input
    /\ secret' = ~secret
    /\ UNCHANGED <<repos, policies, jobs, lake, views, operator, losses>>

RemoveJob(n) ==
    /\ Input
    /\ jobs[n] # None
    /\ seenJobs[n] = jobs[n]
    /\ jobs' = [jobs EXCEPT ![n] = None]
    /\ UNCHANGED <<repos, policies, secret, lake, views, operator, losses>>

(* Somebody makes, or removes, a repository in lakeFS itself.               *)
MakeLake(l) ==
    /\ Input
    /\ lake[l] = None
    /\ lake' = [lake EXCEPT ![l] = [by |-> 0, rules |-> None]]
    /\ UNCHANGED <<api, views, operator, losses>>

LoseLake(l) ==
    /\ losses < MaxLosses
    /\ losses' = losses + 1
    /\ lake[l] # None
    /\ lake' = [lake EXCEPT ![l] = None]
    /\ UNCHANGED <<api, views, operator, inputs>>

(* Kubernetes collects a CronJob whose controlling object is gone.          *)
Exists(n, uid) == repos[n] # None /\ repos[n].uid = uid

CollectJob(n) ==
    /\ jobs[n] # None
    /\ ~Exists(n, jobs[n].uid)
    /\ jobs' = [jobs EXCEPT ![n] = None]
    /\ UNCHANGED <<repos, policies, secret, lake, views, operator, world>>
================================================================================
