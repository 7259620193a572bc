------------------------------- MODULE VMSync -------------------------------
(***************************************************************************)
(* One VirtGitSync at work: the operator's reconcile pass mirrors the      *)
(* VirtualMachines of a cluster to a git branch, and asks ArgoCD to apply  *)
(* that branch back to the cluster.                                        *)
(*                                                                         *)
(* Actors that interleave: the users of the cluster, people who push to    *)
(* the branch, the API server with its watch stream, the informer and the  *)
(* VirtualMachine event handler, the single reconcile worker, ArgoCD, and  *)
(* restarts of the operator's container.                                   *)
(*                                                                         *)
(* A VM is named by its key (namespace/name); its file in the repository   *)
(* is named by the same key.  A manifest is abstracted to a body (the user *)
(* part of the VM) and whether it carries ArgoCD's tracking-id annotation. *)
(***************************************************************************)
EXTENDS Naturals, Sequences

CONSTANTS
    VMs,            \* keys of the cluster's VMs
    Bodies,         \* the values a VM's user-visible content, labels included, can take
    Selected,       \* the bodies whose labels spec.vmSelector matches
    None,           \* no such VM, no such file, no VM being processed
    Torn,           \* the content a failed os.WriteFile leaves behind
    ArgoEnabled,    \* spec.argocd.enabled
    FaultKinds,     \* file-system faults that may happen: "torn", "lost", "kept"
    UserTracking,   \* tracked flags of the manifests users create VMs from
    MaxUserOps,     \* bound on the users' API calls
    MaxGitOps,      \* bound on commits pushed by others
    MaxMixedOps,    \* bound on the users' API calls where others push
    MaxRestarts,    \* bound on restarts of the operator
    MaxBacklog      \* bound on undelivered changes while others than the operator write

Manifest == [body : Bodies, tracked : BOOLEAN]

\* fin: the operator's finalizer is on the object; term: deletionTimestamp is set.
Object == [body : Bodies, tracked : BOOLEAN, fin : BOOLEAN, term : BOOLEAN]

ASSUME SentinelAssumption ==
    /\ None \notin VMs /\ None \notin Manifest /\ None \notin Object
    /\ Torn \notin Manifest /\ Torn # None

ASSUME ParameterAssumption ==
    /\ Selected \subseteq Bodies
    /\ ArgoEnabled \in BOOLEAN
    /\ FaultKinds \subseteq {"torn", "lost", "kept"}
    /\ UserTracking \subseteq BOOLEAN
    /\ MaxUserOps \in Nat /\ MaxGitOps \in Nat /\ MaxRestarts \in Nat
    /\ MaxMixedOps \in 0..MaxUserOps /\ MaxBacklog \in Nat

VARIABLES
    \* The API server.
    live,       \* the stored objects
    watch,      \* changes not delivered to the informer yet, oldest first
    \* The operator's informer and event handler.
    cache,      \* the informer's indexer, which every List reads
    events,     \* VM events queued for the handler, oldest first
    recent,     \* the keys of recentDeletions
    \* The reconcile worker.
    pc,         \* the next step of the pass
    listed,     \* vmList of the pass
    todo,       \* listed VMs the loop has not finished
    cur,        \* the VM whose finalizer update is done and whose file is next
    stale,      \* listed VMs whose resourceVersion is no longer the server's
    expected,   \* expectedFiles
    changed,    \* changedFiles
    missed,     \* history: files a failed write or removal of the pass left as they were
    work,       \* the worktree of the local clone
    head,       \* the commit the local branch points at
    \* The remote branch.
    remote,     \* its content
    moved,      \* somebody else pushed since the pass fetched
    \* ArgoCD's Application.
    op,         \* its operation field: none, requested, or running
    applying,   \* manifests the running sync still has to apply
    \* Bounds.
    userOps, gitOps, restarts,
    \* History (as missed is): read by properties, never by a guard.
    wanted,     \* VMs a user created and did not delete since
    copied,     \* those that the user created from a manifest with ArgoCD's tracking-id
    direct      \* files pushed by others that no sync has taken yet

apiVars  == <<live, watch>>
infVars  == <<cache, events, recent>>
loopVars == <<pc, listed, todo, cur, expected, changed, missed>>
treeVars == <<work, head>>
gitVars  == <<remote, moved>>
argoVars == <<op, applying>>
bounds   == <<userOps, gitOps, restarts>>
history  == <<wanted, copied, direct>>

clusterVars == <<apiVars, infVars>>
countVars   == <<bounds, history>>
outsideVars == <<gitVars, argoVars, countVars>>
passVars == <<loopVars, treeVars, stale>>
vars     == <<clusterVars, passVars, outsideVars>>

Absent == [v \in VMs |-> None]

-----------------------------------------------------------------------------
(* What a VM looks like in git: cleanVMForGitOps drops status, finalizers,   *)
(* timestamps and system annotations.  The tracking-id annotation is not in  *)
(* its list of system prefixes, so it is kept.                               *)
CleanKeepsRuntimeFields(o) == o     \* mutant

Clean(o) == [body |-> o.body, tracked |-> o.tracked]

\* The API server stores obj under v and tells its watchers.
Store(v, obj) ==
    /\ live' = [live EXCEPT ![v] = obj]
    /\ watch' = Append(watch, [vm |-> v, obj |-> obj])

\* The same by somebody else than the worker: what it listed of v is stale now.
StoreByOther(v, obj) ==
    /\ Len(watch) + Len(events) < MaxBacklog
    /\ Store(v, obj)
    /\ stale' = stale \cup ({v} \cap todo)

-----------------------------------------------------------------------------
(* Users, and the API server's garbage collection.                           *)

UsersMayAct == /\ userOps < MaxUserOps
               /\ gitOps > 0 => userOps < MaxMixedOps

UserCreate(v) ==
    /\ UsersMayAct
    /\ live[v] = None
    /\ \E b \in Bodies, t \in UserTracking :
          /\ StoreByOther(v, [body |-> b, tracked |-> t, fin |-> FALSE, term |-> FALSE])
          /\ copied' = IF t THEN copied \cup {v} ELSE copied \ {v}
    /\ userOps' = userOps + 1
    /\ wanted' = wanted \cup {v}
    /\ UNCHANGED <<infVars, loopVars, treeVars, gitVars, argoVars, gitOps, restarts, direct>>

UserEdit(v) ==
    /\ UsersMayAct
    /\ live[v] # None
    /\ ~live[v].term
    /\ \E b \in Bodies \ {live[v].body} : StoreByOther(v, [live[v] EXCEPT !.body = b])
    /\ userOps' = userOps + 1
    /\ UNCHANGED <<infVars, loopVars, treeVars, gitVars, argoVars, gitOps, restarts, history>>

\* KubeVirt's own finalizer keeps a deleted VM until Collect, whether or not
\* the operator has put its finalizer on it.
UserDelete(v) ==
    /\ UsersMayAct
    /\ live[v] # None
    /\ ~live[v].term
    /\ StoreByOther(v, [live[v] EXCEPT !.term = TRUE])
    /\ userOps' = userOps + 1
    /\ wanted' = wanted \ {v}
    /\ copied' = copied \ {v}
    /\ UNCHANGED <<infVars, loopVars, treeVars, gitVars, argoVars, gitOps, restarts, direct>>

Collect(v) ==
    /\ live[v] # None
    /\ live[v].term
    /\ ~live[v].fin
    /\ StoreByOther(v, None)
    /\ UNCHANGED <<infVars, loopVars, treeVars, outsideVars>>

\* Somebody pushes a commit that adds, changes or deletes the file of v.
GitEdit(v) ==
    /\ gitOps < MaxGitOps /\ userOps <= MaxMixedOps
    /\ \E f \in {None} \cup [body : Bodies, tracked : {remote[v] # None /\ remote[v].tracked}] :
          /\ f # remote[v]
          /\ remote' = [remote EXCEPT ![v] = f]
    /\ moved' = (pc # "idle")
    /\ gitOps' = gitOps + 1
    /\ direct' = direct \cup {v}
    /\ UNCHANGED <<clusterVars, passVars, argoVars, userOps, restarts, wanted, copied>>

-----------------------------------------------------------------------------
(* The informer and the VirtualMachine event handler.  The indexer is        *)
(* updated first; the handler runs later, on a goroutine of its own.         *)

EventType(old, new) == IF new = None THEN "delete"
                       ELSE IF old = None THEN "create" ELSE "update"

\* Update events reach a handler that only enqueues the VirtGitSync, which a
\* pass may serve at any time here: they are not queued.
Deliver ==
    /\ watch # <<>>
    /\ LET new  == Head(watch)
           type == EventType(cache[new.vm], new.obj)
           fired == IF type = "update" THEN <<>>
                    ELSE <<[type |-> type, vm |-> new.vm,
                            tracked |-> type = "create" /\ new.obj.tracked]>>
       IN /\ cache' = [cache EXCEPT ![new.vm] = new.obj]
          /\ events' = events \o fired
    /\ watch' = Tail(watch)
    /\ UNCHANGED <<live, recent, passVars, outsideVars>>

ClearsOnNoCreation(e) == FALSE      \* mutant

\* A creation without ArgoCD's annotation is taken for a user's own.
ClearsDeletion(e) == ~e.tracked

HandleCreate ==
    /\ events # <<>>
    /\ Head(events).type = "create"
    /\ recent' = IF ClearsDeletion(Head(events)) THEN recent \ {Head(events).vm} ELSE recent
    /\ events' = Tail(events)
    /\ UNCHANGED <<apiVars, cache, passVars, outsideVars>>

HandleDelete ==
    /\ events # <<>>
    /\ Head(events).type = "delete"
    /\ recent' = recent \cup {Head(events).vm}
    /\ events' = Tail(events)
    /\ UNCHANGED <<apiVars, cache, passVars, outsideVars>>

-----------------------------------------------------------------------------
(* The reconcile pass.  Every exit of Reconcile requeues the VirtGitSync     *)
(* (30 s after an error, 5 min after success, at once for VM events), so the *)
(* idle worker may always begin another pass.                                *)

\* Leave Reconcile.  The clone stays on disk, but the next pass resets it to
\* the remote branch before it reads anything, so it is forgotten here.
EndPass ==
    /\ pc' = "idle"
    /\ listed' = Absent
    /\ todo' = {} /\ cur' = None /\ stale' = {}
    /\ expected' = {} /\ changed' = {} /\ missed' = {}
    /\ work' = Absent /\ head' = Absent
    /\ moved' = FALSE

\* Clone, or Open and Pull: a hard reset to the remote branch.  A failure
\* leaves everything as it was.
ResetTo(tree) == tree

Fetch ==
    /\ pc = "idle"
    /\ pc' = "list"
    /\ work' = ResetTo(remote)
    /\ head' = ResetTo(remote)
    /\ moved' = FALSE
    /\ UNCHANGED <<clusterVars, listed, todo, cur, stale, expected, changed, missed, remote, argoVars,
                   countVars>>

\* The VMs of the informer's cache whose labels the selector matches.
Matching == [v \in VMs |-> IF cache[v] # None /\ cache[v].body \in Selected
                            THEN cache[v] ELSE None]

\* The list is served from the informer's cache.  A change that is still on
\* its way to the cache makes the listed resourceVersion stale.  A VM whose
\* labels left the selector is not listed, finalizer or not.
ListVMs ==
    /\ pc = "list"
    /\ pc' = "vms"
    /\ listed' = Matching
    /\ todo' = {v \in VMs : Matching[v] # None}
    /\ stale' = {v \in VMs : Matching[v] # None
                              /\ \E i \in 1..Len(watch) : watch[i].vm = v}
    /\ UNCHANGED <<clusterVars, cur, expected, changed, missed, treeVars, outsideVars>>

ListFails ==
    /\ pc = "list"
    /\ EndPass
    /\ UNCHANGED <<clusterVars, remote, argoVars, countVars>>

\* The loop takes up a VM that is not done, and stays with it until it is.
Takes(v) == /\ pc = "vms"
            /\ v \in todo
            /\ cur = None

UnchangedAssumed(v) == TRUE         \* mutant

\* r.Update sends the listed object back, with its resourceVersion: the API
\* server accepts it only if nobody changed the VM since.
UnchangedSinceListed(v) == v \notin stale

AddFinalizer(v) ==
    /\ Takes(v)
    /\ ~listed[v].term
    /\ ~listed[v].fin
    /\ cur' = v
    /\ \/ /\ UnchangedSinceListed(v)
          /\ Store(v, [listed[v] EXCEPT !.fin = TRUE])
       \/ UNCHANGED apiVars         \* conflict or API error: the loop goes on
    /\ UNCHANGED <<infVars, pc, listed, todo, stale, expected, changed, missed, treeVars, outsideVars>>

SavesNext(v) == \/ Takes(v) /\ ~listed[v].term /\ listed[v].fin
                \/ pc = "vms" /\ cur = v

Done(v) == /\ todo' = todo \ {v}
           /\ cur' = None

\* The VM was deleted a moment ago: leave it out of git.
SkipVM(v) ==
    /\ SavesNext(v)
    /\ v \in recent
    /\ Done(v)
    /\ UNCHANGED <<clusterVars, pc, listed, stale, expected, changed, missed, treeVars, outsideVars>>

SaveVM(v) ==
    /\ SavesNext(v)
    /\ v \notin recent
    /\ Done(v)
    /\ expected' = expected \cup {v}
    /\ work' = [work EXCEPT ![v] = Clean(listed[v])]
    /\ changed' = changed \cup {v}
    /\ UNCHANGED <<clusterVars, pc, listed, stale, missed, head, outsideVars>>

ChangedBeforeWrite(v) == changed \cup {v}   \* mutant

\* A write that failed does not count as a change.
ChangedAfterFailedWrite(v) == changed

\* WriteFile fails before it touches the file, or after it truncated it.
SaveFails(v) ==
    /\ SavesNext(v)
    /\ v \notin recent
    /\ Done(v)
    /\ expected' = expected \cup {v}
    /\ \/ "lost" \in FaultKinds /\ work' = work /\ missed' = missed \cup {v}
       \/ "torn" \in FaultKinds /\ work' = [work EXCEPT ![v] = Torn] /\ missed' = missed
    /\ changed' = ChangedAfterFailedWrite(v)
    /\ UNCHANGED <<clusterVars, pc, listed, stale, head, outsideVars>>

\* Remove the files in gone from the worktree, except those in kept, whose
\* removal fails.  Removing a file that is not there counts as a change too.
RemoveFiles(gone, kept) ==
    /\ kept \subseteq {v \in gone : work[v] # None}
    /\ kept # {} => "kept" \in FaultKinds
    /\ work' = [v \in VMs |-> IF v \in gone \ kept THEN None ELSE work[v]]
    /\ changed' = changed \cup (gone \ kept)
    /\ missed' = (missed \ gone) \cup kept

ReleaseForgotten(v) == listed[v]    \* mutant

Released(v) == [listed[v] EXCEPT !.fin = FALSE]

\* The listed VM is being deleted: remove its file, then release the object.
DropVM(v) ==
    /\ Takes(v)
    /\ listed[v].term
    /\ listed[v].fin
    /\ UnchangedSinceListed(v)
    /\ \E kept \in SUBSET {v} : RemoveFiles({v}, kept)
    /\ Store(v, Released(v))
    /\ Done(v)
    /\ UNCHANGED <<infVars, pc, listed, stale, expected, head, outsideVars>>

\* The same when the update that removes the finalizer fails.
DropFails(v) ==
    /\ Takes(v)
    /\ listed[v].term
    /\ listed[v].fin
    /\ \E kept \in SUBSET {v} : RemoveFiles({v}, kept)
    /\ Done(v)
    /\ UNCHANGED <<clusterVars, pc, listed, stale, expected, head, outsideVars>>

\* A terminating VM without the finalizer is passed over.
PassOver(v) ==
    /\ Takes(v)
    /\ listed[v].term
    /\ ~listed[v].fin
    /\ Done(v)
    /\ UNCHANGED <<clusterVars, pc, listed, stale, expected, changed, missed, treeVars, outsideVars>>

OrphansIgnored == {}                \* mutant

\* Files that no VM of the pass accounts for: the VM went without its
\* finalizer, or was deleted a moment ago, or others added the file.
Orphans == {v \in VMs : work[v] # None /\ v \notin expected}

DeleteOrphans(kept) ==
    /\ pc = "vms"
    /\ todo = {}
    /\ RemoveFiles(Orphans, kept)
    /\ pc' = "push"
    /\ UNCHANGED <<clusterVars, listed, todo, cur, stale, expected, head, outsideVars>>

-----------------------------------------------------------------------------
(* CommitAndPush.                                                            *)

\* worktree.Add fails on a path that is neither on disk nor in the index.
Stageable == \A v \in changed : work[v] # None \/ head[v] # None

StagedButRemovals ==                \* mutant
    [v \in VMs |-> IF v \in changed /\ work[v] # None THEN work[v] ELSE head[v]]

\* The index after Add: the changed files, and the last commit for the others.
Staged == [v \in VMs |-> IF v \in changed THEN work[v] ELSE head[v]]

TreeTakenForClean == TRUE           \* mutant

\* Status().IsClean(): worktree, index and last commit agree.
TreeClean == work = head

\* After CommitAndPush the pass either turns to ArgoCD or is over.
AfterPush == IF ArgoEnabled
             THEN pc' = "trigger" /\ UNCHANGED <<listed, todo, cur, stale, expected, changed, missed>>
             ELSE EndPass

NothingToPush ==
    /\ pc = "push"
    /\ changed = {} \/ (Stageable /\ work = head)
    /\ AfterPush
    /\ ArgoEnabled => UNCHANGED <<treeVars, moved>>
    /\ UNCHANGED <<clusterVars, remote, argoVars, countVars>>

\* Add fails, or Commit does because the index equals the last commit while
\* the worktree does not (a write failed and nothing else changed).
CommitFails ==
    /\ pc = "push"
    /\ changed # {}
    /\ ~Stageable \/ (Staged = head /\ work # head)
    /\ EndPass
    /\ UNCHANGED <<clusterVars, remote, argoVars, countVars>>

Commits == /\ pc = "push"
           /\ Stageable
           /\ Staged # head

ForceAccepted == TRUE               \* mutant

\* The remote branch accepts a commit only on top of the one the pass fetched.
Accepted == ~moved

Publish ==
    /\ Commits
    /\ Accepted
    /\ remote' = Staged

Push ==
    /\ Publish
    /\ AfterPush
    /\ ArgoEnabled => head' = Staged /\ work' = work /\ moved' = FALSE
    /\ UNCHANGED <<clusterVars, argoVars, countVars>>

PushFails ==
    /\ Commits
    /\ EndPass
    /\ UNCHANGED <<clusterVars, remote, argoVars, countVars>>

\* The remote took the commit and the answer is lost: the pass sees an error.
PushAnswerLost ==
    /\ Publish
    /\ EndPass
    /\ UNCHANGED <<clusterVars, argoVars, countVars>>

-----------------------------------------------------------------------------
(* ArgoCD.  Automated sync is disabled; a sync runs only when requested.     *)

\* TriggerSync sets the operation field.  ArgoCD clears the field when the
\* running sync ends, so a request made meanwhile is lost.
TriggerSync ==
    /\ pc = "trigger"
    /\ TreeClean
    /\ op' = IF op = "none" THEN "requested" ELSE op
    /\ EndPass
    /\ UNCHANGED <<clusterVars, remote, applying, countVars>>

\* The tree is not clean, or reconciling or updating the Application fails.
NoSync ==
    /\ pc = "trigger"
    /\ EndPass
    /\ UNCHANGED <<clusterVars, remote, argoVars, countVars>>

ArgoStart ==
    /\ op = "requested"
    /\ op' = "running"
    /\ applying' = remote
    /\ direct' = {}
    /\ UNCHANGED <<clusterVars, passVars, gitVars, bounds, wanted, copied>>

\* Apply one manifest: create the VM, or make the live one carry the manifest.
\* Either way the object carries the tracking-id afterwards.
Applied(v) ==
    IF live[v] = None
    THEN [body |-> applying[v].body, tracked |-> TRUE, fin |-> FALSE, term |-> FALSE]
    ELSE [live[v] EXCEPT !.body = applying[v].body, !.tracked = TRUE]

ArgoApply(v) ==
    /\ op = "running"
    /\ applying[v] # None
    /\ applying' = [applying EXCEPT ![v] = None]
    /\ IF Applied(v) = live[v] THEN UNCHANGED <<apiVars, stale>> ELSE StoreByOther(v, Applied(v))
    /\ UNCHANGED <<infVars, loopVars, treeVars, gitVars, op, countVars>>

\* Prune is off: VMs without a manifest are left alone.
ArgoFinish ==
    /\ op = "running"
    /\ applying = Absent
    /\ op' = "none"
    /\ UNCHANGED <<clusterVars, passVars, gitVars, applying, countVars>>

-----------------------------------------------------------------------------
(* The container restarts: recentDeletions, the cache and the clone are      *)
(* gone, and the informer lists the VMs afresh.  The Create events it then   *)
(* replays find an empty recentDeletions and change nothing.                 *)
Restart ==
    /\ restarts < MaxRestarts
    /\ restarts' = restarts + 1
    /\ cache' = live
    /\ watch' = <<>>
    /\ events' = <<>>
    /\ recent' = {}
    /\ EndPass
    /\ UNCHANGED <<live, remote, argoVars, userOps, gitOps, history>>

-----------------------------------------------------------------------------
\* VMs of which some have the finalizer of a VirtGitSync that is gone (deleting
\* one releases no VM), an empty branch, and no Application.
Init ==
    /\ live \in [VMs -> {None} \cup [body : Bodies, tracked : {FALSE},
                                     fin : BOOLEAN, term : {FALSE}]]
    /\ watch = <<>>
    /\ cache = live /\ events = <<>> /\ recent = {}
    /\ pc = "idle" /\ listed = Absent /\ todo = {} /\ cur = None /\ stale = {}
    /\ expected = {} /\ changed = {} /\ missed = {} /\ work = Absent /\ head = Absent
    /\ remote = Absent /\ moved = FALSE
    /\ op = "none" /\ applying = Absent
    /\ userOps = 0 /\ gitOps = 0 /\ restarts = 0
    /\ wanted = {v \in VMs : live[v] # None}
    /\ copied = {} /\ direct = {}

Environment(v) == \/ UserCreate(v) \/ UserEdit(v) \/ UserDelete(v)
                  \/ Collect(v) \/ GitEdit(v)

Handler == Deliver \/ HandleCreate \/ HandleDelete

LoopStep(v) == \/ AddFinalizer(v) \/ SkipVM(v) \/ SaveVM(v) \/ SaveFails(v)
               \/ DropVM(v) \/ DropFails(v) \/ PassOver(v)

PushStep == NothingToPush \/ CommitFails \/ Push \/ PushFails \/ PushAnswerLost

Worker == \/ Fetch \/ ListVMs \/ ListFails
          \/ \E v \in VMs : LoopStep(v)
          \/ \E kept \in SUBSET VMs : DeleteOrphans(kept)
          \/ PushStep \/ TriggerSync \/ NoSync

ArgoCD == ArgoStart \/ ArgoFinish \/ \E v \in VMs : ArgoApply(v)

Next == \/ \E v \in VMs : Environment(v)
        \/ Handler
        \/ Worker
        \/ ArgoCD
        \/ Restart

Spec == Init /\ [][Next]_vars
-----------------------------------------------------------------------------
(* Fairness.  Each goroutine keeps running, so no actor stops for good while *)
(* it has something to do.  A fetch, list, write, update or push may fail    *)
(* any number of times, but not every time it is tried: the retries after    *)
(* 30 s and 5 min exist because such errors are transient.  Nothing is       *)
(* assumed of users, of other committers and of restarts.                    *)
Fairness ==
    /\ WF_vars(Handler) /\ WF_vars(Worker) /\ WF_vars(ArgoCD)
    /\ WF_vars(\E v \in VMs : Collect(v))
    /\ SF_vars(ListVMs) /\ SF_vars(DeleteOrphans({})) /\ SF_vars(Push)
    /\ SF_vars(\E v \in VMs : DropVM(v))
    /\ \A v \in VMs : SF_vars(SaveVM(v))

FairSpec == Spec /\ Fairness

-----------------------------------------------------------------------------
(* Safety.                                                                   *)

File == Manifest \cup {None}

TypeOK ==
    /\ live \in [VMs -> Object \cup {None}]
    /\ watch \in Seq([vm : VMs, obj : Object \cup {None}])
    /\ cache \in [VMs -> Object \cup {None}]
    /\ events \in Seq([type : {"create", "update", "delete"}, vm : VMs, tracked : BOOLEAN])
    /\ recent \subseteq VMs
    /\ pc \in {"idle", "list", "vms", "push", "trigger"}
    /\ listed \in [VMs -> Object \cup {None}]
    /\ todo \subseteq VMs /\ stale \subseteq VMs
    /\ cur \in VMs \cup {None}
    /\ expected \subseteq VMs /\ changed \subseteq VMs /\ missed \subseteq VMs
    /\ work \in [VMs -> File \cup {Torn}]
    /\ head \in [VMs -> File \cup {Torn}]
    /\ remote \in [VMs -> File \cup {Torn}]
    /\ moved \in BOOLEAN
    /\ op \in {"none", "requested", "running"}
    /\ applying \in [VMs -> File \cup {Torn}]
    /\ userOps \in 0..MaxUserOps
    /\ gitOps \in 0..MaxGitOps
    /\ restarts \in 0..MaxRestarts
    /\ wanted \subseteq VMs /\ copied \subseteq VMs /\ direct \subseteq VMs

\* A file that a failed write left truncated never reaches the branch: the
\* failed write is not among changedFiles (controller 345-350), so it is never
\* staged, and the next pass resets the worktree before it stages anything.
NoTornFileInGit == \A v \in VMs : remote[v] # Torn

\* What the branch should hold after a pass that listed these VMs.
Intended(v) == IF v \in expected THEN Clean(listed[v]) ELSE None

\* A sync is only requested when the commit of the pass holds what the pass
\* listed, never an old manifest of a VM nor one of a VM that is gone, and the
\* branch is at that commit unless others pushed meanwhile.  What escapes the
\* check that the tree is clean is a file whose write or removal failed without
\* touching it: it stays as it was fetched (controller 153-155, 466).
SyncOnlyPublished ==
    [][op = "none" /\ op' = "requested"
       => /\ ~moved => remote = head
          /\ \A v \in VMs : head[v] # Torn /\ (v \in missed \/ head[v] = Intended(v))]_vars

\* The pass in terms of VMMirror: the file of a listed VM, and the listed VMs
\* the loop is through with although it expects no file for them.
FileOf(o) == IF o = None \/ o.term THEN None ELSE Clean(o)

CacheView == [v \in VMs |-> FileOf(Matching[v])]
Snapshot  == [v \in VMs |-> FileOf(listed[v])]

Phase == CASE pc = "idle" -> "none" [] pc = "list" -> "fetched" [] OTHER -> "listed"

LeftOut == {v \in VMs : Phase = "listed" /\ Snapshot[v] # None
                        /\ v \notin todo /\ v \notin expected}

\* The files that a failed write or removal of this pass left old or torn.
Failed == missed \cup {v \in VMs : work[v] = Torn}

Mirror == INSTANCE VMMirror WITH
    Files <- Manifest,
    view <- CacheView, deleted <- recent, branch <- remote,
    phase <- Phase, base <- head, snap <- Snapshot, omitted <- LeftOut, failed <- Failed

\* What a pass publishes is one snapshot of its cache on the very state of the
\* branch it fetched, or nothing: though it writes file by file while the cache
\* changes, others push and calls fail, no push takes back a commit of others,
\* mixes what the cache showed at different moments, or drops the file of a
\* listed VM that was not deleted.  The only files that differ from the snapshot
\* are those whose write or removal failed in this very pass; they stay as they
\* were fetched (controller 252-387).
MirrorSafe == Mirror!Spec

\* Adding or removing the operator's finalizer never takes back what others
\* did to the VM, though the pass sends back the whole object it listed from a
\* cache that may lag behind (controller 265, 300, 313).
FinalizerUpdateKeepsEdits ==
    [][\A v \in VMs :
          (cur' = v /\ cur # v) \/ v \in todo \ todo'
          => \/ live'[v] = live[v]
             \/ /\ live[v] # None
                /\ \E f \in BOOLEAN : live'[v] = [live[v] EXCEPT !.fin = f]]_vars

\* The operator has nothing of v left to see or to handle.
EventsHandled(v) ==
    /\ \A i \in 1..Len(watch) : watch[i].vm # v
    /\ \A i \in 1..Len(events) : events[i].vm # v

\* A VM that a user created anew is not kept out of git by recentDeletions,
\* once the operator has seen and handled every event of it, unless its manifest
\* carried ArgoCD's tracking-id (controller 566-584).
WantedNotHidden == \A v \in wanted \ copied : EventsHandled(v) => v \notin recent

\* The same without the exception.  The manifests in git carry the tracking-id,
\* so a user who restores a VM from there is taken for ArgoCD (controller 383-385:
\* the cache is cleared for "a genuine "create" event for a new VM").
RestoredNotHidden == \A v \in wanted : EventsHandled(v) => v \notin recent

\* What a user did to a VM through the cluster is not undone by a sync.  As
\* long as nobody else pushes, git only ever holds what the cluster held, so a
\* sync that changes a VM takes it back to an older content (argocd 392-393:
\* "ensures manual changes in OpenShift UI persist to git").
NoEditUndone ==
    [][\A v \in VMs : live[v] # None /\ live'[v] # None /\ live'[v].body # live[v].body
                      => userOps' # userOps \/ gitOps > 0]_vars

\* What others push to the branch stays there until a sync has taken it
\* (controller 167-168: "catches any changes made directly to git").
DirectEditsKept ==
    [][\A v \in direct \cap direct' : remote'[v] # remote[v] => gitOps' # gitOps]_vars

-----------------------------------------------------------------------------
(* Why SyncOnlyPublished and MirrorSafe hold: what is true at each point of a *)
(* pass.  It is inductive for any number of VMs (module VMSync_proofs).      *)

\* The loop has not touched the VMs it has still to do, nor a pass anything
\* before its loop.
LoopInv ==
    /\ \A v \in todo : /\ pc = "vms"
                       /\ listed[v] # None
                       /\ v \notin changed \cup missed \cup expected
    /\ cur # None => cur \in todo
    /\ pc \in {"idle", "list"} => changed = {} /\ missed = {} /\ expected = {}

\* A torn file is never staged, so it is in no commit and in no sync.
TornInv ==
    \A v \in VMs : /\ remote[v] # Torn /\ head[v] # Torn /\ applying[v] # Torn
                   /\ v \in changed => work[v] # Torn

\* The worktree is the fetched commit plus the changes of the pass, and each
\* changed file is what the snapshot asks for.  Of the files the loop should have
\* written or removed, those that are not changed are missed or torn.
TreeInv ==
    /\ pc # "idle" /\ ~moved => remote = head
    /\ pc = "idle" => work = Absent /\ head = Absent /\ listed = Absent
    /\ cur # None => FileOf(listed[cur]) # None
    /\ \A v \in expected : FileOf(listed[v]) # None
    /\ \A v \in VMs : IF v \in changed THEN work[v] = Intended(v)
                                        ELSE work[v] \in {head[v], Torn}
    /\ missed \cap changed = {}
    /\ expected \subseteq changed \cup Failed
    /\ pc \in {"push", "trigger"} => \A v \in VMs \ (expected \cup missed) : work[v] = None

\* What a pass knows at each of its steps of worktree, index, commit and branch,
\* whatever fails: nothing is left out of changedFiles but what failed, and
\* nothing torn is in it (controller 276-369, git 284-301).
PassInv == LoopInv /\ TornInv /\ TreeInv

-----------------------------------------------------------------------------
(* Liveness.                                                                 *)

\* The operator's finalizer holds a deleted VM.  Once its labels have left the
\* selector, no pass lists it and nothing releases it.
Held(v) == live[v] # None /\ live[v].term /\ live[v].body \in Selected

\* What users want comes about.  The finalizer holds no deleted VM for ever,
\* although the update that removes it may meet conflicts and errors (controller
\* 287-305); and if nobody else pushes, git in the end holds the file of a VM
\* exactly if its user wants the VM and the selector matches it, even if ArgoCD
\* recreates a deleted VM from an old manifest (controller 321-330, 575-584).
GitTracksIntent ==
    \A v \in VMs :
        <>[](/\ ~Held(v)
             /\ gitOps = 0 /\ v \notin copied
                => (remote[v] # None <=> v \in wanted /\ live[v].body \in Selected))

\* A deleted VM does not come back to git for good (controller 327: "it was
\* deleted and needs to stay deleted").
DeletedStaysDeleted == \A v \in VMs : <>[](v \notin wanted => remote[v] = None)

\* In the end git holds of each VM the selector matches exactly what the cluster
\* does and nothing else, and none of them is left half deleted (controller
\* 252-370), whatever failed, was pushed by others or was lost in a restart, and
\* whatever fails for another VM.
GitMirrorsCluster ==
    <>[](\A v \in VMs : /\ ~Held(v)
                         /\ remote[v] = IF live[v] # None /\ live[v].body \in Selected
                                        THEN Clean(live[v]) ELSE None)
=============================================================================
