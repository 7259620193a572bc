# Verification of virt-git-sync

virt-git-sync is a Kubernetes operator. For each `VirtGitSync` resource it mirrors
the KubeVirt `VirtualMachine`s of a cluster into a git branch, one YAML file per VM,
and keeps an ArgoCD `Application` that applies the branch back to the cluster. This
directory models the operator in TLA+, checks the models with TLC and proves the
central invariants with TLAPS.

Line numbers below refer to `internal/controller/virtgitsync_controller.go`
(controller), `internal/git/manager.go` (git) and `internal/argocd/manager.go`
(argocd).

## 1. The system

### Parts, their state and operations

| Part | State | Operations |
|---|---|---|
| Reconcile pass (controller 76-395) | finalizers on the `VirtGitSync` and on VMs; `expectedFiles`, `changedFiles` of the pass | `Reconcile`, `syncAllVMsToGit`: fetch, list, finalizer, save or skip, drop, orphans, commit and push, trigger |
| VM event handler (controller 547-815) | `recentDeletions`, in memory, shared with the pass | `Create`, `Update`, `Delete`, `Generic`; each also records events in the status |
| Git manager (git) | clone under `/tmp`, one per `VirtGitSync`: origin, local branch, history, worktree, index; credential of the pass | `NewManager` with `setupAuth`, `Clone`, `Open`, `Pull` (hard reset), `WriteFile`, `DeleteFile`, `ListFiles`, `CommitAndPush`, `HasUncommittedChanges` |
| ArgoCD manager (argocd) | none of its own; Applications and repository Secrets in ArgoCD's namespace, marked by an owner label | `ReconcileRepository`, `ReconcileApplication`, `TriggerSync`, `DeleteApplication`, `DeleteRepository` |
| `VirtGitSync` deletion (controller 90-118) | the `VirtGitSync` finalizer | delete Application, delete Secret, remove finalizer |
| Status (controller 172-198, 473-527, 890-974) | phase, conditions, GitStatus, ArgoCDStatus, count and last of the VM events; the work queue and requeue timers of controller-runtime | `updateStatus`, `handleGitError`, `handleArgoCDError`, `updateVirtGitSyncStatus` |
| Manifest cleaning, change detection (controller 591-715, 818-890, 977-992) | none | `cleanVMForGitOps`, `detectChanges`, `mapsEqual`: pure functions |
| External | API server and its watch, informer caches, KubeVirt, the git remote, ArgoCD, users, other committers | |

### How they interact

There is one reconcile worker. It reads every object from informer caches that lag
behind the API server, and writes to the API server, which accepts an update only
from the current `resourceVersion`. The event handler runs on goroutines of its own,
shares `recentDeletions` with the worker, and writes the same status. The watch of
the `VirtGitSync` has no predicate, so each status write, whoever made it, queues
another pass. The worker pushes to a branch others may push to, and asks ArgoCD (by
the `operation` field of the Application) to apply the branch to the cluster the
worker mirrors: a loop in which each side may overwrite newer content of the other
with older.

### What is hard, and what correct means

- **Pass**: an API call, a file write, a commit or a push can fail at each step, and
  the loop often goes on. Correct: nothing half-written is published, a sync is
  requested only for what the pass listed and published, finalizer updates undo
  nobody's edit, deletions complete, git converges.
- **Handler and `recentDeletions`**: deletion by a user, recreation by ArgoCD from
  an older commit and creation by a user arrive late and in sequence. Correct: a
  deleted VM does not stay in git, a VM a user created is not hidden.
- **Git manager**: rejected pushes, lost answers, direct commits, specs that change
  under a clone that stays, restarts that lose it. Correct: branches only grow, and
  only by the operator's own files; what a pass reports is in the branch; the branch
  converges to the cluster.
- **ArgoCD manager**: ownership lives in a label read from a cache; deletion is by
  name. Correct: no pass touches another `VirtGitSync`'s objects, a live
  `VirtGitSync` is served.
- **Deletion**: every step may fail and deletion must still complete.
- **Status**: two writers work from cached copies; a status write wakes the worker.
  Correct: no count is taken back, phase and gitStatus agree, no event and no
  `VirtGitSync` is forgotten, the status gets to Running again and again.

`PROJECT.json` lists each hazard at its line with the properties that guard it.

## 2. Modules

    VMSync              one VirtGitSync: pass, handler, git, sync requests, ArgoCD, restarts
      VMSync_proofs     its theorems about the pass and git
      VMSyncEvents_proofs  its theorems about events and updates (extends VMSync_proofs)
    VMMirror            abstract: what a pass may do to the branch; VMSync implements it
      VMMirror_proofs   that it does (extends VMSync_proofs)
    ArgoOwnership       several VirtGitSyncs: names, owner labels, finalization
      MCArgoOwnership   its name assignments for TLC
      ArgoOwnership_proofs  its theorems
    GitStore            abstract: what the repositories may look like
    GitManager          clones, credentials, histories, pushes; implements GitStore
      MCGitManager      its paths, secrets and branches for TLC
      GitManager_proofs its theorems
    VGSStatus           status, work queue and timers of one VirtGitSync
      VGSStatus_proofs  its theorems

The models meet at the pass, and each folds the others' part into one step. `VMSync`
has one `VirtGitSync`, never deleted, on one branch, and folds the upkeep of its
Application into `TriggerSync` and `NoSync`. `ArgoOwnership` has several, created,
toggled and deleted, and folds the git part of a pass into `SyncGit`. `GitManager`
has the repositories and folds the files of a pass into one value; `VGSStatus` has
what starts and ends passes and folds git into `PushDone` or `GitError`.

### VMSync

| State | Code |
|---|---|
| `live`, `watch` | VMs on the API server; changes on their way to the informer |
| `cache`, `events`, `recent` | indexer; events queued for the handler; `recentDeletions` |
| `pc`, `listed`, `todo`, `cur`, `stale`, `expected`, `changed` | the pass: where it is, `vmList`, its loop, resource versions that are no longer current, `expectedFiles`, `changedFiles` |
| `work`, `head`, `remote`, `moved` | worktree, local commit, remote branch, a foreign push since the fetch |
| `op`, `applying` | `Application.operation`; what the running sync still has to apply |
| `missed`, `wanted`, `copied`, `direct` | history for properties only: files that a failed write or removal of the pass left as they were; VMs users want; those of them made from a manifest with the tracking-id; files others pushed and no sync has taken |

Each action is one step between which others can act: `Fetch`, `ListVMs`,
`AddFinalizer(v)`, `SaveVM(v)` or `SkipVM(v)`, `DropVM(v)`, `PassOver(v)`,
`DeleteOrphans`, one of the five outcomes of `CommitAndPush` (`NothingToPush`,
`CommitFails`, `Push`, `PushFails`, `PushAnswerLost`), `TriggerSync` or `NoSync`;
`SaveFails`, `DropFails`, `ListFails` are the error paths. `Deliver` moves a change
to the indexer and queues the event that `HandleCreate` or `HandleDelete` serves
later.

A manifest is a body (what users edit) and whether it carries ArgoCD's tracking-id,
which `cleanVMForGitOps` keeps because its list of system prefixes does not name it
and by which the handler tells ArgoCD's creations from users'. A failed write leaves
the file as it was (`"lost"`) or truncated (`"torn"`); a failed removal leaves it
(`"kept"`).

`Selected` are the bodies whose labels `spec.vmSelector` matches: `Matching` is the
list a pass gets (controller 256-263). A VM whose labels leave the selector drops
out of the list with the operator's finalizer on it; its file goes as an orphan's,
and once it is deleted nothing releases it. Therefore liveness is stated of deleted
VMs that the selector matches (`Held`). A `VirtGitSync` that is deleted releases no
VM either (92-118), so `Init` starts from VMs of which some carry a finalizer
already.

Left out of VMSync, and why:
- `spec.vmSelector` itself does not change. To one VM a changed selector is what
  changed labels are, which are in the model; it can drop or take up several VMs at
  once, and their order of events is then not covered.
- Update events are not queued: they only enqueue the `VirtGitSync`, and every exit
  of `Reconcile` requeues it, so `Fetch` is possible whenever the worker is idle.
- The Create events an informer replays after a restart find `recentDeletions` empty
  and change nothing.
- The clone is forgotten when a pass ends: the next one resets it to the remote
  before reading it.
- A failing `filepath.Glob` in `ListFiles` (only a malformed pattern fails),
  credentials, and status writes.

### VMMirror

The promise of a pass as three atomic moments: it fetches the branch (`BeginPass`),
takes a snapshot of what the cache shows (`TakeSnapshot`), and publishes that
snapshot by one commit, if the branch is still what it fetched (`Publish`); or it
ends with nothing published (`Finish`). From the snapshot it may leave out a VM it
was told was deleted (`Omit`), and exactly the files whose write or removal failed
in this pass (`WritesFail`) stay as they were fetched. The cache (`Look`) and the
branch (`CommitByOther`) change at any moment.

`VMSync` implements it: `MirrorSafe == Mirror!Spec`, where

| VMMirror | VMSync |
|---|---|
| `view`, `snap` | `CacheView`, `Snapshot`: the cleaned manifest of each VM in `cache`, in `listed`; none for a VM being deleted |
| `deleted`, `branch`, `base` | `recent`, `remote`, `head` |
| `phase` | `Phase`: `pc` before the list, and after it |
| `omitted` | `LeftOut`: listed VMs with a file that the loop is through with and does not expect |
| `failed` | `Failed`: files that are `missed`, or torn in the worktree |

So the steps of the loop are stutters but for `SkipVM`, which is `Omit`, and for
those that fail to write, remove, or that make good what failed before, which are
`WritesFail`. Two points are what makes it more than a rewording: `Omit` asks for a
VM in `recentDeletions` *at that moment*, so a listed VM can be missing from a
commit for no other reason; and `Publish` relates each file of the new branch to the
one snapshot and the fetched commit, several steps after both were read, across
failing writes, failing commits and pushes of others: where nothing failed it is the
snapshot as a whole.

### ArgoOwnership

`obj` and `seen` hold the objects on the API server and in the cache, `lag` the
names that differ in version; `pc`, `who`, `argo`, `fresh` are the pass: its step,
its `VirtGitSync`, `spec.argocd.enabled` as read, and whether its copy of the
`VirtGitSync` is still the current version. `Update` succeeds only for an object
that does not lag, `Create` only for one that is not there, `Deleted` hits whatever
has the name. `SecretName[v]` is the name derived from namespace and name;
`ReconcileRepository` and `DeleteRepository` use it without a look at the owner
label. `Begin` picks a `VirtGitSync` and `FirstStep` chooses among adding the
finalizer, the git part, and finalization; then one action per call to the API.
`Fails` ends a pass at any call that returns its error; the two deletions of
finalization ignore theirs (`CanFail`).

ArgoCD's namespace is not that of a `VirtGitSync` here, so no owner reference is set
(argocd 106-110). A restart of the operator is a pass that `Fails` and a cache that
catches up, so it is not an action of its own.

`SecretsWritable` says whether the operator's role lets it write Secrets. The role
it is installed with does not: the rbac marker (controller 72),
`config/rbac/role.yaml` 7-14 and the bundle's ClusterServiceVersion 102-109 grant
get, list and watch, while `ReconcileRepository` creates and updates a Secret before
the Application is looked at. The run `not_served` has that role and shows that no
`VirtGitSync` is served (section 5). With it the operator never makes an
Application, so all else about Applications is checked with a role that an
administrator has extended (`SecretsWritable = TRUE`), as is `VMSync`, whose ArgoCD
syncs need an Application.

### GitManager and GitStore

| State | Code |
|---|---|
| `spec`, `vms` | `spec.gitRepository` with the Secret it leads to; the manifests of the VMs selected, as one value |
| `remote` | each branch of each repository, as the sequence of its commits |
| `clone` | per `VirtGitSync`, the repository under `/tmp`: origin, HEAD's branch and history; `None` before the first clone and after a restart |
| `at`, `pc`, `serving` | the pass: whom it serves, its next step, and the `Manager` made for it |

`NewManager` reads the spec, and ends the pass there if `setupAuth` fails;
`FirstStep` chooses `Clone` or `Pull` by whether a clone is there. A clone keeps the
origin and local branch it was made with, since its directory is named by namespace
and name only (controller 216). `Written` and `CommitFiles` are the file writes,
orphans and commit, `Push`, `PushMatchesNothing` and `PushAnswerLost` the outcomes
of the push that end well or are lost, and `PassFails` every other failure. `Report`
is where Reconcile takes `lastCommit` and `lastPush`. Others commit on top of what a
branch has; they do not rewrite or remove branches.

`GitStore` is the promise: every branch is a history that only grows, and a
`VirtGitSync` adds one commit at a time under its own sync path to a branch that
exists. `Store == INSTANCE GitStore WITH history <- remote` is the refinement
mapping; `StoreSafe == Store!Spec`. `Grow` alone does not make it hold: the commit
pushed was made several steps earlier, on a branch that others may have pushed to
since, by a clone that may be of another repository or branch.

### VGSStatus

| State | Code |
|---|---|
| `status`, `cached`, `lag` | the status on the API server and in the informer's cache, and whether they differ in version |
| `vm`, `events` | a VM as the indexer shows it; events queued for the handler |
| `hpc`, `hcopy`, `hfresh` | `enqueueVirtGitSyncs`: its step, the copy it updates, and whether that copy is current |
| `queued`, `dirty`, `timer` | the work queue: request waiting; added while it is served; requeue timer set |
| `pc`, `copy`, `fresh` | the pass: its step, the copy it updates, and whether that copy is current |
| `behind`, `owed` | history for properties only: files changed since a pass last listed VMs; an event taken up since a pass last began |

`TakeEvent`, `CountEvent` or `CountFails`, and `AddRequest` are the handler;
`DropEvent` is a failing list or a selector that does not match. `BeginPass`,
`ListVMs`, `AddFinalizer`, `PushDone` are the pass, and `GitError`, `ArgoError`,
`PassSucceeds`, `StatusConflict` its four exits, each with the status it writes or
fails to write and the requeue it asks for. `DeliverVGS` is the watch. The
`VirtGitSync` exists, carries its finalizer and keeps its spec: putting the
finalizer on and deletion are in `ArgoOwnership`.

## 3. Runs

| Run | Instance | What it shows |
|---|---|---|
| `mirror` | 2 VMs, 2 bodies of which the selector matches one, leftover finalizers, failing writes and removals, 1 user operation, 1 commit by others, 1 restart, no ArgoCD, fair | `VMSync` implements `VMMirror`, with the inductive invariant `PassInv` that shows why; finalizer updates keep edits; git converges to the cluster, whatever fails for one of the VMs |
| `live` | 1 VM, every fault, 3 user operations with and without the tracking-id (1 where others push), 1 commit by others, ArgoCD, fair | types; no torn file in git; a sync is requested only for what the pass listed and published; deletions complete; git ends with exactly the VMs users want; under delete and recreate `recentDeletions` never hides a wanted VM for good |
| `shared_name` | 2 `VirtGitSync`s, 1 Application name, 1 Secret name, 3 user operations, failing deletions, writable Secrets, fair | no pass touches another's Application; cached and stored labels agree; work only under the finalizer; deletion completes; a live `VirtGitSync` is served, also when users made an Application of that name, after a deletion that left its Application behind, and after its Secret was deleted as another's |
| `git_store` | 1 `VirtGitSync`, 2 repositories, 2 branches of which one repository lacks one, a good and a broken key, 2 changes of spec or VMs, 1 commit by others, 1 restart, fair | branches only grow, by the operator's own files; reports are true where the clone matches the spec; the branch named ends up with the VMs |
| `status` | 1 VM, 1 operation on it, 1 restart, ArgoCD errors, fair | no count is taken back; events taken up are served at once; never forgotten; phase and gitStatus agree; changes get served and the status Running, again and again |
| `edit_undone`, `direct_edit_lost`, `deleted_comes_back`, `restored_hidden`, `others_secret`, `not_served`, `git_reported` | see findings | what the code does differs from what it says |

Bounds. `MaxUserOps`, `MaxGitOps`, `MaxVMOps`, `MaxRestarts` limit what users, other
committers and restarts do; `MaxMixedOps` limits the users' operations in the
behaviours in which others push as well, so that `live` has three operations of
users, or one and a commit by others. `MaxBacklog` keeps everybody but the operator
from writing while that many changes are undelivered: with two, a deletion and a
recreation of one VM are behind the cache at once; three operations of users are
what it takes to delete a VM, have ArgoCD recreate it, delete that and make the VM
anew. Passes are not bounded, so each run has any number of passes, retries and
failures around those operations. Two VMs are enough for one VM's failure to affect
another's file (staging, commit, orphans, the push): that is `mirror`, where one of
them may be relabelled out of the selector, or start outside it. Who of the actors
hides or brings back a VM through `recentDeletions` and ArgoCD is a matter of that
VM alone: that is `live`, with one. Nothing checks ArgoCD with two VMs but the
theorems, which hold for any number. `UserTracking` has both values in `live`: users
make VMs from manifests of their own, or from those in the repository. Two
`VirtGitSync`s are enough for a clash of names. In `git_store` two changes let a
spec go to another branch or repository and back, and a broken key be mended, with a
commit by others between any two steps; it takes one `VirtGitSync`, since another
one is to it like others who commit, and the theorems hold for any number. In
`status` the VM's first event, one operation on it, the pass's own finalizer update
and the restart make up to four events, enough for handler and pass to overtake each
other at each step.

No run uses symmetry, and no run replaces a definition.

Deadlock checking is off for `ArgoOwnership`: without a `VirtGitSync` the operator
has nothing to do; and for `GitManager`, which cannot go on while the Secret is
unusable and nobody mends it (a failing `setupAuth` changes nothing there). It is on
in every run of `VMSync` and `VGSStatus`, where there is always another pass.

### Fairness

Every goroutine that can act does (weak fairness on `Deliver`, the handler, the
worker, ArgoCD's steps, KubeVirt's `Collect`). Calls that may fail do not fail every
time (strong fairness on `ListVMs`, `DeleteOrphans` without failure and `Push`,
on `DropVM`, whichever VM it releases, and, for each VM, on `SaveVM`): the code retries after 30 s or 5 min because
such errors are transient. In `ArgoOwnership` strong fairness on `Begin(v)` says the
work queue forgets nobody, and that on the git part, the Secret, the Application and
the `VirtGitSync`'s own updates says that not every such call fails, whichever
`VirtGitSync` makes it; strong fairness on `ReconcileRepository` demands nothing
where the role forbids it. In `GitManager` strong fairness is on `NewManager(g)`,
fetching, committing and pushing. `VGSStatus` proves what they assume
(`NeverForgotten`) and assumes weak fairness of watch, timers, handler and worker,
and strong fairness of listing, pushing and the last status update. Of listing and
pushing it assumes more: they succeed now and then also among passes whose copy is
current (`fresh`), of which these calls know nothing; otherwise git could fail
exactly when the status could have been written. Users, other committers, restarts
and the failing deletions have no fairness; a deletion of the Application may fail
every time.

## 4. Proofs

What bears the weight: for safety under faults and concurrency, `NoTornFile`,
`SyncPublished`, `MirrorImplemented`, `WantedVisible`, `FinalizerUpdates`,
`ApplicationsSafe`, `StoreImplemented` and `CountsKept`. The theorems use only the
assumptions of the modules on their constants (sentinels are distinct, bounds are
numbers, faults are among those the model names), which TLC evaluates in every run;
none of them rests on an assumption of its own.

`VMSync_proofs`, for any VMs, bodies and bounds:

- `TypeCorrect`, `NoTornFile`: with `SafeInv = TypeOK /\ LoopInv /\ TornInv`, for
  any `FaultKinds`. `TypeOK` is not inductive alone: the finalizer update writes
  `listed[v]` back, which is an object only because the loop holds listed VMs
  (`LoopInv`), and ArgoCD applies `applying[v]`, which is a manifest only because no
  commit holds a torn file (`TornInv`), and that because a failed write is not among
  `changedFiles`.
- `PassHolds`, `SyncPublished`: `PassInv` and `SyncOnlyPublished`, for any faults.
  `TreeInv` is the strengthening: a changed file is what the snapshot asks for
  (`Intended`), any other is as fetched or torn, and of the files that the loop
  should have written or removed those not changed are `missed` or torn. At the
  trigger the tree is clean, so none is torn and the commit differs from the list in
  the missed files only. These are the exception that `SyncOnlyPublished` names: the
  write or the removal failed before it touched the file (git 204-206, 254-259), the
  tree is clean all the same (controller 154), and the sync takes the file as it was
  fetched.

`VMMirror_proofs`, for any VMs, bodies, faults and bounds, with and without ArgoCD:

- `MirrorImplemented`: the refinement, one lemma per step. A loop step changes
  neither `Snapshot` nor `remote`, `LeftOut` by `SkipVM` only, and `Failed` as
  `WritesFail` may. An accepted push publishes `work` where staged and `head`
  elsewhere; by `TreeInv` that is the snapshot, or the file as fetched where it is
  in `Failed`.

`ArgoOwnership_proofs`, for any `VirtGitSync`s, any assignment of names and any
bounds:

- `TypeCorrect`, `LabelsTrusted`, `ApplicationsSafe`, `FinalizerHeld`. The invariant
  has three parts. `ReadInv`: what does not lag is current in the cache, and as long
  as nobody wrote to the `VirtGitSync` of the pass it is what the pass read.
  `LabelInv`: cached and stored labels never name two different owners, and at the
  trigger the Application is the pass's own or nobody's. `FinalizerInv`: a finalizer
  the cache shows on a live `VirtGitSync` is on the server, and is there while a
  pass works. The argument for `ApplicationsSafe`: an Application changes owner only
  through an update from a current cached copy that names nobody, so a cached label
  naming `who` cannot hide one naming somebody else, and neither the delete by name
  nor the unchecked `TriggerSync` can hit another's Application.

`VMSyncEvents_proofs`, for any VMs, bodies, faults and bounds:

- `FinalizerUpdates`: `FinalizerUpdateKeepsEdits`. `WatchInv`: the last change of a
  VM still on its way is what the server stores, and without one the cache is
  current. `ListedInv`: a listed VM that is not `stale` has no change on its way and
  is what the server stores.
- `WantedVisible`: `WantedNotHidden`, whatever manifests users apply. The property
  speaks of the moment when all of a VM's events are handled, and of VMs that were
  last made from a manifest without the tracking-id (those with it are the finding
  `restored_hidden`); `Coming` and `Arrived` follow such a creation from the watch
  through the event queue to `HandleCreate`, and no deletion may follow it.

`GitManager_proofs`, for any `VirtGitSync`s, repositories, branches, paths (also
shared ones), secrets and bounds:

- `TypeCorrect`; `ReportsArePublished`; `StoreImplemented`, the refinement. The
  invariant `PassInv` says what the clone is between fetch and push: its head,
  without the commit of the pass, is an ancestor of the remote branch, and that one
  commit changes the pass's own path only. A push that is a fast-forward then finds
  the remote where the fetch left it, and adds exactly one commit. Ancestry is a
  prefix relation on sequences; others only append, which keeps it.

`VGSStatus_proofs`, for any number of VM operations and restarts:

- `TypeCorrect`; `AlwaysServedAgain`, `EventQueued`: every exit of Reconcile
  requeues, and a request added while it is served is queued at its end.
- `CountsKept`: by `FreshInv`, a copy marked current, and a cache without lag, are
  what the server stores, so an accepted write starts from the stored count.
- `PhaseHolds`: by `PhaseInv`, every copy (stored, cached, the handler's, the
  pass's) is consistent in itself, and the copy at the end of a pass says `pushed`,
  which is what lets its exit write Running.

Only model-checked: the liveness properties `GitTracksIntent`, `GitMirrorsCluster`,
`VgsDeletionCompletes`, `VgsServed`, `MirrorsSpec` and `ServedAndRunning`: the
prover has no rule for fairness. Every safety property of a passing run is proved.

## 5. Findings

Each is a run that TLC refutes; `PROJECT.json` quotes the lines.

- `edit_undone`: a user's edit the pass had not seen is overwritten by the sync that
  pass requests; argocd 392-393 says manual changes persist to git.
- `direct_edit_lost`: a commit pushed by others is overwritten by the pass before
  any sync takes it; controller 167-168 says the requeue catches such changes.
- `deleted_comes_back`: a restart forgets `recentDeletions`, and a VM ArgoCD
  recreated meanwhile returns to git for good; controller 327 says it needs to stay
  deleted.
- `restored_hidden`: the manifests that the operator writes to git carry ArgoCD's
  tracking-id, by which the handler tells ArgoCD's creations from users'. A user who
  deletes a VM and makes it anew from its manifest in git is taken for ArgoCD, and
  the VM stays out of git; controller 383-385 says that a genuine creation clears
  the cache.
- `not_served`: the operator's role may only read Secrets, so with ArgoCD enabled
  each pass ends at the repository Secret (150) and no Application is ever made; the
  repository's `README.md` 12 says they are created automatically.
- `others_secret`: `DeleteRepository` deletes by a derived name that another
  `VirtGitSync` can share; argocd 247 says it deletes the owned one.
- `git_reported`: after `spec.gitRepository.branch` changes, the kept clone commits
  on its old local branch and the push matches nothing, which counts as success;
  passes report `lastCommit` and `lastPush` for a commit that is nowhere but in the
  clone, until a restart. The API types (162, 166) call them the last successful
  commit and push.

## 6. Seen in the code, not covered by a property

- A VM whose labels leave the selector, or that a changed selector leaves out, keeps
  the operator's finalizer: deleted, it stays Terminating, because only a listed VM
  is released (controller 256-263, 287-305).
- With ArgoCD on, a sync can be requested while a file whose write or removal failed
  is old (controller 154; the exception in `SyncOnlyPublished`); the next pass
  repairs it.
- Deleting a `VirtGitSync` leaves its finalizer on its VMs, which then never go once
  deleted, unless another `VirtGitSync` lists them.
- A deletion of the Application that fails, that meets a cache that does not show it
  yet, or that is skipped because ArgoCD was switched off before, leaves the
  Application and its label behind; no other `VirtGitSync` can use the name.
- A changed URL keeps the clone's old origin, which goes on being fetched and pushed
  to. `MirrorsSpec` therefore asks for a clone that matches the spec (`MadeFor`).
- Two `VirtGitSync`s on one repository, branch and path take each other's files for
  orphans. `GitManager` has one file set per path, so paths that overlap are not
  modelled.
- Status: `LastPush` is set also when nothing had to be pushed. The conditions
  `GitReady` and `ArgoCDReady` are set to False after an error and never to True,
  while `docs/README.md` 96-103 shows them True. `vmEventCount` misses an event when
  the update meets a conflict, and counts one twice that a restart replays.
- `mapsEqual` treats a missing key and an empty value alike, and `detectChanges`
  compares `spec.running` by pointer (822), so it reports a change of that field
  whenever it is set. Both only end up in the log and in `lastVMEvent`.

## 7. Not modelled

Generated deepcopy code; process set-up (`cmd/main.go`: flags, TLS, metrics; leader
election and one worker are assumptions here); of credentials the key material and
host key checks; of the status the conditions, `argocdStatus`, `observedGeneration`,
texts and times; which keys `cleanVMForGitOps` filters, and `detectChanges` (string
and pointer comparisons whose result nothing acts on but the content of a manifest
and a log); the automatic branch default `main`; manifests, bundle, scripts, CI and
documentation. `docs/active-standby-design.md` and `docs/dr-active-standby.md`
describe a design of which there is no code.

Deletion of a `VirtGitSync` together with its VMs: the code has no step that
releases their finalizers or deletes their files, so a model would have only what
users do afterwards.

## 8. Plan

Done: `VMSync` and `VMMirror`, `ArgoOwnership`, `GitStore` and `GitManager`,
`VGSStatus`, with their runs and proofs; every safety property that a run checks is
proved. What could still be added:

1. `CleanVM`: the filters of annotations and labels as operators over small maps,
   compared with a reference definition. Lemma: cleaning is idempotent and keeps
   user keys.
2. The conditions of the status in `VGSStatus`.
