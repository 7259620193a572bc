----------------------------- MODULE GitManager -----------------------------
(***************************************************************************)
(* The git manager and how the reconcile worker uses it: VirtGitSyncs with *)
(* a clone each, serving repositories, branches and credentials that their *)
(* specs name and that users change; commits and pushes by others;         *)
(* failures; restarts of the container, which lose every clone.            *)
(*                                                                         *)
(* What a pass writes for single VMs is the subject of VMSync.  Here the   *)
(* files under a sync path are one value, and a branch is the sequence of  *)
(* its commits, so that ancestry and fast-forward can be told.             *)
(***************************************************************************)
EXTENDS Naturals, Sequences

CONSTANTS
    VGSs,           \* the VirtGitSyncs
    URLs,           \* repositories
    Branches,       \* branch names
    Paths,          \* directories for VM manifests
    Contents,       \* what such a directory may hold
    None,           \* an empty directory; no clone; no credential; others as author
    Path,           \* the sync path of each VirtGitSync
    Secrets,        \* what secretRef may lead to; None: there is no secretRef
    Admits,         \* the credentials each repository lets in
    Existing,       \* the branches there are to begin with, as <<url, branch>>
    MaxUserOps,     \* bound on changes of specs and of VMs
    MaxGitOps,      \* bound on commits by others
    MaxRestarts     \* bound on restarts of the container

SecretKeys == {"ssh-private-key", "known_hosts", "username"}
AuthKinds  == {None, "ssh", "basic"}

ASSUME ParameterAssumption ==
    /\ Path \in [VGSs -> Paths]
    /\ Secrets \subseteq [keys : SUBSET SecretKeys, parses : BOOLEAN] \cup {None}
    /\ Admits \in [URLs -> SUBSET AuthKinds]
    /\ MaxUserOps \in Nat /\ MaxGitOps \in Nat /\ MaxRestarts \in Nat

VARIABLES
    spec,       \* of each VirtGitSync: gitRepository's url, branch and secret
    vms,        \* the manifests of the VMs it selects
    remote,     \* the history of each branch of each repository
    clone,      \* the local clone of each VirtGitSync, or None
    \* The reconcile worker, which serves one VirtGitSync at a time.
    at,         \* the VirtGitSync it serves, or None
    pc,         \* the next step of the pass
    serving,    \* the Manager: url, branch and credential read when the pass began
    \* Bounds.
    userOps, gitOps, restarts

passVars == <<at, pc, serving>>
bounds   == <<userOps, gitOps, restarts>>
vars     == <<spec, vms, remote, clone, passVars, bounds>>

Store == INSTANCE GitStore WITH history <- remote

Manager   == [url : URLs, branch : Branches, auth : AuthKinds]
LocalRepo == [origin : URLs, on : Branches, head : Store!History]

ASSUME SentinelAssumption ==
    /\ None \notin VGSs
    /\ None \notin Manager /\ None \notin LocalRepo
    /\ None \notin [keys : SUBSET SecretKeys, parses : BOOLEAN]

\* s is t or an ancestor of t.
IsAncestor(s, t) == Len(s) <= Len(t) /\ \A i \in 1..Len(s) : s[i] = t[i]

FirstCommit == [by |-> None, tree |-> Store!EmptyTree]

Holds(u, b, g) == Store!TreeOf(remote[u][b])[Path[g]] = vms[g]

-----------------------------------------------------------------------------
(* Users, and people who push to the repositories.                           *)

\* The spec names another repository, branch or secret.  The clone stays: its
\* directory is named by the VirtGitSync's namespace and name only.
ChangeSpec(g) ==
    /\ userOps < MaxUserOps
    /\ \E u \in URLs, b \in Branches, s \in Secrets :
          /\ [url |-> u, branch |-> b, secret |-> s] # spec[g]
          /\ spec' = [spec EXCEPT ![g] = [url |-> u, branch |-> b, secret |-> s]]
    /\ userOps' = userOps + 1
    /\ UNCHANGED <<vms, remote, clone, passVars, gitOps, restarts>>

ChangeVMs(g) ==
    /\ userOps < MaxUserOps
    /\ \E c \in Contents \cup {None} : c # vms[g] /\ vms' = [vms EXCEPT ![g] = c]
    /\ userOps' = userOps + 1
    /\ UNCHANGED <<spec, remote, clone, passVars, gitOps, restarts>>

CommitByOther(u, b) ==
    /\ gitOps < MaxGitOps
    /\ \E p \in Paths, c \in Contents \cup {None} :
          /\ Store!TreeOf(remote[u][b])[p] # c
          /\ remote' = [remote EXCEPT ![u][b] =
                Append(remote[u][b],
                       [by |-> None, tree |-> [Store!TreeOf(remote[u][b]) EXCEPT ![p] = c]])]
    /\ gitOps' = gitOps + 1
    /\ UNCHANGED <<spec, vms, clone, passVars, userOps, restarts>>

-----------------------------------------------------------------------------
(* NewManager, and Clone or Open and Pull.                                   *)

\* setupAuth: a key that does not parse, or no known key, is an error.
SetupAuthFails(s) ==
    /\ s # None
    /\ IF "ssh-private-key" \in s.keys THEN ~s.parses ELSE "username" \notin s.keys

Auth(s) == IF s = None THEN None
           ELSE IF "ssh-private-key" \in s.keys THEN "ssh" ELSE "basic"

OpenedUncloned(g) == "pull"         \* mutant

\* Whether the clone's .git is there decides between Clone and Open.
FirstStep(g) == IF clone[g] = None THEN "clone" ELSE "pull"

\* Every exit of Reconcile requeues the VirtGitSync, so the idle worker may
\* always take up another one.  A pass that finds no usable secret ends here.
NewManager(g) ==
    /\ at = None
    /\ ~SetupAuthFails(spec[g].secret)
    /\ at' = g
    /\ pc' = FirstStep(g)
    /\ serving' = [url |-> spec[g].url, branch |-> spec[g].branch, auth |-> Auth(spec[g].secret)]
    /\ UNCHANGED <<spec, vms, remote, clone, bounds>>

EndPass == at' = None /\ pc' = "idle" /\ serving' = None

\* The repository answers, and has the branch.
Reachable(u) == /\ serving.auth \in Admits[u]
                /\ remote[u][serving.branch] # <<>>

\* A single-branch clone: its only local branch is the one named now.
Clone(g) ==
    /\ at = g /\ pc = "clone"
    /\ Reachable(serving.url)
    /\ clone' = [clone EXCEPT ![g] = [origin |-> serving.url, on |-> serving.branch,
                                      head |-> remote[serving.url][serving.branch]]]
    /\ pc' = "write"
    /\ UNCHANGED <<spec, vms, remote, at, serving, bounds>>

HeadKept(g) == clone[g].head        \* mutant

\* origin is the URL cloned from, whatever the spec names now.
Fetched(g) == remote[clone[g].origin][serving.branch]

\* Fetch the branch and reset the local one, whatever its name, to it.  The
\* commits of a pass whose push failed are dropped with it.
Pull(g) ==
    /\ at = g /\ pc = "pull"
    /\ Reachable(clone[g].origin)
    /\ clone' = [clone EXCEPT ![g].head = Fetched(g)]
    /\ pc' = "write"
    /\ UNCHANGED <<spec, vms, remote, at, serving, bounds>>

\* Any call on the way may fail; handleGitError tries again in 30 s.
PassFails ==
    /\ pc \in {"clone", "pull", "write", "push"}
    /\ EndPass
    /\ UNCHANGED <<spec, vms, remote, clone, bounds>>

-----------------------------------------------------------------------------
(* syncAllVMsToGit and CommitAndPush.                                        *)

\* mutant
OrphansKept(g, t) == IF vms[g] = None THEN t ELSE [t EXCEPT ![Path[g]] = vms[g]]

\* The worktree once the VM files under the sync path are written and the
\* orphans there are deleted.
Written(g, t) == [t EXCEPT ![Path[g]] = vms[g]]

NothingToCommit(g) ==
    /\ at = g /\ pc = "write"
    /\ Written(g, Store!TreeOf(clone[g].head)) = Store!TreeOf(clone[g].head)
    /\ pc' = "report"
    /\ UNCHANGED <<spec, vms, remote, clone, at, serving, bounds>>

CommitFiles(g) ==
    /\ at = g /\ pc = "write"
    /\ LET old == Store!TreeOf(clone[g].head)
       IN /\ Written(g, old) # old
          /\ clone' = [clone EXCEPT ![g].head =
                          Append(clone[g].head, [by |-> g, tree |-> Written(g, old)])]
    /\ pc' = "push"
    /\ UNCHANGED <<spec, vms, remote, at, serving, bounds>>

ForceAccepts(g) == TRUE             \* mutant

\* Force: false.  The repository takes a descendant of what it has.
FastForward(g) == IsAncestor(remote[clone[g].origin][serving.branch], clone[g].head)

\* The refspec names the branch of the spec.  If the clone has another one,
\* nothing matches, and Push answers NoErrAlreadyUpToDate: not an error.
PushMatchesNothing(g) ==
    /\ at = g /\ pc = "push"
    /\ clone[g].on # serving.branch
    /\ pc' = "report"
    /\ UNCHANGED <<spec, vms, remote, clone, at, serving, bounds>>

Publish(g) ==
    /\ at = g /\ pc = "push"
    /\ clone[g].on = serving.branch
    /\ serving.auth \in Admits[clone[g].origin]
    /\ FastForward(g)
    /\ remote' = [remote EXCEPT ![clone[g].origin][serving.branch] = clone[g].head]

Push(g) ==
    /\ Publish(g)
    /\ pc' = "report"
    /\ UNCHANGED <<spec, vms, clone, at, serving, bounds>>

\* The repository took the commit, and the answer is lost.
PushAnswerLost(g) ==
    /\ Publish(g)
    /\ EndPass
    /\ UNCHANGED <<spec, vms, clone, bounds>>

\* Reconcile writes lastCommit and lastPush; the rest of the pass is ArgoCD's.
Report ==
    /\ pc = "report"
    /\ EndPass
    /\ UNCHANGED <<spec, vms, remote, clone, bounds>>

\* /tmp goes with the container.
Restart ==
    /\ restarts < MaxRestarts
    /\ restarts' = restarts + 1
    /\ clone' = [g \in VGSs |-> None]
    /\ EndPass
    /\ UNCHANGED <<spec, vms, remote, userOps, gitOps>>

-----------------------------------------------------------------------------
Init ==
    /\ spec \in [VGSs -> [url : URLs, branch : Branches, secret : Secrets]]
    /\ vms \in [VGSs -> Contents \cup {None}]
    /\ remote = [u \in URLs |-> [b \in Branches |->
                    IF <<u, b>> \in Existing THEN <<FirstCommit>> ELSE <<>>]]
    /\ clone = [g \in VGSs |-> None]
    /\ at = None /\ pc = "idle" /\ serving = None
    /\ userOps = 0 /\ gitOps = 0 /\ restarts = 0

Pass(g) == \/ NewManager(g) \/ Clone(g) \/ Pull(g) \/ NothingToCommit(g) \/ CommitFiles(g)
           \/ PushMatchesNothing(g) \/ Push(g) \/ PushAnswerLost(g)

Next == \/ \E g \in VGSs : ChangeSpec(g) \/ ChangeVMs(g) \/ Pass(g)
        \/ \E u \in URLs, b \in Branches : CommitByOther(u, b)
        \/ PassFails
        \/ Report
        \/ Restart

Spec == Init /\ [][Next]_vars

(* Fairness: the worker ends each pass, takes up every VirtGitSync again     *)
(* (the requeues of 30 s and 5 min), and no call fails every time.           *)
Fairness ==
    /\ WF_vars(PassFails) /\ WF_vars(Report)
    /\ \A g \in VGSs : /\ SF_vars(NewManager(g))
                       /\ SF_vars(Clone(g) \/ Pull(g))
                       /\ SF_vars(CommitFiles(g) \/ NothingToCommit(g))
                       /\ SF_vars(Push(g) \/ PushMatchesNothing(g))

FairSpec == Spec /\ Fairness

-----------------------------------------------------------------------------
(* Properties.                                                               *)

TypeOK ==
    /\ spec \in [VGSs -> [url : URLs, branch : Branches, secret : Secrets]]
    /\ vms \in [VGSs -> Contents \cup {None}]
    /\ remote \in [URLs -> [Branches -> Store!History]]
    /\ clone \in [VGSs -> LocalRepo \cup {None}]
    /\ at \in VGSs \cup {None}
    /\ pc \in {"idle", "clone", "pull", "write", "push", "report"}
    /\ serving \in Manager \cup {None}
    /\ userOps \in 0..MaxUserOps /\ gitOps \in 0..MaxGitOps /\ restarts \in 0..MaxRestarts
    /\ pc = "idle" <=> at = None
    /\ pc = "idle" <=> serving = None
    /\ pc \notin {"idle", "clone"} => clone[at] # None

\* A pass that reports success reports a commit that is in the branch its
\* spec named (controller 139-144: lastCommit and lastPush).
Reported == pc = "report" =>
                IsAncestor(clone[at].head, remote[serving.url][serving.branch])

\* What a commit of the pass stands on: the fetched branch is still, or is an
\* ancestor of, the remote one, and the pass has added one commit of its own.
PassInv ==
    /\ pc = "write" => /\ clone[at].head # <<>>
                       /\ IsAncestor(clone[at].head, Fetched(at))
    /\ pc = "push" =>
          LET h == clone[at].head
          IN /\ Len(h) > 1
             /\ h[Len(h)].by = at
             /\ Store!OwnChange(at, h[Len(h) - 1].tree, h[Len(h)].tree)
             /\ IsAncestor(SubSeq(h, 1, Len(h) - 1), Fetched(at))

\* The clone of g was made for the repository and the branch m names.
MadeFor(g, m) == clone[g].origin = m.url /\ clone[g].on = m.branch

\* The same for passes whose clone was made for that repository and branch.
ReportedIsPublished == (pc = "report" /\ MadeFor(at, serving)) => Reported

\* Every branch is a linear history that only grows, and a VirtGitSync adds
\* one commit at a time that changes only the files under its sync path,
\* whatever its spec was changed to and whoever else pushes.
StoreSafe == Store!Spec

\* g can be served: usable credentials, an existing branch, and a clone, if
\* there is one, of that repository and branch.
Served(g) ==
    /\ ~SetupAuthFails(spec[g].secret)
    /\ Auth(spec[g].secret) \in Admits[spec[g].url]
    /\ remote[spec[g].url][spec[g].branch] # <<>>
    /\ clone[g] # None => MadeFor(g, spec[g])

\* In the end the branch a VirtGitSync names holds its VMs, whatever failed,
\* was changed or was lost before, unless something only a user can mend
\* stands in the way.
MirrorsSpec ==
    \A g \in VGSs : <>[]Served(g) => <>[]Holds(spec[g].url, spec[g].branch, g)
=============================================================================
