---------------------------- MODULE ArgoOwnership ----------------------------
(***************************************************************************)
(* Several VirtGitSyncs and the ArgoCD resources the operator keeps for    *)
(* them: an Application and a repository Secret each, in ArgoCD's          *)
(* namespace, where no owner reference can tell whose they are.  A label   *)
(* does.  Application names are chosen by users and may clash; Secret      *)
(* names are put together from a namespace and a name and may clash too.   *)
(*                                                                         *)
(* One worker reconciles one VirtGitSync at a time.  It reads every object *)
(* from the informers' cache and writes to the API server, which refuses   *)
(* an update of an object that changed since the version the cache holds.  *)
(* The git part of a pass is VMSync's; here it only takes time or fails.   *)
(***************************************************************************)
EXTENDS Naturals

CONSTANTS
    VGSs,           \* the VirtGitSyncs that may exist
    Apps,           \* names of Applications
    Secrets,        \* names of repository Secrets
    AppName,        \* the Application each VirtGitSync names
    SecretName,     \* the Secret name derived for each VirtGitSync
    None,           \* no such object; no owner label
    SecretsWritable,\* the operator's role lets it create, update and delete Secrets
    CanFail,        \* deletions whose errors finalization ignores: "app", "repo"
    MaxUserOps      \* bound on the users' API calls

\* argo: spec.argocd.enabled.  fin: the operator's (VirtGitSync) or ArgoCD's
\* (Application) finalizer.  spec: whose repository the Application points at.
\* sync: the operation field is set.
VirtGitSync == [argo : BOOLEAN, fin : BOOLEAN, term : BOOLEAN]
Application == [owner : VGSs \cup {None}, spec : VGSs \cup {None},
                fin : BOOLEAN, term : BOOLEAN, sync : BOOLEAN]
Secret      == [owner : VGSs]       \* and that VirtGitSync's URL and credentials

Names == VGSs \cup Apps \cup Secrets

ASSUME NamesAssumption ==
    /\ AppName \in [VGSs -> Apps]
    /\ SecretName \in [VGSs -> Secrets]
    /\ VGSs \cap Apps = {} /\ VGSs \cap Secrets = {} /\ Apps \cap Secrets = {}
    /\ None \notin Names \cup VirtGitSync \cup Application \cup Secret

ASSUME ParameterAssumption ==
    /\ SecretsWritable \in BOOLEAN
    /\ CanFail \subseteq {"app", "repo"}
    /\ MaxUserOps \in Nat

VARIABLES
    obj,        \* the objects on the API server
    seen,       \* the objects in the informers' cache
    lag,        \* names whose object changed since the cached version
    pc,         \* the next step of the worker
    who,        \* the VirtGitSync it reconciles
    argo,       \* spec.argocd.enabled as the pass read it
    fresh,      \* nobody changed that VirtGitSync since it was read
    userOps

apiVars  == <<obj, lag>>
passVars == <<pc, who, argo>>
vars     == <<obj, seen, lag, pc, who, argo, fresh, userOps>>

-----------------------------------------------------------------------------
(* The API server and the informers.                                         *)

Store(n, x) == /\ obj' = [obj EXCEPT ![n] = x]
               /\ lag' = lag \cup {n}

StoreByOther(n, x) == /\ Store(n, x)
                      /\ fresh' = (fresh /\ n # who)
                      /\ UNCHANGED <<seen, passVars>>

\* A Delete call names the object and carries no version: it hits whatever is
\* there, which stays until its finalizers are gone.
Deleted(x) == IF x.fin THEN [x EXCEPT !.term = TRUE] ELSE None

\* The informer catches up with one object, skipping versions in between.  The
\* operator takes an Application only from nobody and with an up-to-date cache,
\* so no version that is skipped names another owner.
Observe(n) ==
    /\ n \in lag
    /\ seen' = [seen EXCEPT ![n] = obj[n]]
    /\ lag' = lag \ {n}
    /\ UNCHANGED <<obj, passVars, fresh, userOps>>

-----------------------------------------------------------------------------
(* Users and ArgoCD.                                                         *)

UserWrites == userOps < MaxUserOps /\ userOps' = userOps + 1

NewVgs == [argo : BOOLEAN, fin : {FALSE}, term : {FALSE}]

\* An Application that was not made by the operator carries no owner label.
NewApplication == [owner |-> None, spec |-> None, fin |-> FALSE, term |-> FALSE, sync |-> FALSE]

UserCreatesVgs(v) ==
    /\ UserWrites
    /\ obj[v] = None
    /\ \E x \in NewVgs : StoreByOther(v, x)

UserTogglesArgo(v) ==
    /\ UserWrites
    /\ obj[v] # None
    /\ StoreByOther(v, [obj[v] EXCEPT !.argo = ~obj[v].argo])

UserDeletes(n) ==
    /\ UserWrites
    /\ obj[n] # None
    /\ ~obj[n].term
    /\ StoreByOther(n, Deleted(obj[n]))

UserCreatesApp(a) ==
    /\ UserWrites
    /\ obj[a] = None
    /\ StoreByOther(a, NewApplication)

\* ArgoCD finishes a sync.
ArgoSyncs(a) ==
    /\ obj[a] # None
    /\ obj[a].sync
    /\ StoreByOther(a, [obj[a] EXCEPT !.sync = FALSE])
    /\ UNCHANGED userOps

\* ArgoCD's finalizer has deleted the VMs of the Application and lets it go.
ArgoCascades(a) ==
    /\ obj[a] # None
    /\ obj[a].term
    /\ StoreByOther(a, None)
    /\ UNCHANGED userOps

-----------------------------------------------------------------------------
(* Reconcile.                                                                *)

Goto(step) == /\ pc' = step
              /\ UNCHANGED <<seen, who, argo, fresh, userOps>>

Leave == /\ pc' = "idle" /\ who' = None /\ argo' = FALSE /\ fresh' = FALSE
         /\ UNCHANGED <<seen, userOps>>

\* What API calls a pass makes: an update is refused if the cached version it
\* is based on is not the server's, a creation if the object is there already.
Update(n, x) == /\ n \notin lag
                /\ Store(n, x)

Create(n, x) == /\ obj[n] = None
                /\ Store(n, x)

\* Any call of a pass may fail, and git may; the pass is repeated later.
Fails ==
    /\ pc \in {"addfin", "git", "repo", "app", "sync", "unfin"}
    /\ Leave
    /\ UNCHANGED apiVars

DeletionOverlooked(x) == IF x.fin THEN "git" ELSE "addfin"          \* mutant
FinalizerLater(x) == IF ~x.term THEN "git" ELSE "unfin"             \* mutant

\* A VirtGitSync is taken from the queue and read from the cache.  If it is
\* being deleted and carries no finalizer there is nothing to do.
FirstStep(x) == CASE ~x.term /\ ~x.fin -> "addfin"
                  [] ~x.term /\ x.fin  -> "git"
                  [] x.term /\ x.argo  -> "delapp"
                  [] x.term /\ ~x.argo -> "unfin"

Begin(v) ==
    /\ pc = "idle"
    /\ seen[v] # None
    /\ seen[v].term => seen[v].fin
    /\ pc' = FirstStep(seen[v])
    /\ who' = v
    /\ argo' = seen[v].argo
    /\ fresh' = (v \notin lag)
    /\ UNCHANGED <<apiVars, seen, userOps>>

\* The finalizer is on the VirtGitSync before anything is made for it.
AddFinalizer ==
    /\ pc = "addfin"
    /\ fresh
    /\ Store(who, [obj[who] EXCEPT !.fin = TRUE])
    /\ Goto("git")

ArgoAnyway == /\ pc = "git" /\ Goto("repo") /\ UNCHANGED apiVars    \* mutant

SyncGit ==
    /\ pc = "git"
    /\ IF argo THEN Goto("repo") ELSE Leave
    /\ UNCHANGED apiVars

\* ReconcileRepository does not look at the label of a Secret it finds.
ReconcileRepository ==
    /\ pc = "repo"
    /\ SecretsWritable
    /\ LET s == SecretName[who]
       IN IF seen[s] = None THEN Create(s, [owner |-> who]) ELSE Update(s, [owner |-> who])
    /\ Goto("app")

OwnerIgnored(x) == FALSE            \* mutant
UnlabelledRefused(x) == x.owner # who   \* mutant

\* An Application that carries another VirtGitSync's label is left alone.
OwnedByOther(x) == x.owner \notin {None, who}

ReconcileApplication ==
    /\ pc = "app"
    /\ LET a == AppName[who]
           new == [owner |-> who, spec |-> who, fin |-> TRUE, term |-> FALSE, sync |-> FALSE]
       IN IF seen[a] = None
          THEN Create(a, new)
          ELSE /\ ~OwnedByOther(seen[a])
               /\ Update(a, [seen[a] EXCEPT !.owner = who, !.spec = who, !.fin = TRUE])
    /\ Goto("sync")

\* RetryOnConflict may outwait the cache; a failure is only logged.
TriggerSync ==
    /\ pc = "sync"
    /\ LET a == AppName[who]
       IN \/ seen[a] # None /\ Update(a, [seen[a] EXCEPT !.sync = TRUE])
          \/ UNCHANGED apiVars
    /\ Leave

-----------------------------------------------------------------------------
(* Finalization of a VirtGitSync.                                            *)

Mine(x) == x.owner = who

\* An error of the deletion is logged and finalization goes on.
DeleteApplication ==
    /\ pc = "delapp"
    /\ LET a == AppName[who]
       IN \/ /\ seen[a] # None
             /\ Mine(seen[a])
             /\ IF obj[a] # None THEN Store(a, Deleted(obj[a])) ELSE UNCHANGED apiVars
          \/ /\ seen[a] # None => ~Mine(seen[a]) \/ "app" \in CanFail
             /\ UNCHANGED apiVars
    /\ Goto("delrepo")

\* The Secret is deleted by its name, whatever its label says.
DeleteRepository ==
    /\ pc = "delrepo"
    /\ LET s == SecretName[who]
       IN \/ /\ seen[s] # None
             /\ SecretsWritable
             /\ IF obj[s] # None THEN Store(s, None) ELSE UNCHANGED apiVars
          \/ /\ seen[s] # None => "repo" \in CanFail \/ ~SecretsWritable
             /\ UNCHANGED apiVars
    /\ Goto("unfin")

RemoveFinalizer ==
    /\ pc = "unfin"
    /\ fresh
    /\ Store(who, None)
    /\ Leave

-----------------------------------------------------------------------------
Init ==
    /\ obj = [n \in Names |-> None] /\ seen = obj /\ lag = {}
    /\ pc = "idle" /\ who = None /\ argo = FALSE /\ fresh = FALSE
    /\ userOps = 0

User == \/ \E v \in VGSs : UserCreatesVgs(v) \/ UserTogglesArgo(v) \/ UserDeletes(v)
        \/ \E a \in Apps : UserCreatesApp(a) \/ UserDeletes(a)

ArgoCD == \E a \in Apps : ArgoSyncs(a) \/ ArgoCascades(a)

PassStep == \/ AddFinalizer \/ SyncGit
            \/ ReconcileRepository \/ ReconcileApplication \/ TriggerSync
            \/ DeleteApplication \/ DeleteRepository \/ RemoveFinalizer

Worker == Fails \/ PassStep \/ \E v \in VGSs : Begin(v)

Next == User \/ ArgoCD \/ Worker \/ \E n \in Names : Observe(n)

Spec == Init /\ [][Next]_vars

-----------------------------------------------------------------------------
\* The queue is fair, the worker and the informers keep running, and no call of
\* the passes taken together fails every time it is tried.
Fairness ==
    /\ \A n \in Names : WF_vars(Observe(n))
    /\ \A a \in Apps : WF_vars(ArgoCascades(a))
    /\ WF_vars(Worker)
    /\ \A v \in VGSs : SF_vars(Begin(v))
    /\ SF_vars(argo /\ SyncGit) /\ SF_vars(ReconcileRepository) /\ SF_vars(ReconcileApplication)
    /\ SF_vars(AddFinalizer \/ RemoveFinalizer)

FairSpec == Spec /\ Fairness

-----------------------------------------------------------------------------
Objects(n) == IF n \in VGSs THEN VirtGitSync
              ELSE IF n \in Apps THEN Application ELSE Secret

Steps == {"idle", "addfin", "git", "repo", "app", "sync", "delapp", "delrepo", "unfin"}

TypeOK ==
    /\ obj \in [Names -> VirtGitSync \cup Application \cup Secret \cup {None}]
    /\ seen \in [Names -> VirtGitSync \cup Application \cup Secret \cup {None}]
    /\ \A n \in Names : {obj[n], seen[n]} \subseteq Objects(n) \cup {None}
    /\ lag \subseteq Names
    /\ pc \in Steps
    /\ who \in VGSs \cup {None}
    /\ (pc = "idle") = (who = None)
    /\ pc \in {"repo", "app", "sync", "delapp", "delrepo"} => argo
    /\ argo \in BOOLEAN /\ fresh \in BOOLEAN
    /\ userOps \in 0..MaxUserOps

\* A pass for one VirtGitSync never changes or deletes the Application of
\* another, though it decides by a cached label and deletes by name (argocd
\* 121-126, 322-331).
OthersApplicationSafe ==
    [][\A a \in Apps : /\ pc # "idle" /\ pc' # pc
                       /\ obj[a] # None /\ obj[a].owner \in VGSs \ {who}
                       => obj'[a] = obj[a]]_vars

\* A pass for one VirtGitSync never deletes the repository Secret of another
\* (argocd 247: "the ArgoCD repository Secret owned by this VirtGitSync").
OthersSecretSafe ==
    [][\A s \in Secrets : pc = "delrepo" /\ obj[s] # None /\ obj[s].owner # who
                          => obj'[s] = obj[s]]_vars

\* The label in the cache and the label on the server never name two different
\* VirtGitSyncs: an Application passes from one to another only through nobody.
LabelsAgree ==
    \A a \in Apps :
        seen[a] # None /\ obj[a] # None /\ {seen[a].owner, obj[a].owner} \subseteq VGSs
        => seen[a].owner = obj[a].owner

\* While a pass works for a VirtGitSync its finalizer is on it, so that a
\* deletion waits for finalization, though the pass reads a cache that lags and
\* the object may be deleted and made again meanwhile (controller 120-126).
FinalizerFirst ==
    pc \in {"git", "repo", "app", "sync"} => obj[who] # None /\ obj[who].fin

\* The finalizer never makes a deleted VirtGitSync stay for ever (controller
\* 92-118), whatever fails on the way.
VgsDeletionCompletes == []<>(\A v \in VGSs : obj[v] # None => ~obj[v].term)

\* It has its Secret and its Application, or its Application is another's.
Served(v) == /\ obj[SecretName[v]] # None
             /\ obj[AppName[v]] # None
             /\ obj[AppName[v]].owner \in VGSs /\ ~obj[AppName[v]].term

Asks(v) == obj[v] # None /\ obj[v].argo /\ ~obj[v].term

\* Where the operator may write Secrets, a VirtGitSync with ArgoCD enabled is
\* served in the end, whatever was deleted, freed or taken by others before, and
\* even if its Secret is deleted as another's (argocd 52-157, 159-245).
VgsServed == <>[](\A v \in VGSs : SecretsWritable /\ Asks(v) => Served(v))

\* The same for the role the operator is installed with (README.md:12 "ArgoCD
\* integration: Automatically creates and manages Application CRs").
ServedAsInstalled == <>[](\A v \in VGSs : Asks(v) => Served(v))
=============================================================================
