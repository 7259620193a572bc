------------------------------ MODULE VGSStatus ------------------------------
(***************************************************************************)
(* The status of one VirtGitSync and what makes the reconcile worker run.  *)
(*                                                                         *)
(* Two goroutines write the whole status back from copies they took out of *)
(* the informer's cache: the VirtualMachine event handler, which counts an *)
(* event, and the reconcile pass, at its end.  The API server refuses a    *)
(* copy that is not current.  Every accepted change comes back as a watch  *)
(* event, which enqueues the VirtGitSync again, beside the handler and the *)
(* requeue timers.                                                         *)
(*                                                                         *)
(* One VM stands for those a selector may match; what a pass does to its   *)
(* file is the subject of VMSync.  Texts and times are left out.           *)
(***************************************************************************)
EXTENDS Naturals, Sequences

CONSTANTS
    None,           \* no VM; no copy; no phase or git status yet
    ArgoEnabled,    \* spec.argocd.enabled
    MaxVMOps,       \* bound on what others do to the VM
    MaxRestarts     \* bound on restarts of the operator

ASSUME ParameterAssumption ==
    /\ ArgoEnabled \in BOOLEAN
    /\ MaxVMOps \in Nat /\ MaxRestarts \in Nat

VARIABLES
    vm,         \* the VM, as the informer's cache shows it, or None
    events,     \* VM events queued for the handler, oldest first
    status,     \* the status the API server stores
    cached,     \* the status in the informer's cache
    lag,        \* the cache has an older version than the server
    \* The VirtualMachine event handler.
    hpc,        \* its next step
    hcopy,      \* the copy it updates
    hfresh,     \* that copy is of the server's version
    \* The work queue, which holds the one request once at most.
    queued,     \* the request waits for the worker
    dirty,      \* it was added while the worker serves it
    timer,      \* it is to be added when a requeue timer fires
    \* The reconcile worker.
    pc,         \* the next step of the pass
    copy,       \* the copy it updates
    fresh,      \* that copy is of the server's version
    \* Bounds.
    vmOps, restarts,
    \* History: read by properties, never by a guard.
    behind,     \* the files of the VM changed since a pass last listed VMs
    owed        \* the handler took up an event, and no pass has begun since

clusterVars == <<vm, events, vmOps>>
serverVars  == <<status, lag>>
handlerVars == <<hpc, hcopy, hfresh>>
queueVars   == <<queued, dirty>>
workerVars  == <<pc, copy, fresh>>
history     == <<behind, owed>>
vars == <<clusterVars, serverVars, cached, handlerVars, queueVars, timer, workerVars,
          restarts, history>>

\* vmEventCount, written together with lastVMEvent; phase; and gitStatus, by
\* whether it has a lastPush or a lastError.
Status == [count : Nat, phase : {None, "Running", "Failed"}, git : {None, "pushed", "error"}]

VM == [selected : BOOLEAN, fin : BOOLEAN]

ASSUME SentinelAssumption ==
    None \notin VM \cup Status \cup {"Running", "Failed", "pushed", "error"}

NoStatus == [count |-> 0, phase |-> None, git |-> None]

-----------------------------------------------------------------------------
(* The VM and the informer.  The cache is updated before the handler runs.   *)

\* vmMatchesSelector
Matches(v) == v # None /\ v.selected

\* The handler looks at one object only: the new one of an update, the last
\* one of a deletion.
Event(v) == [selected |-> Matches(v)]

VMCreated ==
    /\ vm = None
    /\ \E sel \in BOOLEAN : vm' = [selected |-> sel, fin |-> FALSE]
    /\ events' = Append(events, Event(vm'))

VMUpdated ==
    /\ vm # None
    /\ \E sel \in BOOLEAN : vm' = [vm EXCEPT !.selected = sel]
    /\ events' = Append(events, Event(vm'))

VMDeleted ==
    /\ vm # None
    /\ vm' = None
    /\ events' = Append(events, Event(vm))

ChangeVM ==
    /\ vmOps < MaxVMOps
    /\ vmOps' = vmOps + 1
    /\ VMCreated \/ VMUpdated \/ VMDeleted
    /\ behind' = (behind \/ Matches(vm) \/ Matches(vm'))
    /\ UNCHANGED <<serverVars, cached, handlerVars, queueVars, timer, workerVars, restarts, owed>>

-----------------------------------------------------------------------------
(* The work queue and the watch of the VirtGitSync.                          *)

Enqueue == IF pc = "idle" THEN queued' = TRUE /\ UNCHANGED dirty
                          ELSE dirty' = TRUE /\ UNCHANGED queued

\* The watch has no predicate: a change of the status alone enqueues, too.
DeliverVGS ==
    /\ lag
    /\ lag' = FALSE
    /\ cached' = status
    /\ Enqueue
    /\ UNCHANGED <<clusterVars, status, handlerVars, timer, workerVars, restarts, history>>

TimerFires ==
    /\ timer
    /\ timer' = FALSE
    /\ Enqueue
    /\ UNCHANGED <<clusterVars, serverVars, cached, handlerVars, workerVars, restarts, history>>

-----------------------------------------------------------------------------
(* enqueueVirtGitSyncs, run by the handler for each event.                   *)

\* The list fails, or the selector does not match: nothing is enqueued.
DropEvent ==
    /\ hpc = "idle"
    /\ events # <<>>
    /\ events' = Tail(events)
    /\ UNCHANGED <<vm, vmOps, serverVars, cached, handlerVars, queueVars, timer, workerVars,
                   restarts, history>>

TakeEvent ==
    /\ hpc = "idle"
    /\ events # <<>>
    /\ Head(events).selected
    /\ events' = Tail(events)
    /\ hpc' = "count"
    /\ hcopy' = cached
    /\ hfresh' = ~lag
    /\ owed' = TRUE
    /\ UNCHANGED <<vm, vmOps, serverVars, cached, queueVars, timer, workerVars, restarts, behind>>

AcceptsAny(isFresh) == TRUE         \* mutant

\* Optimistic locking of Status().Update.
Accepts(isFresh) == isFresh

Counted(c) == [c EXCEPT !.count = c.count + 1]

CountEvent ==
    /\ hpc = "count"
    /\ Accepts(hfresh)
    /\ status' = Counted(hcopy)
    /\ lag' = TRUE
    /\ fresh' = FALSE
    /\ hpc' = "enqueue" /\ hcopy' = None /\ hfresh' = FALSE
    /\ UNCHANGED <<clusterVars, cached, queueVars, timer, pc, copy, restarts, history>>

NextIdle == "idle"                  \* mutant

\* A failed update is logged, and the request added all the same.
AfterFailedCount == "enqueue"

CountFails ==
    /\ hpc = "count"
    /\ hpc' = AfterFailedCount /\ hcopy' = None /\ hfresh' = FALSE
    /\ UNCHANGED <<clusterVars, serverVars, cached, queueVars, timer, workerVars, restarts, history>>

AddRequest ==
    /\ hpc = "enqueue"
    /\ Enqueue
    /\ hpc' = "idle"
    /\ UNCHANGED <<clusterVars, serverVars, cached, hcopy, hfresh, timer, workerVars, restarts, history>>

-----------------------------------------------------------------------------
(* The reconcile pass.                                                       *)

BeginPass ==
    /\ pc = "idle"
    /\ queued
    /\ queued' = FALSE
    /\ pc' = "list"
    /\ copy' = cached
    /\ fresh' = ~lag
    /\ UNCHANGED <<clusterVars, serverVars, cached, handlerVars, dirty, timer, restarts, history>>

\* The clone is brought up to date and the VMs are listed from the cache.
ListVMs ==
    /\ pc = "list"
    /\ pc' = "git"
    /\ behind' = FALSE
    /\ owed' = FALSE
    /\ UNCHANGED <<clusterVars, serverVars, cached, handlerVars, queueVars, timer, copy, fresh, restarts>>

\* The operator's own update of the VM is an event like any other.
AddFinalizer ==
    /\ pc = "git"
    /\ Matches(vm)
    /\ ~vm.fin
    /\ vm' = [vm EXCEPT !.fin = TRUE]
    /\ events' = Append(events, Event(vm'))
    /\ UNCHANGED <<vmOps, serverVars, cached, handlerVars, queueVars, timer, workerVars, restarts, history>>

PushDone ==
    /\ pc = "git"
    /\ pc' = "end"
    /\ copy' = [copy EXCEPT !.git = "pushed"]
    /\ UNCHANGED <<clusterVars, serverVars, cached, handlerVars, queueVars, timer, fresh, restarts, history>>

RequeueNever == UNCHANGED timer     \* mutant

\* Every exit asks for another pass: after 30 s, 5 min, or with a backoff.
Requeue == timer' = TRUE

\* Reconcile returns: a requeue timer is set, and a request that was added
\* meanwhile is queued.
Return ==
    /\ pc' = "idle"
    /\ copy' = None
    /\ fresh' = FALSE
    /\ queued' = dirty
    /\ dirty' = FALSE
    /\ Requeue

\* Write the copy back.  Times and texts may differ from what is stored although
\* new looks the same; if they do not, nothing is stored.
WriteStatus(new) ==
    /\ Accepts(fresh)
    /\ status' = new
    /\ \/ lag' = TRUE /\ hfresh' = FALSE
       \/ new = status /\ UNCHANGED <<lag, hfresh>>

StatusRefused == UNCHANGED <<status, lag, hfresh>>

PhaseKept(c)    == [c EXCEPT !.git = "error"]                       \* mutant
PendingAgain(c) == [c EXCEPT !.git = "error", !.phase = "Pending"]  \* mutant

GitFailed(c) == [c EXCEPT !.git = "error", !.phase = "Failed"]

\* handleGitError: the update is tried, and the requeue is 30 s either way.
GitError ==
    /\ pc \in {"list", "git"}
    /\ WriteStatus(GitFailed(copy)) \/ StatusRefused
    /\ Return
    /\ owed' = IF pc = "list" THEN FALSE ELSE owed
    /\ UNCHANGED <<clusterVars, cached, hpc, hcopy, restarts, behind>>

\* handleArgoCDError: what the pass did to git is written, the phase stays.
ArgoError ==
    /\ pc = "end"
    /\ ArgoEnabled
    /\ WriteStatus(copy) \/ StatusRefused
    /\ Return
    /\ UNCHANGED <<clusterVars, cached, hpc, hcopy, restarts, history>>

PhaseForgotten(c) == c              \* mutant

\* updateStatus
Succeeded(c) == [c EXCEPT !.phase = "Running"]

PassSucceeds ==
    /\ pc = "end"
    /\ WriteStatus(Succeeded(copy))
    /\ Return
    /\ UNCHANGED <<clusterVars, cached, hpc, hcopy, restarts, history>>

\* updateStatus fails: Reconcile returns the error, which requeues as well.
StatusConflict ==
    /\ pc = "end"
    /\ StatusRefused
    /\ Return
    /\ UNCHANGED <<clusterVars, cached, hpc, hcopy, restarts, history>>

-----------------------------------------------------------------------------
(* The operator restarts.  Its informers list everything anew: the existing  *)
(* VM comes as a Create event, the VirtGitSync is enqueued.                  *)
Restart ==
    /\ restarts < MaxRestarts
    /\ restarts' = restarts + 1
    /\ events' = IF vm = None THEN <<>> ELSE <<Event(vm)>>
    /\ cached' = status /\ lag' = FALSE
    /\ hpc' = "idle" /\ hcopy' = None /\ hfresh' = FALSE
    /\ queued' = TRUE /\ dirty' = FALSE /\ timer' = FALSE
    /\ pc' = "idle" /\ copy' = None /\ fresh' = FALSE
    /\ UNCHANGED <<vm, vmOps, status, history>>

-----------------------------------------------------------------------------
\* A VirtGitSync just made: its Create event enqueues it.
Init ==
    /\ vm \in {None} \cup [selected : BOOLEAN, fin : {FALSE}]
    /\ events = IF vm = None THEN <<>> ELSE <<Event(vm)>>
    /\ status = NoStatus /\ cached = NoStatus /\ lag = FALSE
    /\ hpc = "idle" /\ hcopy = None /\ hfresh = FALSE
    /\ queued = TRUE /\ dirty = FALSE /\ timer = FALSE
    /\ pc = "idle" /\ copy = None /\ fresh = FALSE
    /\ vmOps = 0 /\ restarts = 0
    /\ behind = Matches(vm) /\ owed = FALSE

Handler == DropEvent \/ TakeEvent \/ CountEvent \/ CountFails \/ AddRequest

Worker == \/ BeginPass \/ ListVMs \/ AddFinalizer \/ PushDone
          \/ GitError \/ ArgoError \/ PassSucceeds \/ StatusConflict

Next == ChangeVM \/ DeliverVGS \/ TimerFires \/ Handler \/ Worker \/ Restart

Spec == Init /\ [][Next]_vars

(* Fairness: timers fire, watch events arrive, the handler and the worker    *)
(* keep running; a git, ArgoCD or status call may fail any number of times,  *)
(* but not every time, nor every time that the pass's copy is current, which *)
(* those calls know nothing of.                                              *)
Fairness ==
    /\ WF_vars(DeliverVGS) /\ WF_vars(TimerFires) /\ WF_vars(Handler) /\ WF_vars(Worker)
    /\ SF_vars(fresh /\ ListVMs) /\ SF_vars(fresh /\ PushDone) /\ SF_vars(PassSucceeds)

FairSpec == Spec /\ Fairness

-----------------------------------------------------------------------------
(* Properties.                                                               *)

TypeOK ==
    /\ vm \in VM \cup {None}
    /\ events \in Seq([selected : BOOLEAN])
    /\ status \in Status /\ cached \in Status
    /\ hcopy \in Status \cup {None} /\ copy \in Status \cup {None}
    /\ hpc \in {"idle", "count", "enqueue"}
    /\ pc \in {"idle", "list", "git", "end"}
    /\ lag \in BOOLEAN /\ hfresh \in BOOLEAN /\ fresh \in BOOLEAN
    /\ queued \in BOOLEAN /\ dirty \in BOOLEAN /\ timer \in BOOLEAN
    /\ behind \in BOOLEAN /\ owed \in BOOLEAN
    /\ vmOps \in 0..MaxVMOps /\ restarts \in 0..MaxRestarts
    /\ hpc = "count" <=> hcopy # None
    /\ pc # "idle" => copy # None
    /\ pc = "idle" => ~dirty

\* No status write takes back the count of an event: a pass writes back a copy
\* that may be older (controller 141-144, 162, 193, 964-973).
EventsKept == [][status'.count \in {status.count, status.count + 1}]_vars

\* An event that the handler took up leads to a pass at once, not only when a
\* timer fires, whether or not it could be counted (controller 895-925).
EventIsQueued == owed => hpc # "idle" \/ queued \/ dirty \/ pc = "list"

\* The VirtGitSync is never forgotten: it is queued, served or has a timer.
NeverForgotten == queued \/ timer \/ pc # "idle"

\* phase and gitStatus agree, although the exits of a pass write them in
\* different places and some write one only (controller 141-162, 478-482,
\* 507-521).
PhaseExplained ==
    /\ status.phase = "Running" => status.git = "pushed"
    /\ status.git = "error" => status.phase = "Failed"

\* Again and again every change of the VM's files is served and the status is
\* Running: also if an event was dropped, because the list failed or the VM's
\* new labels do not match, and although VM events, the ones the pass itself
\* causes included, make the copies of passes stale.
ServedAndRunning == []<>(~behind /\ status.phase = "Running")
=============================================================================
