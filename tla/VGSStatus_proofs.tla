--------------------------- MODULE VGSStatus_proofs ---------------------------
(***************************************************************************)
(* Theorems about VGSStatus, for any number of VM events and restarts.     *)
(*                                                                         *)
(* That no count is taken back rests on FreshInv: a copy the API server    *)
(* accepts has the count that is stored, since every write of one          *)
(* goroutine makes the other's copy, and the cache, old.                   *)
(***************************************************************************)
EXTENDS VGSStatus, TLAPS

\* Events say whether the object they carry is selected.
LEMMA EventType == ASSUME NEW v \in VM \cup {None} PROVE Event(v) \in [selected : BOOLEAN]
<1>1. Matches(v) \in BOOLEAN
  BY DEF Matches, VM
<1> QED  BY <1>1 DEF Event

\* So do the events of a start.
LEMMA ListedType ==
    ASSUME NEW v \in VM \cup {None}
    PROVE  (IF v = None THEN <<>> ELSE <<Event(v)>>) \in Seq([selected : BOOLEAN])
<1>1. Event(v) \in [selected : BOOLEAN]
  BY EventType
<1>2. CASE v = None
  BY <1>2
<1>3. CASE v # None
  BY <1>1, <1>3
<1> QED  BY <1>2, <1>3

LEMMA InitType == Init => TypeOK
<1> SUFFICES ASSUME Init PROVE TypeOK
  OBVIOUS
<1>0. NoStatus \in Status
  BY DEF NoStatus, Status
<1>1. vm \in VM \cup {None}
  <2> DEFINE New == [selected : BOOLEAN, fin : {FALSE}]
  <2>1. New \subseteq VM
    BY DEF VM
  <2>2. vm \in {None} \cup New
    BY DEF Init
  <2> HIDE DEF New
  <2> QED  BY <2>1, <2>2
<1>2. events \in Seq([selected : BOOLEAN])
  BY <1>1, ListedType DEF Init
<1>3. Matches(vm) \in BOOLEAN
  BY <1>1 DEF Matches, VM
<1>4. /\ lag \in BOOLEAN /\ hfresh \in BOOLEAN /\ fresh \in BOOLEAN
      /\ queued \in BOOLEAN /\ dirty \in BOOLEAN /\ timer \in BOOLEAN
      /\ behind \in BOOLEAN /\ owed \in BOOLEAN
  BY <1>3 DEF Init
<1>5. /\ status \in Status /\ cached \in Status /\ hcopy = None /\ copy = None
      /\ hpc = "idle" /\ pc = "idle" /\ ~dirty
      /\ vmOps \in 0..MaxVMOps /\ restarts \in 0..MaxRestarts
  BY <1>0, ParameterAssumption DEF Init
<1> QED  BY <1>1, <1>2, <1>4, <1>5 DEF TypeOK

\* What the writers store is a status.
LEMMA CopiesType ==
    ASSUME NEW c \in Status
    PROVE  /\ Counted(c) \in Status /\ Counted(c).count = c.count + 1
           /\ GitFailed(c) \in Status /\ Succeeded(c) \in Status
           /\ [c EXCEPT !.git = "pushed"] \in Status
           /\ GitFailed(c).count = c.count /\ Succeeded(c).count = c.count
           /\ [c EXCEPT !.git = "pushed"].count = c.count
<1>1. /\ c.count \in Nat /\ c.count + 1 \in Nat
      /\ c.phase \in {None, "Running", "Failed"} /\ c.git \in {None, "pushed", "error"}
  BY DEF Status
<1>2. \A n \in Nat : [c EXCEPT !.count = n] \in Status /\ [c EXCEPT !.count = n].count = n
  BY DEF Status
<1>3. \A p \in {None, "Running", "Failed"} :
        [c EXCEPT !.phase = p] \in Status /\ [c EXCEPT !.phase = p].count = c.count
  BY DEF Status
<1>4. \A g \in {None, "pushed", "error"} :
        [c EXCEPT !.git = g] \in Status /\ [c EXCEPT !.git = g].count = c.count
  BY DEF Status
<1>5. /\ [c EXCEPT !.git = "error", !.phase = "Failed"] \in Status
      /\ [c EXCEPT !.git = "error", !.phase = "Failed"].count = c.count
  BY DEF Status
<1> QED  BY <1>1, <1>2, <1>3, <1>4, <1>5 DEF Counted, GitFailed, Succeeded

\* The exits of a pass.
Exit == GitError \/ ArgoError \/ PassSucceeds \/ StatusConflict

\* A pass ends with its copy, as it is or as one of the exits changes it,
\* stored or not.
LEMMA ExitStores ==
    ASSUME TypeOK, Exit
    PROVE  /\ copy \in Status /\ status' \in Status /\ lag' \in BOOLEAN /\ hfresh' \in BOOLEAN
           /\ \/ status' = status /\ lag' = lag /\ hfresh' = hfresh
              \/ /\ fresh
                 /\ status' \in {GitFailed(copy), Succeeded(copy), copy}
                 /\ status' = GitFailed(copy) \/ pc = "end"
                 /\ \/ lag' = TRUE /\ hfresh' = FALSE
                    \/ status' = status /\ lag' = lag /\ hfresh' = hfresh
<1>1. copy \in Status
  BY DEF TypeOK, Exit, GitError, ArgoError, PassSucceeds, StatusConflict
<1>2. GitFailed(copy) \in Status /\ Succeeded(copy) \in Status
  BY <1>1, CopiesType
<1>3. ASSUME NEW new \in Status, WriteStatus(new)
      PROVE  /\ fresh /\ status' = new /\ status' \in Status
             /\ lag' \in BOOLEAN /\ hfresh' \in BOOLEAN
             /\ \/ lag' = TRUE /\ hfresh' = FALSE
                \/ status' = status /\ lag' = lag /\ hfresh' = hfresh
  BY <1>3 DEF WriteStatus, Accepts, TypeOK
<1>4. CASE StatusRefused
  BY <1>1, <1>4 DEF StatusRefused, TypeOK
<1>5. CASE GitError
  <2>1. CASE WriteStatus(GitFailed(copy))
    BY <1>1, <1>2, <1>3, <2>1
  <2> QED  BY <1>4, <1>5, <2>1 DEF GitError
<1>6. CASE ArgoError
  <2>1. CASE WriteStatus(copy)
    BY <1>1, <1>3, <1>6, <2>1 DEF ArgoError
  <2> QED  BY <1>4, <1>6, <2>1 DEF ArgoError
<1>7. CASE PassSucceeds
  BY <1>1, <1>2, <1>3, <1>7 DEF PassSucceeds
<1>8. CASE StatusConflict
  BY <1>4, <1>8 DEF StatusConflict
<1> QED  BY <1>5, <1>6, <1>7, <1>8 DEF Exit

\* The request is added to the queue, or kept for the end of the pass.
LEMMA EnqueueAdds ==
    ASSUME TypeOK, Enqueue
    PROVE  /\ queued' \in BOOLEAN /\ dirty' \in BOOLEAN
           /\ pc = "idle" => ~dirty' /\ queued'
           /\ pc # "idle" => dirty' /\ queued' = queued
<1>1. CASE pc = "idle"
  BY <1>1 DEF Enqueue, TypeOK
<1>2. CASE pc # "idle"
  BY <1>2 DEF Enqueue, TypeOK
<1> QED  BY <1>1, <1>2

\* TypeOK is inductive.
LEMMA NextType == TypeOK /\ [Next]_vars => TypeOK'
<1> SUFFICES ASSUME TypeOK, [Next]_vars PROVE TypeOK'
  OBVIOUS
<1>1. ASSUME ChangeVM PROVE TypeOK'
  <2>1. vm' \in VM \cup {None} /\ events' \in Seq([selected : BOOLEAN])
    <3>1. CASE VMCreated
      <4>1. vm' \in VM
        BY <3>1 DEF VMCreated, VM
      <4> QED  BY <3>1, <4>1, EventType DEF VMCreated, TypeOK
    <3>2. CASE VMUpdated
      <4>1. vm' \in VM
        BY <3>2 DEF VMUpdated, VM, TypeOK
      <4> QED  BY <3>2, <4>1, EventType DEF VMUpdated, TypeOK
    <3>3. CASE VMDeleted
      BY <3>3, EventType DEF VMDeleted, TypeOK
    <3> QED  BY <1>1, <3>1, <3>2, <3>3 DEF ChangeVM
  <2>2. behind' \in BOOLEAN
    BY <1>1 DEF ChangeVM
  <2>3. vmOps' \in 0..MaxVMOps
    BY <1>1, ParameterAssumption DEF ChangeVM, TypeOK
  <2> QED
    BY <1>1, <2>1, <2>2, <2>3
    DEF ChangeVM, TypeOK, serverVars, handlerVars, queueVars, workerVars
<1>2. ASSUME DeliverVGS PROVE TypeOK'
  BY <1>2, EnqueueAdds DEF DeliverVGS, TypeOK, clusterVars, handlerVars, workerVars, history
<1>3. ASSUME TimerFires PROVE TypeOK'
  BY <1>3, EnqueueAdds DEF TimerFires, TypeOK, clusterVars, serverVars, handlerVars, workerVars, history
<1>4. ASSUME DropEvent PROVE TypeOK'
  BY <1>4 DEF DropEvent, TypeOK, serverVars, handlerVars, queueVars, workerVars, history
<1>5. ASSUME TakeEvent PROVE TypeOK'
  BY <1>5, SentinelAssumption DEF TakeEvent, TypeOK, serverVars, queueVars, workerVars
<1>6. ASSUME CountEvent PROVE TypeOK'
  <2>1. hcopy \in Status
    BY <1>6 DEF CountEvent, TypeOK
  <2>2. Counted(hcopy) \in Status
    BY <2>1, CopiesType
  <2> QED  BY <1>6, <2>2 DEF CountEvent, TypeOK, clusterVars, queueVars, history
<1>7. ASSUME CountFails PROVE TypeOK'
  BY <1>7 DEF CountFails, AfterFailedCount, TypeOK, clusterVars, serverVars, queueVars, workerVars, history
<1>8. ASSUME AddRequest PROVE TypeOK'
  BY <1>8, EnqueueAdds DEF AddRequest, TypeOK, clusterVars, serverVars, workerVars, history
<1>9. ASSUME BeginPass PROVE TypeOK'
  BY <1>9, SentinelAssumption DEF BeginPass, TypeOK, clusterVars, serverVars, handlerVars, history
<1>10. ASSUME ListVMs PROVE TypeOK'
  BY <1>10 DEF ListVMs, TypeOK, clusterVars, serverVars, handlerVars, queueVars
<1>11. ASSUME AddFinalizer PROVE TypeOK'
  <2>1. vm' \in VM
    BY <1>11 DEF AddFinalizer, Matches, TypeOK, VM
  <2>2. events' \in Seq([selected : BOOLEAN])
    BY <1>11, <2>1, EventType DEF AddFinalizer, TypeOK
  <2> QED
    BY <1>11, <2>1, <2>2
    DEF AddFinalizer, TypeOK, serverVars, handlerVars, queueVars, workerVars, history
<1>12. ASSUME PushDone PROVE TypeOK'
  <2>1. copy \in Status
    BY <1>12 DEF PushDone, TypeOK
  <2>2. copy' \in Status
    BY <1>12, <2>1, CopiesType DEF PushDone
  <2> QED
    BY <1>12, <2>2, SentinelAssumption
    DEF PushDone, TypeOK, clusterVars, serverVars, handlerVars, queueVars, history
<1>13. ASSUME Exit PROVE TypeOK'
  <2>1. status' \in Status /\ lag' \in BOOLEAN /\ hfresh' \in BOOLEAN
    BY <1>13, ExitStores
  <2>2. /\ Return /\ UNCHANGED <<clusterVars, cached, hpc, hcopy, restarts, behind>>
        /\ owed' \in BOOLEAN
    BY <1>13 DEF Exit, GitError, ArgoError, PassSucceeds, StatusConflict, history, TypeOK
  <2> QED  BY <2>1, <2>2 DEF Return, Requeue, TypeOK, clusterVars
<1>14. ASSUME Restart PROVE TypeOK'
  <2>1. events' \in Seq([selected : BOOLEAN])
    BY <1>14, ListedType DEF Restart, TypeOK
  <2>2. restarts' \in 0..MaxRestarts
    BY <1>14, ParameterAssumption DEF Restart, TypeOK
  <2> QED  BY <1>14, <2>1, <2>2 DEF Restart, TypeOK, history
<1>15. CASE UNCHANGED vars
  BY <1>15
  DEF vars, TypeOK, clusterVars, serverVars, handlerVars, queueVars, workerVars, history
<1> QED
  BY <1>1, <1>2, <1>3, <1>4, <1>5, <1>6, <1>7, <1>8, <1>9, <1>10, <1>11, <1>12, <1>13,
     <1>14, <1>15
  DEF Next, Handler, Worker, Exit

-----------------------------------------------------------------------------
(* Type correctness: every variable keeps its type, the handler has a copy   *)
(* exactly while it counts, and a pass that runs has one.                    *)
THEOREM TypeCorrect == Spec => []TypeOK
<1> QED  BY InitType, NextType, PTL DEF Spec

-----------------------------------------------------------------------------
(* The VirtGitSync is always queued, in service or behind a timer, and an    *)
(* event taken up has its request on the way.  A request that is queued is   *)
(* not served: the queue holds the VirtGitSync once.                         *)
QueueInv ==
    /\ NeverForgotten
    /\ EventIsQueued
    /\ pc # "idle" => ~queued

LEMMA NextQueue == TypeOK /\ QueueInv /\ [Next]_vars => QueueInv'
<1> SUFFICES ASSUME TypeOK, QueueInv, [Next]_vars PROVE QueueInv'
  OBVIOUS
<1> USE DEF QueueInv, NeverForgotten, EventIsQueued
<1>1. ASSUME ChangeVM \/ DropEvent \/ AddFinalizer PROVE QueueInv'
  BY <1>1
  DEF ChangeVM, DropEvent, AddFinalizer, handlerVars, queueVars, workerVars, history
<1>2. ASSUME DeliverVGS \/ TimerFires PROVE QueueInv'
  BY <1>2, EnqueueAdds DEF DeliverVGS, TimerFires, handlerVars, workerVars, history
<1>3. ASSUME TakeEvent \/ CountEvent \/ CountFails PROVE QueueInv'
  BY <1>3
  DEF TakeEvent, CountEvent, CountFails, AfterFailedCount, queueVars, workerVars, history
<1>4. ASSUME AddRequest PROVE QueueInv'
  BY <1>4, EnqueueAdds DEF AddRequest, workerVars, history
<1>5. ASSUME BeginPass \/ ListVMs \/ PushDone PROVE QueueInv'
  BY <1>5 DEF BeginPass, ListVMs, PushDone, handlerVars, queueVars, history
<1>6. ASSUME Exit PROVE QueueInv'
  <2>1. Return /\ hpc' = hpc /\ pc # "idle"
    BY <1>6 DEF Exit, GitError, ArgoError, PassSucceeds, StatusConflict
  <2>2. owed' => owed /\ pc # "list"
    <3>1. CASE GitError
      BY <3>1 DEF GitError
    <3>2. CASE ArgoError \/ PassSucceeds \/ StatusConflict
      BY <3>2 DEF ArgoError, PassSucceeds, StatusConflict, history
    <3> QED  BY <1>6, <3>1, <3>2 DEF Exit
  <2> QED  BY <2>1, <2>2 DEF Return, Requeue
<1>7. ASSUME Restart PROVE QueueInv'
  BY <1>7 DEF Restart, history
<1>8. CASE UNCHANGED vars
  BY <1>8 DEF vars, handlerVars, queueVars, workerVars, history
<1> QED
  BY <1>1, <1>2, <1>3, <1>4, <1>5, <1>6, <1>7, <1>8 DEF Next, Handler, Worker, Exit

LEMMA QueueHolds == Spec => []QueueInv
<1>1. Init => QueueInv
  BY DEF Init, QueueInv, NeverForgotten, EventIsQueued
<1> QED  BY <1>1, NextQueue, TypeCorrect, PTL DEF Spec

\* A VirtGitSync is never forgotten: whatever fails, and after a restart, a
\* pass is queued, runs, or will be queued when a timer fires.
THEOREM AlwaysServedAgain == Spec => []NeverForgotten
<1> QED  BY QueueHolds, PTL DEF QueueInv

\* An event that enqueueVirtGitSyncs took up has its request queued, or the
\* pass that serves it has begun and has not yet listed the VMs.
THEOREM EventQueued == Spec => []EventIsQueued
<1> QED  BY QueueHolds, PTL DEF QueueInv

-----------------------------------------------------------------------------
(* A copy that the API server would accept has the stored count: a write by  *)
(* one of the two goroutines makes the cache old, and the other's copy.      *)
FreshInv ==
    /\ ~lag => cached = status
    /\ hfresh => hpc = "count" /\ hcopy = status
    /\ fresh => pc # "idle" /\ copy.count = status.count

LEMMA NextFresh == TypeOK /\ FreshInv /\ [Next]_vars => FreshInv'
<1> SUFFICES ASSUME TypeOK, FreshInv, [Next]_vars PROVE FreshInv'
  OBVIOUS
<1> USE DEF FreshInv
<1>1. ASSUME ChangeVM \/ TimerFires \/ DropEvent \/ AddFinalizer PROVE FreshInv'
  BY <1>1
  DEF ChangeVM, TimerFires, DropEvent, AddFinalizer, serverVars, handlerVars, workerVars
<1>2. ASSUME DeliverVGS PROVE FreshInv'
  BY <1>2 DEF DeliverVGS, handlerVars, workerVars
<1>3. ASSUME TakeEvent \/ CountFails PROVE FreshInv'
  BY <1>3 DEF TakeEvent, CountFails, serverVars, workerVars, TypeOK
<1>4. ASSUME CountEvent PROVE FreshInv'
  BY <1>4 DEF CountEvent
<1>5. ASSUME AddRequest PROVE FreshInv'
  BY <1>5 DEF AddRequest, serverVars, workerVars
<1>6. ASSUME BeginPass PROVE FreshInv'
  BY <1>6 DEF BeginPass, serverVars, handlerVars, TypeOK
<1>7. ASSUME ListVMs PROVE FreshInv'
  BY <1>7 DEF ListVMs, serverVars, handlerVars
<1>8. ASSUME PushDone PROVE FreshInv'
  <2>1. copy \in Status
    BY <1>8 DEF PushDone, TypeOK
  <2>2. copy'.count = copy.count
    BY <1>8, <2>1, CopiesType DEF PushDone
  <2> QED  BY <1>8, <2>2 DEF PushDone, serverVars, handlerVars
<1>9. ASSUME Exit PROVE FreshInv'
  <2>1. \/ status' = status /\ lag' = lag /\ hfresh' = hfresh
        \/ lag' = TRUE /\ hfresh' = FALSE
    BY <1>9, ExitStores
  <2>2. fresh' = FALSE /\ UNCHANGED <<cached, hpc, hcopy>>
    BY <1>9 DEF Exit, GitError, ArgoError, PassSucceeds, StatusConflict, Return
  <2> QED  BY <2>1, <2>2
<1>10. ASSUME Restart PROVE FreshInv'
  BY <1>10 DEF Restart
<1>11. CASE UNCHANGED vars
  BY <1>11 DEF vars, serverVars, handlerVars, workerVars
<1> QED
  BY <1>1, <1>2, <1>3, <1>4, <1>5, <1>6, <1>7, <1>8, <1>9, <1>10, <1>11
  DEF Next, Handler, Worker, Exit

\* A step that writes the status keeps the count or adds one.
LEMMA CountKept ==
    TypeOK /\ FreshInv /\ [Next]_vars => status'.count \in {status.count, status.count + 1}
<1> SUFFICES ASSUME TypeOK, FreshInv, [Next]_vars
             PROVE  status'.count \in {status.count, status.count + 1}
  OBVIOUS
<1>1. CASE CountEvent
  <2>1. hcopy \in Status /\ hcopy = status
    BY <1>1 DEF CountEvent, Accepts, FreshInv, TypeOK
  <2>2. status'.count = status.count + 1
    BY <1>1, <2>1, CopiesType DEF CountEvent
  <2> QED  BY <2>2
<1>2. CASE Exit
  <2>1. copy \in Status
    BY <1>2, ExitStores
  <2>2. GitFailed(copy).count = copy.count /\ Succeeded(copy).count = copy.count
    BY <2>1, CopiesType
  <2>3. \/ status' = status
        \/ fresh /\ status' \in {GitFailed(copy), Succeeded(copy), copy}
    BY <1>2, ExitStores
  <2> QED  BY <2>2, <2>3 DEF FreshInv
<1>3. CASE UNCHANGED status
  BY <1>3
<1> QED
  BY <1>1, <1>2, <1>3
  DEF Next, Handler, Worker, Exit, ChangeVM, DeliverVGS, TimerFires, DropEvent, TakeEvent,
      CountFails, AddRequest, BeginPass, ListVMs, AddFinalizer, PushDone, Restart, vars,
      serverVars

\* No write of the status, by the handler or by a pass, takes back the count
\* of an event that the other one stored.
THEOREM CountsKept == Spec => EventsKept
<1>1. Init => FreshInv
  BY DEF Init, FreshInv
<1>2. Spec => []FreshInv
  BY <1>1, NextFresh, TypeCorrect, PTL DEF Spec
<1>3. TypeOK /\ FreshInv /\ [Next]_vars => [status'.count \in {status.count, status.count + 1}]_vars
  BY CountKept
<1> QED  BY <1>2, <1>3, TypeCorrect, PTL DEF Spec, EventsKept

-----------------------------------------------------------------------------
(* Every copy of the status has a phase and a git status that agree, and a   *)
(* pass that came to its end has pushed.                                     *)
Consistent(c) ==
    /\ c.phase = "Running" => c.git = "pushed"
    /\ c.git = "error" => c.phase = "Failed"

PhaseInv ==
    /\ Consistent(status)
    /\ Consistent(cached)
    /\ hpc = "count" => Consistent(hcopy)
    /\ pc # "idle" => Consistent(copy)
    /\ pc = "end" => copy.git = "pushed"

\* What the writers store is consistent if their copy is.
LEMMA CopiesConsistent ==
    ASSUME NEW c \in Status
    PROVE  /\ Consistent(c) => Consistent(Counted(c))
           /\ Consistent(GitFailed(c))
           /\ c.git = "pushed" => Consistent(Succeeded(c))
           /\ Consistent([c EXCEPT !.git = "pushed"])
           /\ [c EXCEPT !.git = "pushed"].git = "pushed"
<1>1. \A n \in Nat : /\ [c EXCEPT !.count = n].phase = c.phase
                     /\ [c EXCEPT !.count = n].git = c.git
  BY DEF Status
<1>2. c.count + 1 \in Nat
  BY DEF Status
<1>3. /\ [c EXCEPT !.git = "error", !.phase = "Failed"].phase = "Failed"
      /\ [c EXCEPT !.git = "error", !.phase = "Failed"].git = "error"
  BY DEF Status
<1>4. /\ [c EXCEPT !.phase = "Running"].phase = "Running"
      /\ [c EXCEPT !.phase = "Running"].git = c.git
  BY DEF Status
<1>5. [c EXCEPT !.git = "pushed"].git = "pushed"
  BY DEF Status
<1> QED  BY <1>1, <1>2, <1>3, <1>4, <1>5 DEF Consistent, Counted, GitFailed, Succeeded

LEMMA NextPhase == TypeOK /\ PhaseInv /\ [Next]_vars => PhaseInv'
<1> SUFFICES ASSUME TypeOK, PhaseInv, [Next]_vars PROVE PhaseInv'
  OBVIOUS
<1> USE DEF PhaseInv
<1>1. ASSUME ChangeVM \/ TimerFires \/ DropEvent \/ AddFinalizer PROVE PhaseInv'
  BY <1>1
  DEF ChangeVM, TimerFires, DropEvent, AddFinalizer, serverVars, handlerVars, workerVars
<1>2. ASSUME DeliverVGS PROVE PhaseInv'
  BY <1>2 DEF DeliverVGS, handlerVars, workerVars
<1>3. ASSUME TakeEvent \/ CountFails \/ AddRequest PROVE PhaseInv'
  BY <1>3 DEF TakeEvent, CountFails, AfterFailedCount, AddRequest, serverVars, workerVars
<1>4. ASSUME CountEvent PROVE PhaseInv'
  <2>1. hcopy \in Status /\ Consistent(hcopy)
    BY <1>4 DEF CountEvent, TypeOK
  <2>2. Consistent(status')
    BY <1>4, <2>1, CopiesConsistent DEF CountEvent
  <2> QED  BY <1>4, <2>2 DEF CountEvent
<1>5. ASSUME BeginPass \/ ListVMs PROVE PhaseInv'
  BY <1>5 DEF BeginPass, ListVMs, serverVars, handlerVars
<1>6. ASSUME PushDone PROVE PhaseInv'
  <2>1. copy \in Status
    BY <1>6 DEF PushDone, TypeOK
  <2>2. Consistent(copy') /\ copy'.git = "pushed"
    BY <1>6, <2>1, CopiesConsistent DEF PushDone
  <2> QED  BY <1>6, <2>2 DEF PushDone, serverVars, handlerVars
<1>7. ASSUME Exit PROVE PhaseInv'
  <2>1. pc # "idle" /\ pc' = "idle" /\ UNCHANGED <<cached, hpc, hcopy>>
    BY <1>7 DEF Exit, GitError, ArgoError, PassSucceeds, StatusConflict, Return
  <2>2. copy \in Status /\ Consistent(copy)
    BY <1>7, <2>1, ExitStores
  <2>3. \/ status' = status
        \/ status' \in {GitFailed(copy), copy}
        \/ pc = "end" /\ status' = Succeeded(copy)
    BY <1>7, ExitStores
  <2>4. Consistent(status')
    BY <2>2, <2>3, CopiesConsistent
  <2> QED  BY <2>1, <2>4
<1>8. ASSUME Restart PROVE PhaseInv'
  BY <1>8 DEF Restart
<1>9. CASE UNCHANGED vars
  BY <1>9 DEF vars, serverVars, handlerVars, workerVars
<1> QED
  BY <1>1, <1>2, <1>3, <1>4, <1>5, <1>6, <1>7, <1>8, <1>9 DEF Next, Handler, Worker, Exit

\* The stored phase never says Running without a push, nor hides a git error
\* behind another phase than Failed.
THEOREM PhaseHolds == Spec => []PhaseExplained
<1>1. Init => PhaseInv
  BY SentinelAssumption DEF Init, PhaseInv, Consistent, NoStatus
<1>2. PhaseInv => PhaseExplained
  BY DEF PhaseInv, Consistent, PhaseExplained
<1> QED  BY <1>1, <1>2, NextPhase, TypeCorrect, PTL DEF Spec
=============================================================================
