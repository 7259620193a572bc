---------------------------- MODULE VMSync_proofs ----------------------------
(***************************************************************************)
(* Proofs about VMSync, for any VMs, any bodies and any bounds.            *)
(***************************************************************************)
EXTENDS VMSync, SequenceTheorems, TLAPS

USE SentinelAssumption, ParameterAssumption
USE DEF vars, clusterVars, apiVars, infVars, passVars, loopVars, treeVars, outsideVars,
        gitVars, argoVars, countVars, bounds, history

-----------------------------------------------------------------------------
(* Types.  TypeOK alone is not inductive: a VM of the loop has to be an      *)
(* object (LoopInv), a manifest ArgoCD applies has to be whole (TornInv).    *)

SafeInv == TypeOK /\ LoopInv /\ TornInv

\* The initial states satisfy the invariant.
LEMMA InitSafe == Init => SafeInv
<1> SUFFICES ASSUME Init PROVE SafeInv
  OBVIOUS
<1>1. live \in [VMs -> Object \cup {None}]
  BY DEF Init, Object
<1>2. watch \in Seq([vm : VMs, obj : Object \cup {None}])
  BY DEF Init
<1>3. events \in Seq([type : {"create", "update", "delete"}, vm : VMs, tracked : BOOLEAN])
  BY DEF Init
<1>4. 0 \in 0..MaxUserOps /\ 0 \in 0..MaxGitOps /\ 0 \in 0..MaxRestarts
  OBVIOUS
<1>5. Absent \in [VMs -> Object \cup {None}] /\ Absent \in [VMs -> File \cup {Torn}]
  BY DEF Absent, File
<1>6. TypeOK
  BY <1>1, <1>2, <1>3, <1>4, <1>5 DEF Init, TypeOK
<1>7. LoopInv /\ TornInv
  BY DEF Init, LoopInv, TornInv, Absent
<1> QED  BY <1>6, <1>7 DEF SafeInv

\* What a queue yields and what it keeps.
LEMMA QueueType ==
    ASSUME NEW S, NEW q \in Seq(S), q # <<>>
    PROVE  Head(q) \in S /\ Tail(q) \in Seq(S)
  BY HeadTailProperties

\* Storing an object keeps the API server's variables well typed.
LEMMA StoreType ==
    ASSUME TypeOK, NEW v \in VMs, NEW obj \in Object \cup {None}, Store(v, obj)
    PROVE  /\ live' \in [VMs -> Object \cup {None}]
           /\ watch' \in Seq([vm : VMs, obj : Object \cup {None}])
<1>1. live \in [VMs -> Object \cup {None}] /\ watch \in Seq([vm : VMs, obj : Object \cup {None}])
  BY DEF TypeOK
<1>2. [vm |-> v, obj |-> obj] \in [vm : VMs, obj : Object \cup {None}]
  OBVIOUS
<1> QED  BY <1>1, <1>2 DEF Store

\* The same for a write by somebody else than the worker.
LEMMA StoreByOtherType ==
    ASSUME TypeOK, NEW v \in VMs, NEW obj \in Object \cup {None}, StoreByOther(v, obj)
    PROVE  /\ live' \in [VMs -> Object \cup {None}]
           /\ watch' \in Seq([vm : VMs, obj : Object \cup {None}])
           /\ stale' \subseteq VMs
<1>1. stale \subseteq VMs /\ stale' = stale \cup ({v} \cap todo)
  BY DEF TypeOK, StoreByOther
<1> QED  BY <1>1, StoreType DEF StoreByOther

\* A pass that ends leaves nothing behind that could break the invariant.
LEMMA EndPassSafe ==
    ASSUME SafeInv, EndPass
    PROVE  /\ pc' = "idle" /\ todo' = {} /\ cur' = None /\ moved' = FALSE
           /\ stale' = {} /\ expected' = {} /\ changed' = {} /\ missed' = {}
           /\ listed' \in [VMs -> Object \cup {None}]
           /\ work' \in [VMs -> File \cup {Torn}] /\ head' \in [VMs -> File \cup {Torn}]
           /\ \A v \in VMs : head'[v] # Torn
           /\ LoopInv'
  BY DEF EndPass, Absent, File, LoopInv

\* The VM that the loop is about to save or skip.
LEMMA LoopVM ==
    ASSUME SafeInv, NEW v \in VMs, SavesNext(v) \/ Takes(v)
    PROVE  v \in todo /\ pc = "vms" /\ listed[v] \in Object /\ v \notin changed \cup missed \cup expected
  BY DEF SafeInv, TypeOK, LoopInv, SavesNext, Takes

\* Users, KubeVirt and other committers keep it.
LEMMA EnvironmentSafe ==
    ASSUME SafeInv, NEW v \in VMs, Environment(v) PROVE SafeInv'
<1> USE DEF SafeInv
<1>1. CASE UserCreate(v)
  <2>1. PICK b \in Bodies, t \in UserTracking :
           /\ StoreByOther(v, [body |-> b, tracked |-> t, fin |-> FALSE, term |-> FALSE])
           /\ copied' = IF t THEN copied \cup {v} ELSE copied \ {v}
    BY <1>1 DEF UserCreate
  <2>2. [body |-> b, tracked |-> t, fin |-> FALSE, term |-> FALSE] \in Object
    BY DEF Object
  <2>3. /\ live' \in [VMs -> Object \cup {None}]
        /\ watch' \in Seq([vm : VMs, obj : Object \cup {None}])
        /\ stale' \subseteq VMs
    BY <2>1, <2>2, StoreByOtherType
  <2>4. TypeOK'
    BY <1>1, <2>1, <2>3 DEF UserCreate, UsersMayAct, TypeOK
  <2>5. LoopInv' /\ TornInv'
    BY <1>1 DEF UserCreate, LoopInv, TornInv
  <2> QED  BY <2>4, <2>5
<1>2. CASE UserEdit(v)
  <2>1. PICK b \in Bodies : StoreByOther(v, [live[v] EXCEPT !.body = b])
    BY <1>2 DEF UserEdit
  <2>2. [live[v] EXCEPT !.body = b] \in Object
    <3>1. live[v] \in Object
      BY <1>2 DEF UserEdit, TypeOK
    <3> QED  BY <3>1 DEF Object
  <2>3. /\ live' \in [VMs -> Object \cup {None}]
        /\ watch' \in Seq([vm : VMs, obj : Object \cup {None}])
        /\ stale' \subseteq VMs
    BY <2>1, <2>2, StoreByOtherType
  <2>4. TypeOK'
    BY <1>2, <2>3 DEF UserEdit, UsersMayAct, TypeOK
  <2>5. LoopInv' /\ TornInv'
    BY <1>2 DEF UserEdit, LoopInv, TornInv
  <2> QED  BY <2>4, <2>5
<1>3. CASE UserDelete(v)
  <2>1. live[v] \in Object
    BY <1>3 DEF UserDelete, TypeOK
  <2>2. [live[v] EXCEPT !.term = TRUE] \in Object
    BY <2>1 DEF Object
  <2>3. /\ live' \in [VMs -> Object \cup {None}]
        /\ watch' \in Seq([vm : VMs, obj : Object \cup {None}])
        /\ stale' \subseteq VMs
    BY <1>3, <2>2, StoreByOtherType DEF UserDelete
  <2>4. TypeOK'
    BY <1>3, <2>3 DEF UserDelete, UsersMayAct, TypeOK
  <2>5. LoopInv' /\ TornInv'
    BY <1>3 DEF UserDelete, LoopInv, TornInv
  <2> QED  BY <2>4, <2>5
<1>4. CASE Collect(v)
  <2>1. /\ live' \in [VMs -> Object \cup {None}]
        /\ watch' \in Seq([vm : VMs, obj : Object \cup {None}])
        /\ stale' \subseteq VMs
    BY <1>4, StoreByOtherType DEF Collect
  <2>2. TypeOK'
    BY <1>4, <2>1 DEF Collect, TypeOK
  <2>3. LoopInv' /\ TornInv'
    BY <1>4 DEF Collect, LoopInv, TornInv
  <2> QED  BY <2>2, <2>3
<1>5. CASE GitEdit(v)
  <2>1. PICK f \in {None} \cup [body : Bodies, tracked : {remote[v] # None /\ remote[v].tracked}] :
           remote' = [remote EXCEPT ![v] = f]
    BY <1>5 DEF GitEdit
  <2>2. f \in File
    BY DEF File, Manifest, TypeOK, TornInv
  <2>3. TypeOK'
    BY <1>5, <2>1, <2>2 DEF GitEdit, TypeOK
  <2>4. LoopInv'
    BY <1>5 DEF GitEdit, LoopInv
  <2>5. TornInv'
    BY <1>5, <2>1, <2>2 DEF GitEdit, TornInv, TypeOK, File
  <2> QED  BY <2>3, <2>4, <2>5
<1> QED  BY <1>1, <1>2, <1>3, <1>4, <1>5 DEF Environment

\* The informer and the event handler keep it.
LEMMA HandlerSafe == ASSUME SafeInv, Handler PROVE SafeInv'
<1> USE DEF SafeInv
<1> DEFINE Event == [type : {"create", "update", "delete"}, vm : VMs, tracked : BOOLEAN]
<1>1. CASE Deliver
  <2> DEFINE new == Head(watch)
             type == EventType(cache[new.vm], new.obj)
             fired == IF type = "update" THEN <<>>
                      ELSE <<[type |-> type, vm |-> new.vm,
                              tracked |-> type = "create" /\ new.obj.tracked]>>
  <2>1. new \in [vm : VMs, obj : Object \cup {None}]
        /\ Tail(watch) \in Seq([vm : VMs, obj : Object \cup {None}])
    BY <1>1, QueueType DEF Deliver, TypeOK
  <2>2. type \in {"create", "update", "delete"} /\ (type = "create" => new.obj \in Object)
    BY <2>1 DEF EventType
  <2>3. (type = "create" /\ new.obj.tracked) \in BOOLEAN
    OBVIOUS
  <2>4. fired \in Seq(Event)
    <3>1. [type |-> type, vm |-> new.vm, tracked |-> type = "create" /\ new.obj.tracked] \in Event
      BY <2>1, <2>2, <2>3
    <3> HIDE DEF type, new, Event
    <3>2. <<[type |-> type, vm |-> new.vm, tracked |-> type = "create" /\ new.obj.tracked]>>
          \in Seq(Event)
      BY <3>1
    <3> QED  BY <3>2
  <2>5. events' \in Seq(Event)
    BY <1>1, <2>4 DEF Deliver, TypeOK
  <2>6. cache' \in [VMs -> Object \cup {None}]
    BY <1>1, <2>1 DEF Deliver, TypeOK
  <2>7. TypeOK'
    BY <1>1, <2>1, <2>5, <2>6 DEF Deliver, TypeOK
  <2>8. LoopInv' /\ TornInv'
    BY <1>1 DEF Deliver, LoopInv, TornInv
  <2> QED  BY <2>7, <2>8
<1>2. CASE HandleCreate
  <2>1. Head(events) \in Event /\ Tail(events) \in Seq(Event)
    BY <1>2, QueueType DEF HandleCreate, TypeOK
  <2>2. TypeOK'
    BY <1>2, <2>1 DEF HandleCreate, TypeOK
  <2>3. LoopInv' /\ TornInv'
    BY <1>2 DEF HandleCreate, LoopInv, TornInv
  <2> QED  BY <2>2, <2>3
<1>3. CASE HandleDelete
  <2>1. Head(events) \in Event /\ Tail(events) \in Seq(Event)
    BY <1>3, QueueType DEF HandleDelete, TypeOK
  <2>2. TypeOK'
    BY <1>3, <2>1 DEF HandleDelete, TypeOK
  <2>3. LoopInv' /\ TornInv'
    BY <1>3 DEF HandleDelete, LoopInv, TornInv
  <2> QED  BY <2>2, <2>3
<1> QED  BY <1>1, <1>2, <1>3 DEF Handler

\* So does each way the loop has of dealing with one VM.
LEMMA LoopSafe == ASSUME SafeInv, NEW v \in VMs, LoopStep(v) PROVE SafeInv'
<1> USE DEF SafeInv
<1>1. CASE AddFinalizer(v)
  <2>1. v \in todo /\ pc = "vms" /\ listed[v] \in Object
    BY <1>1, LoopVM DEF AddFinalizer
  <2>2. [listed[v] EXCEPT !.fin = TRUE] \in Object
    BY <2>1 DEF Object
  <2>3. /\ live' \in [VMs -> Object \cup {None}]
        /\ watch' \in Seq([vm : VMs, obj : Object \cup {None}])
    BY <1>1, <2>2, StoreType DEF AddFinalizer, TypeOK
  <2>4. TypeOK'
    BY <1>1, <2>3 DEF AddFinalizer, TypeOK
  <2>5. LoopInv' /\ TornInv'
    BY <1>1, <2>1 DEF AddFinalizer, LoopInv, TornInv
  <2> QED  BY <2>4, <2>5
<1>2. CASE SkipVM(v)
  <2>1. TypeOK'
    BY <1>2 DEF SkipVM, Done, TypeOK
  <2>2. LoopInv' /\ TornInv'
    BY <1>2 DEF SkipVM, Done, LoopInv, TornInv
  <2> QED  BY <2>1, <2>2
<1>3. CASE SaveVM(v)
  <2>1. v \in todo /\ listed[v] \in Object
    BY <1>3, LoopVM DEF SaveVM
  <2>2. Clean(listed[v]) \in Manifest
    BY <2>1 DEF Clean, Object, Manifest
  <2>3. TypeOK'
    BY <1>3, <2>2 DEF SaveVM, Done, TypeOK, File
  <2>4. LoopInv'
    BY <1>3, <2>1 DEF SaveVM, Done, LoopInv, TypeOK
  <2>5. TornInv'
    BY <1>3, <2>2 DEF SaveVM, TornInv, TypeOK
  <2> QED  BY <2>3, <2>4, <2>5
<1>4. CASE SaveFails(v)
  <2> USE DEF ChangedAfterFailedWrite
  <2>1. v \notin changed /\ pc = "vms"
    BY <1>4, LoopVM DEF SaveFails
  <2>2. TypeOK'
    BY <1>4 DEF SaveFails, Done, TypeOK
  <2>3. LoopInv'
    BY <1>4, <2>1 DEF SaveFails, Done, LoopInv, TypeOK
  <2>4. TornInv'
    BY <1>4, <2>1 DEF SaveFails, TornInv, TypeOK
  <2> QED  BY <2>2, <2>3, <2>4
<1>5. ASSUME DropVM(v) \/ DropFails(v) PROVE SafeInv'
  <2>1. v \in todo /\ pc = "vms" /\ listed[v] \in Object
    BY <1>5, LoopVM DEF DropVM, DropFails
  <2>2. PICK kept \in SUBSET {v} : RemoveFiles({v}, kept)
    BY <1>5 DEF DropVM, DropFails
  <2>3. /\ work' \in [VMs -> File \cup {Torn}]
        /\ changed' \subseteq VMs /\ missed' \subseteq VMs
        /\ \A w \in changed' : work'[w] # Torn
        /\ changed' \cup missed' \subseteq changed \cup missed \cup {v}
    BY <2>2 DEF RemoveFiles, TypeOK, File, TornInv
  <2>4. Released(v) \in Object
    BY <2>1 DEF Released, Object
  <2>5. /\ live' \in [VMs -> Object \cup {None}]
        /\ watch' \in Seq([vm : VMs, obj : Object \cup {None}])
    BY <1>5, <2>4, StoreType DEF DropVM, DropFails, TypeOK
  <2>6. TypeOK'
    BY <1>5, <2>3, <2>5 DEF DropVM, DropFails, Done, TypeOK
  <2>7. LoopInv'
    BY <1>5, <2>1, <2>3 DEF DropVM, DropFails, Done, LoopInv, TypeOK
  <2>8. TornInv'
    BY <1>5, <2>3 DEF DropVM, DropFails, TornInv
  <2> QED  BY <2>6, <2>7, <2>8
<1>6. CASE PassOver(v)
  <2>1. TypeOK'
    BY <1>6 DEF PassOver, Done, TypeOK
  <2>2. LoopInv' /\ TornInv'
    BY <1>6 DEF PassOver, Done, LoopInv, TornInv
  <2> QED  BY <2>1, <2>2
<1> QED  BY <1>1, <1>2, <1>3, <1>4, <1>5, <1>6 DEF LoopStep

\* The index holds no torn file: neither the changed files nor the commit do.
LEMMA StagedType ==
    ASSUME SafeInv
    PROVE  Staged \in [VMs -> File] /\ \A v \in VMs : Staged[v] # Torn
  BY DEF SafeInv, TypeOK, TornInv, Staged, File

\* A step that leaves the loop, whatever it does to the branch: it leaves the
\* cluster alone and either keeps the state of the pass or ends it.
LEMMA AfterLoopSafe ==
    ASSUME SafeInv, PushStep \/ TriggerSync \/ NoSync \/ ListFails PROVE SafeInv'
<1> USE DEF SafeInv
<1>1. UNCHANGED <<clusterVars, applying, countVars>>
      /\ op' \in {"none", "requested", "running"}
  BY DEF PushStep, NothingToPush, CommitFails, Push, PushFails, PushAnswerLost, TriggerSync,
         NoSync, ListFails, Publish, TypeOK
<1>2. remote' = remote \/ remote' = Staged
  BY DEF PushStep, NothingToPush, CommitFails, Push, PushFails, PushAnswerLost, TriggerSync,
         NoSync, ListFails, Publish
<1>3. remote' \in [VMs -> File \cup {Torn}] /\ \A v \in VMs : remote'[v] # Torn
  BY <1>2, StagedType DEF TypeOK, TornInv
<1>4. \/ EndPass
      \/ /\ pc' = "trigger" /\ pc = "push"
         /\ UNCHANGED <<listed, todo, cur, stale, expected, changed, missed, work>>
         /\ head' = head \/ head' = Staged
         /\ moved' \in {moved, FALSE}
  BY DEF PushStep, NothingToPush, CommitFails, Push, PushFails, PushAnswerLost, TriggerSync,
         NoSync, ListFails, Publish, Commits, AfterPush
<1>5. CASE EndPass
  <2>1. TypeOK'
    BY <1>1, <1>3, <1>5, EndPassSafe DEF TypeOK
  <2>2. TornInv'
    BY <1>1, <1>3, <1>5, EndPassSafe DEF TornInv
  <2> QED  BY <1>5, <2>1, <2>2, EndPassSafe
<1>6. ASSUME /\ pc' = "trigger" /\ pc = "push"
             /\ UNCHANGED <<listed, todo, cur, stale, expected, changed, missed, work>>
             /\ head' = head \/ head' = Staged
             /\ moved' \in {moved, FALSE}
      PROVE  SafeInv'
  <2>1. head' \in [VMs -> File \cup {Torn}] /\ \A v \in VMs : head'[v] # Torn
    BY <1>6, StagedType DEF TypeOK, TornInv
  <2>2. TypeOK'
    BY <1>1, <1>3, <1>6, <2>1 DEF TypeOK
  <2>3. LoopInv'
    BY <1>6 DEF LoopInv
  <2>4. TornInv'
    BY <1>1, <1>3, <1>6, <2>1 DEF TornInv
  <2> QED  BY <2>2, <2>3, <2>4
<1> QED  BY <1>4, <1>5, <1>6

\* Every step of a pass keeps it.
LEMMA WorkerSafe == ASSUME SafeInv, Worker PROVE SafeInv'
<1> USE DEF SafeInv
<1>1. CASE Fetch
  <2>1. TypeOK'
    BY <1>1 DEF Fetch, ResetTo, TypeOK
  <2>2. LoopInv' /\ TornInv'
    BY <1>1 DEF Fetch, ResetTo, LoopInv, TornInv
  <2> QED  BY <2>1, <2>2
<1>2. CASE ListVMs
  <2>1. changed = {} /\ missed = {} /\ expected = {} /\ pc' = "vms"
    BY <1>2 DEF ListVMs, LoopInv
  <2>2. TypeOK'
    <3>1. Matching \in [VMs -> Object \cup {None}]
      BY DEF Matching, TypeOK
    <3> QED  BY <1>2, <3>1 DEF ListVMs, TypeOK
  <2>3. cur = None
    BY <1>2 DEF ListVMs, LoopInv
  <2>4. LoopInv'
    BY <1>2, <2>1, <2>3 DEF ListVMs, LoopInv
  <2>5. TornInv'
    BY <1>2 DEF ListVMs, TornInv
  <2> QED  BY <2>2, <2>4, <2>5
<1>3. ASSUME NEW kept \in SUBSET VMs, DeleteOrphans(kept) PROVE SafeInv'
  <2>1. /\ work' \in [VMs -> File \cup {Torn}]
        /\ changed' \subseteq VMs /\ missed' \subseteq VMs
        /\ \A w \in changed' : work'[w] # Torn
    BY <1>3 DEF DeleteOrphans, RemoveFiles, Orphans, TypeOK, File, TornInv
  <2>2. TypeOK'
    BY <1>3, <2>1 DEF DeleteOrphans, TypeOK
  <2>3. LoopInv' /\ TornInv'
    BY <1>3, <2>1 DEF DeleteOrphans, LoopInv, TornInv
  <2> QED  BY <2>2, <2>3
<1> QED  BY <1>1, <1>2, <1>3, LoopSafe, AfterLoopSafe DEF Worker

\* ArgoCD keeps it: what it applies is a manifest.
LEMMA ArgoSafe == ASSUME SafeInv, ArgoCD PROVE SafeInv'
<1> USE DEF SafeInv
<1>1. CASE ArgoStart
  <2>1. TypeOK'
    BY <1>1 DEF ArgoStart, TypeOK
  <2>2. LoopInv' /\ TornInv'
    BY <1>1 DEF ArgoStart, LoopInv, TornInv
  <2> QED  BY <2>1, <2>2
<1>2. ASSUME NEW v \in VMs, ArgoApply(v) PROVE SafeInv'
  <2>1. applying[v] \in Manifest
    BY <1>2 DEF ArgoApply, TypeOK, TornInv, File
  <2>2. Applied(v) \in Object
    <3>1. CASE live[v] = None
      BY <2>1, <3>1 DEF Applied, Object, Manifest
    <3>2. CASE live[v] \in Object
      BY <2>1, <3>2 DEF Applied, Object, Manifest
    <3> QED  BY <3>1, <3>2 DEF TypeOK
  <2>3. /\ live' \in [VMs -> Object \cup {None}]
        /\ watch' \in Seq([vm : VMs, obj : Object \cup {None}])
        /\ stale' \subseteq VMs
    BY <1>2, <2>2, StoreByOtherType DEF ArgoApply, TypeOK
  <2>4. TypeOK'
    BY <1>2, <2>3 DEF ArgoApply, TypeOK, File
  <2>5. LoopInv'
    BY <1>2 DEF ArgoApply, LoopInv
  <2>6. TornInv'
    BY <1>2 DEF ArgoApply, TornInv, TypeOK
  <2> QED  BY <2>4, <2>5, <2>6
<1>3. CASE ArgoFinish
  <2>1. TypeOK'
    BY <1>3 DEF ArgoFinish, TypeOK
  <2>2. LoopInv' /\ TornInv'
    BY <1>3 DEF ArgoFinish, LoopInv, TornInv
  <2> QED  BY <2>1, <2>2
<1> QED  BY <1>1, <1>2, <1>3 DEF ArgoCD

\* A restart keeps it: nothing of a pass survives.
LEMMA RestartSafe == ASSUME SafeInv, Restart PROVE SafeInv'
<1> USE DEF SafeInv
<1>1. EndPass
  BY DEF Restart
<1>2. TypeOK'
  <2>1. restarts' \in 0..MaxRestarts
    BY DEF Restart, TypeOK
  <2>2. /\ watch' \in Seq([vm : VMs, obj : Object \cup {None}])
        /\ events' \in Seq([type : {"create", "update", "delete"}, vm : VMs,
                            tracked : BOOLEAN])
    BY DEF Restart
  <2> QED  BY <1>1, <2>1, <2>2, EndPassSafe DEF Restart, TypeOK
<1>3. TornInv'
  BY <1>1, EndPassSafe DEF Restart, TornInv
<1> QED  BY <1>1, <1>2, <1>3, EndPassSafe

\* The invariant is inductive.
LEMMA NextSafe == SafeInv /\ [Next]_vars => SafeInv'
<1> SUFFICES ASSUME SafeInv, [Next]_vars PROVE SafeInv'
  OBVIOUS
<1>1. CASE UNCHANGED vars
  BY <1>1 DEF SafeInv, TypeOK, LoopInv, TornInv
<1>2. CASE Next
  BY <1>2, EnvironmentSafe, HandlerSafe, WorkerSafe, ArgoSafe, RestartSafe DEF Next
<1> QED  BY <1>1, <1>2

\* It holds in every reachable state.
LEMMA SpecSafe == Spec => []SafeInv
  BY InitSafe, NextSafe, PTL DEF Spec

\* Every variable keeps its type, whatever fails and whoever interferes.
THEOREM TypeCorrect == Spec => []TypeOK
  BY SpecSafe, PTL DEF SafeInv

\* A torn file never reaches the branch (the write that failed is not among
\* the files CommitAndPush stages).
THEOREM NoTornFile == Spec => []NoTornFileInGit
<1>1. SafeInv => NoTornFileInGit
  BY DEF SafeInv, TornInv, NoTornFileInGit
<1> QED  BY <1>1, SpecSafe, PTL

-----------------------------------------------------------------------------
(* What a pass knows.  The proof follows the worktree through the pass: it   *)
(* starts as the fetched commit, and from then on a file is what the         *)
(* snapshot asks for and among the changed files, or as fetched, or torn.    *)
(* Of the files that should have changed, those that did not are missed or   *)
(* torn.                                                                     *)

\* Steps that leave the pass and the branch alone.
LEMMA TreeInvUntouched ==
    ASSUME TreeInv, UNCHANGED <<loopVars, treeVars, gitVars>> PROVE TreeInv'
  BY DEF TreeInv, Intended, FileOf, Failed

\* Between passes there is no worktree to speak of.
LEMMA TreeInvEndPass == ASSUME EndPass PROVE TreeInv'
  BY DEF EndPass, TreeInv, Absent, Failed

\* A VM that the loop is about to save or skip has a file.
LEMMA SavedHasFile ==
    ASSUME SafeInv, TreeInv, NEW v \in VMs, SavesNext(v)
    PROVE  /\ v \in todo /\ pc = "vms" /\ v \notin changed \cup missed \cup expected
           /\ listed[v] \in Object /\ ~listed[v].term
           /\ FileOf(listed[v]) = Clean(listed[v])
           /\ FileOf(listed[v]) \in Manifest
<1>1. v \in todo /\ pc = "vms" /\ v \notin changed \cup missed \cup expected /\ listed[v] \in Object
  BY LoopVM
<1>2. ~listed[v].term
  BY <1>1 DEF SavesNext, Takes, TreeInv, FileOf
<1>3. Clean(listed[v]) \in Manifest /\ listed[v] # None
  BY <1>1 DEF Clean, Object, Manifest
<1> QED  BY <1>1, <1>2, <1>3 DEF FileOf

\* Removing files that no listed VM accounts for, some of which may stay.
LEMMA RemovalTree ==
    ASSUME SafeInv, TreeInv, NEW gone \in SUBSET (VMs \ expected), NEW kept,
           RemoveFiles(gone, kept), UNCHANGED <<listed, expected, head>>
    PROVE  /\ \A v \in VMs : IF v \in changed' THEN work'[v] = Intended(v)'
                                               ELSE work'[v] \in {head'[v], Torn}
           /\ missed' \cap changed' = {}
           /\ expected' \subseteq changed' \cup Failed'
           /\ \A v \in gone : work'[v] = None \/ v \in missed'
           /\ \A v \in VMs \ gone : /\ work'[v] = work[v]
                                    /\ v \in missed' <=> v \in missed
<1>1. /\ kept \subseteq gone
      /\ \A v \in VMs : work'[v] = IF v \in gone \ kept THEN None ELSE work[v]
      /\ changed' = changed \cup (gone \ kept)
      /\ missed' = (missed \ gone) \cup kept
      /\ \A v \in kept : work[v] # None
  BY DEF RemoveFiles
<1>2. \A v \in VMs : Intended(v)' = Intended(v) /\ (v \in gone => Intended(v) = None)
  BY DEF Intended
<1>3. ASSUME NEW v \in kept PROVE v \notin changed
  BY <1>1, <1>2, <1>3 DEF TreeInv
<1>4. \A v \in VMs : IF v \in changed' THEN work'[v] = Intended(v)'
                                       ELSE work'[v] \in {head'[v], Torn}
  BY <1>1, <1>2, <1>3 DEF TreeInv
<1>5. missed' \cap changed' = {}
  BY <1>1, <1>3 DEF TreeInv
<1>6. expected' \subseteq changed' \cup Failed'
  <2>1. expected \subseteq VMs
    BY DEF SafeInv, TypeOK
  <2> QED  BY <1>1, <2>1 DEF TreeInv, Failed
<1> QED  BY <1>1, <1>4, <1>5, <1>6

\* The loop changes files only together with the sets that account for them.
LEMMA LoopTree ==
    ASSUME SafeInv, TreeInv, NEW v \in VMs, LoopStep(v) PROVE TreeInv'
<1>0. expected \subseteq VMs /\ changed \subseteq VMs /\ missed \subseteq VMs /\ DOMAIN work = VMs
  BY DEF SafeInv, TypeOK
<1>1. CASE AddFinalizer(v)
  <2>1. listed[v] \in Object /\ pc = "vms"
    BY <1>1, LoopVM DEF AddFinalizer
  <2>2. FileOf(listed[v]) # None
    BY <1>1, <2>1 DEF AddFinalizer, FileOf, Clean, Manifest, Object
  <2> QED  BY <1>1, <2>1, <2>2 DEF AddFinalizer, TreeInv, Intended, Failed
<1>2. CASE SkipVM(v) \/ PassOver(v)
  BY <1>2 DEF SkipVM, PassOver, Done, TreeInv, Intended, Failed
<1>3. CASE SaveVM(v)
  <2>1. /\ FileOf(listed[v]) = Clean(listed[v]) /\ FileOf(listed[v]) # None
        /\ pc = "vms" /\ v \notin changed \cup missed \cup expected
    BY <1>3, SavedHasFile DEF SaveVM
  <2>2. /\ work' = [work EXCEPT ![v] = Clean(listed[v])] /\ cur' = None
        /\ changed' = changed \cup {v} /\ expected' = expected \cup {v}
        /\ UNCHANGED <<pc, listed, missed, head, remote, moved>>
    BY <1>3 DEF SaveVM, Done
  <2>3. \A w \in VMs : /\ work'[w] = IF w = v THEN Clean(listed[v]) ELSE work[w]
                      /\ Intended(w)' = IF w = v THEN Clean(listed[v]) ELSE Intended(w)
    BY <1>0, <2>1, <2>2 DEF Intended
  <2>4. \A w \in VMs : IF w \in changed' THEN work'[w] = Intended(w)'
                                         ELSE work'[w] \in {head'[w], Torn}
    BY <2>2, <2>3 DEF TreeInv
  <2>5. missed' \cap changed' = {} /\ expected' \subseteq changed' \cup Failed'
    BY <1>0, <2>1, <2>2, <2>3 DEF TreeInv, Failed
  <2> QED  BY <1>0, <2>1, <2>2, <2>4, <2>5 DEF TreeInv
<1>4. CASE SaveFails(v)
  <2>1. FileOf(listed[v]) # None /\ pc = "vms" /\ v \notin changed \cup missed \cup expected
    BY <1>4, SavedHasFile DEF SaveFails
  <2>2. /\ cur' = None /\ changed' = changed /\ expected' = expected \cup {v}
        /\ UNCHANGED <<pc, listed, head, remote, moved>>
        /\ \/ work' = work /\ missed' = missed \cup {v}
           \/ work' = [work EXCEPT ![v] = Torn] /\ missed' = missed
    BY <1>4 DEF SaveFails, Done, ChangedAfterFailedWrite
  <2> QED  BY <1>0, <2>1, <2>2 DEF TreeInv, Intended, Failed
<1>5. ASSUME DropVM(v) \/ DropFails(v) PROVE TreeInv'
  <2>1. pc = "vms" /\ v \notin expected
    BY <1>5, LoopVM DEF DropVM, DropFails
  <2>2. PICK kept \in SUBSET {v} : RemoveFiles({v}, kept)
    BY <1>5 DEF DropVM, DropFails
  <2>3. /\ cur' = None
        /\ UNCHANGED <<pc, listed, expected, head, remote, moved>>
    BY <1>5 DEF DropVM, DropFails, Done
  <2> QED  BY <2>1, <2>2, <2>3, RemovalTree DEF TreeInv
<1> QED  BY <1>1, <1>2, <1>3, <1>4, <1>5 DEF LoopStep

\* A push moves the local branch to the index, and with it the remote one.
LEMMA PushTree == ASSUME SafeInv, TreeInv, PushStep PROVE TreeInv'
<1>1. CASE EndPass
  BY <1>1, TreeInvEndPass
<1>2. CASE NothingToPush /\ ~EndPass
  <2>1. /\ pc = "push" /\ pc' = "trigger"
        /\ UNCHANGED <<listed, cur, expected, changed, missed, treeVars, gitVars>>
    BY <1>2 DEF NothingToPush, AfterPush
  <2> QED  BY <2>1 DEF TreeInv, Intended, Failed
<1>3. CASE Push /\ ~EndPass
  <2>1. /\ pc = "push" /\ pc' = "trigger"
        /\ UNCHANGED <<listed, todo, cur, stale, expected, changed, missed, work>>
        /\ head' = Staged /\ remote' = Staged /\ moved' = FALSE
    BY <1>3 DEF Push, Publish, Commits, AfterPush
  <2>2. \A v \in VMs \ changed : Staged[v] = head[v]
    BY DEF Staged
  <2> QED  BY <2>1, <2>2 DEF TreeInv, Intended, Failed
<1> QED  BY <1>1, <1>2, <1>3 DEF PushStep, CommitFails, PushFails, PushAnswerLost

\* Every step keeps the worktree accounted for.
LEMMA NextTree == SafeInv /\ TreeInv /\ [Next]_vars => TreeInv'
<1> SUFFICES ASSUME SafeInv, TreeInv, [Next]_vars PROVE TreeInv'
  OBVIOUS
<1>1. CASE UNCHANGED vars
  BY <1>1, TreeInvUntouched
<1>2. ASSUME NEW v \in VMs, Environment(v) PROVE TreeInv'
  <2>1. CASE GitEdit(v)
    BY <2>1 DEF GitEdit, TreeInv, Intended, Failed
  <2>2. CASE UserCreate(v) \/ UserEdit(v) \/ UserDelete(v) \/ Collect(v)
    BY <2>2, TreeInvUntouched DEF UserCreate, UserEdit, UserDelete, Collect
  <2> QED  BY <1>2, <2>1, <2>2 DEF Environment
<1>3. CASE Handler
  BY <1>3, TreeInvUntouched DEF Handler, Deliver, HandleCreate, HandleDelete
<1>4. CASE Fetch
  BY <1>4 DEF Fetch, ResetTo, TreeInv, SafeInv, LoopInv, Intended, Failed
<1>5. CASE ListVMs
  BY <1>5 DEF ListVMs, TreeInv, SafeInv, LoopInv, Intended, Failed
<1>6. ASSUME NEW kept \in SUBSET VMs, DeleteOrphans(kept) PROVE TreeInv'
  <2>1. RemoveFiles(Orphans, kept) /\ Orphans \in SUBSET (VMs \ expected)
    BY <1>6 DEF DeleteOrphans, Orphans
  <2>2. pc = "vms" /\ pc' = "push" /\ UNCHANGED <<listed, cur, expected, head, gitVars>>
    BY <1>6 DEF DeleteOrphans
  <2>3. \A v \in VMs \ expected : v \notin Orphans => work[v] = None
    BY DEF Orphans
  <2> QED  BY <2>1, <2>2, <2>3, RemovalTree DEF TreeInv
<1>7. CASE ListFails \/ TriggerSync \/ NoSync \/ Restart
  BY <1>7, TreeInvEndPass DEF ListFails, TriggerSync, NoSync, Restart
<1>8. CASE ArgoCD
  BY <1>8, TreeInvUntouched DEF ArgoCD, ArgoStart, ArgoApply, ArgoFinish
<1> QED  BY <1>1, <1>2, <1>3, <1>4, <1>5, <1>6, <1>7, <1>8, LoopTree, PushTree
         DEF Next, Worker

\* At the trigger a clean tree is the intended one but for missed files: no file
\* is torn, for the commit holds none, and no file is left that no listed VM
\* accounts for.
LEMMA CleanTreeIsIntended ==
    ASSUME SafeInv, TreeInv, pc = "trigger", TreeClean
    PROVE  /\ ~moved => remote = head
           /\ \A v \in VMs : head[v] # Torn /\ (v \in missed \/ head[v] = Intended(v))
<1> SUFFICES ASSUME NEW v \in VMs
             PROVE  head[v] # Torn /\ (v \in missed \/ head[v] = Intended(v))
  BY DEF TreeInv
<1>1. work[v] = head[v] /\ head[v] # Torn
  BY DEF TreeClean, SafeInv, TornInv
<1>2. CASE v \in expected
  BY <1>1, <1>2 DEF TreeInv, Failed
<1>3. CASE v \notin expected
  BY <1>1, <1>3 DEF TreeInv, Intended
<1> QED  BY <1>1, <1>2, <1>3

\* Only a pass at its trigger requests a sync.
LEMMA OnlyTriggerRequests ==
    ASSUME [Next]_vars, op = "none", op' = "requested" PROVE pc = "trigger" /\ TreeClean
<1>1. CASE TriggerSync
  BY <1>1 DEF TriggerSync
<1>2. CASE ~TriggerSync
  BY <1>2 DEF Next, Environment, UserCreate, UserEdit, UserDelete, Collect, GitEdit, Handler,
       Deliver, HandleCreate, HandleDelete, Worker, Fetch, ListVMs, ListFails, LoopStep,
       AddFinalizer, SkipVM, SaveVM, SaveFails, DropVM, DropFails, PassOver, DeleteOrphans,
       PushStep, NothingToPush, CommitFails, Push, PushFails, PushAnswerLost, NoSync,
       ArgoCD, ArgoStart, ArgoApply, ArgoFinish, Restart
<1> QED  BY <1>1, <1>2

\* The worktree is accounted for in every reachable state.
LEMMA SpecTree == Spec => []TreeInv
<1>1. Init => TreeInv
  BY DEF Init, TreeInv, Absent, Failed
<1> QED  BY <1>1, SpecSafe, NextTree, PTL DEF Spec

\* What is true at each point of a pass, for any number of VMs and whatever
\* fails: the loop works off its list, the changed files are exactly what the
\* snapshot asks for, and what should have changed and did not is missed or torn.
THEOREM PassHolds == Spec => []PassInv
  BY SpecTree, SpecSafe, PTL DEF SafeInv, PassInv

\* A sync is requested only when the commit of the pass holds what it listed,
\* whatever other actors did meanwhile, but for files that a failed write or
\* removal of this pass left as they were fetched.
THEOREM SyncPublished == Spec => SyncOnlyPublished
<1>1. SafeInv /\ TreeInv /\ [Next]_vars
      => [op = "none" /\ op' = "requested"
          => /\ ~moved => remote = head
             /\ \A v \in VMs : head[v] # Torn /\ (v \in missed \/ head[v] = Intended(v))]_vars
  BY CleanTreeIsIntended, OnlyTriggerRequests
<1> QED  BY <1>1, SpecTree, SpecSafe, PTL DEF Spec, SyncOnlyPublished
=============================================================================
