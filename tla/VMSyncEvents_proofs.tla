------------------------- MODULE VMSyncEvents_proofs -------------------------
(***************************************************************************)
(* Proofs about the order in which VMSync's operator learns what happens   *)
(* to a VM: what the pass listed against what the API server stores, and   *)
(* recentDeletions against what users want.  For any VMs and any bounds.   *)
(***************************************************************************)
EXTENDS VMSync_proofs

USE SentinelAssumption, ParameterAssumption
USE DEF vars, clusterVars, apiVars, infVars, passVars, loopVars, treeVars, outsideVars,
        gitVars, argoVars, countVars, bounds, history

-----------------------------------------------------------------------------
(* Sequences as functions of their index.                                    *)
LEMMA AppendedEntries ==
    ASSUME NEW S, NEW s \in Seq(S), NEW e \in S
    PROVE  /\ Len(Append(s, e)) = Len(s) + 1 /\ Len(s) \in Nat
           /\ \A i \in 1..Len(s) : Append(s, e)[i] = s[i]
           /\ Append(s, e)[Len(s) + 1] = e
           /\ s \o <<e>> = Append(s, e)
  OBVIOUS

LEMMA RemainingEntries ==
    ASSUME NEW S, NEW s \in Seq(S), s # <<>>
    PROVE  /\ Len(Tail(s)) = Len(s) - 1 /\ Len(s) \in Nat \ {0}
           /\ \A i \in 1..(Len(s) - 1) : Tail(s)[i] = s[i + 1]
           /\ Head(s) = s[1]
  OBVIOUS

Change == [vm : VMs, obj : Object \cup {None}]
VMEvent == [type : {"create", "update", "delete"}, vm : VMs, tracked : BOOLEAN]

\* Storing an object appends a change to the watch.
LEMMA StoreAppends ==
    ASSUME TypeOK, NEW v \in VMs, NEW obj \in Object \cup {None}, Store(v, obj)
    PROVE  /\ watch \in Seq(Change) /\ Len(watch) \in Nat
           /\ Len(watch') = Len(watch) + 1
           /\ \A i \in 1..Len(watch) : watch'[i] = watch[i]
           /\ watch'[Len(watch) + 1].vm = v /\ watch'[Len(watch) + 1].obj = obj
           /\ live'[v] = obj
           /\ \A w \in VMs \ {v} : live'[w] = live[w]
<1>1. watch \in Seq(Change) /\ live \in [VMs -> Object \cup {None}]
  BY DEF TypeOK, Change
<1>2. [vm |-> v, obj |-> obj] \in Change
  BY DEF Change
<1> QED  BY <1>1, <1>2, AppendedEntries DEF Store

-----------------------------------------------------------------------------
(* The last change of a VM that is on its way to the cache is what the API   *)
(* server stores; without one, the cache is up to date.                      *)
WatchInv ==
    \A v \in VMs :
        /\ (\A i \in 1..Len(watch) : watch[i].vm # v) => cache[v] = live[v]
        /\ \A i \in 1..Len(watch) :
              watch[i].vm = v /\ (\A k \in 1..Len(watch) : k > i => watch[k].vm # v)
              => watch[i].obj = live[v]

LEMMA StoreWatch ==
    ASSUME TypeOK, WatchInv, NEW v \in VMs, NEW obj \in Object \cup {None}, Store(v, obj),
           UNCHANGED cache
    PROVE  WatchInv'
<1> SUFFICES ASSUME NEW w \in VMs
             PROVE  /\ (\A i \in 1..Len(watch') : watch'[i].vm # w) => cache[w] = live'[w]
                    /\ \A i \in 1..Len(watch') :
                          watch'[i].vm = w /\ (\A k \in 1..Len(watch') : k > i => watch'[k].vm # w)
                          => watch'[i].obj = live'[w]
  BY DEF WatchInv
<1>1. CASE w = v
  BY <1>1, StoreAppends
<1>2. CASE w # v
  BY <1>2, StoreAppends DEF WatchInv
<1> QED  BY <1>1, <1>2

LEMMA DeliverWatch == ASSUME TypeOK, WatchInv, Deliver PROVE WatchInv'
<1>1. watch \in Seq(Change) /\ watch # <<>> /\ cache \in [VMs -> Object \cup {None}]
  BY DEF Deliver, TypeOK, Change
<1>2. /\ Len(watch') = Len(watch) - 1 /\ Len(watch) \in Nat \ {0}
      /\ \A i \in 1..(Len(watch) - 1) : watch'[i] = watch[i + 1]
      /\ Head(watch) = watch[1]
  BY <1>1, RemainingEntries DEF Deliver
<1>3. /\ cache' = [cache EXCEPT ![Head(watch).vm] = Head(watch).obj]
      /\ live' = live
  BY DEF Deliver
<1> SUFFICES ASSUME NEW w \in VMs
             PROVE  /\ (\A i \in 1..Len(watch') : watch'[i].vm # w) => cache'[w] = live[w]
                    /\ \A i \in 1..Len(watch') :
                          watch'[i].vm = w /\ (\A k \in 1..Len(watch') : k > i => watch'[k].vm # w)
                          => watch'[i].obj = live[w]
  BY <1>3 DEF WatchInv
<1>4. ASSUME \A i \in 1..Len(watch') : watch'[i].vm # w PROVE cache'[w] = live[w]
  <2>1. \A k \in 1..Len(watch) : k > 1 => watch[k].vm # w
    <3> SUFFICES ASSUME NEW k \in 1..Len(watch), k > 1 PROVE watch[k].vm # w
      OBVIOUS
    <3>1. k - 1 \in 1..Len(watch') /\ watch'[k - 1] = watch[k]
      BY <1>2
    <3> QED  BY <1>4, <3>1
  <2>2. CASE watch[1].vm = w
    <3>1. watch[1].obj = live[w]
      BY <1>2, <2>1, <2>2 DEF WatchInv
    <3> QED  BY <1>1, <1>2, <1>3, <2>2, <3>1
  <2>3. CASE watch[1].vm # w
    <3>1. cache[w] = live[w]
      BY <1>2, <2>1, <2>3 DEF WatchInv
    <3> QED  BY <1>1, <1>2, <1>3, <2>3, <3>1
  <2> QED  BY <2>2, <2>3
<1>5. ASSUME NEW i \in 1..Len(watch'), watch'[i].vm = w,
             \A k \in 1..Len(watch') : k > i => watch'[k].vm # w
      PROVE  watch'[i].obj = live[w]
  <2>1. \A k \in 1..Len(watch) : k > i + 1 => watch[k].vm # w
    <3> SUFFICES ASSUME NEW k \in 1..Len(watch), k > i + 1 PROVE watch[k].vm # w
      OBVIOUS
    <3>1. k - 1 \in 1..Len(watch') /\ watch'[k - 1] = watch[k] /\ k - 1 > i
      BY <1>2
    <3> QED  BY <1>5, <3>1
  <2>2. i + 1 \in 1..Len(watch) /\ watch'[i] = watch[i + 1]
    BY <1>2
  <2> QED  BY <1>5, <2>1, <2>2 DEF WatchInv
<1> QED  BY <1>4, <1>5

\* The objects that somebody else than the worker stores.
LEMMA OtherStores ==
    ASSUME SafeInv, NEW v \in VMs,
           UserCreate(v) \/ UserEdit(v) \/ UserDelete(v) \/ Collect(v) \/ ArgoApply(v)
    PROVE  \/ UNCHANGED <<apiVars, stale>>
           \/ \E obj \in Object \cup {None} : StoreByOther(v, obj)
<1> USE DEF SafeInv
<1>1. CASE UserCreate(v)
  <2>1. PICK b \in Bodies, t \in UserTracking :
           StoreByOther(v, [body |-> b, tracked |-> t, fin |-> FALSE, term |-> FALSE])
    BY <1>1 DEF UserCreate
  <2>2. [body |-> b, tracked |-> t, fin |-> FALSE, term |-> FALSE] \in Object
    BY DEF Object
  <2> QED  BY <2>1, <2>2
<1>2. CASE UserEdit(v)
  <2>1. PICK b \in Bodies : StoreByOther(v, [live[v] EXCEPT !.body = b])
    BY <1>2 DEF UserEdit
  <2>2. live[v] \in Object
    BY <1>2 DEF UserEdit, TypeOK
  <2>3. [live[v] EXCEPT !.body = b] \in Object
    BY <2>2 DEF Object
  <2> QED  BY <2>1, <2>3
<1>3. CASE UserDelete(v)
  <2>1. live[v] \in Object
    BY <1>3 DEF UserDelete, TypeOK
  <2>2. [live[v] EXCEPT !.term = TRUE] \in Object
    BY <2>1 DEF Object
  <2> QED  BY <1>3, <2>2 DEF UserDelete
<1>4. CASE Collect(v)
  BY <1>4 DEF Collect
<1>5. CASE ArgoApply(v)
  <2>1. applying[v] \in Manifest
    BY <1>5 DEF ArgoApply, TypeOK, TornInv, File
  <2>2. Applied(v) \in Object
    <3>1. CASE live[v] = None
      BY <2>1, <3>1 DEF Applied, Object, Manifest
    <3>2. CASE live[v] \in Object
      BY <2>1, <3>2 DEF Applied, Object, Manifest
    <3> QED  BY <3>1, <3>2 DEF TypeOK
  <2> QED  BY <1>5, <2>2 DEF ArgoApply
<1> QED  BY <1>1, <1>2, <1>3, <1>4, <1>5

\* What the worker stores is what it listed, but for the finalizer, and it was
\* unchanged since.
LEMMA WorkerStores ==
    ASSUME SafeInv, NEW v \in VMs, LoopStep(v)
    PROVE  \/ UNCHANGED apiVars
           \/ /\ v \notin stale /\ cur = None /\ v \in todo
              /\ listed[v] \in Object
              /\ \E f \in BOOLEAN : /\ [listed[v] EXCEPT !.fin = f] \in Object
                                    /\ Store(v, [listed[v] EXCEPT !.fin = f])
                                    /\ f => ~listed[v].term
                                    /\ ~f => listed[v].term
<1>1. CASE AddFinalizer(v) /\ Store(v, [listed[v] EXCEPT !.fin = TRUE]) /\ UnchangedSinceListed(v)
  <2>1. v \in todo /\ listed[v] \in Object
    BY <1>1, LoopVM DEF AddFinalizer
  <2>2. [listed[v] EXCEPT !.fin = TRUE] \in Object
    BY <2>1 DEF Object
  <2> QED  BY <1>1, <2>1, <2>2 DEF AddFinalizer, Takes, UnchangedSinceListed
<1>2. CASE DropVM(v)
  <2>1. v \in todo /\ listed[v] \in Object
    BY <1>2, LoopVM DEF DropVM
  <2>2. [listed[v] EXCEPT !.fin = FALSE] \in Object
    BY <2>1 DEF Object
  <2> QED  BY <1>2, <2>1, <2>2 DEF DropVM, Takes, UnchangedSinceListed, Released
<1>3. CASE ~DropVM(v) /\ ~(AddFinalizer(v) /\ Store(v, [listed[v] EXCEPT !.fin = TRUE])
                           /\ UnchangedSinceListed(v))
  <2>1. UNCHANGED apiVars
    BY <1>3 DEF LoopStep, AddFinalizer, SkipVM, SaveVM, SaveFails, DropFails, PassOver
  <2> QED  BY <2>1
<1> QED  BY <1>1, <1>2, <1>3

\* The steps of the worker outside its loop leave the cluster alone.
LEMMA WorkerQuiet ==
    ASSUME Worker, \A v \in VMs : ~LoopStep(v) PROVE UNCHANGED clusterVars
  BY DEF Worker, Fetch, ListVMs, ListFails, DeleteOrphans, PushStep, NothingToPush, CommitFails,
         Push, PushFails, PushAnswerLost, TriggerSync, NoSync

\* No step of the loop touches the informer or the handler.
LEMMA LoopInformer == ASSUME NEW v \in VMs, LoopStep(v) PROVE UNCHANGED infVars
  BY DEF LoopStep, AddFinalizer, SkipVM, SaveVM, SaveFails, DropVM, DropFails, PassOver

LEMMA NextWatch == SafeInv /\ WatchInv /\ [Next]_vars => WatchInv'
<1> SUFFICES ASSUME SafeInv, WatchInv, [Next]_vars PROVE WatchInv'
  OBVIOUS
<1> USE DEF SafeInv
<1>1. ASSUME UNCHANGED <<live, watch, cache>> PROVE WatchInv'
  BY <1>1 DEF WatchInv
<1>2. ASSUME NEW v \in VMs, Environment(v) \/ ArgoApply(v) PROVE WatchInv'
  <2>1. CASE GitEdit(v)
    BY <1>1, <2>1 DEF GitEdit
  <2>2. CASE ~GitEdit(v)
    <3>1. cache' = cache
      BY <1>2, <2>2 DEF Environment, UserCreate, UserEdit, UserDelete, Collect, ArgoApply
    <3>2. \/ UNCHANGED <<apiVars, stale>>
          \/ \E obj \in Object \cup {None} : StoreByOther(v, obj)
      BY <1>2, <2>2, OtherStores DEF Environment
    <3> QED  BY <1>1, <3>1, <3>2, StoreWatch DEF StoreByOther
  <2> QED  BY <2>1, <2>2
<1>3. CASE Handler
  BY <1>1, <1>3, DeliverWatch DEF Handler, HandleCreate, HandleDelete
<1>4. ASSUME NEW v \in VMs, LoopStep(v) PROVE WatchInv'
  BY <1>1, <1>4, WorkerStores, LoopInformer, StoreWatch
<1>5. CASE Worker /\ \A v \in VMs : ~LoopStep(v)
  BY <1>1, <1>5, WorkerQuiet
<1>6. CASE ArgoStart \/ ArgoFinish
  BY <1>1, <1>6 DEF ArgoStart, ArgoFinish
<1>7. CASE Restart
  BY <1>7 DEF Restart, WatchInv
<1>8. CASE UNCHANGED vars
  BY <1>1, <1>8
<1> QED  BY <1>2, <1>3, <1>4, <1>5, <1>6, <1>7, <1>8 DEF Next, ArgoCD, Worker

-----------------------------------------------------------------------------
(* A VM that the loop has not taken up, and that nobody changed since the    *)
(* list, is as it was listed: the resourceVersion tells the worker so.       *)
ListedInv == \A v \in todo \ stale : v # cur => listed[v] = live[v]

LEMMA LoopListed ==
    ASSUME SafeInv, ListedInv, NEW v \in VMs, LoopStep(v) PROVE ListedInv'
<1>1. v \in todo
  BY LoopVM DEF LoopStep, AddFinalizer, SkipVM, SaveVM, SaveFails, DropVM, DropFails, PassOver
<1>2. \A w \in VMs \ {v} : live'[w] = live[w]
  <2>1. TypeOK
    BY DEF SafeInv
  <2> QED  BY <2>1, WorkerStores, StoreAppends
<1>3. UNCHANGED <<stale, listed>> /\ cur \in {None, v}
  BY DEF LoopStep, AddFinalizer, SkipVM, SaveVM, SaveFails, DropVM, DropFails, PassOver,
         SavesNext, Takes
<1>4. \/ cur' = v /\ todo' = todo
      \/ todo' = todo \ {v}
  <2>1. CASE AddFinalizer(v)
    BY <2>1 DEF AddFinalizer
  <2>2. CASE ~AddFinalizer(v)
    <3>1. Done(v)
      BY <2>2 DEF LoopStep, SkipVM, SaveVM, SaveFails, DropVM, DropFails, PassOver
    <3> QED  BY <3>1 DEF Done
  <2> QED  BY <2>1, <2>2
<1>5. todo \subseteq VMs
  BY DEF SafeInv, TypeOK
<1> QED  BY <1>2, <1>3, <1>4, <1>5 DEF ListedInv

LEMMA NextListed == SafeInv /\ WatchInv /\ ListedInv /\ [Next]_vars => ListedInv'
<1> SUFFICES ASSUME SafeInv, WatchInv, ListedInv, [Next]_vars PROVE ListedInv'
  OBVIOUS
<1>1. ASSUME UNCHANGED <<live, todo, stale, cur, listed>> PROVE ListedInv'
  BY <1>1 DEF ListedInv
<1>2. ASSUME todo' = {} PROVE ListedInv'
  BY <1>2 DEF ListedInv
<1>3. ASSUME NEW v \in VMs, Environment(v) \/ ArgoApply(v) PROVE ListedInv'
  <2>1. CASE GitEdit(v)
    BY <1>1, <2>1 DEF GitEdit
  <2>2. CASE ~GitEdit(v)
    <3>1. UNCHANGED loopVars
      BY <1>3, <2>2 DEF Environment, UserCreate, UserEdit, UserDelete, Collect, ArgoApply
    <3>2. \/ UNCHANGED <<apiVars, stale>>
          \/ \E obj \in Object \cup {None} : StoreByOther(v, obj)
      BY <1>3, <2>2, OtherStores DEF Environment
    <3>3. ASSUME NEW obj \in Object \cup {None}, StoreByOther(v, obj) PROVE ListedInv'
      <4>1. stale' = stale \cup ({v} \cap todo) /\ \A w \in VMs \ {v} : live'[w] = live[w]
        BY <3>3, StoreAppends DEF StoreByOther, SafeInv
      <4>2. todo \subseteq VMs
        BY DEF SafeInv, TypeOK
      <4> QED  BY <3>1, <4>1, <4>2 DEF ListedInv
    <3> QED  BY <1>1, <3>1, <3>2, <3>3
  <2> QED  BY <2>1, <2>2
<1>4. CASE Handler
  BY <1>1, <1>4 DEF Handler, Deliver, HandleCreate, HandleDelete
<1>5. CASE ListVMs
  BY <1>5 DEF ListVMs, Matching, ListedInv, WatchInv
<1>6. CASE Fetch \/ \E kept \in SUBSET VMs : DeleteOrphans(kept)
  BY <1>1, <1>6 DEF Fetch, DeleteOrphans
<1>7. CASE PushStep \/ TriggerSync \/ NoSync \/ ListFails \/ Restart
  BY <1>1, <1>2, <1>7
  DEF PushStep, NothingToPush, CommitFails, Push, PushFails, PushAnswerLost, TriggerSync,
      NoSync, ListFails, Restart, AfterPush, EndPass
<1>8. CASE ArgoStart \/ ArgoFinish
  BY <1>1, <1>8 DEF ArgoStart, ArgoFinish
<1>9. CASE UNCHANGED vars
  BY <1>1, <1>9
<1> QED
  BY <1>3, <1>4, <1>5, <1>6, <1>7, <1>8, <1>9, LoopListed DEF Next, Worker, ArgoCD

\* Both hold from the start.
LEMMA SpecListed == Spec => [](WatchInv /\ ListedInv)
<1>1. Init => WatchInv /\ ListedInv
  BY DEF Init, WatchInv, ListedInv
<1>2. SafeInv /\ WatchInv /\ ListedInv /\ [Next]_vars => WatchInv' /\ ListedInv'
  BY NextWatch, NextListed
<1> QED  BY <1>1, <1>2, SpecSafe, PTL DEF Spec

\* A step of the loop changes at most the finalizer of the VM it is at.
LEMMA FinalizerOnly ==
    ASSUME SafeInv, ListedInv, [Next]_vars, NEW v \in VMs, (cur' = v /\ cur # v) \/ v \in todo \ todo'
    PROVE  \/ live'[v] = live[v]
           \/ /\ live[v] # None
              /\ \E f \in BOOLEAN : live'[v] = [live[v] EXCEPT !.fin = f]
<1>1. ASSUME NEW w \in VMs, LoopStep(w) PROVE
           \/ live'[v] = live[v]
           \/ /\ live[v] # None
              /\ \E f \in BOOLEAN : live'[v] = [live[v] EXCEPT !.fin = f]
  <2>1. CASE UNCHANGED apiVars
    BY <2>1
  <2>2. CASE ~UNCHANGED apiVars
    <3>1. PICK f \in BOOLEAN : /\ [listed[w] EXCEPT !.fin = f] \in Object
                               /\ Store(w, [listed[w] EXCEPT !.fin = f])
      BY <1>1, <2>2, WorkerStores
    <3>2. w \in todo \ stale /\ w # cur /\ listed[w] \in Object
      BY <1>1, <2>2, WorkerStores
    <3>3. listed[w] = live[w]
      BY <3>2 DEF ListedInv
    <3>4. live'[w] = [live[w] EXCEPT !.fin = f] /\ \A u \in VMs \ {w} : live'[u] = live[u]
      BY <3>1, <3>3, StoreAppends DEF SafeInv
    <3>5. live[w] # None
      BY <3>2, <3>3
    <3> QED  BY <3>4, <3>5
  <2> QED  BY <2>1, <2>2
<1>2. CASE Worker /\ \A w \in VMs : ~LoopStep(w)
  BY <1>2, WorkerQuiet
<1>3. CASE ~Worker
  <2>1. UNCHANGED <<cur, todo>> \/ UNCHANGED live
    BY <1>3
    DEF Next, Environment, UserCreate, UserEdit, UserDelete, Collect, GitEdit, Handler, Deliver,
        HandleCreate, HandleDelete, ArgoCD, ArgoStart, ArgoApply, ArgoFinish, Restart
  <2> QED  BY <2>1
<1> QED  BY <1>1, <1>2, <1>3

\* The operator's updates of a VM, sent back whole from a list that may be
\* old, never take back what others did to it.
THEOREM FinalizerUpdates == Spec => FinalizerUpdateKeepsEdits
<1>1. SafeInv /\ ListedInv /\ [Next]_vars
      => [\A v \in VMs :
             (cur' = v /\ cur # v) \/ v \in todo \ todo'
             => \/ live'[v] = live[v]
                \/ /\ live[v] # None
                   /\ \E f \in BOOLEAN : live'[v] = [live[v] EXCEPT !.fin = f]]_vars
  BY FinalizerOnly
<1> QED  BY <1>1, SpecSafe, SpecListed, PTL DEF Spec, FinalizerUpdateKeepsEdits

-----------------------------------------------------------------------------
(* recentDeletions.  While a user wants a VM, either its creation is still   *)
(* on its way to the cache, after the deletion that made room for it, or it  *)
(* is in the cache: then its creation is queued behind every deletion, or    *)
(* has been handled after them.  That takes a creation without ArgoCD's      *)
(* annotation: a copied VM has none that clears recentDeletions.             *)

\* The creation is change i; the change before it, or the cache, has no VM.
Coming(v) ==
    \E i \in 1..Len(watch) :
        /\ watch[i].vm = v /\ watch[i].obj # None /\ ~watch[i].obj.tracked
        /\ \A k \in 1..Len(watch) : k > i /\ watch[k].vm = v => watch[k].obj # None
        /\ (\A k \in 1..Len(watch) : k < i => watch[k].vm # v) => cache[v] = None
        /\ \A j \in 1..Len(watch) :
              /\ j < i /\ watch[j].vm = v
              /\ \A k \in 1..Len(watch) : j < k /\ k < i => watch[k].vm # v
              => watch[j].obj = None

NoDeletionAfter(v, i) ==
    \A k \in 1..Len(events) : k > i /\ events[k].vm = v => events[k].type # "delete"

CreationQueued(v) ==
    \E i \in 1..Len(events) :
        /\ events[i].vm = v /\ events[i].type = "create" /\ ~events[i].tracked
        /\ NoDeletionAfter(v, i)

Arrived(v) ==
    /\ cache[v] # None
    /\ \A k \in 1..Len(watch) : watch[k].vm = v => watch[k].obj # None
    /\ (v \notin recent /\ NoDeletionAfter(v, 0)) \/ CreationQueued(v)

WantedInv ==
    /\ \A v \in wanted : live[v] # None /\ ~live[v].term
    /\ \A v \in wanted \ copied : Coming(v) \/ Arrived(v)

\* Objects keep what an update does not name.
LEMMA ObjectUpdate ==
    ASSUME NEW o \in Object, NEW b \in Bodies, NEW f \in BOOLEAN
    PROVE  /\ [o EXCEPT !.fin = f] \in Object /\ [o EXCEPT !.fin = f].term = o.term
           /\ [o EXCEPT !.body = b] \in Object /\ [o EXCEPT !.body = b].term = o.term
           /\ [o EXCEPT !.body = b, !.tracked = TRUE] \in Object
           /\ [o EXCEPT !.body = b, !.tracked = TRUE].term = o.term
  BY DEF Object

\* Changes of other VMs, and changes that leave the VM there, disturb nothing.
LEMMA StoreWanted ==
    ASSUME TypeOK, NEW v \in VMs, NEW obj \in Object \cup {None}, Store(v, obj),
           UNCHANGED infVars, NEW w \in VMs, obj # None \/ w # v, Coming(w) \/ Arrived(w)
    PROVE  Coming(w)' \/ Arrived(w)'
<1>1. /\ Len(watch) \in Nat /\ Len(watch') = Len(watch) + 1
      /\ \A i \in 1..Len(watch) : watch'[i] = watch[i]
      /\ watch'[Len(watch) + 1].vm = v /\ watch'[Len(watch) + 1].obj = obj
  BY StoreAppends
<1>2. CASE Coming(w)
  <2>1. PICK i \in 1..Len(watch) :
            /\ watch[i].vm = w /\ watch[i].obj # None /\ ~watch[i].obj.tracked
            /\ \A k \in 1..Len(watch) : k > i /\ watch[k].vm = w => watch[k].obj # None
            /\ (\A k \in 1..Len(watch) : k < i => watch[k].vm # w) => cache[w] = None
            /\ \A j \in 1..Len(watch) :
                  /\ j < i /\ watch[j].vm = w
                  /\ \A k \in 1..Len(watch) : j < k /\ k < i => watch[k].vm # w
                  => watch[j].obj = None
    BY <1>2 DEF Coming
  <2>2. i \in 1..Len(watch') /\ watch'[i] = watch[i]
    BY <1>1
  <2>3. \A k \in 1..Len(watch') : k > i /\ watch'[k].vm = w => watch'[k].obj # None
    BY <1>1, <2>1
  <2>4. (\A k \in 1..Len(watch') : k < i => watch'[k].vm # w) => cache[w] = None
    BY <1>1, <2>1
  <2>5. \A j \in 1..Len(watch') :
            /\ j < i /\ watch'[j].vm = w
            /\ \A k \in 1..Len(watch') : j < k /\ k < i => watch'[k].vm # w
            => watch'[j].obj = None
    BY <1>1, <2>1
  <2> QED  BY <2>1, <2>2, <2>3, <2>4, <2>5 DEF Coming
<1>3. CASE Arrived(w)
  BY <1>1, <1>3 DEF Arrived, CreationQueued, NoDeletionAfter
<1> QED  BY <1>2, <1>3

\* A user's creation goes to the end of the watch, behind what made room.
LEMMA CreateWanted ==
    ASSUME TypeOK, WatchInv, NEW v \in VMs, NEW obj \in Object, Store(v, obj), UNCHANGED infVars,
           live[v] = None, ~obj.tracked
    PROVE  Coming(v)'
<1>1. /\ Len(watch) \in Nat /\ Len(watch') = Len(watch) + 1
      /\ \A i \in 1..Len(watch) : watch'[i] = watch[i]
      /\ watch'[Len(watch) + 1].vm = v /\ watch'[Len(watch) + 1].obj = obj
  BY StoreAppends
<1> DEFINE i == Len(watch) + 1
<1>2. i \in 1..Len(watch') /\ watch'[i].vm = v /\ watch'[i].obj # None /\ ~watch'[i].obj.tracked
  BY <1>1
<1>3. \A k \in 1..Len(watch') : ~(k > i)
  BY <1>1
<1>4. (\A k \in 1..Len(watch') : k < i => watch'[k].vm # v) => cache[v] = None
  <2> SUFFICES ASSUME \A k \in 1..Len(watch') : k < i => watch'[k].vm # v
               PROVE  cache[v] = None
    OBVIOUS
  <2>1. \A k \in 1..Len(watch) : watch[k].vm # v
    BY <1>1
  <2> QED  BY <2>1 DEF WatchInv
<1>5. \A j \in 1..Len(watch') :
          /\ j < i /\ watch'[j].vm = v
          /\ \A k \in 1..Len(watch') : j < k /\ k < i => watch'[k].vm # v
          => watch'[j].obj = None
  <2> SUFFICES ASSUME NEW j \in 1..Len(watch'), j < i, watch'[j].vm = v,
                      \A k \in 1..Len(watch') : j < k /\ k < i => watch'[k].vm # v
               PROVE  watch'[j].obj = None
    OBVIOUS
  <2>1. j \in 1..Len(watch) /\ watch[j].vm = v
    BY <1>1
  <2>2. \A k \in 1..Len(watch) : k > j => watch[k].vm # v
    BY <1>1
  <2> QED  BY <1>1, <2>1, <2>2 DEF WatchInv
<1> HIDE DEF i
<1> QED  BY <1>2, <1>3, <1>4, <1>5 DEF Coming

\* What a delivery does to the queues.
LEMMA DeliverShifts ==
    ASSUME TypeOK, Deliver
    PROVE  /\ Len(watch') = Len(watch) - 1 /\ Len(watch) \in Nat \ {0}
           /\ \A i \in 1..(Len(watch) - 1) : watch'[i] = watch[i + 1]
           /\ watch[1] \in Change
           /\ cache'[watch[1].vm] = watch[1].obj
           /\ \A w \in VMs : w # watch[1].vm => cache'[w] = cache[w]
           /\ recent' = recent /\ live' = live
<1>1. watch \in Seq(Change) /\ watch # <<>> /\ cache \in [VMs -> Object \cup {None}]
  BY DEF Deliver, TypeOK, Change
<1>2. Head(watch) = watch[1] /\ Head(watch) \in Change
  BY <1>1, RemainingEntries, QueueType
<1>3. watch[1].vm \in VMs
  BY <1>2 DEF Change
<1> QED  BY <1>1, <1>2, <1>3, RemainingEntries DEF Deliver

\* The event it fires, if any, goes to the end of the events.
LEMMA DeliverFires ==
    ASSUME TypeOK, Deliver, watch[1] \in Change
    PROVE  \/ /\ events' = events
              /\ cache[watch[1].vm] # None /\ watch[1].obj # None
           \/ /\ Len(events) \in Nat /\ Len(events') = Len(events) + 1
              /\ \A i \in 1..Len(events) : events'[i] = events[i]
              /\ events'[Len(events) + 1].vm = watch[1].vm
              /\ \/ /\ watch[1].obj = None
                    /\ events'[Len(events) + 1].type = "delete"
                 \/ /\ watch[1].obj # None /\ cache[watch[1].vm] = None
                    /\ events'[Len(events) + 1].type = "create"
                    /\ events'[Len(events) + 1].tracked = watch[1].obj.tracked
<1> DEFINE new == watch[1]
           type == EventType(cache[new.vm], new.obj)
           event == [type |-> type, vm |-> new.vm, tracked |-> type = "create" /\ new.obj.tracked]
<1>1. events \in Seq(VMEvent) /\ watch \in Seq(Change) /\ watch # <<>>
  BY DEF TypeOK, VMEvent, Deliver, Change
<1>2. Head(watch) = new
  BY <1>1, RemainingEntries
<1>3. events' = events \o (IF type = "update" THEN <<>> ELSE <<event>>)
  BY <1>2 DEF Deliver
<1>4. CASE type = "update"
  <2>1. events' = events
    BY <1>1, <1>3, <1>4
  <2> QED  BY <1>4, <2>1 DEF EventType
<1>5. CASE type # "update"
  <2>1. /\ new.vm \in VMs
        /\ type \in {"create", "delete"}
        /\ type = "delete" => new.obj = None
        /\ type = "create" => new.obj \in Object /\ cache[new.vm] = None
    BY <1>5 DEF EventType, Change
  <2>2. type = "create" => new.obj.tracked \in BOOLEAN
    BY <2>1 DEF Object
  <2>3. event \in VMEvent
    BY <2>1 DEF VMEvent
  <2>4. event.vm = new.vm /\ event.type = type /\ (type = "create" => event.tracked = new.obj.tracked)
    BY <2>2
  <2> HIDE DEF type, event
  <2>5. events' = Append(events, event)
    BY <1>1, <1>3, <1>5, <2>3, AppendedEntries
  <2>6. /\ Len(events) \in Nat /\ Len(events') = Len(events) + 1
        /\ \A i \in 1..Len(events) : events'[i] = events[i]
        /\ events'[Len(events) + 1] = event
    BY <1>1, <2>3, <2>5, AppendedEntries
  <2>7. CASE type = "delete"
    BY <2>1, <2>4, <2>6, <2>7
  <2>8. CASE type = "create"
    BY <2>1, <2>4, <2>6, <2>8
  <2> QED  BY <2>1, <2>7, <2>8
<1> QED  BY <1>4, <1>5

\* A creation that arrives is queued behind the deletions that arrived before.
LEMMA DeliverWanted ==
    ASSUME TypeOK, Deliver, NEW v \in VMs, Coming(v) \/ Arrived(v)
    PROVE  Coming(v)' \/ Arrived(v)'
<1> DEFINE new == watch[1]
<1>1. /\ Len(watch') = Len(watch) - 1 /\ Len(watch) \in Nat \ {0}
      /\ \A i \in 1..(Len(watch) - 1) : watch'[i] = watch[i + 1]
      /\ new \in Change
      /\ cache'[new.vm] = new.obj
      /\ \A w \in VMs : w # new.vm => cache'[w] = cache[w]
      /\ recent' = recent
  BY DeliverShifts
<1>2. \/ /\ events' = events
         /\ cache[new.vm] # None /\ new.obj # None
      \/ /\ Len(events) \in Nat /\ Len(events') = Len(events) + 1
         /\ \A i \in 1..Len(events) : events'[i] = events[i]
         /\ events'[Len(events) + 1].vm = new.vm
         /\ \/ /\ new.obj = None
               /\ events'[Len(events) + 1].type = "delete"
            \/ /\ new.obj # None /\ cache[new.vm] = None
               /\ events'[Len(events) + 1].type = "create"
               /\ events'[Len(events) + 1].tracked = new.obj.tracked
  BY <1>1, DeliverFires
<1> HIDE DEF new
<1>3. CASE Arrived(v)
  <2>1. new.vm = v => new.obj # None
    BY <1>1, <1>3 DEF Arrived, new
  <2>2. cache'[v] # None
    BY <1>1, <1>3, <2>1 DEF Arrived
  <2>3. \A k \in 1..Len(watch') : watch'[k].vm = v => watch'[k].obj # None
    <3> SUFFICES ASSUME NEW k \in 1..Len(watch'), watch'[k].vm = v PROVE watch'[k].obj # None
      OBVIOUS
    <3>1. k + 1 \in 1..Len(watch) /\ watch'[k] = watch[k + 1]
      BY <1>1
    <3> QED  BY <1>3, <3>1 DEF Arrived
  <2>4. (v \notin recent' /\ NoDeletionAfter(v, 0)') \/ CreationQueued(v)'
    <3>1. CASE events' = events
      BY <1>1, <1>3, <3>1 DEF Arrived, NoDeletionAfter, CreationQueued
    <3>2. CASE events' # events
      <4>1. \A i \in Nat : NoDeletionAfter(v, i) => NoDeletionAfter(v, i)'
        BY <1>2, <2>1, <3>2 DEF NoDeletionAfter
      <4> QED  BY <1>1, <1>2, <1>3, <3>2, <4>1 DEF Arrived, CreationQueued
    <3> QED  BY <3>1, <3>2
  <2> QED  BY <2>2, <2>3, <2>4 DEF Arrived
<1>4. CASE Coming(v)
  <2>1. PICK i \in 1..Len(watch) :
            /\ watch[i].vm = v /\ watch[i].obj # None /\ ~watch[i].obj.tracked
            /\ \A k \in 1..Len(watch) : k > i /\ watch[k].vm = v => watch[k].obj # None
            /\ (\A k \in 1..Len(watch) : k < i => watch[k].vm # v) => cache[v] = None
            /\ \A j \in 1..Len(watch) :
                  /\ j < i /\ watch[j].vm = v
                  /\ \A k \in 1..Len(watch) : j < k /\ k < i => watch[k].vm # v
                  => watch[j].obj = None
    BY <1>4 DEF Coming
  <2>2. CASE i = 1
    <3>1. new.vm = v /\ new.obj # None /\ ~new.obj.tracked /\ cache[v] = None
      BY <1>1, <2>1, <2>2 DEF new
    <3>2. cache'[v] # None
      BY <1>1, <3>1
    <3>3. \A k \in 1..Len(watch') : watch'[k].vm = v => watch'[k].obj # None
      <4> SUFFICES ASSUME NEW k \in 1..Len(watch'), watch'[k].vm = v PROVE watch'[k].obj # None
        OBVIOUS
      <4>1. k + 1 \in 1..Len(watch) /\ watch'[k] = watch[k + 1] /\ k + 1 > i
        BY <1>1, <2>2
      <4> QED  BY <2>1, <4>1
    <3>4. CreationQueued(v)'
      <4>1. Len(events) + 1 \in 1..Len(events') /\ \A k \in 1..Len(events') : ~(k > Len(events) + 1)
        BY <1>2, <3>1
      <4> QED  BY <1>2, <3>1, <4>1 DEF CreationQueued, NoDeletionAfter
    <3> QED  BY <3>2, <3>3, <3>4 DEF Arrived
  <2>3. CASE i # 1
    <3>1. i - 1 \in 1..Len(watch') /\ watch'[i - 1] = watch[i]
      BY <1>1, <2>3
    <3>2. \A k \in 1..Len(watch') : k > i - 1 /\ watch'[k].vm = v => watch'[k].obj # None
      <4> SUFFICES ASSUME NEW k \in 1..Len(watch'), k > i - 1, watch'[k].vm = v
                   PROVE  watch'[k].obj # None
        OBVIOUS
      <4>1. k + 1 \in 1..Len(watch) /\ watch'[k] = watch[k + 1] /\ k + 1 > i
        BY <1>1
      <4> QED  BY <2>1, <4>1
    <3>3. ASSUME \A k \in 1..Len(watch') : k < i - 1 => watch'[k].vm # v PROVE cache'[v] = None
      <4>1. \A k \in 1..Len(watch) : 1 < k /\ k < i => watch[k].vm # v
        <5> SUFFICES ASSUME NEW k \in 1..Len(watch), 1 < k, k < i PROVE watch[k].vm # v
          OBVIOUS
        <5>1. k - 1 \in 1..Len(watch') /\ watch'[k - 1] = watch[k] /\ k - 1 < i - 1
          BY <1>1
        <5> QED  BY <3>3, <5>1
      <4>2. CASE watch[1].vm = v
        <5>1. watch[1].obj = None
          BY <1>1, <2>1, <2>3, <4>1, <4>2
        <5> QED  BY <1>1, <4>2, <5>1 DEF new
      <4>3. CASE watch[1].vm # v
        <5>1. cache[v] = None
          BY <1>1, <2>1, <4>1, <4>3
        <5> QED  BY <1>1, <4>3, <5>1 DEF new
      <4> QED  BY <4>2, <4>3
    <3>4. ASSUME NEW j \in 1..Len(watch'), j < i - 1, watch'[j].vm = v,
                 \A k \in 1..Len(watch') : j < k /\ k < i - 1 => watch'[k].vm # v
          PROVE  watch'[j].obj = None
      <4>1. j + 1 \in 1..Len(watch) /\ watch'[j] = watch[j + 1] /\ j + 1 < i
        BY <1>1, <3>4
      <4>2. \A k \in 1..Len(watch) : j + 1 < k /\ k < i => watch[k].vm # v
        <5> SUFFICES ASSUME NEW k \in 1..Len(watch), j + 1 < k, k < i PROVE watch[k].vm # v
          OBVIOUS
        <5>1. k - 1 \in 1..Len(watch') /\ watch'[k - 1] = watch[k] /\ j < k - 1 /\ k - 1 < i - 1
          BY <1>1
        <5> QED  BY <3>4, <5>1
      <4> QED  BY <2>1, <3>4, <4>1, <4>2
    <3> QED  BY <2>1, <3>1, <3>2, <3>3, <3>4 DEF Coming
  <2> QED  BY <2>2, <2>3
<1> QED  BY <1>3, <1>4

\* Handling an event keeps the order of the others.
LEMMA HandleWanted ==
    ASSUME TypeOK, HandleCreate \/ HandleDelete, NEW v \in VMs, Coming(v) \/ Arrived(v)
    PROVE  Coming(v)' \/ Arrived(v)'
<1>1. /\ Len(events') = Len(events) - 1 /\ Len(events) \in Nat \ {0}
      /\ \A i \in 1..(Len(events) - 1) : events'[i] = events[i + 1]
      /\ Head(events) = events[1]
      /\ UNCHANGED <<watch, cache>>
  <2>1. events \in Seq(VMEvent) /\ events # <<>>
    BY DEF HandleCreate, HandleDelete, TypeOK, VMEvent
  <2> QED  BY <2>1, RemainingEntries DEF HandleCreate, HandleDelete
<1>2. CASE Coming(v)
  <2>1. watch' = watch /\ cache' = cache
    BY <1>1
  <2>2. Coming(v)' = Coming(v)
    BY ONLY <2>1 DEF Coming
  <2> QED  BY <1>2, <2>2
<1>3. \A i \in Nat : NoDeletionAfter(v, i + 1) => NoDeletionAfter(v, i)'
  <2> SUFFICES ASSUME NEW i \in Nat, NoDeletionAfter(v, i + 1),
                      NEW k \in 1..Len(events'), k > i, events'[k].vm = v
               PROVE  events'[k].type # "delete"
    BY DEF NoDeletionAfter
  <2>1. k + 1 \in 1..Len(events) /\ events'[k] = events[k + 1] /\ k + 1 > i + 1
    BY <1>1
  <2> QED  BY <2>1 DEF NoDeletionAfter
<1>4. CASE Arrived(v)
  <2>1. (v \notin recent' /\ NoDeletionAfter(v, 0)') \/ CreationQueued(v)'
    <3>1. CASE v \notin recent /\ NoDeletionAfter(v, 0)
      <4>1. NoDeletionAfter(v, 1) /\ ~(events[1].vm = v /\ events[1].type = "delete")
        BY <1>1, <3>1 DEF NoDeletionAfter
      <4>2. v \notin recent'
        BY <1>1, <3>1, <4>1 DEF HandleCreate, HandleDelete
      <4> QED  BY <1>3, <4>1, <4>2
    <3>2. ASSUME NEW i \in 1..Len(events), events[i].vm = v, events[i].type = "create",
                 ~events[i].tracked, NoDeletionAfter(v, i)
          PROVE  (v \notin recent' /\ NoDeletionAfter(v, 0)') \/ CreationQueued(v)'
      <4>1. CASE i = 1
        <5>1. v \notin recent'
          BY <1>1, <3>2, <4>1 DEF HandleCreate, HandleDelete, ClearsDeletion
        <5> QED  BY <1>3, <3>2, <4>1, <5>1
      <4>2. CASE i # 1
        <5>1. /\ i - 1 \in 1..Len(events') /\ events'[i - 1] = events[i]
              /\ i - 1 \in Nat /\ (i - 1) + 1 = i
          BY <1>1, <4>2
        <5>2. NoDeletionAfter(v, i - 1)'
          BY <1>3, <3>2, <5>1
        <5> QED  BY <3>2, <5>1, <5>2 DEF CreationQueued
      <4> QED  BY <4>1, <4>2
    <3> QED  BY <1>4, <3>1, <3>2 DEF Arrived, CreationQueued
  <2> QED  BY <1>1, <1>4, <2>1 DEF Arrived
<1> QED  BY <1>2, <1>4

\* What the steps of others store of a VM that its user wants.
LEMMA EnvironmentWanted ==
    ASSUME SafeInv, WatchInv, WantedInv,
           NEW u \in VMs, Environment(u) \/ ArgoApply(u)
    PROVE  WantedInv'
<1> USE DEF SafeInv
<1>1. ASSUME UNCHANGED <<live, watch, infVars>>, UNCHANGED <<wanted, copied>> PROVE WantedInv'
  BY <1>1 DEF WantedInv, Coming, Arrived, CreationQueued, NoDeletionAfter
<1>2. ASSUME NEW obj \in Object \cup {None}, Store(u, obj), UNCHANGED infVars,
             wanted' \subseteq wanted, wanted' \ copied' \subseteq wanted \ copied,
             u \in wanted' => obj # None /\ ~obj.term
      PROVE  WantedInv'
  <2>1. ASSUME NEW w \in wanted' \ copied' PROVE Coming(w)' \/ Arrived(w)'
    <3>1. w \in wanted \ copied /\ w \in VMs /\ (w = u => obj # None)
      BY <1>2, <2>1 DEF TypeOK
    <3>2. Coming(w) \/ Arrived(w)
      BY <3>1 DEF WantedInv
    <3> QED  BY <1>2, <3>1, <3>2, StoreWanted
  <2>2. ASSUME NEW w \in wanted' PROVE live'[w] # None /\ ~live'[w].term
    <3>1. w \in wanted /\ w \in VMs
      BY <1>2, <2>2 DEF TypeOK
    <3> QED  BY <1>2, <3>1, StoreAppends DEF WantedInv
  <2> QED  BY <2>1, <2>2 DEF WantedInv
<1>3. CASE UserCreate(u)
  <2>1. PICK b \in Bodies, t \in UserTracking :
           /\ StoreByOther(u, [body |-> b, tracked |-> t, fin |-> FALSE, term |-> FALSE])
           /\ copied' = IF t THEN copied \cup {u} ELSE copied \ {u}
    BY <1>3 DEF UserCreate
  <2> DEFINE obj == [body |-> b, tracked |-> t, fin |-> FALSE, term |-> FALSE]
  <2>2. obj \in Object /\ obj.tracked = t /\ ~obj.term
    BY DEF Object
  <2>3. Store(u, obj)
    BY <2>1 DEF StoreByOther
  <2> HIDE DEF obj
  <2>4. live[u] = None /\ UNCHANGED infVars /\ wanted' = wanted \cup {u}
    BY <1>3 DEF UserCreate
  <2>5. obj # None
    BY <2>2, SentinelAssumption
  <2>6. ASSUME NEW w \in wanted' PROVE live'[w] # None /\ ~live'[w].term
    <3>1. CASE w = u
      BY <2>2, <2>3, <2>5, <3>1, StoreAppends
    <3>2. CASE w # u
      <4>1. w \in wanted /\ w \in VMs
        BY <2>4, <2>6, <3>2 DEF TypeOK
      <4>2. live'[w] = live[w]
        BY <2>2, <2>3, <3>2, <4>1, StoreAppends
      <4> QED  BY <4>1, <4>2 DEF WantedInv
    <3> QED  BY <3>1, <3>2
  <2>7. ASSUME NEW w \in wanted' \ copied' PROVE Coming(w)' \/ Arrived(w)'
    <3>1. CASE w = u
      <4>1. ~t
        BY <2>1, <2>7, <3>1
      <4> QED  BY <2>2, <2>3, <2>4, <3>1, <4>1, CreateWanted
    <3>2. CASE w # u
      <4>1. w \in wanted \ copied /\ w \in VMs
        BY <2>1, <2>4, <2>7, <3>2 DEF TypeOK
      <4>2. Coming(w) \/ Arrived(w)
        BY <4>1 DEF WantedInv
      <4> QED  BY <2>2, <2>3, <2>4, <3>2, <4>1, <4>2, StoreWanted
    <3> QED  BY <3>1, <3>2
  <2> QED  BY <2>6, <2>7 DEF WantedInv
<1>4. CASE UserEdit(u)
  <2>1. PICK b \in Bodies : StoreByOther(u, [live[u] EXCEPT !.body = b])
    BY <1>4 DEF UserEdit
  <2>2. live[u] \in Object /\ ~live[u].term /\ UNCHANGED <<infVars, wanted, copied>>
    BY <1>4 DEF UserEdit, TypeOK
  <2>3. [live[u] EXCEPT !.body = b] \in Object /\ ~[live[u] EXCEPT !.body = b].term
    BY <2>2, ObjectUpdate
  <2> QED  BY <1>2, <2>1, <2>2, <2>3 DEF StoreByOther
<1>5. CASE UserDelete(u)
  <2>1. /\ live[u] \in Object /\ UNCHANGED infVars
        /\ wanted' = wanted \ {u} /\ copied' = copied \ {u}
        /\ Store(u, [live[u] EXCEPT !.term = TRUE])
    BY <1>5 DEF UserDelete, TypeOK, StoreByOther
  <2>2. [live[u] EXCEPT !.term = TRUE] \in Object
    BY <2>1 DEF Object
  <2> QED  BY <1>2, <2>1, <2>2
<1>6. CASE Collect(u)
  <2>1. u \notin wanted /\ Store(u, None) /\ UNCHANGED <<infVars, wanted, copied>>
    BY <1>6 DEF Collect, StoreByOther, WantedInv
  <2> QED  BY <1>2, <2>1
<1>7. CASE GitEdit(u)
  BY <1>1, <1>7 DEF GitEdit
<1>8. CASE ArgoApply(u)
  <2>1. UNCHANGED <<infVars, wanted, copied>>
    BY <1>8 DEF ArgoApply
  <2>2. CASE UNCHANGED apiVars
    BY <1>1, <2>1, <2>2
  <2>3. CASE StoreByOther(u, Applied(u))
    <3>1. applying[u] \in Manifest
      BY <1>8 DEF ArgoApply, TypeOK, TornInv, File
    <3>2. CASE live[u] = None
      <4>1. Applied(u) \in Object /\ ~Applied(u).term
        BY <3>1, <3>2 DEF Applied, Object, Manifest
      <4>2. Store(u, Applied(u))
        BY <2>3 DEF StoreByOther
      <4> QED  BY <1>2, <2>1, <4>1, <4>2
    <3>3. CASE live[u] \in Object
      <4>1. applying[u].body \in Bodies
        BY <3>1 DEF Manifest
      <4>2. Applied(u) = [live[u] EXCEPT !.body = applying[u].body, !.tracked = TRUE]
        BY <3>3 DEF Applied
      <4>3. Applied(u) \in Object /\ Applied(u).term = live[u].term
        <5> DEFINE o == live[u]
                   b == applying[u].body
        <5>1. o \in Object /\ b \in Bodies
          BY <3>3, <4>1
        <5> HIDE DEF o, b
        <5>2. [o EXCEPT !.body = b, !.tracked = TRUE] \in Object
              /\ [o EXCEPT !.body = b, !.tracked = TRUE].term = o.term
          BY <5>1, ObjectUpdate
        <5> QED  BY <4>2, <5>2 DEF o, b
      <4>4. Store(u, Applied(u))
        BY <2>3 DEF StoreByOther
      <4>5. u \in wanted => ~live[u].term
        BY DEF WantedInv
      <4>6. u \in wanted' => Applied(u) # None /\ ~Applied(u).term
        BY <2>1, <4>3, <4>5
      <4>7. Applied(u) \in Object \cup {None}
        BY <4>3
      <4> QED  BY <1>2, <2>1, <4>4, <4>6, <4>7
    <3> QED  BY <3>2, <3>3 DEF TypeOK
  <2> QED  BY <1>8, <2>2, <2>3 DEF ArgoApply
<1> QED  BY <1>3, <1>4, <1>5, <1>6, <1>7, <1>8 DEF Environment

LEMMA NextWanted ==
    SafeInv /\ WatchInv /\ ListedInv /\ WantedInv /\ [Next]_vars => WantedInv'
<1> SUFFICES ASSUME SafeInv, WatchInv, ListedInv, WantedInv, [Next]_vars
             PROVE  WantedInv'
  OBVIOUS
<1> USE DEF SafeInv
<1>1. ASSUME UNCHANGED <<live, watch, infVars, wanted, copied>> PROVE WantedInv'
  BY <1>1 DEF WantedInv, Coming, Arrived, CreationQueued, NoDeletionAfter
<1>2. CASE Handler
  <2>1. UNCHANGED <<live, wanted, copied>>
    BY <1>2 DEF Handler, Deliver, HandleCreate, HandleDelete
  <2>2. \A w \in wanted \ copied : w \in VMs /\ (Coming(w)' \/ Arrived(w)')
    BY <1>2, DeliverWanted, HandleWanted DEF Handler, WantedInv, TypeOK
  <2> QED  BY <2>1, <2>2 DEF WantedInv
<1>3. ASSUME NEW v \in VMs, LoopStep(v) PROVE WantedInv'
  <2>1. UNCHANGED <<infVars, wanted, copied>>
    BY <1>3 DEF LoopStep, AddFinalizer, SkipVM, SaveVM, SaveFails, DropVM, DropFails, PassOver
  <2>2. CASE UNCHANGED apiVars
    BY <1>1, <2>1, <2>2
  <2>3. CASE ~UNCHANGED apiVars
    <3>1. PICK f \in BOOLEAN : /\ [listed[v] EXCEPT !.fin = f] \in Object
                               /\ Store(v, [listed[v] EXCEPT !.fin = f])
      BY <1>3, <2>3, WorkerStores
    <3>2. v \in todo \ stale /\ v # cur /\ listed[v] \in Object
      BY <1>3, <2>3, WorkerStores
    <3>3. listed[v] = live[v]
      BY <3>2 DEF ListedInv
    <3> DEFINE obj == [listed[v] EXCEPT !.fin = f]
    <3>4. obj \in Object /\ obj.term = live[v].term /\ Store(v, obj)
      BY <3>1, <3>2, <3>3
      DEF Object
    <3> HIDE DEF obj
    <3>5. ASSUME NEW w \in wanted \ copied PROVE Coming(w)' \/ Arrived(w)'
      <4>1. obj # None
        BY <3>4, SentinelAssumption
      <4> QED  BY <2>1, <3>4, <4>1, StoreWanted DEF WantedInv, TypeOK
    <3>6. ASSUME NEW w \in wanted PROVE live'[w] # None /\ ~live'[w].term
      BY <3>4, StoreAppends, SentinelAssumption DEF WantedInv, TypeOK
    <3> QED  BY <2>1, <3>5, <3>6 DEF WantedInv
  <2> QED  BY <2>2, <2>3
<1>4. CASE Worker /\ \A v \in VMs : ~LoopStep(v)
  <2>1. UNCHANGED <<wanted, copied>>
    BY <1>4
    DEF Worker, Fetch, ListVMs, ListFails, DeleteOrphans, PushStep, NothingToPush, CommitFails,
        Push, PushFails, PushAnswerLost, TriggerSync, NoSync
  <2> QED  BY <1>1, <1>4, <2>1, WorkerQuiet
<1>5. CASE ArgoStart \/ ArgoFinish
  BY <1>1, <1>5 DEF ArgoStart, ArgoFinish
<1>6. CASE Restart
  BY <1>6 DEF Restart, WantedInv, Arrived, NoDeletionAfter, TypeOK
<1>7. CASE UNCHANGED vars
  BY <1>1, <1>7
<1> QED
  BY <1>2, <1>3, <1>4, <1>5, <1>6, <1>7, EnvironmentWanted DEF Next, ArgoCD, Worker

\* recentDeletions never hides a VM from git that its user wants, once every
\* event of it has been handled, however often it was deleted and made anew,
\* unless it was last made from a manifest with ArgoCD's tracking-id.
THEOREM WantedVisible == Spec => []WantedNotHidden
<1>1. Init => WantedInv
  <2>1. ASSUME Init, NEW v \in wanted PROVE live[v] # None /\ ~live[v].term /\ Arrived(v)
    <3>1. /\ live[v] \in [body : Bodies, tracked : {FALSE}, fin : BOOLEAN, term : {FALSE}]
          /\ cache = live /\ watch = <<>> /\ events = <<>> /\ recent = {}
      BY <2>1 DEF Init
    <3>2. live[v] # None /\ ~live[v].term
      BY <2>1, <3>1 DEF Init
    <3> QED  BY <3>1, <3>2 DEF Arrived, NoDeletionAfter
  <2> QED  BY <2>1 DEF WantedInv
<1>2. Spec => []WantedInv
  BY <1>1, NextWanted, SpecSafe, SpecListed, PTL DEF Spec
<1>3. WantedInv => WantedNotHidden
  BY DEF WantedInv, Coming, Arrived, CreationQueued, WantedNotHidden, EventsHandled
<1> QED  BY <1>2, <1>3, PTL
=============================================================================
