--------------------------- MODULE VMMirror_proofs ---------------------------
(***************************************************************************)
(* VMSync implements VMMirror: every step of the operator is a step of the *)
(* abstract pass or changes nothing it speaks of, for any VMs, any bodies, *)
(* any faults and any bounds.  What the worktree and the sets of the pass  *)
(* add up to at the push is TreeInv (theorem PassHolds).                   *)
(***************************************************************************)
EXTENDS VMSync_proofs

USE SentinelAssumption, ParameterAssumption
USE DEF vars, clusterVars, apiVars, infVars, passVars, loopVars, treeVars, outsideVars,
        gitVars, argoVars, countVars, bounds, history

-----------------------------------------------------------------------------
(* The refinement, action by action.                                         *)

USE DEF Mirror!vars, Mirror!cluster, Mirror!pass

\* What VMMirror speaks of.
seen == <<cache, recent, remote, pc, head, listed, todo, expected, missed, work>>

LEMMA Unseen == ASSUME UNCHANGED seen PROVE UNCHANGED Mirror!vars
  BY DEF seen, CacheView, Matching, Snapshot, Phase, LeftOut, Failed

\* A step that leaves informer and handler alone leaves the cluster alone as
\* VMMirror sees it, and one that leaves the pass alone leaves its pass alone.
LEMMA SameCluster == ASSUME UNCHANGED <<cache, recent>> PROVE UNCHANGED Mirror!cluster
  BY DEF CacheView, Matching

LEMMA SamePass ==
    ASSUME UNCHANGED <<pc, head, listed, todo, expected, missed, work>>
    PROVE  UNCHANGED Mirror!pass
  BY DEF Snapshot, Phase, LeftOut, Failed

\* The files of a cluster, and those of a branch without torn files.
LEMMA FileType == ASSUME NEW o \in Object \cup {None} PROVE FileOf(o) \in Manifest \cup {None}
  BY DEF FileOf, Clean, Object, Manifest

LEMMA ViewType ==
    ASSUME NEW c \in [VMs -> Object \cup {None}]
    PROVE  [v \in VMs |-> FileOf(IF c[v] # None /\ c[v].body \in Selected THEN c[v] ELSE None)]
           \in Mirror!Contents
<1>1. \A v \in VMs : FileOf(IF c[v] # None /\ c[v].body \in Selected THEN c[v] ELSE None)
                     \in Manifest \cup {None}
  BY FileType
<1> QED  BY <1>1 DEF Mirror!Contents

\* The view the cache gives, before and after a step.
LEMMA ViewOfCache ==
    CacheView = [v \in VMs |-> FileOf(IF cache[v] # None /\ cache[v].body \in Selected
                                      THEN cache[v] ELSE None)]
  BY DEF CacheView, Matching

LEMMA ViewTypeNext == ASSUME SafeInv' PROVE CacheView' \in Mirror!Contents
<1>1. cache' \in [VMs -> Object \cup {None}]
  BY DEF SafeInv, TypeOK
<1>2. CacheView' = [v \in VMs |-> FileOf(IF cache'[v] # None /\ cache'[v].body \in Selected
                                         THEN cache'[v] ELSE None)]
  BY DEF CacheView, Matching
<1> QED  BY <1>1, <1>2, ViewType

LEMMA BranchType == ASSUME SafeInv' PROVE remote' \in Mirror!Contents
  BY DEF SafeInv, TypeOK, TornInv, File, Mirror!Contents

\* A pass that ends forgets its commit and its snapshot.
LEMMA EndsPass == ASSUME EndPass PROVE Mirror!EndPass
<1>1. Phase' = "none" /\ LeftOut' = {} /\ Failed' = {}
  BY DEF EndPass, Phase, LeftOut, Failed, Absent
<1>2. head' = Mirror!Empty /\ Snapshot' = Mirror!Empty
  BY DEF EndPass, Absent, Snapshot, FileOf, Mirror!Empty
<1> QED  BY <1>1, <1>2 DEF Mirror!EndPass

LEMMA InitMirror == Init => Mirror!Init
<1> SUFFICES ASSUME Init PROVE Mirror!Init
  OBVIOUS
<1>1. CacheView \in Mirror!Contents
  BY InitSafe, ViewType, ViewOfCache DEF SafeInv, TypeOK
<1>2. Phase = "none" /\ LeftOut = {} /\ Failed = {}
  BY DEF Init, Phase, LeftOut, Failed, Absent
<1>3. head = Mirror!Empty /\ remote = Mirror!Empty /\ Snapshot = Mirror!Empty
  BY DEF Init, Absent, Snapshot, FileOf, Mirror!Empty
<1> QED  BY <1>1, <1>2, <1>3 DEF Init, Mirror!Init

\* Informer and handler only let the operator see more of the cluster.
LEMMA HandlerLooks == ASSUME SafeInv, SafeInv', Handler PROVE Mirror!Look
<1>1. UNCHANGED <<remote, Mirror!pass>>
  BY SamePass DEF Handler, Deliver, HandleCreate, HandleDelete
<1>2. CacheView' \in Mirror!Contents
  BY ViewTypeNext
<1>3. recent' \in SUBSET VMs
  BY DEF SafeInv, TypeOK
<1> QED  BY <1>1, <1>2, <1>3 DEF Mirror!Look

\* Of what others do, only a commit to the branch is seen at once.
LEMMA EnvironmentMirrors ==
    ASSUME SafeInv, SafeInv', NEW v \in VMs, Environment(v)
    PROVE  Mirror!CommitByOther \/ UNCHANGED Mirror!vars
<1>1. CASE GitEdit(v)
  <2>1. UNCHANGED <<Mirror!cluster, Mirror!pass>>
    BY <1>1, SameCluster, SamePass DEF GitEdit
  <2> QED  BY <2>1, BranchType DEF Mirror!CommitByOther
<1>2. CASE UserCreate(v) \/ UserEdit(v) \/ UserDelete(v) \/ Collect(v)
  BY <1>2, Unseen DEF UserCreate, UserEdit, UserDelete, Collect, seen
<1> QED  BY <1>1, <1>2 DEF Environment

\* Of the loop, only that it leaves a VM out, or that a write or removal fails:
\* every other VM it is done with is expected, or has no file in the snapshot.
LEMMA LoopMirrors ==
    ASSUME SafeInv, TreeInv, NEW v \in VMs, LoopStep(v)
    PROVE  Mirror!Omit(v) \/ Mirror!WritesFail \/ UNCHANGED Mirror!vars
<1>0. UNCHANGED <<cache, recent, remote, pc, head, listed>> /\ pc = "vms"
  BY DEF LoopStep, AddFinalizer, SkipVM, SaveVM, SaveFails, DropVM, DropFails, PassOver,
         SavesNext, Takes
<1>1. UNCHANGED <<Mirror!cluster, remote, Phase, head, Snapshot>> /\ Phase = "listed"
  BY <1>0 DEF CacheView, Matching, Phase, Snapshot
<1>2. Snapshot \in [VMs -> Manifest \cup {None}] /\ \A w \in VMs : Snapshot[w] = FileOf(listed[w])
  BY FileType DEF SafeInv, TypeOK, Snapshot
<1>3. CASE AddFinalizer(v)
  BY <1>1, <1>3 DEF AddFinalizer, LeftOut, Failed
<1>4. CASE SkipVM(v)
  <2>1. v \in todo /\ v \notin expected /\ FileOf(listed[v]) \in Manifest
    BY <1>4, SavedHasFile DEF SkipVM
  <2>2. Snapshot[v] # None
    BY <1>2, <2>1
  <2>3. /\ todo' = todo \ {v} /\ v \in recent
        /\ UNCHANGED <<expected, missed, work>>
    BY <1>4 DEF SkipVM, Done
  <2>4. LeftOut' = LeftOut \cup {v}
    BY <1>1, <2>1, <2>2, <2>3 DEF LeftOut
  <2>5. UNCHANGED Failed
    BY <2>3 DEF Failed
  <2> QED  BY <1>1, <2>2, <2>3, <2>4, <2>5 DEF Mirror!Omit
<1>5. ASSUME UNCHANGED LeftOut PROVE Mirror!WritesFail
  <2>1. Failed' \in SUBSET VMs
    <3>1. SafeInv'
      BY LoopSafe
    <3>2. missed' \subseteq VMs
      BY <3>1 DEF SafeInv, TypeOK
    <3> QED  BY <3>2 DEF Failed
  <2> QED  BY <1>1, <1>5, <2>1 DEF Mirror!WritesFail
<1>6. CASE SaveVM(v) \/ SaveFails(v)
  <2>1. todo' = todo \ {v} /\ expected' = expected \cup {v} /\ v \in todo
    BY <1>6, LoopVM DEF SaveVM, SaveFails, Done
  <2>2. LeftOut' = LeftOut
    BY <1>1, <2>1 DEF LeftOut
  <2> QED  BY <1>5, <2>2
<1>7. CASE DropVM(v) \/ DropFails(v) \/ PassOver(v)
  <2>1. todo' = todo \ {v} /\ expected' = expected /\ listed[v].term
    BY <1>7 DEF DropVM, DropFails, PassOver, Done
  <2>2. Snapshot[v] = None
    BY <1>2, <2>1 DEF FileOf
  <2>3. LeftOut' = LeftOut
    BY <1>1, <2>1, <2>2 DEF LeftOut
  <2> QED  BY <1>5, <2>3
<1> QED  BY <1>3, <1>4, <1>6, <1>7 DEF LoopStep

\* The index at the push is the snapshot without the VMs left out, except
\* where a write or removal failed, which leaves the file as it was fetched.
LEMMA StagedIsWanted ==
    ASSUME SafeInv, TreeInv, pc = "push", NEW v \in VMs
    PROVE  Staged[v] = IF v \in Failed THEN head[v] ELSE Mirror!Wanted(v)
<1>1. v \notin todo /\ Phase = "listed" /\ Snapshot[v] = FileOf(listed[v])
  BY DEF SafeInv, LoopInv, Phase, Snapshot
<1>2. Intended(v) = Mirror!Wanted(v)
  <2>1. CASE v \in expected
    <3>1. FileOf(listed[v]) = Clean(listed[v])
      BY <2>1 DEF TreeInv, FileOf
    <3> QED  BY <1>1, <2>1, <3>1 DEF Intended, LeftOut, Mirror!Wanted
  <2>2. CASE v \notin expected
    BY <1>1, <2>2 DEF Intended, LeftOut, Mirror!Wanted
  <2> QED  BY <2>1, <2>2
<1>3. CASE v \in changed
  <2>1. Staged[v] = Intended(v)
    BY <1>3 DEF Staged, TreeInv
  <2>2. v \notin Failed
    BY <1>3 DEF Failed, TreeInv, SafeInv, TornInv
  <2> QED  BY <1>2, <2>1, <2>2
<1>4. CASE v \notin changed
  <2>1. Staged[v] = head[v]
    BY <1>4 DEF Staged
  <2>2. CASE v \in Failed
    BY <2>1, <2>2
  <2>3. CASE v \notin Failed
    <3>1. v \notin expected /\ v \notin missed
      BY <1>4, <2>3 DEF TreeInv, Failed
    <3>2. head[v] = None
      BY <1>4, <2>3, <3>1 DEF TreeInv, Failed
    <3>3. Intended(v) = None
      BY <3>1 DEF Intended
    <3> QED  BY <1>2, <2>1, <2>3, <3>2, <3>3
  <2> QED  BY <2>2, <2>3
<1> QED  BY <1>3, <1>4

\* A push that the remote takes publishes it on top of what was fetched.
LEMMA PushPublishes ==
    ASSUME SafeInv, SafeInv', TreeInv, Push \/ PushAnswerLost PROVE Mirror!Publish
<1>1. pc = "push" /\ remote' = Staged /\ remote = head /\ UNCHANGED <<cache, recent>>
  BY DEF Push, PushAnswerLost, Publish, Commits, Accepted, TreeInv
<1>2. Phase = "listed"
  BY <1>1 DEF Phase
<1>3. remote' = [v \in VMs |-> IF v \in Failed THEN head[v] ELSE Mirror!Wanted(v)]
  <2>1. Staged = [v \in VMs |-> Staged[v]]
    BY DEF Staged
  <2> QED  BY <1>1, <2>1, StagedIsWanted
<1>4. (head' = remote' /\ UNCHANGED <<Phase, Snapshot, LeftOut, Failed>>) \/ Mirror!EndPass
  <2>1. CASE EndPass
    BY <2>1, EndsPass
  <2>2. CASE ~EndPass
    <3>1. pc' = "trigger" /\ UNCHANGED <<listed, todo, expected, missed, work>> /\ head' = Staged
      BY <2>2 DEF Push, PushAnswerLost, AfterPush
    <3> QED  BY <1>1, <3>1 DEF Phase, Snapshot, LeftOut, Failed
  <2> QED  BY <2>1, <2>2
<1> QED  BY <1>1, <1>2, <1>3, <1>4, SameCluster DEF Mirror!Publish

\* Each other way out of the push changes nothing of the branch.
LEMMA PushStepMirrors ==
    ASSUME SafeInv, SafeInv', TreeInv, PushStep
    PROVE  Mirror!Publish \/ Mirror!Finish \/ UNCHANGED Mirror!vars
<1>1. CASE Push \/ PushAnswerLost
  BY <1>1, PushPublishes
<1>2. CASE EndPass /\ UNCHANGED <<cache, recent, remote>>
  BY <1>2, EndsPass, SameCluster DEF Mirror!Finish
<1>3. CASE NothingToPush /\ ~EndPass
  <2>1. /\ pc = "push" /\ pc' = "trigger"
        /\ UNCHANGED <<cache, recent, remote, head, listed, todo, expected, missed, work>>
    BY <1>3 DEF NothingToPush, AfterPush
  <2> QED  BY <2>1 DEF CacheView, Matching, Phase, Snapshot, LeftOut, Failed
<1> QED  BY <1>1, <1>2, <1>3 DEF PushStep, NothingToPush, CommitFails, PushFails

LEMMA WorkerMirrors ==
    ASSUME SafeInv, SafeInv', TreeInv, Worker PROVE [Mirror!Next]_(Mirror!vars)
<1>1. CASE Fetch
  <2>1. Phase = "none" /\ Phase' = "fetched" /\ head' = remote
    BY <1>1 DEF Fetch, ResetTo, Phase
  <2>2. UNCHANGED <<cache, recent, remote, listed>>
    BY <1>1 DEF Fetch
  <2>3. UNCHANGED <<Snapshot, LeftOut, Failed>>
    <3>1. Failed = {} /\ Failed' = {}
      BY <1>1 DEF Fetch, ResetTo, Failed, SafeInv, LoopInv, TornInv, TreeInv, Absent
    <3> QED  BY <2>1, <2>2, <3>1 DEF Snapshot, LeftOut
  <2>4. Mirror!BeginPass
    BY <2>1, <2>2, <2>3, SameCluster DEF Mirror!BeginPass
  <2> QED  BY <2>4 DEF Mirror!Next
<1>2. CASE ListVMs
  <2>1. Phase = "fetched" /\ Phase' = "listed" /\ listed' = Matching
    BY <1>2 DEF ListVMs, Phase
  <2>2. UNCHANGED <<cache, recent, remote, head, missed, work>>
        /\ todo' = {v \in VMs : Matching[v] # None}
    BY <1>2 DEF ListVMs
  <2>3. Snapshot' = CacheView
    BY <2>1 DEF Snapshot, CacheView
  <2>4. LeftOut = {} /\ LeftOut' = {}
    BY <2>1, <2>2, <2>3 DEF LeftOut, CacheView, FileOf
  <2>5. UNCHANGED Failed
    BY <2>2 DEF Failed
  <2>6. Mirror!TakeSnapshot
    BY <2>1, <2>2, <2>3, <2>4, <2>5, SameCluster DEF Mirror!TakeSnapshot
  <2> QED  BY <2>6 DEF Mirror!Next
<1>3. CASE ListFails \/ TriggerSync \/ NoSync
  BY <1>3, EndsPass, SameCluster DEF ListFails, TriggerSync, NoSync, Mirror!Finish, Mirror!Next
<1>4. ASSUME NEW kept \in SUBSET VMs, DeleteOrphans(kept) PROVE Mirror!WritesFail
  <2>1. /\ pc = "vms" /\ pc' = "push"
        /\ UNCHANGED <<cache, recent, remote, head, listed, todo, expected>>
    BY <1>4 DEF DeleteOrphans
  <2>2. Failed' \in SUBSET VMs
    BY DEF SafeInv, TypeOK, Failed
  <2> QED
    BY <2>1, <2>2 DEF Mirror!WritesFail, CacheView, Matching, Phase, Snapshot, LeftOut
<1> QED  BY <1>1, <1>2, <1>3, <1>4, LoopMirrors, PushStepMirrors DEF Worker, Mirror!Next

LEMMA NextMirrors ==
    SafeInv /\ SafeInv' /\ TreeInv /\ [Next]_vars => [Mirror!Next]_(Mirror!vars)
<1> SUFFICES ASSUME SafeInv, SafeInv', TreeInv, [Next]_vars
             PROVE  [Mirror!Next]_(Mirror!vars)
  OBVIOUS
<1>1. CASE UNCHANGED vars
  BY <1>1, Unseen DEF seen
<1>2. CASE \E v \in VMs : Environment(v)
  BY <1>2, EnvironmentMirrors DEF Mirror!Next
<1>3. CASE Handler
  BY <1>3, HandlerLooks DEF Mirror!Next
<1>4. CASE ArgoCD
  BY <1>4, Unseen DEF ArgoCD, ArgoStart, ArgoApply, ArgoFinish, seen
<1>5. CASE Restart
  <2>1. recent' = {} /\ remote' = remote /\ EndPass
    BY <1>5 DEF Restart
  <2>2. Mirror!Restart
    BY <2>1, EndsPass, ViewTypeNext DEF Mirror!Restart
  <2> QED  BY <2>2 DEF Mirror!Next
<1> QED  BY <1>1, <1>2, <1>3, <1>4, <1>5, WorkerMirrors DEF Next

\* Whatever fails and whoever interferes, a pass publishes one snapshot of its
\* cache on the branch it fetched, or nothing; only files whose write or removal
\* failed in this pass stay as they were fetched (controller 252-387).
THEOREM MirrorImplemented == Spec => MirrorSafe
<1>1. Spec => []SafeInv /\ []TreeInv
  BY SpecSafe, SpecTree, PTL
<1> QED  BY <1>1, InitMirror, NextMirrors, PTL DEF Spec, MirrorSafe, Mirror!Spec
=============================================================================
