------------------------- MODULE ArgoOwnership_proofs -------------------------
(***************************************************************************)
(* Theorems about ArgoOwnership, for any VirtGitSyncs, any names they give *)
(* or derive, any failures and any number of user operations.              *)
(*                                                                         *)
(* None of the properties is inductive alone: that a cached label may be   *)
(* trusted rests on the API server refusing updates from an old version    *)
(* (CacheCurrent) and on labels changing hands only through nobody.        *)
(***************************************************************************)
EXTENDS ArgoOwnership, TLAPS

\* What is not lagging is what the server has.
CacheCurrent == \A n \in Names \ lag : seen[n] = obj[n]

\* When a sync is requested, no other VirtGitSync can hold the Application.
SyncsOwn ==
    pc = "sync" /\ obj[AppName[who]] # None => obj[AppName[who]].owner \in {None, who}

\* While nobody changed the VirtGitSync, it is what the pass read.
FreshInv ==
    fresh => /\ who \in VGSs
             /\ obj[who] # None
             /\ pc \in {"delapp", "delrepo", "unfin"} => obj[who].term /\ seen[who] = obj[who]

\* A finalizer in the cache of a live VirtGitSync is still there on the server.
CachedFinalizer ==
    \A v \in VGSs : seen[v] # None /\ seen[v].fin /\ ~seen[v].term
                    => obj[v] # None /\ obj[v].fin

ReadInv == TypeOK /\ CacheCurrent /\ FreshInv

LabelInv == LabelsAgree /\ SyncsOwn

FinalizerInv == CachedFinalizer /\ FinalizerFirst

-----------------------------------------------------------------------------
\* What Deleted leaves of an object has the object's type and its label.
LEMMA DeletedKeeps ==
    ASSUME NEW x, x \in VirtGitSync \cup Application
    PROVE  /\ x \in VirtGitSync => Deleted(x) \in VirtGitSync \cup {None}
           /\ x \in Application => Deleted(x) \in Application \cup {None}
           /\ x \in Application /\ Deleted(x) # None => Deleted(x).owner = x.owner
           /\ x.fin => /\ Deleted(x) = [x EXCEPT !.term = TRUE]
                       /\ x \in VirtGitSync => Deleted(x).fin
  BY NamesAssumption DEF Deleted, VirtGitSync, Application

\* Names are of one kind each, and an object is of the kind of its name.
LEMMA Kinds ==
    /\ \A v \in VGSs : v \in Names /\ v # None /\ v \notin Apps /\ v \notin Secrets
                       /\ Objects(v) = VirtGitSync
                       /\ AppName[v] \in Apps /\ SecretName[v] \in Secrets
    /\ \A a \in Apps : a \in Names /\ a # None /\ a \notin VGSs /\ a \notin Secrets
                       /\ Objects(a) = Application
    /\ \A s \in Secrets : s \in Names /\ s # None /\ s \notin VGSs /\ s \notin Apps
                          /\ Objects(s) = Secret
    /\ \A n \in Names : Objects(n) \subseteq VirtGitSync \cup Application \cup Secret
  BY NamesAssumption DEF Names, Objects

\* Writing an object of the right kind under a name keeps the types, and makes
\* the cache of that name, and no other, out of date.
LEMMA StoreKeeps ==
    ASSUME TypeOK, CacheCurrent, NEW n \in Names,
           NEW x \in Objects(n) \cup {None}, Store(n, x), seen' = seen
    PROVE  /\ obj' \in [Names -> VirtGitSync \cup Application \cup Secret \cup {None}]
           /\ \A k \in Names : {obj'[k], seen'[k]} \subseteq Objects(k) \cup {None}
           /\ lag' \subseteq Names
           /\ CacheCurrent'
           /\ obj'[n] = x
           /\ \A k \in Names \ {n} : obj'[k] = obj[k]
  BY Kinds DEF TypeOK, CacheCurrent, Store

-----------------------------------------------------------------------------
\* The first states satisfy the invariants.
LEMMA InitInv == Init => ReadInv /\ LabelInv /\ FinalizerInv
<1> SUFFICES ASSUME Init PROVE ReadInv /\ LabelInv /\ FinalizerInv
  OBVIOUS
<1>1. \A n \in Names : obj[n] = None /\ seen[n] = None
  BY DEF Init
<1>2. TypeOK
  <2>1. /\ obj \in [Names -> {None}]
        /\ seen \in [Names -> {None}]
        /\ \A n \in Names : {obj[n], seen[n]} \subseteq Objects(n) \cup {None}
    BY <1>1 DEF Init
  <2>2. /\ lag \subseteq Names
        /\ pc = "idle" /\ who = None
        /\ argo \in BOOLEAN /\ fresh \in BOOLEAN
    BY DEF Init
  <2>3. userOps \in 0..MaxUserOps
    BY ParameterAssumption DEF Init
  <2> QED
    BY <2>1, <2>2, <2>3 DEF TypeOK, Steps
<1>3. CacheCurrent /\ FreshInv
  BY <1>1 DEF Init, CacheCurrent, FreshInv
<1>4. LabelInv
  BY <1>1, Kinds DEF Init, LabelInv, LabelsAgree, SyncsOwn
<1>5. FinalizerInv
  BY <1>1, Kinds DEF Init, FinalizerInv, CachedFinalizer, FinalizerFirst
<1> QED
  BY <1>2, <1>3, <1>4, <1>5 DEF ReadInv

-----------------------------------------------------------------------------
\* A write of a user or of ArgoCD.
LEMMA OthersKeepReads ==
    ASSUME ReadInv, NEW n \in Names, NEW x \in Objects(n) \cup {None},
           StoreByOther(n, x), userOps' \in 0..MaxUserOps
    PROVE  ReadInv'
<1>1. Store(n, x) /\ seen' = seen
  BY DEF StoreByOther
<1>2. TypeOK'
  BY <1>1, StoreKeeps DEF ReadInv, TypeOK, StoreByOther, passVars
<1>3. CacheCurrent'
  BY <1>1, StoreKeeps DEF ReadInv
<1>4. FreshInv'
  BY <1>1, StoreKeeps, Kinds DEF ReadInv, FreshInv, StoreByOther, passVars
<1> QED
  BY <1>2, <1>3, <1>4 DEF ReadInv

\* Every user's write has the right type.
LEMMA UserStores ==
    ASSUME ReadInv, User
    PROVE  \E n \in VGSs \cup Apps :
              \E x : /\ x \in Objects(n) \cup {None}
                     /\ StoreByOther(n, x)
                     /\ userOps' \in 0..MaxUserOps
<1>1. userOps' \in 0..MaxUserOps
  <2>1. UserWrites
    BY DEF User, UserCreatesVgs, UserTogglesArgo, UserDeletes, UserCreatesApp
  <2> QED
    BY <2>1, ParameterAssumption DEF ReadInv, TypeOK, UserWrites
<1>2. ASSUME NEW v \in VGSs, UserCreatesVgs(v)
      PROVE  \E x : x \in Objects(v) \cup {None} /\ StoreByOther(v, x)
  BY <1>2, Kinds DEF UserCreatesVgs, NewVgs, VirtGitSync
<1>3. ASSUME NEW v \in VGSs, UserTogglesArgo(v)
      PROVE  \E x : x \in Objects(v) \cup {None} /\ StoreByOther(v, x)
  <2>1. obj[v] \in VirtGitSync
    BY <1>3, Kinds DEF UserTogglesArgo, ReadInv, TypeOK
  <2>2. [obj[v] EXCEPT !.argo = ~obj[v].argo] \in VirtGitSync
    BY <2>1 DEF VirtGitSync
  <2> QED
    BY <1>3, <2>2, Kinds DEF UserTogglesArgo
<1>4. ASSUME NEW n \in VGSs \cup Apps, UserDeletes(n)
      PROVE  \E x : x \in Objects(n) \cup {None} /\ StoreByOther(n, x)
  BY <1>4, Kinds, DeletedKeeps DEF UserDeletes, ReadInv, TypeOK
<1>5. ASSUME NEW a \in Apps, UserCreatesApp(a)
      PROVE  \E x : x \in Objects(a) \cup {None} /\ StoreByOther(a, x)
  BY <1>5, Kinds DEF UserCreatesApp, NewApplication, Application
<1> QED
  BY <1>1, <1>2, <1>3, <1>4, <1>5 DEF User

\* So has every write of ArgoCD.
LEMMA ArgoStores ==
    ASSUME ReadInv, ArgoCD
    PROVE  \E a \in Apps :
              \E x : /\ x \in Objects(a) \cup {None}
                     /\ StoreByOther(a, x)
                     /\ obj[a] # None
                     /\ x # None => x.owner = obj[a].owner
                     /\ userOps' \in 0..MaxUserOps
<1>1. PICK a \in Apps : ArgoSyncs(a) \/ ArgoCascades(a)
  BY DEF ArgoCD
<1>2. obj[a] # None => obj[a] \in Application
  BY Kinds DEF ReadInv, TypeOK
<1>3. userOps' \in 0..MaxUserOps
  BY <1>1 DEF ArgoSyncs, ArgoCascades, ReadInv, TypeOK
<1>4. CASE ArgoSyncs(a)
  <2> DEFINE x == [obj[a] EXCEPT !.sync = FALSE]
  <2>1. x \in Application /\ x.owner = obj[a].owner
    BY <1>2, <1>4 DEF ArgoSyncs, Application
  <2>2. obj[a] # None /\ StoreByOther(a, x)
    BY <1>4 DEF ArgoSyncs
  <2> HIDE DEF x
  <2> QED
    BY <1>3, <2>1, <2>2, Kinds
<1>5. CASE ArgoCascades(a)
  BY <1>3, <1>5, Kinds DEF ArgoCascades
<1> QED
  BY <1>1, <1>4, <1>5

-----------------------------------------------------------------------------
\* The informer's step.
LEMMA ObserveKeepsReads ==
    ASSUME ReadInv, NEW n \in Names, Observe(n)
    PROVE  ReadInv'
<1>1. TypeOK'
  BY DEF ReadInv, TypeOK, Observe, passVars
<1>2. CacheCurrent' /\ FreshInv'
  BY DEF ReadInv, TypeOK, CacheCurrent, FreshInv, Observe, passVars
<1> QED
  BY <1>1, <1>2 DEF ReadInv

\* The worker picks a VirtGitSync.
LEMMA BeginKeepsReads ==
    ASSUME ReadInv, NEW v \in VGSs, Begin(v)
    PROVE  ReadInv'
<1>1. seen[v] \in VirtGitSync /\ v # None
  BY Kinds DEF ReadInv, TypeOK, Begin
<1>2. /\ pc' = FirstStep(seen[v])
      /\ pc' \in {"addfin", "git", "delapp", "unfin"}
      /\ pc' = "delapp" => argo'
      /\ pc' \in {"delapp", "unfin"} => seen[v].term
  BY <1>1 DEF Begin, FirstStep, VirtGitSync
<1>3. TypeOK'
  BY <1>1, <1>2 DEF ReadInv, TypeOK, Begin, apiVars, VirtGitSync, Steps
<1>4. CacheCurrent' /\ FreshInv'
  BY <1>1, <1>2, Kinds DEF ReadInv, CacheCurrent, FreshInv, Begin, apiVars
<1> QED
  BY <1>3, <1>4 DEF ReadInv

\* A step of a pass that writes nothing and goes on to the step it may go to.
LEMMA QuietStep ==
    ASSUME ReadInv, UNCHANGED apiVars,
           \/ Leave
           \/ Goto(pc') /\ pc # "idle" /\ pc' \in {"git", "repo", "app", "sync"}
              /\ (pc' # "git" => argo)
           \/ Goto(pc') /\ pc \in {"delapp", "delrepo"} /\ pc' \in {"delrepo", "unfin"} /\ argo
    PROVE  ReadInv'
<1>1. TypeOK'
  <2>1. /\ obj' = obj /\ lag' = lag /\ seen' = seen /\ userOps' = userOps
        /\ argo' \in BOOLEAN /\ fresh' \in BOOLEAN
    BY DEF ReadInv, TypeOK, apiVars, Leave, Goto
  <2>2. /\ pc' \in Steps
        /\ who' \in VGSs \cup {None}
        /\ (pc' = "idle") = (who' = None)
        /\ pc' \in {"repo", "app", "sync", "delapp", "delrepo"} => argo'
    BY DEF ReadInv, TypeOK, Leave, Goto, Steps
  <2> QED
    BY <2>1, <2>2 DEF ReadInv, TypeOK
<1>2. CacheCurrent' /\ FreshInv'
  BY DEF ReadInv, CacheCurrent, FreshInv, apiVars, Leave, Goto
<1> QED
  BY <1>1, <1>2 DEF ReadInv

\* The same for a step that writes an object other than the VirtGitSync.
LEMMA WriteStep ==
    ASSUME ReadInv, NEW n \in Apps \cup Secrets, NEW x \in Objects(n) \cup {None},
           Store(n, x),
           \/ Leave
           \/ Goto(pc') /\ pc # "idle" /\ pc' \in {"app", "sync"} /\ argo
           \/ Goto(pc') /\ pc \in {"delapp", "delrepo"} /\ pc' \in {"delrepo", "unfin"} /\ argo
    PROVE  ReadInv'
<1>1. n \in Names /\ n \notin VGSs /\ seen' = seen
  BY Kinds DEF Leave, Goto
<1>2. TypeOK'
  <2>1. /\ obj' \in [Names -> VirtGitSync \cup Application \cup Secret \cup {None}]
        /\ \A k \in Names : {obj'[k], seen'[k]} \subseteq Objects(k) \cup {None}
        /\ lag' \subseteq Names
    BY <1>1, StoreKeeps DEF ReadInv
  <2>2. /\ seen' = seen /\ userOps' = userOps
        /\ argo' \in BOOLEAN /\ fresh' \in BOOLEAN
    BY DEF ReadInv, TypeOK, Leave, Goto
  <2>3. /\ pc' \in Steps
        /\ who' \in VGSs \cup {None}
        /\ (pc' = "idle") = (who' = None)
        /\ pc' \in {"repo", "app", "sync", "delapp", "delrepo"} => argo'
    BY DEF ReadInv, TypeOK, Leave, Goto, Steps
  <2> QED
    BY <2>1, <2>2, <2>3 DEF ReadInv, TypeOK
<1>3. CacheCurrent'
  BY <1>1, StoreKeeps DEF ReadInv
<1>4. FreshInv'
  <2>1. who \in VGSs => obj'[who] = obj[who]
    BY <1>1, StoreKeeps, Kinds DEF ReadInv
  <2>2. CASE Leave
    BY <2>2 DEF Leave, FreshInv
  <2>3. ASSUME Goto(pc'), pc' \in {"delapp", "delrepo", "unfin"} => pc \in {"delapp", "delrepo"}
        PROVE  FreshInv'
    BY <1>1, <2>1, <2>3 DEF ReadInv, FreshInv, Goto
  <2> QED
    BY <2>2, <2>3
<1> QED
  BY <1>2, <1>3, <1>4 DEF ReadInv

\* Putting the finalizer on the VirtGitSync.
LEMMA AddFinalizerKeepsReads ==
    ASSUME ReadInv, AddFinalizer
    PROVE  ReadInv' /\ obj[who] # None /\ obj'[who].fin /\ obj'[who] # None
           /\ \A k \in Names \ {who} : obj'[k] = obj[k]
<1> DEFINE x == [obj[who] EXCEPT !.fin = TRUE]
<1>1. who \in VGSs /\ obj[who] \in VirtGitSync
  BY Kinds DEF ReadInv, TypeOK, FreshInv, AddFinalizer
<1>2. x \in VirtGitSync /\ x.fin /\ x # None
  BY <1>1, NamesAssumption DEF VirtGitSync
<1>3. Store(who, x) /\ Goto("git") /\ seen' = seen /\ pc' = "git"
  BY DEF AddFinalizer, Goto
<1> HIDE DEF x
<1>4. TypeOK'
  BY <1>1, <1>2, <1>3, StoreKeeps, Kinds DEF ReadInv, TypeOK, Goto, Steps
<1>5. CacheCurrent' /\ obj'[who] = x /\ \A k \in Names \ {who} : obj'[k] = obj[k]
  BY <1>1, <1>2, <1>3, StoreKeeps, Kinds DEF ReadInv
<1>6. FreshInv'
  BY <1>1, <1>2, <1>3, <1>5, Kinds DEF ReadInv, FreshInv, Goto
<1> QED
  BY <1>1, <1>2, <1>4, <1>5, <1>6, NamesAssumption DEF ReadInv

\* Letting the VirtGitSync go.
LEMMA RemoveFinalizerKeepsReads ==
    ASSUME ReadInv, RemoveFinalizer
    PROVE  /\ ReadInv'
           /\ who \in VGSs /\ obj[who].term /\ seen[who] = obj[who] /\ seen' = seen
           /\ \A k \in Names \ {who} : obj'[k] = obj[k]
<1>1. who \in VGSs /\ obj[who].term /\ seen[who] = obj[who]
  BY DEF ReadInv, FreshInv, RemoveFinalizer
<1>2. Store(who, None) /\ Leave /\ seen' = seen
  BY DEF RemoveFinalizer, Leave
<1>3. TypeOK'
  BY <1>1, <1>2, StoreKeeps, Kinds DEF ReadInv, TypeOK, Leave, Steps
<1>4. CacheCurrent' /\ \A k \in Names \ {who} : obj'[k] = obj[k]
  BY <1>1, <1>2, StoreKeeps, Kinds DEF ReadInv
<1>5. FreshInv'
  BY <1>2 DEF FreshInv, Leave
<1> QED
  BY <1>1, <1>2, <1>3, <1>4, <1>5 DEF ReadInv

-----------------------------------------------------------------------------
\* What the steps of a pass that write to ArgoCD's namespace write there.  The
\* new object is one of who's own, or leaves the label as it was, or is gone.

\* ReconcileRepository writes who's own Secret over whatever is there.
LEMMA RepositoryStores ==
    ASSUME ReadInv, ReconcileRepository
    PROVE  \E s \in Secrets : Store(s, [owner |-> who]) /\ [owner |-> who] \in Secret
<1>1. who \in VGSs
  BY DEF ReadInv, TypeOK, ReconcileRepository
<1> QED
  BY <1>1, Kinds DEF ReconcileRepository, Create, Update, Secret

\* ReconcileApplication makes the Application who's own, and only if neither the
\* cache nor the server says it is another's.
LEMMA ApplicationStores ==
    ASSUME ReadInv, ReconcileApplication
    PROVE  /\ who \in VGSs
           /\ \E x \in Application :
                 /\ Store(AppName[who], x)
                 /\ x.owner = who
                 /\ seen[AppName[who]] = None \/ seen[AppName[who]].owner \in {None, who}
                 /\ obj[AppName[who]] = None \/ obj[AppName[who]].owner \in {None, who}
<1> DEFINE a == AppName[who]
           new == [owner |-> who, spec |-> who, fin |-> TRUE, term |-> FALSE, sync |-> FALSE]
           upd == [seen[a] EXCEPT !.owner = who, !.spec = who, !.fin = TRUE]
<1>1. who \in VGSs /\ a \in Apps /\ a \in Names
  BY Kinds DEF ReadInv, TypeOK, ReconcileApplication
<1>2. CASE seen[a] = None
  <2>1. Store(a, new) /\ obj[a] = None
    BY <1>2 DEF ReconcileApplication, Create
  <2>2. new \in Application /\ new.owner = who
    BY <1>1 DEF Application
  <2> HIDE DEF new, upd
  <2> QED
    BY <1>1, <1>2, <2>1, <2>2
<1>3. CASE seen[a] # None
  <2>1. a \notin lag /\ Store(a, upd) /\ seen[a].owner \in {None, who}
    BY <1>3 DEF ReconcileApplication, Update, OwnedByOther
  <2>2. seen[a] \in Application /\ obj[a] = seen[a]
    BY <1>1, <1>3, <2>1, Kinds DEF ReadInv, TypeOK, CacheCurrent
  <2>3. upd \in Application /\ upd.owner = who
    BY <1>1, <2>2 DEF Application
  <2> HIDE DEF new, upd
  <2> QED
    BY <1>1, <2>1, <2>2, <2>3
<1> QED
  BY <1>2, <1>3

\* TriggerSync keeps the label of the Application it updates, which the cache
\* shows as it is.
LEMMA TriggerStores ==
    ASSUME ReadInv, TriggerSync
    PROVE  /\ who \in VGSs
           /\ \/ UNCHANGED apiVars
              \/ \E x \in Application : /\ Store(AppName[who], x)
                                        /\ seen[AppName[who]] = obj[AppName[who]]
                                        /\ obj[AppName[who]] # None
                                        /\ x.owner = obj[AppName[who]].owner
<1> DEFINE a == AppName[who]
           x == [seen[a] EXCEPT !.sync = TRUE]
<1>1. who \in VGSs /\ a \in Apps /\ a \in Names
  BY Kinds DEF ReadInv, TypeOK, TriggerSync
<1>2. ASSUME seen[a] # None, Update(a, x)
      PROVE  \E y \in Application : /\ Store(a, y) /\ seen[a] = obj[a] /\ obj[a] # None
                                    /\ y.owner = obj[a].owner
  <2>1. seen[a] \in Application /\ obj[a] = seen[a]
    BY <1>1, <1>2, Kinds DEF ReadInv, TypeOK, CacheCurrent, Update
  <2>2. x \in Application /\ x.owner = seen[a].owner
    BY <2>1 DEF Application
  <2>3. Store(a, x)
    BY <1>2 DEF Update
  <2> HIDE DEF x
  <2> QED
    BY <1>2, <2>1, <2>2, <2>3
<1> QED
  BY <1>1, <1>2 DEF TriggerSync

\* DeleteApplication deletes only what the cache shows as who's own.
LEMMA DeletionStores ==
    ASSUME ReadInv, DeleteApplication
    PROVE  /\ who \in VGSs
           /\ \/ UNCHANGED apiVars
              \/ \E x \in Application \cup {None} :
                    /\ Store(AppName[who], x)
                    /\ seen[AppName[who]] # None /\ seen[AppName[who]].owner = who
                    /\ obj[AppName[who]] # None
                    /\ x # None => x.owner = obj[AppName[who]].owner
<1> DEFINE a == AppName[who]
<1>1. who \in VGSs /\ a \in Apps /\ a \in Names
  BY Kinds DEF ReadInv, TypeOK, DeleteApplication
<1>2. ASSUME obj[a] # None
      PROVE  /\ Deleted(obj[a]) \in Application \cup {None}
             /\ Deleted(obj[a]) # None => Deleted(obj[a]).owner = obj[a].owner
  BY <1>1, <1>2, Kinds, DeletedKeeps DEF ReadInv, TypeOK
<1> QED
  BY <1>1, <1>2 DEF DeleteApplication, Mine

-----------------------------------------------------------------------------
\* Every step keeps the cache current and the pass's reading of it.
LEMMA ReadStep ==
    ASSUME ReadInv, [Next]_vars
    PROVE  ReadInv'
<1>1. CASE User
  BY <1>1, UserStores, OthersKeepReads, Kinds
<1>2. CASE ArgoCD
  BY <1>2, ArgoStores, OthersKeepReads, Kinds
<1>3. CASE \E n \in Names : Observe(n)
  BY <1>3, ObserveKeepsReads
<1>4. CASE \E v \in VGSs : Begin(v)
  BY <1>4, BeginKeepsReads
<1>5. CASE Fails
  BY <1>5, QuietStep DEF Fails
<1>6. CASE AddFinalizer
  BY <1>6, AddFinalizerKeepsReads
<1>7. CASE SyncGit
  BY <1>7, QuietStep DEF SyncGit, Goto
<1>8. CASE ReconcileRepository
  <2>1. PICK s \in Secrets : Store(s, [owner |-> who]) /\ [owner |-> who] \in Objects(s)
    BY <1>8, RepositoryStores, Kinds
  <2>2. Goto(pc') /\ pc # "idle" /\ pc' = "app" /\ argo
    BY <1>8 DEF ReconcileRepository, Goto, ReadInv, TypeOK
  <2> QED
    BY <2>1, <2>2, WriteStep
<1>9. CASE ReconcileApplication
  <2>1. PICK x \in Application : AppName[who] \in Apps /\ x \in Objects(AppName[who])
                                 /\ Store(AppName[who], x)
    BY <1>9, ApplicationStores, Kinds
  <2>2. Goto(pc') /\ pc # "idle" /\ pc' = "sync" /\ argo
    BY <1>9 DEF ReconcileApplication, Goto, ReadInv, TypeOK
  <2> QED
    BY <2>1, <2>2, WriteStep
<1>10. CASE TriggerSync
  <2>1. Leave /\ AppName[who] \in Apps /\ Objects(AppName[who]) = Application
    BY <1>10, TriggerStores, Kinds DEF TriggerSync
  <2> QED
    BY <1>10, <2>1, TriggerStores, QuietStep, WriteStep
<1>11. CASE DeleteApplication
  <2>1. AppName[who] \in Apps /\ Objects(AppName[who]) = Application
    BY <1>11, DeletionStores, Kinds
  <2>2. Goto(pc') /\ pc = "delapp" /\ pc' = "delrepo" /\ argo
    BY <1>11 DEF DeleteApplication, Goto, ReadInv, TypeOK
  <2> QED
    BY <1>11, <2>1, <2>2, DeletionStores, QuietStep, WriteStep
<1>12. CASE DeleteRepository
  <2>1. Goto(pc') /\ pc = "delrepo" /\ pc' = "unfin" /\ argo
    BY <1>12 DEF DeleteRepository, Goto, ReadInv, TypeOK
  <2>2. SecretName[who] \in Secrets
    BY <1>12, Kinds DEF DeleteRepository, ReadInv, TypeOK
  <2>3. UNCHANGED apiVars \/ Store(SecretName[who], None)
    BY <1>12 DEF DeleteRepository
  <2> QED
    BY <2>1, <2>2, <2>3, QuietStep, WriteStep
<1>13. CASE RemoveFinalizer
  BY <1>13, RemoveFinalizerKeepsReads
<1>14. CASE UNCHANGED vars
  <2>1. TypeOK'
    BY <1>14 DEF vars, ReadInv, TypeOK
  <2>2. CacheCurrent' /\ FreshInv'
    BY <1>14 DEF vars, ReadInv, CacheCurrent, FreshInv
  <2> QED
    BY <2>1, <2>2 DEF ReadInv
<1> QED
  BY <1>1, <1>2, <1>3, <1>4, <1>5, <1>6, <1>7, <1>8, <1>9, <1>10, <1>11, <1>12, <1>13, <1>14
     DEF Next, Worker, PassStep

\* Labels: nobody but a pass writes an owner, a pass writes only its own
\* VirtGitSync's, and only where it has just seen nobody's or that.
LEMMA OthersKeepLabels ==
    ASSUME ReadInv, LabelInv, User \/ ArgoCD
    PROVE  LabelInv'
<1>1. /\ \A a \in Apps : obj'[a] # None =>
            obj'[a].owner = None \/ (obj[a] # None /\ obj'[a].owner = obj[a].owner)
      /\ seen' = seen /\ pc' = pc /\ who' = who
  <2>1. CASE ArgoCD
    <3>1. PICK a \in Apps : \E x : /\ x \in Objects(a) \cup {None}
                                   /\ StoreByOther(a, x)
                                   /\ obj[a] # None
                                   /\ x # None => x.owner = obj[a].owner
      BY <2>1, ArgoStores
    <3>2. PICK x : /\ x \in Objects(a) \cup {None}
                   /\ StoreByOther(a, x)
                   /\ obj[a] # None
                   /\ x # None => x.owner = obj[a].owner
      BY <3>1
    <3> QED
      BY <3>2, StoreKeeps, Kinds DEF StoreByOther, ReadInv, passVars
  <2>2. ASSUME NEW v \in VGSs, UserCreatesVgs(v) \/ UserTogglesArgo(v) \/ UserDeletes(v)
        PROVE  \A a \in Apps : obj'[a] = obj[a]
    <3>1. \E x : Store(v, x)
      BY <2>2 DEF UserCreatesVgs, UserTogglesArgo, UserDeletes, StoreByOther
    <3> QED
      BY <3>1, Kinds DEF Store, ReadInv, TypeOK
  <2>3. ASSUME NEW b \in Apps, UserCreatesApp(b)
        PROVE  \A a \in Apps : a # b => obj'[a] = obj[a]
    BY <2>3, Kinds DEF UserCreatesApp, NewApplication, StoreByOther, Store, ReadInv, TypeOK
  <2>4. ASSUME NEW b \in Apps, UserCreatesApp(b)
        PROVE  obj'[b].owner = None
    BY <2>4, Kinds DEF UserCreatesApp, NewApplication, StoreByOther, Store, ReadInv, TypeOK
  <2>5. ASSUME NEW b \in Apps, UserDeletes(b)
        PROVE  \A a \in Apps : obj'[a] # None => obj[a] # None /\ obj'[a].owner = obj[a].owner
    <3>1. obj[b] \in Application /\ obj[b] # None
      BY <2>5, Kinds DEF UserDeletes, ReadInv, TypeOK
    <3>2. Store(b, Deleted(obj[b]))
      BY <2>5 DEF UserDeletes, StoreByOther
    <3> QED
      BY <3>1, <3>2, DeletedKeeps, Kinds DEF Store, ReadInv, TypeOK
  <2>6. CASE User
    <3>1. seen' = seen /\ pc' = pc /\ who' = who
      BY <2>6, UserStores DEF StoreByOther, passVars
    <3> QED
      BY <2>2, <2>3, <2>4, <2>5, <2>6, <3>1 DEF User
  <2> QED
    BY <2>1, <2>6
<1>2. LabelsAgree'
  BY <1>1, Kinds, NamesAssumption DEF LabelInv, LabelsAgree, Names
<1>3. SyncsOwn'
  BY <1>1, Kinds DEF LabelInv, SyncsOwn, ReadInv, TypeOK
<1> QED
  BY <1>2, <1>3 DEF LabelInv

\* What a pass does to labels in one step: it takes an Application whose cached
\* label is nobody's or its own, and otherwise changes none.
LEMMA PassLabels ==
    ASSUME ReadInv, LabelInv, Worker
    PROVE  /\ seen' = seen
           /\ \A a \in Apps :
                 \/ obj'[a] = obj[a]
                 \/ /\ pc # "idle" /\ who \in VGSs
                    /\ obj[a] = None \/ obj[a].owner \in {None, who}
                    /\ obj'[a] = None \/ obj'[a].owner \in {None, who}
                    /\ seen[a] = None \/ seen[a].owner \in {None, who}
<1>1. \A n \in Names : \A x : Store(n, x) => \A k \in Names : k # n => obj'[k] = obj[k]
  BY DEF Store, ReadInv, TypeOK
<1>2. \A n \in Names : \A x : Store(n, x) => obj'[n] = x
  BY DEF Store, ReadInv, TypeOK
<1>3. CASE ReconcileApplication
  <2>1. PICK x \in Application :
            /\ Store(AppName[who], x)
            /\ x.owner = who
            /\ seen[AppName[who]] = None \/ seen[AppName[who]].owner \in {None, who}
            /\ obj[AppName[who]] = None \/ obj[AppName[who]].owner \in {None, who}
    BY <1>3, ApplicationStores
  <2>2. who \in VGSs /\ pc # "idle" /\ seen' = seen
    BY <1>3, ApplicationStores DEF ReconcileApplication, Goto
  <2> QED
    BY <1>1, <1>2, <2>1, <2>2, Kinds
<1>4. CASE TriggerSync
  <2>1. who \in VGSs /\ pc = "sync" /\ seen' = seen
    BY <1>4, TriggerStores DEF TriggerSync, Leave
  <2>2. CASE UNCHANGED apiVars
    BY <2>1, <2>2 DEF apiVars
  <2>3. CASE ~UNCHANGED apiVars
    <3>1. PICK x \in Application : /\ Store(AppName[who], x)
                                   /\ seen[AppName[who]] = obj[AppName[who]]
                                   /\ obj[AppName[who]] # None
                                   /\ x.owner = obj[AppName[who]].owner
      BY <1>4, <2>3, TriggerStores
    <3>2. obj[AppName[who]].owner \in {None, who}
      BY <2>1, <3>1 DEF LabelInv, SyncsOwn
    <3> QED
      BY <1>1, <1>2, <2>1, <3>1, <3>2, Kinds
  <2> QED
    BY <2>2, <2>3
<1>5. CASE DeleteApplication
  <2>1. who \in VGSs /\ pc = "delapp" /\ seen' = seen
    BY <1>5, DeletionStores DEF DeleteApplication, Goto
  <2>2. CASE UNCHANGED apiVars
    BY <2>1, <2>2 DEF apiVars
  <2>3. CASE ~UNCHANGED apiVars
    <3>1. PICK x \in Application \cup {None} :
              /\ Store(AppName[who], x)
              /\ seen[AppName[who]] # None /\ seen[AppName[who]].owner = who
              /\ obj[AppName[who]] # None
              /\ x # None => x.owner = obj[AppName[who]].owner
      BY <1>5, <2>3, DeletionStores
    <3>2. obj[AppName[who]] \in Application
      BY <2>1, <3>1, Kinds DEF ReadInv, TypeOK
    <3>3. obj[AppName[who]].owner \in {None, who}
      BY <2>1, <3>1, <3>2, Kinds DEF LabelInv, LabelsAgree, Application
    <3> QED
      BY <1>1, <1>2, <2>1, <3>1, <3>3, Kinds
  <2> QED
    BY <2>2, <2>3
<1>6. CASE AddFinalizer \/ RemoveFinalizer
  <2>1. who \in VGSs
    BY <1>6, AddFinalizerKeepsReads, RemoveFinalizerKeepsReads
       DEF AddFinalizer, ReadInv, FreshInv
  <2>2. seen' = seen
    BY <1>6 DEF AddFinalizer, RemoveFinalizer, Goto, Leave
  <2> QED
    BY <1>6, <2>1, <2>2, AddFinalizerKeepsReads, RemoveFinalizerKeepsReads, Kinds
<1>7. CASE ReconcileRepository \/ DeleteRepository
  <2>1. seen' = seen
    BY <1>7 DEF ReconcileRepository, DeleteRepository, Goto
  <2>2. UNCHANGED apiVars \/ \E s \in Secrets : \E x : Store(s, x)
    BY <1>7, RepositoryStores, Kinds DEF DeleteRepository, ReadInv, TypeOK
  <2> QED
    BY <1>1, <2>1, <2>2, Kinds DEF apiVars
<1>8. CASE SyncGit \/ Fails \/ \E v \in VGSs : Begin(v)
  BY <1>8 DEF SyncGit, Fails, Begin, apiVars, Goto, Leave
<1> QED
  BY <1>3, <1>4, <1>5, <1>6, <1>7, <1>8 DEF Worker, PassStep

\* The labels stay in order.
LEMMA LabelStep ==
    ASSUME ReadInv, LabelInv, [Next]_vars
    PROVE  LabelInv'
<1>1. CASE User \/ ArgoCD
  BY <1>1, OthersKeepLabels
<1>2. CASE Worker
  <2>1. LabelsAgree'
    <3> SUFFICES ASSUME NEW a \in Apps, seen'[a] # None, obj'[a] # None,
                        {seen'[a].owner, obj'[a].owner} \subseteq VGSs
                 PROVE  seen'[a].owner = obj'[a].owner
      BY DEF LabelsAgree
    <3> QED
      BY <1>2, PassLabels, Kinds, NamesAssumption DEF LabelInv, LabelsAgree, Names
  <2>2. pc' = "sync" => ReconcileApplication
    BY <1>2 DEF Worker, PassStep, AddFinalizer, SyncGit, ReconcileRepository, TriggerSync,
       DeleteApplication, DeleteRepository, RemoveFinalizer, Fails, Begin, FirstStep, Goto, Leave,
       ReadInv, TypeOK, VirtGitSync
  <2>3. SyncsOwn'
    <3> SUFFICES ASSUME pc' = "sync" PROVE SyncsOwn'
      BY DEF SyncsOwn
    <3>1. PICK x \in Application : Store(AppName[who], x) /\ x.owner = who
      BY <2>2, ApplicationStores
    <3>2. who' = who /\ obj'[AppName[who]] = x
      BY <2>2, <3>1, ApplicationStores, Kinds
         DEF ReconcileApplication, Goto, Store, ReadInv, TypeOK
    <3> QED
      BY <3>1, <3>2 DEF SyncsOwn
  <2> QED
    BY <2>1, <2>3 DEF LabelInv
<1>3. CASE \E n \in Names : Observe(n)
  <2>1. PICK n \in Names : Observe(n)
    BY <1>3
  <2>2. /\ obj' = obj /\ pc' = pc /\ who' = who
        /\ \A k \in Names : seen'[k] = seen[k] \/ seen'[k] = obj'[k]
    BY <2>1 DEF Observe, passVars, ReadInv, TypeOK
  <2>3. LabelsAgree'
    BY <2>2, Kinds DEF LabelInv, LabelsAgree
  <2>4. SyncsOwn'
    BY <2>2 DEF LabelInv, SyncsOwn
  <2> QED
    BY <2>3, <2>4 DEF LabelInv
<1>4. CASE UNCHANGED vars
  BY <1>4 DEF vars, LabelInv, LabelsAgree, SyncsOwn
<1> QED
  BY <1>1, <1>2, <1>3, <1>4 DEF Next

\* The finalizer: only RemoveFinalizer takes it off, and that pass has read the
\* VirtGitSync as it is, terminating.
LEMMA FinalizerStep ==
    ASSUME ReadInv, FinalizerInv, [Next]_vars
    PROVE  FinalizerInv'
<1>1. ASSUME \A v \in VGSs : /\ seen'[v] \in {seen[v], obj[v]}
                             /\ obj[v] # None /\ obj[v].fin => obj'[v] # None /\ obj'[v].fin,
             pc' \in {"git", "repo", "app", "sync"} =>
                 pc \in {"git", "repo", "app", "sync"} /\ who' = who
      PROVE  FinalizerInv'
  <2>1. CachedFinalizer'
    BY <1>1 DEF FinalizerInv, CachedFinalizer
  <2>2. FinalizerFirst'
    BY <1>1, Kinds DEF FinalizerInv, FinalizerFirst, ReadInv, TypeOK
  <2> QED
    BY <2>1, <2>2 DEF FinalizerInv
<1>2. ASSUME \A v \in VGSs : obj'[v] = obj[v], seen' = seen,
             pc' \in {"git", "repo", "app", "sync"} =>
                 pc \in {"git", "repo", "app", "sync"} /\ who' = who
      PROVE  FinalizerInv'
  BY <1>1, <1>2
<1>3. CASE User
  <2>1. pc' = pc /\ who' = who /\ seen' = seen
    BY <1>3, UserStores DEF StoreByOther, passVars
  <2>2. ASSUME NEW u \in VGSs, UserCreatesVgs(u) \/ UserTogglesArgo(u)
        PROVE  \A v \in VGSs : obj[v] # None /\ obj[v].fin => obj'[v] # None /\ obj'[v].fin
    <3>1. \A v \in VGSs : v # u => obj'[v] = obj[v]
      <4>1. \E x : Store(u, x)
        BY <2>2 DEF UserCreatesVgs, UserTogglesArgo, StoreByOther
      <4> QED
        BY <4>1, Kinds DEF Store, ReadInv, TypeOK
    <3>2. CASE UserCreatesVgs(u)
      BY <3>1, <3>2 DEF UserCreatesVgs
    <3>3. CASE UserTogglesArgo(u)
      <4> DEFINE x == [obj[u] EXCEPT !.argo = ~obj[u].argo]
      <4>1. obj[u] \in VirtGitSync
        BY <3>3, Kinds DEF UserTogglesArgo, ReadInv, TypeOK
      <4>2. x # None /\ x.fin = obj[u].fin
        BY <4>1, NamesAssumption DEF VirtGitSync
      <4>3. obj'[u] = x
        BY <3>3, Kinds DEF UserTogglesArgo, StoreByOther, Store, ReadInv, TypeOK
      <4> HIDE DEF x
      <4> QED
        BY <3>1, <4>2, <4>3
    <3> QED
      BY <2>2, <3>2, <3>3
  <2>3. ASSUME NEW n \in VGSs \cup Apps, UserDeletes(n)
        PROVE  \A v \in VGSs : obj[v] # None /\ obj[v].fin => obj'[v] # None /\ obj'[v].fin
    <3> SUFFICES ASSUME NEW v \in VGSs, obj[v] # None, obj[v].fin
                 PROVE  obj'[v] # None /\ obj'[v].fin
      OBVIOUS
    <3>1. obj[v] \in VirtGitSync
      BY Kinds DEF ReadInv, TypeOK
    <3>2. Store(n, Deleted(obj[n]))
      BY <2>3 DEF UserDeletes, StoreByOther
    <3>3. CASE n # v
      BY <3>2, <3>3, Kinds DEF Store, ReadInv, TypeOK
    <3>4. CASE n = v
      <4>1. Deleted(obj[v]).fin /\ Deleted(obj[v]) \in VirtGitSync
        BY <3>1, NamesAssumption DEF Deleted, VirtGitSync
      <4> QED
        BY <3>2, <3>4, <4>1, Kinds, NamesAssumption DEF Store, ReadInv, TypeOK
    <3> QED
      BY <3>3, <3>4
  <2>4. ASSUME NEW a \in Apps, UserCreatesApp(a)
        PROVE  \A v \in VGSs : obj'[v] = obj[v]
    BY <2>4, Kinds DEF UserCreatesApp, NewApplication, StoreByOther, Store, ReadInv, TypeOK
  <2> QED
    BY <1>1, <1>3, <2>1, <2>2, <2>3, <2>4 DEF User
<1>4. CASE ArgoCD
  BY <1>1, <1>4, ArgoStores, Kinds DEF StoreByOther, Store, passVars, ReadInv, TypeOK
<1>5. CASE \E n \in Names : Observe(n)
  BY <1>1, <1>5, Kinds DEF Observe, passVars, ReadInv, TypeOK
<1>6. CASE \E v \in VGSs : Begin(v)
  <2>1. PICK v \in VGSs : Begin(v)
    BY <1>6
  <2>2. seen[v] \in VirtGitSync /\ obj' = obj /\ seen' = seen /\ who' = v
    BY <2>1, Kinds DEF Begin, apiVars, ReadInv, TypeOK
  <2>3. pc' \in {"git", "repo", "app", "sync"} => seen[v].fin /\ ~seen[v].term
    BY <2>1, <2>2 DEF Begin, FirstStep, VirtGitSync
  <2>4. CachedFinalizer' /\ FinalizerFirst'
    BY <2>1, <2>2, <2>3 DEF Begin, FinalizerInv, CachedFinalizer, FinalizerFirst
  <2> QED
    BY <2>4 DEF FinalizerInv
<1>7. CASE AddFinalizer
  <2>1. who' = who /\ seen' = seen /\ who \in VGSs
    BY <1>7 DEF AddFinalizer, Goto, ReadInv, FreshInv
  <2>2. CachedFinalizer' /\ FinalizerFirst'
    BY <1>7, <2>1, AddFinalizerKeepsReads, Kinds DEF FinalizerInv, CachedFinalizer, FinalizerFirst
  <2> QED
    BY <2>2 DEF FinalizerInv
<1>8. CASE RemoveFinalizer
  <2>1. pc' = "idle"
    BY <1>8 DEF RemoveFinalizer, Leave
  <2>2. CachedFinalizer' /\ FinalizerFirst'
    BY <1>8, <2>1, RemoveFinalizerKeepsReads, Kinds
       DEF FinalizerInv, CachedFinalizer, FinalizerFirst
  <2> QED
    BY <2>2 DEF FinalizerInv
<1>9. CASE \/ SyncGit \/ Fails \/ ReconcileRepository \/ ReconcileApplication \/ TriggerSync
           \/ DeleteApplication \/ DeleteRepository
  <2>1. /\ seen' = seen
        /\ pc' \in {"git", "repo", "app", "sync"} =>
               pc \in {"git", "repo", "app", "sync"} /\ who' = who
    BY <1>9 DEF SyncGit, Fails, ReconcileRepository, ReconcileApplication, TriggerSync,
       DeleteApplication, DeleteRepository, Goto, Leave
  <2>2. UNCHANGED apiVars \/ \E n \in Apps \cup Secrets : \E x : Store(n, x)
    <3>1. CASE ReconcileApplication \/ TriggerSync \/ DeleteApplication
      BY <3>1, ApplicationStores, TriggerStores, DeletionStores, Kinds
    <3>2. CASE ReconcileRepository \/ DeleteRepository
      BY <3>2, RepositoryStores, Kinds DEF DeleteRepository, ReadInv, TypeOK
    <3>3. CASE SyncGit \/ Fails
      BY <3>3 DEF SyncGit, Fails
    <3> QED
      BY <1>9, <3>1, <3>2, <3>3
  <2>3. \A v \in VGSs : obj'[v] = obj[v]
    BY <2>2, Kinds DEF apiVars, Store, ReadInv, TypeOK
  <2> QED
    BY <1>1, <2>1, <2>3
<1>10. CASE UNCHANGED vars
  BY <1>1, <1>10 DEF vars
<1> QED
  BY <1>3, <1>4, <1>5, <1>6, <1>7, <1>8, <1>9, <1>10 DEF Next, Worker, PassStep

-----------------------------------------------------------------------------
\* The three parts are one inductive invariant.
LEMMA Invariance == Spec => [](ReadInv /\ LabelInv /\ FinalizerInv)
<1>1. ReadInv /\ LabelInv /\ FinalizerInv /\ [Next]_vars => (ReadInv /\ LabelInv /\ FinalizerInv)'
  BY ReadStep, LabelStep, FinalizerStep
<1> QED
  BY InitInv, <1>1, PTL DEF Spec

\* The variables keep their types; in particular a pass makes and deletes
\* ArgoCD's objects only for a VirtGitSync that it read with ArgoCD enabled
\* (controller 95, 149).
THEOREM TypeCorrect == Spec => []TypeOK
<1>1. ReadInv => TypeOK
  BY DEF ReadInv
<1> QED
  BY Invariance, <1>1, PTL

\* Cached and stored labels never name two different VirtGitSyncs, so a check
\* of the cached label (argocd 121-126, 322-331) decides about the stored one.
THEOREM LabelsTrusted == Spec => []LabelsAgree
<1>1. LabelInv => LabelsAgree
  BY DEF LabelInv
<1> QED
  BY Invariance, <1>1, PTL

\* No pass changes or deletes the Application of another VirtGitSync, for any
\* number of them and however their names clash.
THEOREM ApplicationsSafe == Spec => OthersApplicationSafe
<1> DEFINE Safe == \A a \in Apps : /\ pc # "idle" /\ pc' # pc
                                   /\ obj[a] # None /\ obj[a].owner \in VGSs \ {who}
                                   => obj'[a] = obj[a]
<1>1. ReadInv /\ LabelInv /\ [Next]_vars => [Safe]_vars
  <2> SUFFICES ASSUME ReadInv, LabelInv, Next, pc' # pc PROVE Safe
    BY DEF vars
  <2>1. Worker
    <3>1. User \/ ArgoCD => pc' = pc
      BY UserStores, ArgoStores DEF StoreByOther, passVars
    <3>2. (\E n \in Names : Observe(n)) => pc' = pc
      BY DEF Observe, passVars
    <3> QED
      BY <3>1, <3>2 DEF Next
  <2> QED
    BY <2>1, PassLabels, Kinds
<1>2. Spec => [][Safe]_vars
  BY Invariance, <1>1, PTL DEF Spec
<1> QED
  BY <1>2 DEF OthersApplicationSafe

\* The finalizer is on a VirtGitSync as long as a pass makes things for it.
THEOREM FinalizerHeld == Spec => []FinalizerFirst
<1>1. FinalizerInv => FinalizerFirst
  BY DEF FinalizerInv
<1> QED
  BY Invariance, <1>1, PTL

=============================================================================
