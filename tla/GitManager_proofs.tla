-------------------------- MODULE GitManager_proofs --------------------------
(***************************************************************************)
(* Theorems about GitManager, for any VirtGitSyncs, sync paths (shared     *)
(* ones too), repositories, branches, secrets and bounds.                  *)
(*                                                                         *)
(* That the detailed specification implements GitStore rests on PassInv:   *)
(* the local commit is one commit on top of what was fetched, and what was *)
(* fetched stays an ancestor of the remote branch.  A push accepted as a   *)
(* fast-forward then finds the remote branch where the pass fetched it.    *)
(***************************************************************************)
EXTENDS GitManager, TLAPS

-----------------------------------------------------------------------------
(* Histories.                                                                *)

\* The tree of a history is a tree.
LEMMA TreeOfType ==
    ASSUME NEW h \in Store!History PROVE Store!TreeOf(h) \in Store!Tree
<1>1. CASE h = <<>>
  BY <1>1 DEF Store!TreeOf, Store!Tree, Store!EmptyTree
<1>2. CASE h # <<>>
  <2>1. h[Len(h)] \in Store!Commit
    BY <1>2 DEF Store!History
  <2> QED  BY <1>2, <2>1 DEF Store!TreeOf, Store!Commit
<1> QED  BY <1>1, <1>2

\* A history stays one when a commit is added.
LEMMA AppendType ==
    ASSUME NEW h \in Store!History, NEW c \in Store!Commit
    PROVE  /\ Append(h, c) \in Store!History
           /\ Len(Append(h, c)) = Len(h) + 1
           /\ \A i \in 1..Len(h) : Append(h, c)[i] = h[i]
           /\ Append(h, c)[Len(h) + 1] = c
  BY DEF Store!History

\* Ancestry is transitive, and adding a commit makes a descendant.
LEMMA AncestorTrans ==
    ASSUME NEW r \in Store!History, NEW s \in Store!History, NEW t \in Store!History,
           IsAncestor(r, s), IsAncestor(s, t)
    PROVE  IsAncestor(r, t)
  BY DEF IsAncestor, Store!History

LEMMA AncestorAppend ==
    ASSUME NEW h \in Store!History, NEW c \in Store!Commit PROVE IsAncestor(h, Append(h, c))
  BY AppendType DEF IsAncestor, Store!History

\* Histories are each other's ancestors only if they are equal.
LEMMA AncestorAntisym ==
    ASSUME NEW s \in Store!History, NEW t \in Store!History,
           IsAncestor(s, t), Len(s) = Len(t)
    PROVE  s = t
  BY DEF IsAncestor, Store!History

\* A branch grown by a commit keeps every branch's type.
LEMMA RemoteType ==
    ASSUME NEW r \in [URLs -> [Branches -> Store!History]], NEW u \in URLs, NEW b \in Branches,
           NEW h \in Store!History
    PROVE  /\ [r EXCEPT ![u][b] = h] \in [URLs -> [Branches -> Store!History]]
           /\ [r EXCEPT ![u][b] = h][u][b] = h
           /\ \A x \in URLs, y \in Branches :
                 x # u \/ y # b => [r EXCEPT ![u][b] = h][x][y] = r[x][y]
  OBVIOUS

-----------------------------------------------------------------------------
(* Types.                                                                    *)

\* The credential of a usable secret is of a known kind.
LEMMA AuthType == ASSUME NEW s \in Secrets PROVE Auth(s) \in AuthKinds
  BY DEF Auth, AuthKinds

\* What a pass writes under its sync path leaves a tree.
LEMMA WrittenType ==
    ASSUME TypeOK, NEW g \in VGSs, NEW t \in Store!Tree
    PROVE  Written(g, t) \in Store!Tree /\ Store!OwnChange(g, t, Written(g, t))
  BY ParameterAssumption DEF TypeOK, Written, Store!Tree, Store!OwnChange

\* The commit of a pass is a commit.
LEMMA CommitFilesType ==
    ASSUME TypeOK, NEW g \in VGSs, CommitFiles(g)
    PROVE  LET h == clone[g].head
               c == [by |-> g, tree |-> Written(g, Store!TreeOf(h))]
           IN /\ clone[g] \in LocalRepo
              /\ h \in Store!History /\ c \in Store!Commit
              /\ clone' = [clone EXCEPT ![g].head = Append(h, c)]
              /\ clone'[g] \in LocalRepo
<1> DEFINE h == clone[g].head
           c == [by |-> g, tree |-> Written(g, Store!TreeOf(h))]
<1>1. clone[g] \in LocalRepo /\ h \in Store!History
  BY DEF CommitFiles, TypeOK, LocalRepo
<1>2. c \in Store!Commit
  BY <1>1, TreeOfType, WrittenType DEF Store!Commit
<1>3. clone' = [clone EXCEPT ![g].head = Append(h, c)]
  BY DEF CommitFiles
<1>4. Append(h, c) \in Store!History
  BY <1>1, <1>2, AppendType
<1>5. clone'[g] = [clone[g] EXCEPT !.head = Append(h, c)]
  BY <1>3 DEF TypeOK
<1> QED  BY <1>1, <1>2, <1>3, <1>4, <1>5 DEF LocalRepo

\* A commit by others leaves histories.
LEMMA CommitByOtherGrows ==
    ASSUME TypeOK, NEW u \in URLs, NEW b \in Branches, CommitByOther(u, b)
    PROVE  \E t \in Store!Tree :
              /\ [by |-> None, tree |-> t] \in Store!Commit
              /\ remote' = [remote EXCEPT ![u][b] =
                              Append(remote[u][b], [by |-> None, tree |-> t])]
              /\ remote' \in [URLs -> [Branches -> Store!History]]
<1>1. PICK p \in Paths, k \in Contents \cup {None} :
         remote' = [remote EXCEPT ![u][b] =
            Append(remote[u][b], [by |-> None,
                                  tree |-> [Store!TreeOf(remote[u][b]) EXCEPT ![p] = k]])]
  BY DEF CommitByOther
<1> DEFINE t == [Store!TreeOf(remote[u][b]) EXCEPT ![p] = k]
<1>2. remote[u][b] \in Store!History
  BY DEF TypeOK
<1>3. t \in Store!Tree
  BY <1>2, TreeOfType DEF Store!Tree
<1>4. [by |-> None, tree |-> t] \in Store!Commit
  BY <1>3 DEF Store!Commit
<1>5. Append(remote[u][b], [by |-> None, tree |-> t]) \in Store!History
  BY <1>2, <1>4, AppendType
<1>6. remote \in [URLs -> [Branches -> Store!History]]
  BY DEF TypeOK
<1>7. remote' \in [URLs -> [Branches -> Store!History]]
  BY <1>1, <1>5, <1>6, RemoteType
<1> QED  BY <1>1, <1>3, <1>4, <1>7

LEMMA InitType == Init => TypeOK
<1> SUFFICES ASSUME Init PROVE TypeOK
  OBVIOUS
<1>1. FirstCommit \in Store!Commit
  BY DEF FirstCommit, Store!Commit, Store!Tree, Store!EmptyTree
<1>2. <<>> \in Store!History /\ <<FirstCommit>> \in Store!History
  BY <1>1 DEF Store!History
<1>3. remote \in [URLs -> [Branches -> Store!History]]
  BY <1>2 DEF Init
<1> QED  BY <1>3, ParameterAssumption DEF Init, TypeOK

\* Ending a pass in whatever way keeps the types of its variables.
LEMMA EndPassType ==
    ASSUME TypeOK, EndPass
    PROVE  at' \in VGSs \cup {None} /\ pc' = "idle" /\ at' = None /\ serving' = None
  BY DEF EndPass

\* A push publishes a history.
LEMMA PublishType ==
    ASSUME TypeOK, NEW g \in VGSs, Publish(g)
    PROVE  /\ clone[g] \in LocalRepo /\ serving \in Manager
           /\ remote' = [remote EXCEPT ![clone[g].origin][serving.branch] = clone[g].head]
           /\ remote' \in [URLs -> [Branches -> Store!History]]
<1>1. clone[g] \in LocalRepo /\ serving \in Manager
  BY DEF Publish, TypeOK
<1>2. remote \in [URLs -> [Branches -> Store!History]]
  BY DEF TypeOK
<1> QED  BY <1>1, <1>2, RemoteType DEF Publish, LocalRepo, Manager

LEMMA PassType == ASSUME TypeOK, NEW g \in VGSs, Pass(g) PROVE TypeOK'
<1>1. CASE NewManager(g)
  <2>1. serving' \in Manager
    BY <1>1, AuthType DEF NewManager, TypeOK, Manager
  <2> QED  BY <1>1, <2>1, SentinelAssumption DEF NewManager, FirstStep, TypeOK, bounds
<1>2. CASE Clone(g)
  <2>1. serving \in Manager
    BY <1>2 DEF Clone, TypeOK
  <2>2. clone' \in [VGSs -> LocalRepo \cup {None}] /\ clone'[g] \in LocalRepo
    BY <1>2, <2>1 DEF Clone, TypeOK, Manager, LocalRepo
  <2> QED  BY <1>2, <2>2, SentinelAssumption DEF Clone, TypeOK, bounds
<1>3. CASE Pull(g)
  <2>1. serving \in Manager /\ clone[g] \in LocalRepo
    BY <1>3 DEF Pull, TypeOK
  <2>2. Fetched(g) \in Store!History
    BY <2>1 DEF Fetched, TypeOK, Manager, LocalRepo
  <2>3. clone' \in [VGSs -> LocalRepo \cup {None}] /\ clone'[g] \in LocalRepo
    BY <1>3, <2>1, <2>2 DEF Pull, TypeOK, LocalRepo
  <2> QED  BY <1>3, <2>3, SentinelAssumption DEF Pull, TypeOK, bounds
<1>4. CASE NothingToCommit(g)
  BY <1>4 DEF NothingToCommit, TypeOK, bounds
<1>5. CASE CommitFiles(g)
  <2>1. clone' \in [VGSs -> LocalRepo \cup {None}] /\ clone'[g] \in LocalRepo
    BY <1>5, CommitFilesType DEF TypeOK
  <2>2. clone'[g] # None
    BY <2>1, SentinelAssumption
  <2> QED  BY <1>5, <2>1, <2>2 DEF CommitFiles, TypeOK, bounds
<1>6. CASE PushMatchesNothing(g)
  BY <1>6 DEF PushMatchesNothing, TypeOK, bounds
<1>7. CASE Push(g)
  <2>1. remote' \in [URLs -> [Branches -> Store!History]]
    BY <1>7, PublishType DEF Push
  <2> QED  BY <1>7, <2>1 DEF Push, Publish, TypeOK, bounds
<1>8. CASE PushAnswerLost(g)
  <2>1. remote' \in [URLs -> [Branches -> Store!History]]
    BY <1>8, PublishType DEF PushAnswerLost
  <2> QED  BY <1>8, <2>1, EndPassType DEF PushAnswerLost, TypeOK, bounds
<1> QED  BY <1>1, <1>2, <1>3, <1>4, <1>5, <1>6, <1>7, <1>8 DEF Pass

LEMMA NextType == ASSUME TypeOK, [Next]_vars PROVE TypeOK'
<1>1. ASSUME NEW g \in VGSs, ChangeSpec(g) PROVE TypeOK'
  <2>1. PICK u \in URLs, b \in Branches, x \in Secrets :
           spec' = [spec EXCEPT ![g] = [url |-> u, branch |-> b, secret |-> x]]
    BY <1>1 DEF ChangeSpec
  <2>2. spec' \in [VGSs -> [url : URLs, branch : Branches, secret : Secrets]]
    BY <2>1 DEF TypeOK
  <2> QED  BY <1>1, <2>2, ParameterAssumption DEF ChangeSpec, TypeOK, passVars
<1>2. ASSUME NEW g \in VGSs, ChangeVMs(g) PROVE TypeOK'
  BY <1>2, ParameterAssumption DEF ChangeVMs, TypeOK, passVars
<1>3. ASSUME NEW g \in VGSs, Pass(g) PROVE TypeOK'
  BY <1>3, PassType
<1>4. ASSUME NEW u \in URLs, NEW b \in Branches, CommitByOther(u, b) PROVE TypeOK'
  <2>1. remote' \in [URLs -> [Branches -> Store!History]]
    BY <1>4, CommitByOtherGrows
  <2> QED  BY <1>4, <2>1, ParameterAssumption DEF CommitByOther, TypeOK, passVars
<1>5. CASE PassFails \/ Report
  BY <1>5, EndPassType DEF PassFails, Report, TypeOK, bounds
<1>6. CASE Restart
  BY <1>6, EndPassType, ParameterAssumption DEF Restart, TypeOK
<1>7. CASE UNCHANGED vars
  BY <1>7 DEF vars, passVars, bounds, TypeOK
<1> QED  BY <1>1, <1>2, <1>3, <1>4, <1>5, <1>6, <1>7 DEF Next

\* Every variable keeps its type, and a pass past its clone step has a clone.
THEOREM TypeCorrect == Spec => []TypeOK
  BY InitType, NextType, PTL DEF Spec

-----------------------------------------------------------------------------
(* Where the local branch stands.                                            *)

LEMMA ParentOfAppend ==
    ASSUME NEW h \in Store!History, NEW c \in Store!Commit
    PROVE  SubSeq(Append(h, c), 1, Len(Append(h, c)) - 1) = h
  BY AppendType DEF Store!History

LEMMA ParentType ==
    ASSUME NEW h \in Store!History, Len(h) > 1
    PROVE  /\ SubSeq(h, 1, Len(h) - 1) \in Store!History
           /\ Len(SubSeq(h, 1, Len(h) - 1)) = Len(h) - 1
           /\ h = Append(SubSeq(h, 1, Len(h) - 1), h[Len(h)])
  BY DEF Store!History

\* A descendant of r that is one commit on top of an ancestor of r is r or one
\* commit on top of r.
LEMMA OneOnTop ==
    ASSUME NEW r \in Store!History, NEW h \in Store!History, Len(h) > 1,
           IsAncestor(r, h), IsAncestor(SubSeq(h, 1, Len(h) - 1), r)
    PROVE  h = r \/ h = Append(r, h[Len(h)])
<1> DEFINE parent == SubSeq(h, 1, Len(h) - 1)
<1>1. /\ parent \in Store!History /\ Len(parent) = Len(h) - 1
      /\ h = Append(parent, h[Len(h)])
  BY ParentType
<1>2. Len(parent) <= Len(r) /\ Len(r) <= Len(h)
  BY DEF IsAncestor
<1>3. Len(r) \in Nat /\ Len(h) \in Nat
  BY DEF Store!History
<1>4. CASE Len(r) = Len(h)
  BY <1>4, AncestorAntisym
<1>5. CASE Len(r) = Len(parent)
  <2>1. parent = r
    BY <1>1, <1>5, AncestorAntisym
  <2> QED  BY <1>1, <2>1
<1>6. Len(r) = Len(h) \/ Len(r) = Len(parent)
  <2>1. Len(h) - 1 <= Len(r) /\ Len(r) <= Len(h)
    BY <1>1, <1>2
  <2>2. Len(r) = Len(h) \/ Len(r) = Len(h) - 1
    BY <1>3, <2>1
  <2> QED  BY <1>1, <2>2
<1> QED  BY <1>4, <1>5, <1>6

\* An accepted push either finds its commit already there or adds it, and it
\* only, to what the repository has.
LEMMA PublishAddsOne ==
    ASSUME TypeOK, PassInv, NEW g \in VGSs, Publish(g)
    PROVE  LET h == clone[g].head
               r == remote[clone[g].origin][serving.branch]
           IN /\ h \in Store!History /\ r \in Store!History /\ IsAncestor(r, h)
              /\ Len(h) > 1 /\ h[Len(h)].by = g
              /\ Store!OwnChange(g, h[Len(h) - 1].tree, h[Len(h)].tree)
              /\ h = r \/ h = Append(r, h[Len(h)])
<1>1. clone[g] \in LocalRepo /\ serving \in Manager /\ at = g /\ pc = "push"
  BY PublishType DEF Publish
<1>2. clone[g].head \in Store!History /\ Fetched(g) \in Store!History
  BY <1>1 DEF TypeOK, Fetched, LocalRepo, Manager
<1>3. IsAncestor(Fetched(g), clone[g].head)
  BY DEF Publish, FastForward, Fetched
<1> QED  BY <1>1, <1>2, <1>3, OneOnTop DEF PassInv, Fetched

\* No branch ever loses a commit.
LEMMA RemoteGrows ==
    ASSUME TypeOK, [Next]_vars, NEW x \in URLs, NEW y \in Branches
    PROVE  IsAncestor(remote[x][y], remote'[x][y])
<1>1. remote[x][y] \in Store!History
  BY DEF TypeOK
<1>2. IsAncestor(remote[x][y], remote[x][y])
  BY <1>1 DEF IsAncestor
<1>3. ASSUME NEW u \in URLs, NEW b \in Branches, CommitByOther(u, b)
      PROVE  IsAncestor(remote[x][y], remote'[x][y])
  <2>1. PICK t \in Store!Tree :
           /\ [by |-> None, tree |-> t] \in Store!Commit
           /\ remote' = [remote EXCEPT ![u][b] =
                           Append(remote[u][b], [by |-> None, tree |-> t])]
           /\ remote' \in [URLs -> [Branches -> Store!History]]
    BY <1>3, CommitByOtherGrows
  <2>2. remote[u][b] \in Store!History
    BY DEF TypeOK
  <2>3. IsAncestor(remote[u][b], Append(remote[u][b], [by |-> None, tree |-> t]))
    BY <2>1, <2>2, AncestorAppend
  <2> QED  BY <1>2, <2>1, <2>3 DEF TypeOK
<1>4. ASSUME NEW g \in VGSs, Publish(g) PROVE IsAncestor(remote[x][y], remote'[x][y])
  <2>1. clone[g] \in LocalRepo /\ serving \in Manager
    BY <1>4, PublishType
  <2>2. IsAncestor(remote[clone[g].origin][serving.branch], clone[g].head)
    BY <1>4 DEF Publish, FastForward
  <2> QED  BY <1>2, <1>4, <2>1, <2>2 DEF Publish, TypeOK, LocalRepo, Manager
<1>5. CASE UNCHANGED remote
  BY <1>2, <1>5
<1> QED  BY <1>3, <1>4, <1>5 DEF Next, Pass, ChangeSpec, ChangeVMs, NewManager, Clone, Pull,
         NothingToCommit, CommitFiles, PushMatchesNothing, Push, PushAnswerLost, PassFails,
         Report, Restart, vars

GitInv == PassInv /\ ReportedIsPublished

\* A step that leaves the pass and the clones alone disturbs nothing: the
\* branches only grow.
LEMMA UntouchedGit ==
    ASSUME TypeOK, TypeOK', GitInv, [Next]_vars, UNCHANGED <<clone, passVars>> PROVE GitInv'
<1>1. CASE pc \in {"idle", "clone", "pull"}
  BY <1>1 DEF GitInv, PassInv, ReportedIsPublished, passVars
<1>2. CASE pc \in {"write", "push", "report"}
  <2>1. clone[at] \in LocalRepo /\ serving \in Manager /\ at \in VGSs
    BY <1>2 DEF TypeOK
  <2> DEFINE far(u) == remote[u][serving.branch]
  <2>2. \A u \in URLs : /\ far(u) \in Store!History /\ far(u)' \in Store!History
                        /\ IsAncestor(far(u), far(u)')
    BY <2>1, RemoteGrows DEF TypeOK, Manager, passVars
  <2>3. clone[at].head \in Store!History /\ clone[at].origin \in URLs /\ serving.url \in URLs
    BY <2>1 DEF LocalRepo, Manager
  <2>4. CASE pc = "write"
    <3>1. IsAncestor(clone[at].head, far(clone[at].origin))
      BY <2>4 DEF GitInv, PassInv, Fetched
    <3>2. IsAncestor(clone[at].head, far(clone[at].origin)')
      BY <2>2, <2>3, <3>1, AncestorTrans DEF passVars
    <3> QED  BY <2>4, <3>2 DEF GitInv, PassInv, ReportedIsPublished, Fetched, passVars
  <2>5. CASE pc = "push"
    <3> DEFINE parent == SubSeq(clone[at].head, 1, Len(clone[at].head) - 1)
    <3>1. IsAncestor(parent, far(clone[at].origin)) /\ Len(clone[at].head) > 1
      BY <2>5 DEF GitInv, PassInv, Fetched
    <3>2. IsAncestor(parent, far(clone[at].origin)')
      BY <2>2, <2>3, <3>1, AncestorTrans, ParentType DEF passVars
    <3> QED  BY <2>5, <3>2 DEF GitInv, PassInv, ReportedIsPublished, Fetched, passVars
  <2>6. CASE pc = "report"
    <3>1. CASE MadeFor(at, serving)
      <4>1. IsAncestor(clone[at].head, far(serving.url))
        BY <2>6, <3>1 DEF GitInv, ReportedIsPublished, Reported
      <4>2. IsAncestor(clone[at].head, far(serving.url)')
        BY <2>2, <2>3, <4>1, AncestorTrans DEF passVars
      <4> QED  BY <2>6, <4>2 DEF GitInv, PassInv, ReportedIsPublished, Reported, passVars
    <3>2. CASE ~MadeFor(at, serving)
      BY <2>6, <3>2 DEF GitInv, PassInv, ReportedIsPublished, MadeFor, passVars
    <3> QED  BY <3>1, <3>2
  <2> QED  BY <1>2, <2>4, <2>5, <2>6
<1> QED  BY <1>1, <1>2 DEF TypeOK

\* Each step of a pass leaves the local branch where the next one expects it.
LEMMA PassGit == ASSUME TypeOK, TypeOK', GitInv, NEW g \in VGSs, Pass(g) PROVE GitInv'
<1>1. CASE NewManager(g)
  BY <1>1 DEF NewManager, FirstStep, GitInv, PassInv, ReportedIsPublished
<1>2. CASE Clone(g)
  <2>1. clone'[g].head = Fetched(g)' /\ Fetched(g)' # <<>>
    BY <1>2 DEF Clone, Fetched, Reachable, TypeOK
  <2>2. Fetched(g)' \in Store!History /\ at' = g
    BY <1>2, <2>1 DEF Clone, TypeOK, LocalRepo
  <2> QED  BY <1>2, <2>1, <2>2 DEF Clone, GitInv, PassInv, ReportedIsPublished, IsAncestor,
           Store!History
<1>3. CASE Pull(g)
  <2>1. clone[g] \in LocalRepo
    BY <1>3 DEF Pull, TypeOK
  <2>2. clone'[g].head = Fetched(g)' /\ Fetched(g)' # <<>>
    BY <1>3, <2>1 DEF Pull, Fetched, Reachable, TypeOK, LocalRepo
  <2>3. Fetched(g)' \in Store!History /\ at' = g
    BY <1>3, <2>1, <2>2 DEF Pull, TypeOK, LocalRepo
  <2> QED  BY <1>3, <2>2, <2>3 DEF Pull, GitInv, PassInv, ReportedIsPublished, IsAncestor,
           Store!History
<1>4. CASE NothingToCommit(g)
  BY <1>4 DEF NothingToCommit, GitInv, PassInv, ReportedIsPublished, Reported, MadeFor, Fetched
<1>5. CASE CommitFiles(g)
  <2> DEFINE h == clone[g].head
             c == [by |-> g, tree |-> Written(g, Store!TreeOf(h))]
  <2>1. /\ h \in Store!History /\ c \in Store!Commit
        /\ clone'[g].head = Append(h, c) /\ clone'[g].origin = clone[g].origin
    BY <1>5, CommitFilesType DEF LocalRepo, TypeOK
  <2>2. h # <<>> /\ IsAncestor(h, Fetched(g)) /\ Fetched(g)' = Fetched(g)
    BY <1>5, <2>1 DEF CommitFiles, GitInv, PassInv, Fetched
  <2>3. Store!OwnChange(g, h[Len(h)].tree, c.tree)
    <3>1. Store!OwnChange(g, Store!TreeOf(h), c.tree)
      BY <2>1, TreeOfType, WrittenType
    <3> QED  BY <2>2, <3>1 DEF Store!TreeOf
  <2>4. Len(h) \in Nat /\ Len(h) > 0
    BY <2>1, <2>2 DEF Store!History
  <2>5. /\ Len(Append(h, c)) = Len(h) + 1 /\ Append(h, c)[Len(h) + 1] = c
        /\ Append(h, c)[Len(h)] = h[Len(h)]
    BY <2>1, <2>4, AppendType
  <2>6. SubSeq(Append(h, c), 1, Len(Append(h, c)) - 1) = h
    BY <2>1, ParentOfAppend
  <2>7. pc' = "push" /\ at' = g /\ c.by = g
    BY <1>5 DEF CommitFiles
  <2> HIDE DEF h, c
  <2> DEFINE new == clone'[g].head
  <2>8. /\ Len(new) > 1 /\ new[Len(new)].by = g
        /\ Store!OwnChange(g, new[Len(new) - 1].tree, new[Len(new)].tree)
        /\ IsAncestor(SubSeq(new, 1, Len(new) - 1), Fetched(g)')
    <3>1. new = Append(h, c) /\ Len(new) = Len(h) + 1
      BY <2>1, <2>5
    <3>2. Len(new) > 1 /\ Len(new) - 1 = Len(h)
      BY <2>4, <3>1
    <3>3. new[Len(new)] = c /\ new[Len(new) - 1] = h[Len(h)]
      BY <2>5, <3>1, <3>2
    <3>4. SubSeq(new, 1, Len(new) - 1) = h
      BY <2>6, <3>1
    <3> HIDE DEF new
    <3> QED  BY <2>2, <2>3, <2>7, <3>2, <3>3, <3>4
  <2> QED  BY <2>7, <2>8 DEF GitInv, PassInv, ReportedIsPublished
<1>6. CASE PushMatchesNothing(g)
  BY <1>6 DEF PushMatchesNothing, GitInv, PassInv, ReportedIsPublished, MadeFor
<1>7. CASE Push(g)
  <2>1. clone[g] \in LocalRepo /\ serving \in Manager
    BY <1>7, PublishType DEF Push
  <2>2. remote'[clone[g].origin][serving.branch] = clone[g].head
    BY <1>7, <2>1 DEF Push, Publish, TypeOK, LocalRepo, Manager
  <2>3. IsAncestor(clone[g].head, clone[g].head)
    BY <2>1 DEF IsAncestor, LocalRepo, Store!History
  <2> QED  BY <1>7, <2>2, <2>3 DEF Push, Publish, GitInv, PassInv, ReportedIsPublished, Reported,
           MadeFor
<1>8. CASE PushAnswerLost(g)
  BY <1>8 DEF PushAnswerLost, EndPass, GitInv, PassInv, ReportedIsPublished
<1> QED  BY <1>1, <1>2, <1>3, <1>4, <1>5, <1>6, <1>7, <1>8 DEF Pass

LEMMA NextGit == ASSUME TypeOK, TypeOK', GitInv, [Next]_vars PROVE GitInv'
<1>1. ASSUME NEW g \in VGSs, Pass(g) PROVE GitInv'
  BY <1>1, PassGit
<1>2. CASE PassFails \/ Report \/ Restart
  BY <1>2 DEF PassFails, Report, Restart, EndPass, GitInv, PassInv, ReportedIsPublished
<1>3. CASE UNCHANGED <<clone, passVars>>
  BY <1>3, UntouchedGit
<1> QED  BY <1>1, <1>2, <1>3 DEF Next, ChangeSpec, ChangeVMs, CommitByOther, vars

LEMMA SpecGit == Spec => [](TypeOK /\ GitInv)
<1>1. Init => GitInv
  BY DEF Init, GitInv, PassInv, ReportedIsPublished
<1> QED  BY <1>1, TypeCorrect, NextGit, PTL DEF Spec

\* A pass whose clone was made for the repository and branch it serves
\* reports only what is in that branch.
THEOREM ReportsArePublished == Spec => []ReportedIsPublished
  BY SpecGit, PTL DEF GitInv

-----------------------------------------------------------------------------
(* The refinement.                                                           *)

LEMMA InitStore == Init => Store!Init
  BY DEF Init, Store!Init, FirstCommit

\* A step that changes the branches is one commit of GitStore.
LEMMA StepStore ==
    ASSUME TypeOK, GitInv, [Next]_vars PROVE [Store!Next]_remote
<1>1. ASSUME NEW u \in URLs, NEW b \in Branches, CommitByOther(u, b) PROVE Store!Next
  <2>1. PICK t \in Store!Tree :
           /\ [by |-> None, tree |-> t] \in Store!Commit
           /\ remote' = [remote EXCEPT ![u][b] =
                           Append(remote[u][b], [by |-> None, tree |-> t])]
           /\ remote' \in [URLs -> [Branches -> Store!History]]
    BY <1>1, CommitByOtherGrows
  <2> QED  BY <2>1 DEF Store!Next, Store!CommitByOther, Store!Grow
<1>2. ASSUME NEW g \in VGSs, Publish(g) PROVE Store!Next \/ UNCHANGED remote
  <2> DEFINE h == clone[g].head
             u == clone[g].origin
             b == serving.branch
             r == remote[u][b]
             t == h[Len(h)].tree
  <2>1. u \in URLs /\ b \in Branches /\ remote' = [remote EXCEPT ![u][b] = h]
    BY <1>2, PublishType DEF LocalRepo, Manager
  <2>2. /\ h \in Store!History /\ r \in Store!History /\ IsAncestor(r, h)
        /\ Len(h) > 1 /\ h[Len(h)].by = g
        /\ Store!OwnChange(g, h[Len(h) - 1].tree, t)
        /\ h = r \/ h = Append(r, h[Len(h)])
    BY <1>2, PublishAddsOne DEF GitInv
  <2>3. CASE h = r
    BY <2>1, <2>3 DEF TypeOK
  <2>4. CASE h # r
    <3>1. h = Append(r, h[Len(h)])
      BY <2>2, <2>4
    <3>2. h[Len(h)] \in Store!Commit
      BY <2>2 DEF Store!History
    <3>3. h[Len(h)] = [by |-> g, tree |-> t] /\ t \in Store!Tree
      BY <2>2, <3>2 DEF Store!Commit
    <3>4. Len(r) = Len(h) - 1 /\ Len(r) > 0 /\ r[Len(r)] = h[Len(h) - 1] /\ r # <<>>
      <4> HIDE DEF h, r, t
      <4>1. Len(h) = Len(r) + 1 /\ \A i \in 1..Len(r) : h[i] = r[i]
        BY <2>2, <3>1, <3>2, AppendType
      <4>2. Len(r) \in Nat
        BY <2>2 DEF Store!History
      <4> QED  BY <2>2, <4>1, <4>2
    <3>5. Store!OwnChange(g, Store!TreeOf(r), t)
      BY <2>2, <3>4 DEF Store!TreeOf
    <3> HIDE DEF h, r, t, u, b
    <3>6. Store!CommitBy(g, u, b)
      BY <2>1, <3>1, <3>3, <3>4, <3>5 DEF Store!CommitBy, Store!Grow, r
    <3> QED  BY <2>1, <3>6 DEF Store!Next
  <2> QED  BY <2>3, <2>4
<1>3. CASE UNCHANGED remote
  BY <1>3
<1> QED  BY <1>1, <1>2, <1>3 DEF Next, Pass, ChangeSpec, ChangeVMs, NewManager, Clone, Pull,
         NothingToCommit, CommitFiles, PushMatchesNothing, Push, PushAnswerLost, PassFails,
         Report, Restart, vars

\* GitManager implements GitStore: whatever specs are changed to, whoever else
\* pushes and whatever fails, branches only grow, and a VirtGitSync adds one
\* commit at a time that changes nothing outside its sync path.
THEOREM StoreImplemented == Spec => StoreSafe
<1>1. Spec => Store!Init /\ [][Store!Next]_remote
  BY SpecGit, InitStore, StepStore, PTL DEF Spec
<1> QED  BY <1>1 DEF StoreSafe, Store!Spec
=============================================================================
