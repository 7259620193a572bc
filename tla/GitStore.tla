------------------------------ MODULE GitStore ------------------------------
(***************************************************************************)
(* What the git repositories may look like, whoever works on them: every   *)
(* branch is a linear history that only grows.  A VirtGitSync adds one     *)
(* commit at a time, on top of everything committed before, and changes    *)
(* only the files under its own sync path.                                 *)
(***************************************************************************)
EXTENDS Naturals, Sequences

CONSTANTS
    VGSs,       \* the VirtGitSyncs
    URLs,       \* repositories
    Branches,   \* branch names
    Paths,      \* directories for VM manifests
    Contents,   \* what such a directory may hold
    None,       \* an empty directory, and the author of commits by others
    Path        \* the sync path of each VirtGitSync

VARIABLE history    \* of each branch of each repository; <<>>: no such branch

Tree    == [Paths -> Contents \cup {None}]
Commit  == [by : VGSs \cup {None}, tree : Tree]
History == Seq(Commit)

EmptyTree == [p \in Paths |-> None]
TreeOf(h) == IF h = <<>> THEN EmptyTree ELSE h[Len(h)].tree

\* t is the tree after g replaced what is under its path.
OwnChange(g, old, t) == \A p \in Paths \ {Path[g]} : t[p] = old[p]

Grow(u, b, c) == history' = [history EXCEPT ![u][b] = Append(history[u][b], c)]

CommitBy(g, u, b) ==
    /\ history[u][b] # <<>>
    /\ \E t \in Tree : /\ OwnChange(g, TreeOf(history[u][b]), t)
                       /\ Grow(u, b, [by |-> g, tree |-> t])

CommitByOther(u, b) == \E t \in Tree : Grow(u, b, [by |-> None, tree |-> t])

Init == history \in [URLs -> [Branches -> {<<>>, <<[by |-> None, tree |-> EmptyTree]>>}]]

Next == \E u \in URLs, b \in Branches : \/ CommitByOther(u, b)
                                        \/ \E g \in VGSs : CommitBy(g, u, b)

Spec == Init /\ [][Next]_history
=============================================================================
