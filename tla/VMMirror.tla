------------------------------ MODULE VMMirror ------------------------------
(***************************************************************************)
(* What a reconcile pass promises about the git branch: it publishes one   *)
(* snapshot of the cluster, by one commit on the very state of the branch  *)
(* it fetched, or it publishes nothing.  The snapshot is what the          *)
(* operator's cache showed at one moment; only VMs that it was told were   *)
(* deleted may be left out of it, and only files whose write or removal    *)
(* failed in this pass stay as they were fetched.                          *)
(***************************************************************************)
CONSTANTS
    VMs,        \* keys of the VMs, which name their files
    Files,      \* what a file may hold
    None        \* no file

VARIABLES
    view,       \* the file each VM should have, as the operator's cache shows it
    deleted,    \* VMs the operator was told were deleted
    branch,     \* the files of the branch
    phase,      \* the pass: "none", "fetched" or "listed"
    base,       \* the files of the branch as it knows them
    snap,       \* the snapshot it took
    omitted,    \* the VMs it leaves out of it
    failed      \* the files it could not write or remove

cluster == <<view, deleted>>
pass    == <<phase, base, snap, omitted, failed>>
vars    == <<cluster, branch, pass>>

Contents == [VMs -> Files \cup {None}]
Empty    == [v \in VMs |-> None]

\* Informer and event handler learn of changes at any time.
Look ==
    /\ view' \in Contents
    /\ deleted' \in SUBSET VMs
    /\ UNCHANGED <<branch, pass>>

CommitByOther == branch' \in Contents /\ UNCHANGED <<cluster, pass>>

BeginPass ==
    /\ phase = "none"
    /\ phase' = "fetched"
    /\ base' = branch
    /\ UNCHANGED <<cluster, branch, snap, omitted, failed>>

TakeSnapshot ==
    /\ phase = "fetched"
    /\ phase' = "listed"
    /\ snap' = view
    /\ UNCHANGED <<cluster, branch, base, omitted, failed>>

Omit(v) ==
    /\ phase = "listed"
    /\ v \in deleted
    /\ snap[v] # None
    /\ omitted' = omitted \cup {v}
    /\ UNCHANGED <<cluster, branch, phase, base, snap, failed>>

\* A write or removal fails, or one that failed is made good.
WritesFail ==
    /\ phase = "listed"
    /\ failed' \in SUBSET VMs
    /\ UNCHANGED <<cluster, branch, phase, base, snap, omitted>>

EndPass == phase' = "none" /\ base' = Empty /\ snap' = Empty /\ omitted' = {} /\ failed' = {}

Wanted(v) == IF v \in omitted THEN None ELSE snap[v]

\* Nobody has pushed since the fetch.  The pass may not learn that it
\* succeeded, and end.
Publish ==
    /\ phase = "listed"
    /\ branch = base
    /\ branch' = [v \in VMs |-> IF v \in failed THEN base[v] ELSE Wanted(v)]
    /\ (base' = branch' /\ UNCHANGED <<phase, snap, omitted, failed>>) \/ EndPass
    /\ UNCHANGED cluster

\* The pass is over, or fails.
Finish == EndPass /\ UNCHANGED <<cluster, branch>>

\* A restart forgets what the handler was told.
Restart == view' \in Contents /\ deleted' = {} /\ EndPass /\ UNCHANGED branch

Init ==
    /\ view \in Contents
    /\ deleted = {}
    /\ branch = Empty
    /\ phase = "none" /\ base = Empty /\ snap = Empty /\ omitted = {} /\ failed = {}

Next == \/ Look \/ CommitByOther
        \/ BeginPass \/ TakeSnapshot \/ WritesFail \/ Publish \/ Finish \/ Restart
        \/ \E v \in VMs : Omit(v)

Spec == Init /\ [][Next]_vars
=============================================================================
