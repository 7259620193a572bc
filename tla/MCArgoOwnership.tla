--------------------------- MODULE MCArgoOwnership ---------------------------
(***************************************************************************)
(* ArgoOwnership for TLC.  The VirtGitSyncs name the same Application, and *)
(* their namespaces and names ("a-b"/"c" and "a"/"b-c") give one Secret.   *)
(***************************************************************************)
EXTENDS ArgoOwnership

CONSTANTS a1, s1

OneApp    == [v \in VGSs |-> a1]
OneSecret == [v \in VGSs |-> s1]
=============================================================================
