---------------------------- MODULE MCGitManager ----------------------------
(***************************************************************************)
(* GitManager for TLC.  Two VirtGitSyncs with sync paths of their own.     *)
(* Both repositories want an SSH key; the secret may lack a usable one.    *)
(***************************************************************************)
EXTENDS GitManager

CONSTANTS g1, p1, p2, u1, b1, b2

OwnPaths  == [g \in VGSs |-> IF g = g1 THEN p1 ELSE p2]
SshKey    == [keys |-> {"ssh-private-key", "known_hosts"}, parses |-> TRUE]
BrokenKey == [keys |-> {"ssh-private-key"}, parses |-> FALSE]
OneKey    == {SshKey}
TwoKeys   == {SshKey, BrokenKey}
SshOnly   == [u \in URLs |-> {"ssh"}]
OneMissing == {<<u, b>> \in URLs \X Branches : u = u1 \/ b = b1}
=============================================================================
