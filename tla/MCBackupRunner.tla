--------------------------- MODULE MCBackupRunner ---------------------------
(* An instance of BackupRunner for TLC, with the assumptions of KeyTemplate. *)
EXTENDS BackupRunner, KeyTemplate

ScopeAll == [p \in Plans |-> Nodes]

ModeOnError == [p \in Plans |-> "on-error"]
=============================================================================
