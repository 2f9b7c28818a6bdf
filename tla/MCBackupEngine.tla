--------------------------- MODULE MCBackupEngine ---------------------------
(***************************************************************************)
(* Instances of BackupEngine for TLC: a stack with a database, one without *)
(* that cannot be restored.                                                *)
(***************************************************************************)
EXTENDS BackupEngine

OneStack == <<"cloud">>
TwoStacks == <<"cloud", "enrol">>
Cloud == {"cloud"}
=============================================================================
