--------------------------- MODULE MCBackupStream ---------------------------
(***************************************************************************)
(* The instance of BackupStream for TLC.                                   *)
(***************************************************************************)
EXTENDS BackupStream

OneTab == {"tab1"}
=============================================================================
