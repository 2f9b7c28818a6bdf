------------------------------ MODULE MCUsersDB ------------------------------
(***************************************************************************)
(* The instance of UsersDB for TLC.                                        *)
(***************************************************************************)
EXTENDS UsersDB

TwoUsers == {"ann", "bob"}
TwoPasswords == {"p1", "p2"}
OneProfile == {"user"}
TwoHandlers == {"h1", "h2"}
=============================================================================
