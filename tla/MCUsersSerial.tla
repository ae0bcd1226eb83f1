--------------------------- MODULE MCUsersSerial ---------------------------
(***************************************************************************)
(* The instance of Users that serves one request at a time.                *)
(***************************************************************************)
EXTENDS UsersDirectory, TLC

Symmetry == Permutations(Ids) \cup Permutations(Emails) \cup Permutations(Passwords)
=============================================================================
