--------------------------- MODULE UsersDirectory ---------------------------
(***************************************************************************)
(* Users implements UserDirectory when its requests come one at a time.    *)
(***************************************************************************)
EXTENDS Users

\* The account a client sees in the rows of user i
Accounts ==
    [i \in Ids |->
        [state |-> IF users[i].state = "deleted" THEN "removed" ELSE users[i].state,
         email |-> IF Live(i) THEN users[i].email ELSE None,
         hash |-> IF Live(i) THEN passwords[i].hash ELSE None]]

Directory == INSTANCE UserDirectory WITH directory <- Accounts

(***************************************************************************)
(* With one request at a time, the four use cases of core/user behave like *)
(* the atomic operations of UserDirectory.                                 *)
(***************************************************************************)
ImplementsDirectory == Directory!Spec
=============================================================================
