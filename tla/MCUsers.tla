------------------------------ MODULE MCUsers ------------------------------
(***************************************************************************)
(* A small instance of Users for TLC.                                      *)
(***************************************************************************)
EXTENDS Users, TLC

\* Identifiers, e-mails, passwords and slots are only compared for equality
Symmetry ==
    Permutations(Ids) \cup Permutations(Emails)
        \cup Permutations(Passwords) \cup Permutations(Slots)
=============================================================================
