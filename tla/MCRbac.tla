------------------------------- MODULE MCRbac -------------------------------
(***************************************************************************)
(* A small instance of Rbac for TLC.                                       *)
(***************************************************************************)
EXTENDS Rbac, TLC

Symmetry ==
    Permutations(Roles) \cup Permutations(Perms) \cup Permutations(Names) \cup Permutations(Slots)

\* Both roles and one permission are created, or both permissions and one role
OneOfAKindStaysAlone ==
    \/ \E r \in Roles : roles[r] = "absent"
    \/ \E p \in Perms : permissions[p].state = "absent"
=============================================================================
