----------------------------- MODULE MCSession -----------------------------
(***************************************************************************)
(* Small instances of Session for TLC, and what the tests of the           *)
(* repository say of a refresh that its payloads refute.                   *)
(***************************************************************************)
EXTENDS Session, TLC

Symmetry == Permutations(Users) \cup Permutations(Slots)

(***************************************************************************)
(* A refresh token that has not expired is exchanged for new tokens, and   *)
(* is not refused as incorrect.                                            *)
(***************************************************************************)
RefreshTokensRefresh ==
    \A s \in Slots : req[s].at = "incorrectToken" => req[s].token.kind # "refresh"
=============================================================================
