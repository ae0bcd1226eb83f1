--------------------------- MODULE MCResetPassword ---------------------------
(***************************************************************************)
(* Small instances of ResetPassword for TLC, and what the documentation of *)
(* the auth application says of its answers.                               *)
(***************************************************************************)
EXTENDS ResetPassword

(***************************************************************************)
(* A user has one reset at a time within the window, unless two mails were *)
(* asked for at the same time.                                             *)
(***************************************************************************)
OneResetAtATime == TypeOK /\ OneResetUnlessRaced

(***************************************************************************)
(* "password changed successfully." is what confirming is documented to    *)
(* come to, and the mail that is emitted after the post says so: then the  *)
(* password is the one that was asked for.                                 *)
(***************************************************************************)
SuccessMeansChanged ==
    [][\A s \in Slots :
          req[s].at = "confirmPost" /\ req'[s].at = "confirmRemove" => password'[req[s].user] = req[s].new]_vars
=============================================================================
