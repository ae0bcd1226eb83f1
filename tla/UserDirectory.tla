--------------------------- MODULE UserDirectory ---------------------------
(***************************************************************************)
(* What the user application promises a client that is alone: a directory  *)
(* of accounts in which every operation is atomic.  No two accounts have   *)
(* one e-mail, the password is changed by who knows it, and an account     *)
(* that was removed does not come back.                                    *)
(***************************************************************************)
CONSTANTS Ids, Emails, Hashes, None

VARIABLE directory

Account == [state : {"live"}, email : Emails, hash : Hashes]
Absent == [state |-> "absent", email |-> None, hash |-> None]
Removed == [state |-> "removed", email |-> None, hash |-> None]

Holds(i, e) == directory[i].state = "live" /\ directory[i].email = e

Init == directory = [i \in Ids |-> Absent]

Register(i, e, h) ==
    /\ directory[i] = Absent
    /\ \A j \in Ids : ~ Holds(j, e)
    /\ directory' = [directory EXCEPT ![i] = [state |-> "live", email |-> e, hash |-> h]]

ChangeEmail(i, e) ==
    /\ directory[i] \in Account
    /\ \A j \in Ids \ {i} : ~ Holds(j, e)
    /\ directory' = [directory EXCEPT ![i] =
                        [state |-> "live", email |-> e, hash |-> directory[i].hash]]

ChangePassword(i, old, new) ==
    /\ directory[i] \in Account
    /\ directory[i].hash = old
    /\ directory' = [directory EXCEPT ![i] =
                        [state |-> "live", email |-> directory[i].email, hash |-> new]]

Remove(i) ==
    /\ directory[i] \in Account
    /\ directory' = [directory EXCEPT ![i] = Removed]

Next ==
    \E i \in Ids :
        \/ \E e \in Emails, h \in Hashes : Register(i, e, h)
        \/ \E e \in Emails : ChangeEmail(i, e)
        \/ \E old, new \in Hashes : ChangePassword(i, old, new)
        \/ Remove(i)

Spec == Init /\ [][Next]_directory
=============================================================================
