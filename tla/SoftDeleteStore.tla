--------------------------- MODULE SoftDeleteStore ---------------------------
(***************************************************************************)
(* What a repository promises of rows that can be soft-deleted             *)
(* (infra/repository/adapter.ts), as far as its two implementations keep   *)
(* it: the states a filtered write reaches and the states a read shows are *)
(* parameters.  MongoRepository reaches live documents only and shows any; *)
(* TypeOrmRepository reaches any row and shows live ones only.             *)
(***************************************************************************)
CONSTANTS Ids, Fields, Values, None,
          Reached,  \* the states of the rows a filtered write may change
          Shown     \* the states of the rows a read may answer

VARIABLES rows, answer

States == {"absent", "live", "deleted"}
Row == [state : States, fields : [Fields -> Values \cup {None}]]
NoRow == [state |-> "absent", fields |-> [f \in Fields |-> None]]
Present == {i \in Ids : rows[i].state # "absent"}

Init == rows = [i \in Ids |-> NoRow] /\ answer = {}

\* Some rows that are reached take new fields, are soft-deleted or restored
Write ==
    /\ rows' \in [Ids -> Row]
    /\ \A i \in Ids : rows'[i] # rows[i] =>
          rows[i].state \in Reached /\ rows'[i].state \in {"live", "deleted"}

\* Rows that are reached go away
Discard ==
    \E T \in SUBSET {i \in Present : rows[i].state \in Reached} :
        rows' = [i \in Ids |-> IF i \in T THEN NoRow ELSE rows[i]]

\* New rows
Insert ==
    /\ rows' \in [Ids -> Row]
    /\ \A i \in Ids : rows'[i] # rows[i] =>
          rows[i].state = "absent" /\ rows'[i].state \in {"live", "deleted"}

\* createOrUpdate: one row by its id, in whatever state
Put == \E i \in Ids, r \in Row : r.state # "absent" /\ rows' = [rows EXCEPT ![i] = r]

\* What is answered was there to be shown after the step
Answer == answer' \subseteq {i \in Ids : rows'[i].state \in Shown}

Next == (Write \/ Discard \/ Insert \/ Put) /\ Answer

Spec == Init /\ [][Next]_<<rows, answer>>
=============================================================================
