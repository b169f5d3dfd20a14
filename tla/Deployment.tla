----------------------------- MODULE Deployment ------------------------------
(***************************************************************************)
(* What backup and restore of a deployment promise (backup_archive.rs):    *)
(* the tables are written a row at a time, a copy of some of them can be   *)
(* taken, and a restore replaces all of them by a copy, in one step: "a    *)
(* restore replaces the deployment: every table is truncated first".       *)
(***************************************************************************)
CONSTANTS
    Tables,  \* the tables
    Copied   \* those that a copy has

VARIABLES
    rows,    \* the rows of each table
    copies   \* the copies taken so far

Init ==
    /\ rows = [t \in Tables |-> {}]
    /\ copies = {}

\* A row more in one table.
Insert ==
    /\ \E t \in Tables : \E row \in rows'[t] : rows' = [rows EXCEPT ![t] = @ \cup {row}]
    /\ UNCHANGED copies

\* A row goes, and what refers to it.
Delete ==
    /\ \A t \in Tables : rows'[t] \subseteq rows[t]
    /\ \E t \in Tables : \E row \in rows[t] : rows'[t] = rows[t] \ {row}
    /\ rows' = [t \in Tables |-> rows'[t]]
    /\ UNCHANGED copies

\* The tables are read one after another: a copy need not be of one moment.
Backup ==
    /\ \E copy \in copies' : DOMAIN copy = Copied /\ copies' = copies \cup {copy}
    /\ UNCHANGED rows

\* What is not in the copy is empty afterwards.
Restore ==
    /\ \E copy \in copies : rows' = [t \in Tables |-> IF t \in Copied THEN copy[t] ELSE {}]
    /\ UNCHANGED copies

Next == Insert \/ Delete \/ Backup \/ Restore

Spec == Init /\ [][Next]_<<rows, copies>>
=============================================================================
