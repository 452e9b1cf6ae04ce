---------------------------- MODULE MCLogRetention ----------------------------
(***************************************************************************)
(* Instances of LogRetention for TLC: two logs, so that a table takes more   *)
(* than one batch, a location, and a second table to go on to.              *)
(***************************************************************************)
EXTENDS LogRetention

CONSTANTS l1, l2, d1

MCOrder == <<"control_logs", "employee_daily_stats">>

MCTableOf ==
    [r \in Row |-> IF r = d1 THEN "device_locations" ELSE "control_logs"]
===============================================================================
