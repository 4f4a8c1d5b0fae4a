------------------------------ MODULE MCDDWRT ------------------------------
(* A router with two lines of its owner's.                                 *)
EXTENDS DDWRT

CONSTANTS f1, f2

MCOptions == <<[host |-> NoHost, ip |-> f1], [host |-> NoHost, ip |-> f2]>>
=============================================================================
