------------------------ MODULE MCPendingDecisions ------------------------
(* PendingDecisions for TLC.                                               *)
EXTENDS PendingDecisions
=============================================================================
