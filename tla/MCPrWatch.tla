----------------------------- MODULE MCPrWatch -----------------------------
(* PrWatch for TLC.                                                        *)
EXTENDS PrWatch
=============================================================================
