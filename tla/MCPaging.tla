------------------------------ MODULE MCPaging ------------------------------
(* The instances of Paging.tla have their constants in the .cfg files.      *)
EXTENDS Paging, TLC

CONSTANTS t1, t2, i1, i2
=============================================================================
