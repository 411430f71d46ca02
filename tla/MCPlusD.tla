------------------------------ MODULE MCPlusD ------------------------------
(* The +D with two drives, one of which may lose its disk while it spins.   *)
EXTENDS PlusD

CONSTANTS d1, d2

=============================================================================
