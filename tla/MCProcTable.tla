---------------------------- MODULE MCProcTable ----------------------------
(* Small instances of Kern with the pointers of ProcTable, for TLC. *)
EXTENDS MCKern, ProcTable
=============================================================================
