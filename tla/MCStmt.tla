-------------------------------- MODULE MCStmt --------------------------------
(* The statements of StmtCases for TLC.                                     *)
EXTENDS Stmt, StmtCases
===============================================================================
