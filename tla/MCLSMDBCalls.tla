---------------------------- MODULE MCLSMDBCalls ----------------------------
(***************************************************************************)
(* LSMDBCalls with the values of MCLSMDB.                                  *)
(***************************************************************************)
EXTENDS MCLSMDB, LSMDBCalls
============================================================================
