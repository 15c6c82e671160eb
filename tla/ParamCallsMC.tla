---------------------------- MODULE ParamCallsMC ----------------------------
(* Every SMIO that exports operations.                                      *)
EXTENDS ParamTables

AllSmios == DOMAIN Ops
==============================================================================
