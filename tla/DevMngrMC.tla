----------------------------- MODULE DevMngrMC -----------------------------
(***************************************************************************)
(* A manager, the broker and two devices: every child may fail its exec,   *)
(* end, or outlive the manager.                                            *)
(***************************************************************************)
EXTENDS DevMngr
=============================================================================
