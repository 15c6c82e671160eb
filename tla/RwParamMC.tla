----------------------------- MODULE RwParamMC -----------------------------
(* SET and GET on a small instance: a thread that sets and gets, and one that *)
(* only gets.                                                                 *)
EXTENDS RwParam, TLC

CONSTANTS d1, d2, r1

MCSocks    == {d1, d2}
MCMaxCalls == (d1 :> 3) @@ (d2 :> 1)
MCOwner    == r1 :> d1
=============================================================================
