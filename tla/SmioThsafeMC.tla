---------------------------- MODULE SmioThsafeMC ----------------------------
(* The register channel, and its refinement of RegisterService, on a small   *)
(* instance.                                                                 *)
EXTENDS ThsafeRefinement, TLC

CONSTANTS d1, d2  \* a socket that is used again after a timeout, and another

MCSocks    == {d1, d2}
MCMaxCalls == (d1 :> 2) @@ (d2 :> 1)
=============================================================================
