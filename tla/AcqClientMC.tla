---------------------------- MODULE AcqClientMC ----------------------------
(***************************************************************************)
(* Two clients and three channels.  Channel a has samples of one unit, b   *)
(* of two, and twin shares the memory of a; a payload is four units, a     *)
(* block and a page eight.                                                 *)
(***************************************************************************)
EXTENDS AcqClient, TLC

CONSTANTS a, b, twin, none, c1, c2

MCSampleSize == (a :> 1) @@ (b :> 2) @@ (twin :> 2)
MCStart      == (a :> 0) @@ (b :> 12) @@ (twin :> 0)
MCEnd        == (a :> 12) @@ (b :> 28) @@ (twin :> 12)

Req(c, pre, post, shots) == [chan |-> c, pre |-> pre, post |-> post, shots |-> shots]

\* For c1: a curve of two blocks; one that does not fit the ring once it is
\* aligned; one that fills its block; three shots; shots that a block cuts; nothing
\* at all; one that takes the memory of c2's channel a.  c2 gets in the way of it on either
\* channel, or is refused.
MCRequests == c1 :> { Req(a, 5, 4, 1), Req(a, 1, 9, 1), Req(b, 3, 1, 1), Req(b, 1, 0, 3),
                      Req(b, 2, 1, 2), Req(b, 0, 0, 1), Req(twin, 2, 0, 1) }
           @@ c2 :> { Req(a, 9, 0, 1), Req(b, 0, 2, 1), Req(none, 1, 0, 1) }
MCTrigTypes == c1 :> {} @@ c2 :> {"skip", "sw"}
MCMaxOps   == c1 :> 2 @@ c2 :> 3
=============================================================================
