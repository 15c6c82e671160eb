----------------------------- MODULE HalcsdMC ------------------------------
(***************************************************************************)
(* halcsd on a device whose SDB lists an fmc_active_clk, which notifies    *)
(* the fmc250m, an fmc250m and a device that has no SMIO.                  *)
(***************************************************************************)
EXTENDS Halcsd

CONSTANTS clk, fmc, other

MCKinds == {clk, fmc, InitSmio}
MCIds   == MCKinds \cup {other}
MCSdb   == <<clk, other, fmc>>
NoChild == [k \in {} |-> clk]
MCPeer  == [k \in {clk} |-> fmc]
=============================================================================
