--------------------------- MODULE HalcsClientMC ---------------------------
(***************************************************************************)
(* Two clients and two services.  "gain" is a parameter (rw and value),    *)
(* "check" a function without arguments or result, such as the acquisition *)
(* check, "block" one with a result and an argument of variable size.      *)
(***************************************************************************)
EXTENDS HalcsClient

Fix(n) == [size |-> n, var |-> FALSE]
Var(n) == [size |-> n, var |-> TRUE]

MCOps     == {"gain", "check", "block"}
MCTable   == [o \in MCOps |->
    CASE o = "gain"  -> [args |-> <<Fix(4), Fix(4)>>, ret |-> 4]
      [] o = "check" -> [args |-> <<>>, ret |-> 0]
      [] o = "block" -> [args |-> <<Var(4)>>, ret |-> 8]]
MCExports == [s \in {"acq", "dsp"} |-> IF s = "acq" THEN MCOps ELSE {"gain"}]
Write == [kind |-> "write", op |-> "gain",  rw |-> "write", sizes |-> <<4, 4>>, out |-> 0]
Read  == [kind |-> "read",  op |-> "gain",  rw |-> "read",  sizes |-> <<4, 4>>, out |-> 4]
Block == [kind |-> "exec",  op |-> "block", rw |-> "read",  sizes |-> <<2>>,    out |-> 8]
Poll  == [kind |-> "poll",  op |-> "check", rw |-> "read",  sizes |-> <<>>,     out |-> 0]

MCPairs == {"c1", "c2"} \X {"acq", "dsp"}
\* c1 works on both services, c2 disturbs it on one of them.  dsp does not
\* export "block".
MCApi == [p \in MCPairs |->
    CASE p = <<"c1", "acq">> -> {Write, Block, Poll}
      [] p = <<"c1", "dsp">> -> {Read, Block}
      [] p = <<"c2", "acq">> -> {Write}
      [] OTHER               -> {}]
MCMaxCalls == [p \in MCPairs |->
    CASE p = <<"c1", "acq">> -> 2 [] p = <<"c1", "dsp">> -> 1
      [] p = <<"c2", "acq">> -> 1 [] OTHER -> 0]
=============================================================================
