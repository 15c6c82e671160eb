------------------------------ MODULE DevioMC ------------------------------
(***************************************************************************)
(* DEVIO on its own, with an application that sends any of a set of        *)
(* scripts: register something, then any other command.                    *)
(***************************************************************************)
EXTENDS Devio

CONSTANTS pm, acq, other

MCKinds == {pm, acq}
MCIds   == MCKinds \cup {other}
MCSdb   == <<other, pm>>
MCChild == [k \in {pm} |-> acq]
MCPeer  == [k \in {pm} |-> acq]

Any(c) == Command(c, pm, 0)
Acq(c) == Command(c, acq, 0)

Seconds == {Any("unregister_all"), Any("unregister"), Acq("unregister"), Any("term"),
            Any("reconfigure_all"), Any("reconfigure"), Acq("register")}

\* The last one gives the key of an SMIO that is being destroyed to a new one.
Scripts == {<<a, b>> : a \in {Any("register_all"), Acq("register")}, b \in Seconds}
             \cup {<<Any("register_all"), Acq("unregister"), Acq("register")>>}

Init == \E script \in Scripts : InitWith(script)
Spec == Init /\ [][Threads]_vars /\ ThreadFairness
=============================================================================
