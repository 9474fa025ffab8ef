----------------------------- MODULE MCRouter -----------------------------
(* Values of the constants that a .cfg cannot write. *)
EXTENDS Router
Transfer(slot, key, loopback) == [slot |-> slot, key |-> key, loopback |-> loopback]
MCTransfers == UNION {{Transfer("disk", p, FALSE), Transfer("net", p, FALSE), Transfer("net", p, TRUE),
                       Transfer("net", None, FALSE)} : p \in Pids}
MCOrder == <<"kernel", "processes">>
=============================================================================
