---- MODULE MCSourcePorts ----
(* Three steering ports and one below; other processes use two sockets. *)
EXTENDS SourcePorts

S(f, port) == [family |-> f, port |-> port]
MCForeign == {S("v4", 11), S("v6", 10)}
MCMayDeny == {S("v4", 12), S("v6", 12)}
====
