---- MODULE MCDiscovery ----
(* Two servers with one address each and a target that carries no id. *)
EXTENDS Discovery, TLC

MCIps == "s-1" :> {"a1"} @@ "s-2" :> {"a2"} @@ "other" :> {"a9"}
====
