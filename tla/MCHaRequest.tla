---- MODULE MCHaRequest ----
(***************************************************************************)
(* TLC instances of HaRequest: three servers, the oldest one dual-stack,   *)
(* and one id outside every snapshot.                                      *)
(***************************************************************************)
EXTENDS HaRequest, TLC

\* Server 1 and 2 started in the same second, server 4 in a later one; 9 is in
\* no membership.
MCServerIds == {1, 2, 4, 9}
MCAddrs == {"a1", "b1", "a2", "a4"}
MCMayFail == {"b1", "a2"}

Ep(a, id) == [addr |-> a, id |-> id]

\* no server, one server, dual-stack plus one, and an address listed under two ids
MCMemberships ==
    {<<>>,
     <<Ep("a2", 2)>>,
     <<Ep("a2", 2), Ep("a1", 1), Ep("b1", 1)>>,
     <<Ep("a4", 4), Ep("b1", 1), Ep("a2", 2)>>,
     <<Ep("a2", 1), Ep("a2", 2), Ep("a4", 4)>>}

R(id, a, ok, grant, keep) ==
    [id |-> id, addr |-> a, ok |-> ok, grant |-> grant, keep |-> keep]

\* valid grants and rejections, one with steering advice, one that does not
\* parse, one from a server that is in no snapshot
MCReplies ==
    {R(1, "a1", TRUE, TRUE, TRUE), R(1, "b1", TRUE, FALSE, TRUE),
     R(2, "a2", TRUE, FALSE, FALSE), R(4, "a4", TRUE, TRUE, TRUE),
     R(1, "a1", FALSE, TRUE, TRUE), R(9, "a2", TRUE, TRUE, TRUE)}

MCGap == 0 :> 2 @@ 1 :> 1
MCBefore == 0 :> 0 @@ 1 :> 2 @@ 2 :> 3
====
