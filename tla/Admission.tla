------------------------------ MODULE Admission ------------------------------
(***************************************************************************)
(* What a resource request promises its caller, without rounds, clocks,    *)
(* sends and sockets: it fixes the servers it may ask, hears some of them, *)
(* and ends once, with the decision of the oldest server heard, with a     *)
(* timeout if it heard none, with an error, or, when there is nothing to   *)
(* ask, with a grant of its own. HaRequest implements it.                  *)
(***************************************************************************)
CONSTANTS
    Servers,      \* server ids
    Older(_, _),  \* compare_server_age
    NoServer      \* no choice made

VARIABLES
    members,  \* the servers of the request, {} before they are fixed
    heard,    \* those with a valid response
    choice,   \* whose decision is returned
    result    \* "open" until the request ends

vars == <<members, heard, choice, result>>

Init ==
    /\ members = {} /\ heard = {}
    /\ choice = NoServer
    /\ result = "open"

\* The membership is fixed once, before anything is heard.
Fix(m) ==
    /\ result = "open" /\ members = {} /\ m # {}
    /\ members' = m
    /\ UNCHANGED <<heard, choice, result>>

Hear(s) ==
    /\ result = "open" /\ s \in members
    /\ heard' = heard \cup {s}
    /\ UNCHANGED <<members, choice, result>>

Decide(s) ==
    /\ result = "open"
    /\ s \in heard /\ \A other \in heard : ~Older(other, s)
    /\ result' = "decision" /\ choice' = s
    /\ UNCHANGED <<members, heard>>

TimeOut ==
    /\ result = "open" /\ members # {} /\ heard = {}
    /\ result' = "timeout"
    /\ UNCHANGED <<members, heard, choice>>

LocalGrant ==
    /\ result = "open" /\ members = {}
    /\ result' = "local_grant"
    /\ UNCHANGED <<members, heard, choice>>

\* An error, or the caller goes away
Fail ==
    /\ result = "open"
    /\ result' = "failed"
    /\ UNCHANGED <<members, heard, choice>>

Next ==
    \/ \E m \in SUBSET Servers : Fix(m)
    \/ \E s \in Servers : Hear(s) \/ Decide(s)
    \/ TimeOut \/ LocalGrant \/ Fail

Safety == Init /\ [][Next]_vars

Spec == Safety /\ <>(result # "open")
=============================================================================
