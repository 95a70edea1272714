----------------------------- MODULE SharedSocket -----------------------------
(***************************************************************************)
(* What steering promises, without locks, queues, tasks or the router: the *)
(* calls of a client share one socket, a call stays on the socket it sent  *)
(* on and hears replies only there, and the socket is replaced only to     *)
(* answer advice, once for each time advice is taken up, and only while no *)
(* call is on it. Steering implements it.                                  *)
(***************************************************************************)
EXTENDS Naturals

CONSTANTS
    Requests,   \* calls that wait for replies
    Reporters,  \* calls that only send
    None        \* no socket

VARIABLES
    current,    \* generation of the shared socket
    on,         \* the socket each call is on, None if it is on none
    heard,      \* requests that have a reply
    advised,    \* advice waits to be taken up
    answering   \* advice was taken up, the socket is to be replaced

vars == <<current, on, heard, advised, answering>>

Calls == Requests \cup Reporters

Init ==
    /\ current = 0
    /\ on = [c \in Calls |-> None]
    /\ heard = {}
    /\ advised = FALSE /\ answering = FALSE

Enter(c) ==
    /\ on[c] \in {None, current}
    /\ on' = [on EXCEPT ![c] = current]
    /\ UNCHANGED <<current, heard, advised, answering>>

\* A call ends: what it heard goes with it
Leave(c) ==
    /\ on' = [on EXCEPT ![c] = None]
    /\ heard' = heard \ {c}
    /\ UNCHANGED <<current, advised, answering>>

Hear(r) ==
    /\ on[r] = current
    /\ heard' = heard \cup {r}
    /\ UNCHANGED <<current, on, advised, answering>>

Advise ==
    /\ advised' = TRUE
    /\ UNCHANGED <<current, on, heard, answering>>

TakeUp ==
    /\ advised /\ ~answering
    /\ advised' = FALSE /\ answering' = TRUE
    /\ UNCHANGED <<current, on, heard>>

Replace ==
    /\ answering
    /\ \A c \in Calls : on[c] = None
    /\ current' = current + 1
    /\ answering' = FALSE
    /\ UNCHANGED <<on, heard, advised>>

\* No port can be bound, or the caller goes away
GiveUp ==
    /\ answering
    /\ answering' = FALSE
    /\ UNCHANGED <<current, on, heard, advised>>

Next ==
    \/ \E c \in Calls : Enter(c) \/ Leave(c)
    \/ \E r \in Requests : Hear(r)
    \/ Advise \/ TakeUp \/ Replace \/ GiveUp

Spec == Init /\ [][Next]_vars
=============================================================================
