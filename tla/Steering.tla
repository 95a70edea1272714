------------------------------- MODULE Steering -------------------------------
(***************************************************************************)
(* Source-port steering of client.rs: concurrent requests that share one   *)
(* socket, the response router that reads it, and requests that replace it *)
(* when their response asks for another source port.                       *)
(*                                                                         *)
(* Locks are not variables: who holds one follows from where the tasks     *)
(* are. request_activity and socket are tokio RwLocks, fair: a queued      *)
(* writer keeps new readers out, and a writer that leaves admits the       *)
(* readers queued behind it. steering_apply_lock is a tokio Mutex.         *)
(*                                                                         *)
(* A socket is identified by its generation; module SourcePorts models     *)
(* which port it gets. External: the servers (Answer), tokio's locks.      *)
(***************************************************************************)
EXTENDS Naturals, FiniteSets

CONSTANTS
    Requests,    \* tasks that call check_rate_limit again and again
    Reporters,   \* tasks that call report_latency
    MaxSteers,   \* bound on successful rebinds: later ones fail to bind
    MayCancel    \* whether callers may drop the future of a request

ASSUME ConfigAssumption ==
    /\ MaxSteers \in Nat /\ MayCancel \in BOOLEAN
    /\ Requests \cap Reporters = {}

NoSocket == MaxSteers + 1

VARIABLES
    pc,          \* [Requests -> where the task is]
    reporting,   \* reporters inside their send loop: they hold socket.read()
    pending,     \* steering_pending
    socket,      \* generation of the shared socket
    epoch,       \* socket_epoch
    ready,       \* socket_epoch_ready
    routerPc,    \* "load", "announce" or "select"
    routerSock,  \* active_socket of the router, NoSocket before its first load
    routerEpoch, \* active_epoch
    sentOn,      \* [Requests -> socket of the last send, NoSocket before it]
    inbox,       \* replies waiting in a socket's buffer
    delivered,   \* requests whose channel holds a reply
    advice,      \* sockets whose advice was stored since the last swap
    cause,       \* sockets whose advice the current rebind answers
    left         \* epoch of the last rebind that did not wait for the router

vars == <<pc, reporting, pending, socket, epoch, ready, routerPc, routerSock, routerEpoch,
          sentOn, inbox, delivered, advice, cause, left>>

routerVars == <<routerPc, routerSock, routerEpoch, ready>>
netVars    == <<sentOn, inbox, delivered>>
steerVars  == <<pending, advice, cause>>
sockVars   == <<socket, epoch, left>>

-----------------------------------------------------------------------------
(* Locks                                                                   *)

In(where) == {r \in Requests : pc[r] \in where}

\* Mutant: the read guard is kept while steering is applied
BugActivityReaders == In({"send", "listen", "complete", "advise", "applyWait", "writeWait"})

\* request_activity: read guards, the queued or active writer
ActivityReaders == In({"send", "listen", "complete"})
ActivityWriter  == In({"writeWait", "rebind", "sockWait", "readyWait"})

\* steering_apply_lock is held from the check of steering_pending to the return
ApplyHolder == ActivityWriter

\* a writer is queued on the socket lock; no task suspends while it holds it
SocketWriterQueued == In({"sockWait"}) # {}

\* The task goes to `where'. If it leaves as the activity writer (served or
\* still queued), the readers queued behind it are admitted.
Goto(r, where) ==
    LET leaves == r \in ActivityWriter /\ where = "idle"
    IN  pc' = [q \in Requests |->
                 IF q = r THEN where
                 ELSE IF leaves /\ pc[q] = "actWait" THEN "send" ELSE pc[q]]

-----------------------------------------------------------------------------
(* A request                                                               *)

Init ==
    /\ pc = [r \in Requests |-> "idle"]
    /\ reporting = {}
    /\ pending = FALSE
    /\ socket = 0 /\ epoch = 0 /\ ready = 0
    /\ routerPc = "load" /\ routerSock = NoSocket /\ routerEpoch = 0
    /\ sentOn = [r \in Requests |-> NoSocket]
    /\ inbox = {} /\ delivered = {}
    /\ advice = {} /\ cause = {}
    /\ left = NoSocket

\* request_activity.read(), at once or in the queue
Begin(r) ==
    /\ pc[r] = "idle"
    /\ Goto(r, IF ActivityWriter = {} THEN "send" ELSE "actWait")
    /\ sentOn' = [sentOn EXCEPT ![r] = NoSocket]
    /\ UNCHANGED <<reporting, routerVars, inbox, delivered, steerVars, sockVars>>

\* send_to_missing, at the head of a round
Send(r) ==
    /\ pc[r] = "send"
    /\ ~SocketWriterQueued
    /\ Goto(r, "listen")
    /\ sentOn' = [sentOn EXCEPT ![r] = socket]
    /\ UNCHANGED <<reporting, routerVars, inbox, delivered, steerVars, sockVars>>

\* The round's deadline passes: a replay round follows
Replay(r) ==
    /\ pc[r] = "listen"
    /\ Goto(r, "send")
    /\ UNCHANGED <<reporting, routerVars, netVars, steerVars, sockVars>>

\* _inflight_registration is dropped: the router drops later replies
Unregister(r) ==
    /\ inbox' = {m \in inbox : m.req # r}
    /\ delivered' = delivered \ {r}
    /\ UNCHANGED sentOn

\* The call returns, with a result or an error. Its guards and, wherever it
\* returns from, its registration are dropped.
Return(r) == Goto(r, "idle") /\ Unregister(r)

\* The request returns a timeout
TimeOut(r) ==
    /\ pc[r] = "listen"
    /\ Return(r)
    /\ UNCHANGED <<reporting, routerVars, steerVars, sockVars>>

\* A response is selected
Select(r) ==
    /\ pc[r] = "listen" /\ r \in delivered
    /\ Goto(r, "complete")
    /\ UNCHANGED <<reporting, routerVars, netVars, steerVars, sockVars>>

\* Completion delivery and the drop of the activity guard. The response asks
\* for another port (steer), and the request stays registered while it is
\* applied, or not.
Complete(r, steer) ==
    /\ pc[r] = "complete"
    /\ ~SocketWriterQueued
    /\ IF steer THEN Goto(r, "advise") /\ UNCHANGED netVars ELSE Return(r)
    /\ UNCHANGED <<reporting, routerVars, steerVars, sockVars>>

-----------------------------------------------------------------------------
(* apply_steering_feedback                                                 *)

\* Mutant: advice that meets a rebind under way returns at once
BugAdvise(r) ==
    /\ pc[r] = "advise"
    /\ Goto(r, IF ApplyHolder = {} THEN "applyWait" ELSE "idle")
    /\ pending' = TRUE
    /\ advice' = advice \cup {sentOn[r]}
    /\ UNCHANGED <<reporting, routerVars, netVars, cause, sockVars>>

Advise(r) ==
    /\ pc[r] = "advise"
    /\ Goto(r, "applyWait")
    /\ pending' = TRUE
    /\ advice' = advice \cup {sentOn[r]}
    /\ UNCHANGED <<reporting, routerVars, netVars, cause, sockVars>>

\* steering_apply_lock is granted: another request may have done the work
TakeApply(r) ==
    /\ pc[r] = "applyWait"
    /\ ApplyHolder = {}
    /\ IF pending THEN Goto(r, "writeWait") /\ UNCHANGED netVars ELSE Return(r)
    /\ UNCHANGED <<reporting, routerVars, steerVars, sockVars>>

\* Mutant: does not wait until the requests on the socket have drained
BugTakeWrite(r) ==
    /\ pc[r] = "writeWait"
    /\ Goto(r, "rebind")
    /\ pending' = FALSE /\ cause' = advice /\ advice' = {}
    /\ UNCHANGED <<reporting, routerVars, netVars, sockVars>>

\* Mutant: steering_pending is read and not reset
BugTakeWriteLoad(r) ==
    /\ pc[r] = "writeWait"
    /\ ActivityReaders = {}
    /\ IF pending THEN Goto(r, "rebind") /\ UNCHANGED netVars ELSE Return(r)
    /\ cause' = advice /\ advice' = {}
    /\ UNCHANGED <<pending, reporting, routerVars, sockVars>>

\* request_activity.write() is granted; swap of steering_pending
TakeWrite(r) ==
    /\ pc[r] = "writeWait"
    /\ ActivityReaders = {}
    /\ IF pending THEN Goto(r, "rebind") /\ UNCHANGED netVars ELSE Return(r)
    /\ pending' = FALSE /\ cause' = advice /\ advice' = {}
    /\ UNCHANGED <<reporting, routerVars, sockVars>>

\* bind_next_steering_socket succeeds
Bind(r) ==
    /\ pc[r] = "rebind"
    /\ socket < MaxSteers
    /\ Goto(r, "sockWait")
    /\ UNCHANGED <<reporting, routerVars, netVars, steerVars, sockVars>>

\* it fails, or the old socket has no address: the error is returned
BindFails(r) ==
    /\ pc[r] = "rebind"
    /\ Return(r)
    /\ UNCHANGED <<reporting, routerVars, steerVars, sockVars>>

\* socket.write() is granted: the new socket and the new epoch are published
Install(r) ==
    /\ pc[r] = "sockWait"
    /\ reporting = {}
    /\ Goto(r, "readyWait")
    /\ socket' = socket + 1
    /\ epoch' = epoch + 1
    /\ UNCHANGED <<reporting, routerVars, netVars, steerVars, left>>

\* The same, and then the new socket has no address: the error is returned
\* without waiting for the router
InstallErr(r) ==
    /\ pc[r] = "sockWait"
    /\ reporting = {}
    /\ Return(r)
    /\ socket' = socket + 1
    /\ epoch' = epoch + 1
    /\ left' = epoch + 1
    /\ UNCHANGED <<reporting, routerVars, steerVars>>

\* Mutant: does not wait for the router
BugConfirm(r) ==
    /\ pc[r] = "readyWait"
    /\ Return(r)
    /\ UNCHANGED <<reporting, routerVars, steerVars, sockVars>>

\* The router announced the new epoch
Confirm(r) ==
    /\ pc[r] = "readyWait"
    /\ ready = epoch
    /\ Return(r)
    /\ UNCHANGED <<reporting, routerVars, steerVars, sockVars>>

\* The caller drops the future at an await: every guard is dropped, nothing is
\* undone
Cancel(r) ==
    /\ MayCancel
    /\ pc[r] \notin {"idle", "advise"}
    /\ Return(r)
    /\ left' = IF pc[r] = "readyWait" THEN epoch ELSE left
    /\ UNCHANGED <<reporting, routerVars, steerVars, socket, epoch>>

-----------------------------------------------------------------------------
(* report_latency: the send loop holds socket.read() across its sends      *)

StartReport(p) ==
    /\ p \notin reporting
    /\ ~SocketWriterQueued
    /\ reporting' = reporting \cup {p}
    /\ UNCHANGED <<pc, routerVars, netVars, steerVars, sockVars>>

EndReport(p) ==
    /\ p \in reporting
    /\ reporting' = reporting \ {p}
    /\ UNCHANGED <<pc, routerVars, netVars, steerVars, sockVars>>

-----------------------------------------------------------------------------
(* response_router                                                         *)

\* Mutant: takes note of the new epoch and keeps the socket it has
BugRouterLoad ==
    /\ routerPc = "load"
    /\ ~SocketWriterQueued
    /\ routerPc' = "announce"
    /\ routerSock' = IF routerSock = NoSocket THEN socket ELSE routerSock
    /\ routerEpoch' = epoch
    /\ UNCHANGED <<pc, reporting, ready, netVars, steerVars, sockVars>>

\* Reads the socket and the epoch under one read guard. A socket that neither
\* the client nor the router holds is closed, its buffer lost.
RouterLoad ==
    /\ routerPc = "load"
    /\ ~SocketWriterQueued
    /\ routerPc' = "announce"
    /\ routerSock' = socket
    /\ routerEpoch' = epoch
    /\ inbox' = {m \in inbox : m.sock = socket}
    /\ UNCHANGED <<pc, reporting, ready, sentOn, delivered, steerVars, sockVars>>

\* Mutant: announces the epoch after the one it read
BugRouterAnnounce ==
    /\ routerPc = "announce"
    /\ routerPc' = "select"
    /\ ready' = routerEpoch + 1
    /\ UNCHANGED <<pc, reporting, routerSock, routerEpoch, netVars, steerVars, sockVars>>

RouterAnnounce ==
    /\ routerPc = "announce"
    /\ routerPc' = "select"
    /\ ready' = routerEpoch
    /\ UNCHANGED <<pc, reporting, routerSock, routerEpoch, netVars, steerVars, sockVars>>

\* recv_from yields a reply: it goes to the channel registered for its id
RouterRecv(r) ==
    /\ routerPc = "select"
    /\ [sock |-> routerSock, req |-> r] \in inbox
    /\ inbox' = inbox \ {[sock |-> routerSock, req |-> r]}
    /\ delivered' = delivered \cup {r}
    /\ routerPc' = "load"
    /\ UNCHANGED <<pc, reporting, ready, routerSock, routerEpoch, sentOn, steerVars, sockVars>>

\* recv_from yields an error, or a datagram of no registered request
RouterSkip ==
    /\ routerPc = "select"
    /\ routerPc' = "load"
    /\ UNCHANGED <<pc, reporting, ready, routerSock, routerEpoch, netVars, steerVars, sockVars>>

\* Mutant: the router is not woken by a new epoch
BugRouterChanged ==
    /\ FALSE
    /\ UNCHANGED vars

\* socket_epoch_rx.changed()
RouterChanged ==
    /\ routerPc = "select"
    /\ epoch # routerEpoch
    /\ routerPc' = "load"
    /\ UNCHANGED <<pc, reporting, ready, routerSock, routerEpoch, netVars, steerVars, sockVars>>

\* A server answers the last send of a request, to the port it came from, while
\* that socket is open and the request registered. A channel that holds a reply
\* is not told from one that holds more.
Answer(r) ==
    /\ pc[r] \notin {"idle", "actWait"} /\ r \notin delivered
    /\ sentOn[r] # NoSocket /\ sentOn[r] \in {socket, routerSock}
    /\ inbox' = inbox \cup {[sock |-> sentOn[r], req |-> r]}
    /\ UNCHANGED <<pc, reporting, routerVars, sentOn, delivered, steerVars, sockVars>>

-----------------------------------------------------------------------------
Step(r) ==
    \/ Send(r) \/ Select(r) \/ (\E steer \in BOOLEAN : Complete(r, steer))
    \/ Advise(r) \/ TakeWrite(r) \/ Bind(r) \/ BindFails(r) \/ Install(r)
    \/ InstallErr(r) \/ Confirm(r)

RouterStep == RouterLoad \/ RouterAnnounce \/ RouterChanged

Next ==
    \/ \E r \in Requests :
        \/ Begin(r) \/ Step(r) \/ Replay(r) \/ TimeOut(r) \/ TakeApply(r) \/ Cancel(r)
        \/ Answer(r) \/ RouterRecv(r)
    \/ \E p \in Reporters : StartReport(p) \/ EndReport(p)
    \/ RouterStep \/ RouterSkip

Spec == Init /\ [][Next]_vars

\* tokio polls every task that is ready. The buffer of a socket is a queue and
\* recv_from alternates between the two families, so a datagram in it is read
\* after finitely many others. Nothing is said of the requests' deadlines.
RouterSpec ==
    /\ Spec
    /\ \A r \in Requests : WF_vars(Step(r)) /\ SF_vars(RouterRecv(r))
    /\ \A p \in Reporters : WF_vars(EndReport(p))
    /\ WF_vars(RouterStep)

\* The rounds of a request are finite (HaRequest), and the apply lock is served
\* first come, first served
FairSpec ==
    /\ RouterSpec
    /\ \A r \in Requests : SF_vars(TimeOut(r)) /\ SF_vars(TakeApply(r))

-----------------------------------------------------------------------------
(* Properties                                                              *)

Places == {"idle", "actWait", "send", "listen", "complete", "advise", "applyWait",
           "writeWait", "rebind", "sockWait", "readyWait"}

TypeOK ==
    /\ pc \in [Requests -> Places]
    /\ reporting \subseteq Reporters
    /\ pending \in BOOLEAN
    /\ socket \in 0..MaxSteers /\ epoch \in 0..MaxSteers /\ ready \in 0..MaxSteers
    /\ routerPc \in {"load", "announce", "select"}
    /\ routerSock \in 0..NoSocket /\ routerEpoch \in 0..MaxSteers
    /\ sentOn \in [Requests -> 0..NoSocket]
    /\ inbox \subseteq [sock : 0..NoSocket, req : Requests]
    /\ delivered \subseteq Requests
    /\ advice \subseteq 0..NoSocket /\ cause \subseteq 0..NoSocket
    /\ left \in 0..NoSocket

\* The socket a request sent on is not replaced while the request is under way:
\* its replies go to a port that is still open.
SocketStable ==
    \A r \in ActivityReaders : sentOn[r] \in {socket, NoSocket}

\* Once the router has announced the current epoch it reads the current socket.
EpochAgrees ==
    ready = epoch => routerSock \in {socket, NoSocket}

\* No request runs while the router reads another socket than the one the
\* request sends on, unless the rebind to that socket was given up by its caller
\* or ended in an error before the router confirmed it.
RouterAttached ==
    ActivityReaders # {} => routerSock \in {socket, NoSocket} \/ left = epoch

\* If no caller gives up, advice that was stored is always in the hands of a
\* request that will act on it.
AdviceNotForgotten ==
    ~MayCancel /\ pending => In({"applyWait", "writeWait"}) # {}

\* Every request returns: draining, steering and new requests do not block
\* each other.
EveryRequestReturns == \A r \in Requests : pc[r] # "idle" ~> pc[r] = "idle"

\* A reply in the buffer of a request's socket reaches the request unless it
\* ends before, also across rebinds that were given up half-way.
ReplyReachesRequest ==
    \A r \in Requests :
        (\E m \in inbox : m.req = r) ~> (r \in delivered \/ pc[r] \notin {"send", "listen"})

\* A rebind answers advice about the socket it replaces: what client.rs says of
\* coalescing, that concurrent advice leads to one rebind.
AdviceIsCurrent ==
    In({"rebind"}) # {} => socket \in cause

\* The abstract view of the shared socket: a request is on the socket of its
\* last send while it holds its read guard of request_activity, a reporter
\* while it holds socket.read(). A reply counts while the request is on its
\* socket; one that comes while it applies steering goes to a channel nobody
\* reads any more. Advice is taken up by the swap of steering_pending.
on == [c \in Requests \cup Reporters |->
         IF c \in ActivityReaders THEN sentOn[c]
         ELSE IF c \in reporting THEN socket ELSE NoSocket]

S == INSTANCE SharedSocket WITH
        None      <- NoSocket,
        current   <- socket,
        heard     <- delivered \cap ActivityReaders,
        advised   <- pending,
        answering <- In({"rebind", "sockWait"}) # {}

\* Steering with its locks, its queues, its router and its cancelled requests
\* keeps the promise of SharedSocket: what a call hears while it is on a socket
\* came there, and the socket is replaced under no call, at most once for each
\* time steering_pending was set and swapped.
ImplementsSharedSocket == S!Spec
=============================================================================
