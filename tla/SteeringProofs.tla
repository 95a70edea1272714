---------------------------- MODULE SteeringProofs ----------------------------
(***************************************************************************)
(* Proofs about Steering for any number of requests, reporters and         *)
(* rebinds.                                                                *)
(***************************************************************************)
EXTENDS Steering, TLAPS

\* The locks do their work: one request at a time applies steering, no request
\* is under way while the socket is replaced, and one that is queued has not
\* sent anything.
LockInv ==
    /\ \A r, q \in Requests : r \in ActivityWriter /\ q \in ActivityWriter => r = q
    /\ \A r, q \in Requests :
        pc[r] \in {"rebind", "sockWait", "readyWait"} => q \notin ActivityReaders
    /\ \A r \in Requests : pc[r] = "actWait" => sentOn[r] = NoSocket

\* The epoch numbers the sockets; the router is behind the client, and what it
\* announced is behind the router.
EpochInv ==
    /\ socket = epoch
    /\ \A r \in Requests : pc[r] = "sockWait" => socket < MaxSteers
    /\ ready <= routerEpoch /\ routerEpoch <= epoch
    /\ routerEpoch = epoch => routerSock \in {socket, NoSocket}

\* A request waits for the router as long as the router is behind, unless the
\* last rebind was left before the router confirmed it.
WaitInv ==
    ready # epoch => left = epoch \/ \E r \in Requests : pc[r] = "readyWait"

IInv == TypeOK /\ LockInv /\ EpochInv /\ SocketStable /\ WaitInv /\ AdviceNotForgotten

-----------------------------------------------------------------------------
(* Moves of a request                                                      *)

\* What Goto does to a task: it moves, or it is a queued reader that is
\* admitted, or it stays.
LEMMA GotoMoves ==
    ASSUME TypeOK, NEW r \in Requests, NEW where \in Places, Goto(r, where)
    PROVE  /\ pc' \in [Requests -> Places]
           /\ pc'[r] = where
           /\ \A q \in Requests : q # r =>
                \/ pc'[q] = pc[q]
                \/ /\ pc[q] = "actWait" /\ pc'[q] = "send"
                   /\ r \in ActivityWriter /\ where = "idle"
<1> DEFINE leaves == r \in ActivityWriter /\ where = "idle"
<1>1. pc' = [q \in Requests |-> IF q = r THEN where
                               ELSE IF leaves /\ pc[q] = "actWait" THEN "send" ELSE pc[q]]
  BY Zenon DEF Goto
<1>2. "send" \in Places
  BY DEF Places
<1> QED
  BY <1>1, <1>2 DEF TypeOK

WriterPlaces  == {"writeWait", "rebind", "sockWait", "readyWait"}
HoldingPlaces == {"rebind", "sockWait", "readyWait"}
ReaderPlaces  == {"send", "listen", "complete"}

Exclusion ==
    /\ \A r, q \in Requests : pc[r] \in WriterPlaces /\ pc[q] \in WriterPlaces => r = q
    /\ \A r, q \in Requests : pc[r] \in HoldingPlaces => pc[q] \notin ReaderPlaces

\* The first two parts of LockInv, without the lock sets.
LEMMA ExclusionIsLockInv ==
    LockInv <=> Exclusion /\ \A r \in Requests : pc[r] = "actWait" => sentOn[r] = NoSocket
  BY DEF LockInv, Exclusion, ActivityWriter, ActivityReaders, In, WriterPlaces, HoldingPlaces,
         ReaderPlaces

\* A move keeps the exclusions when the task takes the write lock only if no one
\* else has it or waits for it and no reader is left, and a read lock only if no
\* writer has it or waits for it.
LEMMA MoveExclusion ==
    ASSUME TypeOK, Exclusion, NEW r \in Requests, NEW where \in Places, Goto(r, where),
           where \in WriterPlaces =>
               pc[r] \in WriterPlaces \/ \A q \in Requests : pc[q] \notin WriterPlaces,
           where \in HoldingPlaces =>
               pc[r] \in HoldingPlaces \/ \A q \in Requests : pc[q] \notin ReaderPlaces,
           where \in ReaderPlaces =>
               pc[r] \in ReaderPlaces \/ \A q \in Requests : pc[q] \notin WriterPlaces
    PROVE  Exclusion'
<1>1. /\ pc' \in [Requests -> Places]
      /\ pc'[r] = where
      /\ \A q \in Requests : q # r =>
            \/ pc'[q] = pc[q]
            \/ /\ pc[q] = "actWait" /\ pc'[q] = "send"
               /\ pc[r] \in WriterPlaces /\ where = "idle"
  BY GotoMoves DEF ActivityWriter, In, WriterPlaces
<1>2. /\ HoldingPlaces \subseteq WriterPlaces
      /\ "send" \notin WriterPlaces /\ "idle" \notin WriterPlaces \cup ReaderPlaces
      /\ WriterPlaces \cap ReaderPlaces = {}
  BY DEF HoldingPlaces, WriterPlaces, ReaderPlaces
<1>3. \A q \in Requests : q # r /\ pc'[q] \in WriterPlaces => pc[q] \in WriterPlaces /\ pc'[q] = pc[q]
  BY <1>1, <1>2
<1>4. \A p, q \in Requests : pc'[p] \in WriterPlaces /\ pc'[q] \in WriterPlaces => p = q
  BY <1>1, <1>2, <1>3 DEF Exclusion
<1>5. \A p, q \in Requests : pc'[p] \in HoldingPlaces => pc'[q] \notin ReaderPlaces
  <2> SUFFICES ASSUME NEW p \in Requests, NEW q \in Requests,
                      pc'[p] \in HoldingPlaces, pc'[q] \in ReaderPlaces
               PROVE  FALSE
    OBVIOUS
  <2>1. p # q
    BY <1>2
  <2>2. CASE p = r
    <3>1. pc'[q] = pc[q] /\ where \in HoldingPlaces
      BY <1>1, <1>2, <2>1, <2>2
    <3> QED
      BY <2>2, <3>1 DEF Exclusion
  <2>3. CASE p # r /\ q = r
    BY <1>1, <1>2, <1>3, <2>3 DEF Exclusion
  <2>4. CASE p # r /\ q # r
    <3>1. pc[p] \in HoldingPlaces /\ pc[p] \in WriterPlaces
      BY <1>2, <1>3, <2>4
    <3>2. pc'[q] = pc[q]
      BY <1>1, <2>4, <3>1 DEF Exclusion
    <3> QED
      BY <3>1, <3>2 DEF Exclusion
  <2> QED
    BY <2>2, <2>3, <2>4
<1> QED
  BY <1>4, <1>5 DEF Exclusion

\* A step of anything but a request leaves the tasks of the requests alone.
OtherStep ==
    \/ \E p \in Reporters : StartReport(p) \/ EndReport(p)
    \/ RouterStep \/ RouterSkip
    \/ \E r \in Requests : Answer(r) \/ RouterRecv(r)

-----------------------------------------------------------------------------
(* Locks                                                                   *)

\* Every step keeps the exclusions of the two locks.
LEMMA ExclusionStep ==
    ASSUME TypeOK, Exclusion, [Next]_vars
    PROVE  Exclusion'
<1> USE DEF WriterPlaces, HoldingPlaces, ReaderPlaces, Places, Return
<1>1. ASSUME UNCHANGED pc PROVE Exclusion'
  BY <1>1 DEF Exclusion
<1>2. CASE OtherStep \/ UNCHANGED vars
  BY <1>1, <1>2 DEF OtherStep, RouterStep, StartReport, EndReport, RouterLoad, RouterAnnounce,
                    RouterChanged, RouterSkip, Answer, RouterRecv, vars
<1>3. ASSUME NEW r \in Requests, Begin(r) PROVE Exclusion'
  <2>1. CASE ActivityWriter = {}
    <3>1. Goto(r, "send") /\ \A q \in Requests : pc[q] \notin WriterPlaces
      BY <1>3, <2>1 DEF Begin, ActivityWriter, In
    <3> QED
      BY <3>1, MoveExclusion
  <2>2. CASE ActivityWriter # {}
    <3>1. Goto(r, "actWait")
      BY <1>3, <2>2 DEF Begin
    <3> QED
      BY <3>1, MoveExclusion
  <2> QED
    BY <2>1, <2>2
<1>4. ASSUME NEW r \in Requests, Send(r) \/ Replay(r) \/ Select(r) PROVE Exclusion'
  <2>1. PICK where \in ReaderPlaces : Goto(r, where) /\ pc[r] \in ReaderPlaces
    BY <1>4 DEF Send, Replay, Select
  <2> QED
    BY <2>1, MoveExclusion
<1>5. ASSUME NEW r \in Requests,
             \/ TimeOut(r) \/ Advise(r) \/ BindFails(r) \/ InstallErr(r) \/ Confirm(r) \/ Cancel(r)
             \/ \E steer \in BOOLEAN : Complete(r, steer)
      PROVE  Exclusion'
  <2>1. PICK where \in {"idle", "advise", "applyWait"} : Goto(r, where)
    BY <1>5 DEF TimeOut, Advise, BindFails, InstallErr, Confirm, Cancel, Complete
  <2> QED
    BY <2>1, MoveExclusion
<1>6. ASSUME NEW r \in Requests, TakeApply(r) PROVE Exclusion'
  <2>1. \A q \in Requests : pc[q] \notin WriterPlaces
    BY <1>6 DEF TakeApply, ApplyHolder, ActivityWriter, In
  <2>2. PICK where \in {"writeWait", "idle"} : Goto(r, where)
    BY <1>6 DEF TakeApply
  <2> QED
    BY <2>1, <2>2, MoveExclusion
<1>7. ASSUME NEW r \in Requests, TakeWrite(r) PROVE Exclusion'
  <2>1. \A q \in Requests : pc[q] \notin ReaderPlaces
    BY <1>7 DEF TakeWrite, ActivityReaders, In
  <2>2. PICK where \in {"rebind", "idle"} : Goto(r, where) /\ pc[r] \in WriterPlaces
    BY <1>7 DEF TakeWrite
  <2> QED
    BY <2>1, <2>2, MoveExclusion
<1>8. ASSUME NEW r \in Requests, Bind(r) \/ Install(r) PROVE Exclusion'
  <2>1. PICK where \in HoldingPlaces : Goto(r, where) /\ pc[r] \in HoldingPlaces
    BY <1>8 DEF Bind, Install
  <2> QED
    BY <2>1, MoveExclusion
<1> QED
  BY <1>2, <1>3, <1>4, <1>5, <1>6, <1>7, <1>8 DEF Next, Step, OtherStep

-----------------------------------------------------------------------------
(* Types and epochs                                                        *)

\* In every step pc stays a function to places: a request moves, or nobody does.
LEMMA PcType ==
    ASSUME TypeOK, [Next]_vars
    PROVE  pc' \in [Requests -> Places]
<1> USE DEF Places, Return
<1>1. CASE OtherStep \/ UNCHANGED vars
  BY <1>1 DEF TypeOK, OtherStep, RouterStep, StartReport, EndReport, RouterLoad, RouterAnnounce,
              RouterChanged, RouterSkip, Answer, RouterRecv, vars
<1>2. CASE \E r \in Requests : \E where \in Places : Goto(r, where)
  BY <1>2, GotoMoves
<1>3. ASSUME NEW r \in Requests,
             \/ Begin(r) \/ Send(r) \/ Replay(r) \/ Select(r) \/ TimeOut(r) \/ Advise(r)
             \/ BindFails(r) \/ Confirm(r) \/ Cancel(r) \/ TakeApply(r) \/ TakeWrite(r)
             \/ Bind(r) \/ Install(r) \/ InstallErr(r)
             \/ \E steer \in BOOLEAN : Complete(r, steer)
      PROVE  \E where \in Places : Goto(r, where)
  BY <1>3 DEF Begin, Send, Replay, Select, TimeOut, Advise, BindFails, Confirm, Cancel, TakeApply,
              TakeWrite, Bind, Install, InstallErr, Complete
<1> QED
  BY <1>1, <1>2, <1>3 DEF Next, Step, OtherStep

\* Every step keeps the types, and the epochs in order.
LEMMA EpochStep ==
    ASSUME TypeOK, Exclusion, EpochInv, [Next]_vars
    PROVE  TypeOK' /\ EpochInv'
<1>1. pc' \in [Requests -> Places] /\ MaxSteers \in Nat /\ NoSocket = MaxSteers + 1
  BY PcType, ConfigAssumption DEF NoSocket
<1> USE <1>1 DEF netVars, routerVars, steerVars, sockVars
<1>un. ASSUME NEW r \in Requests, Unregister(r) \/ UNCHANGED netVars
       PROVE  /\ sentOn' = sentOn /\ delivered' \subseteq Requests
              /\ inbox' \subseteq [sock : 0..NoSocket, req : Requests]
  BY <1>un DEF Unregister, TypeOK
<1>2. ASSUME NEW r \in Requests, Install(r) \/ InstallErr(r) PROVE TypeOK' /\ EpochInv'
  <2>1. socket < MaxSteers
    BY <1>2 DEF Install, InstallErr, EpochInv
  <2>2. \A q \in Requests : pc'[q] # "sockWait"
    <3>1. pc[r] = "sockWait" /\ (Goto(r, "readyWait") \/ Goto(r, "idle"))
      BY <1>2 DEF Install, InstallErr, Return
    <3>2. \A q \in Requests : q # r => pc[q] # "sockWait"
      BY <3>1 DEF Exclusion, WriterPlaces
    <3> QED
      BY <3>1, <3>2, GotoMoves DEF Places
  <2>3. /\ socket' = socket + 1 /\ epoch' = epoch + 1 /\ left' \in {left, epoch + 1}
        /\ UNCHANGED <<reporting, ready, routerPc, routerSock, routerEpoch, pending, advice, cause>>
        /\ Unregister(r) \/ UNCHANGED netVars
    BY <1>2 DEF Install, InstallErr, Return
  <2>4. TypeOK'
    BY <1>un, <2>1, <2>3 DEF TypeOK, EpochInv
  <2>5. routerEpoch < epoch'
    BY <2>3 DEF TypeOK, EpochInv
  <2> QED
    BY <2>2, <2>3, <2>4, <2>5 DEF TypeOK, EpochInv
<1>3. ASSUME NEW r \in Requests, Bind(r) PROVE TypeOK' /\ EpochInv'
  BY <1>3 DEF TypeOK, EpochInv, Bind
<1>4. ASSUME UNCHANGED <<socket, epoch, ready, routerEpoch, routerSock>>,
             \A q \in Requests : pc'[q] = "sockWait" => pc[q] = "sockWait"
      PROVE  EpochInv'
  BY <1>4 DEF EpochInv
<1>5. ASSUME NEW r \in Requests, NEW where \in Places, Goto(r, where), where # "sockWait"
      PROVE  \A q \in Requests : pc'[q] = "sockWait" => pc[q] = "sockWait"
  BY <1>5, GotoMoves
<1>6. ASSUME NEW r \in Requests,
             Begin(r) \/ Send(r) \/ Replay(r) \/ Select(r)
      PROVE  TypeOK' /\ EpochInv'
  <2>1. PICK where \in Places : Goto(r, where) /\ where # "sockWait"
    BY <1>6 DEF Begin, Send, Replay, Select, Places
  <2>2. EpochInv'
    BY <1>4, <1>5, <1>6, <2>1 DEF Begin, Send, Replay, Select
  <2>3. sentOn' \in [Requests -> 0..NoSocket]
    <3>1. /\ socket \in 0..NoSocket /\ NoSocket \in 0..NoSocket
          /\ sentOn \in [Requests -> 0..NoSocket]
      BY DEF TypeOK
    <3>2. \/ sentOn' = sentOn \/ sentOn' = [sentOn EXCEPT ![r] = socket]
          \/ sentOn' = [sentOn EXCEPT ![r] = NoSocket]
      BY <1>6 DEF Begin, Send, Replay, Select
    <3> QED
      BY <3>1, <3>2
  <2>4. UNCHANGED <<reporting, routerVars, inbox, delivered, steerVars, sockVars>>
    BY <1>6 DEF Begin, Send, Replay, Select
  <2>5. TypeOK'
    BY <2>3, <2>4 DEF TypeOK
  <2> QED
    BY <2>2, <2>5
<1>7. ASSUME NEW r \in Requests,
             \/ TimeOut(r) \/ Cancel(r) \/ TakeApply(r) \/ BindFails(r) \/ Confirm(r)
             \/ \E steer \in BOOLEAN : Complete(r, steer)
      PROVE  TypeOK' /\ EpochInv'
  <2>1. PICK where \in Places : Goto(r, where) /\ where # "sockWait"
    BY <1>7 DEF TimeOut, Cancel, Complete, TakeApply, BindFails, Confirm, Places, Return
  <2>2. /\ UNCHANGED <<reporting, routerVars, steerVars, socket, epoch>> /\ left' \in {left, epoch}
        /\ Unregister(r) \/ UNCHANGED netVars
    BY <1>7 DEF TimeOut, Cancel, Complete, TakeApply, BindFails, Confirm, Return
  <2>3. EpochInv'
    BY <1>4, <1>5, <2>1, <2>2
  <2>4. TypeOK'
    BY <1>un, <2>2 DEF TypeOK
  <2> QED
    BY <2>3, <2>4
<1>8. ASSUME NEW r \in Requests, Advise(r) \/ TakeWrite(r) PROVE TypeOK' /\ EpochInv'
  <2>1. PICK where \in Places : Goto(r, where) /\ where # "sockWait"
    BY <1>8 DEF Advise, TakeWrite, Places, Return
  <2>2. /\ UNCHANGED <<reporting, routerVars, sockVars>>
        /\ Unregister(r) \/ UNCHANGED netVars
    BY <1>8 DEF Advise, TakeWrite, Return
  <2>3. EpochInv'
    BY <1>4, <1>5, <2>1, <2>2
  <2>4. pending' \in BOOLEAN /\ advice' \subseteq 0..NoSocket /\ cause' \subseteq 0..NoSocket
    BY <1>8 DEF TypeOK, Advise, TakeWrite
  <2>5. TypeOK'
    BY <1>un, <2>2, <2>4 DEF TypeOK
  <2> QED
    BY <2>3, <2>5
<1>9. CASE RouterLoad
  BY <1>9 DEF TypeOK, EpochInv, RouterLoad
<1>10. CASE RouterAnnounce \/ RouterChanged \/ RouterSkip
  <2>1. /\ ready' \in {ready, routerEpoch} /\ routerPc' \in {"load", "select"}
        /\ UNCHANGED <<pc, reporting, routerSock, routerEpoch, netVars, steerVars, sockVars>>
    BY <1>10 DEF RouterAnnounce, RouterChanged, RouterSkip
  <2>2. TypeOK'
    BY <2>1 DEF TypeOK
  <2>3. EpochInv'
    BY <2>1 DEF TypeOK, EpochInv
  <2> QED
    BY <2>2, <2>3
<1>11. ASSUME NEW r \in Requests, Answer(r) \/ RouterRecv(r) PROVE TypeOK' /\ EpochInv'
  <2>1. /\ UNCHANGED <<pc, reporting, ready, routerSock, routerEpoch, sentOn, steerVars, sockVars>>
        /\ routerPc' \in {routerPc, "load"}
        /\ delivered' \subseteq delivered \cup {r}
        /\ inbox' \subseteq inbox \cup {[sock |-> sentOn[r], req |-> r]}
    BY <1>11 DEF Answer, RouterRecv
  <2>2. [sock |-> sentOn[r], req |-> r] \in [sock : 0..NoSocket, req : Requests]
    BY DEF TypeOK
  <2>3. TypeOK'
    BY <2>1, <2>2 DEF TypeOK
  <2>4. EpochInv'
    BY <2>1 DEF EpochInv
  <2> QED
    BY <2>3, <2>4
<1>12. ASSUME NEW p \in Reporters, StartReport(p) \/ EndReport(p) PROVE TypeOK' /\ EpochInv'
  BY <1>12 DEF TypeOK, EpochInv, StartReport, EndReport
<1>13. CASE UNCHANGED vars
  BY <1>13 DEF TypeOK, EpochInv, vars
<1> QED
  BY <1>2, <1>3, <1>6, <1>7, <1>8, <1>9, <1>10, <1>11, <1>12, <1>13 DEF Next, Step, RouterStep

-----------------------------------------------------------------------------
(* The socket of a request                                                 *)

Stable ==
    /\ \A r \in Requests : pc[r] \in ReaderPlaces => sentOn[r] \in {socket, NoSocket}
    /\ \A r \in Requests : pc[r] = "actWait" => sentOn[r] = NoSocket

\* Every step keeps the socket of the requests under way. Install is the step
\* that matters: by Exclusion no request is under way when it is taken.
LEMMA StableStep ==
    ASSUME TypeOK, Exclusion, Stable, [Next]_vars
    PROVE  Stable'
<1> USE DEF ReaderPlaces, Places, netVars, routerVars, steerVars, sockVars, Return
<1>1. ASSUME UNCHANGED <<pc, sentOn, socket>> PROVE Stable'
  BY <1>1 DEF Stable
<1>2. CASE OtherStep \/ UNCHANGED vars
  BY <1>1, <1>2 DEF OtherStep, RouterStep, StartReport, EndReport, RouterLoad, RouterAnnounce,
                    RouterChanged, RouterSkip, Answer, RouterRecv, vars
<1>3. ASSUME NEW r \in Requests, NEW where \in Places, Goto(r, where),
             UNCHANGED <<sentOn, socket>>,
             where # "actWait" /\ (where \in ReaderPlaces => pc[r] \in ReaderPlaces)
      PROVE  Stable'
  <2>1. \A q \in Requests : pc'[q] \in ReaderPlaces => pc[q] \in ReaderPlaces \cup {"actWait"}
    BY <1>3, GotoMoves
  <2>2. \A q \in Requests : pc'[q] = "actWait" => pc[q] = "actWait"
    BY <1>3, GotoMoves
  <2> QED
    BY <1>3, <2>1, <2>2 DEF Stable
<1>4. ASSUME NEW r \in Requests,
             \/ Replay(r) \/ Select(r) \/ TimeOut(r) \/ Advise(r) \/ BindFails(r) \/ Confirm(r)
             \/ Cancel(r) \/ TakeApply(r) \/ TakeWrite(r) \/ Bind(r)
             \/ \E steer \in BOOLEAN : Complete(r, steer)
      PROVE  Stable'
  <2>1. UNCHANGED <<sentOn, socket>>
    BY <1>4 DEF Replay, Select, TimeOut, Advise, BindFails, Confirm, Cancel, TakeApply, TakeWrite,
                Bind, Complete, Unregister
  <2>2. PICK where \in Places : Goto(r, where) /\ where # "actWait"
                                /\ (where \in ReaderPlaces => pc[r] \in ReaderPlaces)
    BY <1>4 DEF Replay, Select, TimeOut, Advise, BindFails, Confirm, Cancel, TakeApply, TakeWrite,
                Bind, Complete
  <2> QED
    BY <1>3, <2>1, <2>2
<1>5. ASSUME NEW r \in Requests, Begin(r) \/ Send(r) PROVE Stable'
  <2>1. PICK where \in {"send", "actWait", "listen"} : Goto(r, where)
    BY <1>5 DEF Begin, Send
  <2>2. socket' = socket /\ \A q \in Requests : q # r => sentOn'[q] = sentOn[q]
    BY <1>5 DEF Begin, Send, TypeOK
  <2>3. sentOn'[r] \in {socket, NoSocket} /\ (pc'[r] = "actWait" => sentOn'[r] = NoSocket)
    <3>1. CASE Begin(r)
      BY <3>1 DEF Begin, TypeOK
    <3>2. CASE Send(r)
      BY <2>1, <3>2, GotoMoves DEF Send, TypeOK
    <3> QED
      BY <1>5, <3>1, <3>2
  <2>4. \A q \in Requests : q # r =>
            /\ pc'[q] \in ReaderPlaces => pc[q] \in ReaderPlaces \cup {"actWait"}
            /\ pc'[q] = "actWait" => pc[q] = "actWait"
    BY <2>1, GotoMoves
  <2> QED
    BY <2>2, <2>3, <2>4 DEF Stable
<1>6. ASSUME NEW r \in Requests, Install(r) \/ InstallErr(r) PROVE Stable'
  <2>1. PICK where \in {"readyWait", "idle"} :
            pc[r] = "sockWait" /\ Goto(r, where) /\ sentOn' = sentOn
    BY <1>6 DEF Install, InstallErr, Unregister
  <2>2. \A q \in Requests : pc[q] \notin ReaderPlaces
    BY <2>1 DEF Exclusion, HoldingPlaces
  <2>3. \A q \in Requests : pc'[q] \in ReaderPlaces \cup {"actWait"} => pc[q] = "actWait"
    BY <2>1, <2>2, GotoMoves
  <2> QED
    BY <2>1, <2>3 DEF Stable
<1> QED
  BY <1>2, <1>4, <1>5, <1>6 DEF Next, Step, OtherStep

-----------------------------------------------------------------------------
(* Waiting for the router, and for someone to act on advice                *)

\* Every step keeps a task waiting while the router is behind, if the last
\* rebind was not left, and without cancellation a task on its way to the rebind
\* while advice is pending.
LEMMA WaitStep ==
    ASSUME TypeOK, EpochInv, WaitInv, AdviceNotForgotten, [Next]_vars
    PROVE  WaitInv' /\ AdviceNotForgotten'
<1> USE DEF In, Places, netVars, routerVars, steerVars, sockVars, Return
<1>1. ASSUME UNCHANGED <<pc, pending, epoch, left>>, ready' \in {ready, routerEpoch}
      PROVE  WaitInv' /\ AdviceNotForgotten'
  <2>1. ready = epoch => ready' = epoch
    BY <1>1 DEF TypeOK, EpochInv
  <2> QED
    BY <1>1, <2>1 DEF WaitInv, AdviceNotForgotten
<1>2. CASE OtherStep \/ UNCHANGED vars
  BY <1>1, <1>2 DEF OtherStep, RouterStep, StartReport, EndReport, RouterLoad, RouterAnnounce,
                    RouterChanged, RouterSkip, Answer, RouterRecv, vars
<1>3. ASSUME NEW r \in Requests, NEW where \in Places, Goto(r, where),
             UNCHANGED <<pending, epoch, ready>>, left' \in {left, epoch},
             pc[r] = "readyWait" => ready = epoch \/ left' = epoch,
             ~MayCancel /\ pc[r] \in {"applyWait", "writeWait"} /\ pending =>
                 where \in {"applyWait", "writeWait"}
      PROVE  WaitInv' /\ AdviceNotForgotten'
  <2>1. /\ pc'[r] = where
        /\ \A q \in Requests : q # r /\ pc[q] # "actWait" => pc'[q] = pc[q]
    BY <1>3, GotoMoves
  <2>2. WaitInv'
    BY <1>3, <2>1 DEF WaitInv
  <2>3. AdviceNotForgotten'
    BY <1>3, <2>1 DEF AdviceNotForgotten
  <2> QED
    BY <2>2, <2>3
<1>4. ASSUME NEW r \in Requests,
             \/ Begin(r) \/ Send(r) \/ Replay(r) \/ Select(r) \/ TimeOut(r) \/ BindFails(r)
             \/ Confirm(r) \/ TakeApply(r) \/ Bind(r) \/ Cancel(r)
             \/ \E steer \in BOOLEAN : Complete(r, steer)
      PROVE  WaitInv' /\ AdviceNotForgotten'
  <2>1. UNCHANGED <<pending, epoch, ready>> /\ left' \in {left, epoch}
    BY <1>4 DEF Begin, Send, Replay, Select, TimeOut, BindFails, Confirm, TakeApply, Bind, Cancel,
                Complete
  <2>2. PICK where \in Places :
            /\ Goto(r, where)
            /\ pc[r] = "readyWait" => ready = epoch \/ left' = epoch
            /\ ~MayCancel /\ pc[r] \in {"applyWait", "writeWait"} /\ pending =>
                   where \in {"applyWait", "writeWait"}
    BY <1>4 DEF Begin, Send, Replay, Select, TimeOut, BindFails, Confirm, TakeApply, Bind, Cancel,
                Complete
  <2> QED
    BY <1>3, <2>1, <2>2
<1>5. ASSUME NEW r \in Requests, Advise(r) PROVE WaitInv' /\ AdviceNotForgotten'
  <2>1. /\ pc'[r] = "applyWait" /\ pc[r] = "advise" /\ UNCHANGED <<epoch, ready, left>>
        /\ \A q \in Requests : q # r /\ pc[q] # "actWait" => pc'[q] = pc[q]
    BY <1>5, GotoMoves DEF Advise
  <2> QED
    BY <2>1 DEF WaitInv, AdviceNotForgotten
<1>6. ASSUME NEW r \in Requests, TakeWrite(r) PROVE WaitInv' /\ AdviceNotForgotten'
  <2>1. PICK where \in {"rebind", "idle"} : Goto(r, where)
    BY <1>6 DEF TakeWrite
  <2>2. /\ pending' = FALSE /\ pc[r] = "writeWait" /\ UNCHANGED <<epoch, ready, left>>
        /\ \A q \in Requests : q # r /\ pc[q] # "actWait" => pc'[q] = pc[q]
    BY <1>6, <2>1, GotoMoves DEF TakeWrite
  <2> QED
    BY <2>2 DEF WaitInv, AdviceNotForgotten
<1>7. ASSUME NEW r \in Requests, Install(r) \/ InstallErr(r)
      PROVE  WaitInv' /\ AdviceNotForgotten'
  <2>1. PICK where \in {"readyWait", "idle"} :
            Goto(r, where) /\ (where = "readyWait" \/ left' = epoch')
    BY <1>7 DEF Install, InstallErr
  <2>2. /\ pc[r] = "sockWait" /\ pending' = pending /\ pc'[r] = where
        /\ \A q \in Requests : q # r /\ pc[q] # "actWait" => pc'[q] = pc[q]
    BY <1>7, <2>1, GotoMoves DEF Install, InstallErr
  <2> QED
    BY <2>1, <2>2 DEF WaitInv, AdviceNotForgotten
<1> QED
  BY <1>2, <1>4, <1>5, <1>6, <1>7 DEF Next, Step, OtherStep

-----------------------------------------------------------------------------
(* Theorems                                                                *)

\* The initial state satisfies the inductive invariant.
LEMMA InitInv == Init => IInv
<1> SUFFICES ASSUME Init PROVE IInv
  OBVIOUS
<1> USE ConfigAssumption DEF Init
<1>1. TypeOK
  <2>1. NoSocket \in 0..NoSocket /\ 0 \in 0..MaxSteers /\ NoSocket \in Nat
    BY DEF NoSocket
  <2>2. pc \in [Requests -> Places]
    BY DEF Places
  <2>3. sentOn \in [Requests -> 0..NoSocket]
    BY <2>1
  <2> QED
    BY <2>1, <2>2, <2>3 DEF TypeOK
<1>2. LockInv /\ SocketStable
  BY DEF LockInv, SocketStable, ActivityWriter, ActivityReaders, In
<1>3. EpochInv /\ WaitInv /\ AdviceNotForgotten
  BY DEF EpochInv, WaitInv, AdviceNotForgotten
<1> QED
  BY <1>1, <1>2, <1>3 DEF IInv

\* The invariant holds in every reachable state.
THEOREM Invariance == Spec => []IInv
<1>1. IInv /\ [Next]_vars => IInv'
  <2> SUFFICES ASSUME IInv, [Next]_vars PROVE IInv'
    OBVIOUS
  <2>1. Exclusion /\ Stable
    BY ExclusionIsLockInv DEF IInv, Stable, SocketStable, LockInv, ActivityReaders, In, ReaderPlaces
  <2>2. Exclusion'
    BY <2>1, ExclusionStep DEF IInv
  <2>3. TypeOK' /\ EpochInv'
    BY <2>1, EpochStep DEF IInv
  <2>4. Stable'
    BY <2>1, StableStep DEF IInv
  <2>5. LockInv' /\ SocketStable'
    BY <2>2, <2>4 DEF LockInv, Exclusion, Stable, SocketStable, ActivityReaders, ActivityWriter, In,
                      ReaderPlaces, WriterPlaces, HoldingPlaces
  <2>6. WaitInv' /\ AdviceNotForgotten'
    BY WaitStep DEF IInv
  <2> QED
    BY <2>3, <2>5, <2>6 DEF IInv
<1> QED
  BY InitInv, <1>1, PTL DEF Spec

\* Type correctness of steering.
THEOREM TypeCorrect == Spec => []TypeOK
<1>1. IInv => TypeOK
  BY DEF IInv
<1> QED
  BY Invariance, <1>1, PTL

\* The shared socket is never replaced under a request that has sent on it, for
\* any number of concurrent requests and cancellations (request_activity).
THEOREM SocketStability == Spec => []SocketStable
<1>1. IInv => SocketStable
  BY DEF IInv
<1> QED
  BY Invariance, <1>1, PTL

\* What the router announced is true: at the current epoch it reads the current
\* socket (the one read guard of response_router).
THEOREM AnnouncementTrue == Spec => []EpochAgrees
<1>1. IInv => EpochAgrees
  BY DEF IInv, EpochInv, EpochAgrees, TypeOK
<1> QED
  BY Invariance, <1>1, PTL

\* No request runs while the router reads another socket, unless the rebind to
\* its socket was given up or failed before the router confirmed it (the wait
\* for socket_epoch_ready under the write guard).
THEOREM RouterFollows == Spec => []RouterAttached
<1>1. IInv => RouterAttached
  <2> SUFFICES ASSUME IInv, ActivityReaders # {}, left # epoch
               PROVE  routerSock \in {socket, NoSocket}
    BY DEF RouterAttached
  <2>1. \A r \in Requests : pc[r] # "readyWait"
    BY DEF IInv, LockInv, ActivityReaders, In
  <2>2. ready = epoch
    BY <2>1 DEF IInv, WaitInv
  <2> QED
    BY <2>2 DEF IInv, EpochInv, TypeOK
<1> QED
  BY Invariance, <1>1, PTL

\* Without cancellation stored advice is never lost: some request that has not
\* yet swapped steering_pending holds or awaits the apply lock.
THEOREM AdviceKept == Spec => []AdviceNotForgotten
<1>1. IInv => AdviceNotForgotten
  BY DEF IInv
<1> QED
  BY Invariance, <1>1, PTL

-----------------------------------------------------------------------------
(* The abstract view                                                       *)

RegisteredPlaces == Places \ {"idle", "actWait"}

\* A reply waits in a buffer, or was delivered, only for a request that is
\* registered and sent on that socket: what Unregister and the reset of Begin
\* keep.
MailInv ==
    /\ \A m \in inbox :
        pc[m.req] \in RegisteredPlaces /\ m.sock = sentOn[m.req] /\ m.sock # NoSocket
    /\ \A r \in delivered : pc[r] \in RegisteredPlaces

\* Every step keeps replies with the requests they are for.
LEMMA MailStep ==
    ASSUME TypeOK, Stable, MailInv, [Next]_vars
    PROVE  MailInv'
<1> USE DEF Places, RegisteredPlaces, netVars, routerVars, steerVars, sockVars, Return
<1>1. \A m \in inbox : m.req \in Requests
  BY DEF TypeOK
<1>2. delivered \subseteq Requests
  BY DEF TypeOK
<1>3. ASSUME UNCHANGED <<pc, sentOn>>, inbox' \subseteq inbox, delivered' \subseteq delivered
      PROVE  MailInv'
  BY <1>3 DEF MailInv
<1>4. CASE RouterStep \/ RouterSkip \/ UNCHANGED vars \/ \E p \in Reporters : StartReport(p) \/ EndReport(p)
  BY <1>3, <1>4 DEF RouterStep, StartReport, EndReport, RouterLoad, RouterAnnounce,
                    RouterChanged, RouterSkip, vars
<1>5. ASSUME NEW r \in Requests, Answer(r) PROVE MailInv'
  BY <1>5 DEF MailInv, Answer, TypeOK
<1>6. ASSUME NEW r \in Requests, RouterRecv(r) PROVE MailInv'
  <2>1. pc[r] \in RegisteredPlaces
    BY <1>6 DEF MailInv, RouterRecv
  <2> QED
    BY <1>6, <2>1 DEF MailInv, RouterRecv
<1>7. ASSUME NEW r \in Requests, NEW where \in Places, Goto(r, where),
             inbox' \subseteq inbox, delivered' \subseteq delivered,
             \A m \in inbox' : sentOn'[m.req] = sentOn[m.req],
             \/ where \in RegisteredPlaces
             \/ r \notin delivered' /\ \A m \in inbox' : m.req # r
      PROVE  MailInv'
  <2>1. \A q \in Requests : q # r /\ pc[q] \in RegisteredPlaces => pc'[q] \in RegisteredPlaces
    BY <1>7, GotoMoves
  <2>2. pc'[r] = where
    BY <1>7, GotoMoves
  <2>3. \A m \in inbox' : pc'[m.req] \in RegisteredPlaces
    BY <1>1, <1>7, <2>1, <2>2 DEF MailInv
  <2>4. \A q \in delivered' : pc'[q] \in RegisteredPlaces
    BY <1>2, <1>7, <2>1, <2>2 DEF MailInv
  <2>5. \A m \in inbox' : m.sock = sentOn'[m.req] /\ m.sock # NoSocket
    BY <1>7 DEF MailInv
  <2> QED
    BY <2>3, <2>4, <2>5 DEF MailInv
<1>8. ASSUME NEW r \in Requests, pc[r] \notin RegisteredPlaces
      PROVE  r \notin delivered /\ \A m \in inbox : m.req # r
  BY <1>8 DEF MailInv
<1>9. ASSUME NEW r \in Requests, Begin(r) PROVE MailInv'
  <2>1. PICK where \in Places : Goto(r, where)
    BY <1>9 DEF Begin
  <2>2. pc[r] \notin RegisteredPlaces
    BY <1>9 DEF Begin
  <2>3. \A m \in inbox : m.req # r
    BY <1>8, <2>2
  <2>4. \A m \in inbox' : sentOn'[m.req] = sentOn[m.req]
    BY <1>1, <1>9, <2>3 DEF Begin, TypeOK
  <2>5. inbox' = inbox /\ delivered' = delivered
    BY <1>9 DEF Begin
  <2> QED
    BY <1>7, <1>8, <2>1, <2>2, <2>4, <2>5
<1>10. ASSUME NEW r \in Requests, Send(r) PROVE MailInv'
  <2>1. Goto(r, "listen") /\ inbox' = inbox /\ delivered' = delivered /\ pc[r] = "send"
    BY <1>10 DEF Send
  <2>2. \A m \in inbox' : sentOn'[m.req] = sentOn[m.req]
    <3> SUFFICES ASSUME NEW m \in inbox PROVE sentOn'[m.req] = sentOn[m.req]
      BY <2>1
    <3>1. CASE m.req # r
      BY <1>1, <1>10, <3>1 DEF Send, TypeOK
    <3>2. CASE m.req = r
      <4>1. sentOn[r] = socket
        BY <2>1, <3>2 DEF MailInv, Stable, ReaderPlaces
      <4> QED
        BY <1>10, <3>2, <4>1 DEF Send, TypeOK
    <3> QED
      BY <3>1, <3>2
  <2> QED
    BY <1>7, <2>1, <2>2
<1>11. ASSUME NEW r \in Requests, NEW where \in RegisteredPlaces, Goto(r, where), UNCHANGED netVars
       PROVE  MailInv'
  BY <1>7, <1>11
<1>12. ASSUME NEW r \in Requests, Return(r)
       PROVE  MailInv'
  BY <1>7, <1>12 DEF Unregister
<1>13. ASSUME NEW r \in Requests,
              \/ Replay(r) \/ Select(r) \/ Advise(r) \/ Bind(r) \/ Install(r)
       PROVE  MailInv'
  <2>1. PICK where \in RegisteredPlaces : Goto(r, where)
    BY <1>13 DEF Replay, Select, Advise, Bind, Install
  <2> QED
    BY <1>11, <1>13, <2>1 DEF Replay, Select, Advise, Bind, Install
<1>14. ASSUME NEW r \in Requests, TimeOut(r) \/ BindFails(r) \/ InstallErr(r) \/ Confirm(r) \/ Cancel(r)
       PROVE  MailInv'
  <2>1. Return(r)
    BY <1>14 DEF TimeOut, BindFails, InstallErr, Confirm, Cancel
  <2> QED
    BY <1>12, <2>1
<1>15. ASSUME NEW r \in Requests,
              TakeApply(r) \/ TakeWrite(r) \/ \E steer \in BOOLEAN : Complete(r, steer)
       PROVE  MailInv'
  <2>1. \/ Return(r)
        \/ UNCHANGED netVars /\ \E where \in RegisteredPlaces : Goto(r, where)
    BY <1>15 DEF TakeApply, TakeWrite, Complete
  <2> QED
    BY <1>11, <1>12, <2>1
<1> QED
  BY <1>4, <1>5, <1>6, <1>9, <1>10, <1>13, <1>14, <1>15 DEF Next, Step

Replacing == {"rebind", "sockWait"}

\* What the mapping makes of a request and of a reporter.
LEMMA OnIs ==
    ASSUME reporting \subseteq Reporters
    PROVE  /\ DOMAIN on = Requests \cup Reporters
           /\ on = [c \in Requests \cup Reporters |-> on[c]]
           /\ \A r \in Requests : on[r] = IF pc[r] \in ReaderPlaces THEN sentOn[r] ELSE NoSocket
           /\ \A p \in Reporters : on[p] = IF p \in reporting THEN socket ELSE NoSocket
  BY ConfigAssumption DEF on, ActivityReaders, In, ReaderPlaces

\* The same after a step.
LEMMA OnIsNext ==
    ASSUME reporting' \subseteq Reporters
    PROVE  /\ DOMAIN on' = Requests \cup Reporters
           /\ on' = [c \in Requests \cup Reporters |-> on'[c]]
           /\ \A r \in Requests : on'[r] = IF pc'[r] \in ReaderPlaces THEN sentOn'[r] ELSE NoSocket
           /\ \A p \in Reporters : on'[p] = IF p \in reporting' THEN socket' ELSE NoSocket
  BY ConfigAssumption DEF on, ActivityReaders, In, ReaderPlaces

\* A move of one request changes no other call's socket, a reader it admits
\* included, and no other request's part in replacing the socket.
LEMMA MoveOn ==
    ASSUME TypeOK, Stable, NEW r \in Requests, NEW where \in Places, Goto(r, where),
           UNCHANGED <<reporting, socket>>, \A q \in Requests : q # r => sentOn'[q] = sentOn[q]
    PROVE  /\ \A c \in Requests \cup Reporters : c # r => on'[c] = on[c]
           /\ on' = [on EXCEPT ![r] = on'[r]]
           /\ pc'[r] = where
           /\ \A q \in Requests : q # r => (pc'[q] \in Replacing <=> pc[q] \in Replacing)
<1>1. reporting \subseteq Reporters /\ reporting' \subseteq Reporters
  BY DEF TypeOK
<1>2. /\ pc'[r] = where
      /\ \A q \in Requests : q # r => \/ pc'[q] = pc[q]
                                      \/ pc[q] = "actWait" /\ pc'[q] = "send"
  BY GotoMoves
<1>3. \A q \in Requests : q # r => on'[q] = on[q]
  <2> SUFFICES ASSUME NEW q \in Requests, q # r PROVE on'[q] = on[q]
    OBVIOUS
  <2>1. CASE pc'[q] = pc[q]
    BY <1>1, <2>1, OnIs, OnIsNext
  <2>2. CASE pc[q] = "actWait" /\ pc'[q] = "send"
    BY <1>1, <2>2, OnIs, OnIsNext DEF Stable, ReaderPlaces
  <2> QED
    BY <1>2, <2>1, <2>2
<1>4. \A p \in Reporters : on'[p] = on[p]
  BY <1>1, OnIs, OnIsNext
<1>5. \A c \in Requests \cup Reporters : c # r => on'[c] = on[c]
  BY <1>3, <1>4
<1>6. on' = [on EXCEPT ![r] = on'[r]]
  BY <1>1, <1>5, OnIs, OnIsNext
<1>7. \A q \in Requests : q # r => (pc'[q] \in Replacing <=> pc[q] \in Replacing)
  BY <1>2 DEF Replacing
<1> QED
  BY <1>2, <1>5, <1>6, <1>7

\* Every step of steering is a step of the shared socket or a stutter.
LEMMA StepRefines ==
    ASSUME TypeOK, TypeOK', Exclusion, Stable, MailInv, [Next]_vars
    PROVE  [S!Next]_(S!vars)
<1> DEFINE answering == In({"rebind", "sockWait"}) # {}
           heard == delivered \cap ActivityReaders
<1>ty. reporting \subseteq Reporters /\ reporting' \subseteq Reporters /\ MaxSteers \in Nat
  BY ConfigAssumption DEF TypeOK
<1>an. /\ answering <=> \E r \in Requests : pc[r] \in Replacing
       /\ answering' <=> \E r \in Requests : pc'[r] \in Replacing
  BY DEF In, Replacing
<1>ab. answering \in BOOLEAN /\ answering' \in BOOLEAN
  OBVIOUS
<1>on. S!Calls = Requests \cup Reporters
  BY DEF S!Calls
<1>st. ASSUME UNCHANGED <<socket, on, heard, pending>>, answering' = answering
       PROVE  [S!Next]_(S!vars)
  BY <1>st DEF S!vars
<1>en. ASSUME NEW c \in Requests \cup Reporters, on[c] \in {NoSocket, socket},
              on' = [on EXCEPT ![c] = socket],
              UNCHANGED <<socket, heard, pending>>, answering' = answering
       PROVE  [S!Next]_(S!vars)
  BY <1>en, <1>on DEF S!Next, S!Enter
<1>le. ASSUME NEW c \in Requests \cup Reporters, on' = [on EXCEPT ![c] = NoSocket],
              heard' = heard \ {c}, UNCHANGED <<socket, pending>>, answering' = answering
       PROVE  [S!Next]_(S!vars)
  BY <1>le, <1>on DEF S!Next, S!Leave
<1>he. ASSUME NEW r \in Requests, on[r] = socket, heard' = heard \cup {r},
              UNCHANGED <<socket, on, pending>>, answering' = answering
       PROVE  [S!Next]_(S!vars)
  BY <1>he DEF S!Next, S!Hear
<1>ad. ASSUME pending' = TRUE, UNCHANGED <<socket, on, heard>>, answering' = answering
       PROVE  [S!Next]_(S!vars)
  BY <1>ad DEF S!Next, S!Advise
<1>tu. ASSUME pending, ~answering, pending' = FALSE, answering' = TRUE,
              UNCHANGED <<socket, on, heard>>
       PROVE  [S!Next]_(S!vars)
  BY <1>tu DEF S!Next, S!TakeUp
<1>re. ASSUME answering, \A c \in Requests \cup Reporters : on[c] = NoSocket,
              socket' = socket + 1, answering' = FALSE, UNCHANGED <<on, heard, pending>>
       PROVE  [S!Next]_(S!vars)
  BY <1>re, <1>on DEF S!Next, S!Replace
<1>gu. ASSUME answering, answering' = FALSE, UNCHANGED <<socket, on, heard, pending>>
       PROVE  [S!Next]_(S!vars)
  BY <1>gu DEF S!Next, S!GiveUp
<1>hd. /\ heard = {r \in delivered : pc[r] \in ReaderPlaces}
       /\ heard' = {r \in delivered' : pc'[r] \in ReaderPlaces}
  BY DEF TypeOK, ActivityReaders, In, ReaderPlaces
<1> HIDE DEF answering, heard
<1> USE DEF netVars, routerVars, steerVars, sockVars, Return
<1>hs. ASSUME NEW r \in Requests, NEW where \in Places, Goto(r, where),
              delivered' = delivered \/ delivered' = delivered \ {r},
              pc[r] \notin ReaderPlaces /\ (where \in ReaderPlaces => r \notin delivered)
       PROVE  heard' = heard
  <2>1. \A q \in delivered : q \in Requests /\ pc[q] # "actWait"
    BY DEF TypeOK, MailInv, RegisteredPlaces
  <2>2. pc'[r] = where /\ \A q \in delivered : q # r => pc'[q] = pc[q]
    BY <1>hs, <2>1, GotoMoves
  <2> QED
    BY <1>hd, <1>hs, <2>2
<1>hk. ASSUME NEW r \in Requests, NEW where \in Places, Goto(r, where), UNCHANGED delivered,
              pc[r] \in ReaderPlaces, where \in ReaderPlaces
       PROVE  heard' = heard
  <2>1. \A q \in delivered : q \in Requests /\ pc[q] # "actWait"
    BY DEF TypeOK, MailInv, RegisteredPlaces
  <2>2. pc'[r] = where /\ \A q \in delivered : q # r => pc'[q] = pc[q]
    BY <1>hk, <2>1, GotoMoves
  <2> QED
    BY <1>hd, <1>hk, <2>2
<1>hl. ASSUME NEW r \in Requests, NEW where \in Places, Goto(r, where), where \notin ReaderPlaces,
              delivered' = delivered \/ delivered' = delivered \ {r}
       PROVE  heard' = heard \ {r}
  <2>1. \A q \in delivered : q \in Requests /\ pc[q] # "actWait"
    BY DEF TypeOK, MailInv, RegisteredPlaces
  <2>2. pc'[r] = where /\ \A q \in delivered : q # r => pc'[q] = pc[q]
    BY <1>hl, <2>1, GotoMoves
  <2> QED
    BY <1>hd, <1>hl, <2>2
<1>un. ASSUME NEW r \in Requests, Unregister(r) \/ UNCHANGED netVars
       PROVE  sentOn' = sentOn /\ (delivered' = delivered \/ delivered' = delivered \ {r})
  BY <1>un DEF Unregister
<1>1. ASSUME UNCHANGED <<pc, sentOn, reporting, socket>>
      PROVE  on' = on /\ answering' = answering /\ (delivered' = delivered => heard' = heard)
  <2>1. on' = on
    BY <1>1 DEF on, ActivityReaders, In
  <2>2. answering' = answering
    BY <1>1 DEF answering, In
  <2> QED
    BY <1>1, <1>hd, <2>1, <2>2
<1>2. CASE RouterStep \/ RouterSkip \/ UNCHANGED vars \/ \E r \in Requests : Answer(r)
  <2>1. UNCHANGED <<pc, sentOn, reporting, socket, delivered, pending>>
    BY <1>2 DEF RouterStep, RouterLoad, RouterAnnounce, RouterChanged, RouterSkip, Answer, vars
  <2> QED
    BY <1>1, <1>st, <2>1
<1>3. ASSUME NEW r \in Requests, RouterRecv(r) PROVE [S!Next]_(S!vars)
  <2>1. UNCHANGED <<pc, sentOn, reporting, socket, pending>> /\ delivered' = delivered \cup {r}
    BY <1>3 DEF RouterRecv
  <2>2. CASE pc[r] \in ReaderPlaces
    <3>1. sentOn[r] # NoSocket
      BY <1>3 DEF RouterRecv, MailInv
    <3>2. on[r] = socket
      BY <1>ty, <2>2, <3>1, OnIs DEF Stable
    <3>3. heard' = heard \cup {r}
      BY <1>hd, <2>1, <2>2
    <3> QED
      BY <1>1, <1>he, <2>1, <3>2, <3>3
  <2>3. CASE pc[r] \notin ReaderPlaces
    <3>1. heard' = heard
      BY <1>hd, <2>1, <2>3
    <3> QED
      BY <1>1, <1>st, <2>1, <3>1
  <2> QED
    BY <2>2, <2>3
<1>4. ASSUME NEW p \in Reporters, StartReport(p) \/ EndReport(p) PROVE [S!Next]_(S!vars)
  <2>1. UNCHANGED <<pc, sentOn, socket, delivered, pending>>
    BY <1>4 DEF StartReport, EndReport
  <2>h. heard' = heard
    BY <1>hd, <2>1
  <2>2. answering' = answering
    BY <2>1 DEF answering, In
  <2>3. \A r \in Requests : on'[r] = on[r] /\ r # p
    BY <1>ty, <2>1, OnIs, OnIsNext, ConfigAssumption
  <2>4. p \notin heard
    BY <1>hd, ConfigAssumption DEF TypeOK
  <2>5. CASE StartReport(p)
    <3>1. reporting' = reporting \cup {p}
      BY <2>5 DEF StartReport
    <3>2. on' = [on EXCEPT ![p] = socket] /\ on[p] \in {NoSocket, socket}
      BY <1>ty, <2>1, <2>3, <3>1, OnIs, OnIsNext
    <3> QED
      BY <1>en, <2>1, <2>2, <2>h, <3>2
  <2>6. CASE EndReport(p)
    <3>1. reporting' = reporting \ {p}
      BY <2>6 DEF EndReport
    <3>2. on' = [on EXCEPT ![p] = NoSocket]
      BY <1>ty, <2>1, <2>3, <3>1, OnIs, OnIsNext
    <3> QED
      BY <1>le, <2>1, <2>2, <2>4, <2>h, <3>2
  <2> QED
    BY <1>4, <2>5, <2>6
<1>5. ASSUME NEW r \in Requests, NEW where \in Places, Goto(r, where),
             UNCHANGED <<reporting, socket>>, \A q \in Requests : q # r => sentOn'[q] = sentOn[q],
             pc[r] \in Replacing <=> where \in Replacing
      PROVE  answering' = answering
  BY <1>5, <1>an, <1>ab, MoveOn
<1>6. ASSUME NEW r \in Requests, Begin(r) PROVE [S!Next]_(S!vars)
  <2>1. PICK where \in {"send", "actWait"} : Goto(r, where)
    BY <1>6 DEF Begin
  <2>2. /\ UNCHANGED <<reporting, socket, delivered, pending>> /\ pc[r] = "idle"
        /\ sentOn'[r] = NoSocket /\ \A q \in Requests : q # r => sentOn'[q] = sentOn[q]
    BY <1>6 DEF Begin, TypeOK
  <2>3. on[r] = NoSocket /\ on'[r] = NoSocket
    BY <1>ty, <2>2, OnIs, OnIsNext DEF ReaderPlaces
  <2>4. on' = on /\ answering' = answering
    BY <1>5, <1>ty, <2>1, <2>2, <2>3, MoveOn, OnIs DEF Places, Replacing
  <2>5. r \notin delivered
    BY <2>2 DEF MailInv, RegisteredPlaces
  <2>6. heard' = heard
    BY <1>hs, <2>1, <2>2, <2>5 DEF Places, ReaderPlaces
  <2> QED
    BY <1>st, <2>2, <2>4, <2>6
<1>7. ASSUME NEW r \in Requests, Send(r) PROVE [S!Next]_(S!vars)
  <2>1. /\ UNCHANGED <<reporting, socket, delivered, pending>> /\ pc[r] = "send" /\ Goto(r, "listen")
        /\ sentOn'[r] = socket /\ \A q \in Requests : q # r => sentOn'[q] = sentOn[q]
    BY <1>7 DEF Send, TypeOK
  <2>2. on[r] \in {NoSocket, socket}
    BY <1>ty, <2>1, OnIs DEF Stable
  <2>3. pc'[r] = "listen"
    BY <2>1, GotoMoves DEF Places
  <2>4. on'[r] = socket
    BY <1>ty, <2>1, <2>3, OnIsNext DEF ReaderPlaces
  <2>5. on' = [on EXCEPT ![r] = socket] /\ answering' = answering
    BY <1>5, <2>1, <2>4, MoveOn DEF Places, Replacing
  <2>6. heard' = heard
    BY <1>hk, <2>1 DEF Places, ReaderPlaces
  <2> QED
    BY <1>en, <2>1, <2>2, <2>5, <2>6
<1>8. ASSUME NEW r \in Requests, NEW where \in Places, Goto(r, where),
             UNCHANGED <<sentOn, reporting, socket>>,
             pc[r] \in ReaderPlaces <=> where \in ReaderPlaces
      PROVE  on' = on
  <2>1. pc'[r] = where
    BY <1>8, GotoMoves
  <2>2. on'[r] = on[r]
    BY <1>8, <1>ty, <2>1, OnIs, OnIsNext
  <2> QED
    BY <1>8, <1>ty, <2>2, MoveOn, OnIs
<1>hq. ASSUME NEW r \in Requests, NEW where \in Places, Goto(r, where),
              delivered' = delivered \/ (pc[r] \notin ReaderPlaces /\ delivered' = delivered \ {r}),
              pc[r] \in ReaderPlaces <=> where \in ReaderPlaces
       PROVE  heard' = heard
  BY <1>hq, <1>hs, <1>hk
<1>9. ASSUME NEW r \in Requests, Replay(r) \/ Select(r) \/ Bind(r) PROVE [S!Next]_(S!vars)
  <2>1. UNCHANGED <<sentOn, reporting, socket, delivered, pending>>
    BY <1>9 DEF Replay, Select, Bind
  <2>2. PICK where \in Places : /\ Goto(r, where)
                                /\ pc[r] \in ReaderPlaces <=> where \in ReaderPlaces
                                /\ pc[r] \in Replacing <=> where \in Replacing
    BY <1>9 DEF Replay, Select, Bind, Places, ReaderPlaces, Replacing
  <2> QED
    BY <1>5, <1>8, <1>hq, <1>st, <2>1, <2>2
<1>re2. ASSUME NEW r \in Requests, Unregister(r) \/ UNCHANGED netVars, NEW where \in Places,
               Goto(r, where), UNCHANGED <<reporting, socket, pending>>,
               pc[r] \notin ReaderPlaces \cup Replacing, where \notin ReaderPlaces \cup Replacing
        PROVE  [S!Next]_(S!vars)
  <2>1. sentOn' = sentOn /\ (delivered' = delivered \/ delivered' = delivered \ {r})
    BY <1>un, <1>re2
  <2>2. heard' = heard
    BY <1>hq, <1>re2, <2>1
  <2>3. on' = on /\ answering' = answering
    BY <1>5, <1>8, <1>re2, <2>1
  <2> QED
    BY <1>st, <1>re2, <2>2, <2>3
<1>10. ASSUME NEW r \in Requests, NEW where \in Places, Goto(r, where),
              Unregister(r) \/ UNCHANGED netVars,
              UNCHANGED <<reporting, socket, pending>>,
              pc[r] \in ReaderPlaces, where \notin ReaderPlaces \cup Replacing
       PROVE  [S!Next]_(S!vars)
  <2>1. sentOn' = sentOn /\ (delivered' = delivered \/ delivered' = delivered \ {r})
    BY <1>un, <1>10
  <2>2. on'[r] = NoSocket
    BY <1>10, <1>ty, OnIsNext, GotoMoves
  <2>3. pc[r] \notin Replacing
    BY <1>10 DEF ReaderPlaces, Replacing
  <2>4. on' = [on EXCEPT ![r] = NoSocket] /\ answering' = answering
    BY <1>5, <1>10, <2>1, <2>2, <2>3, MoveOn
  <2>5. heard' = heard \ {r}
    BY <1>hl, <1>10, <2>1
  <2> QED
    BY <1>10, <1>le, <2>4, <2>5
<1>11. ASSUME NEW r \in Requests, TimeOut(r) \/ \E steer \in BOOLEAN : Complete(r, steer)
       PROVE  [S!Next]_(S!vars)
  <2>1. PICK where \in Places : Goto(r, where) /\ where \notin ReaderPlaces \cup Replacing
    BY <1>11 DEF TimeOut, Complete, Places, ReaderPlaces, Replacing
  <2>2. /\ Unregister(r) \/ UNCHANGED netVars
        /\ pc[r] \in ReaderPlaces /\ UNCHANGED <<reporting, socket, pending>>
    BY <1>11 DEF TimeOut, Complete, ReaderPlaces
  <2> QED
    BY <1>10, <2>1, <2>2
<1>ta. ASSUME NEW r \in Requests, TakeApply(r) \/ Confirm(r) PROVE [S!Next]_(S!vars)
  <2>1. PICK where \in Places : Goto(r, where) /\ where \notin ReaderPlaces \cup Replacing
    BY <1>ta DEF TakeApply, Confirm, Places, ReaderPlaces, Replacing
  <2>2. /\ Unregister(r) \/ UNCHANGED netVars
        /\ pc[r] \notin ReaderPlaces \cup Replacing /\ UNCHANGED <<reporting, socket, pending>>
    BY <1>ta DEF TakeApply, Confirm, ReaderPlaces, Replacing
  <2> QED
    BY <1>re2, <2>1, <2>2
<1>12. ASSUME NEW r \in Requests, Advise(r) PROVE [S!Next]_(S!vars)
  <2>1. /\ Goto(r, "applyWait") /\ pc[r] = "advise" /\ pending' = TRUE
        /\ UNCHANGED <<sentOn, reporting, socket, delivered>>
    BY <1>12 DEF Advise
  <2>2. "applyWait" \in Places /\ {"advise", "applyWait"} \cap (ReaderPlaces \cup Replacing) = {}
    BY DEF Places, ReaderPlaces, Replacing
  <2>3. on' = on /\ answering' = answering /\ heard' = heard
    BY <1>5, <1>8, <1>hq, <2>1, <2>2
  <2> QED
    BY <1>ad, <2>1, <2>3
<1>13. ASSUME NEW r \in Requests, TakeWrite(r) PROVE [S!Next]_(S!vars)
  <2>1. /\ pc[r] = "writeWait" /\ pending' = FALSE /\ UNCHANGED <<reporting, socket>>
        /\ IF pending THEN Goto(r, "rebind") /\ UNCHANGED netVars
                      ELSE Goto(r, "idle") /\ Unregister(r)
    BY <1>13 DEF TakeWrite
  <2>2. /\ {"rebind", "idle"} \subseteq Places
        /\ {"writeWait", "rebind", "idle"} \cap ReaderPlaces = {}
        /\ {"writeWait", "idle"} \cap Replacing = {} /\ "rebind" \in Replacing
    BY DEF Places, ReaderPlaces, Replacing
  <2>3. CASE pending
    <3>1. Goto(r, "rebind")
      BY <2>1, <2>3
    <3>2. on' = on /\ heard' = heard
      BY <1>8, <1>hq, <2>1, <2>2, <2>3, <3>1
    <3>3. answering' = TRUE
      BY <1>an, <1>ab, <2>1, <2>2, <3>1, GotoMoves
    <3>4. ~answering
      BY <1>an, <2>1 DEF Exclusion, WriterPlaces, Replacing
    <3> QED
      BY <1>tu, <2>1, <2>3, <3>2, <3>3, <3>4
  <2>4. CASE ~pending
    <3>1. Goto(r, "idle") /\ Unregister(r)
      BY <2>1, <2>4
    <3>2. pending' = pending
      BY <2>1, <2>4 DEF TypeOK
    <3> QED
      BY <1>re2, <2>1, <2>2, <3>1, <3>2
  <2> QED
    BY <2>3, <2>4
<1>14. ASSUME NEW r \in Requests, NEW where \in Places, Goto(r, where), pc[r] \in Replacing,
              where \notin Replacing
       PROVE  answering /\ answering' = FALSE
  <2>1. answering
    BY <1>an, <1>14
  <2>2. \A q \in Requests : q # r => pc[q] \notin Replacing
    BY <1>14 DEF Exclusion, WriterPlaces, Replacing
  <2>3. \A q \in Requests : pc'[q] \notin Replacing
    BY <1>14, <2>2, GotoMoves DEF Replacing
  <2> QED
    BY <1>an, <1>ab, <2>1, <2>3
<1>15. ASSUME NEW r \in Requests, Return(r), pc[r] \in Replacing,
              UNCHANGED <<reporting, socket, pending>>
       PROVE  [S!Next]_(S!vars)
  <2>1. /\ "idle" \in Places /\ "idle" \notin Replacing /\ "idle" \notin ReaderPlaces
        /\ pc[r] \notin ReaderPlaces
    BY <1>15 DEF Places, Replacing, ReaderPlaces
  <2>2. Goto(r, "idle") /\ sentOn' = sentOn /\ (delivered' = delivered \/ delivered' = delivered \ {r})
    BY <1>un, <1>15
  <2>3. on' = on /\ heard' = heard
    BY <1>8, <1>hq, <1>15, <2>1, <2>2
  <2>4. answering /\ answering' = FALSE
    BY <1>14, <1>15, <2>1, <2>2
  <2> QED
    BY <1>gu, <1>15, <2>3, <2>4
<1>16. ASSUME NEW r \in Requests, BindFails(r) PROVE [S!Next]_(S!vars)
  BY <1>15, <1>16 DEF BindFails, Replacing
<1>17. ASSUME NEW r \in Requests, Install(r) \/ InstallErr(r) PROVE [S!Next]_(S!vars)
  <2>1. /\ pc[r] = "sockWait" /\ reporting = {} /\ socket' = socket + 1
        /\ UNCHANGED <<reporting, pending>>
        /\ Unregister(r) \/ UNCHANGED netVars
    BY <1>17 DEF Install, InstallErr
  <2>2. PICK where \in {"readyWait", "idle"} : Goto(r, where)
    BY <1>17 DEF Install, InstallErr
  <2>3. /\ where \in Places /\ where \notin ReaderPlaces \cup Replacing
        /\ pc[r] \notin ReaderPlaces /\ pc[r] \in Replacing
    BY <2>1 DEF Places, ReaderPlaces, Replacing
  <2>4. \A q \in Requests : pc[q] \notin ReaderPlaces
    BY <2>1 DEF Exclusion, HoldingPlaces
  <2>5. \A c \in Requests \cup Reporters : on[c] = NoSocket
    BY <1>ty, <2>1, <2>4, OnIs
  <2>6. sentOn' = sentOn /\ (delivered' = delivered \/ delivered' = delivered \ {r})
    BY <1>un, <2>1
  <2>7. \A q \in Requests : pc'[q] \in ReaderPlaces => pc[q] = "actWait"
    BY <2>2, <2>3, <2>4, GotoMoves
  <2>8. \A c \in Requests \cup Reporters : on'[c] = NoSocket
    BY <1>ty, <2>1, <2>6, <2>7, OnIsNext DEF Stable
  <2>9. on' = on
    BY <1>ty, <2>5, <2>8, OnIs, OnIsNext
  <2>10. heard' = heard
    BY <1>hq, <2>2, <2>3, <2>6
  <2>11. answering /\ answering' = FALSE
    BY <1>14, <2>2, <2>3
  <2> QED
    BY <1>re, <2>1, <2>5, <2>9, <2>10, <2>11
<1>18. ASSUME NEW r \in Requests, Cancel(r) PROVE [S!Next]_(S!vars)
  <2>1. Return(r) /\ Goto(r, "idle") /\ Unregister(r) /\ UNCHANGED <<reporting, socket, pending>>
    BY <1>18 DEF Cancel
  <2>2. "idle" \in Places /\ "idle" \notin ReaderPlaces \cup Replacing
    BY DEF Places, ReaderPlaces, Replacing
  <2>3. CASE pc[r] \in ReaderPlaces
    BY <1>10, <2>1, <2>2, <2>3
  <2>4. CASE pc[r] \in Replacing
    BY <1>15, <2>1, <2>4
  <2>5. CASE pc[r] \notin ReaderPlaces \cup Replacing
    BY <1>re2, <2>1, <2>2, <2>5
  <2> QED
    BY <2>3, <2>4, <2>5
<1> HIDE DEF netVars, routerVars, steerVars, sockVars, Return
<1> QED
  BY <1>2, <1>3, <1>4, <1>6, <1>7, <1>9, <1>11, <1>ta, <1>12, <1>13, <1>16, <1>17, <1>18
     DEF Next, Step

\* Steering implements the shared socket, for any number of requests, reporters
\* and rebinds and with every request cancelled at any await.
THEOREM SharedSocketImplemented == Spec => ImplementsSharedSocket
<1>1. Init => MailInv /\ S!Init
  <2> SUFFICES ASSUME Init PROVE MailInv /\ S!Init
    OBVIOUS
  <2>1. MailInv
    BY DEF Init, MailInv
  <2>2. S!Init
    BY DEF Init, S!Init, S!Calls, on, ActivityReaders, In
  <2> QED
    BY <2>1, <2>2
<1>2. IInv /\ MailInv /\ [Next]_vars => MailInv'
  BY MailStep DEF IInv, LockInv, SocketStable, Stable, ActivityReaders, In, ReaderPlaces
<1>3. IInv /\ IInv' /\ MailInv /\ [Next]_vars => [S!Next]_(S!vars)
  <2> SUFFICES ASSUME IInv, IInv', MailInv, [Next]_vars PROVE [S!Next]_(S!vars)
    OBVIOUS
  <2>1. TypeOK /\ TypeOK' /\ Exclusion
    BY ExclusionIsLockInv DEF IInv
  <2>2. Stable
    BY DEF IInv, LockInv, SocketStable, Stable, ActivityReaders, In, ReaderPlaces
  <2> QED
    BY <2>1, <2>2, StepRefines
<1> QED
  BY <1>1, <1>2, <1>3, Invariance, PTL DEF Spec, S!Spec, ImplementsSharedSocket
=============================================================================
