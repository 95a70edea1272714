------------------------------ MODULE HaRequest ------------------------------
(***************************************************************************)
(* One logical resource request, _check_rate_limit_with_retries of         *)
(* client.rs: validation, membership snapshot, transmission rounds,        *)
(* selection of one response, completion delivery, timeout, cancellation.  *)
(*                                                                         *)
(* Time is counted in policy units from started_at. The task may be late:  *)
(* while it has something to do, the clock may still advance, MaxLate      *)
(* ticks in all. `lag' counts the ticks spent so.                          *)
(*                                                                         *)
(* External: the servers and the network (Reply), the resolver             *)
(* (Memberships, RefreshFails), source-port steering (Steer), which module *)
(* Steering models.                                                        *)
(***************************************************************************)
EXTENDS Integers, Sequences, FiniteSets

CONSTANTS
    ServerIds,          \* u64 server ids
    Addrs,              \* socket addresses
    Memberships,        \* what the server cache may hold: sequences of endpoints
    Replies,            \* what may come back for this request id
    ReplayCount,        \* policy.replay_count, N
    Gap,                \* Gap[k]: length of transmission round k, in ticks
    Before,             \* Before[k]: Gap[0] + ... + Gap[k - 1]
    FinalGap,           \* length of the final receive phase, 0 for none
    CompletionDelivery, \* policy.completion_delivery
    AgeUnit,            \* ids per second of server start: 2^23, scaled
    MayFail,            \* addresses a send may fail for
    MaxReplies,         \* bound on the replies that come back
    MaxLate             \* bound on the scheduling delay of the task

Endpoints == [addr : Addrs, id : ServerIds]

\* What response_router hands over: ok says that _parse_rate_response accepts
\* it, keep that its steering_feedback asks for no change of port.
ReplyType ==
    [id : ServerIds, addr : Addrs, ok : BOOLEAN, grant : BOOLEAN, keep : BOOLEAN]

ASSUME EnvironmentAssumption ==
    /\ ServerIds \subseteq Nat
    /\ Memberships \subseteq Seq(Endpoints)
    /\ Replies \subseteq ReplyType
    /\ MayFail \subseteq Addrs
    /\ MaxReplies \in Nat /\ MaxLate \in Nat
    /\ AgeUnit \in Nat \ {0}

\* RequestPolicy accepts only positive gaps. Before holds the running sums.
ASSUME PolicyAssumption ==
    /\ ReplayCount \in Nat
    /\ FinalGap \in Nat
    /\ CompletionDelivery \in BOOLEAN
    /\ Gap \in [0..ReplayCount -> Nat \ {0}]
    /\ Before \in [0..ReplayCount + 1 -> Nat]
    /\ Before[0] = 0
    /\ \A k \in 0..ReplayCount : Before[k + 1] = Before[k] + Gap[k]

\* H, which the request also announces as its dedup_ttl_ms
Horizon == Before[ReplayCount + 1] + FinalGap

NoResult == [id |-> -1]

VARIABLES
    input,        \* "ok", or why the request cannot be sent
    pc,           \* where the task is
    targets,      \* the endpoints of the membership snapshot
    round,        \* transmission round; ReplayCount + 1 in the final phase
    now,          \* started_at.elapsed()
    lag,          \* ticks that passed while the task could run
    deadline,     \* of the current round
    seenIds,      \* seen_server_ids
    best,         \* the retained response, or NoResult
    chan,         \* response_rx
    outcome,      \* what the caller gets
    copies,       \* datagrams the socket accepted, per address
    sendFailures, \* server_stats[id].send_failures
    valid,        \* server_stats[id].valid_responses
    sentAt,       \* time of the last transmission round
    completionAt, \* time of the completion delivery, or -1
    replies,      \* replies that came back so far
    arrived       \* ids with an acceptable reply queued before Horizon

vars == <<input, pc, targets, round, now, lag, deadline, seenIds, best, chan,
          outcome, copies, sendFailures, valid, sentAt, completionAt, replies, arrived>>

\* what the environment or the clock changes, and what a send changes
netVars  == <<replies, arrived>>
sendVars == <<copies, sendFailures>>
timeVars == <<now, lag>>

-----------------------------------------------------------------------------
(* Membership and age                                                      *)

\* allowed_server_ids of current_targets
Allowed == {targets[i].id : i \in DOMAIN targets}

\* target_server_ids: a later endpoint with the same address replaces an
\* earlier one. Discovery keeps only endpoints with an id, so every target has
\* one and the fall-back to seen_addrs is never taken.
TargetId(a) ==
    LET at == {i \in DOMAIN targets : targets[i].addr = a}
        last == CHOOSE i \in at : \A j \in at : j <= i
    IN  targets[last].id

server_start_s_from_id(id) == id \div AgeUnit

\* compare_server_age(left, right).is_lt()
Older(left, right) ==
    \/ server_start_s_from_id(left) < server_start_s_from_id(right)
    \/ /\ server_start_s_from_id(left) = server_start_s_from_id(right)
       /\ left < right

\* oldest_server_id
IsOldest(id) == id \in Allowed /\ \A other \in Allowed : ~Older(other, id)

-----------------------------------------------------------------------------
(* Sending                                                                 *)

\* targets that send_to_missing does not skip
Missing == {i \in DOMAIN targets : TargetId(targets[i].addr) \notin seenIds}

\* Mutant: failures are recorded only when nothing was sent
BugSendToMissing(fail) ==
    LET sent == Missing \ fail
    IN  /\ fail \subseteq {i \in Missing : targets[i].addr \in MayFail}
        /\ copies' = [a \in Addrs |->
               copies[a] + Cardinality({i \in sent : targets[i].addr = a})]
        /\ UNCHANGED sendFailures

\* send_to_missing when the sends to the targets in fail are refused
SendToMissing(fail) ==
    LET sent == Missing \ fail
    IN  /\ fail \subseteq {i \in Missing : targets[i].addr \in MayFail}
        /\ copies' = [a \in Addrs |->
               copies[a] + Cardinality({i \in sent : targets[i].addr = a})]
        /\ sendFailures' =
               IF sent = {} THEN sendFailures
               ELSE [id \in ServerIds |-> sendFailures[id] +
                       Cardinality({i \in fail : TargetId(targets[i].addr) = id})]

\* delivered = 0 with an error: the only failure of send_to_missing
NothingSent(fail) == fail # {} /\ fail = Missing

-----------------------------------------------------------------------------
Return(what) == pc' = "done" /\ outcome' = what

Init ==
    /\ input \in {"ok", "window", "empty", "too_large"}
    /\ pc = "start"
    /\ targets = <<>>
    /\ round = 0 /\ now = 0 /\ lag = 0 /\ deadline = 0
    /\ seenIds = {}
    /\ best = NoResult
    /\ chan = <<>>
    /\ outcome = "none"
    /\ copies = [a \in Addrs |-> 0]
    /\ sendFailures = [id \in ServerIds |-> 0]
    /\ valid = [id \in ServerIds |-> 0]
    /\ sentAt = 0 /\ completionAt = -1
    /\ replies = 0 /\ arrived = {}

localVars == <<input, targets, round, deadline, seenIds, best, chan, valid, sentAt, completionAt>>

\* validate_rate_windows_against_quota, then the local grant of an empty request
Validate ==
    /\ pc = "start"
    /\ CASE input = "window" -> Return("protocol")
         [] input = "empty"  -> Return("local_grant")
         [] OTHER            -> pc' = "discover" /\ UNCHANGED outcome
    /\ UNCHANGED <<localVars, timeVars, netVars, sendVars>>

\* maybe_periodic_dns_refresh fails
RefreshFails ==
    /\ pc = "discover"
    /\ Return("dns")
    /\ UNCHANGED <<localVars, timeVars, netVars, sendVars>>

\* current_targets reads the cache as it is now
Snapshot(m) ==
    /\ pc = "discover"
    /\ targets' = m
    /\ IF m = <<>> THEN Return("dns") ELSE pc' = "admit" /\ UNCHANGED outcome
    /\ UNCHANGED <<input, round, deadline, seenIds, best, chan, valid, sentAt, completionAt>>
    /\ UNCHANGED <<timeVars, netVars, sendVars>>

\* request_activity.read() is granted; the packet is built, the request id
\* registered and the clock started
Register ==
    /\ pc = "admit"
    /\ IF input = "too_large" THEN Return("protocol") ELSE pc' = "send" /\ UNCHANGED outcome
    /\ UNCHANGED <<localVars, timeVars, netVars, sendVars>>

\* Mutant: every round starts with a channel of its own
BugSendRound(fail) ==
    /\ pc = "send" /\ pc' = "loop"
    /\ SendToMissing(fail)
    /\ sentAt' = now /\ deadline' = now + Gap[round]
    /\ chan' = <<>>
    /\ UNCHANGED <<input, targets, round, seenIds, best, valid, completionAt, outcome>>
    /\ UNCHANGED <<timeVars, netVars>>

\* The head of the for loop. The deadline counts from the end of the sends.
SendRound(fail) ==
    /\ pc = "send"
    /\ SendToMissing(fail)
    /\ sentAt' = now
    /\ IF NothingSent(fail)
         THEN Return("io") /\ UNCHANGED deadline
         ELSE /\ pc' = "loop"
              /\ deadline' = now + Gap[round]
              /\ UNCHANGED outcome
    /\ UNCHANGED <<input, targets, round, seenIds, best, chan, valid, completionAt>>
    /\ UNCHANGED <<timeVars, netVars>>

\* Mutants: no final receive phase; one that starts again
BugEndRoundNoFinal ==
    /\ IF best # NoResult \/ round >= ReplayCount
         THEN Return(IF best = NoResult THEN "timeout" ELSE "decision") /\ UNCHANGED round
         ELSE pc' = "send" /\ round' = round + 1 /\ UNCHANGED outcome
    /\ UNCHANGED deadline

BugEndRoundRepeats ==
    /\ pc' = "loop" /\ round' = round + 1 /\ deadline' = now + FinalGap
    /\ UNCHANGED outcome

\* What follows the receive loop of a round
EndRound ==
    /\ CASE best # NoResult ->
                pc' = "complete" /\ UNCHANGED <<round, deadline, outcome>>
         [] best = NoResult /\ round < ReplayCount ->
                pc' = "send" /\ round' = round + 1 /\ UNCHANGED <<deadline, outcome>>
         [] best = NoResult /\ round = ReplayCount /\ FinalGap > 0 ->
                pc' = "loop" /\ round' = round + 1 /\ deadline' = now + FinalGap
                /\ UNCHANGED outcome
         [] OTHER ->
                Return("timeout") /\ UNCHANGED <<round, deadline>>

\* while Instant::now() < deadline
Loop ==
    /\ pc = "loop"
    /\ IF now < deadline THEN pc' = "recv" /\ UNCHANGED <<round, deadline, outcome>>
                         ELSE EndRound
    /\ UNCHANGED <<input, targets, seenIds, best, chan, valid, sentAt, completionAt>>
    /\ UNCHANGED <<timeVars, netVars, sendVars>>

\* Mutant: a wait without a timer
BugExpire ==
    /\ pc = "recv" /\ chan = <<>> /\ now >= deadline
    /\ best # NoResult
    /\ EndRound
    /\ UNCHANGED <<input, targets, seenIds, best, chan, valid, sentAt, completionAt>>
    /\ UNCHANGED <<timeVars, netVars, sendVars>>

\* The timeout fires. tokio polls the channel first, so it is empty.
Expire ==
    /\ pc = "recv"
    /\ chan = <<>>
    /\ now >= deadline
    /\ EndRound
    /\ UNCHANGED <<input, targets, seenIds, best, chan, valid, sentAt, completionAt>>
    /\ UNCHANGED <<timeVars, netVars, sendVars>>

\* accept_policy_response returns a result
Acceptable(r) == r.ok /\ r.id \in Allowed

\* Mutant: prefers the younger server
BugReplaces(r) == best = NoResult \/ Older(best.id, r.id)

Replaces(r) == best = NoResult \/ Older(r.id, best.id)

\* Mutant: the first response ends the initial round too
BugEndsRequest(r) == TRUE

EndsRequest(r) == IsOldest(r.id) \/ round > 0

\* response_rx.recv() yields the next response
Receive ==
    /\ pc = "recv"
    /\ chan # <<>>
    /\ LET r == Head(chan) IN
       /\ chan' = Tail(chan)
       /\ IF Acceptable(r)
            THEN /\ seenIds' = seenIds \cup {r.id}
                 /\ valid' = [valid EXCEPT ![r.id] = @ + 1]
                 /\ best' = IF Replaces(r) THEN r ELSE best
                 /\ pc' = IF EndsRequest(r) THEN "complete" ELSE "loop"
            ELSE pc' = "loop" /\ UNCHANGED <<seenIds, valid, best>>
    /\ UNCHANGED <<input, targets, round, deadline, outcome, sentAt, completionAt>>
    /\ UNCHANGED <<timeVars, netVars, sendVars>>

\* Mutant: completion delivery whatever the time
BugComplete ==
    /\ pc = "complete"
    /\ pc' = IF CompletionDelivery THEN "deliver" ELSE "steer"
    /\ UNCHANGED <<localVars, outcome, timeVars, netVars, sendVars>>

\* A response is selected. The clock is read once, before the completion
\* delivery waits for the socket.
Complete ==
    /\ pc = "complete"
    /\ pc' = IF CompletionDelivery /\ now < Horizon THEN "deliver" ELSE "steer"
    /\ UNCHANGED <<localVars, outcome, timeVars, netVars, sendVars>>

\* The sends of the completion delivery, their errors ignored; then the
\* activity guard is dropped
Deliver(fail) ==
    /\ pc = "deliver"
    /\ pc' = "steer"
    /\ SendToMissing(fail)
    /\ completionAt' = now
    /\ UNCHANGED <<input, targets, round, deadline, seenIds, best, chan, valid, sentAt, outcome>>
    /\ UNCHANGED <<timeVars, netVars>>

\* apply_steering_feedback: nothing to do, a completed rebind, or a failed one
Steer ==
    /\ pc = "steer"
    /\ \/ Return("decision")
       \/ ~best.keep /\ Return("steer_error")
    /\ UNCHANGED <<localVars, timeVars, netVars, sendVars>>

\* The caller drops the future at an await
Cancel ==
    /\ pc \in {"discover", "admit", "send", "recv", "deliver", "steer"}
    /\ Return("cancelled")
    /\ UNCHANGED <<localVars, timeVars, netVars, sendVars>>

TaskStep ==
    \/ Validate \/ Register \/ Loop \/ Expire \/ Receive \/ Complete \/ Steer
    \/ \E m \in Memberships : Snapshot(m)
    \/ \E fail \in SUBSET DOMAIN targets : SendRound(fail) \/ Deliver(fail)

-----------------------------------------------------------------------------
(* Environment                                                             *)

\* The request id is in the inflight map
Registered == pc \in {"send", "loop", "recv", "complete", "deliver", "steer"}

\* A reply from an address that was sent to reaches the channel: replies may
\* be lost, repeated, reordered or carry the id of a server outside the snapshot
Reply(r) ==
    /\ Registered
    /\ replies < MaxReplies
    /\ copies[r.addr] > 0
    /\ replies' = replies + 1
    /\ chan' = Append(chan, r)
    /\ arrived' = IF Acceptable(r) /\ now < Horizon THEN arrived \cup {r.id} ELSE arrived
    /\ UNCHANGED <<input, pc, targets, round, deadline, seenIds, best, valid, outcome,
                   sentAt, completionAt>>
    /\ UNCHANGED <<timeVars, sendVars>>

\* The clock runs from started_at until the response is selected and sent on
Timed == pc \in {"send", "loop", "recv", "complete", "deliver"}

Runnable == pc # "recv" \/ chan # <<>> \/ now >= deadline

Tick ==
    /\ Timed
    /\ Runnable => lag < MaxLate
    /\ now' = now + 1
    /\ lag' = IF Runnable THEN lag + 1 ELSE lag
    /\ UNCHANGED <<localVars, pc, outcome, netVars, sendVars>>

Next ==
    \/ TaskStep
    \/ RefreshFails
    \/ Cancel
    \/ Tick
    \/ \E r \in Replies : Reply(r)

Spec == Init /\ [][Next]_vars

\* tokio runs a task that is ready, and timers fire
FairSpec == Spec /\ WF_vars(TaskStep) /\ WF_vars(Tick)

-----------------------------------------------------------------------------
(* Properties                                                              *)

TypeOK ==
    /\ input \in {"ok", "window", "empty", "too_large"}
    /\ pc \in {"start", "discover", "admit", "send", "loop", "recv", "complete", "deliver",
               "steer", "done"}
    /\ targets \in Seq(Endpoints)
    /\ round \in 0..ReplayCount + 1
    /\ now \in Nat /\ lag \in 0..MaxLate /\ deadline \in Nat
    /\ seenIds \subseteq ServerIds
    /\ best \in ReplyType \cup {NoResult}
    /\ chan \in Seq(ReplyType)
    /\ outcome \in {"none", "protocol", "local_grant", "dns", "io", "timeout", "decision",
                    "steer_error", "cancelled"}
    /\ copies \in [Addrs -> Nat]
    /\ sendFailures \in [ServerIds -> Nat]
    /\ valid \in [ServerIds -> Nat]
    /\ sentAt \in Nat /\ completionAt \in Nat \cup {-1}
    /\ replies \in 0..MaxReplies
    /\ arrived \subseteq ServerIds

\* Of the snapshot's servers whose valid response was processed, the one whose
\* response is retained (and returned) is the oldest.
SelectedIsOldestHeard ==
    best # NoResult =>
        /\ best.ok /\ best.id \in seenIds
        /\ seenIds \subseteq Allowed
        /\ \A id \in seenIds : ~Older(id, best.id)

\* A decision of a server that is not the oldest of the snapshot is returned
\* only once the whole initial round has passed.
OldestFirst ==
    (pc \in {"complete", "deliver", "steer"} \/ outcome = "decision") =>
        IsOldest(best.id) \/ now >= Before[1]

\* A timeout is reported when the horizon has passed, later only by the delay
\* of the task itself, and only if no valid response was processed.
TimeoutAtHorizon ==
    outcome = "timeout" =>
        /\ Horizon <= now /\ now <= Horizon + lag
        /\ seenIds = {}

\* A replay or a completion delivery leaves after the end of the request's
\* deduplication lifetime only by the delay of the task itself: the rounds
\* before it do not use the lifetime up, and the clock is read before the
\* completion delivery begins.
SendsWithinHorizon ==
    /\ sentAt < Horizon + lag
    /\ completionAt < Horizon + lag

\* A task that is never late does not report a timeout when a valid response
\* reached its channel before the horizon.
PromptTimeoutIsSilent ==
    outcome = "timeout" /\ lag = 0 => arrived = {}

\* An address of the snapshot that no send reached is counted as a send failure
\* of its server, whenever a response is selected all the same.
PartialDeliveryVisible ==
    pc \in {"complete", "deliver", "steer"} =>
        \A i \in DOMAIN targets :
            copies[targets[i].addr] = 0 => sendFailures[TargetId(targets[i].addr)] > 0

\* The outcome as Admission sees it
Verdict ==
    CASE outcome = "none" -> "open"
      [] outcome \in {"decision", "timeout", "local_grant"} -> outcome
      [] OTHER -> "failed"

A == INSTANCE Admission WITH
        Servers <- ServerIds, Older <- Older, NoServer <- NoResult.id,
        members <- Allowed, heard <- seenIds,
        choice <- IF outcome = "decision" THEN best.id ELSE NoResult.id,
        result <- Verdict

\* A request keeps the promise of Admission whatever is lost, late, refused or
\* cancelled: it asks the servers of one snapshot, ends exactly once, with the
\* decision of the oldest server heard or with a timeout if it heard none, and
\* it does end.
ImplementsAdmission == A!Spec

\* docs/errors.md: an Err means that no decision was obtained.
ErrMeansNoDecision ==
    outcome \in {"protocol", "dns", "io", "timeout", "steer_error"} => best = NoResult
=============================================================================
