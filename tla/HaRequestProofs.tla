--------------------------- MODULE HaRequestProofs ---------------------------
(***************************************************************************)
(* Proofs about HaRequest for every membership, every policy, any number   *)
(* of replies and any delay of the task.                                   *)
(***************************************************************************)
EXTENDS HaRequest, Induction

\* When round k should end, for a task that is never late
Nominal(k) == IF k <= ReplayCount THEN Before[k + 1] ELSE Horizon

Beginning == {"start", "discover", "admit"}

\* The round the task is in and what it has heard
RoundInv ==
    /\ pc \in Beginning => now = 0 /\ round = 0 /\ best = NoResult
    /\ pc = "send" => round <= ReplayCount /\ best = NoResult
    /\ pc \in {"loop", "recv"} /\ round > 0 => best = NoResult
    /\ pc \in {"complete", "deliver", "steer"} => best # NoResult
    /\ outcome = "decision" => best # NoResult
    /\ outcome \in {"decision", "timeout"} => pc = "done"
    /\ best = NoResult <=> seenIds = {}

\* The clock against the nominal schedule: a round is late by at most lag
TimeInv ==
    /\ pc \in {"send", "loop", "recv"} => Before[round] <= now
    /\ pc = "send" => now <= Before[round] + lag
    /\ pc \in {"loop", "recv"} =>
        /\ Nominal(round) <= deadline /\ deadline <= Nominal(round) + lag
        /\ now <= Nominal(round) + lag
    /\ pc = "deliver" => now < Horizon + lag

IInv ==
    /\ TypeOK
    /\ RoundInv
    /\ TimeInv
    /\ SelectedIsOldestHeard
    /\ OldestFirst
    /\ TimeoutAtHorizon
    /\ SendsWithinHorizon

-----------------------------------------------------------------------------
(* Age and counting                                                        *)

\* server_start_s_from_id is a number for every server id.
LEMMA StartIsNumber ==
    \A id \in ServerIds : server_start_s_from_id(id) \in Int
  BY EnvironmentAssumption DEF server_start_s_from_id

\* No server is older than itself.
LEMMA OlderIrreflexive ==
    ASSUME NEW a \in ServerIds
    PROVE  ~Older(a, a)
  BY StartIsNumber, EnvironmentAssumption DEF Older

\* compare_server_age is a total order: two ids of which neither is older are
\* the same id.
LEMMA OlderTotal ==
    ASSUME NEW a \in ServerIds, NEW b \in ServerIds, ~Older(a, b), ~Older(b, a)
    PROVE  a = b
  BY StartIsNumber, EnvironmentAssumption DEF Older

\* compare_server_age is transitive: what is not older than b is not older than
\* an id older than b.
LEMMA OlderTransitive ==
    ASSUME NEW a \in ServerIds, NEW b \in ServerIds, NEW c \in ServerIds,
           Older(a, b), ~Older(c, b)
    PROVE  ~Older(c, a)
  BY StartIsNumber, EnvironmentAssumption DEF Older

\* Any set of positions of the snapshot is finite, so counting it gives a
\* number, and that number is positive only if there is a position.
LEMMA CountPositions ==
    ASSUME targets \in Seq(Endpoints), NEW S, S \subseteq DOMAIN targets
    PROVE  /\ Cardinality(S) \in Nat
           /\ Cardinality(S) > 0 => S # {}
<1>1. DOMAIN targets = 1..Len(targets) /\ Len(targets) \in Nat
  OBVIOUS
<1>2. IsFiniteSet(DOMAIN targets)
  BY <1>1, FS_Interval
<1>3. IsFiniteSet(S)
  BY <1>2, FS_Subset
<1> QED
  BY <1>3, FS_CardinalityType, FS_EmptySet

\* The lengths of the phases are numbers.
LEMMA PolicyNumbers == ReplayCount \in Nat /\ FinalGap \in Nat
  BY PolicyAssumption

\* The counters stay numbers when send_to_missing updates them.
LEMMA SendTypes ==
    ASSUME TypeOK, NEW fail, SendToMissing(fail)
    PROVE  copies' \in [Addrs -> Nat] /\ sendFailures' \in [ServerIds -> Nat]
<1> DEFINE copied(a) == Cardinality({i \in Missing \ fail : targets[i].addr = a})
           failed(id) == Cardinality({i \in fail : TargetId(targets[i].addr) = id})
<1>1. Missing \ fail \subseteq DOMAIN targets /\ fail \subseteq DOMAIN targets
  BY DEF SendToMissing, Missing
<1>2. \A a \in Addrs : copied(a) \in Nat
  BY <1>1, CountPositions DEF TypeOK
<1>3. \A id \in ServerIds : failed(id) \in Nat
  BY <1>1, CountPositions DEF TypeOK
<1>4. copies' = [a \in Addrs |-> copies[a] + copied(a)]
  BY Zenon DEF SendToMissing
<1>5. \/ sendFailures' = sendFailures
      \/ sendFailures' = [id \in ServerIds |-> sendFailures[id] + failed(id)]
  BY Zenon DEF SendToMissing
<1> HIDE DEF copied, failed
<1>6. copies' \in [Addrs -> Nat]
  BY <1>2, <1>4 DEF TypeOK
<1>7. sendFailures' \in [ServerIds -> Nat]
  BY <1>3, <1>5 DEF TypeOK
<1> QED
  BY <1>6, <1>7

-----------------------------------------------------------------------------
(* Types and rounds                                                        *)

\* The end of a round leads to another round, to a selection or to a timeout.
LEMMA EndRoundTypes ==
    ASSUME TypeOK, EndRound
    PROVE  /\ pc' \in {"complete", "send", "loop", "done"}
           /\ outcome' \in {outcome, "timeout"}
           /\ round' \in 0..ReplayCount + 1
           /\ deadline' \in Nat
<1>1. pc' \in {"complete", "send", "loop", "done"} /\ outcome' \in {outcome, "timeout"}
  BY DEF EndRound, Return
<1>2. round' = round \/ (round <= ReplayCount /\ round' = round + 1)
  BY PolicyNumbers DEF EndRound, TypeOK
<1>3. deadline' = deadline \/ deadline' = now + FinalGap
  BY DEF EndRound
<1> QED
  BY <1>1, <1>2, <1>3, PolicyNumbers DEF TypeOK

\* Every step keeps the types and the relation between the round, the place of
\* the task and what it has heard.
LEMMA RoundStep ==
    ASSUME TypeOK, RoundInv, [Next]_vars
    PROVE  TypeOK' /\ RoundInv'
<1> USE PolicyNumbers DEF Beginning
<1> USE DEF Return, localVars, timeVars, netVars, sendVars
<1>1. CASE Validate
  BY <1>1 DEF TypeOK, RoundInv, Validate
<1>2. CASE RefreshFails
  BY <1>2 DEF TypeOK, RoundInv, RefreshFails
<1>3. ASSUME NEW m \in Memberships, Snapshot(m) PROVE TypeOK' /\ RoundInv'
  BY <1>3, EnvironmentAssumption DEF TypeOK, RoundInv, Snapshot
<1>4. CASE Register
  BY <1>4 DEF TypeOK, RoundInv, Register
<1>5. ASSUME NEW fail, SendRound(fail) PROVE TypeOK' /\ RoundInv'
  <2>1. copies' \in [Addrs -> Nat] /\ sendFailures' \in [ServerIds -> Nat]
    BY <1>5, SendTypes DEF SendRound
  <2>2. round \in 0..ReplayCount /\ Gap[round] \in Nat
    BY <1>5, PolicyAssumption DEF TypeOK, RoundInv, SendRound
  <2>3. deadline' = deadline \/ deadline' = now + Gap[round]
    BY <1>5 DEF SendRound
  <2>4. deadline' \in Nat
    BY <2>2, <2>3 DEF TypeOK
  <2> QED
    BY <1>5, <2>1, <2>2, <2>4 DEF TypeOK, RoundInv, SendRound
<1>6. CASE Loop
  <2>1. CASE now < deadline
    BY <1>6, <2>1 DEF TypeOK, RoundInv, Loop
  <2>2. CASE ~(now < deadline)
    <3>1. EndRound
      BY <1>6, <2>2 DEF Loop
    <3>2. TypeOK'
      BY <1>6, <3>1, EndRoundTypes DEF TypeOK, Loop
    <3>3. RoundInv'
      BY <1>6, <3>1 DEF TypeOK, RoundInv, Loop, EndRound
    <3> QED
      BY <3>2, <3>3
  <2> QED
    BY <2>1, <2>2
<1>7. CASE Expire
  <2>1. TypeOK'
    BY <1>7, EndRoundTypes DEF TypeOK, Expire
  <2>2. RoundInv'
    BY <1>7 DEF TypeOK, RoundInv, Expire, EndRound
  <2> QED
    BY <2>1, <2>2
<1>8. CASE Receive
  <2> DEFINE r == Head(chan)
  <2>1. r \in ReplyType /\ chan' \in Seq(ReplyType)
    BY <1>8 DEF TypeOK, Receive
  <2>2. r.id \in ServerIds /\ r # NoResult
    BY <2>1, EnvironmentAssumption DEF ReplyType, NoResult
  <2>3. CASE Acceptable(r)
    <3>1. /\ seenIds' = seenIds \cup {r.id} /\ valid' = [valid EXCEPT ![r.id] = @ + 1]
          /\ best' = IF Replaces(r) THEN r ELSE best
          /\ pc' = IF EndsRequest(r) THEN "complete" ELSE "loop"
      BY <1>8, <2>3 DEF Receive
    <3>2. best' # NoResult
      BY <2>2, <3>1 DEF Replaces
    <3> HIDE DEF r
    <3>3. pc' = "loop" => round = 0
      BY <3>1 DEF EndsRequest, TypeOK
    <3>4. /\ valid' \in [ServerIds -> Nat]
          /\ best' \in ReplyType \cup {NoResult}
          /\ seenIds' \subseteq ServerIds
          /\ pc' \in {"complete", "loop"}
      <4>1. valid' \in [ServerIds -> Nat]
        BY <2>2, <3>1 DEF TypeOK
      <4>2. best' \in ReplyType \cup {NoResult} /\ seenIds' \subseteq ServerIds
        BY <2>1, <2>2, <3>1 DEF TypeOK
      <4>3. pc' \in {"complete", "loop"}
        BY <3>1
      <4> QED
        BY <4>1, <4>2, <4>3
    <3>5. TypeOK'
      BY <1>8, <2>1, <3>4 DEF TypeOK, Receive
    <3>6. RoundInv'
      BY <1>8, <3>1, <3>2, <3>3 DEF TypeOK, RoundInv, Receive
    <3> QED
      BY <3>5, <3>6
  <2>4. CASE ~Acceptable(r)
    BY <1>8, <2>1, <2>4 DEF TypeOK, RoundInv, Receive
  <2> QED
    BY <2>3, <2>4
<1>9. ASSUME NEW fail, Deliver(fail) PROVE TypeOK' /\ RoundInv'
  <2>1. copies' \in [Addrs -> Nat] /\ sendFailures' \in [ServerIds -> Nat]
    BY <1>9, SendTypes DEF Deliver
  <2> QED
    BY <1>9, <2>1 DEF TypeOK, RoundInv, Deliver
<1>10. CASE Complete \/ Steer
  BY <1>10 DEF TypeOK, RoundInv, Complete, Steer
<1>11. CASE Cancel
  BY <1>11 DEF TypeOK, RoundInv, Cancel
<1>12. CASE Tick
  <2>1. lag' \in 0..MaxLate
    BY <1>12, EnvironmentAssumption DEF TypeOK, Tick
  <2> QED
    BY <1>12, <2>1 DEF TypeOK, RoundInv, Tick, Timed
<1>13. ASSUME NEW r \in Replies, Reply(r) PROVE TypeOK' /\ RoundInv'
  <2>1. r \in ReplyType /\ r.id \in ServerIds
    BY EnvironmentAssumption DEF ReplyType
  <2>2. chan' \in Seq(ReplyType) /\ replies' \in 0..MaxReplies
    BY <1>13, <2>1, EnvironmentAssumption DEF TypeOK, Reply
  <2>3. arrived' = arrived \cup {r.id} \/ arrived' = arrived
    BY <1>13 DEF Reply
  <2>4. arrived' \subseteq ServerIds
    BY <2>1, <2>3 DEF TypeOK
  <2> QED
    BY <1>13, <2>2, <2>4 DEF TypeOK, RoundInv, Reply
<1>14. CASE UNCHANGED vars
  BY <1>14 DEF TypeOK, RoundInv, vars
<1> QED
  BY <1>1, <1>2, <1>3, <1>4, <1>5, <1>6, <1>7, <1>8, <1>9, <1>10, <1>11, <1>12, <1>13, <1>14
     DEF Next, TaskStep

-----------------------------------------------------------------------------
(* The clock                                                               *)

\* The running sums of positive gaps grow.
LEMMA BeforeGrows ==
    ASSUME NEW j \in 0..ReplayCount + 1, NEW k \in 0..ReplayCount + 1, j < k
    PROVE  Before[j] < Before[k]
<1> DEFINE T == {d \in Nat : j + 1 + d <= ReplayCount + 1 => Before[j] < Before[j + 1 + d]}
           N == ReplayCount - j
<1>1. ReplayCount \in Nat /\ \A i \in 0..ReplayCount + 1 : Before[i] \in Nat
  BY PolicyAssumption
<1>2. \A i \in 0..ReplayCount : Before[i + 1] = Before[i] + Gap[i] /\ Gap[i] \in Nat /\ Gap[i] > 0
  BY PolicyAssumption
<1>3. N \in Nat /\ j \in 0..ReplayCount
  BY <1>1
<1>4. 0 \in T
  BY <1>1, <1>2, <1>3
<1>5. ASSUME NEW d \in 0..N - 1, d \in T PROVE d + 1 \in T
  <2>1. j + 1 + d \in 0..ReplayCount /\ j + 1 + (d + 1) = (j + 1 + d) + 1
    BY <1>1, <1>3
  <2>2. Before[j] < Before[j + 1 + d]
    <3>1. j + 1 + d <= ReplayCount + 1
      BY <1>1, <2>1
    <3> QED
      BY <1>5, <3>1
  <2>3. Before[(j + 1 + d) + 1] > Before[j + 1 + d]
    BY <1>1, <1>2, <2>1
  <2>4. Before[j] < Before[(j + 1 + d) + 1]
    BY <1>1, <2>1, <2>2, <2>3
  <2> QED
    BY <2>1, <2>4
<1>6. 0..N \subseteq T
  <2> HIDE DEF T
  <2> QED
    BY <1>3, <1>4, <1>5, UpTo
<1>7. k - j - 1 \in 0..N /\ j + 1 + (k - j - 1) = k
  BY <1>1
<1> QED
  BY <1>6, <1>7

\* Nominal times: the rounds follow each other, none is empty, and the last one
\* ends at the horizon or before the final phase.
LEMMA Timeline ==
    /\ Before[0] = 0
    /\ \A k \in 0..ReplayCount + 1 : Before[k] \in Nat
    /\ \A k \in 0..ReplayCount :
        /\ Gap[k] \in Nat
        /\ Before[k + 1] = Before[k] + Gap[k]
        /\ Before[k] < Horizon
        /\ Nominal(k) = Before[k + 1]
    /\ \A k \in 1..ReplayCount + 1 : Before[1] <= Before[k]
    /\ Nominal(ReplayCount + 1) = Horizon
    /\ Horizon = Before[ReplayCount + 1] + FinalGap
    /\ Horizon \in Nat /\ Horizon > 0
<1>1. \A k \in 0..ReplayCount + 1 : Before[k] \in Nat
  BY PolicyAssumption
<1>2. Before[0] = 0 /\ Horizon = Before[ReplayCount + 1] + FinalGap /\ Horizon \in Nat
  BY <1>1, PolicyAssumption DEF Horizon
<1>3. \A k \in 0..ReplayCount : Before[k] < Before[ReplayCount + 1]
  BY BeforeGrows, PolicyNumbers
<1>4. \A k \in 0..ReplayCount :
        Gap[k] \in Nat /\ Before[k + 1] = Before[k] + Gap[k] /\ Before[k] < Horizon
  BY <1>1, <1>2, <1>3, PolicyAssumption
<1>5. \A k \in 1..ReplayCount + 1 : Before[1] <= Before[k]
  <2> TAKE k \in 1..ReplayCount + 1
  <2>1. 1 \in 0..ReplayCount + 1 /\ k \in 0..ReplayCount + 1
    BY PolicyNumbers
  <2>2. k = 1 \/ Before[1] < Before[k]
    BY <2>1, BeforeGrows
  <2> QED
    BY <1>1, <2>1, <2>2
<1>6. \A k \in 0..ReplayCount : Nominal(k) = Before[k + 1]
  BY PolicyNumbers DEF Nominal
<1>7. Nominal(ReplayCount + 1) = Horizon
  BY PolicyNumbers DEF Nominal
<1>8. Horizon > 0
  BY <1>2, <1>4, PolicyNumbers
<1> QED
  BY <1>1, <1>2, <1>4, <1>5, <1>6, <1>7, <1>8

ClockInv == TimeInv /\ TimeoutAtHorizon /\ SendsWithinHorizon

\* The end of a round, reached by Loop or by Expire, keeps the clock facts.
LEMMA EndRoundClock ==
    ASSUME TypeOK, RoundInv, ClockInv, EndRound,
           pc \in {"loop", "recv"}, now >= deadline,
           UNCHANGED <<now, lag, sentAt, completionAt, best, seenIds>>
    PROVE  ClockInv'
<1> USE Timeline, PolicyNumbers DEF TypeOK, ClockInv, TimeInv, TimeoutAtHorizon,
                                    SendsWithinHorizon
<1>1. CASE best # NoResult
  BY <1>1 DEF EndRound, RoundInv
<1>2. CASE best = NoResult /\ round < ReplayCount
  <2>1. pc' = "send" /\ round' = round + 1 /\ outcome' = outcome
    BY <1>2 DEF EndRound
  <2>2. Nominal(round) = Before[round + 1]
    BY <1>2
  <2>3. Before[round'] <= now /\ now <= Before[round'] + lag
    BY <1>2, <2>1, <2>2
  <2> QED
    BY <2>1, <2>3
<1>3. CASE best = NoResult /\ round = ReplayCount /\ FinalGap > 0
  <2>1. /\ pc' = "loop" /\ round' = round + 1 /\ deadline' = now + FinalGap
        /\ outcome' = outcome
    BY <1>3 DEF EndRound
  <2>2. Nominal(round) = Before[ReplayCount + 1] /\ Nominal(round') = Horizon
    BY <1>3, <2>1
  <2>3. /\ Before[ReplayCount + 1] <= now /\ now <= Before[ReplayCount + 1] + lag
        /\ Before[ReplayCount + 1] \in Nat
        /\ round' = ReplayCount + 1
    BY <1>3, <2>1, <2>2
  <2>4. /\ Before[round'] <= now /\ now <= Nominal(round') + lag
        /\ Nominal(round') <= deadline' /\ deadline' <= Nominal(round') + lag
    <3>1. lag \in Int /\ now \in Int /\ Horizon = Before[ReplayCount + 1] + FinalGap
      OBVIOUS
    <3> HIDE Timeline DEF ClockInv, TypeOK
    <3> QED
      BY <2>1, <2>2, <2>3, <3>1
  <2>5. TimeInv'
    BY <2>1, <2>4 DEF Nominal
  <2> QED
    BY <2>1, <2>5
<1>4. CASE /\ best = NoResult
           /\ ~(round < ReplayCount)
           /\ ~(round = ReplayCount /\ FinalGap > 0)
  <2>1. pc' = "done" /\ outcome' = "timeout"
    BY <1>4 DEF EndRound, Return
  <2>2. Nominal(round) = Horizon
    BY <1>4
  <2>3. seenIds = {}
    BY <1>4 DEF RoundInv
  <2> QED
    BY <2>1, <2>2, <2>3
<1> QED
  BY <1>1, <1>2, <1>3, <1>4

\* Every step keeps the clock within lag of the nominal schedule.
LEMMA ClockStep ==
    ASSUME TypeOK, RoundInv, ClockInv, [Next]_vars
    PROVE  ClockInv'
<1> USE DEF Return, localVars, timeVars, netVars, sendVars
<1>1. CASE \/ Validate \/ RefreshFails \/ Steer \/ Cancel
           \/ \E m \in Memberships : Snapshot(m)
  BY <1>1 DEF TypeOK, RoundInv, ClockInv, TimeInv, TimeoutAtHorizon, SendsWithinHorizon,
              Validate, RefreshFails, Steer, Cancel, Snapshot
<1>2. CASE Register
  <2>1. now = 0 /\ round = 0 /\ lag \in Nat
    BY <1>2, EnvironmentAssumption DEF TypeOK, RoundInv, Register, Beginning
  <2>2. Before[0] = 0
    BY Timeline
  <2> QED
    BY <1>2, <2>1, <2>2 DEF ClockInv, TimeInv, TimeoutAtHorizon, SendsWithinHorizon, Register
<1>3. ASSUME NEW fail, SendRound(fail) PROVE ClockInv'
  <2>1. /\ round \in 0..ReplayCount /\ now \in Nat /\ lag \in Nat
        /\ Before[round] <= now /\ now <= Before[round] + lag
    BY <1>3, EnvironmentAssumption, PolicyNumbers
       DEF TypeOK, RoundInv, ClockInv, TimeInv, SendRound
  <2>2. /\ Nominal(round) = Before[round] + Gap[round] /\ Gap[round] \in Nat
        /\ Before[round] \in Nat /\ Before[round] < Horizon /\ Horizon \in Nat
    BY <2>1, Timeline, PolicyNumbers
  <2>3. /\ now' = now /\ lag' = lag /\ round' = round /\ sentAt' = now
        /\ completionAt' = completionAt /\ seenIds' = seenIds
        /\ \/ pc' = "done" /\ outcome' = "io"
           \/ pc' = "loop" /\ deadline' = now + Gap[round] /\ outcome' = outcome
    BY <1>3 DEF SendRound
  <2>4. SendsWithinHorizon'
    BY <2>1, <2>2, <2>3 DEF ClockInv, SendsWithinHorizon, Horizon
  <2>5. TimeoutAtHorizon'
    BY <2>3 DEF ClockInv, TimeoutAtHorizon
  <2>6. /\ Nominal(round) <= now + Gap[round] /\ now + Gap[round] <= Nominal(round) + lag
        /\ now <= Nominal(round) + lag
    BY <2>1, <2>2
  <2>7. TimeInv'
    BY <2>1, <2>3, <2>6 DEF TimeInv, Nominal
  <2> QED
    BY <2>4, <2>5, <2>7 DEF ClockInv
<1>4. CASE Loop
  <2>1. CASE now < deadline
    BY <1>4, <2>1 DEF ClockInv, TimeInv, TimeoutAtHorizon, SendsWithinHorizon, Loop
  <2>2. CASE ~(now < deadline)
    BY <1>4, <2>2, EndRoundClock DEF Loop, TypeOK
  <2> QED
    BY <2>1, <2>2
<1>5. CASE Expire
  BY <1>5, EndRoundClock DEF Expire
<1>6. CASE Receive
  <2>1. /\ pc = "recv" /\ pc' \in {"loop", "complete"}
        /\ UNCHANGED <<now, lag, round, deadline, sentAt, completionAt, outcome>>
    BY <1>6 DEF Receive
  <2>2. outcome # "timeout"
    BY <2>1 DEF RoundInv
  <2> QED
    BY <2>1, <2>2 DEF ClockInv, TimeInv, TimeoutAtHorizon, SendsWithinHorizon
<1>7. ASSUME NEW fail, Deliver(fail) PROVE ClockInv'
  <2>1. /\ pc = "deliver" /\ pc' = "steer" /\ completionAt' = now
        /\ UNCHANGED <<now, lag, sentAt, outcome, seenIds>>
    BY <1>7 DEF Deliver
  <2> QED
    BY <2>1 DEF ClockInv, TimeInv, TimeoutAtHorizon, SendsWithinHorizon
<1>8. CASE Tick
  <2>1. /\ now \in Nat /\ lag \in Nat /\ deadline \in Nat /\ sentAt \in Nat /\ Horizon \in Nat
        /\ now' = now + 1 /\ pc \in {"send", "loop", "recv", "complete", "deliver"}
        /\ completionAt \in Int
        /\ UNCHANGED <<pc, outcome, round, deadline, sentAt, completionAt, seenIds>>
        /\ \/ lag' = lag + 1
           \/ lag' = lag /\ pc = "recv" /\ now < deadline
    BY <1>8, EnvironmentAssumption, Timeline DEF TypeOK, Tick, Timed, Runnable
  <2>2. outcome # "timeout"
    BY <2>1 DEF RoundInv
  <2>3. SendsWithinHorizon'
    BY <2>1 DEF ClockInv, SendsWithinHorizon, Horizon
  <2>4. round \in 0..ReplayCount + 1 /\ Before[round] \in Nat
    BY Timeline DEF TypeOK
  <2>5. Nominal(round) \in Nat
    BY <2>4, Timeline, PolicyNumbers DEF Nominal
  <2>6. ASSUME pc = "send" PROVE TimeInv'
    BY <2>1, <2>4, <2>6 DEF ClockInv, TimeInv
  <2>7. ASSUME pc \in {"loop", "recv"} PROVE TimeInv'
    <3>1. /\ Before[round] <= now
          /\ Nominal(round) <= deadline /\ deadline <= Nominal(round) + lag
          /\ now <= Nominal(round) + lag
      BY <2>7 DEF ClockInv, TimeInv
    <3>2. /\ Before[round] <= now'
          /\ Nominal(round) <= deadline /\ deadline <= Nominal(round) + lag'
          /\ now' <= Nominal(round) + lag'
      BY <2>1, <2>4, <2>5, <3>1
    <3> QED
      BY <2>1, <2>7, <3>2 DEF TimeInv, Nominal
  <2>8. ASSUME pc \in {"complete", "deliver"} PROVE TimeInv'
    BY <2>1, <2>8 DEF ClockInv, TimeInv, Horizon
  <2>9. TimeInv'
    BY <2>1, <2>6, <2>7, <2>8
  <2> QED
    BY <2>1, <2>2, <2>3, <2>9 DEF ClockInv, TimeoutAtHorizon
<1>9. ASSUME NEW r \in Replies, Reply(r) PROVE ClockInv'
  BY <1>9 DEF ClockInv, TimeInv, TimeoutAtHorizon, SendsWithinHorizon, Reply
<1>10. CASE Complete
  <2>1. /\ UNCHANGED <<now, lag, round, sentAt, completionAt, outcome, seenIds>>
        /\ pc' = "steer" \/ (pc' = "deliver" /\ now < Horizon)
    BY <1>10 DEF Complete
  <2>2. now \in Nat /\ lag \in Nat /\ Horizon \in Nat
    BY Timeline, EnvironmentAssumption DEF TypeOK
  <2>3. now < Horizon => now < Horizon + lag
    BY <2>2
  <2> QED
    BY <2>1, <2>3 DEF ClockInv, TimeInv, TimeoutAtHorizon, SendsWithinHorizon
<1>11. CASE UNCHANGED vars
  BY <1>11 DEF ClockInv, TimeInv, TimeoutAtHorizon, SendsWithinHorizon, vars
<1> QED
  BY <1>1, <1>2, <1>3, <1>4, <1>5, <1>6, <1>7, <1>8, <1>9, <1>10, <1>11 DEF Next, TaskStep

-----------------------------------------------------------------------------
(* Selection                                                               *)

ChoiceInv == SelectedIsOldestHeard /\ OldestFirst

\* Processing a response keeps the oldest one heard, and ends the initial round
\* only for the oldest server.
LEMMA ReceiveChoice ==
    ASSUME TypeOK, RoundInv, TimeInv, ChoiceInv, Receive
    PROVE  ChoiceInv'
<1> DEFINE r == Head(chan)
<1>1. r \in ReplyType /\ r.id \in ServerIds /\ r # NoResult /\ seenIds \subseteq ServerIds
  <2>1. r \in ReplyType
    BY DEF TypeOK, Receive
  <2> QED
    BY <2>1, EnvironmentAssumption DEF ReplyType, NoResult, TypeOK
<1>2. /\ pc = "recv" /\ outcome' = outcome /\ targets' = targets /\ now' = now
      /\ outcome # "decision"
  BY DEF Receive, timeVars, RoundInv
<1>3. Allowed' = Allowed /\ \A id : IsOldest(id)' <=> IsOldest(id)
  BY <1>2 DEF Allowed, IsOldest
<1>4. round > 0 => now >= Before[1]
  <2>1. round \in 0..ReplayCount + 1 /\ Before[round] <= now /\ now \in Nat
    BY <1>2 DEF TypeOK, TimeInv
  <2>2. Before[1] \in Nat /\ (round > 0 => Before[1] <= Before[round] /\ Before[round] \in Nat)
    BY <2>1, Timeline, PolicyNumbers
  <2> QED
    BY <2>1, <2>2
<1>5. CASE ~Acceptable(r)
  <2>1. pc' = "loop" /\ UNCHANGED <<seenIds, best>>
    BY <1>5 DEF Receive
  <2> QED
    BY <1>2, <1>3, <2>1 DEF ChoiceInv, SelectedIsOldestHeard, OldestFirst
<1>6. CASE Acceptable(r)
  <2>1. /\ seenIds' = seenIds \cup {r.id}
        /\ best' = IF Replaces(r) THEN r ELSE best
        /\ pc' = IF EndsRequest(r) THEN "complete" ELSE "loop"
    BY <1>6 DEF Receive
  <2>2. r.ok /\ r.id \in Allowed
    BY <1>6 DEF Acceptable
  <2> HIDE DEF r
  <2>3. CASE best = NoResult
    <3>1. best' = r /\ seenIds' = {r.id}
      BY <2>1, <2>3 DEF Replaces, RoundInv
    <3>2. ~Older(r.id, r.id)
      BY <1>1, OlderIrreflexive
    <3>3. SelectedIsOldestHeard'
      BY <1>3, <2>2, <3>1, <3>2 DEF SelectedIsOldestHeard
    <3>4. OldestFirst'
      BY <1>2, <1>3, <1>4, <2>1, <3>1 DEF OldestFirst, EndsRequest
    <3> QED
      BY <3>3, <3>4 DEF ChoiceInv
  <2>4. CASE best # NoResult /\ Older(r.id, best.id)
    <3>1. best' = r
      BY <2>1, <2>4 DEF Replaces
    <3>2. /\ best.id \in ServerIds /\ seenIds \subseteq Allowed
          /\ \A id \in seenIds : ~Older(id, best.id)
      BY <1>1, <2>4 DEF ChoiceInv, SelectedIsOldestHeard
    <3>3. ~Older(r.id, r.id)
      BY <1>1, OlderIrreflexive
    <3>4. \A id \in seenIds : ~Older(id, r.id)
      BY <1>1, <2>4, <3>2, OlderTransitive
    <3>5. SelectedIsOldestHeard'
      BY <1>3, <2>1, <2>2, <3>1, <3>2, <3>3, <3>4 DEF SelectedIsOldestHeard
    <3>6. OldestFirst'
      BY <1>2, <1>3, <1>4, <2>1, <3>1 DEF OldestFirst, EndsRequest
    <3> QED
      BY <3>5, <3>6 DEF ChoiceInv
  <2>5. CASE best # NoResult /\ ~Older(r.id, best.id)
    <3>1. best' = best
      BY <2>1, <2>5 DEF Replaces
    <3>2. /\ best.id \in ServerIds /\ best.id \in Allowed
      BY <1>1, <2>5 DEF ChoiceInv, SelectedIsOldestHeard
    <3>3. SelectedIsOldestHeard'
      BY <1>3, <2>1, <2>2, <2>5, <3>1 DEF ChoiceInv, SelectedIsOldestHeard
    <3>4. ASSUME IsOldest(r.id) PROVE IsOldest(best.id)
      <4>1. ~Older(best.id, r.id)
        BY <3>2, <3>4 DEF IsOldest
      <4>2. best.id = r.id
        BY <1>1, <2>5, <3>2, <4>1, OlderTotal
      <4> QED
        BY <3>4, <4>2
    <3>5. OldestFirst'
      BY <1>2, <1>3, <1>4, <2>1, <3>1, <3>4 DEF OldestFirst, EndsRequest
    <3> QED
      BY <3>3, <3>5 DEF ChoiceInv
  <2> QED
    BY <2>3, <2>4, <2>5
<1> QED
  BY <1>5, <1>6

\* The end of a round returns the retained response when the round has passed.
LEMMA EndRoundChoice ==
    ASSUME TypeOK, RoundInv, TimeInv, ChoiceInv, EndRound,
           pc \in {"loop", "recv"}, now >= deadline,
           UNCHANGED <<now, targets, best, seenIds>>
    PROVE  ChoiceInv'
<1>1. Allowed' = Allowed /\ \A id : IsOldest(id)' <=> IsOldest(id)
  BY DEF Allowed, IsOldest
<1>2. SelectedIsOldestHeard'
  BY <1>1 DEF ChoiceInv, SelectedIsOldestHeard
<1>3. CASE best = NoResult
  <2>1. pc' \in {"send", "loop", "done"} /\ outcome' \in {outcome, "timeout"}
    BY <1>3 DEF EndRound, Return
  <2>2. outcome # "decision"
    BY DEF RoundInv
  <2> QED
    BY <1>2, <2>1, <2>2 DEF ChoiceInv, OldestFirst
<1>4. CASE best # NoResult
  <2>1. round = 0 /\ 0 \in 0..ReplayCount
    BY <1>4, PolicyNumbers DEF RoundInv, TypeOK
  <2>2. Nominal(round) = Before[1] /\ Before[1] \in Nat
    BY <2>1, Timeline, PolicyNumbers
  <2>3. now >= Before[1]
    BY <2>2 DEF TimeInv, TypeOK
  <2> QED
    BY <1>2, <2>3 DEF ChoiceInv, OldestFirst
<1> QED
  BY <1>3, <1>4

\* Every step keeps the choice.
LEMMA ChoiceStep ==
    ASSUME TypeOK, RoundInv, TimeInv, ChoiceInv, [Next]_vars
    PROVE  ChoiceInv'
<1> USE DEF Return, localVars, timeVars, netVars, sendVars
<1>1. CASE Receive
  BY <1>1, ReceiveChoice
<1>2. CASE Loop /\ ~(now < deadline)
  BY <1>2, EndRoundChoice DEF Loop, TypeOK
<1>3. CASE Expire
  BY <1>3, EndRoundChoice DEF Expire
<1>4. ASSUME NEW m \in Memberships, Snapshot(m) PROVE ChoiceInv'
  <2>1. best' = NoResult /\ pc' \notin {"complete", "deliver", "steer"} /\ outcome' # "decision"
    BY <1>4 DEF Snapshot, RoundInv, Beginning
  <2> QED
    BY <2>1 DEF ChoiceInv, SelectedIsOldestHeard, OldestFirst
<1>5. CASE Tick
  <2>1. /\ UNCHANGED <<best, seenIds, targets, pc, outcome>>
        /\ now \in Nat /\ now' = now + 1 /\ Before[1] \in Nat
    BY <1>5, Timeline, PolicyNumbers DEF Tick, TypeOK
  <2>2. Allowed' = Allowed /\ \A id : IsOldest(id)' <=> IsOldest(id)
    BY <2>1 DEF Allowed, IsOldest
  <2> QED
    BY <2>1, <2>2 DEF ChoiceInv, SelectedIsOldestHeard, OldestFirst
<1>6. ASSUME UNCHANGED <<best, seenIds, targets, now>>,
             (pc' \in {"complete", "deliver", "steer"} \/ outcome' = "decision") =>
                 (pc \in {"complete", "deliver", "steer"} \/ outcome = "decision")
      PROVE  ChoiceInv'
  <2>1. Allowed' = Allowed /\ \A id : IsOldest(id)' <=> IsOldest(id)
    BY <1>6 DEF Allowed, IsOldest
  <2> QED
    BY <1>6, <2>1 DEF ChoiceInv, SelectedIsOldestHeard, OldestFirst
<1>7. CASE Validate \/ RefreshFails \/ Register \/ Complete \/ Steer \/ Cancel
  BY <1>6, <1>7 DEF Validate, RefreshFails, Register, Complete, Steer, Cancel
<1>8. CASE Loop /\ now < deadline
  BY <1>6, <1>8 DEF Loop
<1>9. ASSUME NEW fail, SendRound(fail) PROVE ChoiceInv'
  BY <1>6, <1>9 DEF SendRound
<1>10. ASSUME NEW fail, Deliver(fail) PROVE ChoiceInv'
  BY <1>6, <1>10 DEF Deliver
<1>11. ASSUME NEW r \in Replies, Reply(r) PROVE ChoiceInv'
  BY <1>6, <1>11 DEF Reply
<1>12. CASE UNCHANGED vars
  BY <1>6, <1>12 DEF vars
<1> QED
  BY <1>1, <1>2, <1>3, <1>4, <1>5, <1>7, <1>8, <1>9, <1>10, <1>11, <1>12 DEF Next, TaskStep

-----------------------------------------------------------------------------
(* Theorems                                                                *)

\* The initial states satisfy the inductive invariant.
LEMMA InitInv == Init => IInv
<1> SUFFICES ASSUME Init PROVE IInv
  OBVIOUS
<1>1. TypeOK
  BY PolicyNumbers, EnvironmentAssumption DEF Init, TypeOK, Endpoints
<1>2. RoundInv /\ SelectedIsOldestHeard /\ OldestFirst
  BY DEF Init, RoundInv, SelectedIsOldestHeard, OldestFirst, Beginning
<1>3. TimeInv /\ TimeoutAtHorizon
  BY DEF Init, TimeInv, TimeoutAtHorizon
<1>4. SendsWithinHorizon
  BY Timeline DEF Init, SendsWithinHorizon
<1> QED
  BY <1>1, <1>2, <1>3, <1>4 DEF IInv

\* The invariant holds in every reachable state: a step keeps its parts.
THEOREM Invariance == Spec => []IInv
<1>1. IInv /\ [Next]_vars => IInv'
  <2> SUFFICES ASSUME IInv, [Next]_vars PROVE IInv'
    OBVIOUS
  <2>1. TypeOK' /\ RoundInv'
    BY RoundStep DEF IInv
  <2>2. TimeInv' /\ TimeoutAtHorizon' /\ SendsWithinHorizon'
    BY ClockStep DEF IInv, ClockInv
  <2>3. SelectedIsOldestHeard' /\ OldestFirst'
    BY ChoiceStep DEF IInv, ChoiceInv
  <2> QED
    BY <2>1, <2>2, <2>3 DEF IInv
<1> QED
  BY InitInv, <1>1, PTL DEF Spec

\* Type correctness of a request.
THEOREM TypeCorrect == Spec => []TypeOK
<1>1. IInv => TypeOK
  BY DEF IInv
<1> QED
  BY Invariance, <1>1, PTL

\* The response a request retains and returns is the one of the oldest server
\* heard, whatever replies come in whatever order (compare_server_age, best).
THEOREM SelectionCorrect == Spec => []SelectedIsOldestHeard
<1>1. IInv => SelectedIsOldestHeard
  BY DEF IInv
<1> QED
  BY Invariance, <1>1, PTL

\* A younger server decides only after the whole initial round, for every
\* policy (the early returns of the receive loops).
THEOREM OldestPreferred == Spec => []OldestFirst
<1>1. IInv => OldestFirst
  BY DEF IInv
<1> QED
  BY Invariance, <1>1, PTL

\* A timeout is never early, is late only by the delay of the task, and means
\* that no valid response was processed, for every policy (the round deadlines).
THEOREM TimeoutCorrect == Spec => []TimeoutAtHorizon
<1>1. IInv => TimeoutAtHorizon
  BY DEF IInv
<1> QED
  BY Invariance, <1>1, PTL

\* A replay or a completion delivery leaves the deduplication lifetime only by
\* the delay of the task, for every policy (the sum of the rounds and the
\* elapsed() check, with the waits for the socket that follow it).
THEOREM SendsCorrect == Spec => []SendsWithinHorizon
<1>1. IInv => SendsWithinHorizon
  BY DEF IInv
<1> QED
  BY Invariance, <1>1, PTL

-----------------------------------------------------------------------------
(* Replies in time                                                         *)

\* A valid response in time that is not processed yet waits in the channel, and
\* for a task that is not late the horizon has not passed meanwhile. Without it
\* PromptTimeoutIsSilent is not inductive: the last round could end early.
ArrivalInv ==
    /\ pc \in Beginning => arrived = {}
    /\ lag = 0 /\ pc \in {"send", "loop", "recv"} /\ seenIds = {} /\ arrived # {} =>
           now < Horizon /\ \E i \in DOMAIN chan : Acceptable(chan[i])
    /\ PromptTimeoutIsSilent

\* A round that ends for a task that is not late ends with nothing in the
\* channel, or before the horizon.
LEMMA EndRoundArrival ==
    ASSUME TypeOK, RoundInv, TimeInv, ArrivalInv, EndRound,
           pc \in {"loop", "recv"}, now >= deadline,
           UNCHANGED <<now, lag, chan, targets, seenIds, arrived>>
    PROVE  ArrivalInv'
<1>1. \A r : Acceptable(r)' <=> Acceptable(r)
  BY DEF Acceptable, Allowed
<1>2. pc' \in {"send", "loop", "complete", "done"} /\ outcome' \in {outcome, "timeout"}
  BY DEF EndRound, Return
<1>3. ASSUME outcome' = "timeout", lag = 0 PROVE arrived = {}
  <2>1. best = NoResult /\ seenIds = {} /\ ~(round < ReplayCount)
        /\ ~(round = ReplayCount /\ FinalGap > 0)
    BY <1>3 DEF EndRound, RoundInv, Return
  <2>2. Nominal(round) = Horizon
    BY <2>1, Timeline, PolicyNumbers DEF TypeOK
  <2>3. Horizon \in Nat /\ Horizon <= deadline
    BY <2>2, Timeline DEF TimeInv
  <2>4. ~(now < Horizon)
    BY <2>3 DEF TypeOK
  <2> QED
    BY <1>3, <2>1, <2>4 DEF ArrivalInv
<1>4. PromptTimeoutIsSilent'
  BY <1>3 DEF PromptTimeoutIsSilent
<1> QED
  BY <1>1, <1>2, <1>4 DEF ArrivalInv, Beginning

\* A response that is received was the first in the channel.
LEMMA ReceiveArrival ==
    ASSUME TypeOK, RoundInv, ArrivalInv, Receive
    PROVE  ArrivalInv'
<1> DEFINE r == Head(chan)
<1>1. /\ pc = "recv" /\ chan # <<>> /\ chan \in Seq(ReplyType) /\ chan' = Tail(chan)
      /\ UNCHANGED <<targets, now, lag, arrived, outcome>>
      /\ pc' \in {"loop", "complete"}
  BY DEF Receive, timeVars, netVars, TypeOK
<1>2. \A q : Acceptable(q)' <=> Acceptable(q)
  BY <1>1 DEF Acceptable, Allowed
<1>3. seenIds' = {} => ~Acceptable(r) /\ seenIds = {}
  BY DEF Receive
<1>4. ASSUME ~Acceptable(r), NEW i \in DOMAIN chan, Acceptable(chan[i])
      PROVE  \E j \in DOMAIN chan' : Acceptable(chan'[j])
  <2>1. DOMAIN chan = 1..Len(chan) /\ Len(chan) \in Nat /\ r = chan[1]
    BY <1>1
  <2>2. i # 1
    BY <1>4, <2>1
  <2>3. i - 1 \in DOMAIN chan' /\ chan'[i - 1] = chan[i]
    BY <1>1, <2>1, <2>2
  <2> QED
    BY <1>4, <2>3
<1> HIDE DEF r
<1>5. PromptTimeoutIsSilent'
  BY <1>1 DEF ArrivalInv, PromptTimeoutIsSilent
<1> QED
  BY <1>1, <1>2, <1>3, <1>4, <1>5 DEF ArrivalInv, Beginning

\* Every step keeps what waits in the channel.
LEMMA ArrivalStep ==
    ASSUME TypeOK, RoundInv, TimeInv, ArrivalInv, [Next]_vars
    PROVE  ArrivalInv'
<1> USE DEF Return, localVars, timeVars, netVars, sendVars
<1>1. CASE Receive
  BY <1>1, ReceiveArrival
<1>2. CASE Loop /\ ~(now < deadline)
  BY <1>2, EndRoundArrival DEF Loop, TypeOK
<1>3. CASE Expire
  BY <1>3, EndRoundArrival DEF Expire
<1>4. ASSUME NEW r \in Replies, Reply(r) PROVE ArrivalInv'
  <2>1. /\ pc \in {"send", "loop", "recv", "complete", "deliver", "steer"} /\ chan \in Seq(ReplyType)
        /\ r \in ReplyType /\ chan' = Append(chan, r)
        /\ UNCHANGED <<pc, targets, seenIds, outcome, now, lag>>
        /\ arrived' = IF Acceptable(r) /\ now < Horizon THEN arrived \cup {r.id} ELSE arrived
    BY <1>4, EnvironmentAssumption DEF Reply, Registered, TypeOK
  <2>2. \A q : Acceptable(q)' <=> Acceptable(q)
    BY <2>1 DEF Acceptable, Allowed
  <2>3. /\ Len(chan) + 1 \in DOMAIN chan' /\ chan'[Len(chan) + 1] = r
        /\ \A i \in DOMAIN chan : i \in DOMAIN chan' /\ chan'[i] = chan[i]
    BY <2>1
  <2>4. outcome # "timeout"
    BY <2>1 DEF RoundInv
  <2>5. CASE Acceptable(r) /\ now < Horizon
    BY <2>1, <2>2, <2>3, <2>4, <2>5 DEF ArrivalInv, PromptTimeoutIsSilent, Beginning
  <2>6. CASE ~(Acceptable(r) /\ now < Horizon)
    BY <2>1, <2>2, <2>3, <2>4, <2>6 DEF ArrivalInv, PromptTimeoutIsSilent, Beginning
  <2> QED
    BY <2>5, <2>6
<1>5. CASE Tick
  <2>1. /\ UNCHANGED <<pc, targets, seenIds, outcome, chan, arrived>>
        /\ pc \in {"send", "loop", "recv", "complete", "deliver"}
        /\ lag' = IF Runnable THEN lag + 1 ELSE lag
        /\ lag \in Nat
    BY <1>5, EnvironmentAssumption DEF Tick, Timed, TypeOK
  <2>2. lag' = 0 => ~Runnable /\ lag = 0
    BY <2>1
  <2>3. ~Runnable => chan = <<>>
    BY DEF Runnable
  <2>4. outcome # "timeout"
    BY <2>1 DEF RoundInv
  <2>5. chan = <<>> => DOMAIN chan = {}
    OBVIOUS
  <2> QED
    BY <2>1, <2>2, <2>3, <2>4, <2>5 DEF ArrivalInv, PromptTimeoutIsSilent, Beginning
<1>6. ASSUME UNCHANGED <<targets, seenIds, now, lag, chan, arrived>>,
             pc' \in Beginning => pc \in Beginning,
             pc' \in {"send", "loop", "recv"} => pc \in {"send", "loop", "recv"} \cup Beginning,
             outcome' = "timeout" => outcome = "timeout"
      PROVE  ArrivalInv'
  <2>1. \A q : Acceptable(q)' <=> Acceptable(q)
    BY <1>6 DEF Acceptable, Allowed
  <2> QED
    BY <1>6, <2>1 DEF ArrivalInv, PromptTimeoutIsSilent
<1>7. CASE Validate \/ RefreshFails \/ Register \/ Complete \/ Steer \/ Cancel
  BY <1>6, <1>7 DEF Validate, RefreshFails, Register, Complete, Steer, Cancel, Beginning
<1>8. CASE Loop /\ now < deadline
  BY <1>6, <1>8 DEF Loop, Beginning
<1>9. ASSUME NEW fail, SendRound(fail) PROVE ArrivalInv'
  BY <1>6, <1>9 DEF SendRound, Beginning
<1>10. ASSUME NEW fail, Deliver(fail) PROVE ArrivalInv'
  BY <1>6, <1>10 DEF Deliver, Beginning
<1>11. ASSUME NEW m \in Memberships, Snapshot(m) PROVE ArrivalInv'
  BY <1>11 DEF Snapshot, ArrivalInv, PromptTimeoutIsSilent, Beginning
<1>12. CASE UNCHANGED vars
  BY <1>6, <1>12 DEF vars
<1> QED
  BY <1>1, <1>2, <1>3, <1>4, <1>5, <1>7, <1>8, <1>9, <1>10, <1>11, <1>12 DEF Next, TaskStep

\* A task that is never late reports no timeout when a valid response reached
\* its channel before the horizon, for every policy and every order of replies
\* (recv is polled before the timer, and the rounds leave no gap).
THEOREM PromptTimeouts == Spec => []PromptTimeoutIsSilent
<1>1. Init => ArrivalInv
  BY DEF Init, ArrivalInv, PromptTimeoutIsSilent, Beginning
<1>2. IInv /\ ArrivalInv /\ [Next]_vars => ArrivalInv'
  BY ArrivalStep DEF IInv
<1>3. ArrivalInv => PromptTimeoutIsSilent
  BY DEF ArrivalInv
<1> QED
  BY <1>1, <1>2, <1>3, Invariance, PTL DEF Spec

-----------------------------------------------------------------------------
(* Refinement                                                              *)

\* When a request has ended, and when it has its membership
PhaseInv ==
    /\ outcome = "none" <=> pc # "done"
    /\ pc \in {"start", "discover"} => targets = <<>>
    /\ pc \notin {"start", "discover", "done"} => targets # <<>>

\* Every step keeps the phases of a request in order.
LEMMA PhaseStep ==
    ASSUME TypeOK, PhaseInv, [Next]_vars
    PROVE  PhaseInv'
<1> USE DEF Return, localVars, PhaseInv
<1>1. CASE Loop
  BY <1>1 DEF Loop, EndRound
<1>2. CASE Expire
  BY <1>2 DEF Expire, EndRound
<1>3. CASE Receive
  BY <1>3 DEF Receive
<1>4. ASSUME NEW m \in Memberships, Snapshot(m) PROVE PhaseInv'
  BY <1>4 DEF Snapshot
<1>5. ASSUME NEW fail, SendRound(fail) \/ Deliver(fail) PROVE PhaseInv'
  BY <1>5 DEF SendRound, Deliver
<1>6. CASE Validate \/ RefreshFails \/ Register \/ Complete \/ Steer \/ Cancel
  BY <1>6 DEF Validate, RefreshFails, Register, Complete, Steer, Cancel
<1>7. CASE Tick \/ (\E r \in Replies : Reply(r)) \/ UNCHANGED vars
  BY <1>7 DEF Tick, Reply, vars
<1> QED
  BY <1>1, <1>2, <1>3, <1>4, <1>5, <1>6, <1>7 DEF Next, TaskStep

\* The servers of a snapshot are server ids, and a snapshot with an endpoint
\* has a server.
LEMMA AllowedIds ==
    ASSUME targets \in Seq(Endpoints)
    PROVE  /\ Allowed \subseteq ServerIds
           /\ targets = <<>> <=> Allowed = {}
<1>1. DOMAIN targets = 1..Len(targets) /\ Len(targets) \in Nat
  OBVIOUS
<1>2. \A i \in DOMAIN targets : targets[i] \in Endpoints
  OBVIOUS
<1>3. \A i \in DOMAIN targets : targets[i].id \in ServerIds
  BY <1>2, Zenon DEF Endpoints
<1>4. targets # <<>> => 1 \in DOMAIN targets
  BY <1>1
<1>5. Allowed \subseteq ServerIds
  BY <1>3 DEF Allowed
<1>6. targets = <<>> => Allowed = {}
  BY DEF Allowed
<1>7. targets # <<>> => Allowed # {}
  BY <1>4 DEF Allowed
<1> QED
  BY <1>5, <1>6, <1>7

\* What Admission sees of a step that neither hears a server nor ends the
\* request: nothing.
LEMMA Unseen ==
    ASSUME UNCHANGED <<targets, seenIds, outcome>>, outcome # "decision"
    PROVE  UNCHANGED A!vars
  BY DEF A!vars, Allowed, Verdict

\* A request that ends without a decision fails, or grants locally when it has
\* no servers, or times out when it has heard none.
LEMMA EndsUndecided ==
    ASSUME outcome = "none", UNCHANGED <<targets, seenIds>>,
           \/ outcome' \in {"protocol", "dns", "io", "steer_error", "cancelled"}
           \/ outcome' = "local_grant" /\ Allowed = {}
           \/ outcome' = "timeout" /\ Allowed # {} /\ seenIds = {}
    PROVE  A!Next
<1>1. Allowed' = Allowed
  BY DEF Allowed
<1>2. CASE outcome' \in {"protocol", "dns", "io", "steer_error", "cancelled"}
  <2>1. A!Fail
    BY <1>1, <1>2 DEF A!Fail, Verdict
  <2> QED
    BY <2>1 DEF A!Next
<1>3. CASE outcome' = "local_grant" /\ Allowed = {}
  <2>1. A!LocalGrant
    BY <1>1, <1>3 DEF A!LocalGrant, Verdict
  <2> QED
    BY <2>1 DEF A!Next
<1>4. CASE outcome' = "timeout" /\ Allowed # {} /\ seenIds = {}
  <2>1. A!TimeOut
    BY <1>1, <1>4 DEF A!TimeOut, Verdict
  <2> QED
    BY <2>1 DEF A!Next
<1> QED
  BY <1>2, <1>3, <1>4

\* Every step of a request is a step of Admission or unseen.
LEMMA AdmissionStep ==
    ASSUME IInv, PhaseInv, [Next]_vars
    PROVE  [A!Next]_(A!vars)
<1> USE DEF Return, localVars
<1>0. TypeOK /\ RoundInv /\ SelectedIsOldestHeard
  BY DEF IInv
<1>1. Allowed \subseteq ServerIds /\ (targets = <<>> <=> Allowed = {})
  BY <1>0, AllowedIds DEF TypeOK
<1>2. ASSUME EndRound, pc \in {"loop", "recv"}, UNCHANGED <<targets, seenIds>>
      PROVE  [A!Next]_(A!vars)
  <2>1. outcome = "none" /\ Allowed # {}
    BY <1>1, <1>2 DEF PhaseInv
  <2>2. outcome' = outcome \/ (outcome' = "timeout" /\ seenIds = {})
    BY <1>0, <1>2 DEF EndRound, RoundInv
  <2> QED
    BY <1>2, <2>1, <2>2, Unseen, EndsUndecided
<1>3. CASE Loop \/ Expire
  <2>1. CASE EndRound
    BY <1>2, <1>3, <2>1 DEF Loop, Expire
  <2>2. CASE Loop /\ outcome' = outcome
    BY <2>2, Unseen DEF Loop, PhaseInv
  <2> QED
    BY <1>3, <2>1, <2>2 DEF Loop, Expire
<1>4. CASE Receive
  <2> DEFINE r == Head(chan)
  <2>1. outcome = "none" /\ UNCHANGED <<targets, outcome>>
    BY <1>4 DEF Receive, PhaseInv
  <2>2. CASE UNCHANGED seenIds
    BY <2>1, <2>2, Unseen
  <2>3. CASE Acceptable(r)
    <3>1. seenIds' = seenIds \cup {r.id} /\ r.id \in Allowed
      BY <1>4, <2>3 DEF Receive, Acceptable
    <3>2. A!Hear(r.id)
      BY <2>1, <3>1 DEF A!Hear, Allowed, Verdict
    <3> QED
      BY <1>1, <3>1, <3>2 DEF A!Next
  <2> QED
    BY <1>4, <2>2, <2>3 DEF Receive
<1>5. ASSUME NEW m \in Memberships, Snapshot(m) PROVE [A!Next]_(A!vars)
  <2>1. /\ outcome = "none" /\ targets = <<>> /\ targets' = m
        /\ UNCHANGED seenIds
    BY <1>5 DEF Snapshot, PhaseInv
  <2>2. CASE m = <<>>
    <3>1. outcome' = "dns" /\ UNCHANGED targets
      BY <1>5, <2>1, <2>2 DEF Snapshot
    <3> QED
      BY <2>1, <3>1, EndsUndecided
  <2>3. CASE m # <<>>
    <3>1. outcome' = outcome
      BY <1>5, <2>3 DEF Snapshot
    <3>2. targets' \in Seq(Endpoints)
      BY <2>1, EnvironmentAssumption
    <3>3. Allowed' \subseteq ServerIds /\ Allowed' # {}
      <4>1. DOMAIN m = 1..Len(m) /\ Len(m) \in Nat
        BY <2>1, <3>2
      <4>2. \A i \in DOMAIN m : m[i] \in Endpoints
        BY <2>1, <3>2
      <4>3. \A i \in DOMAIN m : m[i].id \in ServerIds
        BY <4>2, Zenon DEF Endpoints
      <4>4. 1 \in DOMAIN m
        BY <2>1, <2>3, <3>2, <4>1
      <4> QED
        BY <2>1, <4>3, <4>4 DEF Allowed
    <3>4. A!Fix(Allowed')
      BY <1>1, <2>1, <3>1, <3>3 DEF A!Fix, Verdict
    <3> QED
      BY <3>3, <3>4 DEF A!Next
  <2> QED
    BY <2>2, <2>3
<1>6. ASSUME NEW fail, SendRound(fail) \/ Deliver(fail) PROVE [A!Next]_(A!vars)
  <2>1. /\ outcome = "none" /\ UNCHANGED <<targets, seenIds>>
        /\ outcome' = outcome \/ outcome' = "io"
    BY <1>6 DEF SendRound, Deliver, PhaseInv
  <2> QED
    BY <2>1, Unseen, EndsUndecided
<1>7. CASE Validate \/ RefreshFails \/ Register \/ Complete \/ Cancel
  <2>1. /\ outcome = "none" /\ UNCHANGED <<targets, seenIds>>
        /\ \/ outcome' \in {outcome, "protocol", "dns", "cancelled"}
           \/ outcome' = "local_grant" /\ Allowed = {}
    BY <1>1, <1>7 DEF Validate, RefreshFails, Register, Complete, Cancel, PhaseInv
  <2> QED
    BY <2>1, Unseen, EndsUndecided
<1>8. CASE Steer
  <2>1. outcome = "none" /\ UNCHANGED <<targets, seenIds, best>> /\ best # NoResult
    BY <1>0, <1>8 DEF Steer, PhaseInv, RoundInv
  <2>2. CASE outcome' = "steer_error"
    BY <2>1, <2>2, EndsUndecided
  <2>3. CASE outcome' = "decision"
    <3>1. /\ best.id \in seenIds /\ best.id \in ServerIds
          /\ \A id \in seenIds : ~Older(id, best.id)
      BY <1>0, <2>1 DEF SelectedIsOldestHeard, TypeOK
    <3>2. A!Decide(best.id)
      BY <2>1, <2>3, <3>1 DEF A!Decide, Allowed, Verdict
    <3> QED
      BY <3>1, <3>2 DEF A!Next
  <2> QED
    BY <1>8, <2>2, <2>3 DEF Steer
<1>9. CASE Tick \/ \E r \in Replies : Reply(r)
  <2>1. UNCHANGED <<targets, seenIds, outcome>> /\ outcome # "decision"
    BY <1>0, <1>9 DEF Tick, Reply, RoundInv, Timed, Registered
  <2> QED
    BY <2>1, Unseen
<1>10. CASE UNCHANGED vars
  BY <1>10 DEF vars, A!vars, Allowed, Verdict
<1> QED
  BY <1>3, <1>4, <1>5, <1>6, <1>7, <1>8, <1>9, <1>10 DEF Next, TaskStep

\* Every behaviour of a request is one of Admission: for every policy, every
\* membership and every order of replies, delays, refused sends and
\* cancellations, _check_rate_limit_with_retries fixes its servers once, ends
\* at most once, and its decision is the one of the oldest server heard.
THEOREM Refinement == Spec => A!Safety
<1>1. Init => PhaseInv /\ A!Init
  BY DEF Init, PhaseInv, A!Init, Allowed, Verdict
<1>2. IInv /\ PhaseInv /\ [Next]_vars => PhaseInv' /\ [A!Next]_(A!vars)
  BY PhaseStep, AdmissionStep DEF IInv
<1> QED
  BY <1>1, <1>2, Invariance, PTL DEF Spec, A!Safety
-----------------------------------------------------------------------------
(* Partial delivery                                                        *)

\* Every address of the snapshot was reached by a send, or its server has a
\* send failure to its account, from the end of the first sends on
Delivered ==
    \A i \in DOMAIN targets :
        copies[targets[i].addr] = 0 => sendFailures[TargetId(targets[i].addr)] > 0

DeliveryInv ==
    pc \in {"loop", "recv", "complete", "deliver", "steer"} \/ (pc = "send" /\ round > 0) => Delivered

\* target_server_ids has a server for every address of the snapshot.
LEMMA TargetIds ==
    ASSUME targets \in Seq(Endpoints), NEW i \in DOMAIN targets
    PROVE  /\ targets[i].addr \in Addrs
           /\ TargetId(targets[i].addr) \in ServerIds
<1> DEFINE a == targets[i].addr
           at == {j \in DOMAIN targets : targets[j].addr = a}
           N == Len(targets)
           T == {n \in Nat : N - n \in at}
<1>1. N \in Nat /\ DOMAIN targets = 1..N
  OBVIOUS
<1>2. \A j \in DOMAIN targets : targets[j] \in Endpoints
  OBVIOUS
<1>3. \A j \in DOMAIN targets : targets[j].id \in ServerIds /\ targets[j].addr \in Addrs
  BY <1>2, Zenon DEF Endpoints
<1>4. i \in at /\ \A j \in at : j \in 1..N
  BY <1>1
<1> HIDE DEF at, N
<1>5. N - i \in T
  BY <1>1, <1>4
<1>6. PICK n \in T : \A m \in T : n <= m
  BY <1>5, LeastNatural
<1>7. N - n \in at
  BY <1>6
<1>8. ASSUME NEW j \in at PROVE j <= N - n
  <2>1. N - j \in T
    BY <1>1, <1>4
  <2>2. n <= N - j
    BY <1>6, <2>1
  <2> QED
    BY <1>1, <1>4, <1>6, <2>2
<1>9. \E l \in at : \A j \in at : j <= l
  BY <1>7, <1>8
<1> DEFINE last == CHOOSE l \in at : \A j \in at : j <= l
<1>10. last \in at
  BY <1>9
<1>11. TargetId(a) = targets[last].id
  BY DEF TargetId, at
<1>12. last \in DOMAIN targets
  BY <1>10 DEF at
<1> HIDE DEF last
<1> QED
  BY <1>3, <1>11, <1>12

\* The server of an address stays the same while the snapshot does.
LEMMA SameTargetId ==
    ASSUME UNCHANGED targets, NEW i
    PROVE  (TargetId(targets[i].addr))' = TargetId(targets[i].addr)
  BY DEF TargetId

\* send_to_missing only adds to the counters.
LEMMA CountersGrow ==
    ASSUME TypeOK, NEW fail, SendToMissing(fail)
    PROVE  /\ \A a \in Addrs : copies'[a] >= copies[a]
           /\ \A id \in ServerIds : sendFailures'[id] >= sendFailures[id]
<1> DEFINE copied(a) == Cardinality({i \in Missing \ fail : targets[i].addr = a})
           failed(id) == Cardinality({i \in fail : TargetId(targets[i].addr) = id})
<1>1. Missing \ fail \subseteq DOMAIN targets /\ fail \subseteq DOMAIN targets
  BY DEF SendToMissing, Missing
<1>2. \A a \in Addrs : copied(a) \in Nat
  BY <1>1, CountPositions DEF TypeOK
<1>3. \A id \in ServerIds : failed(id) \in Nat
  BY <1>1, CountPositions DEF TypeOK
<1>4. copies' = [a \in Addrs |-> copies[a] + copied(a)]
  BY Zenon DEF SendToMissing
<1>5. \/ sendFailures' = sendFailures
      \/ sendFailures' = [id \in ServerIds |-> sendFailures[id] + failed(id)]
  BY Zenon DEF SendToMissing
<1> HIDE DEF copied, failed
<1>6. \A a \in Addrs : copies'[a] >= copies[a]
  BY <1>2, <1>4 DEF TypeOK
<1>7. \A id \in ServerIds : sendFailures'[id] >= sendFailures[id]
  BY <1>3, <1>5 DEF TypeOK
<1> QED
  BY <1>6, <1>7

\* Later sends keep what the first one delivered or counted.
LEMMA StaysDelivered ==
    ASSUME TypeOK, TypeOK', Delivered, UNCHANGED targets,
           \/ \E fail : SendToMissing(fail)
           \/ UNCHANGED <<copies, sendFailures>>
    PROVE  Delivered'
<1>1. /\ \A a \in Addrs : copies'[a] >= copies[a]
      /\ \A id \in ServerIds : sendFailures'[id] >= sendFailures[id]
  <2>1. CASE UNCHANGED <<copies, sendFailures>>
    BY <2>1 DEF TypeOK
  <2> QED
    BY <2>1, CountersGrow
<1> SUFFICES ASSUME NEW i \in DOMAIN targets, copies'[targets[i].addr] = 0
             PROVE  sendFailures'[TargetId(targets[i].addr)] > 0
  BY SameTargetId DEF Delivered
<1> DEFINE a == targets[i].addr
           id == TargetId(a)
<1>2. a \in Addrs /\ id \in ServerIds
  BY TargetIds DEF TypeOK
<1>3. copies[a] = 0 => sendFailures[id] > 0
  BY DEF Delivered
<1> HIDE DEF a, id
<1>4. copies[a] \in Nat /\ sendFailures[id] \in Nat /\ sendFailures'[id] \in Nat
  BY <1>2 DEF TypeOK
<1>5. copies'[a] = 0
  BY DEF a
<1>6. sendFailures'[id] > 0
  BY <1>1, <1>2, <1>3, <1>4, <1>5
<1> QED
  BY <1>6 DEF a, id

\* The first sends of a request go to every target: nothing was heard yet.
LEMMA FirstSends ==
    ASSUME TypeOK, TypeOK', seenIds = {}, targets # <<>>, UNCHANGED targets,
           NEW fail, SendToMissing(fail), ~NothingSent(fail)
    PROVE  Delivered'
<1>1. Missing = DOMAIN targets
  BY DEF Missing
<1>2. DOMAIN targets # {}
  <2>1. DOMAIN targets = 1..Len(targets) /\ Len(targets) \in Nat /\ targets \in Seq(Endpoints)
    BY DEF TypeOK
  <2>2. Len(targets) # 0
    BY <2>1
  <2> QED
    BY <2>1, <2>2
<1>3. fail \subseteq DOMAIN targets /\ Missing \ fail # {}
  BY <1>1, <1>2 DEF SendToMissing, NothingSent
<1> SUFFICES ASSUME NEW i \in DOMAIN targets, copies'[targets[i].addr] = 0
             PROVE  sendFailures'[TargetId(targets[i].addr)] > 0
  BY SameTargetId DEF Delivered
<1> DEFINE a == targets[i].addr
           id == TargetId(a)
           hit == {j \in Missing \ fail : targets[j].addr = a}
           lost == {j \in fail : TargetId(targets[j].addr) = id}
<1>4. a \in Addrs /\ id \in ServerIds
  BY TargetIds DEF TypeOK
<1>5. copies'[a] = copies[a] + Cardinality(hit)
  BY <1>4, Zenon DEF SendToMissing
<1>6. sendFailures'[id] = sendFailures[id] + Cardinality(lost)
  BY <1>3, <1>4, Zenon DEF SendToMissing
<1>7. hit \subseteq DOMAIN targets /\ lost \subseteq DOMAIN targets
  BY <1>1, <1>3
<1>8. /\ IsFiniteSet(hit) /\ Cardinality(hit) \in Nat /\ (Cardinality(hit) = 0 => hit = {})
      /\ IsFiniteSet(lost) /\ Cardinality(lost) \in Nat /\ (Cardinality(lost) = 0 => lost = {})
  <2>1. DOMAIN targets = 1..Len(targets) /\ Len(targets) \in Nat
    BY DEF TypeOK
  <2>2. IsFiniteSet(DOMAIN targets)
    BY <2>1, FS_Interval
  <2>3. IsFiniteSet(hit) /\ IsFiniteSet(lost)
    BY <1>7, <2>2, FS_Subset
  <2> HIDE DEF hit, lost
  <2> QED
    BY <2>3, FS_CardinalityType, FS_EmptySet
<1>9. hit = {} => i \in lost
  BY <1>1
<1>10. copies[a] \in Nat /\ sendFailures[id] \in Nat
  BY <1>4 DEF TypeOK
<1>11. copies'[a] = 0
  OBVIOUS
<1> HIDE DEF hit, lost, a, id
<1>12. hit = {}
  BY <1>5, <1>8, <1>10, <1>11
<1>13. Cardinality(lost) # 0
  BY <1>8, <1>9, <1>12
<1>14. sendFailures'[id] > 0
  BY <1>6, <1>8, <1>10, <1>13
<1> QED
  BY <1>14 DEF a, id

\* Every step keeps the account of the sends.
LEMMA DeliveryStep ==
    ASSUME TypeOK, TypeOK', RoundInv, PhaseInv, DeliveryInv, [Next]_vars
    PROVE  DeliveryInv'
<1> USE DEF Return, localVars, timeVars, netVars, sendVars
<1>1. ASSUME NEW fail, SendRound(fail) PROVE DeliveryInv'
  <2>1. /\ pc = "send" /\ SendToMissing(fail) /\ UNCHANGED <<targets, round>>
        /\ pc' \in {"loop", "done"} /\ (pc' = "loop" => ~NothingSent(fail))
    BY <1>1 DEF SendRound
  <2>2. CASE round > 0
    <3>1. Delivered
      BY <2>1, <2>2 DEF DeliveryInv
    <3>2. Delivered'
      BY <2>1, <3>1, StaysDelivered
    <3> QED
      BY <3>2 DEF DeliveryInv
  <2>3. CASE round = 0 /\ pc' = "loop"
    <3>1. seenIds = {} /\ targets # <<>>
      BY <2>1 DEF RoundInv, PhaseInv
    <3>2. Delivered'
      BY <2>1, <2>3, <3>1, FirstSends
    <3> QED
      BY <3>2 DEF DeliveryInv
  <2>4. CASE pc' = "done"
    BY <2>4 DEF DeliveryInv
  <2> QED
    BY <2>1, <2>2, <2>3, <2>4 DEF TypeOK
<1>2. ASSUME NEW fail, Deliver(fail) PROVE DeliveryInv'
  <2>1. pc = "deliver" /\ UNCHANGED targets /\ SendToMissing(fail)
    BY <1>2 DEF Deliver
  <2>2. Delivered
    BY <2>1 DEF DeliveryInv
  <2>3. Delivered'
    BY <2>1, <2>2, StaysDelivered
  <2> QED
    BY <2>3 DEF DeliveryInv
<1>3. ASSUME UNCHANGED <<targets, copies, sendFailures>>,
             pc' \in {"loop", "recv", "complete", "deliver", "steer"} \/ (pc' = "send" /\ round' > 0) =>
                 pc \in {"loop", "recv", "complete", "deliver", "steer"} \/ (pc = "send" /\ round > 0)
      PROVE  DeliveryInv'
  <2>1. Delivered => Delivered'
    BY <1>3, StaysDelivered
  <2> QED
    BY <1>3, <2>1 DEF DeliveryInv
<1>4. CASE Validate \/ RefreshFails \/ Complete \/ Steer \/ Cancel
  BY <1>3, <1>4 DEF Validate, RefreshFails, Complete, Steer, Cancel
<1>5. CASE Register
  BY <1>3, <1>5 DEF Register, RoundInv, Beginning
<1>6. CASE Loop
  BY <1>3, <1>6 DEF Loop
<1>7. CASE Expire
  BY <1>3, <1>7 DEF Expire
<1>8. CASE Receive
  BY <1>3, <1>8 DEF Receive
<1>9. ASSUME NEW m \in Memberships, Snapshot(m) PROVE DeliveryInv'
  BY <1>9 DEF Snapshot, DeliveryInv
<1>10. CASE Tick
  BY <1>3, <1>10 DEF Tick
<1>11. ASSUME NEW r \in Replies, Reply(r) PROVE DeliveryInv'
  BY <1>3, <1>11 DEF Reply
<1>12. CASE UNCHANGED vars
  BY <1>3, <1>12 DEF vars
<1> QED
  BY <1>1, <1>2, <1>4, <1>5, <1>6, <1>7, <1>8, <1>9, <1>10, <1>11, <1>12 DEF Next, TaskStep

\* When a response is selected, every address of the snapshot was sent to or
\* its server shows a send failure, for every membership and every pattern of
\* refused sends (send_to_missing records errors once something was sent).
THEOREM PartialDelivery == Spec => []PartialDeliveryVisible
<1>1. Init => PhaseInv /\ DeliveryInv
  BY DEF Init, PhaseInv, DeliveryInv
<1>2. IInv /\ IInv' /\ PhaseInv /\ DeliveryInv /\ [Next]_vars => PhaseInv' /\ DeliveryInv'
  BY PhaseStep, DeliveryStep DEF IInv
<1>3. DeliveryInv => PartialDeliveryVisible
  BY DEF DeliveryInv, Delivered, PartialDeliveryVisible
<1> QED
  BY <1>1, <1>2, <1>3, Invariance, PTL DEF Spec
=============================================================================
