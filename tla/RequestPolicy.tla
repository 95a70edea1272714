---------------------------- MODULE RequestPolicy ----------------------------
(***************************************************************************)
(* The HA request policy of request_policy.rs: replay-gap schedules, the   *)
(* request horizon, and the three places that validate it (policy builder, *)
(* client builder, every request).                                         *)
(*                                                                         *)
(* u32 and u64 are scaled to the constants U32Max and U64Max; arithmetic   *)
(* the code does unchecked wraps at that width, so that an overflow would  *)
(* show as a wrong value.                                                  *)
(***************************************************************************)
EXTENDS Integers

CONSTANTS
    U32Max,             \* u32::MAX, scaled
    U64Max,             \* u64::MAX, scaled
    MAX_REPLAY_COUNT,   \* 65535 in the code, scaled
    Schedules,          \* the schedules an application may configure
    Units,              \* the Durations an application may pass to unit()
    ReplayCounts,       \* the values it may pass to replays()
    FinalUnits,         \* the values it may pass to final_receive_units()
    DedupLimits         \* dedup_ttl_ms_max of the API keys considered

ASSUME WidthAssumption ==
    /\ U32Max \in Nat /\ U64Max \in Nat
    /\ 0 < U32Max /\ U32Max <= U64Max
    /\ MAX_REPLAY_COUNT \in 0..U32Max

\* The types of the fields and of the builders' parameters: u32, and a Duration
\* for the unit
ASSUME ConfigAssumption ==
    /\ Schedules \subseteq [kind : {"Fixed", "Linear", "Exponential"}, initial_units : 0..U32Max,
                            max_units : 0..U32Max, growth : 0..U32Max]
    /\ Units \subseteq [ms : Nat, sub : BOOLEAN]
    /\ ReplayCounts \subseteq 0..U32Max
    /\ FinalUnits \subseteq 0..U32Max
    /\ DedupLimits \subseteq 0..U32Max

Wrap32(x) == x % (U32Max + 1)

-----------------------------------------------------------------------------
(* Schedule                                                                *)

fixed(units) ==
    [kind |-> "Fixed", initial_units |-> units, max_units |-> units, growth |-> 0]

linear(initial, step, max) ==
    [kind |-> "Linear", initial_units |-> initial, max_units |-> max, growth |-> step]

exponential(initial, factor, max) ==
    [kind |-> "Exponential", initial_units |-> initial, max_units |-> max, growth |-> factor]

\* The error returns of Schedule::units: they do not depend on the round.
ScheduleValid(s) ==
    /\ s.initial_units # 0
    /\ s.max_units >= s.initial_units
    /\ s.kind = "Fixed" => s.max_units = s.initial_units /\ s.growth = 0
    /\ s.kind = "Linear" => s.growth # 0
    /\ s.kind = "Exponential" => s.growth >= 2

\* Mutant: the sum is taken first and capped afterwards
BugLinearUnits(s, round) ==
    LET value == Wrap32(s.initial_units + Wrap32(round * s.growth))
    IN  IF value > s.max_units THEN s.max_units ELSE value

LinearUnits(s, round) ==
    LET room == s.max_units - s.initial_units IN
    IF round > room \div s.growth
      THEN s.max_units
      ELSE Wrap32(s.initial_units + Wrap32(round * s.growth))

\* The loop of the exponential branch. Its early return of max_units is the
\* fixed point of the step: a value at the cap stays there.
ExponentialUnits(s, round) ==
    LET value[n \in 0..round] ==
            IF n = 0 THEN s.initial_units
            ELSE LET v == value[n - 1] IN
                 IF v >= s.max_units \/ v > s.max_units \div s.growth
                   THEN s.max_units
                   ELSE Wrap32(v * s.growth)
    IN  IF value[round] < s.max_units THEN value[round] ELSE s.max_units

\* Schedule::units, for a schedule that ScheduleValid accepts.
units(s, round) ==
    CASE s.kind = "Fixed"       -> s.initial_units
      [] s.kind = "Linear"      -> LinearUnits(s, round)
      [] s.kind = "Exponential" -> ExponentialUnits(s, round)

-----------------------------------------------------------------------------
(* Horizon                                                                 *)

\* sum of units(0..round), the accumulator of horizon_ms after that round
RoundUnits(p, round) ==
    LET total[n \in 0..round] ==
            units(p.replay_gap, n) + (IF n = 0 THEN 0 ELSE total[n - 1])
    IN  total[round]

TotalUnits(p) == p.final_receive_units + RoundUnits(p, p.replay_count)

InvalidRequestPolicy == [ok |-> FALSE, error |-> "InvalidRequestPolicy"]
ExceedsApiKey        == [ok |-> FALSE, error |-> "RequestPolicyExceedsApiKey"]

\* Mutants: the final phase is left out; the key's limit is exclusive; the
\* u32 range and the key's limit are not checked
BugHorizonNoFinal(p, dedup_ttl_ms_max) ==
    IF ~ScheduleValid(p.replay_gap) \/ p.replay_count > MAX_REPLAY_COUNT \/ p.unit_ms = 0
      THEN InvalidRequestPolicy
      ELSE LET horizon == RoundUnits(p, p.replay_count) * p.unit_ms
           IN  IF horizon > dedup_ttl_ms_max THEN ExceedsApiKey ELSE [ok |-> TRUE, ms |-> horizon]

BugHorizonStrict(p, dedup_ttl_ms_max) ==
    IF ~ScheduleValid(p.replay_gap) \/ p.replay_count > MAX_REPLAY_COUNT \/ p.unit_ms = 0
      THEN InvalidRequestPolicy
      ELSE LET horizon == TotalUnits(p) * p.unit_ms
           IN  IF horizon >= dedup_ttl_ms_max THEN ExceedsApiKey ELSE [ok |-> TRUE, ms |-> horizon]

\* RequestPolicy::horizon_ms, every early return in the code's order.
horizon_ms(p, dedup_ttl_ms_max) ==
    IF p.unit_ms = 0 \/ p.replay_count > MAX_REPLAY_COUNT \/ dedup_ttl_ms_max = 0
      THEN InvalidRequestPolicy
    ELSE IF ~ScheduleValid(p.replay_gap) THEN InvalidRequestPolicy
    ELSE LET total   == TotalUnits(p)
             horizon == total * p.unit_ms
         IN  IF total > U64Max \/ horizon > U64Max THEN InvalidRequestPolicy
             ELSE IF total = 0 \/ horizon > U32Max THEN InvalidRequestPolicy
             ELSE IF horizon > dedup_ttl_ms_max THEN ExceedsApiKey
             ELSE [ok |-> TRUE, ms |-> horizon]

-----------------------------------------------------------------------------
(* From an application's configuration to a request's deduplication TTL.   *)

VARIABLES
    stage,     \* "configured", "policy", "client", "sending" or "rejected"
    config,    \* what the application passed to the builders
    policy,    \* the RequestPolicy built, or NoPolicy
    ttl        \* dedup_ttl_ms of the request sent, 0 before

vars == <<stage, config, policy, ttl>>

NoPolicy == [unit_ms |-> 0]

\* A Duration is [ms, sub]: whole milliseconds, and whether the nanoseconds
\* leave a remainder.
Configs ==
    [unit : Units, replay_count : ReplayCounts, replay_gap : Schedules,
     final_receive_units : FinalUnits, dedup_ttl_ms_max : DedupLimits]

Init ==
    /\ stage = "configured"
    /\ config \in Configs
    /\ policy = NoPolicy
    /\ ttl = 0

BuilderPolicy ==
    [unit_ms |-> config.unit.ms, replay_count |-> config.replay_count,
     replay_gap |-> config.replay_gap,
     final_receive_units |-> config.final_receive_units]

\* Duration::is_zero, is_multiple_of(1_000_000) and the u64 range check
UnitValid(d) == ~d.sub /\ d.ms # 0 /\ d.ms <= U64Max

\* RequestPolicyBuilder::build
BuildPolicy ==
    /\ stage = "configured"
    /\ IF UnitValid(config.unit) /\ horizon_ms(BuilderPolicy, U32Max).ok
         THEN stage' = "policy" /\ policy' = BuilderPolicy
         ELSE stage' = "rejected" /\ UNCHANGED policy
    /\ UNCHANGED <<config, ttl>>

\* ClientBuilder::build checks the horizon against the key, and CoreClient::new
\* repeats the check on the same two values.
BuildClient ==
    /\ stage = "policy"
    /\ stage' = IF horizon_ms(policy, config.dedup_ttl_ms_max).ok
                  THEN "client" ELSE "rejected"
    /\ UNCHANGED <<config, policy, ttl>>

\* A request computes the horizon once more; the value goes on the wire.
SendRequest ==
    /\ stage = "client"
    /\ LET h == horizon_ms(policy, config.dedup_ttl_ms_max) IN
       /\ h.ok
       /\ ttl' = h.ms
    /\ stage' = "sending"
    /\ UNCHANGED <<config, policy>>

Next == BuildPolicy \/ BuildClient \/ SendRequest

Spec == Init /\ [][Next]_vars

-----------------------------------------------------------------------------
(* Properties                                                              *)

TypeOK ==
    /\ stage \in {"configured", "policy", "client", "sending", "rejected"}
    /\ config \in Configs
    /\ policy = NoPolicy \/ policy = BuilderPolicy
    /\ ttl \in 0..U32Max

Power(base, exponent) ==
    LET power[n \in 0..exponent] == IF n = 0 THEN 1 ELSE base * power[n - 1]
    IN  power[exponent]

\* What the schedules promise, in exact arithmetic
IdealUnits(s, round) ==
    LET exact == CASE s.kind = "Fixed"       -> s.initial_units
                   [] s.kind = "Linear"      -> s.initial_units + round * s.growth
                   [] s.kind = "Exponential" -> s.initial_units * Power(s.growth, round)
    IN  IF exact < s.max_units THEN exact ELSE s.max_units

IdealHorizon(c) ==
    LET total[n \in 0..c.replay_count] ==
            IdealUnits(c.replay_gap, n) + (IF n = 0 THEN 0 ELSE total[n - 1])
    IN  c.unit.ms * (total[c.replay_count] + c.final_receive_units)

\* Every gap of an accepted policy is the schedule's exact value, capped: the
\* u32 arithmetic of Schedule::units never wraps.
UnitsAreExact ==
    policy # NoPolicy =>
        \A round \in 0..policy.replay_count :
            units(policy.replay_gap, round) = IdealUnits(policy.replay_gap, round)

\* The deduplication lifetime on the wire is U x (B(0) + ... + B(N) + F) of the
\* configured policy, exactly.
TtlIsHorizon == stage = "sending" => ttl = IdealHorizon(config)

\* The builders accept exactly the configurations whose schedule is valid and
\* whose exact horizon fits the wire and the API key.
AcceptedIffWithinLimits ==
    stage \in {"client", "sending", "rejected"} =>
        (stage # "rejected" <=>
            /\ ~config.unit.sub /\ config.unit.ms > 0
            /\ config.replay_count <= MAX_REPLAY_COUNT
            /\ ScheduleValid(config.replay_gap)
            /\ config.dedup_ttl_ms_max > 0
            /\ IdealHorizon(config) <= config.dedup_ttl_ms_max)
=============================================================================
