------------------------- MODULE RequestPolicyProofs -------------------------
(***************************************************************************)
(* Proofs about RequestPolicy, for every schedule, unit, number of replays *)
(* and key limit, at any width of the integers.                            *)
(***************************************************************************)
EXTENDS RequestPolicy, Induction

ScheduleType ==
    [kind : {"Fixed", "Linear", "Exponential"}, initial_units : 0..U32Max,
     max_units : 0..U32Max, growth : 0..U32Max]

Capped(n, max) == IF n < max THEN n ELSE max

\* What an application may configure has the types of the code.
LEMMA ConfigFields ==
    ASSUME NEW c \in Configs
    PROVE  /\ c.replay_gap \in ScheduleType
           /\ c.replay_count \in Nat
           /\ c.final_receive_units \in Nat
           /\ c.dedup_ttl_ms_max \in 0..U32Max
           /\ c.unit.ms \in Nat
           /\ c.unit.sub \in BOOLEAN
<1>1. /\ c.replay_gap \in Schedules /\ c.replay_count \in ReplayCounts
      /\ c.final_receive_units \in FinalUnits /\ c.dedup_ttl_ms_max \in DedupLimits
      /\ c.unit \in Units
  BY DEF Configs
<1>2. Schedules \subseteq ScheduleType
  BY ConfigAssumption DEF ScheduleType
<1>3. c.unit \in [ms : Nat, sub : BOOLEAN]
  BY <1>1, ConfigAssumption
<1>4. /\ c.replay_count \in 0..U32Max /\ c.final_receive_units \in 0..U32Max
      /\ c.dedup_ttl_ms_max \in 0..U32Max
  BY <1>1, ConfigAssumption
<1>5. c.unit.ms \in Nat /\ c.unit.sub \in BOOLEAN
  BY <1>3
<1> QED
  BY <1>1, <1>2, <1>4, <1>5, WidthAssumption

-----------------------------------------------------------------------------
(* Arithmetic                                                              *)

\* A u32 that is in range does not wrap.
LEMMA NoWrap ==
    ASSUME NEW x \in 0..U32Max
    PROVE  Wrap32(x) = x
  BY WidthAssumption DEF Wrap32

\* The check before the product is exact: it holds iff the product is too large.
LEMMA DivisionCheck ==
    ASSUME NEW v \in Nat, NEW g \in Nat, g > 0, NEW room \in Nat
    PROVE  v > room \div g <=> v * g > room
<1> DEFINE q == room \div g
<1>1. q \in Nat /\ g * q <= room /\ room < g * q + g
  OBVIOUS
<1> HIDE DEF q
<1>2. CASE v > q
  <2>1. PICK d \in Nat : v = q + 1 + d
    <3>1. v - q - 1 \in Nat /\ v = q + 1 + (v - q - 1)
      BY <1>1, <1>2
    <3> QED
      BY <3>1
  <2>2. v * g = g * q + g + d * g /\ d * g \in Nat
    BY <1>1, <2>1
  <2> QED
    BY <1>1, <1>2, <2>2 DEF q
<1>3. CASE ~(v > q)
  <2>1. PICK d \in Nat : q = v + d
    <3>1. q - v \in Nat /\ q = v + (q - v)
      BY <1>1, <1>3
    <3> QED
      BY <3>1
  <2>2. g * q = v * g + d * g /\ d * g \in Nat
    BY <1>1, <2>1
  <2> QED
    BY <1>1, <1>3, <2>2 DEF q
<1> QED
  BY <1>2, <1>3

\* Powers are what their recursion says.
IsPower(power, base, exponent) ==
    /\ power \in [0..exponent -> Nat]
    /\ power[0] = 1
    /\ \A n \in 1..exponent : power[n] = base * power[n - 1]
    /\ Power(base, exponent) = power[exponent]

\* Power has a table of all smaller powers, each the previous one times base.
LEMMA PowerExists ==
    ASSUME NEW base \in Nat, NEW exponent \in Nat
    PROVE  \E power : IsPower(power, base, exponent)
<1> DEFINE step == [x \in Nat \X Nat |-> base * x[2]]
           Is(power) == power = [n \in 0..exponent |-> IF n = 0 THEN 1 ELSE base * power[n - 1]]
           p == CHOOSE power : Is(power)
<1>1. step \in [Nat \X Nat -> Nat]
  OBVIOUS
<1>2. PICK f : Solves(f, exponent, Nat, 1, step)
  <2> HIDE DEF step
  <2> QED
    BY <1>1, Recursion
<1>3. f \in [0..exponent -> Nat] /\ f[0] = 1 /\ \A n \in 1..exponent : f[n] = base * f[n - 1]
  <2>1. f \in [0..exponent -> Nat] /\ f[0] = 1
    BY <1>2 DEF Solves
  <2>2. ASSUME NEW n \in 1..exponent PROVE f[n] = base * f[n - 1]
    <3>1. <<n, f[n - 1]>> \in Nat \X Nat
      BY <2>1
    <3>2. f[n] = step[<<n, f[n - 1]>>]
      BY <1>2 DEF Solves
    <3> QED
      BY <3>1, <3>2
  <2> QED
    BY <2>1, <2>2
<1>4. Is(f)
  BY <1>3
<1>5. Is(p)
  <2> HIDE DEF Is
  <2> QED
    BY <1>4, Zenon
<1> HIDE DEF p
<1>6. p[0] = 1 /\ \A n \in 1..exponent : p[n] = base * p[n - 1]
  BY <1>5
<1> DEFINE T == {n \in 0..exponent : p[n] \in Nat}
<1>7. 0..exponent \subseteq T
  <2>1. 0 \in T
    BY <1>6
  <2>2. ASSUME NEW n \in 0..exponent - 1, n \in T PROVE n + 1 \in T
    <3>1. n + 1 \in 1..exponent /\ (n + 1) - 1 = n
      OBVIOUS
    <3>2. p[n + 1] = base * p[n] /\ p[n] \in Nat
      BY <1>6, <2>2, <3>1
    <3> QED
      BY <3>1, <3>2
  <2> HIDE DEF T
  <2> QED
    BY <2>1, <2>2, UpTo
<1>8. p \in [0..exponent -> Nat]
  BY <1>5, <1>7
<1>9. Power(base, exponent) = p[exponent]
  BY DEF Power, p
<1> QED
  BY <1>6, <1>8, <1>9 DEF IsPower

-----------------------------------------------------------------------------
(* Schedules                                                               *)

\* The linear branch of Schedule::units is exact: it compares before it
\* multiplies.
LEMMA LinearExact ==
    ASSUME NEW s \in ScheduleType, ScheduleValid(s), s.kind = "Linear", NEW round \in Nat
    PROVE  LinearUnits(s, round) = Capped(s.initial_units + round * s.growth, s.max_units)
<1> DEFINE i == s.initial_units
           m == s.max_units
           g == s.growth
<1>1. /\ i \in 0..U32Max /\ m \in 0..U32Max /\ g \in 0..U32Max /\ g # 0 /\ m >= i
  BY DEF ScheduleType, ScheduleValid
<1>2. LinearUnits(s, round) = IF round > (m - i) \div g THEN m ELSE Wrap32(i + Wrap32(round * g))
  BY DEF LinearUnits
<1> HIDE DEF i, m, g
<1>3. /\ i \in Nat /\ m \in Nat /\ g \in Nat /\ g > 0 /\ m - i \in Nat /\ m <= U32Max /\ U32Max \in Nat
  BY <1>1, WidthAssumption
<1> DEFINE x == round * g
<1>4. x \in Nat
  BY <1>3
<1>5. round > (m - i) \div g <=> x > m - i
  BY <1>3, DivisionCheck
<1> HIDE DEF x
<1>6. CASE x > m - i
  BY <1>2, <1>3, <1>4, <1>5, <1>6 DEF Capped, i, m, g, x
<1>7. CASE ~(x > m - i)
  <2>1. x \in 0..U32Max /\ i + x \in 0..U32Max /\ i + x <= m
    BY <1>3, <1>4, <1>7
  <2>2. Wrap32(i + Wrap32(x)) = i + x
    BY <2>1, NoWrap
  <2>3. LinearUnits(s, round) = i + x
    BY <1>2, <1>5, <1>7, <2>2 DEF x
  <2>4. Capped(i + x, m) = i + x
    BY <1>3, <1>4, <2>1 DEF Capped
  <2> QED
    BY <2>3, <2>4 DEF i, m, g, x
<1> QED
  BY <1>6, <1>7

\* One round of the exponential branch, on a value that is capped already
ExponentialStep(s, v) ==
    IF v >= s.max_units \/ v > s.max_units \div s.growth THEN s.max_units ELSE Wrap32(v * s.growth)

\* The step neither wraps nor exceeds the cap, and agrees with the exact product.
LEMMA ExponentialStepExact ==
    ASSUME NEW s \in ScheduleType, ScheduleValid(s), s.kind = "Exponential", NEW e \in Nat
    PROVE  ExponentialStep(s, Capped(e, s.max_units)) = Capped(e * s.growth, s.max_units)
<1> DEFINE m == s.max_units
           g == s.growth
           v == Capped(e, m)
<1>1. m \in 0..U32Max /\ g \in 0..U32Max /\ g >= 2
  BY DEF ScheduleType, ScheduleValid
<1>2. ExponentialStep(s, v) = IF v >= m \/ v > m \div g THEN m ELSE Wrap32(v * g)
  BY DEF ExponentialStep
<1> HIDE DEF m, g
<1>3. m \in Nat /\ g \in Nat /\ g > 0 /\ U32Max \in Nat
  BY <1>1, WidthAssumption
<1>4. v \in Nat /\ v <= e
  BY <1>3 DEF Capped
<1>5. v > m \div g <=> v * g > m
  BY <1>3, <1>4, DivisionCheck
<1>6. CASE e >= m
  <2>1. v = m
    BY <1>3, <1>6 DEF Capped
  <2>2. e * g >= e /\ e * g \in Nat
    BY <1>1, <1>3
  <2>3. Capped(e * g, m) = m
    BY <1>3, <1>6, <2>2 DEF Capped
  <2> QED
    BY <1>2, <1>3, <2>1, <2>3 DEF m, g
<1>7. CASE ~(e >= m)
  <2>1. v = e /\ ~(v >= m)
    BY <1>3, <1>7 DEF Capped
  <2> DEFINE x == e * g
  <2>2. x \in Nat
    BY <1>3
  <2> HIDE DEF v, x
  <2>3. v > m \div g <=> x > m
    BY <1>5, <2>1 DEF x
  <2>4. CASE x > m
    <3>1. ExponentialStep(s, v) = m
      BY <1>2, <2>3, <2>4
    <3>2. Capped(x, m) = m
      BY <1>3, <2>2, <2>4 DEF Capped
    <3> QED
      BY <3>1, <3>2 DEF v, x, m, g
  <2>5. CASE ~(x > m)
    <3>1. x \in 0..U32Max
      BY <1>1, <1>3, <2>2, <2>5
    <3>2. Wrap32(v * g) = x
      BY <2>1, <3>1, NoWrap DEF x
    <3>3. ExponentialStep(s, v) = x
      BY <1>2, <2>1, <2>3, <2>5, <3>2
    <3>4. Capped(x, m) = x
      BY <1>3, <2>2, <2>5 DEF Capped
    <3> QED
      BY <3>3, <3>4 DEF v, x, m, g
  <2> QED
    BY <2>4, <2>5
<1> QED
  BY <1>6, <1>7

\* The exponential branch of Schedule::units is exact, for any number of rounds.
LEMMA ExponentialExact ==
    ASSUME NEW s \in ScheduleType, ScheduleValid(s), s.kind = "Exponential", NEW round \in Nat
    PROVE  /\ ExponentialUnits(s, round) = Capped(s.initial_units * Power(s.growth, round), s.max_units)
           /\ Power(s.growth, round) \in Nat /\ Power(s.growth, round) > 0
<1> DEFINE i == s.initial_units
           m == s.max_units
           g == s.growth
           step == [x \in Nat \X Nat |-> ExponentialStep(s, x[2])]
           Is(value) == value = [n \in 0..round |->
               IF n = 0 THEN s.initial_units
               ELSE LET v == value[n - 1] IN
                    IF v >= s.max_units \/ v > s.max_units \div s.growth
                      THEN s.max_units
                      ELSE Wrap32(v * s.growth)]
           value == CHOOSE f : Is(f)
<1>1. i \in Nat /\ m \in Nat /\ g \in Nat /\ g >= 2 /\ i <= m /\ i > 0 /\ U32Max \in Nat
  BY WidthAssumption DEF ScheduleType, ScheduleValid
<1>2. \A v \in Nat : ExponentialStep(s, v) \in Nat
  <2>1. \A v \in Nat : v * g \in Nat
    BY <1>1
  <2>2. \A x \in Nat : Wrap32(x) \in Nat
    BY <1>1 DEF Wrap32
  <2> QED
    BY <1>1, <2>1, <2>2 DEF ExponentialStep
<1>3. step \in [Nat \X Nat -> Nat]
  BY <1>2
<1>4. PICK f : Solves(f, round, Nat, i, step)
  <2> HIDE DEF step, i
  <2> QED
    BY <1>1, <1>3, Recursion
<1>5. /\ f \in [0..round -> Nat] /\ f[0] = s.initial_units
      /\ \A n \in 1..round : f[n] = ExponentialStep(s, f[n - 1])
  <2>1. f \in [0..round -> Nat] /\ f[0] = s.initial_units
    BY <1>4 DEF Solves
  <2>2. ASSUME NEW n \in 1..round PROVE f[n] = ExponentialStep(s, f[n - 1])
    <3>1. <<n, f[n - 1]>> \in Nat \X Nat
      BY <2>1
    <3>2. f[n] = step[<<n, f[n - 1]>>]
      BY <1>4 DEF Solves
    <3> QED
      BY <3>1, <3>2
  <2> QED
    BY <2>1, <2>2
<1>6. Is(f)
  BY <1>5 DEF ExponentialStep
<1>7. Is(value)
  <2> HIDE DEF Is
  <2> QED
    BY <1>6, Zenon
<1>8. ExponentialUnits(s, round) = IF value[round] < s.max_units THEN value[round] ELSE s.max_units
  BY DEF ExponentialUnits
<1> HIDE DEF value
<1>9. value[0] = i /\ \A n \in 1..round : value[n] = ExponentialStep(s, value[n - 1])
  BY <1>7 DEF ExponentialStep
<1>10. PICK power : IsPower(power, g, round)
  <2> HIDE DEF g
  <2> QED
    BY <1>1, PowerExists
<1> DEFINE T == {n \in 0..round : value[n] = Capped(i * power[n], m) /\ power[n] > 0}
<1>11. 0..round \subseteq T
  <2>1. 0 \in T
    <3>1. power[0] = 1 /\ i * 1 = i
      BY <1>1, <1>10 DEF IsPower
    <3>2. Capped(i, m) = i
      BY <1>1 DEF Capped
    <3> QED
      BY <1>9, <3>1, <3>2
  <2>2. ASSUME NEW n \in 0..round - 1, n \in T PROVE n + 1 \in T
    <3>1. n + 1 \in 1..round /\ (n + 1) - 1 = n
      OBVIOUS
    <3>2. value[n + 1] = ExponentialStep(s, Capped(i * power[n], m))
      BY <1>9, <2>2, <3>1
    <3>3. power[n] \in Nat /\ power[n] > 0 /\ power[n + 1] = g * power[n]
      BY <1>10, <2>2, <3>1 DEF IsPower
    <3> DEFINE e == i * power[n]
    <3>4. e \in Nat /\ e * g = i * power[n + 1] /\ power[n + 1] > 0
      <4> HIDE DEF i, g
      <4> QED
        BY <1>1, <3>3
    <3>5. ExponentialStep(s, Capped(e, m)) = Capped(e * g, m)
      <4> HIDE DEF e
      <4> QED
        BY <3>4, ExponentialStepExact
    <3> QED
      BY <3>1, <3>2, <3>4, <3>5
  <2> HIDE DEF T
  <2> QED
    BY <2>1, <2>2, UpTo
<1>12. value[round] = Capped(i * power[round], m) /\ power[round] > 0
  BY <1>11
<1>13. Power(g, round) = power[round] /\ power[round] \in Nat
  BY <1>10 DEF IsPower
<1> DEFINE x == i * power[round]
<1>14. x \in Nat
  <2> HIDE DEF i
  <2> QED
    BY <1>1, <1>13
<1> HIDE DEF x
<1>15. Capped(Capped(x, m), m) = Capped(x, m)
  BY <1>1, <1>14 DEF Capped
<1>16. ExponentialUnits(s, round) = Capped(value[round], m)
  BY <1>8 DEF Capped
<1> QED
  BY <1>12, <1>13, <1>15, <1>16 DEF x

\* Schedule::units is the schedule's exact value, capped, and is never zero.
LEMMA UnitsExact ==
    ASSUME NEW s \in ScheduleType, ScheduleValid(s), NEW round \in Nat
    PROVE  /\ units(s, round) = IdealUnits(s, round)
           /\ IdealUnits(s, round) \in Nat
           /\ IdealUnits(s, round) > 0
<1> DEFINE i == s.initial_units
           m == s.max_units
           g == s.growth
<1>1. i \in Nat /\ m \in Nat /\ g \in Nat /\ i > 0 /\ m >= i
  BY WidthAssumption DEF ScheduleType, ScheduleValid
<1>2. s.kind \in {"Fixed", "Linear", "Exponential"}
  BY DEF ScheduleType
<1>3. CASE s.kind = "Fixed"
  <2>1. m = i /\ units(s, round) = i /\ IdealUnits(s, round) = Capped(i, m)
    BY <1>3 DEF ScheduleValid, units, IdealUnits, Capped
  <2> HIDE DEF i, m
  <2> QED
    BY <1>1, <2>1 DEF Capped
<1>4. CASE s.kind = "Linear"
  <2>1. IdealUnits(s, round) = Capped(i + round * g, m) /\ units(s, round) = LinearUnits(s, round)
    BY <1>4 DEF units, IdealUnits, Capped
  <2>2. LinearUnits(s, round) = Capped(i + round * g, m)
    BY <1>4, LinearExact
  <2> HIDE DEF i, m, g
  <2>3. round * g \in Nat
    BY <1>1
  <2>4. Capped(i + round * g, m) \in Nat /\ Capped(i + round * g, m) > 0
    BY <1>1, <2>3 DEF Capped
  <2> QED
    BY <2>1, <2>2, <2>4
<1>5. CASE s.kind = "Exponential"
  <2> DEFINE p == Power(g, round)
  <2>1. IdealUnits(s, round) = Capped(i * p, m) /\ units(s, round) = ExponentialUnits(s, round)
    BY <1>5 DEF units, IdealUnits, Capped
  <2>2. ExponentialUnits(s, round) = Capped(i * p, m) /\ p \in Nat /\ p > 0
    BY <1>5, ExponentialExact
  <2> HIDE DEF i, m, p
  <2>3. i * p \in Nat /\ i * p > 0
    BY <1>1, <2>2
  <2>4. Capped(i * p, m) \in Nat /\ Capped(i * p, m) > 0
    BY <1>1, <2>3 DEF Capped
  <2> QED
    BY <2>1, <2>2, <2>4
<1> QED
  BY <1>2, <1>3, <1>4, <1>5

-----------------------------------------------------------------------------
(* The horizon                                                             *)

\* total holds the running sums of a schedule's exact values.
IsTotal(total, s, N) ==
    /\ total \in [0..N -> Nat]
    /\ total[0] = IdealUnits(s, 0)
    /\ \A n \in 1..N : total[n] = IdealUnits(s, n) + total[n - 1]

\* Such sums exist.
LEMMA TotalExists ==
    ASSUME NEW s \in ScheduleType, ScheduleValid(s), NEW N \in Nat
    PROVE  \E total : IsTotal(total, s, N)
<1> DEFINE step == [x \in Nat \X Nat |-> IdealUnits(s, x[1]) + x[2]]
<1>1. step \in [Nat \X Nat -> Nat]
  BY UnitsExact
<1>2. IdealUnits(s, 0) \in Nat
  BY UnitsExact
<1>3. PICK f : Solves(f, N, Nat, IdealUnits(s, 0), step)
  <2> HIDE DEF step
  <2> QED
    BY <1>1, <1>2, Recursion
<1>4. f \in [0..N -> Nat] /\ f[0] = IdealUnits(s, 0)
  BY <1>3 DEF Solves
<1>5. ASSUME NEW n \in 1..N PROVE f[n] = IdealUnits(s, n) + f[n - 1]
  <2>1. <<n, f[n - 1]>> \in Nat \X Nat
    BY <1>4
  <2>2. f[n] = step[<<n, f[n - 1]>>]
    BY <1>3 DEF Solves
  <2> QED
    BY <2>1, <2>2
<1> QED
  BY <1>4, <1>5 DEF IsTotal

\* The sums are unique, and none is zero.
LEMMA TotalUnique ==
    ASSUME NEW s \in ScheduleType, ScheduleValid(s), NEW N \in Nat,
           NEW f, IsTotal(f, s, N), NEW g, DOMAIN g = 0..N, g[0] = IdealUnits(s, 0),
           \A n \in 1..N : g[n] = IdealUnits(s, n) + g[n - 1]
    PROVE  f[N] = g[N] /\ f[N] \in Nat /\ f[N] > 0
<1> DEFINE T == {n \in 0..N : f[n] = g[n]}
<1>1. 0..N \subseteq T
  <2>1. 0 \in T
    BY DEF IsTotal
  <2>2. ASSUME NEW n \in 0..N - 1, n \in T PROVE n + 1 \in T
    <3>1. n + 1 \in 1..N /\ (n + 1) - 1 = n
      OBVIOUS
    <3>2. f[n + 1] = IdealUnits(s, n + 1) + f[n] /\ g[n + 1] = IdealUnits(s, n + 1) + g[n]
      BY <3>1 DEF IsTotal
    <3> QED
      BY <2>2, <3>1, <3>2
  <2> HIDE DEF T
  <2> QED
    BY <2>1, <2>2, UpTo
<1>2. f[N] = g[N] /\ f[N] \in Nat
  BY <1>1 DEF IsTotal
<1>3. IdealUnits(s, N) \in Nat /\ IdealUnits(s, N) > 0
  BY UnitsExact
<1>4. CASE N = 0
  BY <1>2, <1>3, <1>4 DEF IsTotal
<1>5. CASE N # 0
  <2>1. N \in 1..N /\ N - 1 \in 0..N
    BY <1>5
  <2>2. f[N] = IdealUnits(s, N) + f[N - 1] /\ f[N - 1] \in Nat
    BY <2>1 DEF IsTotal
  <2> QED
    BY <1>2, <1>3, <2>2
<1> QED
  BY <1>2, <1>4, <1>5

\* The accumulator of horizon_ms is the exact sum.
LEMMA RoundUnitsExact ==
    ASSUME NEW p, p.replay_gap \in ScheduleType, ScheduleValid(p.replay_gap),
           NEW N \in Nat, NEW f, IsTotal(f, p.replay_gap, N)
    PROVE  RoundUnits(p, N) = f[N]
<1> DEFINE s == p.replay_gap
           Is(total) == total = [n \in 0..N |->
               units(p.replay_gap, n) + (IF n = 0 THEN 0 ELSE total[n - 1])]
           t == CHOOSE total : Is(total)
<1>1. \A n \in 0..N : units(s, n) = IdealUnits(s, n) /\ IdealUnits(s, n) \in Nat
  BY UnitsExact
<1>2. Is(f)
  <2>1. \A n \in 0..N : f[n] = units(s, n) + (IF n = 0 THEN 0 ELSE f[n - 1])
    BY <1>1 DEF IsTotal
  <2> QED
    BY <2>1 DEF IsTotal
<1>3. Is(t)
  <2> HIDE DEF Is
  <2> QED
    BY <1>2, Zenon
<1>4. RoundUnits(p, N) = t[N]
  BY DEF RoundUnits
<1> HIDE DEF t
<1>5. DOMAIN t = 0..N /\ t[0] = IdealUnits(s, 0) /\ \A n \in 1..N : t[n] = IdealUnits(s, n) + t[n - 1]
  BY <1>1, <1>3
<1>6. f[N] = t[N]
  <2> HIDE DEF s, Is
  <2>1. s \in ScheduleType /\ ScheduleValid(s) /\ IsTotal(f, s, N)
    BY DEF s
  <2> QED
    BY <1>5, <2>1, TotalUnique
<1> QED
  BY <1>4, <1>6

\* IdealHorizon is made of the same sum.
LEMMA IdealHorizonIs ==
    ASSUME NEW c \in Configs, ScheduleValid(c.replay_gap), NEW f,
           IsTotal(f, c.replay_gap, c.replay_count)
    PROVE  IdealHorizon(c) = c.unit.ms * (f[c.replay_count] + c.final_receive_units)
<1> DEFINE s == c.replay_gap
           N == c.replay_count
           Is(total) == total = [n \in 0..N |->
               IdealUnits(s, n) + (IF n = 0 THEN 0 ELSE total[n - 1])]
           t == CHOOSE total : Is(total)
<1>1. s \in ScheduleType /\ N \in Nat
  BY ConfigFields
<1>2. \A n \in 0..N : IdealUnits(s, n) \in Nat
  BY <1>1, UnitsExact
<1>3. Is(f)
  <2>1. \A n \in 0..N : f[n] = IdealUnits(s, n) + (IF n = 0 THEN 0 ELSE f[n - 1])
    BY <1>1, <1>2 DEF IsTotal
  <2> QED
    BY <2>1 DEF IsTotal
<1>4. Is(t)
  <2> HIDE DEF Is
  <2> QED
    BY <1>3, Zenon
<1>5. IdealHorizon(c) = c.unit.ms * (t[N] + c.final_receive_units)
  BY DEF IdealHorizon
<1> HIDE DEF t
<1>6. DOMAIN t = 0..N /\ t[0] = IdealUnits(s, 0) /\ \A n \in 1..N : t[n] = IdealUnits(s, n) + t[n - 1]
  BY <1>1, <1>2, <1>4
<1>7. f[N] = t[N]
  <2>1. ScheduleValid(s) /\ IsTotal(f, s, N)
    OBVIOUS
  <2> HIDE DEF s, N, Is
  <2> QED
    BY <1>1, <1>6, <2>1, TotalUnique
<1> QED
  BY <1>5, <1>7

\* The policy of a configuration
PolicyOf(c) ==
    [unit_ms |-> c.unit.ms, replay_count |-> c.replay_count, replay_gap |-> c.replay_gap,
     final_receive_units |-> c.final_receive_units]

\* When horizon_ms accepts a policy, in exact arithmetic
Fits(c, limit) ==
    /\ c.unit.ms > 0
    /\ c.replay_count <= MAX_REPLAY_COUNT
    /\ limit > 0
    /\ ScheduleValid(c.replay_gap)
    /\ IdealHorizon(c) <= limit

\* horizon_ms accepts exactly the policies that fit, and returns their exact
\* horizon: no check of a width comes too late or rejects too much.
LEMMA HorizonExact ==
    ASSUME NEW c \in Configs, NEW limit \in 0..U32Max
    PROVE  /\ horizon_ms(PolicyOf(c), limit).ok <=> Fits(c, limit)
           /\ Fits(c, limit) => /\ horizon_ms(PolicyOf(c), limit).ms = IdealHorizon(c)
                                /\ IdealHorizon(c) \in 0..U32Max
<1> DEFINE p == PolicyOf(c)
           h == horizon_ms(p, limit)
<1>1. /\ p.unit_ms = c.unit.ms /\ p.replay_count = c.replay_count
      /\ p.replay_gap = c.replay_gap /\ p.final_receive_units = c.final_receive_units
  BY DEF PolicyOf
<1>2. /\ c.replay_gap \in ScheduleType /\ c.replay_count \in Nat /\ c.final_receive_units \in Nat
      /\ c.unit.ms \in Nat /\ limit \in Nat /\ limit <= U32Max
      /\ U32Max \in Nat /\ U64Max \in Nat /\ U32Max <= U64Max /\ MAX_REPLAY_COUNT \in Nat
  BY ConfigFields, WidthAssumption
<1> HIDE DEF p
<1>3. CASE c.unit.ms = 0 \/ c.replay_count > MAX_REPLAY_COUNT \/ limit = 0 \/ ~ScheduleValid(c.replay_gap)
  <2>1. h = InvalidRequestPolicy
    BY <1>1, <1>3 DEF horizon_ms
  <2>2. ~h.ok
    BY <2>1 DEF InvalidRequestPolicy
  <2>3. ~Fits(c, limit)
    BY <1>2, <1>3 DEF Fits
  <2> QED
    BY <2>2, <2>3 DEF p
<1>4. CASE ~(c.unit.ms = 0 \/ c.replay_count > MAX_REPLAY_COUNT \/ limit = 0 \/ ~ScheduleValid(c.replay_gap))
  <2> DEFINE N == c.replay_count
             u == c.unit.ms
             total == TotalUnits(p)
             horizon == total * u
  <2>1. PICK f : IsTotal(f, c.replay_gap, N)
    BY <1>2, <1>4, TotalExists
  <2>2. f[N] \in Nat /\ f[N] > 0
    <3>1. DOMAIN f = 0..N /\ f[0] = IdealUnits(c.replay_gap, 0)
          /\ \A n \in 1..N : f[n] = IdealUnits(c.replay_gap, n) + f[n - 1]
      BY <2>1 DEF IsTotal
    <3> QED
      BY <1>2, <1>4, <2>1, <3>1, TotalUnique
  <2>3. RoundUnits(p, N) = f[N]
    BY <1>1, <1>2, <1>4, <2>1, RoundUnitsExact
  <2>4. total = c.final_receive_units + f[N]
    BY <1>1, <2>3 DEF TotalUnits
  <2>5. IdealHorizon(c) = u * (f[N] + c.final_receive_units)
    BY <1>4, <2>1, IdealHorizonIs
  <2>6. h = IF total > U64Max \/ horizon > U64Max THEN InvalidRequestPolicy
            ELSE IF total = 0 \/ horizon > U32Max THEN InvalidRequestPolicy
            ELSE IF horizon > limit THEN ExceedsApiKey
            ELSE [ok |-> TRUE, ms |-> horizon]
    BY <1>1, <1>4 DEF horizon_ms
  <2>7. total \in Nat /\ total > 0
    <3> HIDE DEF total
    <3> QED
      BY <1>2, <2>2, <2>4
  <2>8. horizon \in Nat /\ horizon >= total /\ horizon = IdealHorizon(c)
    <3>1. u \in Nat /\ u > 0
      BY <1>2, <1>4
    <3> HIDE DEF u, total
    <3>2. horizon = IdealHorizon(c)
      BY <1>2, <2>2, <2>4, <2>5, <3>1
    <3> QED
      BY <2>7, <3>1, <3>2
  <2>9. Fits(c, limit) <=> horizon <= limit
    BY <1>2, <1>4, <2>8 DEF Fits
  <2> HIDE DEF h, total, horizon
  <2>10. CASE horizon <= limit
    <3>1. h = [ok |-> TRUE, ms |-> horizon]
      BY <1>2, <2>6, <2>7, <2>8, <2>10
    <3>2. h.ok /\ h.ms = horizon
      BY <3>1
    <3>3. horizon \in 0..U32Max
      BY <1>2, <2>8, <2>10
    <3> QED
      BY <2>8, <2>9, <2>10, <3>2, <3>3 DEF h, p
  <2>11. CASE ~(horizon <= limit)
    <3>1. h \in {InvalidRequestPolicy, ExceedsApiKey}
      BY <1>2, <2>6, <2>7, <2>8, <2>11
    <3>2. ~h.ok
      BY <3>1 DEF InvalidRequestPolicy, ExceedsApiKey
    <3> QED
      BY <2>9, <2>11, <3>2 DEF h, p
  <2> QED
    BY <2>10, <2>11
<1> QED
  BY <1>3, <1>4

-----------------------------------------------------------------------------
(* The builders                                                            *)

\* What each stage has established
StageInv ==
    /\ stage = "configured" => policy = NoPolicy
    /\ stage \in {"policy", "client", "sending"} => policy # NoPolicy
    /\ stage # "sending" => ttl = 0
    /\ policy # NoPolicy => ~config.unit.sub /\ Fits(config, U32Max)
    /\ stage \in {"client", "sending"} => Fits(config, config.dedup_ttl_ms_max)
    /\ stage = "rejected" => config.unit.sub \/ ~Fits(config, config.dedup_ttl_ms_max)
    /\ stage = "sending" => ttl = IdealHorizon(config)

IInv == TypeOK /\ StageInv

\* A policy that fits some key fits the wire.
LEMMA FitsWire ==
    ASSUME NEW c \in Configs, Fits(c, c.dedup_ttl_ms_max)
    PROVE  Fits(c, U32Max) /\ c.unit.ms <= U64Max
<1>1. c.dedup_ttl_ms_max \in 0..U32Max /\ c.unit.ms \in Nat /\ U32Max \in Nat /\ U64Max \in Nat
      /\ U32Max > 0 /\ U32Max <= U64Max
  BY ConfigFields, WidthAssumption
<1>2. IdealHorizon(c) \in 0..U32Max
  BY <1>1, HorizonExact
<1>3. Fits(c, U32Max)
  BY <1>1, <1>2 DEF Fits
<1>4. c.unit.ms <= IdealHorizon(c)
  <2>1. /\ c.replay_gap \in ScheduleType /\ c.replay_count \in Nat /\ ScheduleValid(c.replay_gap)
        /\ c.final_receive_units \in Nat /\ c.unit.ms > 0
    BY ConfigFields DEF Fits
  <2>2. PICK f : IsTotal(f, c.replay_gap, c.replay_count)
    BY <2>1, TotalExists
  <2>3. f[c.replay_count] \in Nat /\ f[c.replay_count] > 0
    <3>1. DOMAIN f = 0..c.replay_count /\ f[0] = IdealUnits(c.replay_gap, 0)
          /\ \A n \in 1..c.replay_count : f[n] = IdealUnits(c.replay_gap, n) + f[n - 1]
      BY <2>2 DEF IsTotal
    <3> QED
      BY <2>1, <2>2, <3>1, TotalUnique
  <2> DEFINE t == f[c.replay_count] + c.final_receive_units
             u == c.unit.ms
  <2>4. IdealHorizon(c) = u * t
    BY <2>1, <2>2, IdealHorizonIs
  <2>5. t \in Nat /\ t > 0 /\ u \in Nat /\ u > 0
    BY <1>1, <2>1, <2>3
  <2> HIDE DEF t, u
  <2>6. u <= u * t
    BY <2>5
  <2> QED
    BY <2>4, <2>6 DEF u
<1> QED
  BY <1>1, <1>2, <1>3, <1>4

\* RequestPolicyBuilder::build
LEMMA BuildPolicyStep ==
    ASSUME IInv, BuildPolicy
    PROVE  IInv'
<1> DEFINE good == UnitValid(config.unit) /\ horizon_ms(BuilderPolicy, U32Max).ok
<1>1. config \in Configs /\ policy = NoPolicy /\ ttl = 0 /\ stage = "configured"
  BY DEF IInv, TypeOK, StageInv, BuildPolicy
<1>2. /\ UNCHANGED <<config, ttl>>
      /\ IF good THEN stage' = "policy" /\ policy' = BuilderPolicy
                 ELSE stage' = "rejected" /\ policy' = policy
  BY DEF BuildPolicy
<1>3. BuilderPolicy = PolicyOf(config) /\ BuilderPolicy' = BuilderPolicy
  BY <1>2 DEF BuilderPolicy, PolicyOf
<1>4. U32Max \in 0..U32Max
  BY WidthAssumption
<1>5. horizon_ms(BuilderPolicy, U32Max).ok <=> Fits(config, U32Max)
  BY <1>1, <1>3, <1>4, HorizonExact
<1>6. TypeOK'
  BY <1>1, <1>2, <1>3, WidthAssumption DEF IInv, TypeOK
<1>7. CASE good
  <2>1. ~config.unit.sub /\ Fits(config, U32Max) /\ config.unit.ms # 0
    BY <1>5, <1>7 DEF UnitValid
  <2>2. BuilderPolicy # NoPolicy
    <3>1. BuilderPolicy.unit_ms = config.unit.ms /\ NoPolicy.unit_ms = 0
      BY DEF BuilderPolicy, NoPolicy
    <3> QED
      BY <2>1, <3>1
  <2> QED
    BY <1>1, <1>2, <1>6, <1>7, <2>1, <2>2 DEF IInv, StageInv
<1>8. CASE ~good
  <2>1. config.unit.sub \/ ~Fits(config, config.dedup_ttl_ms_max)
    <3> SUFFICES ASSUME ~config.unit.sub, Fits(config, config.dedup_ttl_ms_max) PROVE good
      BY <1>8
    <3>1. Fits(config, U32Max) /\ config.unit.ms <= U64Max
      BY <1>1, FitsWire
    <3>2. config.unit.ms # 0
      BY <1>1, <3>1, ConfigFields DEF Fits
    <3> QED
      BY <1>5, <3>1, <3>2 DEF UnitValid
  <2> QED
    BY <1>1, <1>2, <1>6, <1>8, <2>1 DEF IInv, StageInv
<1> QED
  BY <1>7, <1>8

\* Every step preserves the invariant.
LEMMA NextStep ==
    ASSUME IInv, [Next]_vars
    PROVE  IInv'
<1>1. config \in Configs /\ config.dedup_ttl_ms_max \in 0..U32Max
  BY ConfigFields DEF IInv, TypeOK
<1>2. BuilderPolicy = PolicyOf(config)
  BY DEF BuilderPolicy, PolicyOf
<1> DEFINE h == horizon_ms(BuilderPolicy, config.dedup_ttl_ms_max)
<1>3. /\ h.ok <=> Fits(config, config.dedup_ttl_ms_max)
      /\ Fits(config, config.dedup_ttl_ms_max) => h.ms = IdealHorizon(config) /\ IdealHorizon(config) \in 0..U32Max
  BY <1>1, <1>2, HorizonExact
<1> HIDE DEF h
<1>4. CASE BuildClient
  <2>1. /\ stage = "policy" /\ policy = BuilderPolicy /\ policy # NoPolicy
        /\ UNCHANGED <<config, policy, ttl>>
        /\ stage' = IF h.ok THEN "client" ELSE "rejected"
    BY <1>4 DEF BuildClient, IInv, TypeOK, StageInv, h
  <2>2. BuilderPolicy' = BuilderPolicy
    BY <2>1 DEF BuilderPolicy
  <2>3. TypeOK'
    BY <2>1, <2>2 DEF IInv, TypeOK
  <2> QED
    BY <1>3, <2>1, <2>3 DEF IInv, StageInv
<1>5. CASE SendRequest
  <2>1. /\ stage = "client" /\ policy = BuilderPolicy /\ policy # NoPolicy
        /\ UNCHANGED <<config, policy>> /\ stage' = "sending" /\ ttl' = h.ms
    BY <1>5 DEF SendRequest, IInv, TypeOK, StageInv, h
  <2>2. BuilderPolicy' = BuilderPolicy
    BY <2>1 DEF BuilderPolicy
  <2>3. Fits(config, config.dedup_ttl_ms_max)
    BY <2>1 DEF IInv, StageInv
  <2>4. TypeOK'
    BY <1>3, <2>1, <2>2, <2>3 DEF IInv, TypeOK
  <2> QED
    BY <1>3, <2>1, <2>3, <2>4 DEF IInv, StageInv
<1>6. CASE UNCHANGED vars
  BY <1>6 DEF vars, IInv, TypeOK, StageInv, BuilderPolicy
<1> QED
  BY <1>4, <1>5, <1>6, BuildPolicyStep DEF Next

-----------------------------------------------------------------------------
(* Theorems                                                                *)

\* The invariant holds in every reachable state.
THEOREM Invariance == Spec => []IInv
<1>1. Init => IInv
  BY WidthAssumption DEF Init, IInv, TypeOK, StageInv
<1>2. IInv /\ [Next]_vars => IInv'
  BY NextStep
<1> QED
  BY <1>1, <1>2, PTL DEF Spec

\* Type correctness of the builders' stages.
THEOREM TypeCorrect == Spec => []TypeOK
BY Invariance, PTL DEF IInv

\* Schedule::units of an accepted policy is exact in every round: its u32
\* arithmetic does not wrap, for any schedule and any width.
THEOREM SchedulesExact == Spec => []UnitsAreExact
<1>1. IInv => UnitsAreExact
  <2> SUFFICES ASSUME IInv, policy # NoPolicy, NEW round \in 0..policy.replay_count
               PROVE  units(policy.replay_gap, round) = IdealUnits(policy.replay_gap, round)
    BY DEF UnitsAreExact
  <2>1. policy = BuilderPolicy /\ ScheduleValid(config.replay_gap) /\ config \in Configs
    BY DEF IInv, TypeOK, StageInv, Fits
  <2>2. policy.replay_gap = config.replay_gap /\ policy.replay_count = config.replay_count
    BY <2>1 DEF BuilderPolicy
  <2>3. config.replay_gap \in ScheduleType /\ config.replay_count \in Nat
    BY <2>1, ConfigFields
  <2>4. round \in Nat
    BY <2>2, <2>3
  <2> QED
    BY <2>1, <2>2, <2>3, <2>4, UnitsExact
<1> QED
  BY <1>1, Invariance, PTL

\* The TTL a request announces is the exact horizon of the configured policy.
THEOREM TtlExact == Spec => []TtlIsHorizon
<1>1. IInv => TtlIsHorizon
  BY DEF IInv, StageInv, TtlIsHorizon
<1> QED
  BY <1>1, Invariance, PTL

\* The three validations of request_policy.rs, public_client.rs and client.rs
\* accept together exactly the policies whose exact horizon fits the key.
THEOREM AcceptanceExact == Spec => []AcceptedIffWithinLimits
<1>1. IInv => AcceptedIffWithinLimits
  <2> SUFFICES ASSUME IInv, stage \in {"client", "sending", "rejected"}
               PROVE  stage # "rejected" <=>
                          ~config.unit.sub /\ Fits(config, config.dedup_ttl_ms_max)
    BY DEF AcceptedIffWithinLimits, Fits
  <2>1. stage \in {"client", "sending"} => policy # NoPolicy
    BY DEF IInv, StageInv
  <2> QED
    BY <2>1 DEF IInv, StageInv
<1> QED
  BY <1>1, Invariance, PTL
=============================================================================
