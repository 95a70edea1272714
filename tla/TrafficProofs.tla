---------------------------- MODULE TrafficProofs ----------------------------
(***************************************************************************)
(* Proofs about TrafficCounters, for any number of writers, any lengths    *)
(* and any counter width.                                                  *)
(***************************************************************************)
EXTENDS TrafficCounters, Induction

\* What a caller sampled is a value the counter had, and counters only grow.
SampleInv == sampled <= count[field]

\* A writer that is about to raise the flag has cut a total off. Without it
\* CutOffIsFlagged is not inductive: Flag would raise the flag for nothing.
FlagInv == (\E w \in Writers : pc[w] = "flag") => \E c \in Counters : exact[c] > U64Max

IInv == TypeOK /\ NoLostUpdate /\ CutOffIsFlagged /\ FlagInv /\ SampleInv

-----------------------------------------------------------------------------
(* Lemmas                                                                  *)

\* Saturated caps a total at U64Max, and adding to a capped total gives the
\* capped sum.
LEMMA SaturatedAdds ==
    ASSUME NEW n \in Nat, NEW v \in Nat
    PROVE  /\ Saturated(n) \in 0..U64Max
           /\ Saturated(Saturated(n) + v) = Saturated(n + v)
           /\ Saturated(n) <= Saturated(n + v)
           /\ n + v > U64Max => n > U64Max \/ Overflows(Saturated(n) + v)
           /\ Overflows(Saturated(n) + v) => n + v > U64Max
BY CountersAssumption DEF Saturated, Overflows

\* The adds of record and sent are well formed.
LEMMA CallAdds ==
    ASSUME NEW len \in Lengths, NEW headers \in HeaderSizes, NEW dir \in Directions
    PROVE  /\ Record(dir, len, headers) \in Seq(Adds)
           /\ <<[counter |-> Failures, value |-> 1]>> \in Seq(Adds)
<1>1. len \in Nat /\ headers \in Nat
  BY CountersAssumption DEF HeaderSizes
<1>2. \A f \in {"datagrams", "payload_bytes", "ip_bytes"} : <<dir, f>> \in Counters
  BY DEF Counters
<1>3. \A f \in {"datagrams", "payload_bytes", "ip_bytes"}, v \in Nat :
          [counter |-> <<dir, f>>, value |-> v] \in Adds
  BY <1>2 DEF Adds
<1>4. [counter |-> Failures, value |-> 1] \in Adds
  BY DEF Adds, Counters
<1> QED
  BY <1>1, <1>3, <1>4 DEF Record

\* The add a writer is at is well formed.
LEMMA HeadAdd ==
    ASSUME TypeOK, NEW w \in Writers, todo[w] # <<>>
    PROVE  /\ Head(todo[w]).counter \in Counters
           /\ Head(todo[w]).value \in Nat
           /\ Tail(todo[w]) \in Seq(Adds)
<1>1. todo[w] \in Seq(Adds)
  BY DEF TypeOK
<1>2. Head(todo[w]) \in Adds /\ Tail(todo[w]) \in Seq(Adds)
  BY <1>1
<1> QED
  BY <1>2 DEF Adds

-----------------------------------------------------------------------------
(* The actions                                                             *)

\* A call that begins changes no counter.
LEMMA CallStep ==
    ASSUME IInv, NEW w \in Writers, NEW adds \in Seq(Adds), Call(w, adds)
    PROVE  IInv'
<1>1. todo' \in [Writers -> Seq(Adds)] /\ datagrams' \in 0..MaxDatagrams
  BY CountersAssumption DEF IInv, TypeOK, Call
<1>2. \A u \in Writers : pc'[u] # "load" => todo'[u] # <<>>
  BY DEF IInv, TypeOK, Call
<1>3. TypeOK'
  BY <1>1, <1>2 DEF IInv, TypeOK, Call, snapVars
<1> QED
  BY <1>3 DEF IInv, Call, snapVars, NoLostUpdate, CutOffIsFlagged, FlagInv, SampleInv

\* A load, first or after a failed exchange, changes no counter.
LEMMA LoadStep ==
    ASSUME IInv, NEW w \in Writers, Load(w) \/ Retry(w)
    PROVE  IInv'
<1> DEFINE now == count[Head(todo[w]).counter]
<1>1. /\ todo[w] # <<>> /\ pc[w] \in {"load", "cas"}
      /\ previous' = [previous EXCEPT ![w] = now]
      /\ pc' = [pc EXCEPT ![w] = "cas"]
      /\ UNCHANGED <<todo, count, incomplete, exact, datagrams, field, sampled>>
  BY DEF Load, Retry, snapVars, IInv, TypeOK
<1>2. now \in 0..U64Max
  BY <1>1, HeadAdd DEF IInv, TypeOK
<1>3. TypeOK'
  BY <1>1, <1>2 DEF IInv, TypeOK
<1>4. \A u \in Writers : pc[u] = "flag" => pc'[u] = "flag"
  BY <1>1 DEF IInv, TypeOK
<1> QED
  BY <1>1, <1>3, <1>4 DEF IInv, NoLostUpdate, CutOffIsFlagged, FlagInv, SampleInv

\* An exchange that succeeds adds to the value it replaces.
LEMMA AddStep ==
    ASSUME IInv, NEW w \in Writers, Add(w)
    PROVE  IInv' /\ count'[field] >= count[field]
<1> DEFINE c == Head(todo[w]).counter
           v == Head(todo[w]).value
           overflows == Overflows(previous[w] + v)
<1>1. /\ todo[w] # <<>> /\ pc[w] = "cas" /\ count[c] = previous[w]
      /\ count' = [count EXCEPT ![c] = Saturated(previous[w] + v)]
      /\ exact' = [exact EXCEPT ![c] = exact[c] + v]
      /\ pc' = [pc EXCEPT ![w] = IF overflows THEN "flag" ELSE "load"]
      /\ todo' = IF overflows THEN todo ELSE [todo EXCEPT ![w] = Tail(todo[w])]
      /\ UNCHANGED <<previous, incomplete, datagrams, field, sampled>>
  BY DEF Add, snapVars
<1>2. c \in Counters /\ v \in Nat /\ Tail(todo[w]) \in Seq(Adds)
  BY <1>1, HeadAdd DEF IInv
<1> HIDE DEF c, v
<1>3. exact[c] \in Nat /\ previous[w] = Saturated(exact[c])
  BY <1>1, <1>2 DEF IInv, TypeOK, NoLostUpdate
<1>4. /\ Saturated(previous[w] + v) = Saturated(exact[c] + v)
      /\ previous[w] <= Saturated(exact[c] + v)
      /\ Saturated(exact[c] + v) \in 0..U64Max
      /\ exact[c] + v > U64Max => exact[c] > U64Max \/ overflows
      /\ overflows => exact[c] + v > U64Max
  <2>1. exact[c] + v \in Nat
    BY <1>2, <1>3
  <2> QED
    BY <1>2, <1>3, <2>1, SaturatedAdds
<1> HIDE DEF overflows
<1>5. /\ \A d \in Counters : d # c => exact'[d] = exact[d] /\ count'[d] = count[d]
      /\ exact'[c] = exact[c] + v /\ count'[c] = Saturated(exact[c] + v)
      /\ exact' \in [Counters -> Nat] /\ count' \in [Counters -> 0..U64Max]
  BY <1>1, <1>2, <1>3, <1>4 DEF IInv, TypeOK
<1>6. NoLostUpdate'
  BY <1>5 DEF IInv, NoLostUpdate, Saturated, Overflows
<1>7. /\ pc' \in [Writers -> {"load", "cas", "flag"}]
      /\ \A u \in Writers : u # w => pc'[u] = pc[u]
      /\ overflows => pc'[w] = "flag"
      /\ ~overflows => pc'[w] = "load"
  BY <1>1 DEF IInv, TypeOK
<1>8. /\ todo' \in [Writers -> Seq(Adds)]
      /\ \A u \in Writers : u # w => todo'[u] = todo[u]
      /\ overflows => todo'[w] # <<>>
  BY <1>1, <1>2 DEF IInv, TypeOK
<1>9. TypeOK'
  BY <1>1, <1>5, <1>7, <1>8 DEF IInv, TypeOK
<1>10. CutOffIsFlagged'
  <2>1. \A d \in Counters : exact[d] > U64Max => exact'[d] > U64Max
    <3>1. exact[c] > U64Max => exact[c] + v > U64Max
      BY <1>2, <1>3, CountersAssumption
    <3> QED
      BY <1>5, <3>1
  <2>2. ASSUME NEW d \in Counters, exact'[d] > U64Max
        PROVE  incomplete' \/ \E u \in Writers : pc'[u] = "flag"
    <3>1. exact[d] > U64Max \/ overflows
      BY <1>4, <1>5, <2>2
    <3>2. ASSUME NEW u \in Writers, pc[u] = "flag" PROVE pc'[u] = "flag"
      BY <1>1, <1>7, <3>2
    <3> QED
      BY <1>1, <1>7, <3>1, <3>2 DEF IInv, CutOffIsFlagged
  <2>3. incomplete' => \E d \in Counters : exact'[d] > U64Max
    BY <1>1, <2>1 DEF IInv, CutOffIsFlagged
  <2> QED
    BY <2>2, <2>3 DEF CutOffIsFlagged
<1>11. FlagInv'
  <2>1. \A d \in Counters : exact[d] > U64Max => exact'[d] > U64Max
    <3>1. exact[c] > U64Max => exact[c] + v > U64Max
      BY <1>2, <1>3, CountersAssumption
    <3> QED
      BY <1>5, <3>1
  <2>2. overflows => exact'[c] > U64Max
    BY <1>4, <1>5
  <2>3. ASSUME NEW u \in Writers, pc'[u] = "flag" PROVE pc[u] = "flag" \/ overflows
    BY <1>7, <2>3
  <2> QED
    BY <1>2, <2>1, <2>2, <2>3 DEF IInv, FlagInv
<1>12. count'[field] >= count[field]
  BY <1>1, <1>2, <1>4, <1>5 DEF IInv, TypeOK
<1>13. SampleInv'
  BY <1>1, <1>5, <1>12 DEF IInv, TypeOK, SampleInv
<1> QED
  BY <1>6, <1>9, <1>10, <1>11, <1>12, <1>13 DEF IInv

\* The flag is raised by a writer that did cut a total off.
LEMMA FlagStep ==
    ASSUME IInv, NEW w \in Writers, Flag(w)
    PROVE  IInv'
<1>1. todo[w] # <<>> /\ Tail(todo[w]) \in Seq(Adds)
  BY HeadAdd DEF IInv, TypeOK, Flag
<1>2. /\ todo' \in [Writers -> Seq(Adds)]
      /\ \A u \in Writers : u # w => todo'[u] = todo[u] /\ pc'[u] = pc[u]
      /\ pc' \in [Writers -> {"load", "cas", "flag"}] /\ pc'[w] = "load"
  BY <1>1 DEF IInv, TypeOK, Flag
<1>3. TypeOK'
  BY <1>2 DEF IInv, TypeOK, Flag, snapVars
<1> QED
  <2>1. /\ incomplete' /\ UNCHANGED <<count, exact, field, sampled>>
        /\ \E c \in Counters : exact[c] > U64Max
    BY DEF IInv, Flag, FlagInv, snapVars
  <2> QED
    BY <1>3, <2>1 DEF IInv, NoLostUpdate, CutOffIsFlagged, FlagInv, SampleInv

\* A snapshot shows the value of the counter, which has not shrunk since the
\* last one.
LEMMA SnapshotStep ==
    ASSUME IInv, Snapshot
    PROVE  IInv' /\ sampled' >= sampled
<1>1. count[field] \in 0..U64Max /\ sampled \in 0..U64Max
  BY DEF IInv, TypeOK
<1>2. TypeOK'
  BY <1>1 DEF IInv, TypeOK, Snapshot
<1>3. SampleInv' /\ sampled' >= sampled
  BY <1>1, CountersAssumption DEF IInv, SampleInv, Snapshot
<1> QED
  BY <1>2, <1>3 DEF IInv, Snapshot, NoLostUpdate, CutOffIsFlagged, FlagInv

-----------------------------------------------------------------------------
(* Theorems                                                                *)

\* Every step preserves the invariant, and no sample shrinks.
LEMMA NextStep ==
    ASSUME IInv, [Next]_vars
    PROVE  IInv' /\ sampled' >= sampled
<1>1. sampled \in 0..U64Max /\ sampled >= sampled
  BY CountersAssumption DEF IInv, TypeOK
<1>2. ASSUME NEW w \in Senders, NEW len \in Lengths, NEW headers \in HeaderSizes,
             NEW written \in {0, len}, Sent(w, len, headers, written)
      PROVE  IInv' /\ sampled' = sampled
  <2>1. PICK adds \in Seq(Adds) : Call(w, adds)
    BY <1>2, CallAdds DEF Sent, Directions
  <2> QED
    BY <2>1, CallStep DEF Writers, Call, snapVars
<1>3. ASSUME NEW len \in Lengths, NEW headers \in HeaderSizes, received(len, headers)
      PROVE  IInv' /\ sampled' = sampled
  <2>1. PICK adds \in Seq(Adds) : Call(Router, adds)
    BY <1>3, CallAdds DEF received, Directions
  <2> QED
    BY <2>1, CallStep DEF Writers, Call, snapVars
<1>4. ASSUME NEW w \in Writers, Load(w) \/ Retry(w) \/ Add(w) \/ Flag(w)
      PROVE  IInv' /\ sampled' = sampled
  <2>1. IInv'
    BY <1>4, LoadStep, AddStep, FlagStep
  <2> QED
    BY <1>4, <2>1 DEF Load, Retry, Add, Flag, snapVars
<1>5. CASE Snapshot
  BY <1>5, SnapshotStep
<1>6. CASE UNCHANGED vars
  BY <1>1, <1>6 DEF IInv, vars, TypeOK, NoLostUpdate, CutOffIsFlagged, FlagInv, SampleInv
<1> QED
  BY <1>1, <1>2, <1>3, <1>4, <1>5, <1>6 DEF Next

\* The invariant holds in every reachable state.
THEOREM Invariance == Spec => []IInv
<1>1. Init => IInv
  <2> SUFFICES ASSUME Init PROVE IInv
    OBVIOUS
  <2>1. TypeOK
    <3>1. 0 \in 0..U64Max /\ 0 \in 0..MaxDatagrams /\ <<>> \in Seq(Adds)
      BY CountersAssumption
    <3>2. /\ todo \in [Writers -> Seq(Adds)]
          /\ pc \in [Writers -> {"load", "cas", "flag"}]
          /\ \A w \in Writers : pc[w] = "load"
      BY <3>1 DEF Init
    <3>3. /\ previous \in [Writers -> 0..U64Max]
          /\ count \in [Counters -> 0..U64Max]
          /\ exact \in [Counters -> Nat]
      BY <3>1 DEF Init
    <3> QED
      BY <3>1, <3>2, <3>3 DEF Init, TypeOK
  <2>2. NoLostUpdate /\ CutOffIsFlagged /\ FlagInv /\ SampleInv
    BY CountersAssumption
       DEF Init, NoLostUpdate, CutOffIsFlagged, FlagInv, SampleInv, Saturated, Overflows
  <2> QED
    BY <2>1, <2>2 DEF IInv
<1>2. IInv /\ [Next]_vars => IInv'
  BY NextStep
<1> QED
  BY <1>1, <1>2, PTL DEF Spec

\* Type correctness of the shared counters and of the writers' local state.
THEOREM TypeCorrect == Spec => []TypeOK
BY Invariance, PTL DEF IInv

\* The lock-free add of traffic.rs loses no update, whatever the number of
\* writers and the width of the counters.
THEOREM UpdatesKept == Spec => []NoLostUpdate
BY Invariance, PTL DEF IInv

\* The flag `incomplete' of traffic.rs tells exactly whether a total was cut off.
THEOREM CutOffKnown == Spec => []CutOffIsFlagged
BY Invariance, PTL DEF IInv

\* Successive snapshots of traffic.rs never shrink.
THEOREM SnapshotsMonotone == Spec => SnapshotsGrow
<1>1. IInv /\ [Next]_vars => [sampled' >= sampled]_vars
  BY NextStep
<1> QED
  BY <1>1, Invariance, PTL DEF Spec, SnapshotsGrow

-----------------------------------------------------------------------------
(* Totals                                                                  *)

\* The adds a writer has not made yet: one about to raise the flag has made the
\* first of its list.
Left(w) == IF pc[w] = "flag" THEN Tail(todo[w]) ELSE todo[w]

\* What a list of at most three adds will add to a counter
Part(s, i, c) == IF i \in DOMAIN s /\ s[i].counter = c THEN s[i].value ELSE 0
Pending(s, c) == Part(s, 1, c) + Part(s, 2, c) + Part(s, 3, c)

\* By how much the headers exceed rate bytes per datagram, in the totals and in
\* what the writers will add to them
Excess(total, dir, rate) ==
    total[<<dir, "ip_bytes">>] - total[<<dir, "payload_bytes">>] - rate * total[<<dir, "datagrams">>]
Worth(s, dir, rate) ==
    Pending(s, <<dir, "ip_bytes">>) - Pending(s, <<dir, "payload_bytes">>)
        - rate * Pending(s, <<dir, "datagrams">>)
Dues(dir, rate) == [w \in Writers |-> Worth(Left(w), dir, rate)]

\* With what is still due the headers of every datagram are between 28 and 48
\* bytes. Without the sum over the writers this is false in the middle of a call.
BalanceInv ==
    /\ \A w \in Writers : Len(todo[w]) <= 3
    /\ \A dir \in Directions :
           /\ Excess(exact, dir, 28) + Sum(Dues(dir, 28), Writers) >= 0
           /\ Excess(exact, dir, 48) + Sum(Dues(dir, 48), Writers) <= 0

\* Lists of adds have well-defined worths.
LEMMA PendingType ==
    ASSUME NEW s \in Seq(Adds), NEW c
    PROVE  Pending(s, c) \in Nat
<1>1. \A i \in DOMAIN s : s[i] \in Adds
  OBVIOUS
<1>2. \A i \in DOMAIN s : s[i].value \in Nat
  BY <1>1 DEF Adds
<1>3. \A i \in 1..3 : Part(s, i, c) \in Nat
  BY <1>2 DEF Part
<1> QED
  BY <1>3 DEF Pending

\* An add that is made is no longer pending.
LEMMA PendingTail ==
    ASSUME NEW s \in Seq(Adds), s # <<>>, Len(s) <= 3, NEW c
    PROVE  Pending(s, c) = Pending(Tail(s), c) + (IF Head(s).counter = c THEN Head(s).value ELSE 0)
<1>1. /\ Len(s) \in Nat /\ DOMAIN s = 1..Len(s) /\ Len(s) > 0
      /\ Tail(s) \in Seq(Adds) /\ DOMAIN Tail(s) = 1..Len(s) - 1 /\ Head(s) = s[1]
      /\ \A i \in 1..Len(s) - 1 : Tail(s)[i] = s[i + 1]
  OBVIOUS
<1>2. Part(Tail(s), 1, c) = Part(s, 2, c)
  BY <1>1 DEF Part
<1>3. Part(Tail(s), 2, c) = Part(s, 3, c)
  BY <1>1 DEF Part
<1>4. Part(Tail(s), 3, c) = 0
  BY <1>1 DEF Part
<1>5. Part(s, 1, c) = IF Head(s).counter = c THEN Head(s).value ELSE 0
  BY <1>1 DEF Part
<1>6. \A i \in 1..3 : Part(s, i, c) \in Nat
  <2>1. \A i \in DOMAIN s : s[i].value \in Nat
    <3>1. \A i \in DOMAIN s : s[i] \in Adds
      OBVIOUS
    <3> QED
      BY <3>1 DEF Adds
  <2> QED
    BY <2>1 DEF Part
<1> QED
  BY <1>2, <1>3, <1>4, <1>5, <1>6 DEF Pending

\* What is left to add is a list of adds.
LEMMA LeftType ==
    ASSUME TypeOK, NEW w \in Writers
    PROVE  Left(w) \in Seq(Adds)
  BY HeadAdd DEF TypeOK, Left

\* The sum of the dues changes with the dues of the one writer that moves.
LEMMA DuesChange ==
    ASSUME TypeOK, TypeOK', NEW w \in Writers, NEW dir \in Directions, NEW rate \in HeaderSizes,
           \A u \in Writers : u # w => Left(u)' = Left(u)
    PROVE  /\ Sum(Dues(dir, rate), Writers) \in Int
           /\ Sum(Dues(dir, rate)', Writers) =
                  Sum(Dues(dir, rate), Writers) - Worth(Left(w), dir, rate)
                      + Worth(Left(w)', dir, rate)
<1>1. rate \in Int
  BY DEF HeaderSizes
<1>2. \A s \in Seq(Adds) : Worth(s, dir, rate) \in Int
  BY <1>1, PendingType DEF Worth
<1>3. \A u \in Writers : Left(u) \in Seq(Adds) /\ Left(u)' \in Seq(Adds)
  <2>1. \A u \in Writers : Left(u) \in Seq(Adds)
    BY LeftType
  <2>2. \A u \in Writers : todo'[u] \in Seq(Adds) /\ (pc'[u] = "flag" => todo'[u] # <<>>)
    BY DEF TypeOK
  <2>3. \A u \in Writers : Left(u)' \in Seq(Adds)
    BY <2>2 DEF Left
  <2> QED
    BY <2>1, <2>3
<1> DEFINE f == [u \in Writers |-> Worth(Left(u), dir, rate)]
           g == [u \in Writers |-> Worth(Left(u)', dir, rate)]
<1>4. f \in [Writers -> Int] /\ g \in [Writers -> Int]
  BY <1>2, <1>3
<1>5. \A u \in Writers \ {w} : g[u] = f[u]
  OBVIOUS
<1>6. f[w] = Worth(Left(w), dir, rate) /\ g[w] = Worth(Left(w)', dir, rate)
  OBVIOUS
<1>7. Dues(dir, rate) = f /\ Dues(dir, rate)' = g
  BY DEF Dues, Worth
<1>8. IsFiniteSet(Writers)
  BY SendersAssumption, FS_AddElement DEF Writers
<1> HIDE DEF f, g
<1>9. Sum(f, Writers) \in Int /\ Sum(g, Writers) = Sum(f, Writers) - f[w] + g[w]
  BY <1>4, <1>5, <1>8, SumChange
<1> QED
  BY <1>6, <1>7, <1>9

\* What the adds of sent and received are worth
LEMMA CallWorth ==
    ASSUME NEW len \in Lengths, NEW headers \in HeaderSizes, NEW d \in Directions,
           NEW dir \in Directions, NEW rate \in HeaderSizes
    PROVE  /\ Worth(Record(d, len, headers), dir, rate) = IF d = dir THEN headers - rate ELSE 0
           /\ Len(Record(d, len, headers)) <= 3
           /\ Worth(<<[counter |-> Failures, value |-> 1]>>, dir, rate) = 0
           /\ Len(<<[counter |-> Failures, value |-> 1]>>) <= 3
           /\ Worth(<<>>, dir, rate) = 0
<1>1. len \in Nat /\ headers \in Nat /\ rate \in Nat
  BY CountersAssumption DEF HeaderSizes
<1>2. dir # "send" /\ \A f \in {"datagrams", "payload_bytes", "ip_bytes"} : <<dir, f>> # Failures
  BY DEF Directions, Failures
<1>3. \A c : Pending(<<>>, c) = 0
  BY DEF Pending, Part
<1>4. \A f \in {"datagrams", "payload_bytes", "ip_bytes"} :
          Pending(<<[counter |-> Failures, value |-> 1]>>, <<dir, f>>) = 0
  BY <1>2 DEF Pending, Part
<1>5. /\ Pending(Record(d, len, headers), <<dir, "datagrams">>) = IF d = dir THEN 1 ELSE 0
      /\ Pending(Record(d, len, headers), <<dir, "payload_bytes">>) = IF d = dir THEN len ELSE 0
      /\ Pending(Record(d, len, headers), <<dir, "ip_bytes">>) = IF d = dir THEN len + headers ELSE 0
  BY <1>1 DEF Pending, Part, Record
<1>6. Len(Record(d, len, headers)) = 3 /\ Len(<<[counter |-> Failures, value |-> 1]>>) = 1
  BY DEF Record
<1> QED
  BY <1>1, <1>3, <1>4, <1>5, <1>6 DEF Worth

\* Totals and lists of adds have integer worths.
LEMMA WorthType ==
    ASSUME NEW rate \in HeaderSizes, NEW dir \in Directions
    PROVE  /\ \A s \in Seq(Adds) : Worth(s, dir, rate) \in Int
           /\ \A e \in [Counters -> Nat] : Excess(e, dir, rate) \in Int
<1>1. rate \in Int
  BY DEF HeaderSizes
<1>2. \A s \in Seq(Adds) : Worth(s, dir, rate) \in Int
  BY <1>1, PendingType DEF Worth
<1>3. /\ <<dir, "ip_bytes">> \in Counters /\ <<dir, "payload_bytes">> \in Counters
      /\ <<dir, "datagrams">> \in Counters
  BY DEF Counters
<1>4. ASSUME NEW e \in [Counters -> Nat] PROVE Excess(e, dir, rate) \in Int
  <2>1. /\ e[<<dir, "ip_bytes">>] \in Nat /\ e[<<dir, "payload_bytes">>] \in Nat
        /\ e[<<dir, "datagrams">>] \in Nat
    BY <1>3
  <2> QED
    BY <1>1, <2>1 DEF Excess
<1> QED
  BY <1>2, <1>4

\* The balance survives a step of w after which the totals and what w still has
\* to add are together worth as much as before, or err on the safe side.
LEMMA BalanceByRate ==
    ASSUME TypeOK, TypeOK', NEW w \in Writers, BalanceInv,
           \A u \in Writers : u # w => Left(u)' = Left(u),
           \A u \in Writers : Len(todo'[u]) <= 3,
           \A dir \in Directions :
               /\ Excess(exact', dir, 28) + Worth(Left(w)', dir, 28)
                      >= Excess(exact, dir, 28) + Worth(Left(w), dir, 28)
               /\ Excess(exact', dir, 48) + Worth(Left(w)', dir, 48)
                      <= Excess(exact, dir, 48) + Worth(Left(w), dir, 48)
    PROVE  BalanceInv'
<1> SUFFICES ASSUME NEW dir \in Directions
             PROVE  /\ Excess(exact', dir, 28) + Sum(Dues(dir, 28)', Writers) >= 0
                    /\ Excess(exact', dir, 48) + Sum(Dues(dir, 48)', Writers) <= 0
  BY DEF BalanceInv
<1>1. Left(w) \in Seq(Adds) /\ Left(w)' \in Seq(Adds)
  <2>1. todo'[w] \in Seq(Adds) /\ (pc'[w] = "flag" => todo'[w] # <<>>)
    BY DEF TypeOK
  <2>2. Left(w)' \in Seq(Adds)
    BY <2>1 DEF Left
  <2> QED
    BY <2>2, LeftType
<1>2. exact \in [Counters -> Nat] /\ exact' \in [Counters -> Nat]
  BY DEF TypeOK
<1>3. 28 \in HeaderSizes /\ 48 \in HeaderSizes
  BY DEF HeaderSizes
<1> DEFINE Numbers(rate) ==
      /\ Excess(exact, dir, rate) \in Int /\ Excess(exact', dir, rate) \in Int
      /\ Worth(Left(w), dir, rate) \in Int /\ Worth(Left(w)', dir, rate) \in Int
      /\ Sum(Dues(dir, rate), Writers) \in Int
      /\ Sum(Dues(dir, rate)', Writers) =
             Sum(Dues(dir, rate), Writers) - Worth(Left(w), dir, rate) + Worth(Left(w)', dir, rate)
<1>4. Numbers(28)
  <2>1. /\ Sum(Dues(dir, 28), Writers) \in Int
        /\ Sum(Dues(dir, 28)', Writers) =
               Sum(Dues(dir, 28), Writers) - Worth(Left(w), dir, 28) + Worth(Left(w)', dir, 28)
    BY <1>3, DuesChange
  <2> QED
    BY <1>1, <1>2, <1>3, <2>1, WorthType
<1>5. Numbers(48)
  <2>1. /\ Sum(Dues(dir, 48), Writers) \in Int
        /\ Sum(Dues(dir, 48)', Writers) =
               Sum(Dues(dir, 48), Writers) - Worth(Left(w), dir, 48) + Worth(Left(w)', dir, 48)
    BY <1>3, DuesChange
  <2> QED
    BY <1>1, <1>2, <1>3, <2>1, WorthType
<1>6. /\ Excess(exact, dir, 28) + Sum(Dues(dir, 28), Writers) >= 0
      /\ Excess(exact, dir, 48) + Sum(Dues(dir, 48), Writers) <= 0
  BY DEF BalanceInv
<1>7. Excess(exact', dir, 28) + Sum(Dues(dir, 28)', Writers) >= 0
  BY <1>4, <1>6
<1>8. Excess(exact', dir, 48) + Sum(Dues(dir, 48)', Writers) <= 0
  BY <1>5, <1>6
<1> QED
  BY <1>7, <1>8

\* A call adds what its datagram has in headers, or a failure.
LEMMA CallBalance ==
    ASSUME IInv, IInv', BalanceInv, NEW w \in Writers, NEW adds \in Seq(Adds), Call(w, adds),
           Len(adds) <= 3,
           \A dir \in Directions : Worth(adds, dir, 28) >= 0 /\ Worth(adds, dir, 48) <= 0
    PROVE  BalanceInv'
<1>1. /\ todo[w] = <<>> /\ todo'[w] = adds /\ \A u \in Writers : u # w => todo'[u] = todo[u]
      /\ pc' = pc /\ exact' = exact /\ pc[w] = "load"
  BY DEF Call, IInv, TypeOK
<1>2. Left(w) = <<>> /\ Left(w)' = adds /\ \A u \in Writers : u # w => Left(u)' = Left(u)
  BY <1>1 DEF Left
<1>3. \A u \in Writers : Len(todo'[u]) <= 3
  BY <1>1 DEF BalanceInv
<1>4. exact \in [Counters -> Nat] /\ 28 \in HeaderSizes /\ 48 \in HeaderSizes
  BY DEF IInv, TypeOK, HeaderSizes
<1>5. ASSUME NEW dir \in Directions
      PROVE  /\ Excess(exact', dir, 28) + Worth(Left(w)', dir, 28)
                    >= Excess(exact, dir, 28) + Worth(Left(w), dir, 28)
             /\ Excess(exact', dir, 48) + Worth(Left(w)', dir, 48)
                    <= Excess(exact, dir, 48) + Worth(Left(w), dir, 48)
  <2>1. Worth(<<>>, dir, 28) = 0 /\ Worth(<<>>, dir, 48) = 0
    BY DEF Worth, Pending, Part
  <2>2. /\ Worth(adds, dir, 28) \in Int /\ Worth(adds, dir, 48) \in Int
        /\ Excess(exact, dir, 28) \in Int /\ Excess(exact, dir, 48) \in Int
    BY <1>4, WorthType
  <2> QED
    BY <1>1, <1>2, <2>1, <2>2
<1> QED
  BY <1>2, <1>3, <1>5, BalanceByRate DEF IInv

\* An exchange that succeeds moves what is due into the total.
LEMMA AddBalance ==
    ASSUME IInv, IInv', BalanceInv, NEW w \in Writers, Add(w)
    PROVE  BalanceInv'
<1> DEFINE c == Head(todo[w]).counter
           v == Head(todo[w]).value
           overflows == Overflows(previous[w] + v)
<1>1. /\ todo[w] # <<>> /\ pc[w] = "cas"
      /\ exact' = [exact EXCEPT ![c] = exact[c] + v]
      /\ pc' = [pc EXCEPT ![w] = IF overflows THEN "flag" ELSE "load"]
      /\ todo' = IF overflows THEN todo ELSE [todo EXCEPT ![w] = Tail(todo[w])]
  BY DEF Add
<1>2. c \in Counters /\ v \in Nat /\ Tail(todo[w]) \in Seq(Adds)
  BY <1>1, HeadAdd DEF IInv
<1>3. todo[w] \in Seq(Adds) /\ Len(todo[w]) <= 3
  BY DEF IInv, TypeOK, BalanceInv
<1>4. Len(Tail(todo[w])) <= 3
  BY <1>1, <1>3
<1>5. \A d : Pending(todo[w], d) = Pending(Tail(todo[w]), d) + (IF c = d THEN v ELSE 0)
  BY <1>1, <1>3, PendingTail
<1> HIDE DEF c, v, overflows
<1>6. Left(w) = todo[w] /\ Left(w)' = Tail(todo[w]) /\ \A u \in Writers : u # w => Left(u)' = Left(u)
  BY <1>1 DEF Left, IInv, TypeOK
<1>7. \A u \in Writers : Len(todo'[u]) <= 3
  BY <1>1, <1>4 DEF IInv, TypeOK, BalanceInv
<1>8. exact \in [Counters -> Nat] /\ exact' \in [Counters -> Nat]
  BY DEF IInv, TypeOK
<1>9. ASSUME NEW d \in Counters
      PROVE  /\ exact[d] \in Nat /\ exact'[d] \in Nat
             /\ Pending(Left(w), d) \in Nat /\ Pending(Left(w)', d) \in Nat
             /\ exact'[d] + Pending(Left(w)', d) = exact[d] + Pending(Left(w), d)
  <2>1. exact[d] \in Nat /\ exact'[d] \in Nat
    BY <1>8
  <2>2. exact'[d] = exact[d] + (IF c = d THEN v ELSE 0)
    BY <1>1, <1>2, <1>8, <2>1
  <2>3. Pending(todo[w], d) \in Nat /\ Pending(Tail(todo[w]), d) \in Nat
    BY <1>2, <1>3, PendingType
  <2> QED
    BY <1>2, <1>5, <1>6, <2>1, <2>2, <2>3
<1>10. ASSUME NEW dir \in Directions, NEW rate \in {28, 48}
       PROVE  /\ Excess(exact', dir, rate) + Worth(Left(w)', dir, rate) =
                     Excess(exact, dir, rate) + Worth(Left(w), dir, rate)
              /\ Excess(exact, dir, rate) + Worth(Left(w), dir, rate) \in Int
  <2>1. /\ <<dir, "ip_bytes">> \in Counters /\ <<dir, "payload_bytes">> \in Counters
        /\ <<dir, "datagrams">> \in Counters
    BY DEF Counters
  <2> DEFINE n(d) == exact[d]
             m(d) == exact'[d]
             p(d) == Pending(Left(w), d)
             q(d) == Pending(Left(w)', d)
  <2>2. \A d \in {<<dir, "ip_bytes">>, <<dir, "payload_bytes">>, <<dir, "datagrams">>} :
            n(d) \in Nat /\ m(d) \in Nat /\ p(d) \in Nat /\ q(d) \in Nat /\ m(d) + q(d) = n(d) + p(d)
    BY <1>9, <2>1
  <2>3. /\ Excess(exact', dir, rate) = m(<<dir, "ip_bytes">>) - m(<<dir, "payload_bytes">>) - rate * m(<<dir, "datagrams">>)
        /\ Excess(exact, dir, rate) = n(<<dir, "ip_bytes">>) - n(<<dir, "payload_bytes">>) - rate * n(<<dir, "datagrams">>)
        /\ Worth(Left(w), dir, rate) = p(<<dir, "ip_bytes">>) - p(<<dir, "payload_bytes">>) - rate * p(<<dir, "datagrams">>)
        /\ Worth(Left(w)', dir, rate) = q(<<dir, "ip_bytes">>) - q(<<dir, "payload_bytes">>) - rate * q(<<dir, "datagrams">>)
    BY DEF Excess, Worth
  <2> HIDE DEF n, m, p, q
  <2>4. CASE rate = 28
    BY <2>2, <2>3, <2>4
  <2>5. CASE rate = 48
    BY <2>2, <2>3, <2>5
  <2> QED
    BY <2>4, <2>5
<1>11. \A dir \in Directions :
          /\ Excess(exact', dir, 28) + Worth(Left(w)', dir, 28)
                 >= Excess(exact, dir, 28) + Worth(Left(w), dir, 28)
          /\ Excess(exact', dir, 48) + Worth(Left(w)', dir, 48)
                 <= Excess(exact, dir, 48) + Worth(Left(w), dir, 48)
  BY <1>10
<1> QED
  BY <1>6, <1>7, <1>11, BalanceByRate DEF IInv

\* The other steps of add change neither a total nor what is due.
LEMMA QuietBalance ==
    ASSUME IInv, IInv', BalanceInv, NEW w \in Writers, Load(w) \/ Retry(w) \/ Flag(w)
    PROVE  BalanceInv'
<1>1. exact' = exact /\ \A u \in Writers : Left(u)' = Left(u)
  <2>1. CASE Load(w) \/ Retry(w)
    BY <2>1 DEF Load, Retry, Left, IInv, TypeOK
  <2>2. CASE Flag(w)
    BY <2>2 DEF Flag, Left, IInv, TypeOK
  <2> QED
    BY <2>1, <2>2
<1>2. \A u \in Writers : Len(todo'[u]) <= 3
  <2>1. CASE Load(w) \/ Retry(w)
    BY <2>1 DEF Load, Retry, BalanceInv
  <2>2. CASE Flag(w)
    <3>1. todo[w] # <<>> /\ todo[w] \in Seq(Adds) /\ Len(todo[w]) <= 3
      BY <2>2 DEF Flag, IInv, TypeOK, BalanceInv
    <3>2. Len(Tail(todo[w])) <= 3
      BY <3>1
    <3> QED
      BY <2>2, <3>2 DEF Flag, IInv, TypeOK, BalanceInv
  <2> QED
    BY <2>1, <2>2
<1>3. \A dir \in Directions, rate \in {28, 48} : Dues(dir, rate)' = Dues(dir, rate)
  BY <1>1 DEF Dues, Worth
<1> QED
  BY <1>1, <1>2, <1>3 DEF BalanceInv

\* Every step preserves the balance.
LEMMA BalanceStep ==
    ASSUME IInv, IInv', BalanceInv, [Next]_vars
    PROVE  BalanceInv'
<1>1. ASSUME NEW w \in Writers, NEW len \in Lengths, NEW headers \in HeaderSizes,
             NEW d \in Directions, Call(w, Record(d, len, headers))
      PROVE  BalanceInv'
  <2>1. Record(d, len, headers) \in Seq(Adds) /\ Len(Record(d, len, headers)) <= 3
    BY CallAdds, CallWorth DEF HeaderSizes
  <2>2. ASSUME NEW dir \in Directions
        PROVE  Worth(Record(d, len, headers), dir, 28) >= 0 /\ Worth(Record(d, len, headers), dir, 48) <= 0
    <3>1. 28 \in HeaderSizes /\ 48 \in HeaderSizes /\ headers \in {28, 48}
      BY DEF HeaderSizes
    <3>2. /\ Worth(Record(d, len, headers), dir, 28) = IF d = dir THEN headers - 28 ELSE 0
          /\ Worth(Record(d, len, headers), dir, 48) = IF d = dir THEN headers - 48 ELSE 0
      BY <3>1, CallWorth
    <3> QED
      BY <3>1, <3>2
  <2> QED
    BY <1>1, <2>1, <2>2, CallBalance
<1>2. ASSUME NEW w \in Writers, NEW len \in Lengths, Call(w, <<[counter |-> Failures, value |-> 1]>>)
      PROVE  BalanceInv'
  <2> DEFINE failure == <<[counter |-> Failures, value |-> 1]>>
  <2>1. 28 \in HeaderSizes /\ 48 \in HeaderSizes /\ "sent" \in Directions
    BY DEF HeaderSizes, Directions
  <2>2. failure \in Seq(Adds) /\ Len(failure) <= 3
    BY <2>1, CallAdds, CallWorth
  <2>3. \A dir \in Directions : Worth(failure, dir, 28) = 0 /\ Worth(failure, dir, 48) = 0
    BY <2>1, CallWorth
  <2>4. Call(w, failure)
    BY <1>2
  <2> HIDE DEF failure
  <2> QED
    BY <2>2, <2>3, <2>4, CallBalance
<1>3. ASSUME NEW w \in Senders, NEW len \in Lengths, NEW headers \in HeaderSizes,
             NEW written \in {0, len}, Sent(w, len, headers, written)
      PROVE  BalanceInv'
  BY <1>1, <1>2, <1>3 DEF Sent, Directions, Writers
<1>4. ASSUME NEW len \in Lengths, NEW headers \in HeaderSizes, received(len, headers)
      PROVE  BalanceInv'
  BY <1>1, <1>4 DEF received, Directions, Writers
<1>5. ASSUME NEW w \in Writers, Load(w) \/ Retry(w) \/ Add(w) \/ Flag(w)
      PROVE  BalanceInv'
  BY <1>5, QuietBalance, AddBalance
<1>6. CASE Snapshot \/ UNCHANGED vars
  <2>1. todo' = todo /\ pc' = pc /\ exact' = exact
    BY <1>6 DEF Snapshot, vars
  <2>2. \A dir \in Directions, rate \in {28, 48} : Dues(dir, rate)' = Dues(dir, rate)
    BY <2>1 DEF Dues, Left
  <2> QED
    BY <2>1, <2>2 DEF BalanceInv
<1> QED
  BY <1>3, <1>4, <1>5, <1>6 DEF Next

\* With no call under way nothing is due.
LEMMA NothingDue ==
    ASSUME \A w \in Writers : todo[w] = <<>> /\ pc[w] = "load",
           NEW dir \in Directions, NEW rate \in HeaderSizes
    PROVE  Sum(Dues(dir, rate), Writers) = 0
<1>1. rate \in Int
  BY DEF HeaderSizes
<1>2. Worth(<<>>, dir, rate) = 0
  BY <1>1 DEF Worth, Pending, Part
<1>3. \A w \in Writers : Left(w) = <<>>
  BY DEF Left
<1>4. Dues(dir, rate) \in [Writers -> Int] /\ \A w \in Writers : Dues(dir, rate)[w] = 0
  BY <1>2, <1>3 DEF Dues
<1>5. IsFiniteSet(Writers)
  BY SendersAssumption, FS_AddElement DEF Writers
<1> QED
  BY <1>4, <1>5, SumZero

\* The totals balance in every reachable state.
THEOREM Balance == Spec => []BalanceInv
<1>1. Init => BalanceInv
  <2> SUFFICES ASSUME Init PROVE BalanceInv
    OBVIOUS
  <2>1. \A w \in Writers : todo[w] = <<>> /\ pc[w] = "load"
    BY DEF Init
  <2>2. ASSUME NEW dir \in Directions
        PROVE  /\ Excess(exact, dir, 28) = 0 /\ Excess(exact, dir, 48) = 0
               /\ Sum(Dues(dir, 28), Writers) = 0 /\ Sum(Dues(dir, 48), Writers) = 0
    <3>1. /\ <<dir, "ip_bytes">> \in Counters /\ <<dir, "payload_bytes">> \in Counters
          /\ <<dir, "datagrams">> \in Counters
      BY DEF Counters
    <3>2. /\ exact[<<dir, "ip_bytes">>] = 0 /\ exact[<<dir, "payload_bytes">>] = 0
          /\ exact[<<dir, "datagrams">>] = 0
      BY <3>1 DEF Init
    <3>3. Excess(exact, dir, 28) = 0 /\ Excess(exact, dir, 48) = 0
      BY <3>2 DEF Excess
    <3> QED
      BY <2>1, <3>3, NothingDue DEF HeaderSizes
  <2>3. Len(<<>>) <= 3
    OBVIOUS
  <2> QED
    BY <2>1, <2>2, <2>3 DEF BalanceInv
<1>2. IInv /\ IInv' /\ BalanceInv /\ [Next]_vars => BalanceInv'
  BY BalanceStep
<1> QED
  BY <1>1, <1>2, Invariance, PTL DEF Spec

\* Between calls the estimate of IP bytes of traffic.rs agrees with its other
\* totals, for any number of writers that race and any lengths they count.
THEOREM TotalsCorrect == Spec => []TotalsAddUp
<1>1. IInv /\ BalanceInv => TotalsAddUp
  <2> SUFFICES ASSUME IInv, BalanceInv, \A w \in Writers : todo[w] = <<>>, ~incomplete,
                      NEW dir \in Directions
               PROVE  LET headers == count[<<dir, "ip_bytes">>] - count[<<dir, "payload_bytes">>]
                      IN  /\ 28 * count[<<dir, "datagrams">>] <= headers
                          /\ headers <= 48 * count[<<dir, "datagrams">>]
    BY DEF TotalsAddUp
  <2>1. \A w \in Writers : pc[w] = "load"
    BY DEF IInv, TypeOK
  <2>2. \A c \in Counters : ~(exact[c] > U64Max)
    BY <2>1 DEF IInv, CutOffIsFlagged
  <2>3. \A c \in Counters : count[c] = exact[c] /\ exact[c] \in Nat
    BY <2>2 DEF IInv, TypeOK, NoLostUpdate, Saturated, Overflows
  <2>4. /\ <<dir, "ip_bytes">> \in Counters /\ <<dir, "payload_bytes">> \in Counters
        /\ <<dir, "datagrams">> \in Counters
    BY DEF Counters
  <2>5. Sum(Dues(dir, 28), Writers) = 0 /\ Sum(Dues(dir, 48), Writers) = 0
    BY <2>1, NothingDue DEF HeaderSizes
  <2>6. exact \in [Counters -> Nat] /\ 28 \in HeaderSizes /\ 48 \in HeaderSizes
    BY DEF IInv, TypeOK, HeaderSizes
  <2>7. Excess(exact, dir, 28) \in Int /\ Excess(exact, dir, 48) \in Int
    BY <2>6, WorthType
  <2>8. Excess(exact, dir, 28) >= 0 /\ Excess(exact, dir, 48) <= 0
    BY <2>5, <2>7 DEF BalanceInv
  <2> QED
    BY <2>3, <2>4, <2>8 DEF Excess
<1> QED
  BY <1>1, Invariance, Balance, PTL
=============================================================================
