--------------------------- MODULE TrafficCounters ---------------------------
(***************************************************************************)
(* traffic.rs: shared 64-bit counters that saturate, updated without a     *)
(* lock by the tasks that send and by the response router, and read field  *)
(* by field while they change.                                             *)
(*                                                                         *)
(* Every access is Relaxed. The model interleaves single accesses and no   *)
(* property relates the order of accesses to two counters.                 *)
(***************************************************************************)
EXTENDS Integers, Sequences, FiniteSets

CONSTANTS
    Senders,     \* tasks that call TrafficCounters::sent
    Router,      \* the task that calls TrafficCounters::received
    U64Max,      \* u64::MAX, scaled
    Lengths,     \* datagram lengths
    MaxDatagrams \* bound on the datagrams counted

Writers == Senders \cup {Router}

ASSUME CountersAssumption ==
    U64Max \in Nat /\ Lengths \subseteq 0..U64Max /\ MaxDatagrams \in Nat

ASSUME SendersAssumption == IsFiniteSet(Senders)

Directions == {"sent", "received"}

\* send_failures, and the three counters of each direction
Failures == <<"send", "failures">>
Counters == (Directions \X {"datagrams", "payload_bytes", "ip_bytes"}) \cup {Failures}

VARIABLES
    todo,       \* [Writers -> the adds a call still has to make]
    pc,         \* [Writers -> "load", "cas" or "flag", within the first of them]
    previous,   \* [Writers -> the value the writer expects in its counter]
    count,      \* [Counters -> value]
    incomplete, \* the flag
    exact,      \* [Counters -> the sum of what was added], not kept by the code
    datagrams,  \* calls so far
    field,      \* the counter whose samples a caller compares
    sampled     \* its value in the caller's last snapshot

vars == <<todo, pc, previous, count, incomplete, exact, datagrams, field, sampled>>

snapVars == <<field, sampled>>

-----------------------------------------------------------------------------
\* Mutants: no saturation; a full counter counts as cut off
BugSaturated(n) == n
BugOverflows(n) == n >= U64Max

\* checked_add is None; saturating_add
Overflows(n) == n > U64Max
Saturated(n) == IF Overflows(n) THEN U64Max ELSE n

\* IPv4, and IPv4 mapped into IPv6; IPv6
HeaderSizes == {28, 48}

\* Mutant: the headers are left out
BugRecord(direction, len, headers) ==
    <<[counter |-> <<direction, "datagrams">>, value |-> 1],
      [counter |-> <<direction, "payload_bytes">>, value |-> len],
      [counter |-> <<direction, "ip_bytes">>, value |-> len]>>

\* the adds of record
Record(direction, len, headers) ==
    <<[counter |-> <<direction, "datagrams">>, value |-> 1],
      [counter |-> <<direction, "payload_bytes">>, value |-> len],
      [counter |-> <<direction, "ip_bytes">>, value |-> len + headers]>>

Init ==
    /\ todo = [w \in Writers |-> <<>>]
    /\ pc = [w \in Writers |-> "load"]
    /\ previous = [w \in Writers |-> 0]
    /\ count = [c \in Counters |-> 0]
    /\ incomplete = FALSE
    /\ exact = [c \in Counters |-> 0]
    /\ datagrams = 0
    /\ field \in Counters
    /\ sampled = 0

Call(w, adds) ==
    /\ todo[w] = <<>>
    /\ datagrams < MaxDatagrams
    /\ datagrams' = datagrams + 1
    /\ todo' = [todo EXCEPT ![w] = adds]
    /\ UNCHANGED <<pc, previous, count, incomplete, exact, snapVars>>

\* sent: whole datagrams count as traffic, partial or failed sends as failures
Sent(w, len, headers, written) ==
    Call(w, IF written = len THEN Record("sent", len, headers)
                             ELSE <<[counter |-> Failures, value |-> 1]>>)

received(len, headers) == Call(Router, Record("received", len, headers))

-----------------------------------------------------------------------------
(* add                                                                     *)

Load(w) ==
    /\ todo[w] # <<>> /\ pc[w] = "load"
    /\ previous' = [previous EXCEPT ![w] = count[Head(todo[w]).counter]]
    /\ pc' = [pc EXCEPT ![w] = "cas"]
    /\ UNCHANGED <<todo, count, incomplete, exact, datagrams, snapVars>>

\* compare_exchange_weak fails, on another value or spuriously
Retry(w) ==
    /\ todo[w] # <<>> /\ pc[w] = "cas"
    /\ previous' = [previous EXCEPT ![w] = count[Head(todo[w]).counter]]
    /\ UNCHANGED <<todo, pc, count, incomplete, exact, datagrams, snapVars>>

\* Mutants: a plain store; an addition that wraps
BugAdd(w) ==
    LET a == Head(todo[w]) IN
    /\ todo[w] # <<>> /\ pc[w] = "cas"
    /\ count' = [count EXCEPT ![a.counter] = Saturated(previous[w] + a.value)]
    /\ exact' = [exact EXCEPT ![a.counter] = @ + a.value]
    /\ pc' = [pc EXCEPT ![w] = IF Overflows(previous[w] + a.value) THEN "flag" ELSE "load"]
    /\ todo' = IF Overflows(previous[w] + a.value) THEN todo ELSE [todo EXCEPT ![w] = Tail(@)]
    /\ UNCHANGED <<previous, incomplete, datagrams, snapVars>>

BugAddWraps(w) ==
    LET a == Head(todo[w]) IN
    /\ todo[w] # <<>> /\ pc[w] = "cas"
    /\ count[a.counter] = previous[w]
    /\ count' = [count EXCEPT ![a.counter] = (previous[w] + a.value) % (U64Max + 1)]
    /\ exact' = [exact EXCEPT ![a.counter] = @ + a.value]
    /\ pc' = [pc EXCEPT ![w] = IF Overflows(previous[w] + a.value) THEN "flag" ELSE "load"]
    /\ todo' = IF Overflows(previous[w] + a.value) THEN todo ELSE [todo EXCEPT ![w] = Tail(@)]
    /\ UNCHANGED <<previous, incomplete, datagrams, snapVars>>

\* compare_exchange_weak succeeds; checked_add decides about the flag
Add(w) ==
    LET a == Head(todo[w])
        overflows == Overflows(previous[w] + a.value)
    IN  /\ todo[w] # <<>> /\ pc[w] = "cas"
        /\ count[a.counter] = previous[w]
        /\ count' = [count EXCEPT ![a.counter] = Saturated(previous[w] + a.value)]
        /\ exact' = [exact EXCEPT ![a.counter] = @ + a.value]
        /\ pc' = [pc EXCEPT ![w] = IF overflows THEN "flag" ELSE "load"]
        /\ todo' = IF overflows THEN todo ELSE [todo EXCEPT ![w] = Tail(@)]
        /\ UNCHANGED <<previous, incomplete, datagrams, snapVars>>

Flag(w) ==
    /\ pc[w] = "flag"
    /\ incomplete' = TRUE
    /\ pc' = [pc EXCEPT ![w] = "load"]
    /\ todo' = [todo EXCEPT ![w] = Tail(@)]
    /\ UNCHANGED <<previous, count, exact, datagrams, snapVars>>

-----------------------------------------------------------------------------
\* snapshot loads every counter once. The loads are independent of each other,
\* so one arbitrary counter stands for all.
Snapshot ==
    /\ sampled' = count[field]
    /\ UNCHANGED <<todo, pc, previous, count, incomplete, exact, datagrams, field>>

Next ==
    \/ \E w \in Senders, len \in Lengths, headers \in HeaderSizes :
           \E written \in {0, len} : Sent(w, len, headers, written)
    \/ \E len \in Lengths, headers \in HeaderSizes : received(len, headers)
    \/ \E w \in Writers : Load(w) \/ Retry(w) \/ Add(w) \/ Flag(w)
    \/ Snapshot

Spec == Init /\ [][Next]_vars

-----------------------------------------------------------------------------
(* Properties                                                              *)

Adds == [counter : Counters, value : Nat]

TypeOK ==
    /\ todo \in [Writers -> Seq(Adds)]
    /\ pc \in [Writers -> {"load", "cas", "flag"}]
    /\ previous \in [Writers -> 0..U64Max]
    /\ count \in [Counters -> 0..U64Max]
    /\ incomplete \in BOOLEAN
    /\ exact \in [Counters -> Nat]
    /\ datagrams \in 0..MaxDatagrams
    /\ field \in Counters
    /\ sampled \in 0..U64Max
    /\ \A w \in Writers : pc[w] # "load" => todo[w] # <<>>

\* No update is lost: whatever writers raced, a counter holds the sum of all
\* that was added to it, capped at u64::MAX.
NoLostUpdate == \A c \in Counters : count[c] = Saturated(exact[c])

\* The flag `incomplete' is raised exactly if some total was cut off, at the
\* latest when the writer that cut it off has returned from add.
CutOffIsFlagged ==
    LET cutOff == \E c \in Counters : exact[c] > U64Max
    IN  /\ incomplete => cutOff
        /\ cutOff => incomplete \/ \E w \in Writers : pc[w] = "flag"

\* With no call under way and no total cut off, the estimate of IP bytes is the
\* payload plus the headers of as many datagrams as were counted.
TotalsAddUp ==
    (\A w \in Writers : todo[w] = <<>>) /\ ~incomplete =>
        \A dir \in Directions :
            LET headers == count[<<dir, "ip_bytes">>] - count[<<dir, "payload_bytes">>]
            IN  /\ 28 * count[<<dir, "datagrams">>] <= headers
                /\ headers <= 48 * count[<<dir, "datagrams">>]

\* A later snapshot never shows less traffic than an earlier one, whatever
\* writers are at work while it reads.
SnapshotsGrow == [][sampled' >= sampled]_vars
=============================================================================
