---- MODULE MCRequestPolicy ----
(***************************************************************************)
(* TLC instance of RequestPolicy: u32 scaled to 6 bits, u64 to 9 bits, at  *)
(* most 4 replays; the schedules include every structural error and steps  *)
(* that would overflow the u32 if they were not capped.                    *)
(***************************************************************************)
EXTENDS RequestPolicy

MCSchedules ==
    {fixed(u) : u \in {0, 1, 3}}
    \cup {linear(i, g, m) : i \in {0, 1, 2}, g \in {0, 1, 3, 40}, m \in {1, 2, 7, 60}}
    \cup {exponential(i, g, m) : i \in {0, 1, 2}, g \in {1, 2, 5}, m \in {1, 3, 16, 63}}

MCUnits == {[ms |-> n, sub |-> FALSE] : n \in {0, 1, 3}} \cup {[ms |-> 1, sub |-> TRUE]}
MCReplayCounts == {0, 1, 2, 4, 5}
MCFinalUnits == {0, 1, 9}
MCDedupLimits == {0, 12, 18, 63}
====
