------------------------------- MODULE Checks -------------------------------
(***************************************************************************)
(* The shape of every validating function of the crate: checks in order,   *)
(* the first that fails decides the error (the `?' operator). A check      *)
(* looks at `needs' elements of a slice that has `has'; looking past the   *)
(* end is a panic in Rust, whatever the check then wants. The value of a   *)
(* check is its error, or Pass.                                            *)
(***************************************************************************)
EXTENDS Naturals, Sequences

Ok(value) == [ok |-> TRUE, value |-> value]

Err(error) == [ok |-> FALSE, error |-> error]

Pass == "pass"

\* A check that indexes nothing
Check(holds, error) == IF holds THEN Pass ELSE error

\* A slice that is taken, or a read that nothing depends on
Slice(needs, has) == IF needs > has THEN "panic" ELSE Pass

\* A check of what was read
Reads(needs, has, holds, error) == IF needs > has THEN "panic" ELSE Check(holds, error)

Outcome(checks, value) ==
    LET stop == {i \in DOMAIN checks : checks[i] # Pass}
    IN  IF stop = {} THEN Ok(value)
        ELSE Err(checks[CHOOSE i \in stop : \A j \in stop : i <= j])
=============================================================================
