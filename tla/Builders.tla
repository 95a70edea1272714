------------------------------ MODULE Builders ------------------------------
(***************************************************************************)
(* What an application hands in: resources, trackers and durations of      *)
(* model.rs, the request builder of public_client.rs, the public errors of *)
(* error.rs. A builder method takes a draft and gives the next one or an   *)
(* error; it owns the draft, so an error loses it.                         *)
(*                                                                         *)
(* A duration is a number of whole milliseconds and the nanoseconds left.  *)
(* An Option is a sequence of at most one element. A name is never longer  *)
(* than u32::MAX bytes. The methods of one builder take labels by length.  *)
(***************************************************************************)
EXTENDS Wire

CONSTANT U32Max   \* u32::MAX, scaled

ASSUME U32Assumption == U32Max \in Nat \ {0}

MAX_METRICS_LABEL_LEN == 65526

duration_to_u32_ms(d) ==
    Outcome(<<Check(d.ms > 0 \/ d.nanos > 0, "InvalidDuration"),
              Check(d.nanos = 0, "InvalidDuration"),
              Check(d.ms <= U32Max, "InvalidDuration")>>, d.ms)

\* Resource::new
Resource_new(name, window, rate_limit) ==
    LET ms == duration_to_u32_ms(window)
    IN  CASE name = ""              -> Err("InvalidName")
          [] name # "" /\ ~ms.ok    -> ms
          [] OTHER -> Ok([name |-> name, window_ms |-> ms.value, rate_limit |-> rate_limit,
                          id |-> derive_bucket_id(name, ms.value, rate_limit)])

\* LatencyTrackerBuilder::build
LatencyTracker_build(b) ==
    LET ttl    == duration_to_u32_ms(b.sample_ttl[1])
        set    == b.sample_ttl # <<>>
        counts == Outcome(<<Check(b.max_samples # <<>>, "MissingTrackerField"),
                            Check(b.min_samples # <<>>, "MissingTrackerField"),
                            Check(b.max_samples # <<0>>, "InvalidTrackerValue"),
                            Check(b.min_samples # <<0>>, "InvalidTrackerValue")>>, b)
        fields == [name |-> b.name, sample_ttl_ms |-> ttl.value,
                   max_samples |-> b.max_samples[1], min_samples |-> b.min_samples[1]]
    IN  CASE b.name = ""                            -> Err("InvalidName")
          [] b.name # "" /\ ~set                    -> Err("MissingTrackerField")
          [] b.name # "" /\ set /\ ~ttl.ok          -> ttl
          [] b.name # "" /\ set /\ ttl.ok /\ ~counts.ok -> counts
          [] OTHER -> Ok([tracker |-> fields, id |-> derive_latency_tracker_id(fields)])

-----------------------------------------------------------------------------
(* RequestBuilder                                                          *)

\* Client::request
EmptyDraft == [resources |-> <<>>, guards |-> <<>>, label_len |-> 0]

\* Exponent 31 stands for u32::MAX, which no window exceeds.
ExceedsWindow(window_ms, exponent) == exponent # 31 /\ window_ms > 2^exponent

consume(draft, rate_window, resource, tokens) ==
    Outcome(<<Check(tokens \in 1..U16Max, "InvalidTokenQuantity"),
              Check(~ExceedsWindow(resource.window_ms, rate_window), "ResourceWindowExceedsApiKey"),
              Check(Len(draft.resources) # U16Max, "TooManyRequestEntries")>>,
            [draft EXCEPT !.resources = Append(@,
                [name |-> resource.name, window_ms |-> resource.window_ms,
                 rate_limit |-> resource.rate_limit, tokens |-> tokens])])

guard(draft, tracker, threshold) ==
    LET ms == duration_to_u32_ms(threshold)
    IN  CASE Len(draft.guards) = U16Max               -> Err("TooManyRequestEntries")
          [] Len(draft.guards) # U16Max /\ ~ms.ok     -> ms
          [] OTHER -> Ok([draft EXCEPT !.guards = Append(@,
                              [tracker |-> tracker.tracker, threshold_ms |-> ms.value])])

\* An empty label is no label, which length 0 is already.
metrics_label(draft, n) ==
    Outcome(<<Check(n <= MAX_METRICS_LABEL_LEN, "InvalidMetricsLabel")>>,
            [draft EXCEPT !.label_len = n])

\* validate_rate_windows_against_quota, which repeats the test of consume
validate_rate_windows(draft, rate_window) ==
    Outcome(<<Check(\A i \in DOMAIN draft.resources :
                        ~ExceedsWindow(draft.resources[i].window_ms, rate_window), "Protocol")>>,
            draft)

\* The Response that RequestBuilder::send makes of a result; server id 0 is none
Response(result) ==
    [decision |-> IF result.success THEN "granted" ELSE "rejected",
     resource_results |-> result.resource_results, guard_results |-> result.guard_results,
     selected_server_id |-> IF result.server_id = 0 THEN <<>> ELSE <<result.server_id>>]

\* From<CoreError> for Error
public_error(error) ==
    CASE error = "Io" -> "Communication" [] error = "Auth" -> "Authentication"
      [] error = "Dns" -> "Discovery"    [] error = "Config" -> "InvalidConfiguration"
      [] OTHER -> error
=============================================================================
