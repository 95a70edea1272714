------------------------------ MODULE Exchange ------------------------------
(***************************************************************************)
(* The data of one client's operations from end to end: the key text an    *)
(* operator types, the client built from it, a request put together by the *)
(* application, its datagram, the servers' answers, the router that        *)
(* recognises them and the parser that reads them; and latency reports.    *)
(*                                                                         *)
(* HaRequest, Steering and Discovery model what is one step here: rounds   *)
(* and the choice among answers (a request ends with an acceptable answer  *)
(* or gives up), sockets, and the resolver (which may fail).               *)
(*                                                                         *)
(* External: the operator's typing (Edit), the servers (Answer, OddAnswer) *)
(* and the network, which keeps, repeats and reorders answers.             *)
(***************************************************************************)
EXTENDS ApiKey, Builders, FiniteSets

CONSTANTS
    Keys,          \* the keys the service issued
    Typing,        \* per key: a bound on the typing errors, the characters they put in
    Horizon,       \* horizon_ms of the request policy
    Windows, Quantities, Thresholds, Labels, Trackers,   \* what the application asks for
    MaxEntries,    \* bound on the resources, and on the guards, of a request
    MaxRequests,   \* bound on the requests sent
    MaxReports,    \* bound on the reports
    MaxAnswers,    \* bound on the answers of conforming servers
    Targets,       \* the discovered endpoints, [addr, id], in order
    Verdicts,      \* what each server may say: deficits, latencies, sizes
    OddShapes,     \* declared sizes and counts of answers that do not follow the protocol
    RecvBuf        \* the router's buffer: 2048 bytes

VARIABLES
    issued,    \* the key whose text is typed
    text,      \* what was typed
    edits,     \* errors made so far
    key,       \* what from_str gave, NoKey before
    ready,     \* the client exists
    draft,     \* the request being built
    asked,     \* the requests sent, in order; the index is the request id
    inflight,  \* the id in the inflight map, 0 for none
    wire,      \* datagrams sent
    net,       \* answers on their way, never lost for good
    result,    \* what the last operation returned
    panicked,  \* some read was out of bounds
    got,       \* report datagrams accepted by the socket, per server (history)
    failures,  \* server_stats[id].send_failures
    reported   \* reports that returned Ok

setup == <<issued, text, edits, key, ready>>
stats == <<got, failures, reported>>
vars  == <<setup, draft, asked, inflight, wire, net, result, panicked, stats>>

NoKey == Err("untyped")

ServerIds == {Targets[i].id : i \in DOMAIN Targets}

Key == [auth_method : DOMAIN MethodName, key_id : Seq(SUBSET (0..7)),
        auth_secret : Seq(SUBSET (0..7)),
        limits : [rate_buckets : Nat, latency_services : Nat, metrics_labels : Nat,
                  latency_buffer : Nat, dedup_ttl_ms_max : Nat, rate_window : Nat]]

\* What the service issues: the parts have the sizes of the format, the quotas
\* fit their fields
Issuable(k) ==
    /\ Len(k.key_id) = 8
    /\ Len(k.auth_secret) = IF k.auth_method = "none" THEN 0 ELSE 32
    /\ k.limits.rate_buckets <= 24 /\ k.limits.latency_services <= 24
    /\ k.limits.metrics_labels <= 31 /\ k.limits.latency_buffer <= 15
    /\ k.limits.rate_window <= 31
    /\ \E units \in 1..200 : k.limits.dedup_ttl_ms_max = 10 * units

Duration == [ms : Nat, nanos : Nat]

ASSUME InputAssumption ==
    /\ Keys \subseteq {k \in Key : Issuable(k)} /\ Typing \in [Keys -> [max : Nat, chars : SUBSET Nat]]
    /\ Windows \subseteq Duration /\ Thresholds \subseteq Duration
    /\ Quantities \subseteq Nat /\ Labels \subseteq Nat /\ Horizon \in Nat
    /\ Trackers \subseteq [name : STRING, sample_ttl : Seq(Duration), max_samples : Seq(Nat),
                           min_samples : Seq(Nat)]
    /\ MaxEntries \in Nat /\ MaxRequests \in Nat /\ MaxReports \in Nat /\ MaxAnswers \in Nat

\* A conforming server's tenant TLV is at least as long as the client's; odd
\* answers may have any sizes and counts.
ASSUME NetworkAssumption ==
    /\ Targets \in Seq([addr : STRING, id : Nat]) /\ RecvBuf \in Nat
    /\ Verdicts \subseteq [server : ServerIds, tenant_size : Nat \ (0..39), keep : BOOLEAN,
                           latency : Nat, short : BOOLEAN, trailing : Nat]
    /\ OddShapes \subseteq [server : Nat, tenant_size : Nat, auth_delta : Int, pdu_missing : Int,
                            guards : Int, resources : Int, stray : Nat,
                            from : {"start", "pdu", "end"}, len : Int]

Failed(error) == [kind |-> "error", error |-> error]

Idle == [kind |-> "idle"]

\* The text of a key. Secrets have a payload of their own.
KeyText(k) ==
    IF k.auth_method = "secret"
    THEN bech32_encode(Prefix \o MethodName["secret"], k.auth_secret)
    ELSE encode_api_key(k)

Init ==
    /\ issued \in Keys
    /\ text = KeyText(issued)
    /\ edits = 0 /\ key = NoKey /\ ready = FALSE
    /\ draft = EmptyDraft
    /\ asked = <<>> /\ inflight = 0
    /\ wire = {} /\ net = {}
    /\ result = Idle /\ panicked = FALSE
    /\ got = [s \in ServerIds |-> 0]
    /\ failures = [s \in ServerIds |-> 0]
    /\ reported = 0

-----------------------------------------------------------------------------
(* The client                                                              *)

\* One character replaced, inserted or left out, or everything in capitals
Edited(s) ==
    {[s EXCEPT ![i] = c] : i \in DOMAIN s, c \in Typing[issued].chars}
        \cup {SubSeq(s, 1, i) \o <<c>> \o SubSeq(s, i + 1, Len(s)) : i \in 0..Len(s), c \in Typing[issued].chars}
        \cup {SubSeq(s, 1, i - 1) \o SubSeq(s, i + 1, Len(s)) : i \in DOMAIN s}
        \cup {[i \in DOMAIN s |-> IF IsLower(s[i]) THEN s[i] - 32 ELSE s[i]]}

Edit ==
    /\ key = NoKey /\ edits < Typing[issued].max
    /\ text' \in Edited(text)
    /\ edits' = edits + 1
    /\ UNCHANGED <<issued, key, ready, draft, asked, inflight, wire, net, result, panicked, stats>>

\* str::parse
ParseKey ==
    /\ key = NoKey
    /\ key' = from_str(text)
    /\ UNCHANGED <<issued, text, edits, ready, draft, asked, inflight, wire, net, result,
                   panicked, stats>>

\* ClientBuilder::build and CoreClient::new, whose sockets or resolver may fail
BuildClient ==
    /\ key.ok /\ ~ready /\ result = Idle
    /\ IF Horizon <= key.value.limits.dedup_ttl_ms_max
         THEN \/ ready' = TRUE /\ UNCHANGED result
              \/ \E error \in {"Io", "Dns"} : result' = Failed(public_error(error)) /\ UNCHANGED ready
         ELSE result' = Failed("RequestPolicyExceedsApiKey") /\ UNCHANGED ready
    /\ UNCHANGED <<issued, text, edits, key, draft, asked, inflight, wire, net, panicked, stats>>

-----------------------------------------------------------------------------
(* A request                                                               *)

\* Requests and reports share only a counter per server, which a request changes
\* as HaRequest says: a behaviour has the one or the other.
WithinBounds(requests, reports) ==
    /\ requests <= MaxRequests /\ reports <= MaxReports
    /\ requests = 0 \/ reports = 0

rateWindow == key.value.limits.rate_window

\* A builder method: the next draft, or an error that loses the draft
Step(next) ==
    /\ ready /\ inflight = 0
    /\ next.ok => Len(next.value.resources) <= MaxEntries /\ Len(next.value.guards) <= MaxEntries
    /\ draft'  = IF next.ok THEN next.value ELSE EmptyDraft
    /\ result' = IF next.ok THEN Idle ELSE Failed(next.error)
    /\ UNCHANGED <<setup, asked, inflight, wire, net, panicked, stats>>

AddResource(window, tokens) ==
    LET resource == Resource_new("bucket", window, 5)
    IN  Step(IF resource.ok THEN consume(draft, rateWindow, resource.value, tokens) ELSE resource)

AddGuard(args, threshold) ==
    LET tracker == LatencyTracker_build(args)
    IN  Step(IF tracker.ok THEN guard(draft, tracker.value, threshold) ELSE tracker)

SetLabel(n) == Step(metrics_label(draft, n))

\* The datagram of a draft, in the order of the checks that may refuse it
RequestPacket(d, id) ==
    LET body == build_rate_request_body(d.resources, d.guards, d.label_len)
        pdu  == build_pdu("rate_request", Horizon, body.value)
    IN  CASE ~body.ok            -> body
          [] body.ok /\ ~pdu.ok  -> pdu
          [] OTHER -> packet(key.value, build_tenant_header(key.value.key_id, id), pdu.value)

\* RequestBuilder::send up to the first transmission. resolves says whether
\* the discovery that precedes the packet succeeds.
Send(resolves) ==
    LET windows == validate_rate_windows(draft, rateWindow)
        built   == RequestPacket(draft, Len(asked) + 1)
        empty   == draft.resources = <<>> /\ draft.guards = <<>>
        Refuse(error) == /\ result' = Failed(public_error(error))
                         /\ UNCHANGED <<asked, inflight, wire>>
    IN  /\ ready /\ inflight = 0 /\ WithinBounds(Len(asked) + 1, reported)
        /\ draft' = EmptyDraft
        /\ \/ ~windows.ok /\ Refuse("Protocol")
           \/ /\ windows.ok /\ empty
              /\ result' = [kind |-> "response", id |-> 0, response |->
                     Response([success |-> TRUE, resource_results |-> <<>>, guard_results |-> <<>>,
                               server_id |-> 0])]
              /\ UNCHANGED <<asked, inflight, wire>>
           \/ windows.ok /\ ~empty /\ (~resolves \/ Targets = <<>>) /\ Refuse("Dns")
           \/ windows.ok /\ ~empty /\ resolves /\ Targets # <<>> /\ ~built.ok /\ Refuse(built.error)
           \/ /\ windows.ok /\ ~empty /\ resolves /\ Targets # <<>> /\ built.ok
              /\ asked' = Append(asked, draft)
              /\ inflight' = Len(asked')
              /\ wire' = wire \cup {built.value}
              /\ result' = Idle
        /\ UNCHANGED <<setup, net, panicked, stats>>

\* Mutant: the previous registration comes back
BugGiveUp(error) ==
    /\ inflight # 0
    /\ inflight' = inflight - 1
    /\ result' = Failed(public_error(error))
    /\ UNCHANGED <<setup, draft, asked, wire, net, panicked, stats>>

\* The request ends without an answer
GiveUp(error) ==
    /\ inflight # 0
    /\ inflight' = 0
    /\ result' = Failed(public_error(error))
    /\ UNCHANGED <<setup, draft, asked, wire, net, panicked, stats>>

\* allowed_server_ids is not empty: every discovered endpoint has an id
Allowed(server) == server \in ServerIds

\* What the router reads of a datagram
Received(d) == [d EXCEPT !.len = IF d.len > RecvBuf THEN RecvBuf ELSE d.len]

\* response_router and accept_policy_response: the result for the request
\* whose id the datagram carries, if it is one
Accept(d) ==
    LET server == peek_server_id(d)
    IN  CASE ~server.ok -> server
          [] server.ok /\ ~Allowed(server.value) -> Err("None")
          [] OTHER -> parse_rate_response_with_auth(d, key.value)

\* `from' is history: the datagram that the response was read from
Deliver(d) ==
    LET r      == Received(d)
        id     == peek_request_id(r)
        answer == Accept(r)
        mine   == id.ok /\ id.value = inflight
        taken  == mine /\ answer.ok
    IN  /\ inflight # 0
        /\ panicked' = \/ panicked
                       \/ ~id.ok /\ id.error = "panic"
                       \/ mine /\ ~answer.ok /\ answer.error = "panic"
        /\ result' = IF taken THEN [kind |-> "response", id |-> inflight,
                                    response |-> Response(answer.value), from |-> d] ELSE result
        /\ inflight' = IF taken THEN 0 ELSE inflight
        /\ UNCHANGED <<setup, draft, asked, wire, net, stats>>

-----------------------------------------------------------------------------
(* Servers                                                                 *)

\* A conforming answer: the request's id and blocks, the server's id in place
\* of the key id, deficits and latencies as the verdict says, perhaps a longer
\* tenant TLV and trailing TLVs
AnswerTo(w, server, v) ==
    LET tenant == [w.tenant EXCEPT !.key_id = server, !.tlv_size = v.tenant_size,
                                   !.steering_feedback = v.keep]
        asks   == w.pdu.body
        guards == [i \in DOMAIN asks.guards |-> [asks.guards[i] EXCEPT !.current_latency = v.latency]]
        resources == [i \in DOMAIN asks.resources |->
            [asks.resources[i] EXCEPT !.tokens_requested = IF v.short THEN @ ELSE 0]]
        body   == [asks EXCEPT !.guards = guards, !.resources = resources, !.label = NoLabel,
                               !.len = @ - asks.label.len + v.trailing]
        pdu    == [w.pdu EXCEPT !.pdu_type = "rate_response",
                                !.pdu_size = PDU_HEADER_LEN + body.len, !.body = body]
    IN  [tenant |-> tenant, auth |-> append_auth_tlv(key.value, tenant, pdu), pdu |-> pdu,
         len |-> v.tenant_size + auth_header_size(key.value) + pdu.pdu_size]

Answer(w, server, v) ==
    /\ w.pdu.pdu_type = "rate_request"
    /\ Cardinality(net) < MaxAnswers
    /\ ~\E a \in net : a.tenant.unique_id = w.tenant.unique_id /\ a.tenant.key_id = server
    /\ net' = net \cup {AnswerTo(w, server, v)}
    /\ UNCHANGED <<setup, draft, asked, inflight, wire, result, panicked, stats>>

\* Bytes that are no block of the answer, read as a guard or as a resource: both
\* pass if n is 0
StrayBlock(n) ==
    LET id == derive_content_id("stray", "", <<>>)
    IN  [latency_tracker_id |-> id, latency_threshold |-> 1, current_latency |-> n,
         bucket_id |-> id, rate_limit |-> 0, tokens_requested |-> n]

\* What is read as n blocks where these blocks stand
Padded(blocks, n, stray) ==
    [i \in DOMAIN blocks \cup 1..n |-> IF i \in DOMAIN blocks THEN blocks[i] ELSE StrayBlock(stray)]

AtLeastZero(n) == IF n < 0 THEN 0 ELSE n

\* A refusal with other declared sizes or counts than the protocol's, or cut
\* short: its length is counted from the start, from where its PDU should begin,
\* or from its end. Another number of guards shifts the resources.
OddAnswerTo(w, server, o) ==
    LET refused == AnswerTo(w, server, [tenant_size |-> 40, keep |-> TRUE, latency |-> U32Max,
                                        short |-> TRUE, trailing |-> 0])
        tenant  == [refused.tenant EXCEPT !.tlv_size = o.tenant_size]
        size    == auth_header_size(key.value) + o.auth_delta
        start   == CASE o.from = "start" -> 0
                     [] o.from = "pdu" -> o.tenant_size + size
                     [] o.from = "end" -> o.tenant_size + size + refused.pdu.pdu_size
        len     == AtLeastZero(start + o.len)
        blocks  == refused.pdu.body
        guard_count    == AtLeastZero(blocks.guard_count + o.guards)
        resource_count == AtLeastZero(blocks.resource_count + o.resources)
        body    == [blocks EXCEPT
                        !.guard_count = guard_count, !.resource_count = resource_count,
                        !.guards = Padded(@, guard_count, o.stray),
                        !.resources = Padded(IF o.guards = 0 THEN @ ELSE <<>>, resource_count, o.stray),
                        !.len = len - o.tenant_size - size - PDU_HEADER_LEN]
        pdu     == [refused.pdu EXCEPT !.pdu_size = AtLeastZero(@ - o.pdu_missing), !.body = body]
    IN  [tenant |-> tenant, auth |-> [append_auth_tlv(key.value, tenant, pdu) EXCEPT !.tlv_size = size],
         pdu |-> pdu, len |-> len]

\* The router reads a conforming answer or, before any of those (a bound), an
\* odd one
Receive ==
    \/ \E a \in net : Deliver(a)
    \/ \E w \in wire, o \in OddShapes :
           /\ net = {} /\ w.pdu.pdu_type = "rate_request" /\ w.tenant.unique_id = inflight
           /\ Deliver(OddAnswerTo(w, o.server, o))

-----------------------------------------------------------------------------
(* Latency reports                                                         *)

\* target_server_ids: an address has the id of the last endpoint listed with it
TargetId(i) ==
    LET same == {j \in DOMAIN Targets : Targets[j].addr = Targets[i].addr}
    IN  Targets[CHOOSE j \in same : \A k \in same : k <= j].id

\* Mutant: a failed send is counted before it is known that others worked
BugRecordFailures(fail) == TRUE

\* record_send_failures is reached
RecordFailures(fail) == fail # {} /\ fail # DOMAIN Targets

\* Client::report_latency and CoreClient::report_latency with the sends to the
\* targets in fail refused
ReportLatency(args, observed, resolves, fail) ==
    LET tracker == LatencyTracker_build(args)
        ms      == duration_to_u32_ms(observed)
        body    == build_latency_report_body(<<[tracker |-> tracker.value.tracker,
                                                observed_latency |-> ms.value]>>)
        pdu     == build_pdu("latency_report", 0, body)
        built   == packet(key.value, build_tenant_header(key.value.key_id, 0), pdu.value)
        Count(f, set) == [s \in ServerIds |->
            f[s] + Cardinality({i \in set : TargetId(i) = s})]
        Refuse(error) == result' = Failed(public_error(error)) /\ UNCHANGED <<wire, stats>>
    IN  /\ ready /\ inflight = 0 /\ WithinBounds(Len(asked), reported + 1)
        /\ tracker.ok
        /\ \/ ~ms.ok /\ Refuse(ms.error)
           \/ ms.ok /\ ~resolves /\ Refuse("Dns")
           \/ ms.ok /\ resolves /\ ~built.ok /\ Refuse(built.error)
           \/ /\ ms.ok /\ resolves /\ built.ok
              /\ wire' = IF fail = DOMAIN Targets THEN wire ELSE wire \cup {built.value}
              /\ got' = Count(got, DOMAIN Targets \ fail)
              /\ failures' = IF RecordFailures(fail) THEN Count(failures, fail) ELSE failures
              /\ IF fail # {} /\ fail = DOMAIN Targets
                   THEN result' = Failed(public_error("Io")) /\ UNCHANGED reported
                   ELSE result' = Idle /\ reported' = reported + 1
        /\ UNCHANGED <<setup, draft, asked, inflight, net, panicked>>

Next ==
    \/ Edit
    \/ ParseKey
    \/ BuildClient
    \/ \E window \in Windows, tokens \in Quantities : AddResource(window, tokens)
    \/ \E args \in Trackers, threshold \in Thresholds : AddGuard(args, threshold)
    \/ \E n \in Labels : SetLabel(n)
    \/ \E resolves \in BOOLEAN : Send(resolves)
    \/ \E error \in {"Timeout", "Io"} : GiveUp(error)
    \/ \E w \in wire, v \in Verdicts : Answer(w, v.server, v)
    \/ Receive
    \/ \E args \in Trackers, observed \in Thresholds, resolves \in BOOLEAN,
          fail \in SUBSET DOMAIN Targets : ReportLatency(args, observed, resolves, fail)

Spec == Init /\ [][Next]_vars
-----------------------------------------------------------------------------
(* Properties                                                              *)

TypeOK ==
    /\ issued \in Keys /\ text \in Seq(Nat) /\ edits \in 0..Typing[issued].max
    /\ key.ok => key.value \in Key
    /\ ready \in BOOLEAN /\ (ready => key.ok)
    /\ DOMAIN draft = DOMAIN EmptyDraft
    /\ WithinBounds(Len(asked), reported) /\ inflight \in {0, Len(asked)}
    /\ \A d \in wire \cup net : DOMAIN d = {"tenant", "auth", "pdu", "len"}
    /\ result.kind \in {"idle", "error", "response"} /\ panicked \in BOOLEAN
    /\ got \in [ServerIds -> Nat] /\ failures \in [ServerIds -> Nat]
    /\ reported \in Nat

\* A typed text is taken for the key that was issued, and then it is that key's
\* text up to capitals, or it is refused as badly encoded: no typing error within
\* the bounds yields another key, a second text of the same key, or a wrong
\* verdict on version, credential type or limits.
KeyOrEncodingError ==
    LET expected == IF issued.auth_method = "secret" THEN Err("UnsupportedCredential")
                    ELSE Ok(issued)
        same     == to_ascii_lowercase(text) = KeyText(issued)
    IN  key # NoKey => \/ same /\ key = expected
                       \/ edits > 0 /\ key = Err("InvalidEncoding")

\* No datagram, whatever its declared sizes and its length, makes the router or
\* the parser read outside of the data, and no text makes from_str do so.
NeverPanics == ~panicked /\ key # Err("panic")

\* A datagram that was sent is at most MAX_PACKET_SIZE long, its declared sizes
\* and counts add up to its length, and what it asks for is what the API key
\* allows and the application put together.
PacketsExact ==
    \A w \in wire :
        LET b == w.pdu.body
            a == asked[w.tenant.unique_id]
        IN  /\ w.len <= MAX_PACKET_SIZE
            /\ w.len = w.tenant.tlv_size + w.auth.tlv_size + w.pdu.pdu_size
            /\ w.pdu.pdu_type = "latency_report" => w.pdu.pdu_size = 12 + 32 * b.count
            /\ w.pdu.pdu_type = "rate_request" =>
                 /\ w.pdu.pdu_size = 12 + 36 * b.guard_count + 28 * b.resource_count + b.label.tlv_size
                 /\ b.guard_count = Len(a.guards) /\ b.resource_count = Len(a.resources)
                 /\ b.label.label_len = a.label_len
                 /\ a.label_len > 0 => b.label.tlv_size - 6 - a.label_len \in 0..3
                 /\ b.label.tlv_size % 4 = 0
                 /\ w.pdu.dedup_ttl_ms <= issued.limits.dedup_ttl_ms_max
                 /\ \A i \in DOMAIN b.resources :
                      /\ b.resources[i].tokens_requested > 0
                      /\ ~ExceedsWindow(b.resources[i].window_size_ms, issued.limits.rate_window)

\* What these blocks of an answer say, before any parsing
Grants(a, guards, resources) ==
    /\ \A i \in resources : a.pdu.body.resources[i].tokens_requested = 0
    /\ \A i \in guards : a.pdu.body.guards[i].current_latency < a.pdu.body.guards[i].latency_threshold

Granted == result.kind = "response" /\ result.id # 0 /\ result.response.decision = "granted"

\* Whatever arrives, a grant returned to the application was read from a datagram
\* of the selected server to this very request, in which every block that its
\* counts declare is there and passes; and if it is a conforming server's, it has
\* a result for each of the request's resources and guards.
GrantIsServers ==
    Granted =>
        LET a    == result.from
            b    == a.pdu.body
            last == asked[Len(asked)]
        IN  /\ a.tenant.unique_id = Len(asked) /\ Allowed(a.tenant.key_id)
            /\ result.response.selected_server_id = <<a.tenant.key_id>> \/ a.tenant.key_id = 0
            /\ Grants(a, 1..b.guard_count, 1..b.resource_count)
            /\ 12 + 36 * b.guard_count + 28 * b.resource_count <= a.pdu.pdu_size
            /\ a.tenant.tlv_size + a.auth.tlv_size + a.pdu.pdu_size <= Received(a).len
            /\ a \in net =>
                 /\ Len(result.response.guard_results) = Len(last.guards)
                 /\ [i \in DOMAIN last.resources |-> last.resources[i].window_ms]
                      = [i \in DOMAIN result.response.resource_results |->
                            result.response.resource_results[i].bucket_id[3][1]]

\* Every answer of a conforming server that fits the receive buffer is routed
\* by its id, accepted, and read as the decision the server made.
AnswersUnderstood ==
    \A a \in net :
        LET accepted == Accept(a)
        IN  a.len <= RecvBuf =>
                /\ peek_request_id(a) = Ok(a.tenant.unique_id)
                /\ accepted.ok
                /\ accepted.value.success =
                       Grants(a, DOMAIN a.pdu.body.guards, DOMAIN a.pdu.body.resources)
                /\ accepted.value.server_id = peek_server_id(a).value

\* Every copy of a report that returned Ok was either accepted by the socket or
\* counted as a send failure of the server that its address is known by; the sends
\* of a report that returned an error were all refused, and count for nothing.
ReportsAccounted ==
    \A s \in ServerIds :
        got[s] + failures[s] = reported * Cardinality({i \in DOMAIN Targets : TargetId(i) = s})
=============================================================================
