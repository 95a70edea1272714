-------------------------------- MODULE Wire --------------------------------
(***************************************************************************)
(* Datagrams: the builders and parsers of client.rs and the structures of  *)
(* protocol.rs, with their real sizes in bytes.                            *)
(*                                                                         *)
(* A datagram is a record of the values at the places where a reader looks *)
(* for them, and of its length: `tenant' at offset 0, `auth' where the     *)
(* tenant TLV ends, `pdu' where the auth TLV ends, its blocks where the    *)
(* counts place them. Declared sizes, counts and the length are            *)
(* independent, as they are for bytes from the network. Type codes are     *)
(* strings. u16 fields wrap.                                               *)
(*                                                                         *)
(* External: Blake2s and AES-GCM, taken as injective.                      *)
(***************************************************************************)
EXTENDS Integers, Sequences, Checks

TENANT_TLV_LEN == 40
PDU_HEADER_LEN == 8
GUARD_BLOCK_WIRE_LEN == 36
RESOURCE_BLOCK_LEN == 28
SERVICE_LATENCY_BLOCK_WIRE_LEN == 32
MAX_PACKET_SIZE == 1200
U16Max == 65535

u16(n) == n % (U16Max + 1)

-----------------------------------------------------------------------------
(* Identities                                                              *)

derive_content_id(domain, name, fields) == <<domain, name, fields>>

derive_bucket_id(name, window_ms, rate_limit) ==
    derive_content_id("resource", name, <<window_ms, rate_limit>>)

derive_latency_tracker_id(t) ==
    derive_content_id("latency-tracker", t.name, <<t.sample_ttl_ms, t.max_samples, t.min_samples>>)

-----------------------------------------------------------------------------
(* Building                                                                *)

build_tenant_header(key_id, request_id) ==
    [tlv_type |-> "tenant", tlv_size |-> TENANT_TLV_LEN, key_id |-> key_id,
     unique_id |-> request_id, steering_feedback |-> TRUE]

GuardBlock(g) ==
    [latency_tracker_id |-> derive_latency_tracker_id(g.tracker), tracker |-> g.tracker,
     latency_threshold |-> g.threshold_ms, current_latency |-> 0]

ResourceBlock(r) ==
    [bucket_id |-> derive_bucket_id(r.name, r.window_ms, r.rate_limit),
     window_size_ms |-> r.window_ms, rate_limit |-> r.rate_limit,
     tokens_requested |-> r.tokens]

ServiceLatencyBlock(r) ==
    [latency_tracker_id |-> derive_latency_tracker_id(r.tracker), tracker |-> r.tracker,
     observed_latency |-> r.observed_latency]

\* No metrics label
NoLabel == [tlv_size |-> 0, label_len |-> 0, len |-> 0]

\* The TLV of a label of n bytes, padded to whole words
append_metrics_label_tlv(n) ==
    LET body_len == 2 + n
        padding  == (4 - (body_len % 4)) % 4
        tlv_size == 4 + body_len + padding
    IN  Outcome(<<Check(n <= U16Max, "Protocol"), Check(tlv_size <= U16Max, "Protocol")>>,
                [tlv_size |-> u16(tlv_size), label_len |-> u16(n), len |-> tlv_size])

build_rate_request_body(resources, guards, label_len) ==
    LET label == IF label_len = 0 THEN Ok(NoLabel) ELSE append_metrics_label_tlv(label_len)
    IN  IF ~label.ok THEN label
        ELSE Ok([guard_count |-> u16(Len(guards)), resource_count |-> u16(Len(resources)),
                 guards |-> [i \in DOMAIN guards |-> GuardBlock(guards[i])],
                 resources |-> [i \in DOMAIN resources |-> ResourceBlock(resources[i])],
                 label |-> label.value,
                 len |-> 4 + GUARD_BLOCK_WIRE_LEN * Len(guards)
                           + RESOURCE_BLOCK_LEN * Len(resources) + label.value.len])

build_latency_report_body(reports) ==
    [count |-> u16(Len(reports)),
     reports |-> [i \in DOMAIN reports |-> ServiceLatencyBlock(reports[i])],
     len |-> 4 + SERVICE_LATENCY_BLOCK_WIRE_LEN * Len(reports)]

\* build_pdu and build_rate_request_pdu: word is the last of the header, the
\* deduplication lifetime of a request and zero for a report
build_pdu(pdu_type, word, body) ==
    LET pdu_size == PDU_HEADER_LEN + body.len
    IN  Outcome(<<Check(pdu_size <= U16Max, "Protocol")>>,
                [pdu_type |-> pdu_type, pdu_size |-> u16(pdu_size), dedup_ttl_ms |-> word,
                 body |-> body])

auth_header_size(auth) ==
    CASE auth.auth_method = "none" -> 4 [] auth.auth_method = "cookie" -> 36
      [] auth.auth_method = "aes" -> 32

\* encrypt_pdu: key, header and text are bound together by the tag
encrypt_pdu(auth, tenant, pdu) == <<auth.auth_secret, tenant, pdu>>

append_auth_tlv(auth, tenant, pdu) ==
    [tlv_type |-> auth.auth_method, tlv_size |-> auth_header_size(auth),
     body |-> CASE auth.auth_method = "none"   -> <<>>
                [] auth.auth_method = "cookie" -> <<auth.auth_secret>>
                [] auth.auth_method = "aes"    -> encrypt_pdu(auth, tenant, pdu)]

\* Mutant: the authentication header is not counted
BugPacket(auth, tenant, pdu) ==
    LET len == TENANT_TLV_LEN + auth_header_size(auth) + PDU_HEADER_LEN + pdu.body.len
    IN  Outcome(<<Check(TENANT_TLV_LEN + PDU_HEADER_LEN + pdu.body.len <= MAX_PACKET_SIZE,
                        "Protocol")>>,
                [tenant |-> tenant, auth |-> append_auth_tlv(auth, tenant, pdu), pdu |-> pdu,
                 len |-> len])

\* The size check, then the three parts one after the other
packet(auth, tenant, pdu) ==
    LET len == TENANT_TLV_LEN + auth_header_size(auth) + PDU_HEADER_LEN + pdu.body.len
    IN  Outcome(<<Check(len <= MAX_PACKET_SIZE, "Protocol")>>,
                [tenant |-> tenant, auth |-> append_auth_tlv(auth, tenant, pdu), pdu |-> pdu,
                 len |-> len])

-----------------------------------------------------------------------------
(* Parsing                                                                 *)

parse_tenant_header(d) ==
    Outcome(<<Check(d.len >= 4, "Protocol"),
              Reads(2, d.len, d.tenant.tlv_type = "tenant", "Protocol"),
              Reads(4, d.len, d.tenant.tlv_size >= TENANT_TLV_LEN, "Protocol"),
              Check(d.len >= d.tenant.tlv_size, "Protocol"),
              Slice(d.tenant.tlv_size, d.len),
              Check(d.tenant.tlv_size >= 40, "Protocol"),
              Slice(40, d.tenant.tlv_size)>>,
            d.tenant)

decrypt_pdu(auth, d) ==
    /\ d.auth.body = encrypt_pdu(auth, d.tenant, d.pdu)
    /\ d.len - d.tenant.tlv_size - d.auth.tlv_size = PDU_HEADER_LEN + d.pdu.body.len

\* The value is the offset of the PDU.
parse_auth_tlv(d, pos, auth) ==
    LET size == d.auth.tlv_size
    IN  Outcome(<<Check(d.len >= pos + 4, "Protocol"),
                  Reads(pos + 4, d.len, size >= 4, "Protocol"),
                  Check(d.len >= pos + size, "Protocol"),
                  Check(d.auth.tlv_type = auth.auth_method, "Auth"),
                  Check(size = auth_header_size(auth), "Protocol"),
                  Slice(pos + size, d.len), Slice(auth_header_size(auth), size),
                  Check(auth.auth_method = "cookie" => d.auth.body = <<auth.auth_secret>>, "Auth"),
                  Check(auth.auth_method = "aes" => decrypt_pdu(auth, d), "Protocol")>>,
                pos + size)

\* GuardResult and ResourceResult of the first blocks, as many as are counted,
\* and the decision
RateLimitResult(d, guard_count, resource_count) ==
    LET guards    == d.pdu.body.guards
        resources == d.pdu.body.resources
        passed(i) == guards[i].current_latency < guards[i].latency_threshold
    IN  [guard_results    |-> [i \in 1..guard_count |->
             [latency_tracker_id |-> guards[i].latency_tracker_id, passed |-> passed(i)]],
         resource_results |-> [i \in 1..resource_count |->
             [bucket_id |-> resources[i].bucket_id, tokens_deficit |-> resources[i].tokens_requested,
              actual_rate |-> resources[i].rate_limit]],
         success |-> /\ \A i \in 1..guard_count : passed(i)
                     /\ \A i \in 1..resource_count : resources[i].tokens_requested = 0,
         server_id |-> d.tenant.key_id, steering_feedback |-> d.tenant.steering_feedback]

\* Mutant: blocks that are not all there are taken for none
BugParseResponsePdu(d, pos) ==
    LET pdu    == d.pdu
        guards == pdu.body.guard_count
        Fit(n, offset, len) == IF pdu.pdu_size - PDU_HEADER_LEN >= offset + n * len THEN n ELSE 0
    IN  Outcome(<<Check(d.len - pos >= PDU_HEADER_LEN, "Protocol"),
                  Check(pdu.pdu_type = "rate_response", "Protocol"),
                  Check(pdu.pdu_size >= PDU_HEADER_LEN + 4, "Protocol"),
                  Check(d.len - pos >= pdu.pdu_size, "Protocol")>>,
                RateLimitResult(d, Fit(guards, 4, GUARD_BLOCK_WIRE_LEN),
                    Fit(pdu.body.resource_count, 4 + GUARD_BLOCK_WIRE_LEN * guards, RESOURCE_BLOCK_LEN)))

\* Mutant: the body is cut out before its size is compared with the data
BugParseUnchecked(d, pos) ==
    LET pdu == d.pdu
        has == d.len - pos
    IN  Outcome(<<Check(has >= PDU_HEADER_LEN, "Protocol"),
                  Check(pdu.pdu_type = "rate_response", "Protocol"),
                  Slice(PDU_HEADER_LEN, pdu.pdu_size), Slice(pdu.pdu_size, has),
                  Check(pdu.pdu_size >= 12 + GUARD_BLOCK_WIRE_LEN * pdu.body.guard_count
                                           + RESOURCE_BLOCK_LEN * pdu.body.resource_count, "Protocol")>>,
                RateLimitResult(d, pdu.body.guard_count, pdu.body.resource_count))

\* parse_rate_response_pdu on the data from pos on. The loops stop at the
\* first block that does not fit.
parse_rate_response_pdu(d, pos) ==
    LET pdu        == d.pdu
        has        == d.len - pos
        body       == pdu.pdu_size - PDU_HEADER_LEN
        guards_end == 4 + GUARD_BLOCK_WIRE_LEN * pdu.body.guard_count
        end        == guards_end + RESOURCE_BLOCK_LEN * pdu.body.resource_count
    IN  Outcome(<<Check(has >= PDU_HEADER_LEN, "Protocol"),
                  Reads(2, has, pdu.pdu_type = "rate_response", "Protocol"),
                  Reads(4, has, pdu.pdu_size >= PDU_HEADER_LEN, "Protocol"),
                  Check(has >= pdu.pdu_size, "Protocol"),
                  Slice(PDU_HEADER_LEN, pdu.pdu_size), Slice(pdu.pdu_size, has),
                  Check(body >= 4, "Protocol"),
                  Slice(4, body),
                  Check(body >= guards_end, "Protocol"), Slice(guards_end, body),
                  Check(body >= end, "Protocol"), Slice(end, body)>>,
                RateLimitResult(d, pdu.body.guard_count, pdu.body.resource_count))

parse_rate_response_with_auth(d, auth) ==
    LET tenant == parse_tenant_header(d)
        pdu    == parse_auth_tlv(d, d.tenant.tlv_size, auth)
    IN  CASE ~tenant.ok            -> tenant
          [] tenant.ok /\ ~pdu.ok  -> pdu
          [] OTHER                 -> parse_rate_response_pdu(d, pdu.value)

\* What both peek functions check of the tenant TLV, after their own length
Peek(d, needs, value) ==
    Outcome(<<Check(d.len >= needs, "None"),
              Reads(4, d.len, /\ d.tenant.tlv_type = "tenant" /\ d.tenant.tlv_size >= 40
                              /\ d.len >= d.tenant.tlv_size, "None"),
              Slice(needs, d.len)>>, value)

peek_server_id(d) == Peek(d, 12, d.tenant.key_id)

\* Mutant: a longer tenant TLV is not recognised
BugPeekRequestId(d) ==
    Outcome(<<Check(d.len >= 28, "None"), Check(d.tenant.tlv_type = "tenant", "None"),
              Check(d.tenant.tlv_size = 40, "None")>>, d.tenant.unique_id)

peek_request_id(d) == Peek(d, 28, d.tenant.unique_id)
=============================================================================
