----------------------------- MODULE MCExchange -----------------------------
(* Values for model checking Exchange.                                     *)
EXTENDS Exchange

Limits(ttl) ==
    [rate_buckets |-> 16, latency_services |-> 10, metrics_labels |-> 12, latency_buffer |-> 5,
     dedup_ttl_ms_max |-> ttl, rate_window |-> 10]

ResourceKey(method, lo, hi, ttl) ==
    [auth_method |-> method, key_id |-> <<Bits(lo), Bits(hi), {}, {}, {}, {}, {}, {}>>,
     auth_secret |-> IF method = "none" THEN <<>> ELSE [i \in 1..32 |-> Bits(7)],
     limits |-> Limits(ttl)]

\* The first three are only typed: their limits refuse the policy. The checksums
\* of two of them begin with q and end with p, the texts whose checksum
\* survives a q inserted before the last character.
TypedNone   == ResourceKey("none", 30, 1, 10)
TypedAes    == ResourceKey("aes", 95, 0, 10)
TypedSecret == [ResourceKey("none", 0, 0, 10) EXCEPT
                    !.auth_method = "secret", !.auth_secret = [i \in 1..32 |-> Bits(i)]]
UsedKeys    == {ResourceKey(m, 3, 1, 300) : m \in {"none", "cookie", "aes"}}

MCKeys == {TypedNone, TypedAes, TypedSecret} \cup UsedKeys

MCTyping == [k \in MCKeys |->
    CASE k = TypedNone -> [max |-> 2, chars |-> {113}]
      [] k \in {TypedAes, TypedSecret} -> [max |-> 1, chars |-> {113, 112, 49, 81, 98, 32}]
      [] OTHER -> [max |-> 0, chars |-> {}]]

MCWindows == {[ms |-> 1024, nanos |-> 0], [ms |-> 1025, nanos |-> 0], [ms |-> 1, nanos |-> 1]}

MCThresholds == {[ms |-> 3, nanos |-> 0], [ms |-> 0, nanos |-> 0]}

MCTrackers ==
    {[name |-> "svc", sample_ttl |-> <<[ms |-> 9, nanos |-> 0]>>, max_samples |-> <<4>>,
      min_samples |-> <<1>>],
     [name |-> "svc", sample_ttl |-> <<>>, max_samples |-> <<4>>, min_samples |-> <<0>>]}

\* Two servers with two addresses each, one of which is listed for both. The
\* second has the id 0 (`s-0' in its SRV target), which is legal.
MCTargets == <<[addr |-> "v4", id |-> 7], [addr |-> "v6", id |-> 7],
               [addr |-> "w4", id |-> 0], [addr |-> "v6", id |-> 0]>>

\* A latency just below, and at, the threshold; a longer tenant TLV; trailing
\* TLVs that fit the buffer, and that do not
MCVerdicts ==
    {[server |-> 7, tenant_size |-> 40, keep |-> TRUE, latency |-> 2, short |-> FALSE, trailing |-> 0],
     [server |-> 7, tenant_size |-> 40, keep |-> FALSE, latency |-> 2, short |-> FALSE, trailing |-> 2000],
     [server |-> 0, tenant_size |-> 40, keep |-> TRUE, latency |-> 2, short |-> TRUE, trailing |-> 0],
     [server |-> 0, tenant_size |-> 44, keep |-> FALSE, latency |-> 3, short |-> FALSE, trailing |-> 900]}

\* The sizes and counts of the protocol
Regular(server) ==
    [server |-> server, tenant_size |-> 40, auth_delta |-> 0, pdu_missing |-> 0,
     guards |-> 0, resources |-> 0, stray |-> 0, from |-> "end", len |-> 0]

\* One deviation from the declared sizes of the protocol, at the lengths where
\* some check changes its mind; an unknown server; counts below and above what
\* is there, with and without more data behind it
MCOddShapes ==
    {[Regular(7) EXCEPT !.tenant_size = s[1], !.auth_delta = s[2], !.pdu_missing = s[3],
                        !.from = n[1], !.len = n[2]] :
        s \in {<<0, 0, 0>>, <<39, 0, 0>>, <<41, 0, 0>>, <<40, -1, 0>>, <<40, 0, 0>>, <<40, 1, 0>>,
               <<40, 0, 1>>, <<40, 0, 28>>, <<40, 0, 33>>, <<40, 0, 60>>},
        n \in {<<"start", 0>>, <<"start", 3>>, <<"start", 27>>, <<"start", 39>>, <<"start", 43>>,
               <<"pdu", -1>>, <<"pdu", 7>>, <<"pdu", 11>>, <<"end", -1>>, <<"end", 0>>}}
    \cup {Regular(9)}
    \cup {[Regular(7) EXCEPT !.guards = g, !.resources = r, !.stray = n, !.pdu_missing = -more, !.len = more] :
        g \in {-1, 0, 1}, r \in {-1, 0, 1}, n \in {0, 1}, more \in {0, 64}}
=============================================================================
