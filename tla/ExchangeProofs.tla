--------------------------- MODULE ExchangeProofs ---------------------------
(***************************************************************************)
(* Proofs about Exchange, for any keys, texts, requests and answers.       *)
(***************************************************************************)
EXTENDS Exchange, Induction, FiniteSetTheorems, TLAPS

-----------------------------------------------------------------------------
(* Checks in order                                                         *)

\* Outcome is the value if every check passes, and else the error of the first
\* that does not.
LEMMA OutcomeFirst ==
    ASSUME NEW n \in Nat, NEW checks, DOMAIN checks = 1..n, NEW value
    PROVE  \/ /\ \A i \in 1..n : checks[i] = Pass
              /\ Outcome(checks, value) = Ok(value)
           \/ \E f \in 1..n :
                /\ checks[f] # Pass
                /\ \A j \in 1..f - 1 : checks[j] = Pass
                /\ Outcome(checks, value) = Err(checks[f])
<1> DEFINE stop == {i \in DOMAIN checks : checks[i] # Pass}
<1>1. CASE stop = {}
  BY <1>1 DEF Outcome
<1>2. CASE stop # {}
  <2>1. PICK m \in stop : \A j \in stop : m <= j
    <3>1. stop \in SUBSET Nat
      OBVIOUS
    <3> HIDE DEF stop
    <3> QED
      BY <1>2, <3>1, LeastNatural
  <2> DEFINE f == CHOOSE i \in stop : \A j \in stop : i <= j
  <2>2. f \in stop /\ \A j \in stop : f <= j
    BY <2>1
  <2>3. Outcome(checks, value) = Err(checks[f])
    BY <1>2 DEF Outcome
  <2> HIDE DEF f
  <2> QED
    BY <2>2, <2>3
<1> QED
  BY <1>1, <1>2

\* The value is there if and only if every check passes.
LEMMA OutcomeOk ==
    ASSUME NEW checks, NEW value
    PROVE  /\ Outcome(checks, value).ok <=> \A i \in DOMAIN checks : checks[i] = Pass
           /\ Outcome(checks, value).ok => Outcome(checks, value) = Ok(value)
           /\ Outcome(checks, value).ok => Outcome(checks, value).value = value
BY DEF Outcome, Ok, Err

Safe(outcome) == outcome.ok \/ outcome.error # "panic"

\* A function that looks at an element only after a check that it is there never
\* panics.
LEMMA OutcomeSafe ==
    ASSUME NEW n \in Nat, NEW checks, DOMAIN checks = 1..n, NEW value,
           \A i \in 1..n : checks[i] = "panic" => \E j \in 1..i - 1 : checks[j] # Pass
    PROVE  Safe(Outcome(checks, value))
BY OutcomeFirst DEF Ok, Err, Safe

\* The three facts about a validating function
LEMMA OutcomeFacts ==
    ASSUME NEW n \in Nat, NEW checks, DOMAIN checks = 1..n, NEW value,
           \A i \in 1..n : checks[i] = "panic" => \E j \in 1..i - 1 : checks[j] # Pass
    PROVE  /\ Safe(Outcome(checks, value))
           /\ Outcome(checks, value).ok => Outcome(checks, value).value = value
           /\ Outcome(checks, value).ok <=> \A i \in 1..n : checks[i] = Pass
BY OutcomeSafe, OutcomeFirst DEF Ok, Err

-----------------------------------------------------------------------------
(* The parser                                                              *)

\* Sizes, counts and length of a datagram are numbers, nothing more
Sized(d) ==
    /\ d.len \in Int
    /\ d.tenant.tlv_size \in Int /\ d.auth.tlv_size \in Int /\ d.pdu.pdu_size \in Int
    /\ d.pdu.body.guard_count \in Int /\ d.pdu.body.resource_count \in Int

\* parse_tenant_header compares before it slices, and accepts a tenant TLV that
\* is there.
LEMMA TenantFacts ==
    ASSUME NEW d, Sized(d)
    PROVE  LET o == parse_tenant_header(d)
           IN  /\ Safe(o)
               /\ o.ok <=> d.tenant.tlv_type = "tenant" /\ d.tenant.tlv_size \in 40..d.len
<1> DEFINE checks == <<Check(d.len >= 4, "Protocol"),
              Reads(2, d.len, d.tenant.tlv_type = "tenant", "Protocol"),
              Reads(4, d.len, d.tenant.tlv_size >= TENANT_TLV_LEN, "Protocol"),
              Check(d.len >= d.tenant.tlv_size, "Protocol"),
              Slice(d.tenant.tlv_size, d.len),
              Check(d.tenant.tlv_size >= 40, "Protocol"),
              Slice(40, d.tenant.tlv_size)>>
<1> USE DEF Check, Reads, Slice, Sized, Pass
<1>1. DOMAIN checks = 1..7
  OBVIOUS
<1>2. \A i \in 1..7 : checks[i] = "panic" => \E j \in 1..i - 1 : checks[j] # Pass
  OBVIOUS
<1>3. (\A i \in 1..7 : checks[i] = Pass)
        <=> d.tenant.tlv_type = "tenant" /\ d.tenant.tlv_size \in 40..d.len
  BY DEF TENANT_TLV_LEN
<1>4. parse_tenant_header(d) = Outcome(checks, d.tenant)
  BY DEF parse_tenant_header
<1> HIDE DEF checks, Check, Reads, Slice, Sized, Pass
<1>5. Safe(Outcome(checks, d.tenant))
  BY <1>1, <1>2, OutcomeFacts
<1>6. Outcome(checks, d.tenant).ok <=> \A i \in 1..7 : checks[i] = Pass
  BY <1>1, <1>2, OutcomeFacts
<1> QED
  BY <1>3, <1>4, <1>5, <1>6

Authentic(d, auth) ==
    /\ d.auth.tlv_type = auth.auth_method /\ d.auth.tlv_size = auth_header_size(auth)
    /\ auth.auth_method = "cookie" => d.auth.body = <<auth.auth_secret>>
    /\ auth.auth_method = "aes" => decrypt_pdu(auth, d)

\* parse_auth_tlv compares before it slices, and accepts what is authentic.
LEMMA AuthFacts ==
    ASSUME NEW d, Sized(d), NEW pos \in Int, NEW auth
    PROVE  LET o == parse_auth_tlv(d, pos, auth)
           IN  /\ Safe(o)
               /\ o.ok => o.value = pos + d.auth.tlv_size
               /\ o.ok <=> /\ d.auth.tlv_size >= 4 /\ pos + d.auth.tlv_size <= d.len
                           /\ Authentic(d, auth)
<1> DEFINE size   == d.auth.tlv_size
           checks == <<Check(d.len >= pos + 4, "Protocol"),
                  Reads(pos + 4, d.len, size >= 4, "Protocol"),
                  Check(d.len >= pos + size, "Protocol"),
                  Check(d.auth.tlv_type = auth.auth_method, "Auth"),
                  Check(size = auth_header_size(auth), "Protocol"),
                  Slice(pos + size, d.len), Slice(auth_header_size(auth), size),
                  Check(auth.auth_method = "cookie" => d.auth.body = <<auth.auth_secret>>, "Auth"),
                  Check(auth.auth_method = "aes" => decrypt_pdu(auth, d), "Protocol")>>
<1> USE DEF Check, Reads, Slice, Sized, Pass
<1>1. DOMAIN checks = 1..9
  OBVIOUS
<1>2. \A i \in 1..9 : checks[i] = "panic" => \E j \in 1..i - 1 : checks[j] # Pass
  OBVIOUS
<1>3. (\A i \in 1..9 : checks[i] = Pass)
        <=> size >= 4 /\ pos + size <= d.len /\ Authentic(d, auth)
  BY DEF Authentic
<1>4. parse_auth_tlv(d, pos, auth) = Outcome(checks, pos + size)
  BY DEF parse_auth_tlv
<1> HIDE DEF checks, Check, Reads, Slice, Sized, Pass
<1>5. Safe(Outcome(checks, pos + size))
  BY <1>1, <1>2, OutcomeFacts
<1>6. Outcome(checks, pos + size).ok <=> \A i \in 1..9 : checks[i] = Pass
  BY <1>1, <1>2, OutcomeFacts
<1>7. Outcome(checks, pos + size).ok
        => Outcome(checks, pos + size).value = pos + size
  BY <1>1, <1>2, OutcomeFacts
<1> QED
  BY <1>3, <1>4, <1>5, <1>6, <1>7

\* All the blocks that the counts of a response declare are in the data from pos on.
AllThere(d, pos) ==
    /\ 12 + 36 * d.pdu.body.guard_count + 28 * d.pdu.body.resource_count <= d.pdu.pdu_size
    /\ pos + d.pdu.pdu_size <= d.len

\* parse_rate_response_pdu compares before it slices, whatever the counts, and
\* accepts a response exactly if its blocks are all there.
LEMMA PduFacts ==
    ASSUME NEW d, Sized(d), NEW pos \in Int
    PROVE  LET o == parse_rate_response_pdu(d, pos)
           IN  /\ Safe(o)
               /\ o.ok => o.value = RateLimitResult(d, d.pdu.body.guard_count, d.pdu.body.resource_count)
               /\ o.ok => AllThere(d, pos)
               /\ (/\ d.pdu.pdu_type = "rate_response" /\ AllThere(d, pos)
                   /\ d.pdu.body.guard_count >= 0 /\ d.pdu.body.resource_count >= 0) => o.ok
<1> DEFINE pdu        == d.pdu
           has        == d.len - pos
           body       == pdu.pdu_size - PDU_HEADER_LEN
           guards_end == 4 + GUARD_BLOCK_WIRE_LEN * pdu.body.guard_count
           end        == guards_end + RESOURCE_BLOCK_LEN * pdu.body.resource_count
           checks     == <<Check(has >= PDU_HEADER_LEN, "Protocol"),
                  Reads(2, has, pdu.pdu_type = "rate_response", "Protocol"),
                  Reads(4, has, pdu.pdu_size >= PDU_HEADER_LEN, "Protocol"),
                  Check(has >= pdu.pdu_size, "Protocol"),
                  Slice(PDU_HEADER_LEN, pdu.pdu_size), Slice(pdu.pdu_size, has),
                  Check(body >= 4, "Protocol"),
                  Slice(4, body),
                  Check(body >= guards_end, "Protocol"), Slice(guards_end, body),
                  Check(body >= end, "Protocol"), Slice(end, body)>>
<1> USE DEF Check, Reads, Slice, Sized, Pass, PDU_HEADER_LEN, GUARD_BLOCK_WIRE_LEN, RESOURCE_BLOCK_LEN
<1>1. DOMAIN checks = 1..12
  OBVIOUS
<1>2. \A i \in 1..12 : checks[i] = "panic" => \E j \in 1..i - 1 : checks[j] # Pass
  OBVIOUS
<1>3. (/\ pdu.pdu_type = "rate_response" /\ AllThere(d, pos)
       /\ pdu.body.guard_count >= 0 /\ pdu.body.resource_count >= 0)
      => \A i \in 1..12 : checks[i] = Pass
  BY DEF AllThere
<1>8. (\A i \in 1..12 : checks[i] = Pass) => AllThere(d, pos)
  <2>1. (\A i \in 1..12 : checks[i] = Pass) => checks[4] = Pass /\ checks[11] = Pass
    <3> HIDE DEF checks
    <3> QED
      OBVIOUS
  <2>2. checks[4] = Pass /\ checks[11] = Pass => AllThere(d, pos)
    BY DEF AllThere
  <2> QED
    BY <2>1, <2>2
<1>4. parse_rate_response_pdu(d, pos)
        = Outcome(checks, RateLimitResult(d, pdu.body.guard_count, pdu.body.resource_count))
  BY DEF parse_rate_response_pdu
<1> HIDE DEF checks, Check, Reads, Slice, Sized, Pass
<1>5. Safe(Outcome(checks, RateLimitResult(d, pdu.body.guard_count, pdu.body.resource_count)))
  BY <1>1, <1>2, OutcomeFacts
<1>6. Outcome(checks, RateLimitResult(d, pdu.body.guard_count, pdu.body.resource_count)).ok <=> \A i \in 1..12 : checks[i] = Pass
  BY <1>1, <1>2, OutcomeFacts
<1>7. Outcome(checks, RateLimitResult(d, pdu.body.guard_count, pdu.body.resource_count)).ok
        => Outcome(checks, RateLimitResult(d, pdu.body.guard_count, pdu.body.resource_count)).value = RateLimitResult(d, pdu.body.guard_count, pdu.body.resource_count)
  BY <1>1, <1>2, OutcomeFacts
<1> QED
  BY <1>3, <1>4, <1>5, <1>6, <1>7, <1>8

\* The two peek functions compare before they read, and recognise a tenant TLV
\* that is there.
LEMMA PeekFacts ==
    ASSUME NEW d, Sized(d), NEW needs \in 4..40, NEW value
    PROVE  LET o == Peek(d, needs, value)
           IN  /\ Safe(o)
               /\ o.ok => o = Ok(value) /\ o.value = value
               /\ o.ok <=> d.tenant.tlv_type = "tenant" /\ d.tenant.tlv_size \in 40..d.len
<1> DEFINE checks == <<Check(d.len >= needs, "None"),
              Reads(4, d.len, /\ d.tenant.tlv_type = "tenant" /\ d.tenant.tlv_size >= 40
                              /\ d.len >= d.tenant.tlv_size, "None"),
              Slice(needs, d.len)>>
<1> USE DEF Check, Reads, Slice, Sized, Pass
<1>1. DOMAIN checks = 1..3
  OBVIOUS
<1>2. \A i \in 1..3 : checks[i] = "panic" => \E j \in 1..i - 1 : checks[j] # Pass
  OBVIOUS
<1>3. (\A i \in 1..3 : checks[i] = Pass)
        <=> d.tenant.tlv_type = "tenant" /\ d.tenant.tlv_size \in 40..d.len
  OBVIOUS
<1>4. Peek(d, needs, value) = Outcome(checks, value)
  BY DEF Peek
<1> HIDE DEF checks, Check, Reads, Slice, Sized, Pass
<1>5. Safe(Outcome(checks, value))
  BY <1>1, <1>2, OutcomeFacts
<1>6. Outcome(checks, value).ok <=> \A i \in 1..3 : checks[i] = Pass
  BY <1>1, <1>2, OutcomeFacts
<1>7. Outcome(checks, value).ok => Outcome(checks, value) = Ok(value) /\ Outcome(checks, value).value = value
  BY OutcomeOk
<1> QED
  BY <1>3, <1>4, <1>5, <1>6, <1>7

\* No datagram with a length and sizes makes the router or the parser panic; an
\* accepted one is read as its blocks say, they are all there, and its server is
\* an allowed one.
LEMMA ReaderFacts ==
    ASSUME NEW d, Sized(d)
    PROVE  /\ Safe(peek_request_id(d)) /\ Safe(Accept(d))
           /\ peek_request_id(d).ok => peek_request_id(d).value = d.tenant.unique_id
           /\ Accept(d).ok =>
                /\ Accept(d).value = RateLimitResult(d, d.pdu.body.guard_count, d.pdu.body.resource_count)
                /\ Allowed(d.tenant.key_id) /\ AllThere(d, d.tenant.tlv_size + d.auth.tlv_size)
<1>1. /\ Safe(peek_request_id(d)) /\ Safe(peek_server_id(d))
      /\ peek_request_id(d).ok => peek_request_id(d).value = d.tenant.unique_id
      /\ peek_server_id(d).ok => peek_server_id(d).value = d.tenant.key_id
  BY PeekFacts DEF peek_request_id, peek_server_id
<1> DEFINE r == parse_rate_response_with_auth(d, key.value)
<1>2. /\ Safe(r)
      /\ r.ok => /\ r.value = RateLimitResult(d, d.pdu.body.guard_count, d.pdu.body.resource_count)
                 /\ AllThere(d, d.tenant.tlv_size + d.auth.tlv_size)
  <2>1. CASE ~parse_tenant_header(d).ok
    BY <2>1, TenantFacts DEF parse_rate_response_with_auth
  <2> DEFINE p == parse_auth_tlv(d, d.tenant.tlv_size, key.value)
  <2>2. Safe(p) /\ (p.ok => p.value \in Int /\ p.value = d.tenant.tlv_size + d.auth.tlv_size)
    BY AuthFacts DEF Sized
  <2>3. CASE parse_tenant_header(d).ok /\ ~p.ok
    BY <2>2, <2>3 DEF parse_rate_response_with_auth
  <2>4. CASE parse_tenant_header(d).ok /\ p.ok
    BY <2>2, <2>4, PduFacts DEF parse_rate_response_with_auth
  <2> QED
    BY <2>1, <2>3, <2>4
<1>3. Safe(Err("None")) /\ ~Err("None").ok
  BY DEF Safe, Err
<1> QED
  BY <1>1, <1>2, <1>3 DEF Accept

-----------------------------------------------------------------------------
(* Keys                                                                    *)

\* A field of a payload is a small number.
LEMMA NumberType ==
    ASSUME NEW bits
    PROVE  Number(bits) \in Nat /\ (bits \subseteq 0..4 => Number(bits) \in 0..31)
BY DEF Number

\* Regrouping gives groups of the wanted size.
LEMMA ConvertFacts ==
    ASSUME NEW S, NEW data \in Seq(S), NEW from \in Nat, NEW to \in Nat \ {0}, NEW pad \in BOOLEAN
    PROVE  LET o == convert_bits(data, from, to, pad)
           IN  /\ Safe(o)
               /\ o.ok => o.value \in Seq(SUBSET (0..to - 1))
               /\ pad /\ (\A i \in DOMAIN data : data[i] \subseteq 0..from - 1) => o.ok
<1> DEFINE total   == from * Len(data)
           left    == total % to
           Bit(k)  == k < total /\ from - 1 - (k % from) \in data[k \div from + 1]
           Word(j) == {b \in 0..to - 1 : Bit(to * j - 1 - b)}
           count   == total \div to + (IF pad /\ left > 0 THEN 1 ELSE 0)
           words   == [j \in 1..count |-> Word(j)]
           checks  == <<Check(\A i \in DOMAIN data : data[i] \subseteq 0..from - 1, "InvalidPadding"),
                  Check(pad \/ left < from, "InvalidPadding"),
                  Check(pad \/ ~\E k \in total - left..total - 1 : Bit(k), "InvalidPadding")>>
<1>1. convert_bits(data, from, to, pad) = Outcome(checks, words)
  BY DEF convert_bits
<1>2. DOMAIN checks = 1..3 /\ \A i \in 1..3 : checks[i] # "panic"
  BY DEF Check, Pass
<1>3. pad /\ (\A i \in DOMAIN data : data[i] \subseteq 0..from - 1) => \A i \in 1..3 : checks[i] = Pass
  BY DEF Check
<1>4. total \in Nat
  OBVIOUS
<1>5. count \in Nat
  <2> HIDE DEF total
  <2> QED
    BY <1>4
<1>6. words \in Seq(SUBSET (0..to - 1))
  <2>1. \A j : Word(j) \in SUBSET (0..to - 1)
    OBVIOUS
  <2> HIDE DEF count, Word
  <2> QED
    BY <1>5, <2>1
<1> HIDE DEF checks, words
<1>7. Safe(Outcome(checks, words))
  BY <1>2, OutcomeFacts
<1>8. Outcome(checks, words).ok <=> \A i \in 1..3 : checks[i] = Pass
  BY <1>2, OutcomeFacts
<1>9. Outcome(checks, words).ok => Outcome(checks, words).value = words
  BY <1>2, OutcomeFacts
<1> QED
  BY <1>1, <1>3, <1>6, <1>7, <1>8, <1>9

\* A part of a sequence is a sequence over the same set.
LEMMA SubSeqType ==
    ASSUME NEW S, NEW s \in Seq(S), NEW m \in Int, NEW n \in Int, m >= 1, n <= Len(s)
    PROVE  SubSeq(s, m, n) \in Seq(S)
<1>1. CASE m <= n
  BY <1>1
<1>2. CASE m > n
  BY <1>2
<1> QED
  BY <1>1, <1>2

\* A function on the first n numbers is a sequence.
LEMMA SeqOfFun ==
    ASSUME NEW S, NEW n \in Nat, NEW f \in [1..n -> S]
    PROVE  f \in Seq(S) /\ Len(f) = n
OBVIOUS

\* A sequence without an element is empty.
LEMMA EmptyDomain == ASSUME NEW S, NEW s \in Seq(S), \A i \in DOMAIN s : FALSE PROVE s = <<>>
<1>1. Len(s) = 0
  <2>1. Len(s) \in Nat /\ DOMAIN s = 1..Len(s)
    OBVIOUS
  <2>2. 1 \notin 1..Len(s)
    BY <2>1
  <2> QED
    BY <2>1, <2>2
<1> QED
  BY <1>1

\* bech32_decode never panics, and gives a payload of bytes.
LEMMA BechFacts ==
    ASSUME NEW addr \in Seq(Nat)
    PROVE  LET o == bech32_decode(addr)
           IN  Safe(o) /\ (o.ok => o.value.payload \in Seq(SUBSET (0..7)))
<1> DEFINE s     == to_ascii_lowercase(addr)
           seps  == {i \in DOMAIN s : s[i] = Separator}
           pos   == IF seps = {} THEN 0 ELSE CHOOSE i \in seps : \A j \in seps : j <= i
           hrp   == SubSeq(s, 1, pos - 1)
           tail  == SubSeq(s, pos + 1, Len(s))
           data  == [i \in DOMAIN tail |-> char_to_value(tail[i])]
           checks == <<
            Check(addr # <<>>, "EmptyInput"),
            Check(Chars(addr) \subseteq 33..126, "NonPrintable"),
            Check(~((\E c \in Chars(addr) : IsLower(c)) /\ \E c \in Chars(addr) : IsUpper(c)),
                  "MixedCase"),
            Check(seps # {}, "MissingSeparator"),
            Check(pos > 1, "EmptyHrp"),
            Check(Len(tail) >= 6, "ChecksumTooShort"),
            Check(\A c \in Chars(tail) : InCharset(c), "InvalidCharset")>>
           groups == SubSeq(data, 1, Len(data) - 6)
           bytes == convert_bits(groups, 5, 8, FALSE)
<1>1. s \in Seq(Nat)
  <2>1. addr \in [1..Len(addr) -> Nat] /\ Len(addr) \in Nat
    OBVIOUS
  <2>2. \A i \in DOMAIN addr : (IF IsUpper(addr[i]) THEN addr[i] + 32 ELSE addr[i]) \in Nat
    BY <2>1
  <2> QED
    BY <2>1, <2>2 DEF to_ascii_lowercase
<1> HIDE DEF s
<1>2. pos \in Nat
  <2>1. PICK L \in Nat : seps \subseteq 1..L
    <3>1. Len(s) \in Nat /\ DOMAIN s = 1..Len(s)
      BY <1>1
    <3>2. seps \subseteq 1..Len(s)
      BY <3>1
    <3> QED
      BY <3>1, <3>2
  <2> HIDE DEF seps
  <2>2. CASE seps # {}
    <3> DEFINE T == {m \in Nat : \A j \in seps : j <= m}
    <3>1. L \in T
      BY <2>1
    <3>2. PICK n \in T : \A m \in T : n <= m
      <4> HIDE DEF T
      <4>1. T \in SUBSET Nat
        BY DEF T
      <4> QED
        BY <3>1, <4>1, LeastNatural
    <3>3. n \in seps
      <4>1. n # 0
        <5>1. PICK j : j \in seps
          BY <2>2
        <5> QED
          BY <2>1, <5>1
      <4> SUFFICES ASSUME n \notin seps PROVE n - 1 \in T
        BY <3>2, <4>1
      <4> QED
        BY <2>1, <4>1
    <3>4. pos \in seps
      BY <2>2, <3>3
    <3> HIDE DEF pos
    <3> QED
      BY <2>1, <3>4
  <2> QED
    BY <2>2
<1> HIDE DEF seps, pos
<1>3. data \in Seq(SUBSET (0..7))
  <2>1. tail \in Seq(Nat)
    BY <1>1, <1>2
  <2> HIDE DEF tail
  <2>2. \A c : char_to_value(c) \in SUBSET (0..7)
    BY DEF char_to_value, Bits
  <2>3. DOMAIN tail = 1..Len(tail) /\ Len(tail) \in Nat
    BY <2>1
  <2>4. data \in [1..Len(tail) -> SUBSET (0..7)]
    BY <2>2, <2>3
  <2> HIDE DEF data
  <2> QED
    BY <2>3, <2>4
<1> HIDE DEF data
<1>4. groups \in Seq(SUBSET (0..7))
  BY <1>3
<1> HIDE DEF groups
<1>5. Safe(bytes) /\ (bytes.ok => bytes.value \in Seq(SUBSET (0..7)))
  <2>1. 8 - 1 = 7 /\ 5 \in Nat /\ 8 \in Nat \ {0} /\ FALSE \in BOOLEAN
    OBVIOUS
  <2> QED
    BY <1>4, <2>1, ConvertFacts
<1>6. Safe(Outcome(checks, hrp)) /\ (Outcome(checks, hrp).ok => Outcome(checks, hrp).value = hrp)
  <2>1. DOMAIN checks = 1..7 /\ \A i \in 1..7 : checks[i] # "panic"
    BY DEF Check, Pass
  <2> HIDE DEF checks
  <2> QED
    BY <2>1, OutcomeFacts
<1>7. bech32_decode(addr)
        = CASE ~Outcome(checks, hrp).ok -> Outcome(checks, hrp)
            [] Outcome(checks, hrp).ok /\ ~verify_checksum(hrp, data) -> Err("ChecksumFailed")
            [] OTHER -> IF bytes.ok THEN Ok([hrp |-> hrp, payload |-> bytes.value]) ELSE bytes
  BY Zenon DEF bech32_decode, s, seps, pos, data, groups
<1> HIDE DEF checks, hrp, bytes
<1>8. CASE ~Outcome(checks, hrp).ok
  BY <1>6, <1>7, <1>8
<1>9. CASE Outcome(checks, hrp).ok /\ ~verify_checksum(hrp, data)
  BY <1>7, <1>9 DEF Safe, Err
<1>10. CASE Outcome(checks, hrp).ok /\ verify_checksum(hrp, data)
  BY <1>5, <1>7, <1>10 DEF Safe, Ok
<1> QED
  BY <1>8, <1>9, <1>10

\* What from_str accepts: a resource key
UsableKey == {k \in Key : k.auth_method # "secret"}

\* A human-readable part names a credential type or none.
LEMMA MethodType == ASSUME NEW hrp PROVE MethodOf(hrp) \in {"none", "cookie", "aes", "secret", "other"}
<1> DEFINE m == {n \in DOMAIN MethodName : hrp = Prefix \o MethodName[n]}
<1>1. m \subseteq {"none", "cookie", "aes", "secret"}
  BY DEF MethodName
<1>2. MethodOf(hrp) = IF m = {} THEN "other" ELSE CHOOSE n \in m : TRUE
  BY DEF MethodOf
<1> HIDE DEF m
<1> QED
  BY <1>1, <1>2

\* The limits are read inside of the payload and are numbers.
LEMMA LimitsFacts ==
    ASSUME NEW payload, NEW offset \in Int, offset + 4 = Len(payload)
    PROVE  LET o == limits_from_payload(payload, offset)
           IN  /\ Safe(o)
               /\ o.ok => o.value \in [rate_buckets : Nat, latency_services : Nat,
                      metrics_labels : Nat, latency_buffer : Nat, dedup_ttl_ms_max : Nat,
                      rate_window : Nat]
<1> DEFINE word   == {k \in 0..31 : k % 8 \in Byte(payload, offset + (k \div 8) + 1)}
           rate   == Field(word, 0, 5)
           lat    == Field(word, 5, 5)
           units  == Field(word, 19, 8)
           checks == <<Slice(offset + 4, Len(payload)),
                  Check(rate <= 24 /\ lat <= 24 /\ units \in 1..200, "InvalidPackedQuota")>>
           value  == [rate_buckets |-> rate, latency_services |-> lat,
                 metrics_labels |-> Field(word, 10, 5), latency_buffer |-> Field(word, 15, 4),
                 dedup_ttl_ms_max |-> 10 * units, rate_window |-> Field(word, 27, 5)]
<1>1. limits_from_payload(payload, offset) = Outcome(checks, value)
  BY DEF limits_from_payload
<1>2. DOMAIN checks = 1..2 /\ \A i \in 1..2 : checks[i] # "panic"
  BY DEF Check, Slice, Pass
<1>3. value \in [rate_buckets : Nat, latency_services : Nat, metrics_labels : Nat,
                 latency_buffer : Nat, dedup_ttl_ms_max : Nat, rate_window : Nat]
  <2>1. \A w, lo, width : Field(w, lo, width) \in Nat
    BY NumberType DEF Field
  <2> HIDE DEF word
  <2> QED
    BY <2>1
<1> HIDE DEF checks, value
<1>4. Safe(Outcome(checks, value)) /\ (Outcome(checks, value).ok => Outcome(checks, value).value = value)
  BY <1>2, OutcomeFacts
<1> QED
  BY <1>1, <1>3, <1>4

\* For every text, from_str does not panic, and what it accepts is a resource key.
LEMMA KeyFacts ==
    ASSUME NEW encoded \in Seq(Nat)
    PROVE  LET o == from_str(encoded)
           IN  Safe(o) /\ (o.ok => o.value \in UsableKey)
<1> DEFINE decoded == bech32_decode(encoded)
        hrp     == decoded.value.hrp
        payload == decoded.value.payload
        method  == MethodOf(hrp)
        offset  == PayloadLen[method] - 4
        limits  == limits_from_payload(payload, offset)
        shapes  == <<
            Check(SubSeq(hrp, 1, 3) = Prefix, "InvalidHrpPrefix"),
            Check(method # "other", "UnsupportedAuthMethod"),
            Check(method # "other" => Len(payload) = PayloadLen[method], "InvalidPayloadLength")>>
        reads   == <<Reads(1, Len(payload), Byte(payload, 1) = FORMAT_VERSION,
                                   "UnsupportedFormatVersion"),
                             Slice(9, Len(payload)), Slice(offset, Len(payload))>>
        shape   == Outcome(shapes, method)
        version == Outcome(reads, method)
        k       == [auth_method |-> method, key_id |-> SubSeq(payload, 2, 9),
                    auth_secret |-> SubSeq(payload, 10, offset), limits |-> limits.value]
        o       == decode_api_key(encoded)
<1>1. Safe(decoded) /\ (decoded.ok => payload \in Seq(SUBSET (0..7)))
  BY BechFacts
<1>2. method \in {"none", "cookie", "aes", "secret", "other"}
  BY MethodType
<1>3. o = CASE ~decoded.ok -> decoded
            [] decoded.ok /\ ~shape.ok                  -> shape
            [] decoded.ok /\ shape.ok /\ method = "secret" -> Ok([auth_method |-> "secret"])
            [] OTHER -> IF ~version.ok THEN version ELSE IF ~limits.ok THEN limits ELSE Ok(k)
  BY Zenon DEF decode_api_key
<1> HIDE DEF decoded, hrp
<1>4. Safe(shape) /\ (shape.ok => method # "other" /\ Len(payload) = PayloadLen[method])
  <2>1. /\ DOMAIN shapes = 1..3 /\ \A i \in 1..3 : shapes[i] # "panic"
        /\ shapes[2] = Pass /\ shapes[3] = Pass => method # "other" /\ Len(payload) = PayloadLen[method]
    BY DEF Check, Pass
  <2> HIDE DEF shapes, method
  <2> QED
    BY <2>1, OutcomeFacts
<1> HIDE DEF shapes, shape
<1>5. ASSUME decoded.ok, shape.ok, method # "secret"
      PROVE  /\ method \in {"none", "cookie", "aes"}
             /\ Safe(version) /\ Safe(limits) /\ (limits.ok => k \in UsableKey)
  <2>1. method \in {"none", "cookie", "aes"} /\ Len(payload) = PayloadLen[method]
    BY <1>2, <1>4, <1>5
  <2> HIDE DEF method, payload
  <2>2. PayloadLen["none"] = 13 /\ PayloadLen["cookie"] = 45 /\ PayloadLen["aes"] = 45
    BY DEF PayloadLen
  <2>3. PICK L \in {13, 45} : Len(payload) = L /\ offset = L - 4
    BY <2>1, <2>2
  <2> HIDE DEF offset
  <2>4. DOMAIN reads = 1..3 /\ \A i \in 1..3 : reads[i] # "panic"
    <3>1. ~(1 > L) /\ ~(9 > L) /\ ~(offset > L)
      BY <2>3
    <3> QED
      BY <2>3, <3>1 DEF Reads, Slice, Check, Pass
  <2>5. Safe(version)
    <3> HIDE DEF reads
    <3> QED
      BY <2>4, OutcomeFacts
  <2>6. Safe(limits) /\ (limits.ok => limits.value \in [rate_buckets : Nat, latency_services : Nat,
           metrics_labels : Nat, latency_buffer : Nat, dedup_ttl_ms_max : Nat, rate_window : Nat])
    BY <2>3, LimitsFacts
  <2>7. /\ SubSeq(payload, 2, 9) \in Seq(SUBSET (0..7))
        /\ SubSeq(payload, 10, offset) \in Seq(SUBSET (0..7))
    BY <1>1, <1>5, <2>3, SubSeqType
  <2>8. limits.ok => k \in UsableKey
    <3> HIDE DEF limits
    <3> QED
      BY <2>1, <2>6, <2>7 DEF UsableKey, Key, MethodName
  <2> QED
    BY <2>1, <2>5, <2>6, <2>8
<1> HIDE DEF method, payload, offset, limits, version, k, o
<1>6. Safe(o) /\ (o.ok => o.value = [auth_method |-> "secret"] \/ o.value \in UsableKey)
  <2>1. CASE ~decoded.ok
    BY <1>1, <1>3, <2>1
  <2>2. CASE decoded.ok /\ ~shape.ok
    BY <1>3, <1>4, <2>2
  <2>3. CASE decoded.ok /\ shape.ok /\ method = "secret"
    BY <1>3, <2>3 DEF Ok, Safe
  <2>4. CASE decoded.ok /\ shape.ok /\ method # "secret"
    BY <1>3, <1>5, <2>4 DEF Ok, Safe
  <2> QED
    BY <2>1, <2>2, <2>3, <2>4
<1>7. from_str(encoded) = from_decoded(o)
  BY DEF from_str, o
<1> QED
  BY <1>6, <1>7 DEF from_decoded, from_decode_error, Safe, Err, UsableKey

\* Every character of the alphabet has a code.
LEMMA CharsetType == ASSUME NEW m \in 1..32 PROVE CHARSET[m] \in Nat
BY DEF CHARSET

\* The encoder gives a text.
LEMMA EncodeType ==
    ASSUME NEW hrp \in Seq(Nat), NEW payload \in Seq(SUBSET (0..7))
    PROVE  bech32_encode(hrp, payload) \in Seq(Nat)
<1> DEFINE data == convert_bits(payload, 8, 5, TRUE).value
           sum  == create_checksum(hrp, data)
           all  == data \o sum
<1>1. data \in Seq(SUBSET (0..4))
  <2>1. 8 - 1 = 7 /\ 5 - 1 = 4 /\ 8 \in Nat /\ 5 \in Nat \ {0} /\ TRUE \in BOOLEAN
    OBVIOUS
  <2>2. \A i \in DOMAIN payload : payload[i] \subseteq 0..7
    OBVIOUS
  <2> QED
    BY <2>1, <2>2, ConvertFacts
<1>2. sum \in Seq(SUBSET (0..4))
  <2> DEFINE pm == Xor(polymod(hrp_expand(hrp) \o data \o [i \in 1..6 |-> {}]), {0})
  <2>1. sum = [i \in 1..6 |-> {b \in 0..4 : 5 * (6 - i) + b \in pm}]
    BY DEF create_checksum
  <2> HIDE DEF pm, sum
  <2>2. sum \in [1..6 -> SUBSET (0..4)]
    BY <2>1
  <2> QED
    BY <2>2, SeqOfFun
<1> HIDE DEF data, sum
<1>3. all \in Seq(SUBSET (0..4))
  BY <1>1, <1>2
<1> HIDE DEF all
<1>4. \A i \in DOMAIN all : value_to_char(all[i]) \in Nat
  <2> SUFFICES ASSUME NEW v \in SUBSET (0..4) PROVE value_to_char(v) \in Nat
    BY <1>3
  <2>1. PICK n \in 0..31 : Number(v) = n
    <3>1. v \subseteq 0..4
      OBVIOUS
    <3> QED
      BY <3>1, NumberType
  <2>2. value_to_char(v) = CHARSET[n + 1] /\ n + 1 \in 1..32
    BY <2>1 DEF value_to_char
  <2> QED
    BY <2>2, CharsetType
<1>5. [i \in DOMAIN all |-> value_to_char(all[i])] \in Seq(Nat)
  <2>1. Len(all) \in Nat /\ DOMAIN all = 1..Len(all)
    BY <1>3
  <2>2. [i \in DOMAIN all |-> value_to_char(all[i])] \in [1..Len(all) -> Nat]
    BY <1>4, <2>1
  <2> QED
    BY <2>1, <2>2
<1>6. bech32_encode(hrp, payload)
        = hrp \o <<Separator>> \o [i \in DOMAIN all |-> value_to_char(all[i])]
  BY DEF bech32_encode, all, data, sum
<1> QED
  BY <1>5, <1>6 DEF Separator

\* The text of a key is one.
LEMMA TextType == ASSUME NEW k \in Key PROVE KeyText(k) \in Seq(Nat)
<1>1. Prefix \o MethodName[k.auth_method] \in Seq(Nat)
  <2>1. k.auth_method \in {"none", "cookie", "aes", "secret"}
    BY DEF Key, MethodName
  <2>2. /\ MethodName["none"] \in Seq(Nat) /\ MethodName["cookie"] \in Seq(Nat)
        /\ MethodName["aes"] \in Seq(Nat) /\ MethodName["secret"] \in Seq(Nat)
    BY DEF MethodName
  <2>3. MethodName[k.auth_method] \in Seq(Nat)
    BY <2>1, <2>2
  <2>4. Prefix \in Seq(Nat)
    BY DEF Prefix
  <2> QED
    BY <2>3, <2>4
<1>2. k.key_id \in Seq(SUBSET (0..7)) /\ k.auth_secret \in Seq(SUBSET (0..7))
  BY DEF Key
<1>3. encode_api_key(k) \in Seq(Nat)
  <2> DEFINE l    == k.limits
             word == Put(l.rate_buckets, 0) \cup Put(l.latency_services, 5)
                    \cup Put(l.metrics_labels, 10) \cup Put(l.latency_buffer, 15)
                    \cup Put(l.dedup_ttl_ms_max \div 10, 19) \cup Put(l.rate_window, 27)
             last == [i \in 1..4 |-> {b \in 0..7 : 8 * (i - 1) + b \in word}]
             payload == <<FORMAT_VERSION>> \o k.key_id \o k.auth_secret \o last
  <2>1. encode_api_key(k) = bech32_encode(Prefix \o MethodName[k.auth_method], payload)
    BY DEF encode_api_key
  <2> HIDE DEF word
  <2>2. last \in Seq(SUBSET (0..7))
    <3>1. last \in [1..4 -> SUBSET (0..7)]
      OBVIOUS
    <3> HIDE DEF last
    <3> QED
      BY <3>1, SeqOfFun
  <2> HIDE DEF last
  <2>3. payload \in Seq(SUBSET (0..7))
    BY <1>2, <2>2 DEF FORMAT_VERSION
  <2> HIDE DEF payload
  <2> QED
    BY <1>1, <2>1, <2>3, EncodeType
<1>4. k.auth_method = "secret" => bech32_encode(Prefix \o MethodName["secret"], k.auth_secret) \in Seq(Nat)
  BY <1>1, <1>2, EncodeType
<1> QED
  BY <1>3, <1>4 DEF KeyText

\* A capital letter has a code.
LEMMA CapitalType == ASSUME NEW c \in Nat PROVE (IF IsLower(c) THEN c - 32 ELSE c) \in Nat
BY DEF IsLower

\* Typing errors turn a text into a text.
LEMMA EditedType ==
    ASSUME NEW s \in Seq(Nat), issued \in Keys, NEW t \in Edited(s)
    PROVE  t \in Seq(Nat)
<1> DEFINE chars == Typing[issued].chars
<1>1. chars \subseteq Nat
  BY InputAssumption
<1>2. ASSUME NEW i \in DOMAIN s, NEW c \in chars PROVE [s EXCEPT ![i] = c] \in Seq(Nat)
  BY <1>1
<1>3. ASSUME NEW i \in 0..Len(s), NEW c \in chars
      PROVE  SubSeq(s, 1, i) \o <<c>> \o SubSeq(s, i + 1, Len(s)) \in Seq(Nat)
  <2>1. SubSeq(s, 1, i) \in Seq(Nat) /\ SubSeq(s, i + 1, Len(s)) \in Seq(Nat) /\ <<c>> \in Seq(Nat)
    BY <1>1, SubSeqType
  <2> QED
    BY <2>1
<1>4. ASSUME NEW i \in DOMAIN s
      PROVE  SubSeq(s, 1, i - 1) \o SubSeq(s, i + 1, Len(s)) \in Seq(Nat)
  <2>1. SubSeq(s, 1, i - 1) \in Seq(Nat) /\ SubSeq(s, i + 1, Len(s)) \in Seq(Nat)
    BY SubSeqType
  <2> QED
    BY <2>1
<1>5. [i \in DOMAIN s |-> IF IsLower(s[i]) THEN s[i] - 32 ELSE s[i]] \in Seq(Nat)
  <2>1. ASSUME NEW i \in DOMAIN s PROVE (IF IsLower(s[i]) THEN s[i] - 32 ELSE s[i]) \in Nat
    <3>1. s[i] \in Nat
      OBVIOUS
    <3> QED
      BY <3>1, CapitalType
  <2>2. [i \in DOMAIN s |-> IF IsLower(s[i]) THEN s[i] - 32 ELSE s[i]] \in [1..Len(s) -> Nat]
    BY <2>1
  <2> QED
    BY <2>2
<1> DEFINE Replaced == {[s EXCEPT ![i] = c] : i \in DOMAIN s, c \in chars}
           With(i, c) == SubSeq(s, 1, i) \o <<c>> \o SubSeq(s, i + 1, Len(s))
           Inserted == {With(i, c) : i \in 0..Len(s), c \in chars}
           Missing  == {SubSeq(s, 1, i - 1) \o SubSeq(s, i + 1, Len(s)) : i \in DOMAIN s}
           Capitals == [i \in DOMAIN s |-> IF IsLower(s[i]) THEN s[i] - 32 ELSE s[i]]
<1>6. t \in Replaced \/ t \in Inserted \/ t \in Missing \/ t = Capitals
  <2>1. Edited(s) = Replaced \cup Inserted \cup Missing \cup {Capitals}
    BY DEF Edited
  <2> HIDE DEF Replaced, Inserted, Missing, Capitals
  <2> QED
    BY <2>1
<1>7. CASE t \in Replaced
  BY <1>2, <1>7
<1>8. CASE t \in Inserted
  <2>1. \A i \in 0..Len(s), c \in chars : With(i, c) \in Seq(Nat)
    BY <1>3
  <2> HIDE DEF With, chars
  <2> QED
    BY <1>8, <2>1
<1>9. CASE t \in Missing
  BY <1>4, <1>9
<1> HIDE DEF Replaced, Inserted, Missing
<1> QED
  BY <1>5, <1>6, <1>7, <1>8, <1>9, Zenon

-----------------------------------------------------------------------------
(* The client                                                              *)

\* A client exists only for a resource key that covers the policy, and nothing
\* is asked before it exists.
SetupInv ==
    /\ issued \in Keys /\ text \in Seq(Nat) /\ edits \in 0..Typing[issued].max
    /\ key # Err("panic")
    /\ key.ok => key.value \in UsableKey
    /\ ready \in BOOLEAN
    /\ ready => key.ok /\ Horizon <= key.value.limits.dedup_ttl_ms_max
    /\ ~ready => draft = EmptyDraft /\ asked = <<>> /\ inflight = 0 /\ wire = {} /\ net = {}

\* SetupInv holds at first.
LEMMA SetupInit == Init => SetupInv
<1> SUFFICES ASSUME Init PROVE SetupInv
  OBVIOUS
<1>1. issued \in Key /\ Typing[issued].max \in Nat
  BY InputAssumption DEF Init
<1>2. text \in Seq(Nat)
  BY <1>1, TextType DEF Init
<1>3. key # Err("panic") /\ ~key.ok
  BY DEF Init, NoKey, Err
<1>4. edits \in 0..Typing[issued].max
  BY <1>1 DEF Init
<1>5. issued \in Keys /\ ready = FALSE /\ draft = EmptyDraft /\ asked = <<>> /\ inflight = 0
        /\ wire = {} /\ net = {}
  BY Zenon DEF Init
<1> QED
  BY <1>2, <1>3, <1>4, <1>5 DEF SetupInv

\* A step that leaves setup alone, and happens to a client that exists
LEMMA SetupKept ==
    ASSUME SetupInv, ready, UNCHANGED setup
    PROVE  SetupInv'
BY DEF SetupInv, setup

\* SetupInv is kept by every step.
LEMMA SetupStep == SetupInv /\ [Next]_vars => SetupInv'
<1> SUFFICES ASSUME SetupInv, [Next]_vars PROVE SetupInv'
  OBVIOUS
<1>1. CASE Edit
  <2>1. text' \in Seq(Nat)
    BY <1>1, EditedType DEF Edit, SetupInv
  <2>2. edits' \in 0..Typing[issued].max
    <3>1. Typing[issued].max \in Nat
      BY InputAssumption DEF SetupInv
    <3> QED
      BY <1>1, <3>1 DEF Edit, SetupInv
  <2> QED
    BY <1>1, <2>1, <2>2 DEF Edit, SetupInv
<1>2. CASE ParseKey
  <2>1. Safe(key') /\ (key'.ok => key'.value \in UsableKey)
    BY <1>2, KeyFacts DEF ParseKey, SetupInv
  <2>2. key' # Err("panic")
    BY <2>1 DEF Safe, Err
  <2>3. ~ready
    <3>1. ~key.ok
      BY <1>2 DEF ParseKey, NoKey, Err
    <3> QED
      BY <3>1 DEF SetupInv
  <2> QED
    BY <1>2, <2>1, <2>2, <2>3 DEF ParseKey, SetupInv
<1>3. CASE BuildClient
  BY <1>3 DEF BuildClient, SetupInv
<1>4. ASSUME ready, UNCHANGED setup PROVE SetupInv'
  BY <1>4, SetupKept
<1>5. ASSUME NEW next, Step(next) PROVE SetupInv'
  BY <1>4, <1>5 DEF Step
<1>6. CASE \E window \in Windows, tokens \in Quantities : AddResource(window, tokens)
  BY <1>5, <1>6 DEF AddResource
<1>7. CASE \E args \in Trackers, threshold \in Thresholds : AddGuard(args, threshold)
  BY <1>5, <1>7 DEF AddGuard
<1>8. CASE \E n \in Labels : SetLabel(n)
  BY <1>5, <1>8 DEF SetLabel
<1>9. ASSUME NEW resolves \in BOOLEAN, Send(resolves) PROVE SetupInv'
  BY <1>4, <1>9 DEF Send
<1>10. inflight # 0 => ready
  BY DEF SetupInv
<1>11. ASSUME NEW error, GiveUp(error) PROVE SetupInv'
  BY <1>4, <1>10, <1>11 DEF GiveUp
<1>12. ASSUME NEW w \in wire, NEW v \in Verdicts, Answer(w, v.server, v) PROVE SetupInv'
  BY <1>4, <1>12 DEF Answer, SetupInv
<1>13. ASSUME NEW d, Deliver(d) PROVE SetupInv'
  BY <1>4, <1>10, <1>13 DEF Deliver
<1>14. CASE Receive
  BY <1>13, <1>14 DEF Receive
<1>15. ASSUME NEW args \in Trackers, NEW observed \in Thresholds, NEW resolves \in BOOLEAN,
             NEW fail \in SUBSET DOMAIN Targets, ReportLatency(args, observed, resolves, fail)
      PROVE  SetupInv'
  BY <1>4, <1>15 DEF ReportLatency
<1>16. CASE UNCHANGED vars
  BY <1>16 DEF SetupInv, vars, setup
<1> QED
  BY <1>1, <1>2, <1>3, <1>6, <1>7, <1>8, <1>9, <1>11, <1>12, <1>14, <1>15, <1>16 DEF Next

-----------------------------------------------------------------------------
(* Requests                                                                *)

TrackerFields == [name : STRING, sample_ttl_ms : Nat, max_samples : Nat, min_samples : Nat]

Consumption == [name : {"bucket"}, window_ms : Nat, rate_limit : Nat, tokens : 1..U16Max]

Threshold == [tracker : TrackerFields, threshold_ms : 1..U32Max]

Draft == [resources : Seq(Consumption), guards : Seq(Threshold), label_len : 0..MAX_METRICS_LABEL_LEN]

\* A duration that is accepted is a positive u32.
LEMMA DurationFacts ==
    ASSUME NEW d \in Duration
    PROVE  duration_to_u32_ms(d).ok => duration_to_u32_ms(d).value \in 1..U32Max
<1> DEFINE checks == <<Check(d.ms > 0 \/ d.nanos > 0, "InvalidDuration"),
              Check(d.nanos = 0, "InvalidDuration"),
              Check(d.ms <= U32Max, "InvalidDuration")>>
<1>1. DOMAIN checks = 1..3 /\ ((\A i \in 1..3 : checks[i] = Pass) => d.ms \in 1..U32Max)
  BY U32Assumption DEF Check, Pass, Duration
<1> HIDE DEF checks
<1>2. Outcome(checks, d.ms).ok <=> \A i \in 1..3 : checks[i] = Pass
  BY <1>1, OutcomeOk
<1>3. Outcome(checks, d.ms).ok => Outcome(checks, d.ms).value = d.ms
  BY <1>1, OutcomeOk
<1> QED
  BY <1>1, <1>2, <1>3 DEF duration_to_u32_ms, checks

\* A resource that is accepted
LEMMA ResourceFacts ==
    ASSUME NEW window \in Duration
    PROVE  LET o == Resource_new("bucket", window, 5)
           IN  o.ok => /\ o.value.name = "bucket" /\ o.value.rate_limit = 5
                       /\ o.value.window_ms \in Nat
<1>1. duration_to_u32_ms(window).ok => duration_to_u32_ms(window).value \in Nat
  BY DurationFacts, U32Assumption
<1> QED
  BY <1>1 DEF Resource_new, Ok, Err

\* A tracker that is accepted has all its fields.
LEMMA TrackerFacts ==
    ASSUME NEW b \in Trackers
    PROVE  LatencyTracker_build(b).ok => LatencyTracker_build(b).value.tracker \in TrackerFields
<1> DEFINE ttl    == duration_to_u32_ms(b.sample_ttl[1])
        set    == b.sample_ttl # <<>>
        checks == <<Check(b.max_samples # <<>>, "MissingTrackerField"),
                            Check(b.min_samples # <<>>, "MissingTrackerField"),
                            Check(b.max_samples # <<0>>, "InvalidTrackerValue"),
                            Check(b.min_samples # <<0>>, "InvalidTrackerValue")>>
        counts == Outcome(checks, b)
        fields == [name |-> b.name, sample_ttl_ms |-> ttl.value,
                   max_samples |-> b.max_samples[1], min_samples |-> b.min_samples[1]]
<1>1. /\ b.name \in STRING /\ b.sample_ttl \in Seq(Duration)
      /\ b.max_samples \in Seq(Nat) /\ b.min_samples \in Seq(Nat)
  BY InputAssumption
<1>2. set /\ ttl.ok => ttl.value \in Nat
  <2>1. set => b.sample_ttl[1] \in Duration
    BY <1>1
  <2> HIDE DEF set
  <2> QED
    BY <2>1, DurationFacts, U32Assumption
<1>3. counts.ok => b.max_samples # <<>> /\ b.min_samples # <<>>
  <2>1. /\ DOMAIN checks = 1..4
        /\ (\A i \in 1..4 : checks[i] = Pass) => b.max_samples # <<>> /\ b.min_samples # <<>>
    BY DEF Check, Pass
  <2> HIDE DEF checks
  <2> QED
    BY <2>1, OutcomeOk
<1>4. set /\ ttl.ok /\ counts.ok => fields \in TrackerFields
  <2> HIDE DEF counts, ttl, set
  <2>1. counts.ok => b.max_samples[1] \in Nat /\ b.min_samples[1] \in Nat
    BY <1>1, <1>3
  <2> QED
    BY <1>1, <1>2, <2>1 DEF TrackerFields
<1>5. LatencyTracker_build(b) =
        CASE b.name = ""                            -> Err("InvalidName")
          [] b.name # "" /\ ~set                    -> Err("MissingTrackerField")
          [] b.name # "" /\ set /\ ~ttl.ok          -> ttl
          [] b.name # "" /\ set /\ ttl.ok /\ ~counts.ok -> counts
          [] OTHER -> Ok([tracker |-> fields, id |-> derive_latency_tracker_id(fields)])
  BY Zenon DEF LatencyTracker_build
<1> HIDE DEF counts, ttl, fields
<1>6. CASE b.name # "" /\ set /\ ttl.ok /\ counts.ok
  <2>1. LatencyTracker_build(b) = Ok([tracker |-> fields, id |-> derive_latency_tracker_id(fields)])
    BY <1>5, <1>6
  <2>2. fields \in TrackerFields
    BY <1>4, <1>6
  <2>3. LatencyTracker_build(b).value.tracker = fields
    BY <2>1 DEF Ok
  <2> QED
    BY <2>2, <2>3
<1>7. CASE b.name = "" \/ ~set
  <2>1. LatencyTracker_build(b) \in {Err("InvalidName"), Err("MissingTrackerField")}
    BY <1>5, <1>7
  <2> QED
    BY <2>1 DEF Err
<1>8. CASE b.name # "" /\ set /\ ~ttl.ok
  <2>1. LatencyTracker_build(b) = ttl
    BY <1>5, <1>8
  <2> QED
    BY <1>8, <2>1
<1>9. CASE b.name # "" /\ set /\ ttl.ok /\ ~counts.ok
  <2>1. LatencyTracker_build(b) = counts
    BY <1>5, <1>9
  <2> QED
    BY <1>9, <2>1
<1> QED
  BY <1>6, <1>7, <1>8, <1>9

\* The builder's methods turn a draft into a draft.
LEMMA ConsumeFacts ==
    ASSUME NEW d \in Draft, NEW rate_window, NEW r, NEW tokens \in Nat,
           r.name = "bucket", r.rate_limit \in Nat, r.window_ms \in Nat
    PROVE  consume(d, rate_window, r, tokens).ok => consume(d, rate_window, r, tokens).value \in Draft
<1> DEFINE checks == <<Check(tokens \in 1..U16Max, "InvalidTokenQuantity"),
              Check(~ExceedsWindow(r.window_ms, rate_window), "ResourceWindowExceedsApiKey"),
              Check(Len(d.resources) # U16Max, "TooManyRequestEntries")>>
           new == [name |-> r.name, window_ms |-> r.window_ms, rate_limit |-> r.rate_limit,
                   tokens |-> tokens]
           value == [d EXCEPT !.resources = Append(@, new)]
<1>1. consume(d, rate_window, r, tokens) = Outcome(checks, value)
  BY DEF consume
<1>2. DOMAIN checks = 1..3 /\ (checks[1] = Pass => tokens \in 1..U16Max)
  BY DEF Check, Pass
<1>3. tokens \in 1..U16Max => value \in Draft
  <2>1. tokens \in 1..U16Max => new \in Consumption
    BY DEF Consumption
  <2> HIDE DEF new
  <2>2. tokens \in 1..U16Max => Append(d.resources, new) \in Seq(Consumption)
    BY <2>1 DEF Draft
  <2> QED
    BY <2>2 DEF Draft
<1> HIDE DEF checks, value
<1>4. Outcome(checks, value).ok => checks[1] = Pass
  BY <1>2, OutcomeOk
<1>5. Outcome(checks, value).ok => Outcome(checks, value).value = value
  BY <1>2, OutcomeOk
<1> QED
  BY <1>1, <1>2, <1>3, <1>4, <1>5

\* The same for a guard.
LEMMA GuardFacts ==
    ASSUME NEW d \in Draft, NEW t, t.tracker \in TrackerFields, NEW threshold \in Duration
    PROVE  guard(d, t, threshold).ok => guard(d, t, threshold).value \in Draft
<1> DEFINE ms  == duration_to_u32_ms(threshold)
           new == [tracker |-> t.tracker, threshold_ms |-> ms.value]
           value == [d EXCEPT !.guards = Append(@, new)]
<1>1. guard(d, t, threshold) =
        CASE Len(d.guards) = U16Max               -> Err("TooManyRequestEntries")
          [] Len(d.guards) # U16Max /\ ~ms.ok     -> ms
          [] OTHER -> Ok(value)
  BY DEF guard
<1>2. ms.ok => value \in Draft
  <2>1. ms.ok => ms.value \in 1..U32Max
    BY DurationFacts
  <2> HIDE DEF ms
  <2>2. ms.ok => new \in Threshold
    BY <2>1 DEF Threshold
  <2> HIDE DEF new
  <2>3. ms.ok => Append(d.guards, new) \in Seq(Threshold)
    BY <2>2 DEF Draft
  <2> QED
    BY <2>3 DEF Draft
<1> HIDE DEF ms, value
<1>3. CASE Len(d.guards) = U16Max
  BY <1>1, <1>3 DEF Err
<1>4. CASE Len(d.guards) # U16Max /\ ~ms.ok
  BY <1>1, <1>4
<1>5. CASE Len(d.guards) # U16Max /\ ms.ok
  BY <1>1, <1>2, <1>5 DEF Ok
<1> QED
  BY <1>3, <1>4, <1>5

\* The same for a label.
LEMMA LabelFacts ==
    ASSUME NEW d \in Draft, NEW n \in Nat
    PROVE  metrics_label(d, n).ok => metrics_label(d, n).value \in Draft
<1> DEFINE checks == <<Check(n <= MAX_METRICS_LABEL_LEN, "InvalidMetricsLabel")>>
           value  == [d EXCEPT !.label_len = n]
<1>1. metrics_label(d, n) = Outcome(checks, value)
  BY DEF metrics_label
<1>2. DOMAIN checks = 1..1 /\ (checks[1] = Pass => n <= MAX_METRICS_LABEL_LEN)
  BY DEF Check, Pass
<1>3. n <= MAX_METRICS_LABEL_LEN => value \in Draft
  <2>1. MAX_METRICS_LABEL_LEN \in Nat
    BY DEF MAX_METRICS_LABEL_LEN
  <2>2. n <= MAX_METRICS_LABEL_LEN => n \in 0..MAX_METRICS_LABEL_LEN
    BY <2>1
  <2> QED
    BY <2>2 DEF Draft
<1> HIDE DEF checks, value
<1>4. Outcome(checks, value).ok => checks[1] = Pass
  BY <1>2, OutcomeOk
<1>5. Outcome(checks, value).ok => Outcome(checks, value).value = value
  BY <1>2, OutcomeOk
<1> QED
  BY <1>1, <1>2, <1>3, <1>4, <1>5

-----------------------------------------------------------------------------
(* Datagrams of the client                                                 *)

\* The TLV of a label of n bytes: padded to whole words, absent if n is zero
LabelFits(label, n) ==
    /\ label = [tlv_size |-> label.len, label_len |-> n, len |-> label.len]
    /\ label.len \in Nat /\ label.len % 4 = 0
    /\ n > 0 => label.len - 6 - n \in 0..3
    /\ n = 0 => label = NoLabel

BodyOf(d, label) ==
    [guard_count |-> Len(d.guards), resource_count |-> Len(d.resources),
     guards |-> [i \in DOMAIN d.guards |-> GuardBlock(d.guards[i])],
     resources |-> [i \in DOMAIN d.resources |-> ResourceBlock(d.resources[i])],
     label |-> label, len |-> 4 + 36 * Len(d.guards) + 28 * Len(d.resources) + label.len]

PduOf(d, label) ==
    [pdu_type |-> "rate_request", pdu_size |-> 8 + BodyOf(d, label).len, dedup_ttl_ms |-> Horizon,
     body |-> BodyOf(d, label)]

DatagramOf(d, id, label) ==
    LET tenant == build_tenant_header(key.value.key_id, id)
    IN  [tenant |-> tenant, auth |-> append_auth_tlv(key.value, tenant, PduOf(d, label)),
         pdu |-> PduOf(d, label), len |-> 40 + auth_header_size(key.value) + 8 + BodyOf(d, label).len]

\* A value that fits 16 bits is not changed by the cast.
LEMMA CastExact == ASSUME NEW n \in Nat, n <= 65535 PROVE u16(n) = n
BY DEF u16, U16Max

\* append_metrics_label_tlv pads to whole words.
LEMMA LabelTlvFacts ==
    ASSUME NEW n \in Nat \ {0}
    PROVE  append_metrics_label_tlv(n).ok => LabelFits(append_metrics_label_tlv(n).value, n)
<1> DEFINE body_len == 2 + n
           padding  == (4 - (body_len % 4)) % 4
           tlv_size == 4 + body_len + padding
           checks   == <<Check(n <= U16Max, "Protocol"), Check(tlv_size <= U16Max, "Protocol")>>
           value    == [tlv_size |-> u16(tlv_size), label_len |-> u16(n), len |-> tlv_size]
<1>1. append_metrics_label_tlv(n) = Outcome(checks, value)
  BY DEF append_metrics_label_tlv
<1>2. padding \in 0..3 /\ (body_len + padding) % 4 = 0
  OBVIOUS
<1> HIDE DEF padding
<1>3. tlv_size \in Nat /\ tlv_size % 4 = 0 /\ tlv_size - 6 - n \in 0..3
  BY <1>2
<1> HIDE DEF tlv_size
<1>4. DOMAIN checks = 1..2 /\ ((\A i \in 1..2 : checks[i] = Pass) => n <= 65535 /\ tlv_size <= 65535)
  BY DEF Check, Pass, U16Max
<1>5. n <= 65535 /\ tlv_size <= 65535 => value = [tlv_size |-> tlv_size, label_len |-> n, len |-> tlv_size]
  BY <1>3, CastExact
<1>6. n <= 65535 /\ tlv_size <= 65535 => LabelFits(value, n)
  BY <1>3, <1>5 DEF LabelFits
<1> HIDE DEF checks, value
<1>7. Outcome(checks, value).ok => \A i \in 1..2 : checks[i] = Pass
  BY <1>4, OutcomeOk
<1>8. Outcome(checks, value).ok => Outcome(checks, value).value = value
  BY <1>4, OutcomeOk
<1> QED
  BY <1>1, <1>4, <1>6, <1>7, <1>8

\* The header of a usable key has one of three sizes.
LEMMA AuthSize == ASSUME NEW k \in UsableKey PROVE auth_header_size(k) \in {4, 36, 32}
<1>1. k.auth_method \in {"none", "cookie", "aes"}
  BY DEF UsableKey, Key, MethodName
<1> QED
  BY <1>1 DEF auth_header_size

\* A packet that is built is within the limit and is exact: no count and no size
\* was cut off.
LEMMA PacketFacts ==
    ASSUME NEW d \in Draft, NEW id, key.value \in UsableKey, RequestPacket(d, id).ok
    PROVE  LET w == RequestPacket(d, id).value
           IN  /\ LabelFits(w.pdu.body.label, d.label_len)
               /\ w = DatagramOf(d, id, w.pdu.body.label)
               /\ w.len <= 1200
<1> DEFINE label == IF d.label_len = 0 THEN Ok(NoLabel) ELSE append_metrics_label_tlv(d.label_len)
           l     == label.value
           guards == [i \in DOMAIN d.guards |-> GuardBlock(d.guards[i])]
           resources == [i \in DOMAIN d.resources |-> ResourceBlock(d.resources[i])]
           raw   == [guard_count |-> u16(Len(d.guards)), resource_count |-> u16(Len(d.resources)),
                     guards |-> guards, resources |-> resources, label |-> l,
                     len |-> 4 + GUARD_BLOCK_WIRE_LEN * Len(d.guards)
                               + RESOURCE_BLOCK_LEN * Len(d.resources) + l.len]
           body  == build_rate_request_body(d.resources, d.guards, d.label_len)
           pdu   == build_pdu("rate_request", Horizon, body.value)
           tenant == build_tenant_header(key.value.key_id, id)
           whole == packet(key.value, tenant, pdu.value)
<1>1. body.ok /\ pdu.ok /\ whole.ok /\ RequestPacket(d, id) = whole
  <2>1. RequestPacket(d, id) =
          CASE ~body.ok -> body [] body.ok /\ ~pdu.ok -> pdu [] OTHER -> whole
    BY DEF RequestPacket
  <2> HIDE DEF body, pdu, whole
  <2>2. CASE ~body.ok
    BY <2>1, <2>2
  <2>3. CASE body.ok /\ ~pdu.ok
    BY <2>1, <2>3
  <2>4. CASE body.ok /\ pdu.ok
    BY <2>1, <2>4
  <2> QED
    BY <2>2, <2>3, <2>4
<1>2. label.ok /\ body.value = raw
  <2>1. body = IF ~label.ok THEN label ELSE Ok(raw)
    BY DEF build_rate_request_body
  <2> HIDE DEF label, body, raw
  <2> QED
    BY <1>1, <2>1 DEF Ok
<1>3. LabelFits(l, d.label_len)
  <2>1. d.label_len \in Nat
    BY DEF Draft
  <2>2. CASE d.label_len = 0
    BY <2>2 DEF LabelFits, Ok, NoLabel
  <2>3. CASE d.label_len # 0
    BY <1>2, <2>1, <2>3, LabelTlvFacts
  <2> QED
    BY <2>2, <2>3
<1> HIDE DEF label, l, guards, resources, body
<1>4. PICK g \in Nat, r \in Nat, n \in Nat : Len(d.guards) = g /\ Len(d.resources) = r /\ l.len = n
  BY <1>3 DEF Draft, LabelFits
<1> DEFINE len == 4 + 36 * g + 28 * r + n
<1>5. raw.len = len /\ raw.label = l /\ len \in Nat
  BY <1>4 DEF GUARD_BLOCK_WIRE_LEN, RESOURCE_BLOCK_LEN
<1>6. pdu.value = [pdu_type |-> "rate_request", pdu_size |-> u16(8 + len), dedup_ttl_ms |-> Horizon, body |-> raw]
  <2> DEFINE checks == <<Check(PDU_HEADER_LEN + raw.len <= U16Max, "Protocol")>>
             value  == [pdu_type |-> "rate_request", pdu_size |-> u16(PDU_HEADER_LEN + raw.len),
                        dedup_ttl_ms |-> Horizon, body |-> raw]
  <2>1. pdu = Outcome(checks, value)
    BY <1>2, Zenon DEF build_pdu
  <2> HIDE DEF pdu, checks, raw
  <2>2. pdu.value = value
    <3> HIDE DEF value
    <3> QED
      BY <1>1, <2>1, OutcomeOk
  <2> QED
    BY <1>5, <2>2 DEF PDU_HEADER_LEN
<1> HIDE DEF raw, pdu
<1>7. PICK a \in Nat : auth_header_size(key.value) = a
  BY AuthSize
<1>8. /\ 40 + a + 8 + len <= 1200
      /\ whole.value = [tenant |-> tenant, auth |-> append_auth_tlv(key.value, tenant, pdu.value),
                        pdu |-> pdu.value, len |-> 40 + a + 8 + len]
  <2> DEFINE size   == TENANT_TLV_LEN + auth_header_size(key.value) + PDU_HEADER_LEN + pdu.value.body.len
             checks == <<Check(size <= MAX_PACKET_SIZE, "Protocol")>>
             value  == [tenant |-> tenant, auth |-> append_auth_tlv(key.value, tenant, pdu.value),
                        pdu |-> pdu.value, len |-> size]
  <2>1. whole = Outcome(checks, value)
    BY Zenon DEF packet
  <2>2. size = 40 + a + 8 + len
    BY <1>5, <1>6, <1>7 DEF TENANT_TLV_LEN, PDU_HEADER_LEN
  <2> HIDE DEF size, whole
  <2>3. DOMAIN checks = 1..1 /\ (checks[1] = Pass => size <= 1200)
    BY DEF Check, Pass, MAX_PACKET_SIZE
  <2>4. whole.value = value /\ checks[1] = Pass
    <3> HIDE DEF value, checks
    <3> QED
      BY <1>1, <2>1, <2>3, OutcomeOk
  <2> QED
    BY <2>2, <2>3, <2>4
<1>9. raw = BodyOf(d, l) /\ BodyOf(d, l).len = len
  <2>1. u16(g) = g /\ u16(r) = r
    BY <1>7, <1>8, CastExact
  <2> QED
    BY <1>4, <2>1 DEF raw, BodyOf, guards, resources, GUARD_BLOCK_WIRE_LEN, RESOURCE_BLOCK_LEN
<1>10. pdu.value = PduOf(d, l)
  <2>1. u16(8 + len) = 8 + len
    BY <1>5, <1>7, <1>8, CastExact
  <2> QED
    BY <1>6, <1>9, <2>1 DEF PduOf
<1>11. whole.value = DatagramOf(d, id, l) /\ whole.value.len <= 1200 /\ whole.value.pdu.body.label = l
  <2> HIDE DEF whole
  <2>1. whole.value = DatagramOf(d, id, l)
    BY <1>7, <1>8, <1>9, <1>10 DEF DatagramOf
  <2>2. whole.value.pdu.body.label = l
    BY <1>5, <1>6, <1>8
  <2> QED
    BY <1>8, <2>1, <2>2
<1> HIDE DEF whole
<1> QED
  BY <1>1, <1>3, <1>11

-----------------------------------------------------------------------------
(* Answers                                                                 *)

\* What is at each place of the answer to the request d with this id
Answers(a, d, id, server, v) ==
    LET b == a.pdu.body
    IN  /\ DOMAIN a = {"tenant", "auth", "pdu", "len"}
        /\ "tlv_size" \in DOMAIN a.tenant /\ "pdu_size" \in DOMAIN a.pdu /\ "body" \in DOMAIN a.pdu
        /\ {"guard_count", "resource_count", "guards", "resources", "len"} \subseteq DOMAIN b
        /\ a.tenant.tlv_type = "tenant" /\ a.tenant.tlv_size = v.tenant_size
        /\ a.tenant.key_id = server /\ a.tenant.unique_id = id
        /\ a.auth = append_auth_tlv(key.value, a.tenant, a.pdu)
        /\ a.pdu.pdu_type = "rate_response" /\ a.pdu.pdu_size = 8 + b.len
        /\ a.len = v.tenant_size + auth_header_size(key.value) + a.pdu.pdu_size
        /\ b.guard_count = Len(d.guards) /\ b.resource_count = Len(d.resources)
        /\ b.len = 4 + 36 * Len(d.guards) + 28 * Len(d.resources) + v.trailing
        /\ DOMAIN b.guards = DOMAIN d.guards
        /\ \A i \in DOMAIN d.guards : /\ b.guards[i].latency_threshold = d.guards[i].threshold_ms
                                      /\ b.guards[i].current_latency = v.latency
        /\ DOMAIN b.resources = DOMAIN d.resources
        /\ \A i \in DOMAIN d.resources :
              /\ b.resources[i].bucket_id = derive_bucket_id(d.resources[i].name,
                     d.resources[i].window_ms, d.resources[i].rate_limit)
              /\ b.resources[i].tokens_requested = IF v.short THEN d.resources[i].tokens ELSE 0

\* An answer echoes the request, with the server's verdict.
LEMMA AnswerFacts ==
    ASSUME NEW d \in Draft, NEW id, NEW label, LabelFits(label, d.label_len), NEW server, NEW v,
           v.trailing \in Int, v.short \in BOOLEAN
    PROVE  Answers(AnswerTo(DatagramOf(d, id, label), server, v), d, id, server, v)
<1> DEFINE w == DatagramOf(d, id, label)
           a == AnswerTo(w, server, v)
           tenant == [w.tenant EXCEPT !.key_id = server, !.tlv_size = v.tenant_size,
                                      !.steering_feedback = v.keep]
           guards == [i \in DOMAIN w.pdu.body.guards |->
                         [w.pdu.body.guards[i] EXCEPT !.current_latency = v.latency]]
           resources == [i \in DOMAIN w.pdu.body.resources |->
                [w.pdu.body.resources[i] EXCEPT !.tokens_requested = IF v.short THEN @ ELSE 0]]
           body == [w.pdu.body EXCEPT !.guards = guards, !.resources = resources, !.label = NoLabel,
                      !.len = @ - w.pdu.body.label.len + v.trailing]
           pdu  == [w.pdu EXCEPT !.pdu_type = "rate_response",
                                 !.pdu_size = PDU_HEADER_LEN + body.len, !.body = body]
<1>2. w.tenant = [tlv_type |-> "tenant", tlv_size |-> 40, key_id |-> key.value.key_id,
                  unique_id |-> id, steering_feedback |-> TRUE]
  BY DEF DatagramOf, build_tenant_header, TENANT_TLV_LEN
<1>3. w.pdu = PduOf(d, label)
  BY DEF DatagramOf
<1>4. w.pdu.body = BodyOf(d, label)
  BY <1>3 DEF PduOf
<1> HIDE DEF w
<1>1. a = [tenant |-> tenant, auth |-> append_auth_tlv(key.value, tenant, pdu), pdu |-> pdu,
           len |-> v.tenant_size + auth_header_size(key.value) + pdu.pdu_size]
  BY DEF AnswerTo
<1>5. /\ tenant.tlv_type = "tenant" /\ tenant.tlv_size = v.tenant_size
      /\ tenant.key_id = server /\ tenant.unique_id = id /\ "tlv_size" \in DOMAIN tenant
  BY <1>2
<1>6. /\ DOMAIN guards = DOMAIN d.guards
      /\ \A i \in DOMAIN d.guards : /\ guards[i].latency_threshold = d.guards[i].threshold_ms
                                    /\ guards[i].current_latency = v.latency
  BY <1>4 DEF BodyOf, GuardBlock
<1>7. /\ DOMAIN resources = DOMAIN d.resources
      /\ \A i \in DOMAIN d.resources :
              /\ resources[i].bucket_id = derive_bucket_id(d.resources[i].name,
                     d.resources[i].window_ms, d.resources[i].rate_limit)
              /\ resources[i].tokens_requested = IF v.short THEN d.resources[i].tokens ELSE 0
  <2>1. w.pdu.body.resources = [i \in DOMAIN d.resources |-> ResourceBlock(d.resources[i])]
    BY <1>4 DEF BodyOf
  <2>2. ASSUME NEW i \in DOMAIN d.resources
        PROVE  resources[i] = [ResourceBlock(d.resources[i]) EXCEPT !.tokens_requested = IF v.short THEN @ ELSE 0]
    BY <2>1
  <2>3. DOMAIN resources = DOMAIN d.resources
    BY <2>1
  <2> HIDE DEF resources
  <2>4. ASSUME NEW i \in DOMAIN d.resources
        PROVE  /\ resources[i].bucket_id = derive_bucket_id(d.resources[i].name,
                     d.resources[i].window_ms, d.resources[i].rate_limit)
               /\ resources[i].tokens_requested = IF v.short THEN d.resources[i].tokens ELSE 0
    BY <2>2 DEF ResourceBlock
  <2> QED
    BY <2>3, <2>4
<1> HIDE DEF tenant, guards, resources
<1>8. /\ body.guards = guards /\ body.resources = resources
      /\ body.guard_count = Len(d.guards) /\ body.resource_count = Len(d.resources)
      /\ body.len = 4 + 36 * Len(d.guards) + 28 * Len(d.resources) + v.trailing
      /\ {"guard_count", "resource_count", "guards", "resources", "len"} \subseteq DOMAIN body
  <2>1. PICK g \in Nat, r \in Nat, n \in Nat : Len(d.guards) = g /\ Len(d.resources) = r /\ label.len = n
    BY DEF Draft, LabelFits
  <2>2. /\ DOMAIN w.pdu.body = {"guard_count", "resource_count", "guards", "resources", "label", "len"}
        /\ w.pdu.body.guard_count = g /\ w.pdu.body.resource_count = r
        /\ w.pdu.body.len = 4 + 36 * g + 28 * r + n /\ w.pdu.body.label.len = n
    BY <1>4, <2>1 DEF BodyOf
  <2>3. /\ body.guards = guards /\ body.resources = resources
        /\ body.guard_count = g /\ body.resource_count = r
        /\ body.len = (4 + 36 * g + 28 * r + n) - n + v.trailing
        /\ {"guard_count", "resource_count", "guards", "resources", "len"} \subseteq DOMAIN body
    BY <2>2
  <2> HIDE DEF body
  <2> QED
    BY <2>1, <2>3
<1> HIDE DEF body
<1>9. /\ pdu.pdu_type = "rate_response" /\ pdu.pdu_size = 8 + body.len /\ pdu.body = body
      /\ "pdu_size" \in DOMAIN pdu /\ "body" \in DOMAIN pdu
  BY <1>3 DEF PduOf, PDU_HEADER_LEN
<1> HIDE DEF pdu, a
<1>10. /\ DOMAIN a = {"tenant", "auth", "pdu", "len"}
       /\ a.tenant = tenant /\ a.pdu = pdu /\ a.auth = append_auth_tlv(key.value, tenant, pdu)
       /\ a.len = v.tenant_size + auth_header_size(key.value) + pdu.pdu_size
  BY <1>1
<1>11. Answers(a, d, id, server, v)
  BY <1>5, <1>6, <1>7, <1>8, <1>9, <1>10 DEF Answers
<1> QED
  BY <1>11 DEF a, w

\* The decision and the results are those of the first g guards and n resources.
Decides(r, a, g, n) ==
    /\ r.success = Grants(a, 1..g, 1..n) /\ r.server_id = a.tenant.key_id
    /\ DOMAIN r.guard_results = 1..g /\ DOMAIN r.resource_results = 1..n
    /\ \A i \in 1..n : r.resource_results[i].bucket_id = a.pdu.body.resources[i].bucket_id

\* The parser makes it so.
LEMMA DecisionExact ==
    ASSUME NEW a, NEW g, NEW n
    PROVE  Decides(RateLimitResult(a, g, n), a, g, n)
<1> DEFINE r == RateLimitResult(a, g, n)
<1>1. r.success = (/\ \A i \in 1..g :
                        a.pdu.body.guards[i].current_latency < a.pdu.body.guards[i].latency_threshold
                   /\ \A i \in 1..n : a.pdu.body.resources[i].tokens_requested = 0)
  BY Zenon DEF RateLimitResult
<1>2. r.server_id = a.tenant.key_id
  BY Zenon DEF RateLimitResult
<1>3. r.success = Grants(a, 1..g, 1..n)
  BY <1>1, Zenon DEF Grants
<1>4. /\ r.guard_results = [i \in 1..g |->
           [latency_tracker_id |-> a.pdu.body.guards[i].latency_tracker_id,
            passed |-> a.pdu.body.guards[i].current_latency < a.pdu.body.guards[i].latency_threshold]]
      /\ r.resource_results = [i \in 1..n |->
           [bucket_id |-> a.pdu.body.resources[i].bucket_id,
            tokens_deficit |-> a.pdu.body.resources[i].tokens_requested,
            actual_rate |-> a.pdu.body.resources[i].rate_limit]]
  BY Zenon DEF RateLimitResult
<1>5. DOMAIN r.guard_results = 1..g
  BY <1>4
<1>6. DOMAIN r.resource_results = 1..n
  BY <1>4
<1>7. \A i \in 1..n : r.resource_results[i].bucket_id = a.pdu.body.resources[i].bucket_id
  BY <1>4
<1> QED
  BY <1>2, <1>3, <1>5, <1>6, <1>7, Zenon DEF Decides

\* Answers have sizes.
LEMMA AnswerSized ==
    ASSUME NEW d \in Draft, NEW id, NEW server, NEW v, v.tenant_size \in Int, v.trailing \in Int,
           NEW a, Answers(a, d, id, server, v), key.value \in UsableKey
    PROVE  /\ Sized(a)
           /\ a.auth.tlv_size = auth_header_size(key.value)
           /\ a.pdu.body.len \in Int
<1>1. PICK g \in Nat, r \in Nat : Len(d.guards) = g /\ Len(d.resources) = r
  BY DEF Draft
<1>2. auth_header_size(key.value) \in Int
  BY AuthSize
<1>3. a.auth.tlv_size = auth_header_size(key.value)
  BY DEF Answers, append_auth_tlv
<1>4. a.pdu.body.guard_count = g /\ a.pdu.body.resource_count = r /\ a.pdu.body.len \in Int
  BY <1>1 DEF Answers
<1>5. a.pdu.pdu_size \in Int
  BY <1>4 DEF Answers
<1>6. a.len \in Int /\ a.tenant.tlv_size \in Int
  <2>1. /\ a.len = v.tenant_size + auth_header_size(key.value) + a.pdu.pdu_size
        /\ a.tenant.tlv_size = v.tenant_size
    BY Zenon DEF Answers
  <2> QED
    BY <1>2, <1>5, <2>1
<1> QED
  BY <1>2, <1>3, <1>4, <1>5, <1>6 DEF Sized

\* The client that asked accepts every conforming answer.
LEMMA AnswerAccepted ==
    ASSUME NEW d \in Draft, NEW id, NEW server, NEW v, v.tenant_size \in Nat \ (0..39), v.trailing \in Nat,
           NEW a, Answers(a, d, id, server, v), key.value \in UsableKey, Allowed(server)
    PROVE  peek_request_id(a) = Ok(id) /\ peek_server_id(a) = Ok(server) /\ Accept(a).ok
<1>1. PICK g \in Nat, r \in Nat : Len(d.guards) = g /\ Len(d.resources) = r
  BY DEF Draft
<1>2. PICK h \in Nat : auth_header_size(key.value) = h /\ h >= 4
  BY AuthSize
<1>3. Sized(a) /\ a.auth.tlv_size = h
  BY <1>2, AnswerSized
<1>4. PICK n \in Nat : a.pdu.body.len = n /\ 4 + 36 * g + 28 * r <= n
  <2>1. a.pdu.body.len = 4 + 36 * Len(d.guards) + 28 * Len(d.resources) + v.trailing
    BY Zenon DEF Answers
  <2> QED
    BY <1>1, <2>1
<1>5. /\ a.tenant.tlv_size = v.tenant_size /\ a.pdu.pdu_size = 8 + n
      /\ a.len = v.tenant_size + h + 8 + n
  <2>1. /\ a.tenant.tlv_size = v.tenant_size /\ a.pdu.pdu_size = 8 + a.pdu.body.len
        /\ a.len = v.tenant_size + auth_header_size(key.value) + a.pdu.pdu_size
    BY Zenon DEF Answers
  <2> QED
    BY <1>2, <1>4, <2>1
<1>6. a.tenant.tlv_type = "tenant" /\ a.tenant.tlv_size \in 40..a.len
  <2>1. a.tenant.tlv_type = "tenant"
    BY Zenon DEF Answers
  <2>2. PICK t \in Nat : v.tenant_size = t /\ t >= 40
    OBVIOUS
  <2> QED
    BY <1>2, <1>4, <1>5, <2>1, <2>2
<1>7. peek_request_id(a) = Ok(id) /\ peek_server_id(a) = Ok(server)
  <2>1. a.tenant.unique_id = id /\ a.tenant.key_id = server
    BY Zenon DEF Answers
  <2>2. Peek(a, 28, a.tenant.unique_id) = Ok(a.tenant.unique_id)
    BY <1>3, <1>6, PeekFacts
  <2>3. Peek(a, 12, a.tenant.key_id) = Ok(a.tenant.key_id)
    BY <1>3, <1>6, PeekFacts
  <2> QED
    BY <2>1, <2>2, <2>3 DEF peek_request_id, peek_server_id
<1>8. parse_tenant_header(a).ok
  BY <1>3, <1>6, TenantFacts
<1>9. Authentic(a, key.value)
  <2>1. a.auth = append_auth_tlv(key.value, a.tenant, a.pdu)
    BY DEF Answers
  <2>2. a.auth.tlv_type = key.value.auth_method /\ a.auth.tlv_size = auth_header_size(key.value)
    BY <2>1 DEF append_auth_tlv
  <2>3. key.value.auth_method = "cookie" => a.auth.body = <<key.value.auth_secret>>
    BY <2>1 DEF append_auth_tlv
  <2>4. key.value.auth_method = "aes" => a.auth.body = encrypt_pdu(key.value, a.tenant, a.pdu)
    BY <2>1 DEF append_auth_tlv
  <2>5. a.len - a.tenant.tlv_size - a.auth.tlv_size = 8 + a.pdu.body.len
    BY <1>3, <1>4, <1>5
  <2> QED
    BY <2>2, <2>3, <2>4, <2>5 DEF Authentic, decrypt_pdu, PDU_HEADER_LEN
<1> DEFINE p == parse_auth_tlv(a, a.tenant.tlv_size, key.value)
<1>10. p.ok /\ p.value = v.tenant_size + h
  BY <1>2, <1>3, <1>5, <1>9, AuthFacts
<1>11. parse_rate_response_pdu(a, v.tenant_size + h).ok
  <2>1. a.pdu.pdu_type = "rate_response" /\ a.pdu.body.guard_count = g /\ a.pdu.body.resource_count = r
    BY <1>1 DEF Answers
  <2> QED
    BY <1>3, <1>4, <1>5, <2>1, PduFacts DEF AllThere
<1> HIDE DEF p
<1>12. parse_rate_response_with_auth(a, key.value).ok
  BY <1>8, <1>10, <1>11 DEF parse_rate_response_with_auth, p
<1>13. Accept(a) = parse_rate_response_with_auth(a, key.value)
  BY <1>7 DEF Accept, Ok
<1> QED
  BY <1>7, <1>12, <1>13

\* An odd answer has sizes, whatever they are.
LEMMA OddFacts ==
    ASSUME NEW d \in Draft, NEW id, NEW label, LabelFits(label, d.label_len), NEW server,
           NEW o \in OddShapes, key.value \in UsableKey
    PROVE  LET x == OddAnswerTo(DatagramOf(d, id, label), server, o)
           IN  Sized(x) /\ DOMAIN x = {"tenant", "auth", "pdu", "len"}
<1> DEFINE w == DatagramOf(d, id, label)
           v == [tenant_size |-> 40, keep |-> TRUE, latency |-> U32Max, short |-> TRUE, trailing |-> 0]
           refused == AnswerTo(w, server, v)
           tenant  == [refused.tenant EXCEPT !.tlv_size = o.tenant_size]
           size    == auth_header_size(key.value) + o.auth_delta
           start   == CASE o.from = "start" -> 0
                        [] o.from = "pdu" -> o.tenant_size + size
                        [] o.from = "end" -> o.tenant_size + size + refused.pdu.pdu_size
           len     == AtLeastZero(start + o.len)
           blocks  == refused.pdu.body
           guard_count    == AtLeastZero(blocks.guard_count + o.guards)
           resource_count == AtLeastZero(blocks.resource_count + o.resources)
           body    == [blocks EXCEPT
                        !.guard_count = guard_count, !.resource_count = resource_count,
                        !.guards = Padded(@, guard_count, o.stray),
                        !.resources = Padded(IF o.guards = 0 THEN @ ELSE <<>>, resource_count, o.stray),
                        !.len = len - o.tenant_size - size - PDU_HEADER_LEN]
           pdu     == [refused.pdu EXCEPT !.pdu_size = AtLeastZero(@ - o.pdu_missing), !.body = body]
           auth    == [append_auth_tlv(key.value, tenant, pdu) EXCEPT !.tlv_size = size]
           x       == OddAnswerTo(w, server, o)
<1>1. Answers(refused, d, id, server, v)
  <2>1. v.trailing \in Int /\ v.short \in BOOLEAN
    OBVIOUS
  <2> HIDE DEF v
  <2> QED
    BY <2>1, AnswerFacts
<1>2. Sized(refused)
  BY <1>1, AnswerSized
<1>3. x = [tenant |-> tenant, auth |-> auth, pdu |-> pdu, len |-> len]
  <2> HIDE DEF w
  <2> QED
    BY DEF OddAnswerTo
<1> HIDE DEF refused, w
<1>4. /\ "tlv_size" \in DOMAIN refused.tenant /\ "pdu_size" \in DOMAIN refused.pdu
      /\ "body" \in DOMAIN refused.pdu
      /\ {"guard_count", "resource_count", "guards", "resources", "len"} \subseteq DOMAIN blocks
  BY <1>1, Zenon DEF Answers
<1>5. /\ o.tenant_size \in Nat /\ o.auth_delta \in Int /\ o.pdu_missing \in Int
      /\ o.guards \in Int /\ o.resources \in Int
      /\ o.from \in {"start", "pdu", "end"} /\ o.len \in Int
  BY NetworkAssumption
<1>6. \A n \in Int : AtLeastZero(n) \in Int
  BY DEF AtLeastZero
<1>7. size \in Int /\ start \in Int /\ len \in Int
  <2>1. size \in Int
    BY <1>5, AuthSize
  <2>2. refused.pdu.pdu_size \in Int
    BY <1>2 DEF Sized
  <2> HIDE DEF size
  <2>3. start \in Int
    BY <1>5, <2>1, <2>2
  <2> HIDE DEF start
  <2> QED
    BY <1>5, <1>6, <2>1, <2>3
<1>8. guard_count \in Int /\ resource_count \in Int
  BY <1>2, <1>5, <1>6 DEF Sized
<1>9. AtLeastZero(refused.pdu.pdu_size - o.pdu_missing) \in Int
  BY <1>2, <1>5, <1>6 DEF Sized
<1> HIDE DEF size, start, len, guard_count, resource_count
<1>10. tenant.tlv_size = o.tenant_size
  BY <1>4
<1>11. body.guard_count = guard_count /\ body.resource_count = resource_count
  BY <1>4
<1> HIDE DEF body
<1>12. pdu.pdu_size = AtLeastZero(refused.pdu.pdu_size - o.pdu_missing) /\ pdu.body = body
  BY <1>4
<1>13. auth.tlv_size = size
  BY DEF append_auth_tlv
<1> HIDE DEF tenant, pdu, auth, x
<1>14. x.tenant = tenant /\ x.auth = auth /\ x.pdu = pdu /\ x.len = len
       /\ DOMAIN x = {"tenant", "auth", "pdu", "len"}
  BY <1>3
<1>15. Sized(x)
  BY <1>5, <1>7, <1>8, <1>9, <1>10, <1>11, <1>12, <1>13, <1>14 DEF Sized
<1> QED
  BY <1>14, <1>15 DEF x, w

-----------------------------------------------------------------------------
(* Requests and reports, step by step                                      *)

\* A request that was sent is not empty and stays within the key's window.
Askable(d) ==
    /\ d.resources # <<>> \/ d.guards # <<>>
    /\ \A i \in DOMAIN d.resources :
          ~ExceedsWindow(d.resources[i].window_ms, key.value.limits.rate_window)

RequestInv ==
    /\ draft \in Draft /\ asked \in Seq(Draft)
    /\ \A i \in DOMAIN asked : Askable(asked[i])
    /\ inflight \in {0, Len(asked)}
    /\ reported \in Nat /\ WithinBounds(Len(asked), reported)

\* A new request is a draft.
LEMMA EmptyType == EmptyDraft \in Draft
<1>1. MAX_METRICS_LABEL_LEN \in Nat
  BY DEF MAX_METRICS_LABEL_LEN
<1> QED
  BY <1>1 DEF EmptyDraft, Draft

\* RequestInv holds at first.
LEMMA RequestInit == Init => RequestInv
<1> SUFFICES ASSUME Init PROVE RequestInv
  OBVIOUS
<1>1. draft = EmptyDraft /\ asked = <<>> /\ inflight = 0 /\ reported = 0
  BY Zenon DEF Init
<1> QED
  BY <1>1, EmptyType, InputAssumption DEF RequestInv, WithinBounds

\* The quota test of send covers every resource.
LEMMA WindowsFacts ==
    ASSUME NEW d, NEW rate_window, validate_rate_windows(d, rate_window).ok
    PROVE  \A i \in DOMAIN d.resources : ~ExceedsWindow(d.resources[i].window_ms, rate_window)
<1> DEFINE checks == <<Check(\A i \in DOMAIN d.resources :
                        ~ExceedsWindow(d.resources[i].window_ms, rate_window), "Protocol")>>
<1>1. 1 \in DOMAIN checks /\ (checks[1] = Pass => \A i \in DOMAIN d.resources :
                                 ~ExceedsWindow(d.resources[i].window_ms, rate_window))
  BY DEF Check, Pass
<1>2. validate_rate_windows(d, rate_window) = Outcome(checks, d)
  BY DEF validate_rate_windows
<1> HIDE DEF checks
<1> QED
  BY <1>1, <1>2, OutcomeOk

\* A builder method keeps RequestInv.
LEMMA RequestDraft ==
    ASSUME RequestInv, NEW next, next.ok => next.value \in Draft, Step(next)
    PROVE  RequestInv'
<1>1. draft' \in Draft
  BY EmptyType DEF Step
<1> QED
  BY <1>1 DEF Step, RequestInv, Askable, WithinBounds, setup, stats

\* RequestInv is kept by every step.
LEMMA RequestStep == SetupInv /\ RequestInv /\ [Next]_vars => RequestInv'
<1> SUFFICES ASSUME SetupInv, RequestInv, [Next]_vars PROVE RequestInv'
  OBVIOUS
<1>1. ASSUME UNCHANGED <<key, draft, asked, reported>>, inflight' \in {0, inflight} PROVE RequestInv'
  BY <1>1 DEF RequestInv, Askable, WithinBounds
<1>2. CASE Edit
  BY <1>1, <1>2 DEF Edit, stats
<1>3. CASE ParseKey
  <2>1. ~key.ok
    BY <1>3 DEF ParseKey, NoKey, Err
  <2>2. asked = <<>>
    BY <2>1 DEF SetupInv
  <2> QED
    BY <1>3, <2>2 DEF ParseKey, RequestInv, Askable, WithinBounds, stats
<1>4. CASE BuildClient
  BY <1>1, <1>4 DEF BuildClient, stats
<1>5. ASSUME NEW window \in Windows, NEW tokens \in Quantities, AddResource(window, tokens)
      PROVE  RequestInv'
  <2> DEFINE resource == Resource_new("bucket", window, 5)
             next == IF resource.ok THEN consume(draft, rateWindow, resource.value, tokens) ELSE resource
  <2>1. window \in Duration /\ tokens \in Nat /\ draft \in Draft
    BY InputAssumption DEF RequestInv
  <2>2. resource.ok => /\ resource.value.name = "bucket" /\ resource.value.rate_limit \in Nat
                       /\ resource.value.window_ms \in Nat
    <3>1. resource.ok => /\ resource.value.name = "bucket" /\ resource.value.rate_limit = 5
                         /\ resource.value.window_ms \in Nat
      BY <2>1, ResourceFacts, Zenon
    <3> HIDE DEF resource
    <3> QED
      BY <3>1
  <2>3. Step(next)
    BY <1>5 DEF AddResource
  <2> HIDE DEF resource
  <2>4. next.ok => next.value \in Draft
    BY <2>1, <2>2, ConsumeFacts
  <2> HIDE DEF next
  <2> QED
    BY <2>3, <2>4, RequestDraft
<1>6. ASSUME NEW args \in Trackers, NEW threshold \in Thresholds, AddGuard(args, threshold)
      PROVE  RequestInv'
  <2> DEFINE tracker == LatencyTracker_build(args)
             next == IF tracker.ok THEN guard(draft, tracker.value, threshold) ELSE tracker
  <2>1. threshold \in Duration /\ draft \in Draft
    BY InputAssumption DEF RequestInv
  <2>2. tracker.ok => tracker.value.tracker \in TrackerFields
    BY TrackerFacts
  <2>3. Step(next)
    BY <1>6 DEF AddGuard
  <2> HIDE DEF tracker
  <2>4. next.ok => next.value \in Draft
    BY <2>1, <2>2, GuardFacts
  <2> HIDE DEF next
  <2> QED
    BY <2>3, <2>4, RequestDraft
<1>7. ASSUME NEW n \in Labels, SetLabel(n) PROVE RequestInv'
  <2>1. n \in Nat /\ draft \in Draft
    BY InputAssumption DEF RequestInv
  <2>2. metrics_label(draft, n).ok => metrics_label(draft, n).value \in Draft
    BY <2>1, LabelFacts
  <2> QED
    BY <1>7, <2>2, RequestDraft DEF SetLabel
<1>8. ASSUME NEW resolves \in BOOLEAN, Send(resolves) PROVE RequestInv'
  <2>1. /\ draft' = EmptyDraft /\ UNCHANGED <<key, reported>>
        /\ WithinBounds(Len(asked) + 1, reported)
    BY <1>8 DEF Send, setup, stats
  <2>2. CASE UNCHANGED <<asked, inflight>>
    BY <2>1, <2>2, EmptyType DEF RequestInv, Askable, WithinBounds
  <2>3. CASE /\ asked' = Append(asked, draft) /\ inflight' = Len(asked')
             /\ validate_rate_windows(draft, rateWindow).ok
             /\ draft.resources # <<>> \/ draft.guards # <<>>
    <3>1. Askable(draft)
      BY <2>3, WindowsFacts DEF Askable, rateWindow
    <3>2. asked' \in Seq(Draft) /\ Len(asked') = Len(asked) + 1
          /\ \A i \in DOMAIN asked' : asked'[i] = draft \/ (i \in DOMAIN asked /\ asked'[i] = asked[i])
      BY <2>3 DEF RequestInv
    <3>3. \A d : Askable(d)' <=> Askable(d)
      BY <2>1 DEF Askable
    <3>4. \A i \in DOMAIN asked' : Askable(asked'[i])
      BY <3>1, <3>2 DEF RequestInv
    <3> QED
      BY <2>1, <2>3, <3>2, <3>3, <3>4, EmptyType DEF RequestInv, WithinBounds
  <2> QED
    BY <1>8, <2>2, <2>3 DEF Send
<1>9. ASSUME NEW error, GiveUp(error) PROVE RequestInv'
  BY <1>1, <1>9 DEF GiveUp, setup, stats
<1>10. ASSUME NEW w \in wire, NEW v \in Verdicts, Answer(w, v.server, v) PROVE RequestInv'
  BY <1>1, <1>10 DEF Answer, setup, stats
<1>11. ASSUME NEW d, Deliver(d) PROVE RequestInv'
  BY <1>1, <1>11 DEF Deliver, setup, stats
<1>12. CASE Receive
  BY <1>11, <1>12 DEF Receive
<1>13. ASSUME NEW args \in Trackers, NEW observed \in Thresholds, NEW resolves \in BOOLEAN,
             NEW fail \in SUBSET DOMAIN Targets, ReportLatency(args, observed, resolves, fail)
      PROVE  RequestInv'
  <2>1. /\ UNCHANGED <<key, draft, asked, inflight>> /\ WithinBounds(Len(asked), reported + 1)
        /\ reported' \in {reported, reported + 1}
    BY <1>13 DEF ReportLatency, setup, stats
  <2> QED
    BY <2>1 DEF RequestInv, Askable, WithinBounds
<1>14. CASE UNCHANGED vars
  BY <1>1, <1>14 DEF vars, setup, stats
<1> QED
  BY <1>2, <1>3, <1>4, <1>5, <1>6, <1>7, <1>8, <1>9, <1>10, <1>12, <1>13, <1>14 DEF Next

-----------------------------------------------------------------------------
(* What was sent                                                           *)

IsRequest(w) ==
    \E i \in DOMAIN asked :
        /\ LabelFits(w.pdu.body.label, asked[i].label_len)
        /\ w = DatagramOf(asked[i], i, w.pdu.body.label)
        /\ w.len <= 1200

IsReport(w) ==
    /\ DOMAIN w = {"tenant", "auth", "pdu", "len"} /\ w.pdu.pdu_type = "latency_report"
    /\ w.len <= 1200 /\ w.len = w.tenant.tlv_size + w.auth.tlv_size + w.pdu.pdu_size
    /\ w.pdu.pdu_size = 12 + 32 * w.pdu.body.count

WireInv == \A w \in wire : IsRequest(w) \/ IsReport(w)

\* A report's datagram is exact.
LEMMA ReportFacts ==
    ASSUME NEW r, key.value \in UsableKey
    PROVE  LET pdu   == build_pdu("latency_report", 0, build_latency_report_body(<<r>>))
               built == packet(key.value, build_tenant_header(key.value.key_id, 0), pdu.value)
           IN  built.ok => IsReport(built.value)
<1> DEFINE body   == build_latency_report_body(<<r>>)
           pdu    == build_pdu("latency_report", 0, body)
           tenant == build_tenant_header(key.value.key_id, 0)
           built  == packet(key.value, tenant, pdu.value)
<1>1. body.count = 1 /\ body.len = 36
  <2>1. Len(<<r>>) = 1 /\ u16(1) = 1
    BY CastExact
  <2> QED
    BY <2>1 DEF build_latency_report_body, SERVICE_LATENCY_BLOCK_WIRE_LEN
<1> HIDE DEF body
<1>2. pdu.value.pdu_type = "latency_report" /\ pdu.value.pdu_size = 44 /\ pdu.value.body = body
  <2> DEFINE checks == <<Check(PDU_HEADER_LEN + body.len <= U16Max, "Protocol")>>
             value  == [pdu_type |-> "latency_report", pdu_size |-> u16(PDU_HEADER_LEN + body.len),
                        dedup_ttl_ms |-> 0, body |-> body]
  <2>1. pdu = Outcome(checks, value)
    BY Zenon DEF build_pdu
  <2>2. PDU_HEADER_LEN + body.len = 44 /\ u16(44) = 44
    BY <1>1, CastExact DEF PDU_HEADER_LEN
  <2>3. DOMAIN checks = 1..1 /\ checks[1] = Pass
    BY <2>2 DEF Check, U16Max
  <2> HIDE DEF pdu, checks
  <2>4. pdu.value = value
    <3> HIDE DEF value
    <3>1. \A i \in DOMAIN checks : checks[i] = Pass
      BY <2>3
    <3> QED
      BY <2>1, <3>1, OutcomeOk
  <2> QED
    BY <2>2, <2>4
<1> HIDE DEF pdu
<1>3. PICK a \in Nat : auth_header_size(key.value) = a
  BY AuthSize
<1>4. ASSUME built.ok
      PROVE  /\ 40 + a + 44 <= 1200
             /\ built.value = [tenant |-> tenant, auth |-> append_auth_tlv(key.value, tenant, pdu.value),
                               pdu |-> pdu.value, len |-> 40 + a + 44]
  <2> DEFINE size   == TENANT_TLV_LEN + auth_header_size(key.value) + PDU_HEADER_LEN + pdu.value.body.len
             checks == <<Check(size <= MAX_PACKET_SIZE, "Protocol")>>
             value  == [tenant |-> tenant, auth |-> append_auth_tlv(key.value, tenant, pdu.value),
                        pdu |-> pdu.value, len |-> size]
  <2>1. built = Outcome(checks, value)
    BY Zenon DEF packet
  <2>2. size = 40 + a + 44
    BY <1>1, <1>2, <1>3 DEF TENANT_TLV_LEN, PDU_HEADER_LEN
  <2> HIDE DEF size, built
  <2>3. DOMAIN checks = 1..1 /\ (checks[1] = Pass => size <= 1200)
    BY DEF Check, Pass, MAX_PACKET_SIZE
  <2>4. built.value = value /\ checks[1] = Pass
    <3> HIDE DEF value, checks
    <3> QED
      BY <1>4, <2>1, <2>3, OutcomeOk
  <2> QED
    BY <2>2, <2>3, <2>4
<1>5. tenant.tlv_size = 40 /\ append_auth_tlv(key.value, tenant, pdu.value).tlv_size = a
  BY <1>3 DEF build_tenant_header, append_auth_tlv, TENANT_TLV_LEN
<1>6. built.ok => IsReport(built.value)
  <2> HIDE DEF built, tenant
  <2> QED
    BY <1>1, <1>2, <1>3, <1>4, <1>5 DEF IsReport
<1> QED
  BY <1>6 DEF pdu, body

\* What was sent remains what was asked.
LEMMA RequestKept ==
    ASSUME NEW w, IsRequest(w), UNCHANGED key, RequestInv,
           UNCHANGED asked \/ asked' = Append(asked, draft)
    PROVE  IsRequest(w)'
<1>1. PICK i \in DOMAIN asked : /\ LabelFits(w.pdu.body.label, asked[i].label_len)
                                /\ w = DatagramOf(asked[i], i, w.pdu.body.label)
                                /\ w.len <= 1200
  BY DEF IsRequest
<1>2. i \in DOMAIN asked' /\ asked'[i] = asked[i]
  BY DEF RequestInv
<1>3. \A d, l : DatagramOf(d, i, l)' = DatagramOf(d, i, l)
  BY DEF DatagramOf
<1> QED
  BY <1>1, <1>2, <1>3 DEF IsRequest

\* The step that asks appends a draft and its datagram.
LEMMA SendWire ==
    ASSUME SetupInv, RequestInv, NEW resolves, Send(resolves)
    PROVE  /\ UNCHANGED <<setup, net>>
           /\ \/ UNCHANGED <<asked, wire>>
              \/ /\ asked' = Append(asked, draft)
                 /\ \E x : wire' = wire \cup {x} /\ IsRequest(x)'
<1> DEFINE built == RequestPacket(draft, Len(asked) + 1)
<1>1. UNCHANGED <<setup, net>> /\ key.value \in UsableKey /\ draft \in Draft /\ asked \in Seq(Draft)
  BY DEF Send, SetupInv, RequestInv
<1>2. \/ UNCHANGED <<asked, wire>>
      \/ built.ok /\ asked' = Append(asked, draft) /\ wire' = wire \cup {built.value}
  BY DEF Send
<1> HIDE DEF built
<1>3. CASE built.ok /\ asked' = Append(asked, draft) /\ wire' = wire \cup {built.value}
  <2> DEFINE x == built.value
             i == Len(asked) + 1
             l == x.pdu.body.label
  <2>1. x = DatagramOf(draft, i, l) /\ LabelFits(l, draft.label_len) /\ x.len <= 1200
    BY <1>1, <1>3, PacketFacts DEF built
  <2>2. i \in DOMAIN asked' /\ asked'[i] = draft /\ key' = key
    BY <1>1, <1>3 DEF setup
  <2>3. \A d, j, m : DatagramOf(d, j, m)' = DatagramOf(d, j, m)
    BY <2>2 DEF DatagramOf
  <2>4. PICK y : y = x
    OBVIOUS
  <2> HIDE DEF x, i
  <2>5. IsRequest(y)'
    BY <2>1, <2>2, <2>3, <2>4 DEF IsRequest
  <2>6. wire' = wire \cup {y}
    BY <1>3, <2>4 DEF x
  <2> QED
    BY <1>1, <1>3, <2>5, <2>6
<1> QED
  BY <1>1, <1>2, <1>3

\* WireInv is kept by every step.
LEMMA WireStep == SetupInv /\ RequestInv /\ WireInv /\ [Next]_vars => WireInv'
<1> SUFFICES ASSUME SetupInv, RequestInv, WireInv, [Next]_vars PROVE WireInv'
  OBVIOUS
<1>0. \A w : IsReport(w)' <=> IsReport(w)
  BY DEF IsReport
<1>1. ASSUME UNCHANGED <<key, asked, wire>> PROVE WireInv'
  BY <1>0, <1>1, RequestKept DEF WireInv
<1>2. CASE Edit
  BY <1>1, <1>2 DEF Edit
<1>3. CASE ParseKey
  <2>1. ~key.ok
    BY <1>3 DEF ParseKey, NoKey, Err
  <2>2. wire = {}
    BY <2>1 DEF SetupInv
  <2> QED
    BY <1>3, <2>2 DEF ParseKey, WireInv
<1>4. CASE BuildClient
  BY <1>1, <1>4 DEF BuildClient
<1>5. ASSUME NEW next, Step(next) PROVE WireInv'
  BY <1>1, <1>5 DEF Step, setup
<1>6. CASE \E window \in Windows, tokens \in Quantities : AddResource(window, tokens)
  BY <1>5, <1>6 DEF AddResource
<1>7. CASE \E args \in Trackers, threshold \in Thresholds : AddGuard(args, threshold)
  BY <1>5, <1>7 DEF AddGuard
<1>8. CASE \E n \in Labels : SetLabel(n)
  BY <1>5, <1>8 DEF SetLabel
<1>9. ASSUME NEW resolves \in BOOLEAN, Send(resolves) PROVE WireInv'
  <2>1. key' = key
    BY <1>9, SendWire DEF setup
  <2>2. CASE UNCHANGED <<asked, wire>>
    BY <1>1, <2>1, <2>2
  <2>3. CASE asked' = Append(asked, draft) /\ \E x : wire' = wire \cup {x} /\ IsRequest(x)'
    <3>1. PICK x : wire' = wire \cup {x} /\ IsRequest(x)'
      BY <2>3
    <3>2. ASSUME NEW w \in wire' PROVE IsRequest(w)' \/ IsReport(w)'
      BY <1>0, <2>1, <2>3, <3>1, RequestKept DEF WireInv
    <3> QED
      BY <3>2 DEF WireInv
  <2> QED
    BY <1>9, <2>2, <2>3, SendWire
<1>10. ASSUME NEW error, GiveUp(error) PROVE WireInv'
  BY <1>1, <1>10 DEF GiveUp, setup
<1>11. ASSUME NEW w \in wire, NEW v \in Verdicts, Answer(w, v.server, v) PROVE WireInv'
  BY <1>1, <1>11 DEF Answer, setup
<1>12. ASSUME NEW d, Deliver(d) PROVE WireInv'
  BY <1>1, <1>12 DEF Deliver, setup
<1>13. CASE Receive
  BY <1>12, <1>13 DEF Receive
<1>14. ASSUME NEW args \in Trackers, NEW observed \in Thresholds, NEW resolves \in BOOLEAN,
             NEW fail \in SUBSET DOMAIN Targets, ReportLatency(args, observed, resolves, fail)
      PROVE  WireInv'
  <2> DEFINE r == [tracker |-> LatencyTracker_build(args).value.tracker,
                   observed_latency |-> duration_to_u32_ms(observed).value]
             pdu == build_pdu("latency_report", 0, build_latency_report_body(<<r>>))
             built == packet(key.value, build_tenant_header(key.value.key_id, 0), pdu.value)
  <2>1. /\ UNCHANGED <<key, asked>> /\ ready
        /\ \/ UNCHANGED wire
           \/ built.ok /\ wire' = wire \cup {built.value}
    BY <1>14 DEF ReportLatency, setup, stats
  <2>2. built.ok => IsReport(built.value)
    BY <2>1, ReportFacts DEF SetupInv
  <2>3. PICK x : x = built.value
    OBVIOUS
  <2> HIDE DEF built
  <2>4. CASE built.ok /\ wire' = wire \cup {x}
    <3>1. ASSUME NEW w \in wire' PROVE IsRequest(w)' \/ IsReport(w)'
      BY <1>0, <2>1, <2>2, <2>3, <2>4, RequestKept DEF WireInv
    <3> QED
      BY <3>1 DEF WireInv
  <2> QED
    BY <1>1, <2>1, <2>3, <2>4
<1>15. CASE UNCHANGED vars
  BY <1>1, <1>15 DEF vars, setup
<1> QED
  BY <1>2, <1>3, <1>4, <1>6, <1>7, <1>8, <1>9, <1>10, <1>11, <1>13, <1>14, <1>15 DEF Next

-----------------------------------------------------------------------------
(* What is answered                                                        *)

IsAnswer(a) == \E i \in DOMAIN asked, v \in Verdicts : Answers(a, asked[i], i, v.server, v)

NetInv == \A a \in net : IsAnswer(a)

\* What was answered remains what was asked.
LEMMA AnswerKept ==
    ASSUME NEW a, IsAnswer(a), UNCHANGED key, RequestInv,
           UNCHANGED asked \/ asked' = Append(asked, draft)
    PROVE  IsAnswer(a)'
<1>1. PICK i \in DOMAIN asked, v \in Verdicts : Answers(a, asked[i], i, v.server, v)
  BY DEF IsAnswer
<1>2. i \in DOMAIN asked' /\ asked'[i] = asked[i]
  BY DEF RequestInv
<1>3. \A d, s : Answers(a, d, i, s, v)' <=> Answers(a, d, i, s, v)
  BY DEF Answers
<1> QED
  BY <1>1, <1>2, <1>3 DEF IsAnswer

\* The fields of a verdict
LEMMA VerdictFacts ==
    ASSUME NEW v \in Verdicts
    PROVE  /\ v.server \in ServerIds /\ v.tenant_size \in Nat \ (0..39) /\ v.trailing \in Nat
           /\ v.short \in BOOLEAN
<1>1. v \in [server : ServerIds, tenant_size : Nat \ (0..39), keep : BOOLEAN, latency : Nat,
              short : BOOLEAN, trailing : Nat]
  BY NetworkAssumption
<1>2. v.server \in ServerIds /\ v.tenant_size \in Nat \ (0..39) /\ v.trailing \in Nat
  BY <1>1
<1>3. v.short \in BOOLEAN
  BY <1>1, Zenon
<1> QED
  BY <1>2, <1>3

\* A conforming server answers what was asked.
LEMMA AnswerNet ==
    ASSUME RequestInv, WireInv, NEW w \in wire, NEW v \in Verdicts, w.pdu.pdu_type = "rate_request"
    PROVE  IsAnswer(AnswerTo(w, v.server, v))
<1>1. IsRequest(w)
  BY DEF WireInv, IsReport
<1>2. PICK i \in DOMAIN asked : /\ LabelFits(w.pdu.body.label, asked[i].label_len)
                                /\ w = DatagramOf(asked[i], i, w.pdu.body.label)
  BY <1>1 DEF IsRequest
<1>3. v.trailing \in Int /\ v.short \in BOOLEAN
  BY VerdictFacts
<1>4. asked[i] \in Draft
  BY DEF RequestInv
<1>5. Answers(AnswerTo(w, v.server, v), asked[i], i, v.server, v)
  BY <1>2, <1>3, <1>4, AnswerFacts
<1> QED
  BY <1>5 DEF IsAnswer

\* NetInv is kept by every step.
LEMMA NetStep == SetupInv /\ RequestInv /\ WireInv /\ NetInv /\ [Next]_vars => NetInv'
<1> SUFFICES ASSUME SetupInv, RequestInv, WireInv, NetInv, [Next]_vars PROVE NetInv'
  OBVIOUS
<1>1. ASSUME UNCHANGED <<key, net>>, UNCHANGED asked \/ asked' = Append(asked, draft) PROVE NetInv'
  BY <1>1, AnswerKept DEF NetInv
<1>2. CASE Edit
  BY <1>1, <1>2 DEF Edit
<1>3. CASE ParseKey
  <2>1. ~key.ok
    BY <1>3 DEF ParseKey, NoKey, Err
  <2>2. net = {}
    BY <2>1 DEF SetupInv
  <2> QED
    BY <1>3, <2>2 DEF ParseKey, NetInv
<1>4. CASE BuildClient
  BY <1>1, <1>4 DEF BuildClient
<1>5. ASSUME NEW next, Step(next) PROVE NetInv'
  BY <1>1, <1>5 DEF Step, setup
<1>6. CASE \E window \in Windows, tokens \in Quantities : AddResource(window, tokens)
  BY <1>5, <1>6 DEF AddResource
<1>7. CASE \E args \in Trackers, threshold \in Thresholds : AddGuard(args, threshold)
  BY <1>5, <1>7 DEF AddGuard
<1>8. CASE \E n \in Labels : SetLabel(n)
  BY <1>5, <1>8 DEF SetLabel
<1>9. ASSUME NEW resolves \in BOOLEAN, Send(resolves) PROVE NetInv'
  BY <1>1, <1>9, SendWire DEF setup
<1>10. ASSUME NEW error, GiveUp(error) PROVE NetInv'
  BY <1>1, <1>10 DEF GiveUp, setup
<1>11. ASSUME NEW w \in wire, NEW v \in Verdicts, Answer(w, v.server, v) PROVE NetInv'
  <2>1. PICK x : x = AnswerTo(w, v.server, v)
    OBVIOUS
  <2>2. UNCHANGED <<key, asked>> /\ net' = net \cup {x} /\ w.pdu.pdu_type = "rate_request"
    BY <1>11, <2>1 DEF Answer, setup
  <2>3. IsAnswer(x)
    BY <2>1, <2>2, AnswerNet
  <2>4. ASSUME NEW a \in net' PROVE IsAnswer(a)'
    BY <2>2, <2>3, AnswerKept DEF NetInv
  <2> QED
    BY <2>4 DEF NetInv
<1>12. ASSUME NEW d, Deliver(d) PROVE NetInv'
  BY <1>1, <1>12 DEF Deliver, setup
<1>13. CASE Receive
  BY <1>12, <1>13 DEF Receive
<1>14. ASSUME NEW args \in Trackers, NEW observed \in Thresholds, NEW resolves \in BOOLEAN,
             NEW fail \in SUBSET DOMAIN Targets, ReportLatency(args, observed, resolves, fail)
      PROVE  NetInv'
  BY <1>1, <1>14 DEF ReportLatency, setup
<1>15. CASE UNCHANGED vars
  BY <1>1, <1>15 DEF vars, setup
<1> QED
  BY <1>2, <1>3, <1>4, <1>6, <1>7, <1>8, <1>9, <1>10, <1>11, <1>13, <1>14, <1>15 DEF Next

-----------------------------------------------------------------------------
(* What is delivered                                                       *)

\* The router's buffer changes nothing but the length.
LEMMA ReceivedFacts ==
    ASSUME NEW d, Sized(d), DOMAIN d = {"tenant", "auth", "pdu", "len"}
    PROVE  /\ Sized(Received(d))
           /\ Received(d).tenant = d.tenant /\ Received(d).auth = d.auth /\ Received(d).pdu = d.pdu
<1>1. RecvBuf \in Nat
  BY NetworkAssumption
<1>2. /\ Received(d).tenant = d.tenant /\ Received(d).auth = d.auth /\ Received(d).pdu = d.pdu
      /\ Received(d).len = IF d.len > RecvBuf THEN RecvBuf ELSE d.len
  BY DEF Received
<1> QED
  BY <1>1, <1>2 DEF Sized

\* What the router does with a datagram: it never panics, and what it hands on is
\* a decision of the blocks, for the request in flight.
LEMMA DeliverFacts ==
    ASSUME NEW d, Sized(d), DOMAIN d = {"tenant", "auth", "pdu", "len"}, panicked \in BOOLEAN, Deliver(d)
    PROVE  /\ panicked' = panicked
           /\ \/ UNCHANGED result
              \/ /\ d.tenant.unique_id = inflight /\ Allowed(d.tenant.key_id)
                 /\ AllThere(Received(d), d.tenant.tlv_size + d.auth.tlv_size)
                 /\ result' = [kind |-> "response", id |-> inflight, response |->
                       Response(RateLimitResult(Received(d), d.pdu.body.guard_count, d.pdu.body.resource_count)),
                       from |-> d]
<1> DEFINE r  == Received(d)
           id == peek_request_id(r)
           answer == Accept(r)
<1>1. Sized(r) /\ r.tenant = d.tenant /\ r.auth = d.auth /\ r.pdu = d.pdu
  BY ReceivedFacts
<1> HIDE DEF r
<1>2. /\ Safe(id) /\ Safe(answer) /\ (id.ok => id.value = d.tenant.unique_id)
      /\ answer.ok => /\ answer.value = RateLimitResult(r, d.pdu.body.guard_count, d.pdu.body.resource_count)
                      /\ Allowed(d.tenant.key_id) /\ AllThere(r, d.tenant.tlv_size + d.auth.tlv_size)
  BY <1>1, ReaderFacts
<1>3. /\ panicked' = \/ panicked
                     \/ ~id.ok /\ id.error = "panic"
                     \/ (id.ok /\ id.value = inflight) /\ ~answer.ok /\ answer.error = "panic"
      /\ result' = IF (id.ok /\ id.value = inflight) /\ answer.ok
                   THEN [kind |-> "response", id |-> inflight, response |-> Response(answer.value), from |-> d]
                   ELSE result
  BY DEF Deliver, r
<1> HIDE DEF id, answer
<1>4. panicked' = panicked
  BY <1>2, <1>3 DEF Safe
<1>5. CASE id.ok /\ id.value = inflight /\ answer.ok
  BY <1>2, <1>3, <1>4, <1>5 DEF r
<1> QED
  BY <1>3, <1>4, <1>5

\* The router reads answers to what was asked, or odd ones.
LEMMA ReceiveFacts ==
    ASSUME SetupInv, RequestInv, WireInv, NetInv, Receive
    PROVE  \E d : Deliver(d) /\ Sized(d) /\ DOMAIN d = {"tenant", "auth", "pdu", "len"}
<1>1. inflight # 0 /\ key.value \in UsableKey
  BY DEF Receive, Deliver, SetupInv
<1>2. ASSUME NEW a \in net, Deliver(a)
      PROVE  Sized(a) /\ DOMAIN a = {"tenant", "auth", "pdu", "len"}
  <2>1. PICK i \in DOMAIN asked, v \in Verdicts : Answers(a, asked[i], i, v.server, v)
    BY DEF NetInv, IsAnswer
  <2>2. asked[i] \in Draft /\ v.tenant_size \in Int /\ v.trailing \in Int
    BY VerdictFacts DEF RequestInv
  <2>3. Sized(a)
    BY <1>1, <2>1, <2>2, AnswerSized
  <2>4. DOMAIN a = {"tenant", "auth", "pdu", "len"}
    BY <2>1, Zenon DEF Answers
  <2> QED
    BY <2>3, <2>4
<1>3. ASSUME NEW w \in wire, NEW o \in OddShapes, w.pdu.pdu_type = "rate_request"
      PROVE  LET x == OddAnswerTo(w, o.server, o)
             IN  Sized(x) /\ DOMAIN x = {"tenant", "auth", "pdu", "len"}
  <2>1. IsRequest(w)
    BY <1>3 DEF WireInv, IsReport
  <2>2. PICK i \in DOMAIN asked : /\ LabelFits(w.pdu.body.label, asked[i].label_len)
                                  /\ w = DatagramOf(asked[i], i, w.pdu.body.label)
    BY <2>1 DEF IsRequest
  <2>3. asked[i] \in Draft
    BY DEF RequestInv
  <2> QED
    BY <1>1, <2>2, <2>3, OddFacts
<1>4. CASE \E a \in net : Deliver(a)
  BY <1>2, <1>4
<1>5. CASE \E w \in wire, o \in OddShapes :
             w.pdu.pdu_type = "rate_request" /\ Deliver(OddAnswerTo(w, o.server, o))
  BY <1>3, <1>5
<1> QED
  BY <1>4, <1>5 DEF Receive

\* The results of a response are those of the blocks that a datagram declares.
ReadFrom(res, d) ==
    /\ DOMAIN res.guard_results = 1..d.pdu.body.guard_count
    /\ DOMAIN res.resource_results = 1..d.pdu.body.resource_count
    /\ \A j \in 1..d.pdu.body.resource_count :
          res.resource_results[j].bucket_id = d.pdu.body.resources[j].bucket_id

\* What is read from a conforming answer has a result for all that was asked.
LEMMA AnswerComplete ==
    ASSUME RequestInv, NetInv, NEW d \in net, d.tenant.unique_id = Len(asked), NEW res, ReadFrom(res, d)
    PROVE  LET last == asked[Len(asked)]
           IN  /\ Len(res.guard_results) = Len(last.guards)
               /\ [j \in DOMAIN last.resources |-> last.resources[j].window_ms]
                    = [j \in DOMAIN res.resource_results |-> res.resource_results[j].bucket_id[3][1]]
<1> DEFINE last == asked[Len(asked)]
<1>1. PICK i \in DOMAIN asked, v \in Verdicts : Answers(d, asked[i], i, v.server, v)
  BY DEF NetInv, IsAnswer
<1>2. /\ d.tenant.unique_id = i
      /\ d.pdu.body.guard_count = Len(asked[i].guards)
      /\ d.pdu.body.resource_count = Len(asked[i].resources)
      /\ \A j \in DOMAIN asked[i].resources : d.pdu.body.resources[j].bucket_id =
           derive_bucket_id(asked[i].resources[j].name, asked[i].resources[j].window_ms,
                            asked[i].resources[j].rate_limit)
  BY <1>1, Zenon DEF Answers
<1>3. i = Len(asked)
  BY <1>2
<1>4. last \in Draft
  BY <1>3 DEF RequestInv
<1>5. /\ d.pdu.body.guard_count = Len(last.guards)
      /\ d.pdu.body.resource_count = Len(last.resources)
      /\ \A j \in DOMAIN last.resources : d.pdu.body.resources[j].bucket_id =
           derive_bucket_id(last.resources[j].name, last.resources[j].window_ms,
                            last.resources[j].rate_limit)
  BY <1>2, <1>3
<1> HIDE DEF last
<1>6. last.guards \in Seq(Threshold) /\ last.resources \in Seq(Consumption)
  BY <1>4 DEF Draft
<1>7. PICK g \in Nat, n \in Nat : /\ g = Len(last.guards) /\ DOMAIN last.guards = 1..g
                                  /\ n = Len(last.resources) /\ DOMAIN last.resources = 1..n
  BY <1>6
<1>8. Len(res.guard_results) = Len(last.guards)
  BY <1>5, <1>7 DEF ReadFrom
<1>9. DOMAIN res.resource_results = DOMAIN last.resources
  BY <1>5, <1>7 DEF ReadFrom
<1>10. ASSUME NEW j \in DOMAIN last.resources
       PROVE  res.resource_results[j].bucket_id[3][1] = last.resources[j].window_ms
  <2>1. res.resource_results[j].bucket_id =
          derive_bucket_id(last.resources[j].name, last.resources[j].window_ms,
                           last.resources[j].rate_limit)
    BY <1>5, <1>7 DEF ReadFrom
  <2> QED
    BY <2>1 DEF derive_bucket_id, derive_content_id
<1> QED
  BY <1>8, <1>9, <1>10 DEF last

\* The response comes from this datagram, which grants the request that has this id.
GrantedBy(res, a, id) ==
    LET b == a.pdu.body
    IN  /\ a.tenant.unique_id = id /\ Allowed(a.tenant.key_id)
        /\ res.selected_server_id = <<a.tenant.key_id>> \/ a.tenant.key_id = 0
        /\ Grants(a, 1..b.guard_count, 1..b.resource_count)
        /\ 12 + 36 * b.guard_count + 28 * b.resource_count <= a.pdu.pdu_size
        /\ a.tenant.tlv_size + a.auth.tlv_size + a.pdu.pdu_size <= Received(a).len
        /\ ReadFrom(res, a)

\* GrantIsServers is not inductive by itself: an answer may be sent after an odd
\* datagram like it was read. That the results are those of the datagram is.
GrantInv == Granted => GrantedBy(result.response, result.from, Len(asked))

\* The invariant is strong enough.
LEMMA GrantSuffices ==
    ASSUME RequestInv, NetInv, GrantInv
    PROVE  GrantIsServers
<1>1. SUFFICES ASSUME Granted PROVE GrantIsServers
  BY Zenon DEF GrantIsServers
<1> DEFINE a == result.from
           res == result.response
<1>2. GrantedBy(res, a, Len(asked))
  BY <1>1, Zenon DEF GrantInv
<1>3. ReadFrom(res, a) /\ a.tenant.unique_id = Len(asked)
  BY <1>2, Zenon DEF GrantedBy
<1> DEFINE last == asked[Len(asked)]
<1>4. a \in net => /\ Len(res.guard_results) = Len(last.guards)
                   /\ [j \in DOMAIN last.resources |-> last.resources[j].window_ms]
                        = [j \in DOMAIN res.resource_results |-> res.resource_results[j].bucket_id[3][1]]
  <2> HIDE DEF a, res
  <2> QED
    BY <1>3, AnswerComplete
<1> QED
  BY <1>2, <1>4, Zenon DEF GrantIsServers, GrantedBy

\* A grant that is handed on is the server's.
LEMMA DeliverGrant ==
    ASSUME RequestInv, GrantInv, panicked \in BOOLEAN,
           NEW d, Deliver(d), Sized(d), DOMAIN d = {"tenant", "auth", "pdu", "len"}
    PROVE  GrantInv'
<1>1. UNCHANGED asked /\ inflight # 0
  BY DEF Deliver
<1>2. CASE UNCHANGED result
  BY <1>1, <1>2 DEF GrantInv, Granted, GrantedBy, ReadFrom, Grants, Allowed, Received
<1> DEFINE r   == Received(d)
           b   == d.pdu.body
           res == RateLimitResult(r, b.guard_count, b.resource_count)
<1>3. CASE /\ d.tenant.unique_id = inflight /\ Allowed(d.tenant.key_id)
           /\ AllThere(r, d.tenant.tlv_size + d.auth.tlv_size)
           /\ result' = [kind |-> "response", id |-> inflight, response |-> Response(res), from |-> d]
  <2>1. r.tenant = d.tenant /\ r.auth = d.auth /\ r.pdu = d.pdu
    BY ReceivedFacts
  <2>2. /\ res.success = Grants(r, 1..b.guard_count, 1..b.resource_count)
        /\ res.server_id = r.tenant.key_id
        /\ DOMAIN res.guard_results = 1..b.guard_count
        /\ DOMAIN res.resource_results = 1..b.resource_count
        /\ \A i \in 1..b.resource_count :
              res.resource_results[i].bucket_id = r.pdu.body.resources[i].bucket_id
    <3> HIDE DEF r
    <3>1. Decides(res, r, b.guard_count, b.resource_count)
      BY DecisionExact
    <3> HIDE DEF res
    <3> QED
      BY <3>1, Zenon DEF Decides
  <2> HIDE DEF res
  <2>3. result'.response = Response(res) /\ result'.from = d
    BY <1>3
  <2>4. Response(res).decision = (IF res.success THEN "granted" ELSE "rejected")
    BY Zenon DEF Response
  <2>5. /\ Response(res).resource_results = res.resource_results
        /\ Response(res).guard_results = res.guard_results
        /\ Response(res).selected_server_id = IF res.server_id = 0 THEN <<>> ELSE <<res.server_id>>
    BY Zenon DEF Response
  <2>6. d.tenant.unique_id = Len(asked)
    BY <1>1, <1>3 DEF RequestInv
  <2>7. /\ 12 + 36 * b.guard_count + 28 * b.resource_count <= d.pdu.pdu_size
        /\ d.tenant.tlv_size + d.auth.tlv_size + d.pdu.pdu_size <= r.len
    BY <1>3, <2>1 DEF AllThere
  <2>8. ReadFrom(Response(res), d)
    BY <2>1, <2>2, <2>5 DEF ReadFrom
  <2>9. Grants(r, 1..b.guard_count, 1..b.resource_count) => Grants(d, 1..b.guard_count, 1..b.resource_count)
    BY <2>1 DEF Grants
  <2>10. Response(res).selected_server_id = <<d.tenant.key_id>> \/ d.tenant.key_id = 0
    BY <2>1, <2>2, <2>5
  <2>11. Granted' => res.success
    BY <2>3, <2>4 DEF Granted
  <2>12. res.success => GrantedBy(Response(res), d, Len(asked))
    BY <1>3, <2>2, <2>6, <2>7, <2>8, <2>9, <2>10, Zenon DEF GrantedBy
  <2>13. \A x, y, z : GrantedBy(x, y, z)' <=> GrantedBy(x, y, z)
    BY DEF GrantedBy, ReadFrom, Grants, Allowed, Received
  <2>14. GrantInv' <=> (Granted' => GrantedBy(Response(res), d, Len(asked)))
    BY <1>1, <2>3 DEF GrantInv, GrantedBy, ReadFrom, Grants, Allowed, Received
  <2> QED
    BY <2>11, <2>12, <2>14, Zenon
<1> QED
  BY <1>2, <1>3, DeliverFacts

\* GrantInv is kept by every step.
LEMMA GrantStep ==
    ASSUME SetupInv, RequestInv, WireInv, NetInv, panicked \in BOOLEAN, GrantInv, [Next]_vars
    PROVE  GrantInv'
<1>1. ASSUME UNCHANGED <<asked, result>> PROVE GrantInv'
  BY <1>1 DEF GrantInv, Granted, GrantedBy, ReadFrom, Grants, Allowed, Received
<1>2. ASSUME result'.kind # "response" \/ result'.id = 0 PROVE GrantInv'
  BY <1>2 DEF GrantInv, Granted
<1>3. \A error : Failed(error).kind = "error"
  BY DEF Failed
<1>4. Idle.kind = "idle"
  BY DEF Idle
<1>5. CASE Edit
  BY <1>1, <1>5 DEF Edit
<1>6. CASE ParseKey
  BY <1>1, <1>6 DEF ParseKey
<1>7. CASE BuildClient
  <2>1. UNCHANGED asked /\ (UNCHANGED result \/ \E error : result' = Failed(error))
    BY <1>7 DEF BuildClient
  <2> QED
    BY <1>1, <1>2, <1>3, <2>1
<1>8. ASSUME NEW next, Step(next) PROVE GrantInv'
  <2>1. result' = Idle \/ \E error : result' = Failed(error)
    BY <1>8 DEF Step
  <2> QED
    BY <1>2, <1>3, <1>4, <2>1
<1>9. CASE \E window \in Windows, tokens \in Quantities : AddResource(window, tokens)
  BY <1>8, <1>9 DEF AddResource
<1>10. CASE \E args \in Trackers, threshold \in Thresholds : AddGuard(args, threshold)
  BY <1>8, <1>10 DEF AddGuard
<1>11. CASE \E n \in Labels : SetLabel(n)
  BY <1>8, <1>11 DEF SetLabel
<1>12. ASSUME NEW resolves \in BOOLEAN, Send(resolves) PROVE GrantInv'
  <2>1. \/ result' = Idle \/ \E error : result' = Failed(error)
        \/ result'.id = 0
    BY <1>12 DEF Send
  <2> QED
    BY <1>2, <1>3, <1>4, <2>1
<1>13. ASSUME NEW error, GiveUp(error) PROVE GrantInv'
  BY <1>2, <1>3, <1>13 DEF GiveUp
<1>14. ASSUME NEW w \in wire, NEW v \in Verdicts, Answer(w, v.server, v) PROVE GrantInv'
  BY <1>1, <1>14 DEF Answer
<1>15. CASE Receive
  BY <1>15, ReceiveFacts, DeliverGrant
<1>16. ASSUME NEW args \in Trackers, NEW observed \in Thresholds, NEW resolves \in BOOLEAN,
             NEW fail \in SUBSET DOMAIN Targets, ReportLatency(args, observed, resolves, fail)
      PROVE  GrantInv'
  <2>1. result' = Idle \/ \E error : result' = Failed(error)
    BY <1>16 DEF ReportLatency
  <2> QED
    BY <1>2, <1>3, <1>4, <2>1
<1>17. CASE UNCHANGED vars
  BY <1>1, <1>17 DEF vars
<1> QED
  BY <1>5, <1>6, <1>7, <1>9, <1>10, <1>11, <1>12, <1>13, <1>14, <1>15, <1>16, <1>17 DEF Next

-----------------------------------------------------------------------------
(* Results and reports                                                     *)

ResultInv == ~panicked /\ panicked \in BOOLEAN /\ result.kind \in {"idle", "error", "response"}

CountInv ==
    /\ got \in [ServerIds -> Nat] /\ failures \in [ServerIds -> Nat]
    /\ ReportsAccounted

\* ResultInv is kept by every step.
LEMMA ResultStep ==
    ASSUME SetupInv, RequestInv, WireInv, NetInv, ResultInv, [Next]_vars
    PROVE  ResultInv'
<1>1. ASSUME UNCHANGED panicked, result'.kind \in {"idle", "error", "response"} PROVE ResultInv'
  BY <1>1 DEF ResultInv
<1>2. ASSUME UNCHANGED <<panicked, result>> PROVE ResultInv'
  BY <1>2 DEF ResultInv
<1>3. \A error : Failed(error).kind = "error"
  BY DEF Failed
<1>4. Idle.kind = "idle"
  BY DEF Idle
<1>5. CASE Edit
  BY <1>2, <1>5 DEF Edit
<1>6. CASE ParseKey
  BY <1>2, <1>6 DEF ParseKey
<1>7. CASE BuildClient
  <2>1. UNCHANGED panicked /\ (UNCHANGED result \/ \E error : result' = Failed(error))
    BY <1>7 DEF BuildClient
  <2> QED
    BY <1>1, <1>2, <1>3, <2>1
<1>8. ASSUME NEW next, Step(next) PROVE ResultInv'
  <2>1. UNCHANGED panicked /\ (result' = Idle \/ \E error : result' = Failed(error))
    BY <1>8 DEF Step
  <2> QED
    BY <1>1, <1>3, <1>4, <2>1
<1>9. CASE \E window \in Windows, tokens \in Quantities : AddResource(window, tokens)
  BY <1>8, <1>9 DEF AddResource
<1>10. CASE \E args \in Trackers, threshold \in Thresholds : AddGuard(args, threshold)
  BY <1>8, <1>10 DEF AddGuard
<1>11. CASE \E n \in Labels : SetLabel(n)
  BY <1>8, <1>11 DEF SetLabel
<1>12. ASSUME NEW resolves \in BOOLEAN, Send(resolves) PROVE ResultInv'
  <2>1. /\ UNCHANGED panicked
        /\ \/ result' = Idle \/ \E error : result' = Failed(error)
           \/ result'.kind = "response"
    BY <1>12 DEF Send
  <2> QED
    BY <1>1, <1>3, <1>4, <2>1
<1>13. ASSUME NEW error, GiveUp(error) PROVE ResultInv'
  BY <1>1, <1>3, <1>13 DEF GiveUp
<1>14. ASSUME NEW w \in wire, NEW v \in Verdicts, Answer(w, v.server, v) PROVE ResultInv'
  BY <1>2, <1>14 DEF Answer
<1>15. CASE Receive
  <2>1. PICK d : Deliver(d) /\ Sized(d) /\ DOMAIN d = {"tenant", "auth", "pdu", "len"}
    BY <1>15, ReceiveFacts
  <2>2. UNCHANGED panicked /\ (UNCHANGED result \/ result'.kind = "response")
    BY <2>1, DeliverFacts DEF ResultInv
  <2> QED
    BY <1>1, <1>2, <2>2
<1>16. ASSUME NEW args \in Trackers, NEW observed \in Thresholds, NEW resolves \in BOOLEAN,
             NEW fail \in SUBSET DOMAIN Targets, ReportLatency(args, observed, resolves, fail)
      PROVE  ResultInv'
  <2>1. UNCHANGED panicked /\ (result' = Idle \/ \E error : result' = Failed(error))
    BY <1>16 DEF ReportLatency
  <2> QED
    BY <1>1, <1>3, <1>4, <2>1
<1>17. CASE UNCHANGED vars
  BY <1>2, <1>17 DEF vars
<1> QED
  BY <1>5, <1>6, <1>7, <1>9, <1>10, <1>11, <1>12, <1>13, <1>14, <1>15, <1>16, <1>17 DEF Next

\* The targets of a server: those in set and the others
At(set, s) == {i \in set : TargetId(i) = s}

\* Each copy of a report is among those that failed or those that did not.
LEMMA CopiesSplit ==
    ASSUME NEW s, NEW fail \in SUBSET DOMAIN Targets
    PROVE  /\ Cardinality(At(DOMAIN Targets, s)) \in Nat /\ Cardinality(At(fail, s)) \in Nat
           /\ Cardinality(At(DOMAIN Targets \ fail, s)) \in Nat
           /\ Cardinality(At(DOMAIN Targets, s)) =
                Cardinality(At(DOMAIN Targets \ fail, s)) + Cardinality(At(fail, s))
<1> DEFINE all  == At(DOMAIN Targets, s)
           bad  == At(fail, s)
           good == At(DOMAIN Targets \ fail, s)
<1>1. IsFiniteSet(DOMAIN Targets)
  <2>1. PICK n \in Nat : DOMAIN Targets = 1..n
    BY NetworkAssumption
  <2> QED
    BY <2>1, FS_Interval
<1>2. all \subseteq DOMAIN Targets /\ bad \subseteq DOMAIN Targets /\ good \subseteq DOMAIN Targets
  BY DEF At
<1>3. all = good \cup bad /\ good \cap bad = {}
  BY DEF At
<1> HIDE DEF all, bad, good
<1>4. IsFiniteSet(all) /\ IsFiniteSet(bad) /\ IsFiniteSet(good)
  BY <1>1, <1>2, FS_Subset
<1>5. Cardinality(all) \in Nat /\ Cardinality(bad) \in Nat /\ Cardinality(good) \in Nat
  BY <1>4, FS_CardinalityType
<1>6. Cardinality(all) = Cardinality(good) + Cardinality(bad) - Cardinality({})
  BY <1>3, <1>4, FS_Union
<1>7. Cardinality({}) = 0
  BY FS_EmptySet
<1> QED
  BY <1>5, <1>6, <1>7 DEF all, bad, good

\* ReportsAccounted is kept by a report, whatever sends fail.
LEMMA ReportCounted ==
    ASSUME RequestInv, CountInv, NEW args, NEW observed, NEW resolves,
           NEW fail \in SUBSET DOMAIN Targets, ReportLatency(args, observed, resolves, fail)
    PROVE  CountInv'
<1> DEFINE Count(f, set) == [s \in ServerIds |-> f[s] + Cardinality({i \in set : TargetId(i) = s})]
<1>1. CASE UNCHANGED stats
  BY <1>1 DEF CountInv, ReportsAccounted, stats
<1>2. CASE /\ got' = Count(got, DOMAIN Targets \ fail)
           /\ failures' = IF RecordFailures(fail) THEN Count(failures, fail) ELSE failures
           /\ reported' = IF fail # {} /\ fail = DOMAIN Targets THEN reported ELSE reported + 1
  <2>1. \A s \in ServerIds : got[s] \in Nat /\ failures[s] \in Nat
    BY DEF CountInv
  <2>2. ASSUME NEW s \in ServerIds
        PROVE  /\ got'[s] = got[s] + Cardinality(At(DOMAIN Targets \ fail, s))
               /\ failures'[s] = IF RecordFailures(fail) THEN failures[s] + Cardinality(At(fail, s))
                                 ELSE failures[s]
    BY <1>2 DEF At
  <2>3. got' \in [ServerIds -> Nat]
    <3>1. ASSUME NEW s \in ServerIds
          PROVE  got[s] + Cardinality({i \in DOMAIN Targets \ fail : TargetId(i) = s}) \in Nat
      <4>1. Cardinality(At(DOMAIN Targets \ fail, s)) \in Nat
        BY CopiesSplit
      <4> QED
        BY <2>1, <4>1 DEF At
    <3> QED
      BY <1>2, <3>1
  <2>4. failures' \in [ServerIds -> Nat]
    <3>1. ASSUME NEW s \in ServerIds
          PROVE  failures[s] + Cardinality({i \in fail : TargetId(i) = s}) \in Nat
      <4>1. Cardinality(At(fail, s)) \in Nat
        BY CopiesSplit
      <4> QED
        BY <2>1, <4>1 DEF At
    <3>2. Count(failures, fail) \in [ServerIds -> Nat]
      BY <3>1
    <3> HIDE DEF Count
    <3> QED
      BY <1>2, <3>2 DEF CountInv
  <2>5. ASSUME NEW s \in ServerIds
        PROVE  got'[s] + failures'[s] = reported' * Cardinality(At(DOMAIN Targets, s))
    <3>1. PICK a \in Nat, b \in Nat, c \in Nat, g \in Nat, f \in Nat, k \in Nat :
            /\ a = Cardinality(At(DOMAIN Targets, s)) /\ b = Cardinality(At(fail, s))
            /\ c = Cardinality(At(DOMAIN Targets \ fail, s))
            /\ g = got[s] /\ f = failures[s] /\ k = reported
      BY <2>1, CopiesSplit DEF RequestInv
    <3>2. a = c + b /\ g + f = k * a
      BY <3>1, CopiesSplit DEF CountInv, ReportsAccounted, At
    <3>3. (k + 1) * a = k * a + a /\ k * a \in Nat
      OBVIOUS
    <3>4. fail = {} => b = 0
      BY <3>1, FS_EmptySet DEF At
    <3>5. fail = DOMAIN Targets => c = 0
      BY <3>1, FS_EmptySet DEF At
    <3>6. PICK m \in Nat : m = k * a
      BY <3>3
    <3>7. g + f = m /\ (k + 1) * a = m + a
      BY <3>2, <3>3, <3>6
    <3>8. CASE RecordFailures(fail)
      <4>1. got'[s] = g + c /\ failures'[s] = f + b /\ reported' = k + 1
        BY <1>2, <2>2, <3>1, <3>8 DEF RecordFailures
      <4> QED
        BY <3>1, <3>2, <3>7, <4>1
    <3>9. CASE fail = {}
      <4>1. got'[s] = g + c /\ failures'[s] = f /\ reported' = k + 1
        BY <1>2, <2>2, <3>1, <3>9 DEF RecordFailures
      <4>2. a = c
        BY <3>2, <3>4, <3>9
      <4> QED
        BY <3>1, <3>7, <4>1, <4>2
    <3>10. CASE fail # {} /\ fail = DOMAIN Targets
      <4>1. got'[s] = g + c /\ failures'[s] = f /\ reported' = k
        BY <1>2, <2>2, <3>1, <3>10 DEF RecordFailures
      <4> QED
        BY <3>1, <3>5, <3>6, <3>7, <3>10, <4>1
    <3> QED
      BY <3>8, <3>9, <3>10 DEF RecordFailures
  <2> QED
    BY <2>3, <2>4, <2>5 DEF CountInv, ReportsAccounted, At
<1> QED
  BY <1>1, <1>2 DEF ReportLatency

\* CountInv is kept by every step.
LEMMA CountStep ==
    ASSUME RequestInv, CountInv, [Next]_vars
    PROVE  CountInv'
<1>1. ASSUME UNCHANGED stats PROVE CountInv'
  BY <1>1 DEF CountInv, ReportsAccounted, stats
<1>2. CASE Edit \/ ParseKey \/ BuildClient
  BY <1>1, <1>2 DEF Edit, ParseKey, BuildClient
<1>3. ASSUME NEW next, Step(next) PROVE CountInv'
  BY <1>1, <1>3 DEF Step
<1>4. CASE \E window \in Windows, tokens \in Quantities : AddResource(window, tokens)
  BY <1>3, <1>4 DEF AddResource
<1>5. CASE \E args \in Trackers, threshold \in Thresholds : AddGuard(args, threshold)
  BY <1>3, <1>5 DEF AddGuard
<1>6. CASE \E n \in Labels : SetLabel(n)
  BY <1>3, <1>6 DEF SetLabel
<1>7. ASSUME NEW resolves \in BOOLEAN, Send(resolves) PROVE CountInv'
  BY <1>1, <1>7 DEF Send
<1>8. ASSUME NEW error, GiveUp(error) PROVE CountInv'
  BY <1>1, <1>8 DEF GiveUp
<1>9. ASSUME NEW w \in wire, NEW v \in Verdicts, Answer(w, v.server, v) PROVE CountInv'
  BY <1>1, <1>9 DEF Answer
<1>10. ASSUME NEW d, Deliver(d) PROVE CountInv'
  BY <1>1, <1>10 DEF Deliver
<1>11. CASE Receive
  BY <1>10, <1>11 DEF Receive
<1>12. CASE UNCHANGED vars
  BY <1>1, <1>12 DEF vars
<1> QED
  BY <1>2, <1>4, <1>5, <1>6, <1>7, <1>8, <1>9, <1>11, <1>12, ReportCounted DEF Next

-----------------------------------------------------------------------------
(* The theorems                                                            *)

ExchangeInv == SetupInv /\ RequestInv /\ WireInv /\ NetInv /\ ResultInv /\ CountInv

\* ExchangeInv holds at first.
LEMMA ExchangeInit == Init => ExchangeInv
<1> SUFFICES ASSUME Init PROVE ExchangeInv
  OBVIOUS
<1>1. /\ wire = {} /\ net = {} /\ result = Idle /\ panicked = FALSE /\ reported = 0
      /\ got = [s \in ServerIds |-> 0] /\ failures = [s \in ServerIds |-> 0]
  BY Zenon DEF Init
<1>2. WireInv /\ NetInv
  BY <1>1 DEF WireInv, NetInv
<1>3. ResultInv
  BY <1>1 DEF ResultInv, Idle
<1>4. CountInv
  <2>1. got \in [ServerIds -> Nat] /\ failures \in [ServerIds -> Nat]
    BY <1>1
  <2>2. ASSUME NEW s \in ServerIds
        PROVE  got[s] + failures[s] = reported * Cardinality(At(DOMAIN Targets, s))
    <3>1. Cardinality(At(DOMAIN Targets, s)) \in Nat
      BY CopiesSplit
    <3> QED
      BY <1>1, <3>1
  <2> QED
    BY <2>1, <2>2 DEF CountInv, ReportsAccounted, At
<1> QED
  BY <1>2, <1>3, <1>4, SetupInit, RequestInit DEF ExchangeInv

\* ExchangeInv is kept by every step.
LEMMA ExchangeStep == ExchangeInv /\ [Next]_vars => ExchangeInv'
BY SetupStep, RequestStep, WireStep, NetStep, ResultStep, CountStep DEF ExchangeInv

\* The inductive invariant holds throughout.
THEOREM Invariance == Spec => []ExchangeInv
BY ExchangeInit, ExchangeStep, PTL DEF Spec

\* Every variable keeps its type: in particular a client has a key, requests and
\* reports stay within their bounds, and the inflight map holds the last request.
THEOREM TypeCorrect == Spec => []TypeOK
<1>1. ASSUME ExchangeInv PROVE TypeOK
  <2>1. DOMAIN draft = DOMAIN EmptyDraft
    BY <1>1 DEF ExchangeInv, RequestInv, Draft, EmptyDraft
  <2>2. ASSUME NEW w \in wire PROVE DOMAIN w = {"tenant", "auth", "pdu", "len"}
    <3>1. CASE IsReport(w)
      BY <3>1, Zenon DEF IsReport
    <3>2. CASE IsRequest(w)
      <4>1. PICK i, l : w = DatagramOf(asked[i], i, l)
        BY <3>2 DEF IsRequest
      <4> QED
        BY <4>1 DEF DatagramOf
    <3> QED
      BY <1>1, <3>1, <3>2 DEF ExchangeInv, WireInv
  <2>3. ASSUME NEW a \in net PROVE DOMAIN a = {"tenant", "auth", "pdu", "len"}
    BY <1>1, Zenon DEF ExchangeInv, NetInv, IsAnswer, Answers
  <2>4. /\ issued \in Keys /\ text \in Seq(Nat) /\ edits \in 0..Typing[issued].max
        /\ key.ok => key.value \in Key
        /\ ready \in BOOLEAN /\ (ready => key.ok)
    BY <1>1 DEF ExchangeInv, SetupInv, UsableKey
  <2>5. WithinBounds(Len(asked), reported) /\ inflight \in {0, Len(asked)} /\ reported \in Nat
    BY <1>1 DEF ExchangeInv, RequestInv
  <2>6. /\ result.kind \in {"idle", "error", "response"} /\ panicked \in BOOLEAN
        /\ got \in [ServerIds -> Nat] /\ failures \in [ServerIds -> Nat]
    BY <1>1 DEF ExchangeInv, ResultInv, CountInv
  <2> QED
    BY <2>1, <2>2, <2>3, <2>4, <2>5, <2>6, Zenon DEF TypeOK
<1> QED
  BY <1>1, Invariance, PTL

\* No datagram of any declared sizes and length, odd or conforming, makes
\* response_router or the parser read outside of the data, and no text whatever
\* makes from_str do so.
THEOREM ReadersNeverPanic == Spec => []NeverPanics
<1>1. ExchangeInv => NeverPanics
  BY DEF ExchangeInv, SetupInv, ResultInv, NeverPanics
<1> QED
  BY <1>1, Invariance, PTL

\* Each copy of each report that returned Ok is counted once, as accepted by the
\* socket or as a send failure of the server its address is known by, for every list
\* of endpoints, also one that names an address for several servers.
THEOREM Reports == Spec => []ReportsAccounted
<1>1. ExchangeInv => ReportsAccounted
  BY DEF ExchangeInv, CountInv
<1> QED
  BY <1>1, Invariance, PTL

\* A conforming answer is routed by its request id, accepted, and read as the
\* decision that the server made.
THEOREM AnswersRead == Spec => []AnswersUnderstood
<1>1. ASSUME ExchangeInv, NEW a \in net
      PROVE  /\ peek_request_id(a) = Ok(a.tenant.unique_id)
             /\ Accept(a).ok
             /\ Accept(a).value.success =
                    Grants(a, DOMAIN a.pdu.body.guards, DOMAIN a.pdu.body.resources)
             /\ Accept(a).value.server_id = peek_server_id(a).value
  <2>1. PICK i \in DOMAIN asked, v \in Verdicts : Answers(a, asked[i], i, v.server, v)
    BY <1>1 DEF ExchangeInv, NetInv, IsAnswer
  <2>2. asked[i] \in Draft /\ key.value \in UsableKey
    BY <1>1 DEF ExchangeInv, RequestInv, SetupInv
  <2>3. v.tenant_size \in Nat \ (0..39) /\ v.trailing \in Nat /\ v.server \in ServerIds
    BY VerdictFacts
  <2>4. a.tenant.unique_id = i /\ a.tenant.key_id = v.server
    BY <2>1, Zenon DEF Answers
  <2>5. peek_request_id(a) = Ok(i) /\ peek_server_id(a) = Ok(v.server) /\ Accept(a).ok
    BY <2>1, <2>2, <2>3, AnswerAccepted DEF Allowed
  <2>6. Sized(a)
    <3>1. v.tenant_size \in Int /\ v.trailing \in Int
      BY <2>3
    <3> QED
      BY <2>1, <2>2, <3>1, AnswerSized
  <2>7. Accept(a).value = RateLimitResult(a, a.pdu.body.guard_count, a.pdu.body.resource_count)
    BY <2>5, <2>6, ReaderFacts
  <2>10. /\ 1..a.pdu.body.guard_count = DOMAIN a.pdu.body.guards
         /\ 1..a.pdu.body.resource_count = DOMAIN a.pdu.body.resources
    <3>1. /\ a.pdu.body.guard_count = Len(asked[i].guards)
          /\ a.pdu.body.resource_count = Len(asked[i].resources)
          /\ DOMAIN a.pdu.body.guards = DOMAIN asked[i].guards
          /\ DOMAIN a.pdu.body.resources = DOMAIN asked[i].resources
      BY <2>1, Zenon DEF Answers
    <3>2. asked[i].guards \in Seq(Threshold) /\ asked[i].resources \in Seq(Consumption)
      BY <2>2 DEF Draft
    <3> QED
      BY <3>1, <3>2
  <2>8. /\ Accept(a).value.success = Grants(a, DOMAIN a.pdu.body.guards, DOMAIN a.pdu.body.resources)
        /\ Accept(a).value.server_id = a.tenant.key_id
    <3>1. Decides(Accept(a).value, a, a.pdu.body.guard_count, a.pdu.body.resource_count)
      BY <2>7, DecisionExact
    <3> QED
      BY <2>10, <3>1, Zenon DEF Decides
  <2>9. Accept(a).value.server_id = peek_server_id(a).value
    BY <2>4, <2>5, <2>8 DEF Ok
  <2> QED
    BY <2>4, <2>5, <2>8, <2>9, Zenon
<1>2. ExchangeInv => AnswersUnderstood
  BY <1>1, Zenon DEF AnswersUnderstood
<1> QED
  BY <1>2, Invariance, PTL

\* Whatever arrives, and whatever ids the servers have: a grant was read from a
\* datagram of the selected server to this very request, whose declared blocks were
\* all there and pass, and a conforming answer's results cover the request.
THEOREM GrantsReal == Spec => []GrantIsServers
<1>1. Init => GrantInv
  <2>1. Init => result = Idle
    BY Zenon DEF Init
  <2> QED
    BY <2>1 DEF Idle, GrantInv, Granted
<1>2. ExchangeInv /\ GrantInv /\ [Next]_vars => GrantInv'
  BY GrantStep DEF ExchangeInv, ResultInv
<1>3. ExchangeInv /\ GrantInv => GrantIsServers
  BY GrantSuffices DEF ExchangeInv
<1> QED
  BY <1>1, <1>2, <1>3, Invariance, PTL DEF Spec

\* A datagram that was sent is exact, and within the limits of the issued key as
\* long as the key that was read is the issued one or none. KeyTexts says for
\* which texts it is.
THEOREM Packets == Spec => [](KeyOrEncodingError => PacketsExact)
<1> DEFINE Exact(w) ==
        LET b == w.pdu.body
            a == asked[w.tenant.unique_id]
        IN  /\ w.len <= MAX_PACKET_SIZE
            /\ w.len = w.tenant.tlv_size + w.auth.tlv_size + w.pdu.pdu_size
            /\ w.pdu.pdu_type = "latency_report" => w.pdu.pdu_size = 12 + 32 * b.count
            /\ w.pdu.pdu_type = "rate_request" =>
                 /\ w.pdu.pdu_size = 12 + 36 * b.guard_count + 28 * b.resource_count + b.label.tlv_size
                 /\ b.guard_count = Len(a.guards) /\ b.resource_count = Len(a.resources)
                 /\ b.label.label_len = a.label_len
                 /\ a.label_len > 0 => b.label.tlv_size - 6 - a.label_len \in 0..3
                 /\ b.label.tlv_size % 4 = 0
                 /\ w.pdu.dedup_ttl_ms <= issued.limits.dedup_ttl_ms_max
                 /\ \A i \in DOMAIN b.resources :
                      /\ b.resources[i].tokens_requested > 0
                      /\ ~ExceedsWindow(b.resources[i].window_size_ms, issued.limits.rate_window)
<1>1. ASSUME ExchangeInv, KeyOrEncodingError, NEW w \in wire PROVE Exact(w)
  <2>1. ready /\ key.ok /\ key.value \in UsableKey /\ Horizon <= key.value.limits.dedup_ttl_ms_max
    BY <1>1 DEF ExchangeInv, SetupInv
  <2>2. key.value = issued
    <3>1. key # NoKey /\ key # Err("InvalidEncoding") /\ key # Err("UnsupportedCredential")
      BY <2>1 DEF NoKey, Err
    <3>2. key = Ok(issued)
      BY <1>1, <3>1 DEF KeyOrEncodingError
    <3> QED
      BY <3>2 DEF Ok
  <2>3. CASE IsReport(w)
    BY <2>3 DEF IsReport, MAX_PACKET_SIZE
  <2>4. CASE IsRequest(w)
    <3> DEFINE b == w.pdu.body
               l == b.label
    <3>1. PICK i \in DOMAIN asked : /\ LabelFits(l, asked[i].label_len)
                                    /\ w = DatagramOf(asked[i], i, l)
                                    /\ w.len <= 1200
      BY <2>4 DEF IsRequest
    <3> DEFINE d == asked[i]
    <3>2. d \in Draft /\ Askable(d)
      BY <1>1 DEF ExchangeInv, RequestInv
    <3>3. /\ w.tenant.tlv_size = 40 /\ w.tenant.unique_id = i
          /\ w.auth.tlv_size = auth_header_size(key.value) /\ w.pdu = PduOf(d, l)
          /\ w.len = 40 + auth_header_size(key.value) + 8 + BodyOf(d, l).len
      <4> HIDE DEF l, d
      <4> QED
        BY <3>1 DEF DatagramOf, build_tenant_header, append_auth_tlv, TENANT_TLV_LEN, d
    <3> HIDE DEF l, d
    <3>4. /\ w.pdu.pdu_type = "rate_request" /\ w.pdu.pdu_size = 8 + b.len
          /\ w.pdu.dedup_ttl_ms = Horizon /\ b = BodyOf(d, l)
      BY <3>3 DEF PduOf
    <3> HIDE DEF b
    <3>5. /\ b.guard_count = Len(d.guards) /\ b.resource_count = Len(d.resources) /\ b.label = l
          /\ b.len = 4 + 36 * Len(d.guards) + 28 * Len(d.resources) + l.len
          /\ DOMAIN b.resources = DOMAIN d.resources
          /\ \A j \in DOMAIN d.resources : b.resources[j] = ResourceBlock(d.resources[j])
      BY <3>4 DEF BodyOf
    <3>6. PICK g \in Nat, r \in Nat, n \in Nat, a \in Nat :
             /\ Len(d.guards) = g /\ Len(d.resources) = r /\ l.len = n
             /\ auth_header_size(key.value) = a
      <4>1. Len(d.guards) \in Nat /\ Len(d.resources) \in Nat
        BY <3>2 DEF Draft
      <4>2. l.len \in Nat
        BY <3>1, Zenon DEF LabelFits
      <4>3. auth_header_size(key.value) \in Nat
        BY <2>1, AuthSize
      <4> QED
        BY <4>1, <4>2, <4>3
    <3>7. /\ l.tlv_size = n /\ l.label_len = d.label_len /\ n % 4 = 0
          /\ d.label_len > 0 => n - 6 - d.label_len \in 0..3
      BY <3>1, <3>6 DEF LabelFits, d
    <3>8. /\ w.len <= MAX_PACKET_SIZE
          /\ w.len = w.tenant.tlv_size + w.auth.tlv_size + w.pdu.pdu_size
          /\ w.pdu.pdu_size = 12 + 36 * g + 28 * r + n
      BY <3>1, <3>3, <3>4, <3>5, <3>6 DEF MAX_PACKET_SIZE
    <3>9. ASSUME NEW j \in DOMAIN b.resources
          PROVE  /\ b.resources[j].tokens_requested > 0
                 /\ ~ExceedsWindow(b.resources[j].window_size_ms, issued.limits.rate_window)
      <4>1. d.resources \in Seq(Consumption)
        BY <3>2 DEF Draft
      <4>2. d.resources[j] \in Consumption
        BY <3>5, <4>1
      <4>3. d.resources[j].tokens \in 1..U16Max /\ U16Max \in Nat
        <5>1. U16Max \in Nat
          BY DEF U16Max
        <5> QED
          BY <4>2, <5>1 DEF Consumption
      <4>4. /\ b.resources[j].tokens_requested = d.resources[j].tokens
            /\ b.resources[j].window_size_ms = d.resources[j].window_ms
        <5>1. b.resources[j] = ResourceBlock(d.resources[j])
          BY <3>5
        <5> HIDE DEF b
        <5> QED
          BY <5>1 DEF ResourceBlock
      <4>5. ~ExceedsWindow(d.resources[j].window_ms, issued.limits.rate_window)
        BY <2>2, <3>2, <3>5 DEF Askable
      <4> QED
        BY <4>3, <4>4, <4>5
    <3>10. w.pdu.dedup_ttl_ms <= issued.limits.dedup_ttl_ms_max
      BY <2>1, <2>2, <3>4
    <3>11. asked[w.tenant.unique_id] = d /\ w.pdu.body = b /\ w.pdu.pdu_type # "latency_report"
      BY <3>3, <3>4 DEF d, b
    <3> QED
      BY <3>5, <3>6, <3>7, <3>8, <3>9, <3>10, <3>11
  <2> QED
    BY <1>1, <2>3, <2>4 DEF ExchangeInv, WireInv
<1>2. ExchangeInv /\ KeyOrEncodingError => PacketsExact
  BY <1>1 DEF PacketsExact
<1> QED
  BY <1>2, Invariance, PTL

-----------------------------------------------------------------------------
(* Bits and characters                                                     *)

\* The entries of Powers.
LEMMA PowersAre ==
    /\ Powers[1] = 1 /\ Powers[2] = 2 /\ Powers[3] = 4 /\ Powers[4] = 8
    /\ Powers[5] = 16 /\ Powers[6] = 32 /\ Powers[7] = 64 /\ Powers[8] = 128
BY DEF Powers

\* Which bits a number has.
LEMMA BitsAre ==
    ASSUME NEW n \in Nat
    PROVE  /\ Bits(n) \subseteq 0..7
           /\ 0 \in Bits(n) <=> n % 2 = 1
           /\ 1 \in Bits(n) <=> (n \div 2) % 2 = 1
           /\ 2 \in Bits(n) <=> (n \div 4) % 2 = 1
           /\ 3 \in Bits(n) <=> (n \div 8) % 2 = 1
           /\ 4 \in Bits(n) <=> (n \div 16) % 2 = 1
           /\ 5 \in Bits(n) <=> (n \div 32) % 2 = 1
           /\ 6 \in Bits(n) <=> (n \div 64) % 2 = 1
           /\ 7 \in Bits(n) <=> (n \div 128) % 2 = 1
<1>1. \A b \in 0..7 : b \in Bits(n) <=> (n \div Powers[b + 1]) % 2 = 1
  BY DEF Bits
<1>2. Bits(n) \subseteq 0..7
  BY DEF Bits
<1>3. n \div 1 = n
  OBVIOUS
<1> QED
  BY <1>1, <1>2, <1>3, PowersAre

\* A byte is the sum of its bits.
LEMMA NumberOfBits == ASSUME NEW n \in 0..255 PROVE Number(Bits(n)) = n
<1> DEFINE B == Bits(n)
<1>1. /\ 0 \in B <=> n % 2 = 1
      /\ 1 \in B <=> (n \div 2) % 2 = 1
      /\ 2 \in B <=> (n \div 4) % 2 = 1
      /\ 3 \in B <=> (n \div 8) % 2 = 1
      /\ 4 \in B <=> (n \div 16) % 2 = 1
      /\ 5 \in B <=> (n \div 32) % 2 = 1
      /\ 6 \in B <=> (n \div 64) % 2 = 1
      /\ 7 \in B <=> (n \div 128) % 2 = 1
  BY BitsAre
<1> HIDE DEF B
<1>2. Number(B) = n
  BY <1>1 DEF Number
<1> QED
  BY <1>2 DEF B

\* The bits of a sum of bits are those bits.
LEMMA BitsOfNumber == ASSUME NEW v \in SUBSET (0..7) PROVE Bits(Number(v)) = v
<1> DEFINE n == Number(v)
<1>1. /\ n \in 0..255
      /\ 0 \in v <=> n % 2 = 1
      /\ 1 \in v <=> (n \div 2) % 2 = 1
      /\ 2 \in v <=> (n \div 4) % 2 = 1
      /\ 3 \in v <=> (n \div 8) % 2 = 1
      /\ 4 \in v <=> (n \div 16) % 2 = 1
      /\ 5 \in v <=> (n \div 32) % 2 = 1
      /\ 6 \in v <=> (n \div 64) % 2 = 1
      /\ 7 \in v <=> (n \div 128) % 2 = 1
  BY DEF Number
<1> HIDE DEF n
<1>2. \A b \in 0..7 : b \in Bits(n) <=> b \in v
  BY <1>1, BitsAre
<1>3. Bits(n) \subseteq 0..7
  BY <1>1, BitsAre
<1> QED
  BY <1>2, <1>3 DEF n

\* No character stands for two values.
LEMMA CharsetInjective ==
    ASSUME NEW i \in 1..32, NEW j \in 1..32, CHARSET[i] = CHARSET[j]
    PROVE  i = j
BY DEF CHARSET

\* The characters of the alphabet are printable, not capitals and not the
\* separator.
LEMMA CharsetPlain ==
    ASSUME NEW m \in 1..32
    PROVE  /\ CHARSET[m] \in 48..122 /\ CHARSET[m] # Separator /\ ~IsUpper(CHARSET[m])
           /\ InCharset(CHARSET[m])
<1>1. DOMAIN CHARSET = 1..32
  BY DEF CHARSET
<1>2. CHARSET[m] \in 48..122 /\ CHARSET[m] # 49 /\ CHARSET[m] \notin 65..90
  BY DEF CHARSET
<1> QED
  BY <1>1, <1>2 DEF Separator, IsUpper, InCharset, Chars

\* A value and its character.
LEMMA CharRoundTrip ==
    ASSUME NEW v \in SUBSET (0..4)
    PROVE  LET c == value_to_char(v)
           IN  /\ c \in 48..122 /\ c # Separator /\ ~IsUpper(c) /\ InCharset(c)
               /\ char_to_value(c) = v
<1>1. PICK n \in 0..31 : Number(v) = n
  <2>1. v \subseteq 0..4
    OBVIOUS
  <2> QED
    BY <2>1, NumberType
<1>2. value_to_char(v) = CHARSET[n + 1] /\ n + 1 \in 1..32
  BY <1>1 DEF value_to_char
<1>3. DOMAIN CHARSET = 1..32
  BY DEF CHARSET
<1> DEFINE c == CHARSET[n + 1]
           i == CHOOSE m \in DOMAIN CHARSET : CHARSET[m] = c
<1>4. i \in 1..32 /\ CHARSET[i] = c
  BY <1>2, <1>3
<1>5. i = n + 1
  <2> HIDE DEF i
  <2> QED
    BY <1>2, <1>4, CharsetInjective
<1>6. char_to_value(c) = Bits(i - 1)
  BY <1>2, CharsetPlain DEF char_to_value
<1>7. Bits(n) = v
  BY <1>1, BitsOfNumber
<1>8. i - 1 = n
  <2> HIDE DEF i
  <2> QED
    BY <1>5
<1> HIDE DEF i
<1> QED
  BY <1>2, <1>6, <1>7, <1>8, CharsetPlain

\* Every character has a value of five bits, and different characters of the
\* alphabet have different values.
LEMMA ValueFacts ==
    /\ \A c : char_to_value(c) \in SUBSET (0..4)
    /\ \A c, d : InCharset(c) /\ InCharset(d) /\ char_to_value(c) = char_to_value(d) => c = d
<1>1. DOMAIN CHARSET = 1..32
  BY DEF CHARSET
<1>2. ASSUME NEW c, InCharset(c)
      PROVE  \E m \in 1..32 : CHARSET[m] = c /\ char_to_value(c) = Bits(m - 1)
  <2> DEFINE i == CHOOSE m \in DOMAIN CHARSET : CHARSET[m] = c
  <2>1. i \in 1..32 /\ CHARSET[i] = c
    BY <1>1, <1>2 DEF InCharset, Chars
  <2>2. char_to_value(c) = Bits(i - 1)
    BY <1>2 DEF char_to_value
  <2> HIDE DEF i
  <2> QED
    BY <2>1, <2>2
<1>3. ASSUME NEW n \in 0..31 PROVE Bits(n) \in SUBSET (0..4)
  <2>1. (n \div 32) % 2 = 0 /\ (n \div 64) % 2 = 0 /\ (n \div 128) % 2 = 0
    OBVIOUS
  <2> QED
    BY <2>1, BitsAre
<1>4. ASSUME NEW c PROVE char_to_value(c) \in SUBSET (0..4)
  <2>1. CASE InCharset(c)
    <3>1. PICK m \in 1..32 : char_to_value(c) = Bits(m - 1)
      BY <1>2, <2>1
    <3>2. PICK n \in 0..31 : n = m - 1
      OBVIOUS
    <3> QED
      BY <1>3, <3>1, <3>2
  <2>2. CASE ~InCharset(c)
    BY <2>2 DEF char_to_value
  <2> QED
    BY <2>1, <2>2
<1>5. ASSUME NEW c, NEW d, InCharset(c), InCharset(d), char_to_value(c) = char_to_value(d)
      PROVE  c = d
  <2>1. PICK m \in 1..32 : CHARSET[m] = c /\ char_to_value(c) = Bits(m - 1)
    BY <1>2, <1>5
  <2>2. PICK n \in 1..32 : CHARSET[n] = d /\ char_to_value(d) = Bits(n - 1)
    BY <1>2, <1>5
  <2>3. m - 1 \in 0..255 /\ n - 1 \in 0..255
    OBVIOUS
  <2>4. m - 1 = n - 1
    BY <1>5, <2>1, <2>2, <2>3, NumberOfBits
  <2>5. m = n
    BY <2>4
  <2> QED
    BY <2>1, <2>2, <2>5
<1> QED
  BY <1>4, <1>5

-----------------------------------------------------------------------------
(* The checksum                                                            *)

Register == SUBSET (0..29)
Bytes    == SUBSET (0..7)
Groups   == SUBSET (0..4)

HasLen(s, n) == Len(s) = n

\* The five words of GEN are words of 30 bits.
LEMMA GenType == \A i \in 1..5 : GEN[i] \in Register
<1>1. /\ GEN[1] \in Register /\ GEN[2] \in Register /\ GEN[3] \in Register
      /\ GEN[4] \in Register /\ GEN[5] \in Register
  BY DEF GEN, Register
<1> QED
  BY <1>1

\* A step of polymod keeps the register's width.
LEMMA StepType ==
    ASSUME NEW c \in Register, NEW v \in SUBSET (0..7)
    PROVE  /\ polymod_step[c][v] = Xor(Xor({b + 5 : b \in c \cap 0..24}, v), Feedback(c))
           /\ polymod_step[c][v] \in Register
           /\ Feedback(c) \in Register
<1>1. polymod_step[c][v] = Xor(Xor({b + 5 : b \in c \cap 0..24}, v), Feedback(c))
  BY DEF polymod_step, Register
<1>2. \A a, b \in Register : Xor(a, b) \in Register
  BY DEF Xor, Register
<1>3. Feedback(c) \in Register
  <2> DEFINE Word(i) == IF 25 + i \in c THEN GEN[i + 1] ELSE {}
  <2>1. \A i \in 0..4 : Word(i) \in Register
    BY GenType DEF Register
  <2>2. Feedback(c) = Xor(Xor(Xor(Xor(Word(0), Word(1)), Word(2)), Word(3)), Word(4))
    BY Zenon DEF Feedback
  <2>3. /\ Word(0) \in Register /\ Word(1) \in Register /\ Word(2) \in Register
        /\ Word(3) \in Register /\ Word(4) \in Register
    BY <2>1
  <2> HIDE DEF Word
  <2> QED
    BY <1>2, <2>2, <2>3
<1>4. {b + 5 : b \in c \cap 0..24} \in Register /\ v \in Register
  BY DEF Register
<1> QED
  BY <1>1, <1>2, <1>3, <1>4

\* chk is the register before and after each of the values.
Registers(chk, values) ==
    /\ chk \in [0..Len(values) -> Register]
    /\ chk[0] = {0}
    /\ \A n \in 1..Len(values) : chk[n] = polymod_step[chk[n - 1]][values[n]]

\* polymod is the last of its registers.
LEMMA PolymodTable ==
    ASSUME NEW values \in Seq(Bytes)
    PROVE  \E chk : Registers(chk, values) /\ polymod(values) = chk[Len(values)]
<1>0. PICK N \in Nat : Len(values) = N
  OBVIOUS
<1> DEFINE Val(n) == IF n \in 1..N THEN values[n] ELSE {}
           step   == [p \in Nat \X Register |-> polymod_step[p[2]][Val(p[1])]]
<1>1. \A n \in Nat : Val(n) \in SUBSET (0..7)
  BY <1>0 DEF Bytes
<1>2. step \in [Nat \X Register -> Register]
  <2> HIDE DEF Val
  <2>1. \A p \in Nat \X Register : polymod_step[p[2]][Val(p[1])] \in Register
    BY <1>1, StepType
  <2> QED
    BY <2>1
<1>3. {0} \in Register
  BY DEF Register
<1>4. PICK f : Solves(f, N, Register, {0}, step)
  <2> HIDE DEF step
  <2> QED
    BY <1>2, <1>3, Recursion
<1>5. f \in [0..N -> Register] /\ f[0] = {0} /\ \A n \in 1..N : f[n] = polymod_step[f[n - 1]][values[n]]
  <2>1. f \in [0..N -> Register] /\ f[0] = {0}
    BY <1>4 DEF Solves
  <2>2. ASSUME NEW n \in 1..N PROVE f[n] = polymod_step[f[n - 1]][values[n]]
    <3>1. n - 1 \in 0..N /\ n \in Nat
      OBVIOUS
    <3>2. f[n - 1] \in Register
      BY <2>1, <3>1
    <3>3. f[n] = step[<<n, f[n - 1]>>]
      BY <1>4 DEF Solves
    <3>4. step[<<n, f[n - 1]>>] = polymod_step[f[n - 1]][Val(n)]
      BY <3>1, <3>2
    <3> QED
      BY <3>3, <3>4
  <2> QED
    BY <2>1, <2>2
<1> DEFINE Body(g) == [n \in 0..Len(values) |-> IF n = 0 THEN {0} ELSE polymod_step[g[n - 1]][values[n]]]
           chk     == CHOOSE g : g = Body(g)
<1>6. f = Body(f)
  <2>1. \A n \in 0..N : f[n] = IF n = 0 THEN {0} ELSE polymod_step[f[n - 1]][values[n]]
    BY <1>5
  <2> QED
    BY <1>0, <1>5, <2>1
<1>7. chk = Body(chk)
  BY <1>6
<1>8. polymod(values) = chk[Len(values)]
  BY DEF polymod
<1> HIDE DEF chk
<1>9. /\ DOMAIN chk = 0..N
      /\ \A n \in 0..N : chk[n] = IF n = 0 THEN {0} ELSE polymod_step[chk[n - 1]][values[n]]
  BY <1>0, <1>7
<1>10. \A n \in 0..N : chk[n] = f[n]
  <2> DEFINE T == {n \in 0..N : chk[n] = f[n]}
  <2>1. 0 \in T
    <3>1. 0 \in 0..N
      OBVIOUS
    <3>2. chk[0] = {0}
      BY <1>9, <3>1
    <3> QED
      BY <1>5, <3>1, <3>2
  <2>2. ASSUME NEW n \in 0..N - 1, n \in T PROVE n + 1 \in T
    <3>1. n + 1 \in 1..N /\ n + 1 \in 0..N /\ n + 1 # 0 /\ (n + 1) - 1 = n
      OBVIOUS
    <3>2. chk[n + 1] = polymod_step[chk[n]][values[n + 1]]
      BY <1>9, <3>1
    <3>3. f[n + 1] = polymod_step[f[n]][values[n + 1]]
      BY <1>5, <3>1
    <3> QED
      BY <2>2, <3>1, <3>2, <3>3
  <2> HIDE DEF T
  <2>3. 0..N \subseteq T
    BY <2>1, <2>2, UpTo
  <2> QED
    BY <2>3 DEF T
<1>11. polymod(values) = f[N]
  BY <1>0, <1>8, <1>10
<1> QED
  BY <1>0, <1>5, <1>11 DEF Registers

Shift(d) == {b + 5 : b \in d}

\* The step is linear in what it does not feed back.
LEMMA DiffStep ==
    ASSUME NEW c \in Register, NEW d \in SUBSET (0..24), NEW v \in SUBSET (0..4)
    PROVE  polymod_step[Xor(c, d)][v] = Xor(polymod_step[c][{}], Shift(d) \cup v)
<1>1. Xor(c, d) \in Register /\ v \in SUBSET (0..7) /\ {} \in SUBSET (0..7)
  BY DEF Xor, Register
<1>2. Feedback(Xor(c, d)) = Feedback(c)
  <2>1. \A i \in 0..4 : 25 + i \in Xor(c, d) <=> 25 + i \in c
    BY DEF Xor
  <2>2. /\ 25 + 0 \in Xor(c, d) <=> 25 + 0 \in c
        /\ 25 + 1 \in Xor(c, d) <=> 25 + 1 \in c
        /\ 25 + 2 \in Xor(c, d) <=> 25 + 2 \in c
        /\ 25 + 3 \in Xor(c, d) <=> 25 + 3 \in c
        /\ 25 + 4 \in Xor(c, d) <=> 25 + 4 \in c
    BY <2>1
  <2> DEFINE x == Xor(c, d)
  <2> HIDE DEF x
  <2>3. Feedback(x) = Feedback(c)
    <3>1. /\ 25 + 0 \in x <=> 25 + 0 \in c
          /\ 25 + 1 \in x <=> 25 + 1 \in c
          /\ 25 + 2 \in x <=> 25 + 2 \in c
          /\ 25 + 3 \in x <=> 25 + 3 \in c
          /\ 25 + 4 \in x <=> 25 + 4 \in c
      BY <2>2 DEF x
    <3> QED
      BY <3>1, Zenon DEF Feedback
  <2> QED
    BY <2>3 DEF x
<1>3. /\ polymod_step[Xor(c, d)][v] = Xor(Xor({b + 5 : b \in Xor(c, d) \cap 0..24}, v), Feedback(c))
      /\ polymod_step[c][{}] = Xor(Xor({b + 5 : b \in c \cap 0..24}, {}), Feedback(c))
  BY <1>1, <1>2, StepType
<1> DEFINE F  == Feedback(c)
           X  == Xor(c, d)
           Xs == {b + 5 : b \in X \cap 0..24}
           C  == {b + 5 : b \in c \cap 0..24}
           D  == {b + 5 : b \in d}
<1>4. \A k : k \in Xs <=> (k \in C /\ k \notin D) \/ (k \in D /\ k \notin C)
  <2>1. \A k : k \in Xs => k \in 5..29 /\ k - 5 \in X
    BY DEF Xs
  <2>2. \A k : k \in C => k \in 5..29 /\ k - 5 \in c
    BY DEF C
  <2>3. \A k : k \in D => k \in 5..29 /\ k - 5 \in d
    <3> SUFFICES ASSUME NEW b \in d PROVE b + 5 \in 5..29 /\ (b + 5) - 5 \in d
      OBVIOUS
    <3>1. b \in 0..24
      OBVIOUS
    <3>2. b + 5 \in 5..29 /\ (b + 5) - 5 = b
      BY <3>1
    <3> QED
      BY <3>2
  <2>4. \A k \in 5..29 : k - 5 \in X => k \in Xs
    <3> TAKE k \in 5..29
    <3>1. k - 5 \in 0..24 /\ k = (k - 5) + 5
      OBVIOUS
    <3> QED
      BY <3>1
  <2>5. \A k \in 5..29 : k - 5 \in c => k \in C
    <3> TAKE k \in 5..29
    <3>1. k - 5 \in 0..24 /\ k = (k - 5) + 5
      OBVIOUS
    <3> QED
      BY <3>1
  <2>6. \A k \in 5..29 : k - 5 \in d => k \in D
    <3> TAKE k \in 5..29
    <3>1. k = (k - 5) + 5
      OBVIOUS
    <3> QED
      BY <3>1
  <2>7. \A j : j \in X <=> (j \in c /\ j \notin d) \/ (j \in d /\ j \notin c)
    BY DEF X, Xor
  <2> HIDE DEF Xs, C, D, X
  <2> QED
    BY <2>1, <2>2, <2>3, <2>4, <2>5, <2>6, <2>7
<1>5. \A k : k \in D => k \notin v
  <2>1. \A k \in D : k \in 5..29
    OBVIOUS
  <2> HIDE DEF D
  <2> QED
    BY <2>1
<1> HIDE DEF F, Xs, C, D, X
<1>6. Xor(Xor(Xs, v), F) = Xor(Xor(Xor(C, {}), F), D \cup v)
  BY <1>4, <1>5 DEF Xor
<1> QED
  BY <1>3, <1>6 DEF F, Xs, C, D, X, Shift

\* What the human-readable part adds to the checksum is a sequence of bytes.
LEMMA ExpandType ==
    ASSUME NEW hrp \in Seq(Nat)
    PROVE  hrp_expand(hrp) \in Seq(Bytes)
<1>0. PICK n \in Nat : Len(hrp) = n /\ DOMAIN hrp = 1..n
  OBVIOUS
<1>1. \A k : Bits(k) \in Bytes
  BY DEF Bits, Bytes
<1> DEFINE hi == [i \in DOMAIN hrp |-> Bits(hrp[i] \div 32)]
           lo == [i \in DOMAIN hrp |-> Bits(hrp[i] % 32)]
<1>2. hi \in Seq(Bytes) /\ lo \in Seq(Bytes)
  <2>1. hi \in [1..n -> Bytes] /\ lo \in [1..n -> Bytes]
    BY <1>0, <1>1
  <2> HIDE DEF hi, lo
  <2> QED
    BY <2>1, SeqOfFun
<1> HIDE DEF hi, lo
<1>3. hi \o <<{}>> \o lo \in Seq(Bytes)
  <2>1. <<{}>> \in Seq(Bytes)
    BY DEF Bytes
  <2> QED
    BY <1>2, <2>1
<1> QED
  BY <1>3 DEF hrp_expand, hi, lo

\* Concatenation is associative.
LEMMA CatAssoc ==
    ASSUME NEW S, NEW a \in Seq(S), NEW b \in Seq(S), NEW c \in Seq(S)
    PROVE  a \o (b \o c) = a \o b \o c
OBVIOUS

\* A function on the first n numbers is a sequence of that length.
LEMMA SeqOfKnown ==
    ASSUME NEW S, NEW n \in Nat, NEW f \in [1..n -> S]
    PROVE  f \in Seq(S) /\ HasLen(f, n)
BY SeqOfFun DEF HasLen

\* f is the register along K values of P and then n values of a.
Along(f, K, P, n, a) ==
    /\ f \in [0..K + n -> Register]
    /\ f[0] = {0}
    /\ \A i \in 1..K : f[i] = polymod_step[f[i - 1]][P[i]]
    /\ \A i \in 1..n : f[K + i] = polymod_step[f[(K + i) - 1]][a[i]]

\* The registers of a concatenation.
LEMMA CatRegisters ==
    ASSUME NEW P \in Seq(Bytes), NEW a \in Seq(Bytes), NEW K \in Nat, NEW n \in Nat,
           HasLen(P, K), HasLen(a, n)
    PROVE  \E f : Along(f, K, P, n, a) /\ polymod(P \o a) = f[K + n]
<1>1. PICK A : A = P \o a
  OBVIOUS
<1>2. PICK k \in Nat : k = K + n
  OBVIOUS
<1>3. Len(P) = K /\ Len(a) = n
  BY DEF HasLen
<1>4. A \in Seq(Bytes) /\ (\A i \in 1..K : A[i] = P[i]) /\ (\A i \in 1..n : A[K + i] = a[i])
  <2>1. A \in Seq(Bytes)
    BY <1>1
  <2>2. \A i \in 1..K : (P \o a)[i] = P[i]
    BY <1>3
  <2>3. \A i \in 1..n : (P \o a)[K + i] = a[i]
    BY <1>3
  <2> QED
    BY <1>1, <2>1, <2>2, <2>3
<1>5. Len(A) = k
  <2>1. Len(P \o a) = K + n
    BY <1>3
  <2> QED
    BY <1>1, <1>2, <2>1
<1>6. PICK f : Registers(f, A) /\ polymod(A) = f[Len(A)]
  BY <1>4, PolymodTable
<1>7. f \in [0..k -> Register] /\ f[0] = {0} /\ \A i \in 1..k : f[i] = polymod_step[f[i - 1]][A[i]]
  BY <1>5, <1>6 DEF Registers
<1>8. ASSUME NEW i \in 1..K PROVE f[i] = polymod_step[f[i - 1]][P[i]]
  <2>1. i \in 1..k
    BY <1>2
  <2> QED
    BY <1>4, <1>7, <2>1
<1>9. ASSUME NEW i \in 1..n PROVE f[K + i] = polymod_step[f[(K + i) - 1]][a[i]]
  <2>1. PICK j \in 1..k : j = K + i
    BY <1>2
  <2>2. A[j] = a[i]
    BY <1>4, <2>1
  <2>3. f[j] = polymod_step[f[j - 1]][A[j]]
    BY <1>7
  <2> QED
    BY <2>1, <2>2, <2>3
<1>10. polymod(P \o a) = f[K + n]
  BY <1>1, <1>2, <1>5, <1>6
<1>11. f \in [0..K + n -> Register]
  BY <1>2, <1>7
<1>12. Along(f, K, P, n, a)
  BY <1>7, <1>8, <1>9, <1>11 DEF Along
<1> QED
  BY <1>10, <1>12

\* Registers along the same values agree.
LEMMA AlongAgree ==
    ASSUME NEW f, NEW g, NEW K \in Nat, NEW P, NEW n \in Nat, NEW a, NEW b,
           Along(f, K, P, n, a), Along(g, K, P, n, b)
    PROVE  f[K] = g[K]
<1> DEFINE T == {i \in 0..K : f[i] = g[i]}
<1>1. 0 \in T
  <2>1. f[0] = {0} /\ g[0] = {0} /\ 0 \in 0..K
    BY DEF Along
  <2> QED
    BY <2>1
<1>2. ASSUME NEW i \in 0..K - 1, i \in T PROVE i + 1 \in T
  <2>1. i + 1 \in 1..K /\ i + 1 \in 0..K /\ (i + 1) - 1 = i
    OBVIOUS
  <2>2. f[i + 1] = polymod_step[f[i]][P[i + 1]]
    BY <2>1 DEF Along
  <2>3. g[i + 1] = polymod_step[g[i]][P[i + 1]]
    BY <2>1 DEF Along
  <2> QED
    BY <1>2, <2>1, <2>2, <2>3
<1> HIDE DEF T
<1>3. 0..K \subseteq T
  BY <1>1, <1>2, UpTo
<1> QED
  BY <1>3 DEF T

\* sum holds the checksum that pm gives.
SumOf(sum, pm) == \A i \in 1..6 : sum[i] = {b \in 0..4 : 5 * (6 - i) + b \in pm}

\* The six values that six more zeros leave in the register, xored with 1, bring
\* the register to 1 when they take the place of the zeros.
LEMMA ChecksumTail ==
    ASSUME NEW P \in Seq(Bytes), NEW zero \in Seq(Bytes), NEW sum \in Seq(Bytes), NEW pm,
           NEW n \in Nat, n = 6, HasLen(zero, n), HasLen(sum, n),
           \A i \in 1..6 : zero[i] = {}, pm = Xor(polymod(P \o zero), {0}), SumOf(sum, pm)
    PROVE  polymod(P \o sum) = {0}
<1>1. PICK K \in Nat : HasLen(P, K)
  BY DEF HasLen
<1>2. PICK f : Along(f, K, P, n, zero) /\ polymod(P \o zero) = f[K + n]
  BY ONLY P \in Seq(Bytes), zero \in Seq(Bytes), K \in Nat, n \in Nat, HasLen(zero, n), <1>1, CatRegisters
<1>3. PICK g : Along(g, K, P, n, sum) /\ polymod(P \o sum) = g[K + n]
  BY ONLY P \in Seq(Bytes), sum \in Seq(Bytes), K \in Nat, n \in Nat, HasLen(sum, n), <1>1, CatRegisters
<1>14. f[K] = g[K]
  BY ONLY K \in Nat, n \in Nat, <1>2, <1>3, AlongAgree
<1>4. f[0] = {0} /\ f \in [0..K + 6 -> Register] /\ g \in [0..K + 6 -> Register]
  BY <1>2, <1>3 DEF Along
<1>5. \A i \in 1..6 : f[K + i] = polymod_step[f[(K + i) - 1]][{}]
  BY <1>2 DEF Along
<1>6. \A i \in 1..6 : g[K + i] = polymod_step[g[(K + i) - 1]][sum[i]]
  BY <1>3 DEF Along
<1>7. pm = Xor(f[K + 6], {0}) /\ polymod(P \o sum) = g[K + 6]
  BY <1>2, <1>3
<1> DEFINE D(i) == {k \in 0..5 * i - 1 : k + 5 * (6 - i) \in pm}
           T    == {i \in 0..6 : g[K + i] = Xor(f[K + i], D(i))}
<1>15. 0 \in T
  <2>1. D(0) = {} /\ K + 0 = K
    OBVIOUS
  <2> HIDE DEF D
  <2>2. g[K + 0] = Xor(f[K + 0], D(0))
    BY <1>14, <2>1 DEF Xor
  <2> QED
    BY <2>2
<1>16. ASSUME NEW i \in 0..6 - 1, i \in T PROVE i + 1 \in T
  <2>1. /\ i + 1 \in 0..6 /\ i + 1 \in 1..6 /\ (K + (i + 1)) - 1 = K + i
        /\ K + i \in 0..K + 6
    OBVIOUS
  <2> HIDE DEF T, D
  <2>2. f[K + (i + 1)] = polymod_step[f[K + i]][{}]
    BY <1>5, <2>1
  <2>3. g[K + (i + 1)] = polymod_step[g[K + i]][sum[i + 1]]
    BY <1>6, <2>1
  <2>4. f[K + i] \in Register
    BY <1>4, <2>1
  <2> USE DEF D
  <2>5. D(i) \in SUBSET (0..24)
    <3>1. \A k \in D(i) : k \in 0..24
      OBVIOUS
    <3> HIDE DEF D
    <3> QED
      BY <3>1
  <2>6. sum[i + 1] \in SUBSET (0..4)
    BY <2>1 DEF SumOf
  <2>7. Shift(D(i)) \cup sum[i + 1] = D(i + 1)
    <3>1. sum[i + 1] = {b \in 0..4 : 5 * (6 - (i + 1)) + b \in pm}
      BY <2>1 DEF SumOf
    <3>2. \A k \in D(i + 1) : k \in 0..4 \/ (k - 5 \in D(i) /\ k = (k - 5) + 5)
      <4> TAKE k \in D(i + 1)
      <4>1. k \in 0..5 * (i + 1) - 1 /\ k + 5 * (6 - (i + 1)) \in pm
        OBVIOUS
      <4>2. CASE k >= 5
        <5>1. k - 5 \in 0..5 * i - 1 /\ (k - 5) + 5 * (6 - i) = k + 5 * (6 - (i + 1)) /\ k = (k - 5) + 5
          BY <4>1, <4>2
        <5> QED
          BY <4>1, <5>1
      <4> QED
        BY <4>1, <4>2
    <3>3. \A k \in D(i + 1) : k \in 0..4 => k \in sum[i + 1]
      <4> TAKE k \in D(i + 1)
      <4>1. k + 5 * (6 - (i + 1)) = 5 * (6 - (i + 1)) + k
        OBVIOUS
      <4> QED
        BY <3>1, <4>1
    <3>4. \A b \in D(i) : b + 5 \in D(i + 1)
      <4> TAKE b \in D(i)
      <4>1. b + 5 \in 0..5 * (i + 1) - 1 /\ b + 5 * (6 - i) = (b + 5) + 5 * (6 - (i + 1))
        OBVIOUS
      <4> QED
        BY <4>1
    <3>5. \A b \in sum[i + 1] : b \in D(i + 1)
      <4> TAKE b \in sum[i + 1]
      <4>1. b \in 0..4 /\ 5 * (6 - (i + 1)) + b \in pm
        BY <3>1
      <4>2. b \in 0..5 * (i + 1) - 1 /\ b + 5 * (6 - (i + 1)) = 5 * (6 - (i + 1)) + b
        BY <4>1
      <4> QED
        BY <4>1, <4>2
    <3> HIDE DEF D
    <3> QED
      BY <3>2, <3>3, <3>4, <3>5 DEF Shift
  <2> HIDE DEF D
  <2>8. g[K + i] = Xor(f[K + i], D(i))
    BY <1>16 DEF T
  <2>9. g[K + (i + 1)] = Xor(f[K + (i + 1)], D(i + 1))
    <3>0. PICK c, d, v : c = f[K + i] /\ d = D(i) /\ v = sum[i + 1]
      OBVIOUS
    <3>2. c \in Register /\ d \in SUBSET (0..24) /\ v \in SUBSET (0..4)
      BY <2>4, <2>5, <2>6, <3>0
    <3>3. polymod_step[Xor(c, d)][v] = Xor(polymod_step[c][{}], Shift(d) \cup v)
      BY <3>2, DiffStep
    <3>1. polymod_step[Xor(f[K + i], D(i))][sum[i + 1]]
            = Xor(polymod_step[f[K + i]][{}], Shift(D(i)) \cup sum[i + 1])
      BY <3>0, <3>3
    <3> QED
      BY <2>2, <2>3, <2>7, <2>8, <3>1
  <2> QED
    BY <2>1, <2>9 DEF T
<1>17. g[K + 6] = Xor(f[K + 6], D(6))
  <2> HIDE DEF T
  <2>1. 0..6 \subseteq T
    BY <1>15, <1>16, UpTo
  <2>2. 6 \in T
    BY <2>1
  <2> QED
    BY <2>2 DEF T
<1>18. D(6) = pm
  <2> HIDE DEF D, T
  <2>1. f[K + 6] \in Register
    BY <1>4
  <2>0. f[K + 6] \subseteq 0..29
    BY <2>1, Zenon DEF Register
  <2>2. pm \subseteq 0..29
    <3>2. 0 \in 0..29
      OBVIOUS
    <3> QED
      BY <1>7, <2>0, <3>2 DEF Xor
  <2> USE DEF D
  <2>3. \A k \in 0..29 : k + 5 * (6 - 6) = k /\ k \in 0..5 * 6 - 1
    OBVIOUS
  <2>4. \A k : k \in D(6) => k \in 0..29
    OBVIOUS
  <2> QED
    BY <2>2, <2>3, <2>4
<1>19. g[K + 6] = {0}
  <2> HIDE DEF D
  <2> QED
    BY <1>7, <1>17, <1>18 DEF Xor
<1> QED
  BY <1>7, <1>19

\* A text with its checksum passes.
LEMMA ChecksumVerifies ==
    ASSUME NEW hrp \in Seq(Nat), NEW data \in Seq(Bytes)
    PROVE  /\ create_checksum(hrp, data) \in Seq(Groups) /\ HasLen(create_checksum(hrp, data), 6)
           /\ verify_checksum(hrp, data \o create_checksum(hrp, data))
<1> DEFINE zeros == [i \in 1..6 |-> {}]
<1>1. PICK E \in Seq(Bytes) : E = hrp_expand(hrp)
  BY ExpandType
<1>2. PICK zero : zero = zeros
  OBVIOUS
<1>3. \A i \in 1..6 : zero[i] = {}
  BY <1>2
<1>4. zero \in Seq(Bytes) /\ HasLen(zero, 6)
  <2>1. zero \in [1..6 -> Bytes] /\ 6 \in Nat
    BY <1>2 DEF Bytes
  <2> QED
    BY <2>1, SeqOfKnown
<1>5. PICK pm : pm = Xor(polymod(E \o data \o zero), {0})
  OBVIOUS
<1>6. PICK sum : sum = create_checksum(hrp, data)
  OBVIOUS
<1>7. sum = [i \in 1..6 |-> {b \in 0..4 : 5 * (6 - i) + b \in pm}]
  <2> DEFINE p == Xor(polymod(hrp_expand(hrp) \o data \o zeros), {0})
  <2>1. create_checksum(hrp, data) = [i \in 1..6 |-> {b \in 0..4 : 5 * (6 - i) + b \in p}]
    BY Zenon DEF create_checksum
  <2>2. p = pm
    BY <1>1, <1>2, <1>5
  <2> HIDE DEF p
  <2> QED
    BY <1>6, <2>1, <2>2
<1>8. sum \in [1..6 -> Groups] /\ sum \in [1..6 -> Bytes] /\ 6 \in Nat
  <2>1. Groups \subseteq Bytes
    BY DEF Groups, Bytes
  <2>2. sum \in [1..6 -> Groups]
    BY <1>7 DEF Groups
  <2> QED
    BY <2>1, <2>2
<1>9. sum \in Seq(Groups) /\ sum \in Seq(Bytes) /\ HasLen(sum, 6)
  <2>1. sum \in Seq(Groups)
    BY <1>8, SeqOfKnown
  <2>2. sum \in Seq(Bytes) /\ HasLen(sum, 6)
    BY <1>8, SeqOfKnown
  <2> QED
    BY <2>1, <2>2
<1>10. PICK P : P \in Seq(Bytes) /\ P = E \o data
  <2>1. E \o data \in Seq(Bytes)
    OBVIOUS
  <2> QED
    BY <2>1
<1>11. SumOf(sum, pm)
  BY <1>7 DEF SumOf
<1>12. polymod(P \o sum) = {0}
  <2>1. PICK n \in Nat : n = 6 /\ HasLen(zero, n) /\ HasLen(sum, n)
    BY <1>4, <1>9
  <2>2. pm = Xor(polymod(P \o zero), {0})
    BY <1>5, <1>10
  <2> HIDE DEF zeros
  <2> QED
    BY ONLY <1>3, <1>4, <1>9, <1>10, <1>11, <2>1, <2>2, ChecksumTail
<1>13. E \o (data \o sum) = P \o sum
  <2> HIDE DEF zeros
  <2>1. sum \in Seq(Bytes)
    BY <1>9
  <2>2. E \o (data \o sum) = E \o data \o sum
    BY ONLY <2>1, E \in Seq(Bytes), data \in Seq(Bytes), CatAssoc
  <2> QED
    BY <1>10, <2>2
<1> QED
  BY <1>1, <1>6, <1>9, <1>12, <1>13 DEF verify_checksum

-----------------------------------------------------------------------------
(* Reading a text                                                          *)

\* s is hrp, the separator and a tail without one.
Splits(s, hrp, tail) ==
    /\ hrp \in Seq(Nat) /\ tail \in Seq(Nat)
    /\ s = hrp \o <<Separator>> \o tail
    /\ \A i \in DOMAIN tail : tail[i] # Separator

\* s has these characters.
Spelled(s, hrp, h, tail, L) ==
    /\ s \in Seq(Nat) /\ Len(s) = h + 1 + L
    /\ \A i \in 1..h : s[i] = hrp[i]
    /\ s[h + 1] = Separator
    /\ \A i \in 1..L : s[h + 1 + i] = tail[i]

\* The characters of such a text
LEMMA SplitChars ==
    ASSUME NEW s, NEW hrp, NEW tail, Splits(s, hrp, tail), NEW h \in Nat, HasLen(hrp, h),
           NEW L \in Nat, HasLen(tail, L)
    PROVE  Spelled(s, hrp, h, tail, L)
<1>0. Len(hrp) = h /\ Len(tail) = L
  BY DEF HasLen
<1>1. hrp \in Seq(Nat) /\ tail \in Seq(Nat) /\ <<Separator>> \in Seq(Nat) /\ Len(<<Separator>>) = 1
  BY DEF Splits, Separator
<1>2. PICK a : a = hrp \o <<Separator>>
  OBVIOUS
<1>3. a \in Seq(Nat) /\ Len(a) = h + 1 /\ (\A i \in 1..h : a[i] = hrp[i]) /\ a[h + 1] = Separator
  BY <1>0, <1>1, <1>2
<1>4. s = a \o tail
  BY <1>2 DEF Splits
<1>5. PICK m \in Nat : m = h + 1
  OBVIOUS
<1>6. Len(a) = m
  BY <1>3, <1>5
<1>7. s \in Seq(Nat) /\ Len(s) = m + L /\ (\A i \in 1..m : s[i] = a[i]) /\ (\A i \in 1..L : s[m + i] = tail[i])
  <2>0. PICK S : S = Nat
    OBVIOUS
  <2>1. a \in Seq(S) /\ tail \in Seq(S)
    BY <1>1, <1>3, <2>0
  <2>2. a \o tail \in Seq(S)
    BY ONLY <1>0, <1>6, <2>1, m \in Nat, L \in Nat
  <2>3. Len(a \o tail) = m + L
    BY ONLY <1>0, <1>6, <2>1, m \in Nat, L \in Nat
  <2>4. \A i \in 1..m : (a \o tail)[i] = a[i]
    BY ONLY <1>0, <1>6, <2>1, m \in Nat, L \in Nat
  <2>5. \A i \in 1..L : (a \o tail)[m + i] = tail[i]
    BY ONLY <1>0, <1>6, <2>1, m \in Nat, L \in Nat
  <2> QED
    BY <1>4, <2>0, <2>2, <2>3, <2>4, <2>5
<1> QED
  BY <1>3, <1>5, <1>7 DEF Spelled

\* The last separator is where such a text splits.
LEMMA SplitAt ==
    ASSUME NEW s, NEW hrp, NEW tail, Splits(s, hrp, tail)
    PROVE  LET seps == {i \in DOMAIN s : s[i] = Separator}
               pos  == IF seps = {} THEN 0 ELSE CHOOSE i \in seps : \A j \in seps : j <= i
           IN  /\ seps # {} /\ pos = Len(hrp) + 1
               /\ SubSeq(s, 1, pos - 1) = hrp /\ SubSeq(s, pos + 1, Len(s)) = tail
<1>0. hrp \in Seq(Nat) /\ tail \in Seq(Nat)
  BY DEF Splits
<1>1. PICK h \in Nat : Len(hrp) = h
  BY <1>0
<1>2. PICK L \in Nat : Len(tail) = L
  BY <1>0
<1>3. /\ s \in Seq(Nat) /\ Len(s) = h + 1 + L
      /\ \A i \in 1..h : s[i] = hrp[i]
      /\ s[h + 1] = Separator
      /\ \A i \in 1..L : s[h + 1 + i] = tail[i]
  <2>1. HasLen(hrp, h) /\ HasLen(tail, L)
    BY <1>1, <1>2 DEF HasLen
  <2>2. Spelled(s, hrp, h, tail, L)
    BY <2>1, SplitChars
  <2> QED
    BY <2>2, Zenon DEF Spelled
<1>4. DOMAIN s = 1..h + 1 + L /\ DOMAIN tail = 1..L
  BY <1>0, <1>2, <1>3
<1> DEFINE seps == {i \in DOMAIN s : s[i] = Separator}
           pos  == IF seps = {} THEN 0 ELSE CHOOSE i \in seps : \A j \in seps : j <= i
<1>5. h + 1 \in seps
  BY <1>3, <1>4
<1>6. ASSUME NEW j \in seps PROVE j <= h + 1
  <2>1. j \in 1..h + 1 + L /\ s[j] = Separator
    BY <1>4
  <2>2. CASE j > h + 1
    <3>1. PICK i \in 1..L : j = h + 1 + i
      <4>1. j - (h + 1) \in 1..L /\ j = h + 1 + (j - (h + 1))
        BY <2>1, <2>2
      <4> QED
        BY <4>1
    <3>2. tail[i] # Separator
      BY <1>4 DEF Splits
    <3> QED
      BY <1>3, <2>1, <3>1, <3>2
  <2> QED
    BY <2>1, <2>2
<1>7. \A j \in seps : j \in Nat
  BY <1>4
<1>8. pos = h + 1
  <2> HIDE DEF seps
  <2> DEFINE p == CHOOSE i \in seps : \A j \in seps : j <= i
  <2>1. p \in seps /\ \A j \in seps : j <= p
    BY <1>5, <1>6
  <2>2. pos = p
    BY <1>5
  <2> HIDE DEF p
  <2> QED
    BY <1>5, <1>6, <1>7, <2>1, <2>2
<1>9. SubSeq(s, 1, h) = hrp
  <2>1. SubSeq(s, 1, h) \in Seq(Nat) /\ Len(SubSeq(s, 1, h)) = h /\ \A i \in 1..h : SubSeq(s, 1, h)[i] = s[i]
    BY <1>3
  <2> QED
    BY <1>0, <1>1, <1>3, <2>1
<1>10. SubSeq(s, h + 2, h + 1 + L) = tail
  <2>1. /\ SubSeq(s, h + 2, h + 1 + L) \in Seq(Nat) /\ Len(SubSeq(s, h + 2, h + 1 + L)) = L
        /\ \A i \in 1..L : SubSeq(s, h + 2, h + 1 + L)[i] = s[h + 1 + i]
    BY <1>3
  <2> QED
    BY <1>0, <1>2, <1>3, <2>1
<1> HIDE DEF seps, pos
<1>11. SubSeq(s, 1, pos - 1) = hrp
  <2>1. pos - 1 = h
    BY <1>8
  <2> QED
    BY <1>9, <2>1
<1>12. SubSeq(s, pos + 1, Len(s)) = tail
  <2>1. pos + 1 = h + 2 /\ Len(s) = h + 1 + L
    BY <1>3, <1>8
  <2> QED
    BY <1>10, <2>1
<1> QED
  BY <1>1, <1>5, <1>8, <1>11, <1>12 DEF seps, pos

\* What bech32_decode asks of a text that splits, before the checksum
Readable(addr, hrp, tail) ==
    /\ addr # <<>> /\ Chars(addr) \subseteq 33..126
    /\ ~((\E c \in Chars(addr) : IsLower(c)) /\ \E c \in Chars(addr) : IsUpper(c))
    /\ Len(hrp) + 1 > 1 /\ Len(tail) >= 6
    /\ \A c \in Chars(tail) : InCharset(c)

TailValues(tail) == [i \in DOMAIN tail |-> char_to_value(tail[i])]

TailBytes(tail) == convert_bits(SubSeq(TailValues(tail), 1, Len(TailValues(tail)) - 6), 5, 8, FALSE)

BechErrors == {"EmptyInput", "NonPrintable", "MixedCase", "MissingSeparator", "EmptyHrp",
               "ChecksumTooShort", "InvalidCharset", "ChecksumFailed", "InvalidPadding"}

Refused(o) == \E e \in BechErrors : o = Err(e)

\* Checks whose errors are of decoding
LEMMA OutcomeRefuses ==
    ASSUME NEW n \in Nat, NEW checks, NEW value, DOMAIN checks = 1..n,
           \A i \in 1..n : checks[i] = Pass \/ checks[i] \in BechErrors
    PROVE  LET o == Outcome(checks, value)
           IN  /\ (\A i \in 1..n : checks[i] = Pass) => o = Ok(value) /\ o.ok
               /\ ~(\A i \in 1..n : checks[i] = Pass) => ~o.ok /\ Refused(o)
<1> DEFINE o == Outcome(checks, value)
<1>1. \/ (\A i \in 1..n : checks[i] = Pass) /\ o = Ok(value)
      \/ \E f \in 1..n : checks[f] # Pass /\ o = Err(checks[f])
  BY OutcomeFirst
<1> HIDE DEF o
<1>2. CASE \A i \in 1..n : checks[i] = Pass
  BY <1>1, <1>2 DEF Ok, o
<1>3. CASE ~\A i \in 1..n : checks[i] = Pass
  <2>1. PICK f \in 1..n : checks[f] # Pass /\ o = Err(checks[f])
    BY <1>1, <1>3
  <2>2. Refused(o)
    BY <2>1 DEF Refused
  <2> QED
    BY <1>3, <2>1, <2>2 DEF Err, o
<1> QED
  BY <1>2, <1>3

\* convert_bits has one error.
LEMMA ConvertRefuses ==
    ASSUME NEW data, NEW from, NEW to, NEW pad, ~convert_bits(data, from, to, pad).ok
    PROVE  Refused(convert_bits(data, from, to, pad))
<1> DEFINE total   == from * Len(data)
           left    == total % to
           Bit(k)  == k < total /\ from - 1 - (k % from) \in data[k \div from + 1]
           Word(j) == {b \in 0..to - 1 : Bit(to * j - 1 - b)}
           count   == total \div to + (IF pad /\ left > 0 THEN 1 ELSE 0)
           words   == [j \in 1..count |-> Word(j)]
           checks  == <<Check(\A i \in DOMAIN data : data[i] \subseteq 0..from - 1, "InvalidPadding"),
                  Check(pad \/ left < from, "InvalidPadding"),
                  Check(pad \/ ~\E k \in total - left..total - 1 : Bit(k), "InvalidPadding")>>
<1>1. convert_bits(data, from, to, pad) = Outcome(checks, words)
  BY DEF convert_bits
<1>2. DOMAIN checks = 1..3 /\ \A i \in 1..3 : checks[i] \in {Pass, "InvalidPadding"}
  BY DEF Check, Pass
<1> HIDE DEF checks, words
<1>3. /\ (\A i \in 1..3 : checks[i] = Pass) => Outcome(checks, words).ok
      /\ ~(\A i \in 1..3 : checks[i] = Pass) => Refused(Outcome(checks, words))
  <2>1. PICK n \in Nat : n = 3
    OBVIOUS
  <2>2. DOMAIN checks = 1..n /\ \A i \in 1..n : checks[i] = Pass \/ checks[i] \in BechErrors
    BY <1>2, <2>1 DEF BechErrors
  <2>3. LET o == Outcome(checks, words)
        IN  /\ (\A i \in 1..n : checks[i] = Pass) => o = Ok(words) /\ o.ok
            /\ ~(\A i \in 1..n : checks[i] = Pass) => ~o.ok /\ Refused(o)
    BY <2>2, OutcomeRefuses
  <2> QED
    BY <2>1, <2>3
<1> QED
  BY <1>1, <1>3

\* bech32_decode of a text that splits
LEMMA DecodeSplit ==
    ASSUME NEW addr, NEW hrp, NEW tail, Splits(to_ascii_lowercase(addr), hrp, tail)
    PROVE  LET o == bech32_decode(addr)
               b == TailBytes(tail)
           IN  /\ ~Readable(addr, hrp, tail) => Refused(o)
               /\ ~verify_checksum(hrp, TailValues(tail)) => Refused(o)
               /\ ~b.ok => Refused(o)
               /\ Readable(addr, hrp, tail) /\ verify_checksum(hrp, TailValues(tail)) /\ b.ok
                    => o = Ok([hrp |-> hrp, payload |-> b.value])
<1> DEFINE s     == to_ascii_lowercase(addr)
           seps  == {i \in DOMAIN s : s[i] = Separator}
           pos   == IF seps = {} THEN 0 ELSE CHOOSE i \in seps : \A j \in seps : j <= i
           hrp0  == SubSeq(s, 1, pos - 1)
           tail0 == SubSeq(s, pos + 1, Len(s))
           Data(t) == [i \in DOMAIN t |-> char_to_value(t[i])]
           Checking(t) == <<
            Check(addr # <<>>, "EmptyInput"),
            Check(Chars(addr) \subseteq 33..126, "NonPrintable"),
            Check(~((\E c \in Chars(addr) : IsLower(c)) /\ \E c \in Chars(addr) : IsUpper(c)),
                  "MixedCase"),
            Check(seps # {}, "MissingSeparator"),
            Check(pos > 1, "EmptyHrp"),
            Check(Len(t) >= 6, "ChecksumTooShort"),
            Check(\A c \in Chars(t) : InCharset(c), "InvalidCharset")>>
           checks == Checking(tail)
           B(t) == convert_bits(SubSeq(Data(t), 1, Len(Data(t)) - 6), 5, 8, FALSE)
<1>1. bech32_decode(addr)
        = CASE ~Outcome(Checking(tail0), hrp0).ok -> Outcome(Checking(tail0), hrp0)
            [] Outcome(Checking(tail0), hrp0).ok /\ ~verify_checksum(hrp0, Data(tail0)) -> Err("ChecksumFailed")
            [] OTHER -> IF B(tail0).ok THEN Ok([hrp |-> hrp0, payload |-> B(tail0).value]) ELSE B(tail0)
  BY Zenon DEF bech32_decode
<1>2. seps # {} /\ pos = Len(hrp) + 1 /\ hrp0 = hrp /\ tail0 = tail
  <2> HIDE DEF s
  <2>1. Splits(s, hrp, tail)
    BY DEF s
  <2> QED
    BY <2>1, SplitAt
<1> HIDE DEF s, seps, pos, hrp0, tail0, Data, Checking, B
<1>3. bech32_decode(addr)
        = CASE ~Outcome(Checking(tail), hrp).ok -> Outcome(Checking(tail), hrp)
            [] Outcome(Checking(tail), hrp).ok /\ ~verify_checksum(hrp, Data(tail)) -> Err("ChecksumFailed")
            [] OTHER -> IF B(tail).ok THEN Ok([hrp |-> hrp, payload |-> B(tail).value]) ELSE B(tail)
  BY <1>1, <1>2, Zenon
<1>4. Data(tail) = TailValues(tail) /\ B(tail) = TailBytes(tail)
  BY Zenon DEF Data, B, TailValues, TailBytes
<1> DEFINE out == Outcome(checks, hrp)
           ver == verify_checksum(hrp, TailValues(tail))
           b   == TailBytes(tail)
           o   == bech32_decode(addr)
<1>5. o = CASE ~out.ok -> out
            [] out.ok /\ ~ver -> Err("ChecksumFailed")
            [] OTHER -> IF b.ok THEN Ok([hrp |-> hrp, payload |-> b.value]) ELSE b
  BY <1>3, <1>4, Zenon
<1>6. /\ DOMAIN checks = 1..7
      /\ \A i \in 1..7 : checks[i] = Pass \/ checks[i] \in BechErrors
      /\ (\A i \in 1..7 : checks[i] = Pass) <=> Readable(addr, hrp, tail)
  <2> DEFINE p1 == addr # <<>>
             p2 == Chars(addr) \subseteq 33..126
             p3 == ~((\E c \in Chars(addr) : IsLower(c)) /\ \E c \in Chars(addr) : IsUpper(c))
             p4 == seps # {}
             p5 == pos > 1
             p6 == Len(tail) >= 6
             p7 == \A c \in Chars(tail) : InCharset(c)
  <2>1. checks = <<Check(p1, "EmptyInput"), Check(p2, "NonPrintable"), Check(p3, "MixedCase"),
                   Check(p4, "MissingSeparator"), Check(p5, "EmptyHrp"),
                   Check(p6, "ChecksumTooShort"), Check(p7, "InvalidCharset")>>
    BY Zenon DEF Checking
  <2>2. Readable(addr, hrp, tail) <=> p1 /\ p2 /\ p3 /\ p4 /\ p5 /\ p6 /\ p7
    BY <1>2, Zenon DEF Readable
  <2> HIDE DEF p1, p2, p3, p4, p5, p6, p7, checks
  <2>3. DOMAIN checks = 1..7
    BY <2>1
  <2>4. \A i \in 1..7 : checks[i] = Pass \/ checks[i] \in BechErrors
    BY <2>1 DEF Check, BechErrors
  <2>5. (\A i \in 1..7 : checks[i] = Pass) <=> p1 /\ p2 /\ p3 /\ p4 /\ p5 /\ p6 /\ p7
    BY <2>1 DEF Check, Pass
  <2> QED
    BY <2>2, <2>3, <2>4, <2>5
<1> HIDE DEF checks, ver
<1>7. /\ Readable(addr, hrp, tail) => out.ok
      /\ ~Readable(addr, hrp, tail) => ~out.ok /\ Refused(out)
  <2>1. PICK n \in Nat : n = 7
    OBVIOUS
  <2>2. DOMAIN checks = 1..n /\ \A i \in 1..n : checks[i] = Pass \/ checks[i] \in BechErrors
    BY <1>6, <2>1
  <2>3. /\ (\A i \in 1..n : checks[i] = Pass) => out = Ok(hrp) /\ out.ok
        /\ ~(\A i \in 1..n : checks[i] = Pass) => ~out.ok /\ Refused(out)
    BY <2>2, OutcomeRefuses
  <2> QED
    BY <1>6, <2>1, <2>3
<1> HIDE DEF out, b, o
<1>8. CASE ~out.ok
  <2>1. o = out
    BY <1>5, <1>8
  <2> QED
    BY <1>7, <1>8, <2>1 DEF ver, b, o
<1>9. CASE out.ok /\ ~ver
  <2>1. o = Err("ChecksumFailed")
    BY <1>5, <1>9
  <2>2. Refused(o)
    BY <2>1 DEF Refused, BechErrors
  <2> QED
    BY <1>7, <1>9, <2>2 DEF ver, b, o
<1>10. CASE out.ok /\ ver /\ b.ok
  <2>1. o = Ok([hrp |-> hrp, payload |-> b.value])
    BY <1>5, <1>10
  <2> QED
    BY <1>7, <1>10, <2>1 DEF ver, b, o
<1>11. CASE out.ok /\ ver /\ ~b.ok
  <2>1. o = b
    BY <1>5, <1>11
  <2>2. Refused(b)
    BY <1>11, ConvertRefuses DEF b, TailBytes
  <2> QED
    BY <1>7, <1>11, <2>1, <2>2 DEF ver, b, o
<1> QED
  BY <1>8, <1>9, <1>10, <1>11

-----------------------------------------------------------------------------
(* Regrouping                                                              *)

\* Bit k of a stream of groups of width w
Stream(data, w, k) == w - 1 - (k % w) \in data[k \div w + 1]

\* m groups of five bits hold n bytes, and what is left over is zero.
Regrouped(g, m, p, n) ==
    /\ g \in [1..m -> Groups]
    /\ \A j \in 1..m, b \in 0..4 :
           b \in g[j] <=> 5 * j - 1 - b < 8 * n /\ Stream(p, 8, 5 * j - 1 - b)

\* The number of groups
GroupCount(n, m) == 8 * n <= 5 * m /\ 5 * m <= 8 * n + 4

\* The encoder's regrouping
LEMMA ConvertUp ==
    ASSUME NEW p \in Seq(Bytes), NEW n \in Nat, HasLen(p, n)
    PROVE  \E m \in Nat : /\ GroupCount(n, m)
                          /\ Regrouped(convert_bits(p, 8, 5, TRUE).value, m, p, n)
<1> DEFINE total   == 8 * Len(p)
           left    == total % 5
           Bit(k)  == k < total /\ 8 - 1 - (k % 8) \in p[k \div 8 + 1]
           Word(j) == {b \in 0..5 - 1 : Bit(5 * j - 1 - b)}
           count   == total \div 5 + (IF TRUE /\ left > 0 THEN 1 ELSE 0)
           words   == [j \in 1..count |-> Word(j)]
           checks  == <<Check(\A i \in DOMAIN p : p[i] \subseteq 0..8 - 1, "InvalidPadding"),
                  Check(TRUE \/ left < 8, "InvalidPadding"),
                  Check(TRUE \/ ~\E k \in total - left..total - 1 : Bit(k), "InvalidPadding")>>
<1>1. convert_bits(p, 8, 5, TRUE) = Outcome(checks, words)
  BY DEF convert_bits
<1>2. Len(p) = n
  BY DEF HasLen
<1>3. total = 8 * n
  BY <1>2
<1>4. DOMAIN checks = 1..3 /\ \A i \in 1..3 : checks[i] = Pass
  <2>1. \A i \in DOMAIN p : p[i] \subseteq 0..8 - 1
    BY DEF Bytes
  <2> HIDE DEF total, left, Bit
  <2> QED
    BY <2>1 DEF Check
<1>5. convert_bits(p, 8, 5, TRUE).value = words
  <2> HIDE DEF checks, words
  <2> QED
    BY <1>1, <1>4, OutcomeOk
<1> HIDE DEF total
<1>6. PICK m \in Nat : m = count /\ GroupCount(n, m)
  BY <1>3 DEF GroupCount
<1> HIDE DEF count
<1>7. words \in [1..m -> Groups]
  <2>1. \A j : Word(j) \in Groups
    BY DEF Groups
  <2> HIDE DEF Word
  <2> QED
    BY <1>6, <2>1
<1>8. ASSUME NEW j \in 1..m, NEW b \in 0..4
      PROVE  b \in words[j] <=> 5 * j - 1 - b < 8 * n /\ Stream(p, 8, 5 * j - 1 - b)
  <2>1. words[j] = Word(j)
    BY <1>6
  <2>2. b \in Word(j) <=> Bit(5 * j - 1 - b)
    <3> HIDE DEF Bit
    <3> QED
      OBVIOUS
  <2> QED
    BY <1>3, <2>1, <2>2 DEF Stream
<1> QED
  BY <1>5, <1>6, <1>7, <1>8 DEF Regrouped

\* The decoder's regrouping undoes it.
LEMMA ConvertDown ==
    ASSUME NEW p \in Seq(Bytes), NEW n \in Nat, HasLen(p, n), NEW m \in Nat, NEW g \in Seq(Groups),
           HasLen(g, m), GroupCount(n, m), Regrouped(g, m, p, n)
    PROVE  convert_bits(g, 5, 8, FALSE) = Ok(p)
<1> DEFINE total   == 5 * Len(g)
           left    == total % 8
           Bit(k)  == k < total /\ 5 - 1 - (k % 5) \in g[k \div 5 + 1]
           Word(j) == {b \in 0..8 - 1 : Bit(8 * j - 1 - b)}
           count   == total \div 8 + (IF FALSE /\ left > 0 THEN 1 ELSE 0)
           words   == [j \in 1..count |-> Word(j)]
           checks  == <<Check(\A i \in DOMAIN g : g[i] \subseteq 0..5 - 1, "InvalidPadding"),
                  Check(FALSE \/ left < 5, "InvalidPadding"),
                  Check(FALSE \/ ~\E k \in total - left..total - 1 : Bit(k), "InvalidPadding")>>
<1>1. convert_bits(g, 5, 8, FALSE) = Outcome(checks, words)
  BY DEF convert_bits
<1>2. Len(g) = m /\ Len(p) = n /\ total = 5 * m
  BY DEF HasLen
<1>3. \A i \in DOMAIN g : g[i] \subseteq 0..5 - 1
  BY DEF Groups
<1>4. ASSUME NEW k \in 0..5 * m - 1
      PROVE  Bit(k) <=> k < 8 * n /\ Stream(p, 8, k)
  <2>1. PICK j \in Int, b \in Int : j = k \div 5 + 1 /\ b = 4 - (k % 5)
    OBVIOUS
  <2>2. j \in 1..m /\ b \in 0..4 /\ 5 * j - 1 - b = k
    BY <2>1
  <2>3. b \in g[j] <=> k < 8 * n /\ Stream(p, 8, k)
    BY <2>2 DEF Regrouped
  <2>4. Bit(k) <=> b \in g[j]
    BY <1>2, <2>1
  <2> QED
    BY <2>3, <2>4
<1> HIDE DEF Bit, total
<1>5. left < 5 /\ count = n /\ total - left = 8 * n
  BY <1>2 DEF GroupCount
<1>6. ~\E k \in total - left..total - 1 : Bit(k)
  <2> SUFFICES ASSUME NEW k \in total - left..total - 1, Bit(k) PROVE FALSE
    OBVIOUS
  <2>1. k \in 0..5 * m - 1 /\ ~(k < 8 * n)
    BY <1>2, <1>5
  <2> QED
    BY <1>4, <2>1
<1>7. DOMAIN checks = 1..3 /\ \A i \in 1..3 : checks[i] = Pass
  <2> HIDE DEF left
  <2> QED
    BY <1>3, <1>5, <1>6 DEF Check
<1>8. convert_bits(g, 5, 8, FALSE) = Ok(words)
  <2> HIDE DEF checks, words
  <2> QED
    BY <1>1, <1>7, OutcomeOk
<1>9. ASSUME NEW j \in 1..n PROVE Word(j) = p[j]
  <2>1. p[j] \subseteq 0..7
    BY <1>2 DEF Bytes
  <2>2. ASSUME NEW b \in 0..7 PROVE Bit(8 * j - 1 - b) <=> b \in p[j]
    <3>1. PICK k \in Int : k = 8 * j - 1 - b
      OBVIOUS
    <3>2. k \in 0..8 * n - 1 /\ k < 8 * n /\ k % 8 = 7 - b /\ k \div 8 + 1 = j
      BY <3>1
    <3>3. k \in 0..5 * m - 1
      BY <3>2 DEF GroupCount
    <3>4. Stream(p, 8, k) <=> b \in p[j]
      <4>1. 8 - 1 - (k % 8) = b
        BY <3>2
      <4> QED
        BY <3>2, <4>1 DEF Stream
    <3> QED
      BY <1>4, <3>1, <3>2, <3>3, <3>4
  <2>3. \A b : b \in Word(j) <=> b \in 0..7 /\ Bit(8 * j - 1 - b)
    OBVIOUS
  <2> HIDE DEF Word
  <2>4. \A b : b \in Word(j) <=> b \in p[j]
    BY <2>1, <2>2, <2>3
  <2> QED
    BY <2>4
<1> HIDE DEF Word, count
<1>10. words = p
  BY <1>2, <1>5, <1>9
<1> QED
  BY <1>8, <1>10

-----------------------------------------------------------------------------
(* Encoded texts                                                           *)

\* payload is in the groups g, which with their checksum are all, and as
\* characters tail.
Encoded(hrp, payload, m, g, all, tail) ==
    /\ g \in Seq(Groups) /\ all \in Seq(Groups) /\ tail \in Seq(Nat)
    /\ HasLen(g, m) /\ HasLen(all, m + 6) /\ HasLen(tail, m + 6)
    /\ convert_bits(g, 5, 8, FALSE) = Ok(payload)
    /\ \A i \in 1..m : all[i] = g[i]
    /\ \A i \in 1..m + 6 : tail[i] = value_to_char(all[i])
    /\ verify_checksum(hrp, all)
    /\ bech32_encode(hrp, payload) = hrp \o <<Separator>> \o tail

\* The encoder's text has these parts.
LEMMA EncodedParts ==
    ASSUME NEW hrp \in Seq(Nat), NEW payload \in Seq(Bytes), NEW n \in Nat, HasLen(payload, n)
    PROVE  \E m \in Nat : \E g, all, tail : GroupCount(n, m) /\ Encoded(hrp, payload, m, g, all, tail)
<1>1. PICK g : g = convert_bits(payload, 8, 5, TRUE).value
  OBVIOUS
<1>2. PICK m \in Nat : GroupCount(n, m) /\ Regrouped(g, m, payload, n)
  BY <1>1, ConvertUp
<1>3. g \in Seq(Groups) /\ HasLen(g, m)
  <2>1. g \in [1..m -> Groups]
    BY <1>2 DEF Regrouped
  <2> QED
    BY <2>1, SeqOfKnown
<1>4. convert_bits(g, 5, 8, FALSE) = Ok(payload)
  BY <1>2, <1>3, ConvertDown
<1>5. Groups \subseteq Bytes
  BY DEF Groups, Bytes
<1>6. PICK bytes \in Seq(Bytes) : bytes = g
  BY <1>3, <1>5
<1>7. PICK sum : sum = create_checksum(hrp, g)
  OBVIOUS
<1>8. sum \in Seq(Groups) /\ HasLen(sum, 6) /\ verify_checksum(hrp, g \o sum)
  <2>1. /\ create_checksum(hrp, bytes) \in Seq(Groups) /\ HasLen(create_checksum(hrp, bytes), 6)
        /\ verify_checksum(hrp, bytes \o create_checksum(hrp, bytes))
    BY ChecksumVerifies
  <2> QED
    BY <1>6, <1>7, <2>1
<1>9. PICK all : all = g \o sum
  OBVIOUS
<1>10. PICK six \in Nat : six = 6 /\ HasLen(sum, six)
  BY <1>8
<1>11. all \in Seq(Groups) /\ Len(all) = m + six /\ \A i \in 1..m : all[i] = g[i]
  <2>1. Len(g) = m /\ Len(sum) = six
    BY <1>3, <1>10 DEF HasLen
  <2>0. PICK S : S = Groups
    OBVIOUS
  <2>2. g \in Seq(S) /\ sum \in Seq(S)
    BY <1>3, <1>8, <2>0
  <2>3. g \o sum \in Seq(S)
    BY ONLY <2>2
  <2>4. Len(g \o sum) = m + six
    <3>1. Len(g \o sum) = Len(g) + Len(sum)
      BY ONLY <2>2
    <3> QED
      BY <2>1, <3>1
  <2>5. \A i \in 1..m : (g \o sum)[i] = g[i]
    BY ONLY <2>1, <2>2, m \in Nat, six \in Nat
  <2> QED
    BY <1>9, <2>0, <2>3, <2>4, <2>5
<1>12. PICK M \in Nat : M = m + 6 /\ Len(all) = M /\ DOMAIN all = 1..M
  <2>1. Len(all) = m + 6
    BY <1>10, <1>11
  <2> QED
    BY <1>11, <2>1
<1>13. PICK tail : tail = [i \in DOMAIN all |-> value_to_char(all[i])]
  OBVIOUS
<1>14. ASSUME NEW i \in 1..M PROVE value_to_char(all[i]) \in Nat
  <2>1. all[i] \in SUBSET (0..4)
    BY <1>11, <1>12 DEF Groups
  <2>2. PICK c \in 48..122 : c = value_to_char(all[i])
    BY <2>1, CharRoundTrip
  <2>3. c \in Nat
    OBVIOUS
  <2> QED
    BY <2>2, <2>3
<1>15. tail \in Seq(Nat) /\ HasLen(tail, M) /\ \A i \in 1..M : tail[i] = value_to_char(all[i])
  <2>1. tail \in [1..M -> Nat]
    BY <1>12, <1>13, <1>14
  <2> QED
    BY <1>12, <1>13, <2>1, SeqOfKnown
<1>16. bech32_encode(hrp, payload) = hrp \o <<Separator>> \o tail
  BY <1>1, <1>7, <1>9, <1>13 DEF bech32_encode
<1>17. HasLen(all, m + 6) /\ HasLen(tail, m + 6)
  BY <1>12, <1>15 DEF HasLen
<1>18. \A i \in 1..m + 6 : tail[i] = value_to_char(all[i])
  BY <1>12, <1>15
<1>19. verify_checksum(hrp, all)
  BY <1>8, <1>9
<1>20. Encoded(hrp, payload, m, g, all, tail)
  BY <1>3, <1>4, <1>11, <1>15, <1>16, <1>17, <1>18, <1>19 DEF Encoded
<1> QED
  BY <1>2, <1>20

\* How an encoded text is read
LEMMA EncodedReads ==
    ASSUME NEW hrp \in Seq(Nat), NEW payload, NEW m \in Nat, NEW g, NEW all, NEW tail,
           Encoded(hrp, payload, m, g, all, tail)
    PROVE  /\ Splits(bech32_encode(hrp, payload), hrp, tail)
           /\ \A c \in Chars(tail) : InCharset(c) /\ c \in 48..122 /\ ~IsUpper(c)
           /\ TailValues(tail) = all
           /\ TailBytes(tail) = Ok(payload)
<1>1. PICK M \in Nat : M = m + 6 /\ Len(tail) = M /\ Len(all) = M /\ Len(g) = m
  BY DEF Encoded, HasLen
<1>2. tail \in Seq(Nat) /\ all \in Seq(Groups) /\ g \in Seq(Groups)
  BY DEF Encoded
<1>3. DOMAIN tail = 1..M /\ DOMAIN all = 1..M /\ DOMAIN g = 1..m
  BY <1>1, <1>2
<1>4. ASSUME NEW i \in 1..M
      PROVE  /\ tail[i] \in 48..122 /\ tail[i] # Separator /\ ~IsUpper(tail[i])
             /\ InCharset(tail[i]) /\ char_to_value(tail[i]) = all[i]
  <2>1. tail[i] = value_to_char(all[i])
    BY <1>1 DEF Encoded
  <2>0. all[i] \in Groups
    BY <1>2, <1>3
  <2>2. PICK v \in SUBSET (0..4) : v = all[i]
    BY <2>0, Zenon DEF Groups
  <2> QED
    BY <2>1, <2>2, CharRoundTrip
<1>5. Splits(bech32_encode(hrp, payload), hrp, tail)
  <2>1. \A i \in DOMAIN tail : tail[i] # Separator
    BY <1>3, <1>4
  <2> QED
    BY <1>2, <2>1 DEF Splits, Encoded
<1>6. \A c \in Chars(tail) : InCharset(c) /\ c \in 48..122 /\ ~IsUpper(c)
  BY <1>3, <1>4 DEF Chars
<1>7. TailValues(tail) = all
  <2>1. DOMAIN TailValues(tail) = 1..M /\ \A i \in 1..M : TailValues(tail)[i] = all[i]
    BY <1>3, <1>4 DEF TailValues
  <2>2. TailValues(tail) = [i \in 1..M |-> TailValues(tail)[i]]
    BY <1>3 DEF TailValues
  <2>3. all = [i \in 1..M |-> all[i]]
    BY <1>2, <1>3
  <2> QED
    BY <2>1, <2>2, <2>3
<1>8. SubSeq(all, 1, Len(all) - 6) = g
  <2>1. Len(all) - 6 = m
    BY <1>1
  <2>2. /\ SubSeq(all, 1, m) \in Seq(Groups) /\ Len(SubSeq(all, 1, m)) = m
        /\ \A i \in 1..m : SubSeq(all, 1, m)[i] = all[i]
    BY <1>1, <1>2
  <2>3. \A i \in 1..m : all[i] = g[i]
    BY DEF Encoded
  <2>4. SubSeq(all, 1, m) = g
    BY <1>1, <1>2, <2>2, <2>3
  <2> QED
    BY <2>1, <2>4
<1>9. TailBytes(tail) = Ok(payload)
  BY <1>7, <1>8 DEF TailBytes, Encoded
<1> QED
  BY <1>5, <1>6, <1>7, <1>9

Mixed(addr) == (\E c \in Chars(addr) : IsLower(c)) /\ \E c \in Chars(addr) : IsUpper(c)

\* What the encoder made is read back, unless small and capital letters are mixed.
LEMMA DecodeEncoded ==
    ASSUME NEW hrp \in Seq(Nat), hrp # <<>>, \A i \in DOMAIN hrp : hrp[i] \in 33..126,
           NEW payload \in Seq(Bytes), NEW addr \in Seq(Nat),
           to_ascii_lowercase(addr) = bech32_encode(hrp, payload)
    PROVE  IF Mixed(addr) THEN Refused(bech32_decode(addr))
           ELSE bech32_decode(addr) = Ok([hrp |-> hrp, payload |-> payload])
<1>1. PICK n \in Nat : HasLen(payload, n)
  BY DEF HasLen
<1>size. PICK m \in Nat : \E g, all, tail : Encoded(hrp, payload, m, g, all, tail)
  BY <1>1, EncodedParts
<1>2. PICK g, all, tail : Encoded(hrp, payload, m, g, all, tail)
  BY <1>size
<1>3. /\ Splits(bech32_encode(hrp, payload), hrp, tail)
      /\ \A c \in Chars(tail) : InCharset(c) /\ c \in 48..122 /\ ~IsUpper(c)
      /\ TailValues(tail) = all
      /\ TailBytes(tail) = Ok(payload)
  BY <1>2, EncodedReads
<1>4. PICK s : s = to_ascii_lowercase(addr)
  OBVIOUS
<1>5. Splits(s, hrp, tail)
  BY <1>3, <1>4
<1>6. PICK h \in Nat : Len(hrp) = h /\ h > 0
  <2>1. Len(hrp) \in Nat /\ Len(hrp) # 0
    OBVIOUS
  <2> QED
    BY <2>1
<1>7. PICK L \in Nat : Len(tail) = L /\ L >= 6
  <2>1. tail \in Seq(Nat) /\ HasLen(tail, m + 6)
    BY <1>2 DEF Encoded
  <2> QED
    BY <2>1 DEF HasLen
<1>8. /\ s \in Seq(Nat) /\ Len(s) = h + 1 + L
      /\ \A i \in 1..h : s[i] = hrp[i]
      /\ s[h + 1] = Separator
      /\ \A i \in 1..L : s[h + 1 + i] = tail[i]
  <2>1. HasLen(hrp, h) /\ HasLen(tail, L)
    BY <1>6, <1>7 DEF HasLen
  <2>2. Spelled(s, hrp, h, tail, L)
    BY ONLY <1>5, <2>1, h \in Nat, L \in Nat, SplitChars
  <2> QED
    BY <2>2, Zenon DEF Spelled
<1>9. DOMAIN addr = 1..h + 1 + L
  <2>1. DOMAIN s = DOMAIN addr
    BY <1>4 DEF to_ascii_lowercase
  <2> QED
    BY <1>8, <2>1
<1>10. addr # <<>>
  <2>1. 1 \in DOMAIN addr
    BY <1>9
  <2> QED
    BY <2>1
<1>11. ASSUME NEW i \in 1..h + 1 + L PROVE s[i] \in 33..126
  <2>1. CASE i \in 1..h
    <3>0. i \in DOMAIN hrp
      BY <1>6, <2>1
    <3>1. hrp[i] \in 33..126
      BY <3>0
    <3> QED
      BY <1>8, <2>1, <3>1
  <2>2. CASE i = h + 1
    BY <1>8, <2>2 DEF Separator
  <2>3. CASE i > h + 1
    <3>1. PICK j \in 1..L : i = h + 1 + j
      <4>1. i - (h + 1) \in 1..L /\ i = h + 1 + (i - (h + 1))
        BY <2>3
      <4> QED
        BY <4>1
    <3>2. tail \in Seq(Nat)
      BY <1>2 DEF Encoded
    <3>3. tail[j] \in Chars(tail)
      BY <1>7, <3>2 DEF Chars
    <3>4. PICK c \in 48..122 : c = tail[j]
      BY <1>3, <3>3
    <3>5. c \in 33..126
      OBVIOUS
    <3>6. s[h + 1 + j] = tail[j]
      BY <1>8
    <3>7. s[i] = c
      BY <3>1, <3>4, <3>6
    <3> QED
      BY <3>5, <3>7
  <2> QED
    BY <2>1, <2>2, <2>3
<1>12. Chars(addr) \subseteq 33..126
  <2>1. ASSUME NEW i \in DOMAIN addr PROVE addr[i] \in 33..126
    <3>1. s[i] = IF IsUpper(addr[i]) THEN addr[i] + 32 ELSE addr[i]
      BY <1>4 DEF to_ascii_lowercase
    <3>2. s[i] \in 33..126
      BY <1>9, <1>11
    <3>3. CASE IsUpper(addr[i])
      BY <3>3 DEF IsUpper
    <3>4. CASE ~IsUpper(addr[i])
      BY <3>1, <3>2, <3>4
    <3> QED
      BY <3>3, <3>4
  <2> QED
    BY <2>1 DEF Chars
<1>13. Readable(addr, hrp, tail) <=> ~Mixed(addr)
  <2>1. Len(hrp) + 1 > 1 /\ Len(tail) >= 6
    BY <1>6, <1>7
  <2>2. \A c \in Chars(tail) : InCharset(c)
    BY <1>3
  <2> QED
    BY <1>10, <1>12, <2>1, <2>2, Zenon DEF Readable, Mixed
<1>14. verify_checksum(hrp, TailValues(tail))
  BY <1>2, <1>3 DEF Encoded
<1>15. TailBytes(tail).ok /\ TailBytes(tail).value = payload
  BY <1>3 DEF Ok
<1>16. Splits(to_ascii_lowercase(addr), hrp, tail)
  BY <1>4, <1>5
<1>17. /\ ~Readable(addr, hrp, tail) => Refused(bech32_decode(addr))
       /\ Readable(addr, hrp, tail) => bech32_decode(addr) = Ok([hrp |-> hrp, payload |-> payload])
  BY ONLY <1>14, <1>15, <1>16, DecodeSplit
<1> QED
  BY <1>13, <1>17

-----------------------------------------------------------------------------
(* The payload                                                             *)

\* Small numbers have low bits only.
LEMMA BitsBelow ==
    /\ \A n \in 0..31 : Bits(n) \subseteq 0..4
    /\ \A n \in 0..15 : Bits(n) \subseteq 0..3
<1>1. ASSUME NEW n \in 0..31 PROVE Bits(n) \subseteq 0..4
  <2>1. (n \div 32) % 2 = 0 /\ (n \div 64) % 2 = 0 /\ (n \div 128) % 2 = 0
    OBVIOUS
  <2> QED
    BY <2>1, BitsAre
<1>2. ASSUME NEW n \in 0..15 PROVE Bits(n) \subseteq 0..3
  <2>1. (n \div 16) % 2 = 0
    OBVIOUS
  <2>2. 4 \notin Bits(n) /\ Bits(n) \subseteq 0..4
    <3>1. n \in 0..31 /\ n \in Nat
      OBVIOUS
    <3> QED
      BY <1>1, <2>1, <3>1, BitsAre
  <2> QED
    BY <2>2
<1> QED
  BY <1>1, <1>2

\* Where the bits of a value go
LEMMA PutIn ==
    ASSUME NEW v, NEW lo \in Nat, NEW w \in Nat, Bits(v) \subseteq 0..w
    PROVE  \A x \in Int : x \in Put(v, lo) <=> x - lo \in 0..w /\ x - lo \in Bits(v)
<1> DEFINE B == Bits(v)
<1> HIDE DEF B
<1>1. B \subseteq 0..w
  BY DEF B
<1>2. \A x \in Int : x \in {lo + b : b \in B} <=> x - lo \in 0..w /\ x - lo \in B
  <2> TAKE x \in Int
  <2>1. x = lo + (x - lo)
    OBVIOUS
  <2>2. ASSUME NEW b \in B, x = lo + b PROVE x - lo = b
    BY <1>1, <2>2
  <2>3. \A b \in B : b \in 0..w
    BY <1>1
  <2> QED
    BY <2>1, <2>2, <2>3
<1> QED
  BY <1>2 DEF Put, B

\* A value read where it was put
LEMMA FieldOf ==
    ASSUME NEW word, NEW lo \in Nat, NEW v \in 0..255, NEW width \in Nat,
           Bits(v) \subseteq 0..width - 1,
           \A b \in 0..width - 1 : lo + b \in word <=> b \in Bits(v)
    PROVE  Field(word, lo, width) = v
<1>1. {b \in 0..width - 1 : lo + b \in word} = Bits(v)
  OBVIOUS
<1> QED
  BY <1>1, NumberOfBits DEF Field

\* The packed limits
Packed(l) == Put(l.rate_buckets, 0) \cup Put(l.latency_services, 5)
                    \cup Put(l.metrics_labels, 10) \cup Put(l.latency_buffer, 15)
                    \cup Put(l.dedup_ttl_ms_max \div 10, 19) \cup Put(l.rate_window, 27)

\* word holds the six fields.
Holds(word, rate, lat, met, buf, units, win) ==
    \A x \in 0..31 : x \in word <=>
        x \in Put(rate, 0) \cup Put(lat, 5) \cup Put(met, 10) \cup Put(buf, 15)
                \cup Put(units, 19) \cup Put(win, 27)

\* The six fields of word
Fields(word, rate, lat, met, buf, units, win) ==
    /\ Field(word, 0, 5) = rate /\ Field(word, 5, 5) = lat /\ Field(word, 10, 5) = met
    /\ Field(word, 15, 4) = buf /\ Field(word, 19, 8) = units /\ Field(word, 27, 5) = win

\* The six fields do not overlap.
LEMMA PackedFields ==
    ASSUME NEW word, NEW rate \in 0..31, NEW lat \in 0..31, NEW met \in 0..31, NEW buf \in 0..15,
           NEW units \in 0..255, NEW win \in 0..31,
           Holds(word, rate, lat, met, buf, units, win)
    PROVE  Fields(word, rate, lat, met, buf, units, win)
<1>1. /\ Bits(rate) \subseteq 0..4 /\ Bits(lat) \subseteq 0..4 /\ Bits(met) \subseteq 0..4
      /\ Bits(buf) \subseteq 0..3 /\ Bits(units) \subseteq 0..7 /\ Bits(win) \subseteq 0..4
  BY BitsBelow DEF Bits
<1>2. /\ 0 \in Nat /\ 5 \in Nat /\ 10 \in Nat /\ 15 \in Nat /\ 19 \in Nat /\ 27 \in Nat
      /\ 3 \in Nat /\ 4 \in Nat /\ 7 \in Nat /\ 8 \in Nat
  OBVIOUS
<1>3. /\ \A x \in Int : x \in Put(rate, 0) <=> x - 0 \in 0..4 /\ x - 0 \in Bits(rate)
      /\ \A x \in Int : x \in Put(lat, 5) <=> x - 5 \in 0..4 /\ x - 5 \in Bits(lat)
      /\ \A x \in Int : x \in Put(met, 10) <=> x - 10 \in 0..4 /\ x - 10 \in Bits(met)
      /\ \A x \in Int : x \in Put(buf, 15) <=> x - 15 \in 0..3 /\ x - 15 \in Bits(buf)
      /\ \A x \in Int : x \in Put(units, 19) <=> x - 19 \in 0..7 /\ x - 19 \in Bits(units)
      /\ \A x \in Int : x \in Put(win, 27) <=> x - 27 \in 0..4 /\ x - 27 \in Bits(win)
  BY <1>1, <1>2, PutIn
<1>4. \A x \in 0..31 : x \in word <=>
          \/ x - 0 \in 0..4 /\ x - 0 \in Bits(rate)
          \/ x - 5 \in 0..4 /\ x - 5 \in Bits(lat)
          \/ x - 10 \in 0..4 /\ x - 10 \in Bits(met)
          \/ x - 15 \in 0..3 /\ x - 15 \in Bits(buf)
          \/ x - 19 \in 0..7 /\ x - 19 \in Bits(units)
          \/ x - 27 \in 0..4 /\ x - 27 \in Bits(win)
  BY <1>3 DEF Holds
<1>5. /\ \A b \in 0..5 - 1 : 0 + b \in word <=> b \in Bits(rate)
      /\ \A b \in 0..5 - 1 : 5 + b \in word <=> b \in Bits(lat)
      /\ \A b \in 0..5 - 1 : 10 + b \in word <=> b \in Bits(met)
      /\ \A b \in 0..4 - 1 : 15 + b \in word <=> b \in Bits(buf)
      /\ \A b \in 0..8 - 1 : 19 + b \in word <=> b \in Bits(units)
      /\ \A b \in 0..5 - 1 : 27 + b \in word <=> b \in Bits(win)
  BY <1>4
<1>6. /\ Bits(rate) \subseteq 0..5 - 1 /\ Bits(lat) \subseteq 0..5 - 1 /\ Bits(met) \subseteq 0..5 - 1
      /\ Bits(buf) \subseteq 0..4 - 1 /\ Bits(units) \subseteq 0..8 - 1 /\ Bits(win) \subseteq 0..5 - 1
  BY <1>1
<1>7. /\ rate \in 0..255 /\ lat \in 0..255 /\ met \in 0..255 /\ buf \in 0..255 /\ win \in 0..255
  OBVIOUS
<1>8. Field(word, 0, 5) = rate
  <2>1. rate \in 0..255 /\ Bits(rate) \subseteq 0..5 - 1 /\ \A b \in 0..5 - 1 : 0 + b \in word <=> b \in Bits(rate)
    BY <1>5, <1>6, <1>7
  <2> QED
    BY ONLY <1>2, <2>1, FieldOf
<1>9. Field(word, 5, 5) = lat
  <2>1. lat \in 0..255 /\ Bits(lat) \subseteq 0..5 - 1 /\ \A b \in 0..5 - 1 : 5 + b \in word <=> b \in Bits(lat)
    BY <1>5, <1>6, <1>7
  <2> QED
    BY ONLY <1>2, <2>1, FieldOf
<1>10. Field(word, 10, 5) = met
  <2>1. met \in 0..255 /\ Bits(met) \subseteq 0..5 - 1 /\ \A b \in 0..5 - 1 : 10 + b \in word <=> b \in Bits(met)
    BY <1>5, <1>6, <1>7
  <2> QED
    BY ONLY <1>2, <2>1, FieldOf
<1>11. Field(word, 15, 4) = buf
  <2>1. buf \in 0..255 /\ Bits(buf) \subseteq 0..4 - 1 /\ \A b \in 0..4 - 1 : 15 + b \in word <=> b \in Bits(buf)
    BY <1>5, <1>6, <1>7
  <2> QED
    BY ONLY <1>2, <2>1, FieldOf
<1>12. Field(word, 19, 8) = units
  <2>1. units \in 0..255 /\ Bits(units) \subseteq 0..8 - 1 /\ \A b \in 0..8 - 1 : 19 + b \in word <=> b \in Bits(units)
    BY <1>5, <1>6, <1>7
  <2> QED
    BY ONLY <1>2, <2>1, FieldOf
<1>13. Field(word, 27, 5) = win
  <2>1. win \in 0..255 /\ Bits(win) \subseteq 0..5 - 1 /\ \A b \in 0..5 - 1 : 27 + b \in word <=> b \in Bits(win)
    BY <1>5, <1>6, <1>7
  <2> QED
    BY ONLY <1>2, <2>1, FieldOf
<1> QED
  BY <1>8, <1>9, <1>10, <1>11, <1>12, <1>13 DEF Fields

Limits == [rate_buckets : Nat, latency_services : Nat, metrics_labels : Nat,
           latency_buffer : Nat, dedup_ttl_ms_max : Nat, rate_window : Nat]

\* The quotas of an issued key
Issued(l) ==
    /\ l \in Limits
    /\ l.rate_buckets <= 24 /\ l.latency_services <= 24
    /\ l.metrics_labels <= 31 /\ l.latency_buffer <= 15 /\ l.rate_window <= 31
    /\ \E units \in 1..200 : l.dedup_ttl_ms_max = 10 * units

\* Byte i of the packed limits
LimitByte(l, i) == {b \in 0..7 : 8 * (i - 1) + b \in Packed(l)}

\* The limits are read as they were packed.
LEMMA LimitsRead ==
    ASSUME NEW payload, NEW offset \in Nat, Len(payload) = offset + 4, NEW l, Issued(l),
           \A i \in 1..4 : Byte(payload, offset + i) = LimitByte(l, i)
    PROVE  limits_from_payload(payload, offset) = Ok(l)
<1> DEFINE word   == {k \in 0..31 : k % 8 \in Byte(payload, offset + (k \div 8) + 1)}
<1>1. PICK rate, lat, met, buf, ttl, win :
        /\ rate = l.rate_buckets /\ lat = l.latency_services /\ met = l.metrics_labels
        /\ buf = l.latency_buffer /\ ttl = l.dedup_ttl_ms_max /\ win = l.rate_window
  OBVIOUS
<1>2. /\ rate \in Nat /\ lat \in Nat /\ met \in Nat /\ buf \in Nat /\ ttl \in Nat /\ win \in Nat
      /\ l = [rate_buckets |-> rate, latency_services |-> lat, metrics_labels |-> met,
              latency_buffer |-> buf, dedup_ttl_ms_max |-> ttl, rate_window |-> win]
  BY <1>1 DEF Issued, Limits
<1>3. PICK units \in 1..200 : ttl = 10 * units
  BY <1>1 DEF Issued
<1>4. rate <= 24 /\ lat <= 24 /\ met <= 31 /\ buf <= 15 /\ win <= 31
  BY <1>1 DEF Issued
<1>5. ttl \div 10 = units
  BY <1>3
<1>6. Packed(l) = Put(rate, 0) \cup Put(lat, 5) \cup Put(met, 10) \cup Put(buf, 15)
                    \cup Put(units, 19) \cup Put(win, 27)
  BY <1>1, <1>5, Zenon DEF Packed
<1>7. ASSUME NEW k \in 0..31 PROVE k \in word <=> k \in Packed(l)
  <2>1. PICK q \in 1..4, r \in 0..7 : q = k \div 8 + 1 /\ r = k % 8
    OBVIOUS
  <2>2. 8 * (q - 1) + r = k /\ offset + (k \div 8) + 1 = offset + q
    BY <2>1
  <2>3. Byte(payload, offset + q) = {b \in 0..7 : 8 * (q - 1) + b \in Packed(l)}
    BY DEF LimitByte
  <2> QED
    BY <2>1, <2>2, <2>3
<1> HIDE DEF word
<1>8. /\ rate \in 0..31 /\ lat \in 0..31 /\ met \in 0..31 /\ buf \in 0..15
      /\ units \in 0..255 /\ win \in 0..31
  BY <1>2, <1>4
<1>9. /\ Field(word, 0, 5) = rate /\ Field(word, 5, 5) = lat /\ Field(word, 10, 5) = met
      /\ Field(word, 15, 4) = buf /\ Field(word, 19, 8) = units /\ Field(word, 27, 5) = win
  <2>1. Holds(word, rate, lat, met, buf, units, win)
    BY <1>6, <1>7 DEF Holds
  <2>2. Fields(word, rate, lat, met, buf, units, win)
    BY <1>8, <2>1, PackedFields
  <2> QED
    BY <2>2 DEF Fields
<1> DEFINE checks == <<Slice(offset + 4, Len(payload)),
                  Check(Field(word, 0, 5) <= 24 /\ Field(word, 5, 5) <= 24 /\ Field(word, 19, 8) \in 1..200,
                        "InvalidPackedQuota")>>
           value  == [rate_buckets |-> Field(word, 0, 5), latency_services |-> Field(word, 5, 5),
                 metrics_labels |-> Field(word, 10, 5), latency_buffer |-> Field(word, 15, 4),
                 dedup_ttl_ms_max |-> 10 * Field(word, 19, 8), rate_window |-> Field(word, 27, 5)]
<1>10. limits_from_payload(payload, offset) = Outcome(checks, value)
  BY DEF limits_from_payload, word
<1>11. DOMAIN checks = 1..2 /\ \A i \in 1..2 : checks[i] = Pass
  <2>1. ~(offset + 4 > Len(payload))
    OBVIOUS
  <2>2. Field(word, 0, 5) <= 24 /\ Field(word, 5, 5) <= 24 /\ Field(word, 19, 8) \in 1..200
    BY <1>4, <1>9
  <2> QED
    BY <2>1, <2>2 DEF Slice, Check
<1>12. value = l
  BY <1>2, <1>3, <1>9
<1> HIDE DEF checks, value
<1>13. Outcome(checks, value) = Ok(value)
  BY <1>11, OutcomeOk
<1> QED
  BY <1>10, <1>12, <1>13

\* A human-readable part: the prefix and a name
LEMMA PrefixCat ==
    ASSUME NEW name \in Seq(Nat), NEW n \in Nat, HasLen(name, n)
    PROVE  LET hrp == Prefix \o name
           IN  /\ hrp \in Seq(Nat) /\ Len(hrp) = 3 + n
               /\ \A i \in 1..3 : hrp[i] = Prefix[i]
               /\ \A i \in 1..n : hrp[3 + i] = name[i]
               /\ SubSeq(hrp, 1, 3) = Prefix
<1>1. Prefix \in Seq(Nat) /\ Len(Prefix) = 3
  BY DEF Prefix
<1>2. PICK S : S = Nat
  OBVIOUS
<1>3. PICK a \in Seq(S), b \in Seq(S) : a = Prefix /\ b = name
  BY <1>1, <1>2
<1>4. PICK three \in Nat : three = 3
  OBVIOUS
<1>5. three = Len(a) /\ n = Len(b)
  BY <1>1, <1>3, <1>4 DEF HasLen
<1>6. a \o b \in Seq(S)
  BY ONLY a \in Seq(S), b \in Seq(S)
<1>7. Len(a \o b) = three + n
  BY ONLY a \in Seq(S), b \in Seq(S), three \in Nat, n \in Nat, <1>5
<1>8. \A i \in 1..three : (a \o b)[i] = a[i]
  BY ONLY a \in Seq(S), b \in Seq(S), three \in Nat, n \in Nat, <1>5
<1>9. \A i \in 1..n : (a \o b)[three + i] = b[i]
  BY ONLY a \in Seq(S), b \in Seq(S), three \in Nat, n \in Nat, <1>5
<1>10. PICK hrp : hrp = a \o b
  OBVIOUS
<1>11. SubSeq(hrp, 1, three) = a
  <2>1. /\ SubSeq(hrp, 1, three) \in Seq(S) /\ Len(SubSeq(hrp, 1, three)) = three
        /\ \A i \in 1..three : SubSeq(hrp, 1, three)[i] = hrp[i]
    <3>1. hrp \in Seq(S) /\ Len(hrp) = three + n
      BY <1>6, <1>7, <1>10
    <3> QED
      BY ONLY <3>1, three \in Nat, n \in Nat
  <2>2. \A i \in 1..three : hrp[i] = a[i]
    BY <1>8, <1>10
  <2> QED
    BY ONLY <1>5, <2>1, <2>2, a \in Seq(S), three \in Nat
<1> QED
  BY <1>2, <1>3, <1>4, <1>6, <1>7, <1>8, <1>9, <1>10, <1>11

\* Printable and not a capital
Plain(c) == c \in 45..122 \ (65..90)

\* The names of the credential types are texts that differ in their first letter.
LEMMA NameFacts ==
    /\ DOMAIN MethodName = {"none", "cookie", "aes", "secret"}
    /\ \A m \in DOMAIN MethodName :
          /\ MethodName[m] \in Seq(Nat)
          /\ \E n \in Nat : n > 0 /\ HasLen(MethodName[m], n)
          /\ \A i \in DOMAIN MethodName[m] : Plain(MethodName[m][i])
    /\ \A m, n \in DOMAIN MethodName : MethodName[m][1] = MethodName[n][1] => m = n
<1>1. DOMAIN MethodName = {"none", "cookie", "aes", "secret"}
  BY DEF MethodName
<1>2. /\ MethodName["none"]   = <<110, 111, 110, 101>>
      /\ MethodName["cookie"] = <<99, 111, 111, 107, 105, 101>>
      /\ MethodName["aes"]    = <<97, 101, 115>>
      /\ MethodName["secret"] = <<115, 101, 99, 114, 101, 116>>
  BY DEF MethodName
<1>3. /\ MethodName["none"] \in Seq(Nat) /\ HasLen(MethodName["none"], 4)
      /\ \A i \in DOMAIN MethodName["none"] : Plain(MethodName["none"][i])
  BY <1>2 DEF Plain, HasLen
<1>4. /\ MethodName["cookie"] \in Seq(Nat) /\ HasLen(MethodName["cookie"], 6)
      /\ \A i \in DOMAIN MethodName["cookie"] : Plain(MethodName["cookie"][i])
  BY <1>2 DEF Plain, HasLen
<1>5. /\ MethodName["aes"] \in Seq(Nat) /\ HasLen(MethodName["aes"], 3)
      /\ \A i \in DOMAIN MethodName["aes"] : Plain(MethodName["aes"][i])
  BY <1>2 DEF Plain, HasLen
<1>6. /\ MethodName["secret"] \in Seq(Nat) /\ HasLen(MethodName["secret"], 6)
      /\ \A i \in DOMAIN MethodName["secret"] : Plain(MethodName["secret"][i])
  BY <1>2 DEF Plain, HasLen
<1>7. /\ MethodName["none"][1] = 110 /\ MethodName["cookie"][1] = 99
      /\ MethodName["aes"][1] = 97 /\ MethodName["secret"][1] = 115
  BY <1>2
<1>8. ASSUME NEW m \in DOMAIN MethodName
      PROVE  /\ MethodName[m] \in Seq(Nat)
             /\ \E n \in Nat : n > 0 /\ HasLen(MethodName[m], n)
             /\ \A i \in DOMAIN MethodName[m] : Plain(MethodName[m][i])
  <2>1. CASE m = "none"
    <3>1. 4 \in Nat /\ 4 > 0
      OBVIOUS
    <3> QED
      BY <1>3, <2>1, <3>1
  <2>2. CASE m = "cookie"
    <3>1. 6 \in Nat /\ 6 > 0
      OBVIOUS
    <3> QED
      BY <1>4, <2>2, <3>1
  <2>3. CASE m = "aes"
    <3>1. 3 \in Nat /\ 3 > 0
      OBVIOUS
    <3> QED
      BY <1>5, <2>3, <3>1
  <2>4. CASE m = "secret"
    <3>1. 6 \in Nat /\ 6 > 0
      OBVIOUS
    <3> QED
      BY <1>6, <2>4, <3>1
  <2> QED
    BY <1>1, <2>1, <2>2, <2>3, <2>4
<1>9. \A m, n \in DOMAIN MethodName : MethodName[m][1] = MethodName[n][1] => m = n
  BY <1>1, <1>7
<1> QED
  BY <1>1, <1>8, <1>9

\* The human-readable parts and the credential types they name
LEMMA MethodNames ==
    ASSUME NEW m \in DOMAIN MethodName
    PROVE  LET hrp == Prefix \o MethodName[m]
           IN  /\ hrp \in Seq(Nat) /\ hrp # <<>> /\ \A i \in DOMAIN hrp : Plain(hrp[i])
               /\ SubSeq(hrp, 1, 3) = Prefix /\ MethodOf(hrp) = m
<1>1. PICK name \in Seq(Nat), n \in Nat : name = MethodName[m] /\ n > 0 /\ HasLen(name, n)
  BY NameFacts
<1>2. PICK hrp : hrp = Prefix \o name
  OBVIOUS
<1>3. /\ hrp \in Seq(Nat) /\ Len(hrp) = 3 + n
      /\ \A i \in 1..3 : hrp[i] = Prefix[i]
      /\ \A i \in 1..n : hrp[3 + i] = name[i]
      /\ SubSeq(hrp, 1, 3) = Prefix
  <2>1. HasLen(name, n)
    BY <1>1
  <2> QED
    BY <1>2, <2>1, PrefixCat
<1>4. DOMAIN hrp = 1..3 + n /\ hrp # <<>>
  BY <1>3
<1>5. ASSUME NEW i \in 1..3 + n PROVE Plain(hrp[i])
  <2>1. CASE i \in 1..3
    <3>1. Plain(Prefix[i])
      <4>1. Prefix[1] = 114 /\ Prefix[2] = 108 /\ Prefix[3] = 45
        BY DEF Prefix
      <4>2. Plain(114) /\ Plain(108) /\ Plain(45)
        BY DEF Plain
      <4>3. i = 1 \/ i = 2 \/ i = 3
        BY <2>1
      <4> QED
        BY <4>1, <4>2, <4>3
    <3> QED
      BY <1>3, <2>1, <3>1
  <2>2. CASE i > 3
    <3>1. PICK j \in 1..n : i = 3 + j
      <4>1. i - 3 \in 1..n /\ i = 3 + (i - 3)
        BY <2>2
      <4> QED
        BY <4>1
    <3>2. DOMAIN name = 1..n
      BY <1>1 DEF HasLen
    <3>3. Plain(name[j])
      BY <1>1, <3>2, NameFacts
    <3> QED
      BY <1>3, <3>1, <3>3
  <2> QED
    BY <2>1, <2>2
<1>6. ASSUME NEW k \in DOMAIN MethodName, hrp = Prefix \o MethodName[k]
      PROVE  k = m
  <2>1. PICK other \in Seq(Nat), q \in Nat : other = MethodName[k] /\ q > 0 /\ HasLen(other, q)
    BY NameFacts
  <2>2. \A i \in 1..q : (Prefix \o other)[3 + i] = other[i]
    <3>1. HasLen(other, q)
      BY <2>1
    <3> QED
      BY <3>1, PrefixCat
  <2>5. 1 \in 1..q
    BY <2>1
  <2>3. hrp[3 + 1] = other[1]
    BY <1>6, <2>1, <2>2, <2>5
  <2>4. hrp[3 + 1] = name[1]
    BY <1>1, <1>3
  <2> QED
    BY <1>1, <2>1, <2>3, <2>4, NameFacts
<1>7. MethodOf(hrp) = m
  <2> DEFINE s == {k \in DOMAIN MethodName : hrp = Prefix \o MethodName[k]}
  <2>1. s = {m}
    BY <1>1, <1>2, <1>6
  <2>2. MethodOf(hrp) = IF s = {} THEN "other" ELSE CHOOSE k \in s : TRUE
    BY DEF MethodOf
  <2> HIDE DEF s
  <2> QED
    BY <2>1, <2>2
<1> QED
  BY <1>1, <1>2, <1>3, <1>4, <1>5, <1>7

\* c has the elements of a and then those of b.
Joined(S, c, a, m, b, n) ==
    /\ c \in Seq(S) /\ HasLen(c, m + n)
    /\ \A i \in 1..m : c[i] = a[i]
    /\ \A i \in 1..n : c[m + i] = b[i]

\* A concatenation
LEMMA Join ==
    ASSUME NEW S, NEW a \in Seq(S), NEW b \in Seq(S), NEW m \in Nat, NEW n \in Nat,
           HasLen(a, m), HasLen(b, n)
    PROVE  Joined(S, a \o b, a, m, b, n)
<1>1. Len(a) = m /\ Len(b) = n
  BY DEF HasLen
<1>2. a \o b \in Seq(S)
  OBVIOUS
<1>3. Len(a \o b) = m + n
  BY <1>1
<1>4. \A i \in 1..m : (a \o b)[i] = a[i]
  BY <1>1
<1>5. \A i \in 1..n : (a \o b)[m + i] = b[i]
  BY <1>1
<1> QED
  BY <1>2, <1>3, <1>4, <1>5 DEF Joined, HasLen

\* t is in s from lo on.
Lies(s, lo, t, n) == \A i \in 1..n : s[lo + i] = t[i]

\* A part of a sequence that has the elements of another
LEMMA PartOf ==
    ASSUME NEW S, NEW s \in Seq(S), NEW t \in Seq(S), NEW lo \in Nat, NEW n \in Nat, NEW N \in Nat,
           HasLen(s, N), lo + n <= N, HasLen(t, n), Lies(s, lo, t, n), NEW from \in Nat, NEW upto \in Nat,
           from = lo + 1, upto = lo + n
    PROVE  SubSeq(s, from, upto) = t
<1>1. Len(s) = N /\ Len(t) = n
  BY DEF HasLen
<1>2. PICK u : u = SubSeq(s, lo + 1, lo + n)
  OBVIOUS
<1>3. u \in Seq(S)
  BY <1>1, <1>2
<1>4. Len(u) = n
  BY <1>1, <1>2
<1>5. ASSUME NEW i \in 1..n PROVE u[i] = s[lo + i]
  BY <1>1, <1>2
<1>6. u = t
  <2>1. DOMAIN u = 1..n /\ DOMAIN t = 1..n
    BY <1>1, <1>3, <1>4
  <2>2. \A i \in 1..n : u[i] = t[i]
    BY <1>5 DEF Lies
  <2> QED
    BY <1>1, <1>3, <1>4, <2>2
<1> QED
  BY <1>2, <1>6

\* What is where in a resource key's payload, whose secret has z bytes
Holding(p, id, secret, z, last) ==
    /\ p \in Seq(Bytes) /\ Len(p) = z + 13
    /\ p[1] = FORMAT_VERSION /\ SubSeq(p, 2, 9) = id /\ SubSeq(p, 10, 9 + z) = secret
    /\ \A i \in 1..4 : p[9 + z + i] = last[i]

\* The payload that the encoder puts together
LEMMA PayloadParts ==
    ASSUME NEW id \in Seq(Bytes), NEW secret \in Seq(Bytes), NEW last \in Seq(Bytes), NEW z \in Nat,
           HasLen(id, 8), HasLen(secret, z), HasLen(last, 4)
    PROVE  Holding(<<FORMAT_VERSION>> \o id \o secret \o last, id, secret, z, last)
<1>1. PICK first \in Seq(Bytes) : first = <<FORMAT_VERSION>> /\ first[1] = FORMAT_VERSION /\ HasLen(first, 1)
  <2>1. FORMAT_VERSION \in Bytes
    BY DEF FORMAT_VERSION, Bytes
  <2>2. <<FORMAT_VERSION>> \in Seq(Bytes)
    BY <2>1
  <2>3. <<FORMAT_VERSION>>[1] = FORMAT_VERSION /\ HasLen(<<FORMAT_VERSION>>, 1)
    BY DEF HasLen
  <2> QED
    BY <2>2, <2>3
<1>2. PICK a : a = first \o id
  OBVIOUS
<1>3. PICK b : b = a \o secret
  OBVIOUS
<1>4. PICK p : p = b \o last
  OBVIOUS
<1>5. 1 \in Nat /\ 8 \in Nat /\ 9 \in Nat /\ 4 \in Nat /\ 9 + z \in Nat
  OBVIOUS
<1>6. Joined(Bytes, a, first, 1, id, 8)
  <2>1. HasLen(first, 1)
    BY <1>1
  <2> QED
    BY ONLY first \in Seq(Bytes), id \in Seq(Bytes), HasLen(id, 8), <1>2, <1>5, <2>1, Join
<1>7. a \in Seq(Bytes) /\ HasLen(a, 9) /\ a[1] = first[1] /\ \A i \in 1..8 : a[1 + i] = id[i]
  BY <1>6 DEF Joined, HasLen
<1>8. Joined(Bytes, b, a, 9, secret, z)
  BY ONLY secret \in Seq(Bytes), HasLen(secret, z), z \in Nat, <1>3, <1>5, <1>7, Join
<1>9. /\ b \in Seq(Bytes) /\ HasLen(b, 9 + z)
      /\ \A i \in 1..9 : b[i] = a[i]
      /\ \A i \in 1..z : b[9 + i] = secret[i]
  BY <1>8 DEF Joined
<1>10. Joined(Bytes, p, b, 9 + z, last, 4)
  BY ONLY last \in Seq(Bytes), HasLen(last, 4), <1>4, <1>5, <1>9, Join
<1>11. /\ p \in Seq(Bytes) /\ HasLen(p, (9 + z) + 4)
       /\ \A i \in 1..9 + z : p[i] = b[i]
       /\ \A i \in 1..4 : p[9 + z + i] = last[i]
  BY <1>10 DEF Joined
<1>12. PICK N \in Nat : N = z + 13 /\ HasLen(p, N)
  BY <1>11 DEF HasLen
<1>13. ASSUME NEW i \in 1..9 PROVE p[i] = a[i]
  <2>1. i \in 1..9 + z
    OBVIOUS
  <2>2. p[i] = b[i]
    BY <1>11, <2>1
  <2> QED
    BY <1>9, <2>2
<1>14. p[1] = FORMAT_VERSION
  BY <1>1, <1>7, <1>13
<1>15. SubSeq(p, 2, 9) = id
  <2>1. Lies(p, 1, id, 8)
    <3>1. ASSUME NEW i \in 1..8 PROVE p[1 + i] = id[i]
      <4>1. PICK j \in 1..9 : j = 1 + i
        OBVIOUS
      <4> QED
        BY <1>7, <1>13, <4>1
    <3> QED
      BY <3>1 DEF Lies
  <2>2. 1 + 8 <= N /\ 2 \in Nat /\ 2 = 1 + 1 /\ 9 = 1 + 8
    BY <1>12
  <2>3. p \in Seq(Bytes) /\ HasLen(p, N)
    BY <1>11, <1>12
  <2>4. PICK lo \in Nat, n \in Nat, from \in Nat, upto \in Nat :
            lo = 1 /\ n = 8 /\ from = 2 /\ upto = 9
    OBVIOUS
  <2>5. HasLen(id, n) /\ Lies(p, lo, id, n) /\ lo + n <= N /\ from = lo + 1 /\ upto = lo + n
    BY <2>1, <2>2, <2>4
  <2>6. SubSeq(p, from, upto) = id
    BY ONLY id \in Seq(Bytes), N \in Nat, lo \in Nat, n \in Nat, from \in Nat, upto \in Nat,
            <2>3, <2>5, PartOf
  <2> QED
    BY <2>4, <2>6
<1>16. SubSeq(p, 10, 9 + z) = secret
  <2>1. Lies(p, 9, secret, z)
    <3>1. ASSUME NEW i \in 1..z PROVE p[9 + i] = secret[i]
      <4>1. 9 + i \in 1..9 + z
        OBVIOUS
      <4> QED
        BY <1>9, <1>11, <4>1
    <3> QED
      BY <3>1 DEF Lies
  <2>2. 9 + z <= N /\ 10 \in Nat /\ 10 = 9 + 1
    BY <1>12
  <2>3. p \in Seq(Bytes) /\ HasLen(p, N)
    BY <1>11, <1>12
  <2> QED
    BY ONLY secret \in Seq(Bytes), N \in Nat, z \in Nat, HasLen(secret, z), <1>5, <2>1, <2>2, <2>3, PartOf
<1>17. Len(p) = z + 13
  BY <1>12 DEF HasLen
<1>18. Holding(p, id, secret, z, last)
  BY <1>11, <1>14, <1>15, <1>16, <1>17 DEF Holding
<1> QED
  BY <1>1, <1>2, <1>3, <1>4, <1>18

-----------------------------------------------------------------------------
(* Keys                                                                    *)

\* What bech32_decode refuses is badly encoded.
LEMMA RefusedKey ==
    ASSUME NEW encoded, Refused(bech32_decode(encoded))
    PROVE  from_str(encoded) = Err("InvalidEncoding")
<1>1. PICK e \in BechErrors : bech32_decode(encoded) = Err(e)
  BY DEF Refused
<1> DEFINE decoded == bech32_decode(encoded)
        hrp     == decoded.value.hrp
        payload == decoded.value.payload
        method  == MethodOf(hrp)
        offset  == PayloadLen[method] - 4
        limits  == limits_from_payload(payload, offset)
        shape   == Outcome(<<
            Check(SubSeq(hrp, 1, 3) = Prefix, "InvalidHrpPrefix"),
            Check(method # "other", "UnsupportedAuthMethod"),
            Check(method # "other" => Len(payload) = PayloadLen[method], "InvalidPayloadLength")>>, method)
        version == Outcome(<<Reads(1, Len(payload), Byte(payload, 1) = FORMAT_VERSION,
                                   "UnsupportedFormatVersion"),
                             Slice(9, Len(payload)), Slice(offset, Len(payload))>>, method)
        k       == [auth_method |-> method, key_id |-> SubSeq(payload, 2, 9),
                    auth_secret |-> SubSeq(payload, 10, offset), limits |-> limits.value]
        o       == decode_api_key(encoded)
<1>2. o = CASE ~decoded.ok -> decoded
            [] decoded.ok /\ ~shape.ok                  -> shape
            [] decoded.ok /\ shape.ok /\ method = "secret" -> Ok([auth_method |-> "secret"])
            [] OTHER -> IF ~version.ok THEN version ELSE IF ~limits.ok THEN limits ELSE Ok(k)
  BY Zenon DEF decode_api_key
<1> HIDE DEF decoded, shape, method, version, limits, k, o
<1>3. ~decoded.ok /\ decoded = Err(e)
  BY <1>1 DEF decoded, Err
<1>4. o = Err(e)
  BY <1>2, <1>3
<1>5. from_decoded(o) = Err(from_decode_error(e))
  <2>1. ~o.ok /\ o.error = e
    BY <1>4 DEF Err
  <2> QED
    BY <2>1 DEF from_decoded
<1>6. from_decode_error(e) = "InvalidEncoding"
  BY DEF from_decode_error, BechErrors
<1> QED
  BY <1>5, <1>6 DEF from_str, o

\* A well-formed payload gives the key it holds.
LEMMA DecodeKey ==
    ASSUME NEW encoded, NEW m \in DOMAIN MethodName, NEW payload,
           bech32_decode(encoded) = Ok([hrp |-> Prefix \o MethodName[m], payload |-> payload]),
           Len(payload) = PayloadLen[m]
    PROVE  /\ m = "secret" => from_str(encoded) = Err("UnsupportedCredential")
           /\ \A id, secret, last, l :
                /\ m # "secret" /\ Holding(payload, id, secret, PayloadLen[m] - 13, last)
                /\ Issued(l) /\ \A i \in 1..4 : last[i] = LimitByte(l, i)
                => from_str(encoded) = Ok([auth_method |-> m, key_id |-> id, auth_secret |-> secret,
                                           limits |-> l])
<1> DEFINE decoded == bech32_decode(encoded)
        hrp     == decoded.value.hrp
        pay     == decoded.value.payload
        method  == MethodOf(hrp)
        offset  == PayloadLen[method] - 4
        limits  == limits_from_payload(pay, offset)
        shapes  == <<
            Check(SubSeq(hrp, 1, 3) = Prefix, "InvalidHrpPrefix"),
            Check(method # "other", "UnsupportedAuthMethod"),
            Check(method # "other" => Len(pay) = PayloadLen[method], "InvalidPayloadLength")>>
        reads   == <<Reads(1, Len(pay), Byte(pay, 1) = FORMAT_VERSION,
                                   "UnsupportedFormatVersion"),
                             Slice(9, Len(pay)), Slice(offset, Len(pay))>>
        shape   == Outcome(shapes, method)
        version == Outcome(reads, method)
        k       == [auth_method |-> method, key_id |-> SubSeq(pay, 2, 9),
                    auth_secret |-> SubSeq(pay, 10, offset), limits |-> limits.value]
        o       == decode_api_key(encoded)
<1>1. o = CASE ~decoded.ok -> decoded
            [] decoded.ok /\ ~shape.ok                  -> shape
            [] decoded.ok /\ shape.ok /\ method = "secret" -> Ok([auth_method |-> "secret"])
            [] OTHER -> IF ~version.ok THEN version ELSE IF ~limits.ok THEN limits ELSE Ok(k)
  BY Zenon DEF decode_api_key
<1>2. decoded.ok /\ hrp = Prefix \o MethodName[m] /\ pay = payload
  BY DEF Ok
<1>3. SubSeq(hrp, 1, 3) = Prefix /\ method = m
  <2> HIDE DEF decoded, hrp
  <2>1. SubSeq(Prefix \o MethodName[m], 1, 3) = Prefix /\ MethodOf(Prefix \o MethodName[m]) = m
    BY MethodNames
  <2> QED
    BY <1>2, <2>1
<1>4. m \in {"none", "cookie", "aes", "secret"}
  BY NameFacts
<1> HIDE DEF decoded, hrp, pay, method
<1>5. shape.ok
  <2>1. method # "other" /\ Len(pay) = PayloadLen[method]
    BY <1>2, <1>3, <1>4
  <2>2. DOMAIN shapes = 1..3 /\ \A i \in 1..3 : shapes[i] = Pass
    BY <1>3, <2>1 DEF Check
  <2> HIDE DEF shapes
  <2> QED
    BY <2>2, OutcomeOk
<1> HIDE DEF shape
<1>6. from_str(encoded) = from_decoded(o)
  BY DEF from_str
<1>7. ASSUME m = "secret" PROVE from_str(encoded) = Err("UnsupportedCredential")
  <2> HIDE DEF o, version, limits, k
  <2>1. o = Ok([auth_method |-> "secret"])
    BY <1>1, <1>2, <1>3, <1>5, <1>7
  <2>2. o.ok /\ o.value.auth_method = "secret"
    BY <2>1 DEF Ok
  <2> QED
    BY <1>6, <2>2 DEF from_decoded
<1>8. ASSUME NEW id, NEW secret, NEW last, NEW l,
             m # "secret", Holding(payload, id, secret, PayloadLen[m] - 13, last),
             Issued(l), \A i \in 1..4 : last[i] = LimitByte(l, i)
      PROVE  from_str(encoded) = Ok([auth_method |-> m, key_id |-> id, auth_secret |-> secret,
                                     limits |-> l])
  <2>1. PayloadLen["none"] = 13 /\ PayloadLen["cookie"] = 45 /\ PayloadLen["aes"] = 45
    BY DEF PayloadLen
  <2>2. PICK z \in {0, 32} : PayloadLen[m] = z + 13 /\ PayloadLen[m] - 13 = z
    BY <1>4, <1>8, <2>1
  <2>3. Holding(payload, id, secret, z, last)
    BY <1>8, <2>2
  <2>4. /\ payload \in Seq(Bytes) /\ Len(payload) = z + 13
        /\ payload[1] = FORMAT_VERSION /\ SubSeq(payload, 2, 9) = id /\ SubSeq(payload, 10, 9 + z) = secret
        /\ \A i \in 1..4 : payload[9 + z + i] = last[i]
    BY <2>3, Zenon DEF Holding
  <2>5. offset = 9 + z
    BY <1>3, <2>2
  <2> HIDE DEF offset
  <2>6. DOMAIN payload = 1..z + 13
    BY <2>4
  <2>7. version.ok
    <3>1. Byte(pay, 1) = FORMAT_VERSION /\ ~(1 > Len(pay)) /\ ~(9 > Len(pay)) /\ ~(offset > Len(pay))
      <4>1. 1 \in DOMAIN payload
        BY <2>6
      <4>2. Byte(payload, 1) = FORMAT_VERSION
        BY <2>4, <4>1 DEF Byte
      <4>3. ~(1 > Len(payload)) /\ ~(9 > Len(payload)) /\ ~(offset > Len(payload))
        BY <2>4, <2>5
      <4> QED
        BY <1>2, <4>2, <4>3
    <3>2. DOMAIN reads = 1..3 /\ \A i \in 1..3 : reads[i] = Pass
      BY <3>1 DEF Reads, Slice, Check
    <3> HIDE DEF reads
    <3> QED
      BY <3>2, OutcomeOk
  <2>8. limits = Ok(l)
    <3>1. ASSUME NEW i \in 1..4 PROVE Byte(payload, offset + i) = LimitByte(l, i)
      <4>1. offset + i = 9 + z + i /\ 9 + z + i \in DOMAIN payload
        BY <2>5, <2>6
      <4>2. Byte(payload, 9 + z + i) = payload[9 + z + i]
        BY <4>1 DEF Byte
      <4> QED
        BY <1>8, <2>4, <4>1, <4>2
    <3>2. offset \in Nat /\ Len(payload) = offset + 4
      BY <2>4, <2>5
    <3>3. limits_from_payload(payload, offset) = Ok(l)
      BY <1>8, <3>1, <3>2, LimitsRead
    <3> QED
      BY <1>2, <3>3
  <2>9. limits.ok /\ limits.value = l
    BY <2>8 DEF Ok
  <2> HIDE DEF limits, version
  <2>10. k = [auth_method |-> m, key_id |-> id, auth_secret |-> secret, limits |-> l]
    BY <1>2, <1>3, <2>4, <2>5, <2>9
  <2> HIDE DEF k, o
  <2>11. o = Ok(k)
    BY <1>1, <1>2, <1>3, <1>5, <1>8, <2>7, <2>9
  <2>12. o.ok /\ o.value.auth_method # "secret"
    BY <1>8, <2>10, <2>11 DEF Ok
  <2> QED
    BY <1>6, <2>10, <2>11, <2>12 DEF from_decoded
<1> QED
  BY <1>7, <1>8

\* How the text of a key is put together
KeyParts(k, payload) ==
    /\ payload \in Seq(Bytes) /\ Len(payload) = PayloadLen[k.auth_method]
    /\ KeyText(k) = bech32_encode(Prefix \o MethodName[k.auth_method], payload)
    /\ k.auth_method # "secret" => \E last :
         /\ Holding(payload, k.key_id, k.auth_secret, PayloadLen[k.auth_method] - 13, last)
         /\ \A i \in 1..4 : last[i] = LimitByte(k.limits, i)

\* An issued key has these parts.
LEMMA IssuedParts ==
    ASSUME NEW k \in Key, Issuable(k)
    PROVE  /\ k.auth_method \in DOMAIN MethodName /\ Issued(k.limits)
           /\ k = [auth_method |-> k.auth_method, key_id |-> k.key_id, auth_secret |-> k.auth_secret,
                   limits |-> k.limits]
           /\ \E payload : KeyParts(k, payload)
<1>1. k.auth_method \in DOMAIN MethodName
  BY Zenon DEF Key
<1>2. k.key_id \in Seq(Bytes) /\ k.auth_secret \in Seq(Bytes) /\ k.limits \in Limits
  BY DEF Key, Bytes, Limits
<1>3. k = [auth_method |-> k.auth_method, key_id |-> k.key_id, auth_secret |-> k.auth_secret,
           limits |-> k.limits]
  BY DEF Key
<1>4. Issued(k.limits)
  BY <1>2, Zenon DEF Issued, Issuable
<1>5. PICK m : m = k.auth_method
  OBVIOUS
<1>6. m \in {"none", "cookie", "aes", "secret"}
  BY <1>1, <1>5, NameFacts
<1>7. /\ PayloadLen["none"] = 13 /\ PayloadLen["cookie"] = 45 /\ PayloadLen["aes"] = 45
      /\ PayloadLen["secret"] = 32
  BY DEF PayloadLen
<1>8. Len(k.key_id) = 8 /\ Len(k.auth_secret) = IF m = "none" THEN 0 ELSE 32
  BY <1>5, Zenon DEF Issuable
<1>9. CASE m = "secret"
  <2>1. KeyText(k) = bech32_encode(Prefix \o MethodName["secret"], k.auth_secret)
    BY <1>5, <1>9 DEF KeyText
  <2>2. Len(k.auth_secret) = PayloadLen[m]
    BY <1>7, <1>8, <1>9
  <2>3. KeyParts(k, k.auth_secret)
    BY <1>2, <1>5, <1>9, <2>1, <2>2 DEF KeyParts
  <2> QED
    BY <1>1, <1>3, <1>4, <2>3
<1>10. CASE m # "secret"
  <2> DEFINE l    == k.limits
             word == Put(l.rate_buckets, 0) \cup Put(l.latency_services, 5)
                    \cup Put(l.metrics_labels, 10) \cup Put(l.latency_buffer, 15)
                    \cup Put(l.dedup_ttl_ms_max \div 10, 19) \cup Put(l.rate_window, 27)
             four == [i \in 1..4 |-> {b \in 0..7 : 8 * (i - 1) + b \in word}]
             all  == <<FORMAT_VERSION>> \o k.key_id \o k.auth_secret \o four
  <2>1. KeyText(k) = bech32_encode(Prefix \o MethodName[k.auth_method], all)
    BY <1>5, <1>10 DEF KeyText, encode_api_key
  <2>2. word = Packed(l)
    BY Zenon DEF Packed
  <2> HIDE DEF word
  <2>3. \A i \in 1..4 : four[i] = LimitByte(l, i)
    BY <2>2 DEF LimitByte
  <2>4. four \in Seq(Bytes) /\ HasLen(four, 4)
    <3>1. four \in [1..4 -> Bytes] /\ 4 \in Nat
      BY DEF Bytes
    <3> HIDE DEF four
    <3> QED
      BY <3>1, SeqOfKnown
  <2>5. PICK payload, last, id, secret :
          /\ payload = all /\ last = four /\ id = k.key_id /\ secret = k.auth_secret
    OBVIOUS
  <2> HIDE DEF four, l
  <2>6. PICK z \in Nat : z \in {0, 32} /\ Len(secret) = z /\ PayloadLen[m] = z + 13 /\ PayloadLen[m] - 13 = z
    BY <1>6, <1>7, <1>8, <1>10, <2>5
  <2>7. HasLen(id, 8) /\ HasLen(secret, z)
    BY <1>8, <2>5, <2>6 DEF HasLen
  <2>8. id \in Seq(Bytes) /\ secret \in Seq(Bytes) /\ last \in Seq(Bytes) /\ HasLen(last, 4)
    BY <1>2, <2>4, <2>5
  <2>9. payload = <<FORMAT_VERSION>> \o id \o secret \o last
    BY <2>5
  <2>10. Holding(payload, id, secret, z, last)
    BY ONLY z \in Nat, <2>7, <2>8, <2>9, PayloadParts
  <2>11. payload \in Seq(Bytes) /\ Len(payload) = z + 13
    BY <2>10, Zenon DEF Holding
  <2>12. KeyParts(k, payload)
    <3>1. Len(payload) = PayloadLen[k.auth_method]
      BY <1>5, <2>6, <2>11
    <3>2. KeyText(k) = bech32_encode(Prefix \o MethodName[k.auth_method], payload)
      BY <2>1, <2>5
    <3>3. Holding(payload, k.key_id, k.auth_secret, PayloadLen[k.auth_method] - 13, last)
      BY <1>5, <2>5, <2>6, <2>10
    <3>4. \A i \in 1..4 : last[i] = LimitByte(k.limits, i)
      BY <2>3, <2>5 DEF l
    <3> QED
      BY <2>11, <3>1, <3>2, <3>3, <3>4 DEF KeyParts
  <2> QED
    BY <1>1, <1>3, <1>4, <2>12
<1> QED
  BY <1>9, <1>10

\* What from_str makes of the text of a key
Expected(k) == IF k.auth_method = "secret" THEN Err("UnsupportedCredential") ELSE Ok(k)

\* A key's text, up to capitals, is read as that key.
LEMMA RoundTrip ==
    ASSUME NEW k \in Key, Issuable(k), NEW t \in Seq(Nat), to_ascii_lowercase(t) = KeyText(k)
    PROVE  from_str(t) = IF Mixed(t) THEN Err("InvalidEncoding") ELSE Expected(k)
<1>0. PICK m \in DOMAIN MethodName : m = k.auth_method
  BY IssuedParts
<1>1. PICK l : m = k.auth_method /\ l = k.limits /\ Issued(l)
  BY <1>0, IssuedParts
<1>2. k = [auth_method |-> m, key_id |-> k.key_id, auth_secret |-> k.auth_secret, limits |-> l]
  BY <1>1, IssuedParts
<1>3. PICK payload : KeyParts(k, payload)
  BY IssuedParts
<1>4. PICK hrp : hrp = Prefix \o MethodName[m]
  OBVIOUS
<1>5. hrp \in Seq(Nat) /\ hrp # <<>> /\ \A i \in DOMAIN hrp : hrp[i] \in 33..126
  <2>1. hrp \in Seq(Nat) /\ hrp # <<>> /\ \A i \in DOMAIN hrp : Plain(hrp[i])
    BY <1>4, MethodNames
  <2>2. \A c : Plain(c) => c \in 33..126
    BY DEF Plain
  <2> QED
    BY <2>1, <2>2
<1>6. payload \in Seq(Bytes) /\ Len(payload) = PayloadLen[m] /\ KeyText(k) = bech32_encode(hrp, payload)
  BY <1>1, <1>3, <1>4 DEF KeyParts
<1>7. IF Mixed(t) THEN Refused(bech32_decode(t))
      ELSE bech32_decode(t) = Ok([hrp |-> hrp, payload |-> payload])
  <2>1. to_ascii_lowercase(t) = bech32_encode(hrp, payload)
    BY <1>6
  <2> QED
    BY <1>5, <1>6, <2>1, DecodeEncoded
<1>8. CASE Mixed(t)
  BY <1>7, <1>8, RefusedKey
<1>9. CASE ~Mixed(t)
  <2>1. bech32_decode(t) = Ok([hrp |-> Prefix \o MethodName[m], payload |-> payload])
    BY <1>4, <1>7, <1>9
  <2>2. CASE m = "secret"
    <3>1. from_str(t) = Err("UnsupportedCredential")
      BY <1>6, <2>1, <2>2, DecodeKey
    <3> QED
      BY <1>1, <1>9, <2>2, <3>1 DEF Expected
  <2>3. CASE m # "secret"
    <3>1. PICK last : /\ Holding(payload, k.key_id, k.auth_secret, PayloadLen[m] - 13, last)
                      /\ \A i \in 1..4 : last[i] = LimitByte(l, i)
      BY <1>1, <1>3, <2>3 DEF KeyParts
    <3>2. from_str(t) = Ok([auth_method |-> m, key_id |-> k.key_id, auth_secret |-> k.auth_secret,
                            limits |-> l])
      <4>1. \A id, secret, four, lim :
              /\ m # "secret" /\ Holding(payload, id, secret, PayloadLen[m] - 13, four)
              /\ Issued(lim) /\ \A i \in 1..4 : four[i] = LimitByte(lim, i)
              => from_str(t) = Ok([auth_method |-> m, key_id |-> id, auth_secret |-> secret,
                                   limits |-> lim])
        BY <1>6, <2>1, DecodeKey
      <4> QED
        BY ONLY <1>1, <2>3, <3>1, <4>1, Zenon
    <3> QED
      BY <1>1, <1>2, <1>9, <2>3, <3>2 DEF Expected
  <2> QED
    BY <2>2, <2>3
<1> QED
  BY <1>8, <1>9

-----------------------------------------------------------------------------
(* Typing errors                                                           *)

\* The low bits of the words of GEN
LEMMA GenLow ==
    /\ \A b \in 0..4 : b \in GEN[1] <=> b \in {1, 4}
    /\ \A b \in 0..4 : b \in GEN[2] <=> b \in {0, 2, 3}
    /\ \A b \in 0..4 : b \in GEN[3] <=> b \in {1, 3, 4}
    /\ \A b \in 0..4 : b \in GEN[4] <=> b \in {0, 2, 3, 4}
    /\ \A b \in 0..4 : b \in GEN[5] <=> b \in {0, 1, 4}
BY DEF GEN

\* The low bits of what is fed back tell the bits that select it.
LEMMA FeedbackInjective ==
    ASSUME NEW c, NEW d, \A b \in 0..4 : b \in Feedback(c) <=> b \in Feedback(d)
    PROVE  \A b \in 25..29 : b \in c <=> b \in d
<1> DEFINE W(i, e) == IF 25 + i \in e THEN GEN[i + 1] ELSE {}
<1>1. ASSUME NEW e, NEW b \in 0..4
      PROVE  /\ b \in W(0, e) <=> 25 \in e /\ b \in {1, 4}
             /\ b \in W(1, e) <=> 26 \in e /\ b \in {0, 2, 3}
             /\ b \in W(2, e) <=> 27 \in e /\ b \in {1, 3, 4}
             /\ b \in W(3, e) <=> 28 \in e /\ b \in {0, 2, 3, 4}
             /\ b \in W(4, e) <=> 29 \in e /\ b \in {0, 1, 4}
  BY GenLow
<1>2. \A e : Feedback(e) = Xor(Xor(Xor(Xor(W(0, e), W(1, e)), W(2, e)), W(3, e)), W(4, e))
  BY Zenon DEF Feedback
<1> HIDE DEF W
<1>3. ASSUME NEW e
      PROVE  /\ 0 \in Feedback(e) <=> ~(~(26 \in e <=> 28 \in e) <=> 29 \in e)
             /\ 1 \in Feedback(e) <=> ~(~(25 \in e <=> 27 \in e) <=> 29 \in e)
             /\ 2 \in Feedback(e) <=> ~(26 \in e <=> 28 \in e)
             /\ 3 \in Feedback(e) <=> ~(~(26 \in e <=> 27 \in e) <=> 28 \in e)
             /\ 4 \in Feedback(e) <=> ~(~(~(25 \in e <=> 27 \in e) <=> 28 \in e) <=> 29 \in e)
  <2> DEFINE F == Feedback(e)
             A == W(0, e)
             B == W(1, e)
             C == W(2, e)
             D == W(3, e)
             E == W(4, e)
  <2>1. /\ 0 \notin A /\ 1 \notin B /\ 0 \notin C /\ 1 \notin D /\ 2 \notin A /\ 2 \notin C /\ 2 \notin E
        /\ 3 \notin A /\ 3 \notin E /\ 4 \notin B
    BY <1>1
  <2>2. /\ 1 \in A <=> 25 \in e
        /\ 4 \in A <=> 25 \in e
        /\ 0 \in B <=> 26 \in e
        /\ 2 \in B <=> 26 \in e
        /\ 3 \in B <=> 26 \in e
        /\ 1 \in C <=> 27 \in e
        /\ 3 \in C <=> 27 \in e
        /\ 4 \in C <=> 27 \in e
        /\ 0 \in D <=> 28 \in e
        /\ 2 \in D <=> 28 \in e
        /\ 3 \in D <=> 28 \in e
        /\ 4 \in D <=> 28 \in e
        /\ 0 \in E <=> 29 \in e
        /\ 1 \in E <=> 29 \in e
        /\ 4 \in E <=> 29 \in e
    BY <1>1
  <2>3. F = Xor(Xor(Xor(Xor(A, B), C), D), E)
    BY <1>2
  <2> HIDE DEF A, B, C, D, E, F
  <2>4. \A b : b \in F <=> ~(~(~(~(b \in A <=> b \in B) <=> b \in C) <=> b \in D) <=> b \in E)
    BY <2>3 DEF Xor
  <2>5. /\ 0 \in F <=> ~(~(26 \in e <=> 28 \in e) <=> 29 \in e)
        /\ 1 \in F <=> ~(~(25 \in e <=> 27 \in e) <=> 29 \in e)
        /\ 2 \in F <=> ~(26 \in e <=> 28 \in e)
        /\ 3 \in F <=> ~(~(26 \in e <=> 27 \in e) <=> 28 \in e)
        /\ 4 \in F <=> ~(~(~(25 \in e <=> 27 \in e) <=> 28 \in e) <=> 29 \in e)
    BY <2>1, <2>2, <2>4
  <2> QED
    BY <2>5 DEF F
<1>4. /\ 0 \in Feedback(c) <=> 0 \in Feedback(d)
      /\ 1 \in Feedback(c) <=> 1 \in Feedback(d)
      /\ 2 \in Feedback(c) <=> 2 \in Feedback(d)
      /\ 3 \in Feedback(c) <=> 3 \in Feedback(d)
      /\ 4 \in Feedback(c) <=> 4 \in Feedback(d)
  OBVIOUS
<1>5. /\ 25 \in c <=> 25 \in d
      /\ 26 \in c <=> 26 \in d
      /\ 27 \in c <=> 27 \in d
      /\ 28 \in c <=> 28 \in d
      /\ 29 \in c <=> 29 \in d
  BY <1>3, <1>4
<1>6. \A b \in 25..29 : b = 25 \/ b = 26 \/ b = 27 \/ b = 28 \/ b = 29
  OBVIOUS
<1> QED
  BY <1>5, <1>6

\* Different registers stay different under the same value, and different values
\* make the same register different.
LEMMA StepInjective ==
    /\ \A c, d \in Register, v \in Bytes : polymod_step[c][v] = polymod_step[d][v] => c = d
    /\ \A c \in Register, v, w \in Bytes : polymod_step[c][v] = polymod_step[c][w] => v = w
<1>1. ASSUME NEW c \in Register, NEW d \in Register, NEW v \in Bytes,
             polymod_step[c][v] = polymod_step[d][v]
      PROVE  c = d
  <2> DEFINE C == {b + 5 : b \in c \cap 0..24}
             D == {b + 5 : b \in d \cap 0..24}
             F == Feedback(c)
             G == Feedback(d)
  <2>1. Xor(Xor(C, v), F) = Xor(Xor(D, v), G)
    BY <1>1, StepType DEF Bytes
  <2>2. \A b \in 0..4 : b \notin C /\ b \notin D
    OBVIOUS
  <2>3. \A b \in c \cap 0..24 : b + 5 \in C
    OBVIOUS
  <2>4. \A b \in d \cap 0..24 : b + 5 \in D
    OBVIOUS
  <2>5. \A b \in 0..24 : b + 5 \in C => b \in c
    <3> SUFFICES ASSUME NEW b \in 0..24, NEW a \in c \cap 0..24, b + 5 = a + 5 PROVE b \in c
      OBVIOUS
    <3>1. a = b
      OBVIOUS
    <3> QED
      BY <3>1
  <2>6. \A b \in 0..24 : b + 5 \in D => b \in d
    <3> SUFFICES ASSUME NEW b \in 0..24, NEW a \in d \cap 0..24, b + 5 = a + 5 PROVE b \in d
      OBVIOUS
    <3>1. a = b
      OBVIOUS
    <3> QED
      BY <3>1
  <2> HIDE DEF C, D, F, G
  <2>7. \A b : ~(~(b \in C <=> b \in v) <=> b \in F) <=> ~(~(b \in D <=> b \in v) <=> b \in G)
    BY <2>1 DEF Xor
  <2>8. \A b \in 0..4 : b \in F <=> b \in G
    BY <2>2, <2>7
  <2>9. \A b \in 25..29 : b \in c <=> b \in d
    BY <2>8, FeedbackInjective DEF F, G
  <2>10. F = G
    <3>1. /\ 25 + 0 \in c <=> 25 + 0 \in d
          /\ 25 + 1 \in c <=> 25 + 1 \in d
          /\ 25 + 2 \in c <=> 25 + 2 \in d
          /\ 25 + 3 \in c <=> 25 + 3 \in d
          /\ 25 + 4 \in c <=> 25 + 4 \in d
      BY <2>9
    <3> QED
      BY <3>1, Zenon DEF Feedback, F, G
  <2>11. \A b : b \in C <=> b \in D
    BY <2>7, <2>10
  <2>12. \A b \in 0..24 : b \in c <=> b \in d
    BY <2>3, <2>4, <2>5, <2>6, <2>11
  <2>13. c \subseteq 0..29 /\ d \subseteq 0..29
    BY Zenon DEF Register
  <2>14. \A b \in 0..29 : b \in 0..24 \/ b \in 25..29
    OBVIOUS
  <2> QED
    BY <2>9, <2>12, <2>13, <2>14
<1>2. ASSUME NEW c \in Register, NEW v \in Bytes, NEW w \in Bytes,
             polymod_step[c][v] = polymod_step[c][w]
      PROVE  v = w
  <2> DEFINE C == {b + 5 : b \in c \cap 0..24}
             F == Feedback(c)
  <2>1. Xor(Xor(C, v), F) = Xor(Xor(C, w), F)
    BY <1>2, StepType DEF Bytes
  <2> HIDE DEF C, F
  <2>2. \A b : ~(~(b \in C <=> b \in v) <=> b \in F) <=> ~(~(b \in C <=> b \in w) <=> b \in F)
    BY <2>1 DEF Xor
  <2>3. \A b : b \in v <=> b \in w
    BY <2>2
  <2> QED
    BY <2>3
<1> QED
  BY <1>1, <1>2

\* a and b differ in place j and nowhere else.
DifferAt(a, b, n, j) ==
    /\ j \in 1..n /\ a[j] # b[j]
    /\ \A i \in 1..n : i # j => a[i] = b[i]

\* A single wrong value changes the register at the end.
LEMMA SlipSeen ==
    ASSUME NEW P \in Seq(Bytes), NEW a \in Seq(Bytes), NEW b \in Seq(Bytes), NEW n \in Nat,
           HasLen(a, n), HasLen(b, n), NEW j, DifferAt(a, b, n, j)
    PROVE  polymod(P \o a) # polymod(P \o b)
<1>1. PICK K \in Nat : HasLen(P, K)
  BY DEF HasLen
<1>2. PICK f : Along(f, K, P, n, a) /\ polymod(P \o a) = f[K + n]
  BY ONLY P \in Seq(Bytes), a \in Seq(Bytes), K \in Nat, n \in Nat, HasLen(a, n), <1>1, CatRegisters
<1>3. PICK g : Along(g, K, P, n, b) /\ polymod(P \o b) = g[K + n]
  BY ONLY P \in Seq(Bytes), b \in Seq(Bytes), K \in Nat, n \in Nat, HasLen(b, n), <1>1, CatRegisters
<1>4. f[K] = g[K]
  BY ONLY K \in Nat, n \in Nat, <1>2, <1>3, AlongAgree
<1>5. j \in 1..n /\ a[j] # b[j] /\ \A i \in 1..n : i # j => a[i] = b[i]
  BY DEF DifferAt
<1>6. \A i \in 1..n : a[i] \in Bytes /\ b[i] \in Bytes
  <2>1. Len(a) = n /\ Len(b) = n
    BY DEF HasLen
  <2> QED
    BY <2>1
<1>7. \A i \in 0..n : f[K + i] \in Register /\ g[K + i] \in Register
  <2>1. f \in [0..K + n -> Register] /\ g \in [0..K + n -> Register]
    BY <1>2, <1>3 DEF Along
  <2> QED
    BY <2>1
<1>8. \A i \in 0..n - 1 : /\ f[K + (i + 1)] = polymod_step[f[K + i]][a[i + 1]]
                          /\ g[K + (i + 1)] = polymod_step[g[K + i]][b[i + 1]]
  <2> TAKE i \in 0..n - 1
  <2>1. i + 1 \in 1..n /\ (K + (i + 1)) - 1 = K + i
    OBVIOUS
  <2>2. f[K + (i + 1)] = polymod_step[f[(K + (i + 1)) - 1]][a[i + 1]]
    BY <1>2, <2>1 DEF Along
  <2>3. g[K + (i + 1)] = polymod_step[g[(K + (i + 1)) - 1]][b[i + 1]]
    BY <1>3, <2>1 DEF Along
  <2> QED
    BY <2>1, <2>2, <2>3
<1> DEFINE T == {i \in 0..n : f[K + i] = g[K + i] <=> i < j}
<1>9. 0 \in T
  BY <1>4, <1>5
<1>10. ASSUME NEW i \in 0..n - 1, i \in T PROVE i + 1 \in T
  <2>1. i \in 0..n /\ i + 1 \in 1..n /\ i + 1 \in 0..n
    OBVIOUS
  <2>2. f[K + i] = g[K + i] <=> i < j
    BY <1>10
  <2>3. PICK x, y, v, w : x = f[K + i] /\ y = g[K + i] /\ v = a[i + 1] /\ w = b[i + 1]
    OBVIOUS
  <2>4. x \in Register /\ y \in Register /\ v \in Bytes /\ w \in Bytes
    BY <1>6, <1>7, <2>1, <2>3
  <2>5. f[K + (i + 1)] = polymod_step[x][v] /\ g[K + (i + 1)] = polymod_step[y][w]
    BY <1>8, <2>3
  <2>6. CASE i + 1 < j
    <3>1. x = y /\ v = w
      BY <1>5, <2>1, <2>2, <2>3, <2>6
    <3> QED
      BY <2>1, <2>5, <2>6, <3>1
  <2>7. CASE i + 1 = j
    <3>1. x = y /\ v # w /\ ~(i + 1 < j)
      BY <1>5, <2>1, <2>2, <2>3, <2>7
    <3>2. polymod_step[x][v] # polymod_step[x][w]
      BY <2>4, <3>1, StepInjective
    <3> QED
      BY <2>1, <2>5, <3>1, <3>2
  <2>8. CASE i + 1 > j
    <3>1. x # y /\ v = w /\ ~(i + 1 < j)
      BY <1>5, <2>1, <2>2, <2>3, <2>8
    <3>2. polymod_step[x][v] # polymod_step[y][v]
      BY <2>4, <3>1, StepInjective
    <3> QED
      BY <2>1, <2>5, <3>1, <3>2
  <2> QED
    BY <1>5, <2>6, <2>7, <2>8
<1> HIDE DEF T
<1>11. 0..n \subseteq T
  BY <1>9, <1>10, UpTo
<1>12. n \in T /\ ~(n < j)
  BY <1>5, <1>11
<1>13. f[K + n] # g[K + n]
  BY <1>12 DEF T
<1> QED
  BY <1>2, <1>3, <1>13

\* How many bytes groups give, when they give any
LEMMA ConvertLength ==
    ASSUME NEW g \in Seq(Bytes), NEW q \in Nat, HasLen(g, q), convert_bits(g, 5, 8, FALSE).ok
    PROVE  \E n \in Nat : Len(convert_bits(g, 5, 8, FALSE).value) = n /\ GroupCount(n, q)
<1> DEFINE total   == 5 * Len(g)
           left    == total % 8
           Bit(k)  == k < total /\ 5 - 1 - (k % 5) \in g[k \div 5 + 1]
           Word(j) == {b \in 0..8 - 1 : Bit(8 * j - 1 - b)}
           count   == total \div 8 + (IF FALSE /\ left > 0 THEN 1 ELSE 0)
           words   == [j \in 1..count |-> Word(j)]
           checks  == <<Check(\A i \in DOMAIN g : g[i] \subseteq 0..5 - 1, "InvalidPadding"),
                  Check(FALSE \/ left < 5, "InvalidPadding"),
                  Check(FALSE \/ ~\E k \in total - left..total - 1 : Bit(k), "InvalidPadding")>>
<1>1. convert_bits(g, 5, 8, FALSE) = Outcome(checks, words)
  BY DEF convert_bits
<1>2. total = 5 * q
  BY DEF HasLen
<1>3. DOMAIN checks = 1..3 /\ (checks[2] = Pass => left < 5)
  <2> HIDE DEF Bit, left, total
  <2> QED
    BY DEF Check, Pass
<1>4. convert_bits(g, 5, 8, FALSE).value = words /\ checks[2] = Pass
  <2> HIDE DEF checks, words
  <2>1. Outcome(checks, words).ok
    BY <1>1
  <2>2. Outcome(checks, words).value = words /\ \A i \in DOMAIN checks : checks[i] = Pass
    BY <2>1, OutcomeOk
  <2>3. 2 \in DOMAIN checks
    BY <1>3
  <2> QED
    BY <1>1, <2>2, <2>3
<1> HIDE DEF checks, Word, total
<1>5. left < 5
  BY <1>3, <1>4
<1>6. PICK n \in Nat : n = count /\ GroupCount(n, q)
  BY <1>2, <1>5 DEF GroupCount
<1>7. Len(words) = n
  <2> HIDE DEF count
  <2> QED
    BY <1>6
<1> QED
  BY <1>4, <1>6, <1>7

\* A payload of the wrong length is badly encoded.
LEMMA WrongLength ==
    ASSUME NEW encoded, NEW m \in DOMAIN MethodName, NEW payload,
           bech32_decode(encoded) = Ok([hrp |-> Prefix \o MethodName[m], payload |-> payload]),
           Len(payload) # PayloadLen[m]
    PROVE  from_str(encoded) = Err("InvalidEncoding")
<1> DEFINE decoded == bech32_decode(encoded)
        hrp     == decoded.value.hrp
        pay     == decoded.value.payload
        method  == MethodOf(hrp)
        offset  == PayloadLen[method] - 4
        limits  == limits_from_payload(pay, offset)
        shapes  == <<
            Check(SubSeq(hrp, 1, 3) = Prefix, "InvalidHrpPrefix"),
            Check(method # "other", "UnsupportedAuthMethod"),
            Check(method # "other" => Len(pay) = PayloadLen[method], "InvalidPayloadLength")>>
        shape   == Outcome(shapes, method)
        version == Outcome(<<Reads(1, Len(pay), Byte(pay, 1) = FORMAT_VERSION,
                                   "UnsupportedFormatVersion"),
                             Slice(9, Len(pay)), Slice(offset, Len(pay))>>, method)
        k       == [auth_method |-> method, key_id |-> SubSeq(pay, 2, 9),
                    auth_secret |-> SubSeq(pay, 10, offset), limits |-> limits.value]
        o       == decode_api_key(encoded)
<1>1. o = CASE ~decoded.ok -> decoded
            [] decoded.ok /\ ~shape.ok                  -> shape
            [] decoded.ok /\ shape.ok /\ method = "secret" -> Ok([auth_method |-> "secret"])
            [] OTHER -> IF ~version.ok THEN version ELSE IF ~limits.ok THEN limits ELSE Ok(k)
  BY Zenon DEF decode_api_key
<1>2. decoded.ok /\ hrp = Prefix \o MethodName[m] /\ pay = payload
  BY DEF Ok
<1>3. SubSeq(hrp, 1, 3) = Prefix /\ method = m
  <2> HIDE DEF decoded, hrp
  <2>1. SubSeq(Prefix \o MethodName[m], 1, 3) = Prefix /\ MethodOf(Prefix \o MethodName[m]) = m
    BY MethodNames
  <2> QED
    BY <1>2, <2>1
<1>4. m # "other"
  BY NameFacts
<1> HIDE DEF decoded, hrp, pay, method
<1>5. shape = Err("InvalidPayloadLength")
  <2>1. method # "other" /\ ~(Len(pay) = PayloadLen[method])
    BY <1>2, <1>3, <1>4
  <2>2. DOMAIN shapes = 1..3 /\ shapes[1] = Pass /\ shapes[2] = Pass /\ shapes[3] = "InvalidPayloadLength"
    BY <1>3, <2>1 DEF Check
  <2> HIDE DEF shapes
  <2>3. shapes[3] # Pass /\ \A i \in 1..3 : shapes[i] # Pass => i = 3
    BY <2>2 DEF Pass
  <2>4. PICK three \in Nat : three = 3
    OBVIOUS
  <2>5. \/ (\A i \in 1..three : shapes[i] = Pass) /\ shape = Ok(method)
        \/ \E f \in 1..three : shapes[f] # Pass /\ shape = Err(shapes[f])
    <3>1. DOMAIN shapes = 1..three
      BY <2>2, <2>4
    <3> QED
      BY <3>1, OutcomeFirst
  <2> QED
    BY <2>2, <2>3, <2>4, <2>5
<1> HIDE DEF shape, version, limits, k, o
<1>6. ~shape.ok
  BY <1>5 DEF Err
<1>7. o = Err("InvalidPayloadLength")
  BY <1>1, <1>2, <1>5, <1>6
<1>8. ~o.ok /\ o.error = "InvalidPayloadLength"
  BY <1>7 DEF Err
<1>9. from_decode_error("InvalidPayloadLength") = "InvalidEncoding"
  BY DEF from_decode_error
<1> QED
  BY <1>8, <1>9 DEF from_str, from_decoded, o

\* A text splits in one way.
LEMMA SplitsOnce ==
    ASSUME NEW s, NEW hrp, NEW tail, NEW other, Splits(s, hrp, tail), Splits(s, hrp, other)
    PROVE  tail = other
<1> DEFINE seps == {i \in DOMAIN s : s[i] = Separator}
           pos  == IF seps = {} THEN 0 ELSE CHOOSE i \in seps : \A j \in seps : j <= i
<1>1. SubSeq(s, pos + 1, Len(s)) = tail
  BY SplitAt
<1>2. SubSeq(s, pos + 1, Len(s)) = other
  BY SplitAt
<1> HIDE DEF seps, pos
<1> QED
  BY <1>1, <1>2

\* A tail has a length and values.
LEMMA TailFacts ==
    ASSUME NEW tail \in Seq(Nat), NEW L \in Nat, HasLen(tail, L)
    PROVE  /\ DOMAIN tail = 1..L
           /\ TailValues(tail) \in Seq(Bytes) /\ HasLen(TailValues(tail), L)
           /\ \A i \in 1..L : TailValues(tail)[i] = char_to_value(tail[i])
<1>1. DOMAIN tail = 1..L
  BY DEF HasLen
<1>2. \A c : char_to_value(c) \in Bytes
  BY ValueFacts DEF Bytes
<1>3. TailValues(tail) \in [1..L -> Bytes] /\ \A i \in 1..L : TailValues(tail)[i] = char_to_value(tail[i])
  BY <1>1, <1>2 DEF TailValues
<1> QED
  BY <1>1, <1>3, SeqOfKnown

HrpOf(k) == Prefix \o MethodName[k.auth_method]

\* s has the human-readable part of the key, and a tail, without a separator,
\* that has another length than the key's or differs from it in one character.
Slip(s, k) ==
    \E tail, own :
        /\ Splits(s, HrpOf(k), tail) /\ Splits(KeyText(k), HrpOf(k), own)
        /\ Len(tail) # Len(own) \/ \E j : DifferAt(own, tail, Len(own), j)

\* Such a text is badly encoded.
LEMMA SlipRefused ==
    ASSUME NEW k \in Key, Issuable(k), NEW t \in Seq(Nat), Slip(to_ascii_lowercase(t), k)
    PROVE  from_str(t) = Err("InvalidEncoding")
<1>1. PICK tail, own :
        /\ Splits(to_ascii_lowercase(t), HrpOf(k), tail) /\ Splits(KeyText(k), HrpOf(k), own)
        /\ Len(tail) # Len(own) \/ \E j : DifferAt(own, tail, Len(own), j)
  BY DEF Slip
<1>2. PICK m \in DOMAIN MethodName : m = k.auth_method
  BY IssuedParts
<1>3. PICK hrp : hrp = HrpOf(k) /\ hrp = Prefix \o MethodName[m]
  BY <1>2 DEF HrpOf
<1>4. hrp \in Seq(Nat)
  BY <1>3, MethodNames
<1>5. PICK payload : KeyParts(k, payload)
  BY IssuedParts
<1>6. payload \in Seq(Bytes) /\ Len(payload) = PayloadLen[m] /\ KeyText(k) = bech32_encode(hrp, payload)
  BY <1>2, <1>3, <1>5 DEF KeyParts
<1>7. PICK n \in Nat : HasLen(payload, n)
  BY <1>6 DEF HasLen
<1>size. PICK M \in Nat : \E g, all, o : GroupCount(n, M) /\ Encoded(hrp, payload, M, g, all, o)
  BY <1>4, <1>6, <1>7, EncodedParts
<1>8. PICK g, all, o : GroupCount(n, M) /\ Encoded(hrp, payload, M, g, all, o)
  BY <1>size
<1>9. /\ Splits(bech32_encode(hrp, payload), hrp, o)
      /\ \A c \in Chars(o) : InCharset(c) /\ c \in 48..122 /\ ~IsUpper(c)
      /\ TailValues(o) = all
      /\ TailBytes(o) = Ok(payload)
  <2>1. Encoded(hrp, payload, M, g, all, o)
    BY <1>8
  <2> QED
    BY ONLY M \in Nat, <1>4, <2>1, EncodedReads
<1>10. o = own
  BY <1>1, <1>3, <1>6, <1>9, SplitsOnce
<1>11. PICK L \in Nat : L = M + 6 /\ HasLen(own, L)
  BY <1>8, <1>10 DEF Encoded
<1>12. own \in Seq(Nat) /\ tail \in Seq(Nat)
  BY <1>1 DEF Splits
<1>13. PICK J \in Nat : HasLen(tail, J)
  BY <1>12 DEF HasLen
<1>14. Splits(to_ascii_lowercase(t), hrp, tail)
  BY <1>1, <1>3
<1>15. SUFFICES ASSUME Readable(t, hrp, tail), verify_checksum(hrp, TailValues(tail)), TailBytes(tail).ok
                PROVE  from_str(t) = Err("InvalidEncoding")
  <2>1. ~(Readable(t, hrp, tail) /\ verify_checksum(hrp, TailValues(tail)) /\ TailBytes(tail).ok)
          => Refused(bech32_decode(t))
    BY <1>14, DecodeSplit
  <2> QED
    BY <2>1, RefusedKey
<1>16. bech32_decode(t) = Ok([hrp |-> hrp, payload |-> TailBytes(tail).value])
  BY <1>14, <1>15, DecodeSplit
<1>17. /\ TailValues(tail) \in Seq(Bytes) /\ HasLen(TailValues(tail), J) /\ DOMAIN tail = 1..J
       /\ \A i \in 1..J : TailValues(tail)[i] = char_to_value(tail[i])
  BY <1>12, <1>13, TailFacts
<1>18. CASE J # L
  <2>1. PICK q \in Nat : q = J - 6
    <3>1. Len(tail) >= 6
      BY <1>15 DEF Readable
    <3> QED
      BY <1>13, <3>1 DEF HasLen
  <2>2. PICK vals \in Seq(Bytes) : vals = TailValues(tail) /\ Len(vals) = J
    BY <1>17 DEF HasLen
  <2>3. SubSeq(vals, 1, q) \in Seq(Bytes) /\ HasLen(SubSeq(vals, 1, q), q)
    <3>1. Len(SubSeq(vals, 1, q)) = q
      BY <2>1, <2>2
    <3>2. SubSeq(vals, 1, q) \in Seq(Bytes)
      BY <2>1, <2>2
    <3> QED
      BY <3>1, <3>2 DEF HasLen
  <2>4. TailBytes(tail) = convert_bits(SubSeq(vals, 1, q), 5, 8, FALSE)
    <3>1. Len(vals) - 6 = q
      BY <2>1, <2>2
    <3> QED
      BY <2>2, <3>1 DEF TailBytes
  <2>5. PICK x \in Nat : Len(TailBytes(tail).value) = x /\ GroupCount(x, q)
    BY <1>15, <2>3, <2>4, ConvertLength
  <2>6. x # n
    BY <1>8, <1>11, <1>18, <2>1, <2>5 DEF GroupCount
  <2>7. Len(TailBytes(tail).value) # PayloadLen[m]
    BY <1>6, <1>7, <2>5, <2>6 DEF HasLen
  <2> QED
    BY <1>3, <1>16, <2>7, WrongLength
<1>19. CASE J = L
  <2>1. PICK j : DifferAt(own, tail, L, j)
    BY <1>1, <1>11, <1>13, <1>19 DEF HasLen
  <2>2. j \in 1..L /\ own[j] # tail[j] /\ \A i \in 1..L : i # j => own[i] = tail[i]
    BY <2>1 DEF DifferAt
  <2>3. /\ TailValues(own) \in Seq(Bytes) /\ HasLen(TailValues(own), L) /\ DOMAIN own = 1..L
        /\ \A i \in 1..L : TailValues(own)[i] = char_to_value(own[i])
    BY <1>11, <1>12, TailFacts
  <2>4. InCharset(own[j]) /\ InCharset(tail[j])
    <3>1. own[j] \in Chars(own) /\ tail[j] \in Chars(tail)
      BY <1>17, <1>19, <2>2, <2>3 DEF Chars
    <3>2. \A c \in Chars(tail) : InCharset(c)
      BY <1>15 DEF Readable
    <3> QED
      BY <1>9, <1>10, <3>1, <3>2
  <2>5. char_to_value(own[j]) # char_to_value(tail[j])
    BY <2>2, <2>4, ValueFacts
  <2>6. PICK a \in Seq(Bytes), b \in Seq(Bytes) :
          a = TailValues(own) /\ b = TailValues(tail) /\ HasLen(a, L) /\ HasLen(b, L)
    BY <1>17, <1>19, <2>3
  <2>7. DifferAt(a, b, L, j)
    BY <1>17, <1>19, <2>2, <2>3, <2>5, <2>6 DEF DifferAt
  <2>8. PICK P \in Seq(Bytes) : P = hrp_expand(hrp)
    BY <1>4, ExpandType
  <2>9. polymod(P \o a) # polymod(P \o b)
    BY <2>6, <2>7, SlipSeen
  <2>10. polymod(P \o a) = {0}
    BY <1>8, <1>9, <1>10, <2>6, <2>8 DEF Encoded, verify_checksum
  <2>11. polymod(P \o b) = {0}
    BY <1>15, <2>6, <2>8 DEF verify_checksum
  <2> QED
    BY <2>9, <2>10, <2>11
<1> QED
  BY <1>18, <1>19

-----------------------------------------------------------------------------
(* The text that was typed                                                 *)

\* A key's text has no capitals.
LEMMA PlainText ==
    ASSUME NEW k \in Key, Issuable(k)
    PROVE  to_ascii_lowercase(KeyText(k)) = KeyText(k) /\ ~Mixed(KeyText(k))
<1>1. PICK m \in DOMAIN MethodName : m = k.auth_method
  BY IssuedParts
<1>2. PICK hrp : hrp = Prefix \o MethodName[m]
  OBVIOUS
<1>3. hrp \in Seq(Nat) /\ \A i \in DOMAIN hrp : Plain(hrp[i])
  BY <1>2, MethodNames
<1>4. PICK payload : KeyParts(k, payload)
  BY IssuedParts
<1>5. payload \in Seq(Bytes) /\ KeyText(k) = bech32_encode(hrp, payload)
  BY <1>1, <1>2, <1>4 DEF KeyParts
<1>6. PICK n \in Nat : HasLen(payload, n)
  BY <1>5 DEF HasLen
<1>size. PICK M \in Nat : \E g, all, tail : Encoded(hrp, payload, M, g, all, tail)
  BY <1>3, <1>5, <1>6, EncodedParts
<1>7. PICK g, all, tail : Encoded(hrp, payload, M, g, all, tail)
  BY <1>size
<1>8. /\ Splits(bech32_encode(hrp, payload), hrp, tail)
      /\ \A c \in Chars(tail) : ~IsUpper(c)
  BY ONLY M \in Nat, <1>3, <1>7, EncodedReads
<1>9. PICK s : s = KeyText(k)
  OBVIOUS
<1>10. Splits(s, hrp, tail) /\ tail \in Seq(Nat)
  BY <1>5, <1>8, <1>9 DEF Splits
<1>11. PICK h \in Nat, L \in Nat : HasLen(hrp, h) /\ HasLen(tail, L)
  BY <1>3, <1>10 DEF HasLen
<1>12. /\ s \in Seq(Nat) /\ Len(s) = h + 1 + L
       /\ \A i \in 1..h : s[i] = hrp[i]
       /\ s[h + 1] = Separator
       /\ \A i \in 1..L : s[h + 1 + i] = tail[i]
  <2>1. Splits(s, hrp, tail) /\ HasLen(hrp, h) /\ HasLen(tail, L)
    BY <1>10, <1>11
  <2>2. Spelled(s, hrp, h, tail, L)
    BY ONLY h \in Nat, L \in Nat, <2>1, SplitChars
  <2> QED
    BY <2>2, Zenon DEF Spelled
<1>13. DOMAIN s = 1..h + 1 + L
  BY <1>12
<1>14. DOMAIN hrp = 1..h /\ DOMAIN tail = 1..L
  BY <1>3, <1>10, <1>11 DEF HasLen
<1>15. ASSUME NEW i \in 1..h + 1 + L PROVE ~IsUpper(s[i])
  <2>1. CASE i \in 1..h
    <3>1. Plain(s[i])
      BY <1>3, <1>12, <1>14, <2>1
    <3> QED
      BY <3>1 DEF Plain, IsUpper
  <2>2. CASE i = h + 1
    <3>1. s[i] = 49
      BY <1>12, <2>2 DEF Separator
    <3> QED
      BY <3>1 DEF IsUpper
  <2>3. CASE i > h + 1
    <3>1. PICK j \in 1..L : i = h + 1 + j
      <4>1. i - h - 1 \in 1..L /\ i = h + 1 + (i - h - 1)
        BY <2>3
      <4> QED
        BY <4>1
    <3>2. s[i] = tail[j] /\ tail[j] \in Chars(tail)
      BY <1>12, <1>14, <3>1 DEF Chars
    <3> QED
      BY <1>8, <3>2
  <2> QED
    BY <2>1, <2>2, <2>3
<1>16. \A i \in DOMAIN s : ~IsUpper(s[i])
  BY <1>13, <1>15
<1>17. ~Mixed(s)
  BY <1>16 DEF Mixed, Chars
<1>18. to_ascii_lowercase(s) = s
  <2>1. to_ascii_lowercase(s) = [i \in DOMAIN s |-> s[i]]
    BY <1>16 DEF to_ascii_lowercase
  <2>2. s = [i \in DOMAIN s |-> s[i]]
    BY <1>12
  <2> QED
    BY <2>1, <2>2
<1> QED
  BY <1>9, <1>17, <1>18

\* A text with a slip is not the key's.
LEMMA SlipOther ==
    ASSUME NEW k, NEW s, Slip(s, k)
    PROVE  s # KeyText(k)
<1> SUFFICES ASSUME s = KeyText(k) PROVE FALSE
  OBVIOUS
<1>1. PICK tail, own :
        /\ Splits(s, HrpOf(k), tail) /\ Splits(KeyText(k), HrpOf(k), own)
        /\ Len(tail) # Len(own) \/ \E j : DifferAt(own, tail, Len(own), j)
  BY DEF Slip
<1>2. tail = own
  BY <1>1, SplitsOnce
<1> QED
  BY <1>1, <1>2 DEF DifferAt

\* A key that was read was read from the text, and a text without typing errors
\* is the issued key's.
KeyInv ==
    /\ key = NoKey \/ key = from_str(text)
    /\ edits = 0 => text = KeyText(issued)

\* KeyInv holds at first and is kept by every step.
LEMMA KeyStep ==
    /\ Init => KeyInv
    /\ SetupInv /\ KeyInv /\ [Next]_vars => KeyInv'
<1>1. Init => KeyInv
  BY DEF Init, KeyInv
<1> SUFFICES ASSUME SetupInv, KeyInv, [Next]_vars PROVE KeyInv'
  BY <1>1
<1>2. CASE Edit
  <2>1. edits' # 0
    BY <1>2 DEF Edit, SetupInv
  <2> QED
    BY <1>2, <2>1 DEF Edit, KeyInv
<1>3. CASE ParseKey
  BY <1>3 DEF ParseKey, KeyInv
<1>4. ASSUME UNCHANGED <<issued, text, edits, key>> PROVE KeyInv'
  BY <1>4 DEF KeyInv
<1>5. UNCHANGED setup => KeyInv'
  BY <1>4 DEF setup
<1>6. CASE BuildClient
  BY <1>4, <1>6 DEF BuildClient
<1>7. ASSUME NEW next, Step(next) PROVE UNCHANGED setup
  BY <1>7 DEF Step
<1>8. CASE \E window \in Windows, tokens \in Quantities : AddResource(window, tokens)
  BY <1>5, <1>7, <1>8 DEF AddResource
<1>9. CASE \E args \in Trackers, threshold \in Thresholds : AddGuard(args, threshold)
  BY <1>5, <1>7, <1>9 DEF AddGuard
<1>10. CASE \E n \in Labels : SetLabel(n)
  BY <1>5, <1>7, <1>10 DEF SetLabel
<1>11. ASSUME NEW resolves \in BOOLEAN, Send(resolves) PROVE KeyInv'
  BY <1>5, <1>11 DEF Send
<1>12. ASSUME NEW error, GiveUp(error) PROVE KeyInv'
  BY <1>5, <1>12 DEF GiveUp
<1>13. ASSUME NEW w \in wire, NEW v \in Verdicts, Answer(w, v.server, v) PROVE KeyInv'
  BY <1>5, <1>13 DEF Answer
<1>14. ASSUME NEW d, Deliver(d) PROVE KeyInv'
  BY <1>5, <1>14 DEF Deliver
<1>15. CASE Receive
  BY <1>14, <1>15 DEF Receive
<1>16. ASSUME NEW args \in Trackers, NEW observed \in Thresholds, NEW resolves \in BOOLEAN,
             NEW fail \in SUBSET DOMAIN Targets, ReportLatency(args, observed, resolves, fail)
      PROVE  KeyInv'
  BY <1>5, <1>16 DEF ReportLatency
<1>17. CASE UNCHANGED vars
  BY <1>5, <1>17 DEF vars
<1> QED
  BY <1>2, <1>3, <1>6, <1>8, <1>9, <1>10, <1>11, <1>12, <1>13, <1>15, <1>16, <1>17 DEF Next

\* KeyInv holds in every reachable state.
THEOREM KeyInvariance == Spec => []KeyInv
<1>1. ExchangeInv => SetupInv
  BY DEF ExchangeInv
<1> QED
  BY <1>1, KeyStep, Invariance, PTL DEF Spec

\* What was typed is the issued key's text but for capitals, or has a slip.
Near == to_ascii_lowercase(text) = KeyText(issued) \/ Slip(to_ascii_lowercase(text), issued)

\* KeyOrEncodingError for every key and number of typing errors, when they leave
\* the human-readable part alone and the rest with another length or one wrong
\* character: from_str takes the text of a key, up to capitals, for that key and
\* no other, and refuses every such slip as badly encoded. What is sent then is
\* exact and within the limits of the issued key.
THEOREM KeyTexts == Spec => [](Near => KeyOrEncodingError /\ PacketsExact)
<1>1. ASSUME SetupInv, KeyInv, Near PROVE KeyOrEncodingError
  <2> SUFFICES ASSUME key # NoKey PROVE KeyOrEncodingError
    BY DEF KeyOrEncodingError
  <2>1. issued \in Key /\ Issuable(issued) /\ text \in Seq(Nat)
    BY <1>1, InputAssumption DEF SetupInv
  <2>2. key = from_str(text)
    BY <1>1 DEF KeyInv
  <2>3. text # KeyText(issued) => edits > 0
    <3>1. Typing[issued].max \in Nat
      BY <1>1, InputAssumption DEF SetupInv
    <3> QED
      BY <1>1, <3>1 DEF KeyInv, SetupInv
  <2>4. to_ascii_lowercase(KeyText(issued)) = KeyText(issued) /\ ~Mixed(KeyText(issued))
    BY <2>1, PlainText
  <2>5. CASE to_ascii_lowercase(text) = KeyText(issued) /\ ~Mixed(text)
    <3>1. key = Expected(issued)
      BY <2>1, <2>2, <2>5, RoundTrip
    <3> QED
      BY <2>5, <3>1 DEF KeyOrEncodingError, Expected
  <2>6. CASE to_ascii_lowercase(text) = KeyText(issued) /\ Mixed(text)
    <3>1. key = Err("InvalidEncoding")
      BY <2>1, <2>2, <2>6, RoundTrip
    <3> QED
      BY <2>3, <2>4, <2>6, <3>1 DEF KeyOrEncodingError
  <2>7. CASE Slip(to_ascii_lowercase(text), issued)
    <3>1. key = Err("InvalidEncoding")
      BY <2>1, <2>2, <2>7, SlipRefused
    <3>2. to_ascii_lowercase(text) # KeyText(issued)
      BY <2>7, SlipOther
    <3> QED
      BY <2>3, <2>4, <3>1, <3>2 DEF KeyOrEncodingError
  <2> QED
    BY <1>1, <2>5, <2>6, <2>7 DEF Near
<1>2. ExchangeInv => SetupInv
  BY DEF ExchangeInv
<1> QED
  BY <1>1, <1>2, Invariance, KeyInvariance, Packets, PTL

\* A client whose key is pasted and not typed gets the issued key, and everything
\* it sends is exact and within that key's limits, with no assumption on the
\* checksum.
THEOREM PastedKeys ==
    ASSUME \A k \in Keys : Typing[k].max = 0
    PROVE  Spec => [](KeyOrEncodingError /\ PacketsExact)
<1>1. ASSUME SetupInv, KeyInv PROVE Near
  <2>1. issued \in Keys /\ edits = 0
    BY <1>1 DEF SetupInv
  <2>2. issued \in Key /\ Issuable(issued) /\ text = KeyText(issued)
    BY <1>1, <2>1, InputAssumption DEF KeyInv
  <2> QED
    BY <2>2, PlainText DEF Near
<1>2. ExchangeInv => SetupInv
  BY DEF ExchangeInv
<1> QED
  BY <1>1, <1>2, Invariance, KeyInvariance, KeyTexts, PTL
=============================================================================
