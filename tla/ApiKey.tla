------------------------------- MODULE ApiKey -------------------------------
(***************************************************************************)
(* API-key texts: decode_api_key of api_key_codec.rs, ApiKey::from_str of  *)
(* api_key.rs, and the encoder of the codec's tests as the reference.      *)
(*                                                                         *)
(* A text is the sequence of its character codes. A byte, a 5-bit group    *)
(* and the checksum register are the sets of their one-bits, so that an    *)
(* exclusive or is a symmetric difference. Limits that are powers of two   *)
(* are kept as exponents; window exponent 31 stands for u32::MAX.          *)
(***************************************************************************)
EXTENDS Integers, Sequences, Checks

FORMAT_VERSION == {0}   \* the byte 1

Separator == 49         \* '1'

\* qpzry9x8gf2tvdw0s3jn54khce6mua7l
CHARSET == <<113, 112, 122, 114, 121, 57, 120, 56, 103, 102, 50, 116, 118, 100, 119, 48,
             115, 51, 106, 110, 53, 52, 107, 104, 99, 101, 54, 109, 117, 97, 55, 108>>

Prefix == <<114, 108, 45>>   \* rl-

\* The credential types, with the bytes of their payload. A resource key holds
\* a version, 8 bytes of key id, the secret if any, and 4 bytes of quotas.
MethodName == [none   |-> <<110, 111, 110, 101>>,
               cookie |-> <<99, 111, 111, 107, 105, 101>>,
               aes    |-> <<97, 101, 115>>,
               secret |-> <<115, 101, 99, 114, 101, 116>>]

PayloadLen == [none |-> 13, cookie |-> 45, aes |-> 45, secret |-> 32]

-----------------------------------------------------------------------------
(* Bits                                                                    *)

Powers == <<1, 2, 4, 8, 16, 32, 64, 128>>

Bits(n) == {b \in 0..7 : (n \div Powers[b + 1]) % 2 = 1}

Number(bits) ==
    LET Weight(b, w) == IF b \in bits THEN w ELSE 0
    IN  Weight(0, 1) + Weight(1, 2) + Weight(2, 4) + Weight(3, 8)
            + Weight(4, 16) + Weight(5, 32) + Weight(6, 64) + Weight(7, 128)

Xor(a, b) == (a \ b) \cup (b \ a)

\* Bits lo..lo + width - 1 of a word, and a value put there
Field(word, lo, width) == Number({b \in 0..width - 1 : lo + b \in word})

Put(value, lo) == {lo + b : b \in Bits(value)}

-----------------------------------------------------------------------------
(* Checksum                                                                *)

\* The five words of GEN
GEN == <<{1, 4, 5, 7, 8, 9, 10, 12, 14, 17, 19, 21, 22, 24, 25, 27, 28, 29},
         {0, 2, 3, 5, 6, 9, 10, 11, 15, 20, 22, 25, 26, 29},
         {1, 3, 4, 5, 6, 7, 8, 11, 12, 16, 21, 23, 25, 26, 27, 28},
         {0, 2, 3, 4, 6, 7, 8, 9, 12, 13, 17, 22, 24, 26, 27, 28, 29},
         {0, 1, 4, 5, 7, 9, 13, 14, 18, 20, 25, 27, 29}>>

\* The words of GEN that the top five bits of the register select, xored
Feedback(c) ==
    LET Word(i) == IF 25 + i \in c THEN GEN[i + 1] ELSE {}
    IN  Xor(Xor(Xor(Xor(Word(0), Word(1)), Word(2)), Word(3)), Word(4))

\* The register after one more value
polymod_step == [c \in SUBSET (0..29) |-> [v \in SUBSET (0..7) |->
    Xor(Xor({b + 5 : b \in c \cap 0..24}, v), Feedback(c))]]

polymod(values) ==
    LET chk[n \in 0..Len(values)] == IF n = 0 THEN {0} ELSE polymod_step[chk[n - 1]][values[n]]
    IN  chk[Len(values)]

hrp_expand(hrp) ==
    [i \in DOMAIN hrp |-> Bits(hrp[i] \div 32)] \o <<{}>>
        \o [i \in DOMAIN hrp |-> Bits(hrp[i] % 32)]

verify_checksum(hrp, data) == polymod(hrp_expand(hrp) \o data) = {0}

-----------------------------------------------------------------------------
(* Decoding                                                                *)

\* Mutant: leftover bits are accepted when they are zero, however many
BugConvertBits(data, from, to, pad) ==
    LET total   == from * Len(data)
        left    == total % to
        Bit(k)  == k < total /\ from - 1 - (k % from) \in data[k \div from + 1]
        count   == total \div to + (IF pad /\ left > 0 THEN 1 ELSE 0)
    IN  Outcome(<<Check(pad \/ ~\E k \in total - left..total - 1 : Bit(k), "InvalidPadding")>>,
                [j \in 1..count |-> {b \in 0..to - 1 : Bit(to * j - 1 - b)}])

\* The groups as one stream of bits, most significant first, cut again
convert_bits(data, from, to, pad) ==
    LET total   == from * Len(data)
        left    == total % to
        Bit(k)  == k < total /\ from - 1 - (k % from) \in data[k \div from + 1]
        Word(j) == {b \in 0..to - 1 : Bit(to * j - 1 - b)}
        count   == total \div to + (IF pad /\ left > 0 THEN 1 ELSE 0)
    IN  Outcome(<<Check(\A i \in DOMAIN data : data[i] \subseteq 0..from - 1, "InvalidPadding"),
                  Check(pad \/ left < from, "InvalidPadding"),
                  Check(pad \/ ~\E k \in total - left..total - 1 : Bit(k), "InvalidPadding")>>,
                [j \in 1..count |-> Word(j)])

IsUpper(c) == c \in 65..90
IsLower(c) == c \in 97..122
to_ascii_lowercase(s) == [i \in DOMAIN s |-> IF IsUpper(s[i]) THEN s[i] + 32 ELSE s[i]]

Chars(s) == {s[i] : i \in DOMAIN s}

InCharset(c) == c \in Chars(CHARSET)

char_to_value(c) ==
    IF InCharset(c) THEN Bits((CHOOSE v \in DOMAIN CHARSET : CHARSET[v] = c) - 1) ELSE {}

bech32_decode(addr) ==
    LET s     == to_ascii_lowercase(addr)
        seps  == {i \in DOMAIN s : s[i] = Separator}
        pos   == IF seps = {} THEN 0 ELSE CHOOSE i \in seps : \A j \in seps : j <= i
        hrp   == SubSeq(s, 1, pos - 1)
        tail  == SubSeq(s, pos + 1, Len(s))
        data  == [i \in DOMAIN tail |-> char_to_value(tail[i])]
        text  == Outcome(<<
            Check(addr # <<>>, "EmptyInput"),
            Check(Chars(addr) \subseteq 33..126, "NonPrintable"),
            Check(~((\E c \in Chars(addr) : IsLower(c)) /\ \E c \in Chars(addr) : IsUpper(c)),
                  "MixedCase"),
            Check(seps # {}, "MissingSeparator"),
            Check(pos > 1, "EmptyHrp"),
            Check(Len(tail) >= 6, "ChecksumTooShort"),
            Check(\A c \in Chars(tail) : InCharset(c), "InvalidCharset")>>, hrp)
        bytes == convert_bits(SubSeq(data, 1, Len(data) - 6), 5, 8, FALSE)
    IN  CASE ~text.ok                   -> text
          [] text.ok /\ ~verify_checksum(hrp, data) -> Err("ChecksumFailed")
          [] OTHER -> IF bytes.ok THEN Ok([hrp |-> hrp, payload |-> bytes.value]) ELSE bytes

\* A byte of the payload; past the end it has no value and the read is a panic
Byte(payload, i) == IF i \in DOMAIN payload THEN payload[i] ELSE {}

limits_from_payload(payload, offset) ==
    LET word  == {k \in 0..31 : k % 8 \in Byte(payload, offset + (k \div 8) + 1)}
        rate  == Field(word, 0, 5)
        lat   == Field(word, 5, 5)
        units == Field(word, 19, 8)
    IN  Outcome(<<Slice(offset + 4, Len(payload)),
                  Check(rate <= 24 /\ lat <= 24 /\ units \in 1..200, "InvalidPackedQuota")>>,
                [rate_buckets |-> rate, latency_services |-> lat,
                 metrics_labels |-> Field(word, 10, 5), latency_buffer |-> Field(word, 15, 4),
                 dedup_ttl_ms_max |-> 10 * units, rate_window |-> Field(word, 27, 5)])

\* The credential type a human-readable part names, "other" if none
MethodOf(hrp) ==
    LET m == {n \in DOMAIN MethodName : hrp = Prefix \o MethodName[n]}
    IN  IF m = {} THEN "other" ELSE CHOOSE n \in m : TRUE

\* A key of type secret carries neither a key id nor limits.
decode_api_key(encoded) ==
    LET decoded == bech32_decode(encoded)
        hrp     == decoded.value.hrp
        payload == decoded.value.payload
        method  == MethodOf(hrp)
        offset  == PayloadLen[method] - 4
        limits  == limits_from_payload(payload, offset)
        shape   == Outcome(<<
            Check(SubSeq(hrp, 1, 3) = Prefix, "InvalidHrpPrefix"),
            Check(method # "other", "UnsupportedAuthMethod"),
            Check(method # "other" => Len(payload) = PayloadLen[method], "InvalidPayloadLength")>>,
            method)
        version == Outcome(<<Reads(1, Len(payload), Byte(payload, 1) = FORMAT_VERSION,
                                   "UnsupportedFormatVersion"),
                             Slice(9, Len(payload)), Slice(offset, Len(payload))>>, method)
    IN  CASE ~decoded.ok                              -> decoded
          [] decoded.ok /\ ~shape.ok                  -> shape
          [] decoded.ok /\ shape.ok /\ method = "secret" -> Ok([auth_method |-> "secret"])
          [] OTHER -> IF ~version.ok THEN version ELSE IF ~limits.ok THEN limits
                      ELSE Ok([auth_method |-> method, key_id |-> SubSeq(payload, 2, 9),
                               auth_secret |-> SubSeq(payload, 10, offset),
                               limits |-> limits.value])

from_decode_error(error) ==
    CASE error = "UnsupportedFormatVersion" -> "UnsupportedVersion"
      [] error \in {"UnsupportedAuthMethod", "InvalidHrpPrefix"} -> "UnsupportedCredential"
      [] error = "InvalidPackedQuota" -> "InvalidLimits"
      [] error = "panic" -> "panic"
      [] OTHER -> "InvalidEncoding"

\* ApiKey::from_str, from the decoder's result on
from_decoded(decoded) ==
    CASE ~decoded.ok -> Err(from_decode_error(decoded.error))
      [] decoded.ok /\ decoded.value.auth_method = "secret" -> Err("UnsupportedCredential")
      [] OTHER -> decoded

from_str(encoded) == from_decoded(decode_api_key(encoded))

-----------------------------------------------------------------------------
(* Encoding, the reference                                                 *)

value_to_char(v) == CHARSET[Number(v) + 1]

create_checksum(hrp, data) ==
    LET pm == Xor(polymod(hrp_expand(hrp) \o data \o [i \in 1..6 |-> {}]), {0})
    IN  [i \in 1..6 |-> {b \in 0..4 : 5 * (6 - i) + b \in pm}]

bech32_encode(hrp, payload) ==
    LET data == convert_bits(payload, 8, 5, TRUE).value
        all  == data \o create_checksum(hrp, data)
    IN  hrp \o <<Separator>> \o [i \in DOMAIN all |-> value_to_char(all[i])]

encode_api_key(key) ==
    LET l    == key.limits
        word == Put(l.rate_buckets, 0) \cup Put(l.latency_services, 5)
                    \cup Put(l.metrics_labels, 10) \cup Put(l.latency_buffer, 15)
                    \cup Put(l.dedup_ttl_ms_max \div 10, 19) \cup Put(l.rate_window, 27)
    IN  bech32_encode(Prefix \o MethodName[key.auth_method],
            <<FORMAT_VERSION>> \o key.key_id \o key.auth_secret
                \o [i \in 1..4 |-> {b \in 0..7 : 8 * (i - 1) + b \in word}])
=============================================================================
