# A TLA+ model of the Ratelimitly Rust client

This project models `rl-rust-client`: how one logical request chooses among the
answers of several servers, how concurrent requests share and replace a UDP
socket, how the server list is kept, which source ports are used, how traffic is
counted, and what the key texts, request builders, datagrams and parsers let
through. Definitions follow the Rust code and keep its
names. `PROJECT.json` maps each definition to its lines, each property to the
run that checks it, and lists the hazards the properties are aimed at.

## The system

| Component | Code | State | Operations |
| --- | --- | --- | --- |
| Request policy | `request_policy.rs`, `config.rs` | a validated policy | schedules, `horizon_ms`, builders |
| HA request | `client.rs`, `_check_rate_limit_with_retries` | round, deadline, `seen_server_ids`, `best`, channel | send, replay, receive, complete, time out |
| Steering and router | `client.rs`, `apply_steering_feedback`, `response_router` | `steering_pending`, shared socket, epoch, `request_activity`, inflight map | advise, drain, rebind, swap, confirm, route |
| Source ports | `client.rs`, `FamilySockets`, `bind_next_steering_socket` | one socket per family, `next_port` | bind both families, search the range |
| Discovery | `client.rs`, `_refresh_servers`, `current_targets` | `servers`, `last_dns_refresh` | check age, refresh, snapshot |
| Traffic counters | `traffic.rs` | seven atomics and a flag | `add`, `sent`, `received`, `snapshot` |
| Latency reports | `client.rs`, `report_latency` | none | send once to every server |
| Wire codec | `client.rs`, `protocol.rs` | none | build, authenticate, route by header, parse |
| API key codec | `api_key.rs`, `api_key_codec.rs` | none | decode, encode, validate |
| Builders, model, errors | `public_client.rs`, `model.rs`, `error.rs`, `lib.rs` | the request being built | `consume`, `guard`, `metrics_label`, argument checks, error mapping |

How they interact. A request passes the policy's horizon check, refreshes and
snapshots the server list (two tokio mutexes, held across DNS queries), takes a
read guard of `request_activity`, registers its id in the inflight map and sends
one datagram to every address through the shared socket. The router, a task of
its own, reads the socket and hands replies to the request's channel. When the
selected response asks for another source port, the request drops its guard,
takes `steering_apply_lock`, waits as writer of `request_activity` until all
requests on the socket have drained, binds and swaps the socket, raises the
epoch and waits until the router announces that epoch.

An application parses a key, builds a client from it, puts requests together
with a builder that takes itself by value (an error loses the draft), and gets a
`Response` or a public error. The router looks only at a datagram's header to
find the request; the request parses the rest.

What is hard about it: callers may drop a future at any await; replies are lost,
repeated, reordered and late; deadlines race with replies; several locks with
queues; sends that fail for some addresses; ports and families other processes
own; integer limits; datagrams whose declared sizes and lengths disagree.

## Modules

* **RequestPolicy**: `Schedule::units` and `horizon_ms` as operators, with u32
  and u64 scaled to constants and unchecked arithmetic wrapping. The state
  machine runs the three validations in order (`BuildPolicy`, `BuildClient`,
  `SendRequest`). `IdealUnits` and `IdealHorizon` are the reference in exact
  arithmetic.
* **HaRequest**: one request. `pc` is the place in
  `_check_rate_limit_with_retries`; the two receive loops are one, the final
  phase being round `ReplayCount + 1`. Time is counted in policy units from
  `started_at`. The task may be late: the clock may advance `MaxLate` ticks
  while the task has something to do, and `lag` counts them, so that properties
  can say what is due to lateness and what is not. Sends of one round are one
  step with a set of addresses that fail. Completion delivery is two steps: the
  clock is read (`Complete`), then the datagrams are sent (`Deliver`), with the
  awaits of the socket between them. What steering does to the outcome is
  one action (`Steer`). A reply carries the parser's verdict as `ok`.
  `seen_addrs` is left out: discovery keeps only endpoints with a server id, so
  `send_to_missing` never falls back to it. Of the statistics, `last_seen` is
  left out.
* **Steering**: any number of requests and reporters, and the router. Locks are
  derived from the places of the tasks; tokio's queueing (a queued writer keeps
  new readers out, a leaving writer admits the queued readers) is in `Goto`,
  `Begin` and `SocketWriterQueued`. A socket is its generation number. `advice`
  and `cause` are history variables: which sockets the stored advice was about.
  `left`, a third one, is the epoch of the last rebind that nobody waited for.
  A request is registered for replies until its function returns (`Return`), so
  also while it applies steering, after it has dropped its activity guard.
  `Cancel` may happen at every await; the error return after the swap
  (`local_addr` fails) is `InstallErr`. `wrapping_add` of the epoch is left out:
  2^64 rebinds do not happen.
* **SourcePorts**: what the socket generations of Steering are bound to. The
  search of a rebind has no await and is one step: `Candidate` is the sequence
  of ports tried, `Reached(k)` says the ones before were in use. `denied` and
  `down` are sockets and families the system refuses with another error than
  `AddrInUse`. History variables: `used` are the ports steering chose and the
  one `local_addr` gave at first, `strays` the port `new` got for the other
  family, `back` says that the last rebind went to a stray, `passed` and `lap`
  record what was tried between two uses of a port. `retired` is
  the replaced socket that the router still reads.
* **Discovery**: the staleness check, the refresh with one action per DNS
  answer, the snapshot. The resolver may answer anything. `young` says that
  `checked_sub` in `CoreClient::new` gave `None`. `cachedAsk` (history) is the
  time of the SRV answer behind the cached list.
* **TrafficCounters**: one action per atomic access. `exact` (history) is what
  the counters would hold without a limit. A snapshot's loads are independent,
  so one arbitrary counter (`field`) stands for all; relaxed ordering between
  different counters therefore does not matter to any property.
* **Admission**: the abstract specification of a request. It fixes its servers,
  hears some, and ends once: with the decision of the oldest one heard, with a
  timeout if it heard none, with an error, or with a local grant. HaRequest
  instantiates it as `A`: `members` is the snapshot, `heard` is
  `seen_server_ids`, `result` is what the caller gets.
* **SharedSocket**: the abstract specification of steering, without locks, queues,
  tasks or router. Calls share a socket, a call hears replies only on the socket it
  is on, advice is taken up, and the socket is replaced once for each time that
  happened and under no call. Steering instantiates it as `S`: a call is on the
  socket it sent on while it holds its read guard of `request_activity` (a reporter:
  of the socket),
  `heard` are the requests in `delivered` that still hold that guard (what comes
  later goes to a channel nobody reads any more), `advised` is
  `steering_pending`, and `answering` holds while a request is between the swap of `steering_pending` and the swap of the
  socket.
* **Checks**: the shape of the validating functions. `Outcome` takes the checks
  in the order of the code and gives the first that fails; the value of a check
  is its error or `Pass`, and one that reads past the end of a slice gives
  `"panic"`.
* **ApiKey**: key texts. Characters are codes, bytes and 5-bit groups are sets of
  bits, the checksum is the real one with the code's generator words. The
  encoder is the one of the codec's tests and serves as the reference.
* **Wire**: builders and parsers of datagrams with their real sizes. A datagram
  is a record of the values a reader finds at each place and of its length;
  declared sizes, counts and length are independent of each other, as in bytes
  from the network, and u16 fields wrap. Blake2s and AES-GCM are taken as
  injective: an id is the tuple it is derived from, a tag the triple of key,
  header and text.
* **Builders**: durations, resources, trackers, the request builder, the response
  and the public errors.
* **Exchange** composes ApiKey, Builders and Wire along the life of a client: a
  key is typed with errors and parsed, a client is built, drafts are put
  together and sent, servers answer, the router and the parser take the answers
  in any order and any number of times, requests give up, reports are sent.
  `Answer` is what a conforming server sends, `OddAnswerTo` a refusal with other
  sizes or counts, more data behind it, or cut short. `result.from` (history) is
  the datagram a response was read from. `TargetId` is the map from addresses to
  ids, in which the last endpoint listed with an address wins. What HaRequest, Steering and Discovery
  model in detail is one step here: `GiveUp` is a request that ends without an
  answer, `resolves` says whether discovery succeeded. Requests and reports do
  not occur in one behaviour: they share only the failure counters.
* **MCRequestPolicy, MCHaRequest, MCDiscovery, MCSourcePorts, MCExchange**: values
  for TLC.
* **HaRequestProofs, SteeringProofs, TrafficProofs, DiscoveryProofs,
  SourcePortsProofs, RequestPolicyProofs, ExchangeProofs**: theorems and proofs.
* **Induction**: lemmas on least elements, recursively defined tables, finite
  sets and sums, for the proofs.

Operators whose name begins with `Bug` are variants of a definition with a
plausible error. Each property of a run has one that violates it (`mutants` in
`PROJECT.json`); no specification uses them.

## Runs

| Run | Question | Bounds |
| --- | --- | --- |
| `request_policy` | Is the schedule arithmetic exact, is the TTL the documented horizon, are exactly the right policies accepted? | u32 of 6 bits, u64 of 9 bits, up to 4 replays, all structural errors, steps and factors that would overflow |
| `ha_request` | What does a request return, when, how late may it send, and does it implement Admission? | 3 servers (two started in the same second, one dual-stack) and a foreign id, 5 memberships (one lists an address under two ids), 6 replies of which 2 arrive, 1 replay, final phase, 2 ticks late |
| `steering` | Are sockets, router and replies consistent when callers cancel anywhere and rebinds fail before and after the swap, and does steering implement SharedSocket? | 2 requests that repeat for ever, 1 reporter, 2 rebinds |
| `steering_live` | Is advice kept, does every request return? | the same, without cancellation |
| `source_ports` | Is the range traversed completely before a port comes back, and before "in use" is reported? | 3 steering ports, 1 other, 2 foreign sockets, 2 that may be refused |
| `discovery` | Is a served list fresh, do refreshes not undo each other, does every operation end? | 2 operations, 3 targets (one without id), interval 1 s of 2 ticks, 5 ticks |
| `traffic` | No lost update, truthful flag, totals that add up? | 2 senders and the router, 3 datagrams, a limit of 76 that sums reach exactly and exceed |
| `exchange` | Is a mistyped key refused? Does any datagram break the parser? Is a grant always the server's grant to this request? Are the packets exact, the conforming answers understood, the reports accounted for? | 3 typed keys with up to 2 errors, 3 used keys (one per authentication method), 2 requests of at most a resource, a guard and a label, 2 conforming answers, 137 odd ones, 2 reports, 4 endpoints of 2 servers, one of which has id 0, with one address listed for both; u32 scaled to 100000, all other sizes real |

The bounds are small but the cases are in them: two rounds and a final phase
distinguish initial, replay and final rounds; two requests suffice for every
race between a steering request and another one, and two rebinds for stale
advice; three ports let the range wrap with a port occupied in either family;
76 = 28 + 48 is a total that fills a counter without passing it. In `exchange`
the key texts include two whose checksum survives an inserted character, the
label lengths are one that fits the packet limit for some authentication methods
and not for others and the two on either side of the builder's limit, the
answers include a longer tenant TLV, trailing parameters that fit the receive
buffer and that do not, and the odd ones stop at each length where some check
changes its mind, or declare one block too few or too many, with and without
data there; the second request is there for answers to the first.

Four runs show that the code departs from what a document or a comment of the
repository says; `findings` in `PROJECT.json` quotes the lines.

* `ha_err`: an error can hide a decision. A rebind that fails turns a selected
  response, possibly a grant, into `Err`.
* `steering_coalesce`: advice about a replaced socket causes another rebind.
* `ports_skip`: a port refused for another reason than `AddrInUse` is not
  skipped, and later rebinds start at the same port again.
* `ports_family`: a rebind to a port that one family refuses for another reason
  than `AddrInUse` installs the other family's socket alone.

Other departures show in how a property has to be stated.

* A late task sends after the deduplication lifetime: replays do not look at the
  clock, and completion delivery looks at it before it waits for the socket, while
  docs/ha-policy.md:36-38 makes all sends part of the one request.
  SendsWithinHorizon says how late that can be: by the task's own delay, `lag`.
* The two sockets of a new client have different ports, since `bind(0)` lets the
  system choose each, and steering can move to the port the IPv6 socket started
  with before it has traversed the range (docs/configuration.md:82-83, 88-89).
  NoEarlyRevisit therefore excepts that port: `back` says that it was met.
* The parser does not compare the blocks of a response with the request, so a
  response with fewer blocks than the request has conditions can be a grant.
  GrantIsServers says what a grant does mean: every block that the response
  declares is there and passes, and a conforming response has them all.
* A server with id 0 is accepted, and its decision is returned with
  `selected_server_id` `None`, which src/model.rs:364 keeps for a local one:
  hence the exception in GrantIsServers.
* A report on a clock younger than the refresh interval finds no servers and
  returns `Ok`.
* An address that is listed for two servers belongs to the last one: it is sent
  to although the first has answered, and a failed send counts for the last one.
* A request that applies steering stays registered, so late replies pile up in
  its channel until it returns.

A report whose sends are all refused is an error, without failures counted; a
datagram the socket accepted may still be lost, and ReportsAccounted says nothing
of that.

Deadlock is not checked where a behaviour ends by itself: a request that has
returned (`ha_request`), a policy that was accepted or rejected
(`request_policy`), a key that was refused or a budget of requests that is used
up (`exchange`). In the other runs it is.

### Fairness

* HaRequest: weak fairness of the task and of the clock. tokio polls a task
  that is ready, and timers fire. That a request ends is part of Admission.
* Steering: weak fairness of every step of a request that needs no luck, of the
  router's loop and of reporters. Strong fairness of `RouterRecv`: a socket's
  buffer is a queue, `recv_from` alternates between the families, so a waiting
  datagram is read after finitely many others. For `EveryRequestReturns` also
  strong fairness of `TimeOut` (the rounds of a request are finite, see
  HaRequest) and of `TakeApply` (a tokio mutex is first come, first served).
  `ReplyReachesRequest` does not use the last two.
* Discovery: strong fairness per operation, because its mutexes are first come,
  first served and the resolver's queries time out. Cancellation and the clock
  are not fair.

## Theorems

Each holds for every value of the constants allowed by the named assumptions.

**HaRequestProofs** (assumptions `EnvironmentAssumption`, `PolicyAssumption`:
gaps are positive and `Before` holds their running sums). The inductive
invariant adds to the properties `RoundInv` (what is known at each place about
round, retained response and answered servers) and `TimeInv` (where `now` and
`deadline` stand relative to `Before[round]` and to `lag`, and that a completion
delivery that has begun is late by less than `lag`).
TimeoutAtHorizon and OldestFirst are statements about the end of a request;
without TimeInv nothing ties the time at the end to the rounds that were spent.
Proved: TypeOK, SelectedIsOldestHeard, OldestFirst, TimeoutAtHorizon,
SendsWithinHorizon. Two further
invariants rest on these: `ArrivalInv` (a valid response in time that is not
processed waits in the channel, and the horizon of a prompt task has not passed
meanwhile), from which PromptTimeoutIsSilent follows, and `DeliveryInv` (from the
end of the first sends on, every address was reached or has a failure to its
account), from which PartialDeliveryVisible follows.
`Refinement` shows `Spec => A!Safety`, that HaRequest implements the safety part
of Admission, one step per action: most are unseen, `Snapshot` fixes the members,
`Receive` hears a server, `Steer` decides, the other ends fail, time out or grant
locally. The decision is the oldest one's by SelectedIsOldestHeard, a timeout
has heard nobody by RoundInv, and `PhaseInv` (a second invariant) says when a
request has ended and when it has its membership.

**SteeringProofs** (assumption `ConfigAssumption`). The inductive invariant adds
`LockInv` (at most one writer, and no reader while it is served), `EpochInv`
(the router's socket is the one its epoch was announced for, the epoch counts
the swaps, what was announced is not newer than what was read) and `WaitInv`
(the router is behind only while a request waits for it, or after a rebind that
was left before the router confirmed it).
Proved, for any number of requests, reporters and rebinds: TypeOK, SocketStable,
EpochAgrees, RouterAttached, AdviceNotForgotten. `SharedSocketImplemented` shows
`Spec => S!Spec`, one step per action: taking the locks, queueing and the router's
loop are unseen, a rebind is a `Replace` whether it then waits for the router or
returns an error, and every cancellation is an unseen step, a `Leave` or a
`GiveUp`.
That `Replace` happens under no call needs SocketStable, that there is one answer
at a time needs LockInv, and that a reply is heard on the right socket needs
`MailInv`: a reply on its way or delivered belongs to a request that is
registered, from the grant of its guard to its return, and a reply on its way is
on the socket that request sent on.

**TrafficProofs** (assumptions `CountersAssumption`, and `SendersAssumption`: the
senders are finitely many). The inductive invariant adds
`FlagInv` (a writer about to raise the flag has cut a total off; without it the
flag could be raised for nothing) and `SampleInv` (a sample is not above its
counter). Proved, for any number of writers and any width: TypeOK, NoLostUpdate,
CutOffIsFlagged, SnapshotsGrow. TotalsAddUp speaks of moments with no call under
way; `BalanceInv` says what holds in between: the headers counted so far and the
sum, over all writers, of what their pending adds are still worth stay within the
two bounds.

**DiscoveryProofs** (assumption `DiscoveryAssumption`). The inductive invariant
adds `LockInv` (one refresh at a time), `ClockInv` (nothing is dated in the
future, and a refresh under way has a newer SRV answer than the cached list; the
latter is inductive only with LockInv) and `EmptyInv` (only `new` leaves the list
empty, with the date it wrote). Proved, for any number of operations and any
resolver: TypeOK, ServedFresh and the action property NewestAnswerKept.

**SourcePortsProofs** (assumption `PortsAssumption`; port 0 is not in the range,
since `next_port` 0 means that there was no rebind). The inductive invariant adds
`StartInv` and `PassedInv` (every port between a used one and the next candidate,
round the end of the range, was passed since). PassedInv does not hold of the port
in `strays`, which steering did not start from, hence the exception. Proved,
for every range and environment: TypeOK, NoEarlyRevisit, InUseMeansAll.

**RequestPolicyProofs** (assumptions `WidthAssumption`, `ConfigAssumption`: fields
have the types of the code). `UnitsExact` shows that a valid schedule's wrapping
arithmetic equals the exact one in every round, `HorizonExact` the same for the
sum of all rounds, both by induction over the rounds; `StageInv` ties the stage
reached to what has been validated. Proved, for every schedule, replay count and
width: UnitsAreExact, TtlIsHorizon, AcceptedIffWithinLimits, and TypeOK, which no
run checks: it is part of the inductive invariant only.

**ExchangeProofs** (assumptions `InputAssumption`: types of the application's
arguments, and the service issues keys whose parts have the sizes of the format
and whose quotas fit their fields, `Issuable`, since no other has a text that the
decoder takes; `NetworkAssumption`: a conforming server's tenant TLV is at least as
long as the client's, odd answers may declare any sizes and counts). The proofs go from the
functions to the state machine. `ReaderFacts` shows that the checks of the
parsers come before the reads they protect, for every datagram whose sizes and
length are numbers; `KeyFacts` shows the same of `from_str`, and that what it
accepts is a usable key; `PacketFacts` that a packet which is built is exact, no
size or count having been cut off by its cast to 16 bits; `AnswerAccepted` and
`DecisionExact` that the parser takes a conforming answer and decides as the
blocks say that are counted; `AnswerComplete` that a conforming answer has a block
for each condition of the request. Of an odd answer only that its sizes are
numbers is used (`OddFacts`). The
inductive invariant is `SetupInv` (a client has a usable key that covers the
policy; nothing is asked before), `RequestInv` (drafts and requests have the
builders' types and stay in the key's window), `WireInv` (every datagram sent is
the datagram of a request with its index as id, or an exact report), `NetInv`
(every answer on its way answers some request), `ResultInv` and `CountInv`.
Proved, for all keys, texts, requests, verdicts, shapes and endpoints: TypeOK,
NeverPanics, AnswersUnderstood, ReportsAccounted, GrantIsServers. The last needs
`GrantInv`, an invariant of its own: a response that grants carries the results of
the datagram in `from`. GrantIsServers is not inductive without it, since a
conforming answer may be sent after a datagram like it was read. PacketsExact has
a hypothesis, because it compares with the limits of the issued key: `Packets`
shows it in every state where the key that was read is the issued one or none
(KeyOrEncodingError).

For which texts that is so is a matter of the codec, and is proved for every key.
`ChecksumVerifies`: the register after the checksum of the encoder is 1. The
register's steps are linear (`DiffStep`), so the six groups of the checksum cancel
what six empty groups would leave (`ChecksumTail`). `ConvertUp`, `ConvertDown`:
bytes cut into groups of five bits and cut back are the same bytes, and the
leftover bits are fewer than five and zero. `PackedFields`, `LimitsRead`: the six
quotas share a word without overlap and are read back. `DecodeEncoded`,
`DecodeKey`: the decoder finds the parts the encoder joined. Together they give
`RoundTrip`: a key's text, in small or capital letters, is read as that key, and
mixed it is refused. In the other direction, `StepInjective` shows that a step of
the register loses nothing (the low five bits of the generator words are
independent), so that one wrong value changes the register for good (`SlipSeen`);
`ConvertLength` shows that a tail of another length is a payload of another
length, or padded wrongly. Hence `SlipRefused`: a text with the key's
human-readable part whose rest has another length or one wrong character
is badly encoded, including the insertions that the checksum does not see.
`KeyInv` ties what was read to what was typed. Proved: `KeyTexts`,
KeyOrEncodingError and PacketsExact for all these texts, and `PastedKeys`, both
properties without a hypothesis on the text for clients whose key is not mistyped.

Induction. The provers cannot use induction principles over operators, so
**Induction** states them over sets and functions: a set of naturals that is not
empty has a least element, a set that contains 0 and each successor contains all,
a step function has a table of its iterates, a finite set is reached by adding
elements. A property is then proved by instantiating the set of the numbers that
have it.

Only model-checked: all liveness properties (the end of a request in
ImplementsAdmission, ReplyReachesRequest, EveryRequestReturns, OperationsEnd),
which need fairness; and KeyOrEncodingError for the other texts: errors in the
human-readable part or the separator, a separator in the rest, and several wrong
characters at unchanged length. Some of the last are not detected at all by a
checksum of 30 bits, so the property is one of the bounds on typing errors, and a
proof for few errors would have to go through the code's distance, an enumeration
and no induction.

## Not modelled

Cryptography (taken as injective), nonces, time stamps; `valid_dns_name` and
`parse_server_id_from_target`, tests on a text whose result nothing else here
depends on (Discovery says for each target whether it carries an id, and Exchange
that the id may be 0); Display,
Debug, error messages, logging; accessors; `Drop for CoreClient` (it aborts the
router when no request can be running). A request's own sends are one step, so
cancellation between two datagrams of one round is seen as cancellation before or
after it. The larger receive buffer of the `traffic-stats` feature is a value of
`RecvBuf`; the run uses the ordinary one.

## Plan

Done, in this order: the policy and the request with its abstraction, steering,
discovery, traffic, source ports, the codecs and their composition, then the
proofs of the invariants (KeyOrEncodingError for the texts named above) and of the
safety part of both refinements. What is left is a
bound on the distance of the checksum at the lengths of the four credential
types, from which KeyOrEncodingError would follow for two or more wrong
characters.
