----------------------------- MODULE SourcePorts -----------------------------
(***************************************************************************)
(* Which source ports the client gets: FamilySockets::bind and             *)
(* bind_next_steering_socket of client.rs. Other processes take and free   *)
(* ports, the system may refuse a port or a whole family, and a replaced   *)
(* socket stays open until the response router lets it go.                 *)
(*                                                                         *)
(* A rebind tries its candidates without a suspension point, so it is one  *)
(* step. External: the operating system.                                   *)
(***************************************************************************)
EXTENDS Naturals

CONSTANTS
    MinPort,  \* STEERING_PORT_MIN
    MaxPort,  \* u16::MAX
    LowPorts, \* ports below MinPort that bind(0) may choose
    Foreign,  \* sockets other processes may open
    MayDeny   \* sockets the system may refuse with another error than AddrInUse

Families == {"v4", "v6"}
SteeringRange == MinPort..MaxPort
Ports == SteeringRange \cup LowPorts
Sockets == [family : Families, port : Ports]

ASSUME PortsAssumption ==
    /\ MinPort \in Nat \ {0} /\ MaxPort \in Nat /\ MinPort < MaxPort
    /\ LowPorts \subseteq 1..MinPort - 1
    /\ Foreign \subseteq Sockets /\ MayDeny \subseteq Sockets

VARIABLES
    denied,   \* the sockets of MayDeny the system does refuse
    down,     \* families in which no socket can be opened at present
    taken,    \* sockets of other processes
    current,  \* the shared FamilySockets, {} before `new'
    retired,  \* the replaced sockets the router still reads, if any
    nextPort, \* steering_stats.next_port, 0 before the first rebind
    error,    \* what the rebind that just failed reported, or "none"
    used,     \* ports steering chose, and the one local_addr gave at first
    strays,   \* ports `new' got for the other family and steering has not chosen
    back,     \* the port just chosen was a stray
    passed,   \* [SteeringRange -> ports tried since the port was last bound]
    lap       \* ports tried between the last two uses of the current port

vars == <<denied, down, taken, current, retired, nextPort, error,
          used, strays, back, passed, lap>>

systemVars == <<denied, down, taken>>
ghostVars  == <<used, strays, back, passed, lap>>

-----------------------------------------------------------------------------
(* FamilySockets                                                           *)

At(families, port) == [family : families, port : {port}]

\* the families bind can open on a port, unless the port is in use
Open(port) == {f \in Families \ down : [family |-> f, port |-> port] \notin denied}

\* bind reports AddrInUse: one family does
InUse(port) == \E s \in At(Open(port), port) : s \in taken \cup current \cup retired

\* bind reports another error: both families do
Fails(port) == Open(port) = {}

Binds(port) == ~InUse(port) /\ ~Fails(port)

\* local_addr: the IPv4 socket's when there is one
LocalPort ==
    LET v4 == {s \in current : s.family = "v4"}
    IN  (CHOOSE s \in IF v4 # {} THEN v4 ELSE current : TRUE).port

-----------------------------------------------------------------------------
(* Candidates                                                              *)

\* Mutants: does not wrap; wraps one port early
BugNextNoWrap(port) == port + 1
BugNextSteeringPort(port) == IF port \in MinPort..MaxPort - 2 THEN port + 1 ELSE MinPort

next_steering_port(port) == IF port \in MinPort..MaxPort - 1 THEN port + 1 ELSE MinPort

\* Mutant: starts at the bottom of the range
BugFirstCandidate == IF nextPort = 0 THEN MinPort ELSE nextPort

FirstCandidate == IF nextPort = 0 THEN next_steering_port(LocalPort) ELSE nextPort

\* Candidate[k]: the port tried after k others
Candidate ==
    LET port[k \in 0..MaxPort - MinPort] ==
            IF k = 0 THEN FirstCandidate ELSE next_steering_port(port[k - 1])
    IN  port

\* Candidate k is reached: the ones before it were in use
Reached(k) == \A j \in 0..k - 1 : InUse(Candidate[j])

-----------------------------------------------------------------------------
Init ==
    /\ denied \in SUBSET MayDeny
    /\ down \in SUBSET Families
    /\ taken = {} /\ current = {} /\ retired = {}
    /\ nextPort = 0
    /\ error = "none"
    /\ used = {} /\ strays = {} /\ back = FALSE
    /\ passed = [p \in SteeringRange |-> {}]
    /\ lap = SteeringRange

\* `new': bind(0) opens each family on a port the system chooses
New(v4, v6) ==
    /\ current = {}
    /\ down # Families
    /\ current' = At({"v4"} \ down, v4) \cup At({"v6"} \ down, v6)
    /\ current' \cap taken = {}
    /\ used' = {IF "v4" \in down THEN v6 ELSE v4}
    /\ strays' = {s.port : s \in current'} \ used'
    /\ UNCHANGED <<systemVars, retired, nextPort, error, back, passed, lap>>

\* bind_next_steering_socket returns the first candidate that binds, and the
\* caller installs it
Rebind(k) ==
    /\ current # {}
    /\ Reached(k) /\ Binds(Candidate[k])
    /\ current' = At(Open(Candidate[k]), Candidate[k])
    /\ retired' = IF retired = {} THEN current ELSE retired
    /\ nextPort' = next_steering_port(Candidate[k])
    /\ error' = "none"
    /\ used' = used \cup {Candidate[k]}
    /\ strays' = strays \ {Candidate[k]}
    /\ back' = (Candidate[k] \in strays)
    /\ lap' = IF Candidate[k] \in used \cup strays
                THEN passed[Candidate[k]] \cup {Candidate[j] : j \in 0..k}
                ELSE SteeringRange
    /\ passed' = [p \in SteeringRange |->
                    IF p = Candidate[k] THEN {}
                                        ELSE passed[p] \cup {Candidate[j] : j \in 0..k}]
    /\ UNCHANGED systemVars

\* The request is cancelled between the bind and the swap: the new socket is
\* closed, next_port has moved on
Abandon(k) ==
    /\ current # {}
    /\ Reached(k) /\ Binds(Candidate[k])
    /\ nextPort' = next_steering_port(Candidate[k])
    /\ error' = "none"
    /\ passed' = [p \in SteeringRange |-> passed[p] \cup {Candidate[j] : j \in 0..k}]
    /\ UNCHANGED <<systemVars, current, retired, used, strays, back, lap>>

\* An error other than AddrInUse ends the search, and next_port stays
RebindError(k) ==
    /\ current # {}
    /\ Reached(k) /\ Fails(Candidate[k])
    /\ error' = "other"
    /\ UNCHANGED <<systemVars, current, retired, nextPort, ghostVars>>

\* Every candidate is in use
RebindExhausted ==
    /\ current # {}
    /\ \A k \in DOMAIN Candidate : InUse(Candidate[k])
    /\ error' = "in use"
    /\ UNCHANGED <<systemVars, current, retired, nextPort, ghostVars>>

-----------------------------------------------------------------------------
(* The environment                                                         *)

\* The router turns to the current sockets and lets the replaced ones go
Close ==
    /\ retired # {} /\ retired' = {}
    /\ error' = "none"
    /\ UNCHANGED <<systemVars, current, nextPort, ghostVars>>

\* Another process opens or closes a socket
Take(s) ==
    /\ s \notin taken \cup current \cup retired
    /\ taken' = taken \cup {s}
    /\ error' = "none"
    /\ UNCHANGED <<denied, down, current, retired, nextPort, ghostVars>>

Free(s) ==
    /\ s \in taken
    /\ taken' = taken \ {s}
    /\ error' = "none"
    /\ UNCHANGED <<denied, down, current, retired, nextPort, ghostVars>>

\* A family comes or goes: an interface, a limit on open files
Toggle(families) ==
    /\ families # down
    /\ down' = families
    /\ error' = "none"
    /\ UNCHANGED <<denied, taken, current, retired, nextPort, ghostVars>>

Next ==
    \/ \E v4, v6 \in Ports : New(v4, v6)
    \/ \E k \in 0..MaxPort - MinPort : Rebind(k) \/ Abandon(k) \/ RebindError(k)
    \/ RebindExhausted
    \/ Close
    \/ \E s \in Foreign : Take(s) \/ Free(s)
    \/ \E families \in SUBSET Families : Toggle(families)

Spec == Init /\ [][Next]_vars

-----------------------------------------------------------------------------
(* Properties                                                              *)

TypeOK ==
    /\ denied \subseteq MayDeny /\ down \subseteq Families
    /\ taken \subseteq Foreign
    /\ current \subseteq Sockets /\ retired \subseteq Sockets
    /\ nextPort \in SteeringRange \cup {0}
    /\ error \in {"none", "in use", "other"}
    /\ used \subseteq Ports /\ strays \subseteq Ports /\ back \in BOOLEAN
    /\ passed \in [SteeringRange -> SUBSET SteeringRange] /\ lap \subseteq SteeringRange

\* The ports tried since the client last had its port, and that port itself
Lapped == lap \cup {p \in SteeringRange : current # {} /\ p = LocalPort}

\* Steering comes back to a port that it chose, or that local_addr gave when it
\* started, only after it has tried every other port of the range since, whatever
\* was skipped, abandoned or retried on the way. The port that the other family
\* had at first may be met sooner (back): the search does not know of it.
NoEarlyRevisit == back \/ Lapped = SteeringRange

\* "Address in use" is reported only if every port of the range is in use: the
\* search that wraps around misses none.
InUseMeansAll == error = "in use" => \A port \in SteeringRange : InUse(port)

\* docs/configuration.md: ports that cannot be acquired are skipped, so steering
\* fails only when no port of the range can be acquired.
SkipsUnavailable == error # "none" => \A port \in SteeringRange : ~Binds(port)

\* docs/configuration.md: rebinding moves both sockets to the new port, so while
\* no family is missing none is lost by a rebind.
BothMove ==
    down = {} /\ retired # {} => {s.family : s \in retired} \subseteq {s.family : s \in current}
=============================================================================
