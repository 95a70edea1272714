-------------------------- MODULE SourcePortsProofs --------------------------
(***************************************************************************)
(* Proofs about SourcePorts, for any range of ports, whatever the system   *)
(* refuses and whatever other processes hold.                              *)
(***************************************************************************)
EXTENDS SourcePorts, Induction

\* Nothing is known before `new', and the client keeps a socket from then on.
StartInv == current = {} => used = {} /\ nextPort = 0 /\ error = "none"

\* The ports after p and before q, round the end of the range
Between(p, q) == IF p < q THEN p + 1..q - 1 ELSE (p + 1..MaxPort) \cup (MinPort..q - 1)

\* All between a port of `used' and the one it tries next was tried since.
\* NoEarlyRevisit is not inductive without it: it speaks of one port only.
PassedInv ==
    current # {} => \A p \in used \cap SteeringRange : Between(p, FirstCandidate) \subseteq passed[p]

\* The parts of the invariant
IInv ==
    /\ TypeOK /\ StartInv /\ PassedInv
    /\ NoEarlyRevisit /\ InUseMeansAll

-----------------------------------------------------------------------------
(* Candidates                                                              *)

\* The range has at least two ports, and 0 is none of them.
LEMMA RangeNumbers ==
    MinPort \in Nat /\ MaxPort \in Nat /\ MinPort > 0 /\ MinPort < MaxPort
  BY PortsAssumption

\* next_steering_port stays in the range, and goes round at its end.
LEMMA NextPort ==
    /\ \A p : next_steering_port(p) \in SteeringRange
    /\ \A p \in SteeringRange : next_steering_port(p) = IF p = MaxPort THEN MinPort ELSE p + 1
  BY RangeNumbers DEF next_steering_port, SteeringRange

\* What bind_next_steering_socket tries: a port of the range, then the next one
\* each time.
LEMMA Candidates ==
    ASSUME FirstCandidate \in SteeringRange
    PROVE  /\ Candidate \in [0..MaxPort - MinPort -> SteeringRange]
           /\ Candidate[0] = FirstCandidate
           /\ \A k \in 1..MaxPort - MinPort : Candidate[k] = next_steering_port(Candidate[k - 1])
<1> DEFINE n == MaxPort - MinPort
           step == [x \in Nat \X SteeringRange |-> next_steering_port(x[2])]
<1> PICK first \in SteeringRange : first = FirstCandidate
  OBVIOUS
<1> DEFINE Is(port) == port = [k \in 0..n |-> IF k = 0 THEN first ELSE next_steering_port(port[k - 1])]
<1>1. n \in Nat
  BY RangeNumbers
<1>2. step \in [Nat \X SteeringRange -> SteeringRange]
  BY NextPort
<1> HIDE DEF n
<1>3. PICK f : Solves(f, n, SteeringRange, first, step)
  <2> HIDE DEF step
  <2> QED
    BY <1>1, <1>2, Recursion
<1>4. \A k \in 1..n : f[k] = next_steering_port(f[k - 1])
  <2> TAKE k \in 1..n
  <2>1. k - 1 \in 0..n /\ k \in Nat
    BY <1>1
  <2>2. <<k, f[k - 1]>> \in Nat \X SteeringRange
    BY <1>3, <2>1 DEF Solves
  <2> QED
    BY <1>3, <2>2 DEF Solves
<1>5. Is(f)
  <2>1. \A k \in 0..n : f[k] = IF k = 0 THEN first ELSE next_steering_port(f[k - 1])
    BY <1>1, <1>3, <1>4 DEF Solves
  <2> QED
    BY <1>3, <2>1 DEF Solves
<1>6. Candidate = CHOOSE port : Is(port)
  BY DEF Candidate, n
<1> HIDE DEF Is
<1>7. Is(Candidate)
  BY <1>5, <1>6, Zenon
<1> DEFINE c == Candidate
<1>8. c = [k \in 0..n |-> IF k = 0 THEN first ELSE next_steering_port(c[k - 1])]
  BY <1>7 DEF Is
<1> HIDE DEF c
<1>9. c[0] = first /\ \A k \in 1..n : c[k] = next_steering_port(c[k - 1])
  BY <1>1, <1>8
<1>10. \A k \in 0..n : c[k] \in SteeringRange
  BY <1>1, <1>9, NextPort
<1>11. c \in [0..n -> SteeringRange]
  BY <1>8, <1>10
<1> QED
  BY <1>9, <1>11 DEF c, n

\* The port after k others, round the end of the range
After(p, k) == IF p + k <= MaxPort THEN p + k ELSE p + k - (MaxPort - MinPort + 1)

\* The candidates go once round the range.
LEMMA CandidateIs ==
    ASSUME FirstCandidate \in SteeringRange
    PROVE  \A k \in 0..MaxPort - MinPort : Candidate[k] = After(FirstCandidate, k)
<1> DEFINE n == MaxPort - MinPort
           T == {k \in 0..n : Candidate[k] = After(FirstCandidate, k)}
<1>1. n \in Nat /\ FirstCandidate \in Nat
  BY RangeNumbers DEF SteeringRange
<1>2. 0 \in T
  BY <1>1, Candidates, RangeNumbers DEF After, SteeringRange
<1>3. ASSUME NEW k \in 0..n - 1, k \in T PROVE k + 1 \in T
  <2>1. k + 1 \in 1..n /\ (k + 1) - 1 = k
    BY <1>1
  <2>2. Candidate[k + 1] = next_steering_port(Candidate[k])
    BY <2>1, Candidates
  <2>3. Candidate[k] = After(FirstCandidate, k)
    BY <1>3
  <2>4. After(FirstCandidate, k) \in SteeringRange
    BY <1>1, <2>1, RangeNumbers DEF After, SteeringRange
  <2>5. next_steering_port(After(FirstCandidate, k)) = After(FirstCandidate, k + 1)
    BY <1>1, <2>1, <2>4, NextPort, RangeNumbers DEF After, SteeringRange
  <2> QED
    BY <2>1, <2>2, <2>3, <2>5
<1>4. 0..n \subseteq T
  <2> HIDE DEF T
  <2> QED
    BY <1>1, <1>2, <1>3, UpTo
<1> QED
  BY <1>4

\* The candidates are the whole range.
LEMMA CandidatesCover ==
    ASSUME FirstCandidate \in SteeringRange, NEW p \in SteeringRange
    PROVE  \E k \in 0..MaxPort - MinPort : Candidate[k] = p
<1> DEFINE k == IF p >= FirstCandidate THEN p - FirstCandidate
                                       ELSE p - FirstCandidate + (MaxPort - MinPort + 1)
<1>1. k \in 0..MaxPort - MinPort /\ After(FirstCandidate, k) = p
  BY RangeNumbers DEF SteeringRange, After
<1> QED
  BY <1>1, CandidateIs

\* The ports tried, with the ones tried before, leave nothing out between a port
\* and the next candidate.
LEMMA TriedBetween ==
    ASSUME FirstCandidate \in SteeringRange, NEW k \in 0..MaxPort - MinPort, NEW p \in SteeringRange
    PROVE  /\ Between(p, next_steering_port(Candidate[k])) \subseteq
                  Between(p, FirstCandidate) \cup {Candidate[j] : j \in 0..k}
           /\ p = Candidate[k] => SteeringRange \subseteq Between(p, FirstCandidate) \cup {Candidate[j] : j \in 0..k}
           /\ {Candidate[j] : j \in 0..k} \subseteq SteeringRange
<1> DEFINE f == FirstCandidate
           c == Candidate[k]
           tried == {Candidate[j] : j \in 0..k}
<1>1. \A j \in 0..k : j \in 0..MaxPort - MinPort
  BY RangeNumbers
<1>2. tried \subseteq SteeringRange
  BY <1>1, Candidates
<1>3. c \in SteeringRange /\ c = After(f, k)
  BY Candidates, CandidateIs
<1>4. ASSUME NEW x \in SteeringRange, x \notin tried
      PROVE  \A j \in 0..k : x # After(f, j)
  BY <1>1, <1>4, CandidateIs
<1>5. ASSUME NEW x \in SteeringRange, x \notin tried
      PROVE  IF f <= c THEN x < f \/ x > c ELSE c < x /\ x < f
  <2> HIDE DEF tried
  <2>1. f \in SteeringRange
    OBVIOUS
  <2> HIDE DEF f, c
  <2>2. CASE x >= f
    <3>1. ~(x - f \in 0..k)
      <4>1. x - f \in 0..k => x = After(f, x - f)
        BY <2>1, <2>2, RangeNumbers DEF After, SteeringRange
      <4> QED
        BY <1>4, <1>5, <4>1
    <3> QED
      BY <1>3, <2>1, <2>2, <3>1, RangeNumbers DEF After, SteeringRange
  <2>3. CASE x < f
    <3> DEFINE j == x - f + (MaxPort - MinPort + 1)
    <3>1. ~(j \in 0..k)
      <4>1. j \in 0..k => x = After(f, j)
        BY <2>1, <2>3, RangeNumbers DEF After, SteeringRange
      <4> QED
        BY <1>4, <1>5, <4>1
    <3> QED
      BY <1>3, <2>1, <2>3, <3>1, RangeNumbers DEF After, SteeringRange
  <2> QED
    BY <2>1, <2>2, <2>3, RangeNumbers DEF SteeringRange
<1>6. next_steering_port(c) = IF c = MaxPort THEN MinPort ELSE c + 1
  BY <1>3, NextPort
<1>7. Between(p, next_steering_port(c)) \subseteq SteeringRange
  BY <1>3, <1>6, RangeNumbers DEF Between, SteeringRange
<1> HIDE DEF tried, f, c
<1>8. f \in SteeringRange
  BY DEF f
<1>9. ASSUME NEW x \in Between(p, next_steering_port(c)), x \notin tried PROVE x \in Between(p, f)
  <2>1. x \in SteeringRange
    BY <1>7
  <2> QED
    BY <1>3, <1>5, <1>6, <1>8, <1>9, <2>1, RangeNumbers DEF Between, SteeringRange
<1>10. ASSUME p = c, NEW x \in SteeringRange, x \notin tried PROVE x \in Between(p, f)
  BY <1>3, <1>5, <1>8, <1>10, RangeNumbers DEF Between, SteeringRange
<1> QED
  BY <1>2, <1>9, <1>10 DEF tried, f, c

-----------------------------------------------------------------------------
(* Sockets                                                                 *)

\* local_addr of a set of sockets
PortIn(sockets) ==
    LET v4 == {s \in sockets : s.family = "v4"}
    IN  (CHOOSE s \in IF v4 # {} THEN v4 ELSE sockets : TRUE).port

\* local_addr is the port of one of the sockets, an IPv4 one if there is one.
LEMMA PortInIs ==
    ASSUME NEW sockets, sockets # {}
    PROVE  \E s \in sockets :
               /\ PortIn(sockets) = s.port
               /\ (\E u \in sockets : u.family = "v4") => s.family = "v4"
<1> DEFINE v4 == {s \in sockets : s.family = "v4"}
           all == IF v4 # {} THEN v4 ELSE sockets
           s == CHOOSE u \in all : TRUE
<1>1. all # {} /\ all \subseteq sockets
  OBVIOUS
<1>2. s \in all
  <2> HIDE DEF all
  <2> QED
    BY <1>1
<1>3. PortIn(sockets) = s.port
  BY DEF PortIn
<1>4. (\E u \in sockets : u.family = "v4") => \A u \in all : u.family = "v4"
  OBVIOUS
<1> HIDE DEF s, all
<1> QED
  BY <1>1, <1>2, <1>3, <1>4

\* The sockets of a port
LEMMA AtIs ==
    ASSUME NEW families, NEW port
    PROVE  /\ \A f \in families : [family |-> f, port |-> port] \in At(families, port)
           /\ \A s \in At(families, port) : s.port = port /\ s.family \in families
           /\ families \subseteq Families => At(families, port) \subseteq At(Families, port)
           /\ families \subseteq Families /\ port \in Ports => At(families, port) \subseteq Sockets
           /\ families # {} => At(families, port) # {}
<1>1. \A f \in families : [family |-> f, port |-> port] \in At(families, port)
  BY DEF At
<1>2. \A s \in At(families, port) : s.port = port /\ s.family \in families
  BY DEF At
<1>3. families \subseteq Families => At(families, port) \subseteq At(Families, port)
  BY DEF At
<1>4. families \subseteq Families /\ port \in Ports => At(families, port) \subseteq Sockets
  BY DEF At, Sockets
<1> QED
  BY <1>1, <1>2, <1>3, <1>4

\* The first port to try is in the range.
LEMMA FirstInRange ==
    ASSUME TypeOK
    PROVE  FirstCandidate \in SteeringRange
  BY NextPort DEF TypeOK, FirstCandidate

-----------------------------------------------------------------------------
(* The actions                                                             *)

\* The first sockets: each family on a port of its own.
LEMMA NewStep ==
    ASSUME IInv, NEW v4 \in Ports, NEW v6 \in Ports, New(v4, v6)
    PROVE  IInv'
<1> DEFINE a == At({"v4"} \ down, v4)
           b == At({"v6"} \ down, v6)
           port == IF "v4" \in down THEN v6 ELSE v4
<1>1. /\ current = {} /\ down # Families /\ current' = a \cup b /\ current' \cap taken = {}
      /\ used' = {port} /\ strays' = {s.port : s \in current'} \ used'
      /\ UNCHANGED <<denied, down, taken, retired, nextPort, error, back, passed, lap>>
      /\ nextPort = 0 /\ error = "none"
  BY DEF New, systemVars, IInv, StartInv
<1>2. a \subseteq Sockets /\ b \subseteq Sockets
  BY AtIs DEF Families
<1>3. /\ \A s \in a : s.port = v4 /\ s.family = "v4"
      /\ \A s \in b : s.port = v6 /\ s.family = "v6"
      /\ "v4" \notin down => a # {}
      /\ "v4" \in down => a = {}
  BY AtIs
<1>4. "v4" \in down => b # {}
  <2>1. "v4" \in down => "v6" \notin down
    BY <1>1 DEF IInv, TypeOK, Families
  <2> QED
    BY <2>1, AtIs
<1>5. current' # {}
  BY <1>1, <1>3, <1>4
<1>6. LocalPort' = PortIn(current')
  BY DEF LocalPort, PortIn
<1>7. PortIn(current') = port
  <2>1. PICK s \in current' : /\ PortIn(current') = s.port
                              /\ (\E u \in current' : u.family = "v4") => s.family = "v4"
    BY <1>5, PortInIs
  <2> HIDE DEF a, b
  <2> QED
    BY <1>1, <1>3, <1>4, <2>1
<1> HIDE DEF a, b
<1>8. port \in Ports
  OBVIOUS
<1> HIDE DEF port
<1>9. TypeOK'
  <2>1. strays' \subseteq Ports
    BY <1>1, <1>2 DEF Sockets
  <2> QED
    BY <1>1, <1>2, <1>8, <2>1 DEF IInv, TypeOK
<1>10. StartInv'
  BY <1>5 DEF StartInv
<1>11. FirstCandidate' = next_steering_port(port)
  BY <1>1, <1>6, <1>7 DEF FirstCandidate
<1>12. ASSUME NEW p \in used' \cap SteeringRange PROVE Between(p, FirstCandidate') = {}
  <2>1. p = port /\ p \in SteeringRange
    BY <1>1, <1>12
  <2> QED
    BY <1>11, <2>1, NextPort, RangeNumbers DEF Between, SteeringRange
<1>13. PassedInv'
  BY <1>12 DEF PassedInv
<1>14. NoEarlyRevisit' /\ InUseMeansAll'
  BY <1>1 DEF IInv, NoEarlyRevisit, Lapped, InUseMeansAll, TypeOK
<1> QED
  BY <1>9, <1>10, <1>13, <1>14 DEF IInv

\* A rebind that succeeds.
LEMMA RebindStep ==
    ASSUME IInv, NEW k \in 0..MaxPort - MinPort, Rebind(k)
    PROVE  IInv'
<1> DEFINE c == Candidate[k]
           tried == {Candidate[j] : j \in 0..k}
<1>1. /\ current # {} /\ Binds(c)
      /\ current' = At(Open(c), c)
      /\ retired' = IF retired = {} THEN current ELSE retired
      /\ nextPort' = next_steering_port(c) /\ error' = "none"
      /\ used' = used \cup {c} /\ strays' = strays \ {c} /\ back' = (c \in strays)
      /\ lap' = IF c \in used \cup strays THEN passed[c] \cup tried ELSE SteeringRange
      /\ passed' = [p \in SteeringRange |-> IF p = c THEN {} ELSE passed[p] \cup tried]
      /\ UNCHANGED <<denied, down, taken>>
  BY DEF Rebind, systemVars
<1>2. FirstCandidate \in SteeringRange
  BY FirstInRange DEF IInv
<1>3. c \in SteeringRange
  BY <1>2, Candidates
<1>4. /\ tried \subseteq SteeringRange
      /\ \A p \in SteeringRange :
            /\ Between(p, next_steering_port(c)) \subseteq Between(p, FirstCandidate) \cup tried
            /\ p = c => SteeringRange \subseteq Between(p, FirstCandidate) \cup tried
  BY <1>2, <1>3, TriedBetween
<1> HIDE DEF c, tried
<1>5. Open(c) # {} /\ Open(c) \subseteq Families /\ c \in Ports
  BY <1>1, <1>3 DEF Binds, Fails, Open, Ports
<1>6. /\ current' # {} /\ current' \subseteq Sockets /\ current' \subseteq At(Families, c)
      /\ \A s \in current' : s.port = c
  BY <1>1, <1>5, AtIs
<1>7. LocalPort' = c
  <2>1. LocalPort' = PortIn(current')
    BY DEF LocalPort, PortIn
  <2> QED
    BY <1>6, <2>1, PortInIs
<1>8. next_steering_port(c) \in SteeringRange /\ next_steering_port(c) # 0
  BY NextPort, RangeNumbers DEF SteeringRange
<1>9. passed \in [SteeringRange -> SUBSET SteeringRange]
  BY DEF IInv, TypeOK
<1>10. passed' \in [SteeringRange -> SUBSET SteeringRange] /\ lap' \subseteq SteeringRange
  BY <1>1, <1>3, <1>4, <1>9
<1>11. TypeOK'
  <2>1. back' \in BOOLEAN
    BY <1>1
  <2>2. /\ retired' \subseteq Sockets
        /\ used' \subseteq Ports /\ strays' \subseteq Ports
    BY <1>1, <1>5 DEF IInv, TypeOK
  <2> QED
    BY <1>1, <1>6, <1>8, <1>10, <2>1, <2>2 DEF IInv, TypeOK
<1>12. StartInv'
  BY <1>6 DEF StartInv
<1>14. FirstCandidate' = next_steering_port(c)
  BY <1>1, <1>8 DEF FirstCandidate
<1>15. PassedInv'
  <2> SUFFICES ASSUME NEW p \in used' \cap SteeringRange
               PROVE  Between(p, next_steering_port(c)) \subseteq passed'[p]
    BY <1>14 DEF PassedInv
  <2>1. CASE p = c
    <3>1. Between(c, next_steering_port(c)) = {}
      BY <1>3, NextPort, RangeNumbers DEF Between, SteeringRange
    <3> QED
      BY <2>1, <3>1
  <2>2. CASE p # c
    <3>1. p \in used \cap SteeringRange
      BY <1>1, <2>2
    <3>2. Between(p, FirstCandidate) \subseteq passed[p]
      BY <1>1, <3>1 DEF IInv, PassedInv
    <3> QED
      BY <1>1, <1>4, <2>2, <3>1, <3>2
  <2> QED
    BY <2>1, <2>2
<1>16. c \notin strays => lap' = SteeringRange
  <2>1. CASE c \in used
    <3>1. Between(c, FirstCandidate) \subseteq passed[c]
      BY <1>1, <1>3, <2>1 DEF IInv, PassedInv
    <3> QED
      BY <1>1, <1>3, <1>4, <1>10, <2>1, <3>1
  <2> QED
    BY <1>1, <2>1
<1>17. NoEarlyRevisit' /\ InUseMeansAll'
  BY <1>1, <1>16 DEF NoEarlyRevisit, Lapped, InUseMeansAll
<1> QED
  BY <1>11, <1>12, <1>15, <1>17 DEF IInv

\* A rebind whose sockets are dropped moves the search on all the same.
LEMMA AbandonStep ==
    ASSUME IInv, NEW k \in 0..MaxPort - MinPort, Abandon(k)
    PROVE  IInv'
<1> DEFINE c == Candidate[k]
           tried == {Candidate[j] : j \in 0..k}
<1>1. /\ current # {} /\ nextPort' = next_steering_port(c) /\ error' = "none"
      /\ passed' = [p \in SteeringRange |-> passed[p] \cup tried]
      /\ UNCHANGED <<denied, down, taken, current, retired, used, strays, back, lap>>
  BY DEF Abandon, systemVars
<1>2. FirstCandidate \in SteeringRange
  BY FirstInRange DEF IInv
<1>3. c \in SteeringRange
  BY <1>2, Candidates
<1>4. /\ tried \subseteq SteeringRange
      /\ \A p \in SteeringRange :
            Between(p, next_steering_port(c)) \subseteq Between(p, FirstCandidate) \cup tried
  BY <1>2, <1>3, TriedBetween
<1> HIDE DEF c, tried
<1>5. next_steering_port(c) \in SteeringRange /\ next_steering_port(c) # 0
  BY NextPort, RangeNumbers DEF SteeringRange
<1>6. passed \in [SteeringRange -> SUBSET SteeringRange]
  BY DEF IInv, TypeOK
<1>7. passed' \in [SteeringRange -> SUBSET SteeringRange]
  BY <1>1, <1>4, <1>6
<1>8. TypeOK'
  BY <1>1, <1>5, <1>7 DEF IInv, TypeOK
<1>9. LocalPort' = LocalPort
  BY <1>1 DEF LocalPort
<1>10. StartInv' /\ NoEarlyRevisit' /\ InUseMeansAll'
  BY <1>1, <1>9 DEF IInv, StartInv, NoEarlyRevisit, Lapped, InUseMeansAll
<1>11. FirstCandidate' = next_steering_port(c)
  BY <1>1, <1>5 DEF FirstCandidate
<1>12. PassedInv'
  <2> SUFFICES ASSUME NEW p \in used' \cap SteeringRange
               PROVE  Between(p, next_steering_port(c)) \subseteq passed'[p]
    BY <1>11 DEF PassedInv
  <2>1. p \in used \cap SteeringRange
    BY <1>1
  <2>2. Between(p, FirstCandidate) \subseteq passed[p]
    BY <1>1, <2>1 DEF IInv, PassedInv
  <2> QED
    BY <1>1, <1>4, <2>1, <2>2
<1> QED
  BY <1>8, <1>10, <1>12 DEF IInv

\* A search that fails or a change in the system leaves the client's ports.
LEMMA OtherStep ==
    ASSUME IInv, UNCHANGED <<current, nextPort, used, back, passed, lap>>,
           TypeOK', StartInv', InUseMeansAll'
    PROVE  IInv'
<1>1. LocalPort' = LocalPort /\ FirstCandidate' = FirstCandidate
  BY DEF LocalPort, FirstCandidate
<1> QED
  BY <1>1 DEF IInv, PassedInv, NoEarlyRevisit, Lapped

\* Every step preserves the invariant.
LEMMA NextStep ==
    ASSUME IInv, [Next]_vars
    PROVE  IInv'
<1> USE DEF systemVars, ghostVars
<1>2. ASSUME NEW k, RebindError(k) PROVE IInv'
  <2>1. TypeOK' /\ StartInv' /\ InUseMeansAll'
    BY <1>2 DEF RebindError, IInv, TypeOK, StartInv, InUseMeansAll
  <2> QED
    BY <1>2, <2>1, OtherStep DEF RebindError
<1>3. CASE RebindExhausted
  <2>1. TypeOK' /\ StartInv'
    BY <1>3 DEF RebindExhausted, IInv, TypeOK, StartInv
  <2>2. ASSUME NEW p \in SteeringRange PROVE InUse(p)
    <3>1. FirstCandidate \in SteeringRange
      BY FirstInRange DEF IInv
    <3>2. PICK k \in 0..MaxPort - MinPort : Candidate[k] = p
      BY <3>1, CandidatesCover
    <3>3. k \in DOMAIN Candidate
      BY <3>1, Candidates
    <3> QED
      BY <1>3, <3>2, <3>3 DEF RebindExhausted
  <2>3. InUseMeansAll'
    BY <1>3, <2>2 DEF RebindExhausted, InUseMeansAll, InUse, Open
  <2> QED
    BY <1>3, <2>1, <2>3, OtherStep DEF RebindExhausted
<1>4. CASE Close
  <2>1. TypeOK' /\ StartInv' /\ InUseMeansAll'
    BY <1>4 DEF Close, IInv, TypeOK, StartInv, InUseMeansAll
  <2> QED
    BY <1>4, <2>1, OtherStep DEF Close
<1>5. ASSUME NEW s \in Foreign, Take(s) \/ Free(s) PROVE IInv'
  <2>1. TypeOK' /\ StartInv' /\ InUseMeansAll'
    BY <1>5 DEF Take, Free, IInv, TypeOK, StartInv, InUseMeansAll
  <2> QED
    BY <1>5, <2>1, OtherStep DEF Take, Free
<1>6. ASSUME NEW families \in SUBSET Families, Toggle(families) PROVE IInv'
  <2>1. TypeOK' /\ StartInv' /\ InUseMeansAll'
    BY <1>6 DEF Toggle, IInv, TypeOK, StartInv, InUseMeansAll
  <2> QED
    BY <1>6, <2>1, OtherStep DEF Toggle
<1>7. CASE UNCHANGED vars
  <2>1. TypeOK' /\ StartInv' /\ InUseMeansAll'
    BY <1>7 DEF vars, IInv, TypeOK, StartInv, InUseMeansAll, InUse, Open
  <2> QED
    BY <1>7, <2>1, OtherStep DEF vars
<1> QED
  BY <1>2, <1>3, <1>4, <1>5, <1>6, <1>7, NewStep, RebindStep, AbandonStep DEF Next

-----------------------------------------------------------------------------
(* Theorems                                                                *)

\* The invariant holds in every reachable state.
THEOREM Invariance == Spec => []IInv
<1>1. Init => IInv
  BY DEF Init, IInv, TypeOK, StartInv, PassedInv, NoEarlyRevisit, Lapped, InUseMeansAll
<1>2. IInv /\ [Next]_vars => IInv'
  BY NextStep
<1> QED
  BY <1>1, <1>2, PTL DEF Spec

\* Type correctness of the sockets and of the search.
THEOREM TypeCorrect == Spec => []TypeOK
BY Invariance, PTL DEF IInv

\* bind_next_steering_socket and next_port visit the range fairly: a port that
\* steering chose, or that local_addr gave at first, comes back only after every
\* other one was tried, for every range, whatever is in use, refused or abandoned.
\* The other family's first port is not among them: see `strays'.
THEOREM FairVisits == Spec => []NoEarlyRevisit
BY Invariance, PTL DEF IInv

\* The search of bind_next_steering_socket misses no port before it reports
\* that all are in use, for every range and every place it starts from.
THEOREM SearchComplete == Spec => []InUseMeansAll
BY Invariance, PTL DEF IInv
=============================================================================
