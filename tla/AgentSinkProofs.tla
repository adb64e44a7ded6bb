---------------------------- MODULE AgentSinkProofs ----------------------------
(***************************************************************************)
(* Safety of the sink for any timeouts, any number of retries and of       *)
(* payloads, however late the agent handles a request.                     *)
(***************************************************************************)
EXTENDS AgentSink, FiniteSetTheorems, TLAPS

Requests == [p : Nat, t : Nat, scheme : {"http", "https"}]

Typed ==
    /\ pc \in {"open", "probe", "ready", "noAgent", "send", "wait", "exit"}
    /\ now \in Nat /\ probes \in Nat /\ payload \in Nat /\ try \in 0..Retries
    /\ pc \in {"send", "wait"} => try > 0 /\ payload > 0
    /\ published \subseteq 1..payload
    /\ flight \subseteq Requests /\ IsFiniteSet(flight) /\ log \in Seq(Nat)
    /\ tls \in BOOLEAN /\ agent \in BOOLEAN

\* The time that the probes can have taken.
Probing ==
    /\ pc = "open" => probes = 0 /\ now = 0
    /\ pc \in {"probe", "noAgent"} /\ probes = 0 => now = 0
    /\ pc \in {"probe", "noAgent"} /\ probes = 1 => now <= requestTimeout + ProbeBackoff
    /\ pc = "noAgent" => now > ProbeTimeout

\* Nothing is on its way, or accepted, before it is published.
FromPayloads ==
    /\ \A r \in flight : r.p \in 1..payload
    /\ \A i \in 1..Len(log) : log[i] \in 1..payload

InFlight(p) == {r \in flight : r.p = p}

\* How many requests can have been sent for a payload.
Sent(p) ==
    IF p = payload /\ pc = "send" THEN try - 1
    ELSE IF p = payload /\ pc = "wait" THEN try ELSE Retries

\* Every request sent is on its way, accepted once, or gone.
Counted == \A p \in 1..payload : Cardinality(Accepted(p)) + Cardinality(InFlight(p)) <= Sent(p)

\* A published payload was accepted before any later one was, published or not.
Ordered ==
    /\ pc = "wait" /\ answer = "204" => Accepted(payload) # {}
    /\ \A p \in published : Accepted(p) # {}
    /\ \A p \in published, q \in 1..payload : p < q =>
          \E i \in Accepted(p) : \A j \in Accepted(q) : i < j

SinkInv == Typed /\ Probing /\ FromPayloads /\ Counted /\ Ordered

-----------------------------------------------------------------------------
(* Counting *)

LEMMA Finite ==
  ASSUME Typed
  PROVE  /\ \A p : IsFiniteSet(Accepted(p)) /\ Cardinality(Accepted(p)) \in Nat
         /\ \A p : IsFiniteSet(InFlight(p)) /\ Cardinality(InFlight(p)) \in Nat
         /\ Len(log) \in Nat
<1>1. Len(log) \in Nat /\ IsFiniteSet(1..Len(log))
  BY FS_Interval DEF Typed
<1>2. \A p : Accepted(p) \in SUBSET (1..Len(log)) /\ InFlight(p) \in SUBSET flight
  BY DEF Accepted, InFlight
<1> QED
  BY <1>1, <1>2, FS_Subset, FS_CardinalityType DEF Typed

LEMMA SentTyped ==
  ASSUME Typed
  PROVE  \A p : Sent(p) \in Nat /\ Sent(p) <= Retries
BY SinkAssumption DEF Typed, Sent

LEMMA SentTypedNext ==
  ASSUME Typed'
  PROVE  \A p : Sent(p)' \in Nat
<1> SUFFICES ASSUME NEW p PROVE Sent(p)' \in Nat
  OBVIOUS
<1>1. try' \in Nat /\ Retries \in Nat /\ (pc' = "send" => try' - 1 \in Nat)
  <2>1. try' \in 0..Retries /\ (pc' = "send" => try' > 0)
    BY DEF Typed
  <2>2. \A n \in 0..Retries : n \in Nat /\ (n > 0 => n - 1 \in Nat)
    BY SinkAssumption
  <2> QED
    BY <2>1, <2>2, SinkAssumption
<1>2. Sent(p)' \in {Retries, try'} \/ (pc' = "send" /\ Sent(p)' = try' - 1)
  BY DEF Sent
<1> QED
  BY <1>1, <1>2

\* Steps that send nothing.
LEMMA CountKept ==
  ASSUME SinkInv, Typed', UNCHANGED <<log, payload>>, flight' \subseteq flight,
         \A p \in 1..payload : Sent(p) <= Sent(p)'
  PROVE  Counted'
<1> SUFFICES ASSUME NEW p \in 1..payload
             PROVE  Cardinality(Accepted(p)') + Cardinality(InFlight(p)') <= Sent(p)'
  BY DEF Counted
<1>1. Accepted(p)' = Accepted(p)
  BY DEF Accepted
<1>2. Cardinality(InFlight(p)') <= Cardinality(InFlight(p)) /\ Cardinality(InFlight(p)') \in Nat
  <2>1. InFlight(p)' \in SUBSET InFlight(p)
    BY DEF InFlight
  <2>2. IsFiniteSet(InFlight(p))
    BY Finite DEF SinkInv
  <2> QED
    BY <2>1, <2>2, FS_Subset, FS_CardinalityType
<1>3. Cardinality(Accepted(p)) + Cardinality(InFlight(p)) <= Sent(p)
  BY DEF SinkInv, Counted
<1>4. Cardinality(Accepted(p)) \in Nat /\ Cardinality(InFlight(p)) \in Nat
  BY Finite DEF SinkInv
<1>5. Sent(p) \in Nat /\ Sent(p)' \in Nat /\ Sent(p) <= Sent(p)'
  <2>1. Sent(p)' \in Nat
    BY SentTypedNext
  <2> QED
    BY <2>1, SentTyped DEF SinkInv
<1> QED
  BY <1>1, <1>2, <1>3, <1>4, <1>5

LEMMA OrderKept ==
  ASSUME SinkInv, UNCHANGED <<log, payload, published>>,
         pc' = "wait" /\ answer' = "204" => pc = "wait" /\ answer = "204"
  PROVE  Ordered'
<1>1. \A p : Accepted(p)' = Accepted(p)
  BY DEF Accepted
<1> QED
  BY <1>1 DEF SinkInv, Ordered

LEMMA PayloadsKept ==
  ASSUME SinkInv, UNCHANGED <<log, payload>>, flight' \subseteq flight
  PROVE  FromPayloads'
BY DEF SinkInv, FromPayloads

LEMMA FlightFinite ==
  ASSUME Typed, flight' \subseteq flight
  PROVE  flight' \subseteq Requests /\ IsFiniteSet(flight')
BY FS_Subset DEF Typed

-----------------------------------------------------------------------------
LEMMA SinkInitInv == Init => SinkInv
<1> SUFFICES ASSUME Init PROVE SinkInv
  OBVIOUS
<1>1. Typed
  <2>1. IsFiniteSet({}) /\ 0 \in 0..Retries /\ <<>> \in Seq(Nat)
    BY FS_EmptySet, SinkAssumption
  <2> QED
    BY <2>1 DEF Init, Typed
<1>2. payload = 0 /\ 1..0 = {} /\ log = <<>> /\ Len(<<>>) = 0 /\ flight = {} /\ published = {} /\ pc = "open"
  BY DEF Init
<1>3. Probing
  BY DEF Init, Probing
<1>4. FromPayloads /\ Counted /\ Ordered
  BY <1>2 DEF FromPayloads, Counted, Ordered
<1> QED
  BY <1>1, <1>3, <1>4 DEF SinkInv

\* The probe, and the start of a process.
LEMMA ProbeInv == ASSUME SinkInv, Probe \/ Restart PROVE SinkInv'
<1>1. /\ UNCHANGED <<tls, payload, published, agent, flight, log>>
      /\ pc \notin {"send", "wait"} /\ pc' \in {"open", "probe", "ready", "noAgent", "exit"}
      /\ try' \in {0, try}
  BY DEF Probe, OpenClient, ProbeOK, ProbeFails, ProbeTimesOut, Restart
<1>2. Typed'
  <2>1. requestTimeout \in Nat
    BY SinkAssumption DEF requestTimeout
  <2>2. now' \in Nat /\ probes' \in Nat
    BY <2>1, SinkAssumption DEF Probe, OpenClient, ProbeOK, ProbeFails, ProbeTimesOut, Restart, SinkInv, Typed
  <2>3. try' \in 0..Retries
    BY <1>1, SinkAssumption DEF SinkInv, Typed
  <2> QED
    BY <1>1, <2>2, <2>3 DEF SinkInv, Typed
<1>3. Probing'
  <2> USE DEF SinkInv, Typed, Probing
  <2>1. CASE OpenClient
    BY <2>1, SinkAssumption DEF OpenClient, requestTimeout
  <2>2. CASE ProbeOK
    BY <2>2 DEF ProbeOK
  <2>3. CASE ProbeFails
    <3>1. PICK d \in 0..requestTimeout : now' = now + d + ProbeBackoff
      BY <2>3 DEF ProbeFails
    <3>2. pc = "probe" /\ pc' = "probe" /\ probes' = probes + 1
      BY <2>3 DEF ProbeFails
    <3>3. requestTimeout \in Nat /\ ProbeBackoff \in Nat /\ probes \in Nat
      BY SinkAssumption DEF requestTimeout
    <3>4. probes = 0 => now' <= requestTimeout + ProbeBackoff
      BY <3>1, <3>2, <3>3
    <3> QED
      BY <3>2, <3>3, <3>4
  <2>4. CASE ProbeTimesOut
    BY <2>4 DEF ProbeTimesOut
  <2>5. CASE Restart
    BY <2>5 DEF Restart
  <2> QED
    BY <2>1, <2>2, <2>3, <2>4, <2>5 DEF Probe
<1>4. \A p \in 1..payload : Sent(p) <= Sent(p)'
  BY <1>1, SinkAssumption DEF Sent
<1> QED
  BY <1>1, <1>2, <1>3, <1>4, CountKept, OrderKept, PayloadsKept DEF SinkInv

\* A try that failed, and an answer that is no success.
LEMMA TryFailsInv ==
  ASSUME SinkInv, pc \in {"send", "wait"},
         Fails \/ (pc' = "exit" /\ try' = try),
         UNCHANGED <<now, tls, probes, payload, published, agent, flight, answer, log>>
  PROVE  SinkInv'
<1>1. \/ pc' = "send" /\ try' = try + 1 /\ try < Retries
      \/ pc' = "exit" /\ try' = try
  BY DEF Fails
<1>2. try \in 1..Retries /\ Retries \in Nat
  BY SinkAssumption DEF SinkInv, Typed
<1>3. Typed'
  <2>1. try' \in 0..Retries /\ try' > 0
    BY <1>1, <1>2
  <2> QED
    BY <1>1, <2>1 DEF SinkInv, Typed
<1>4. Probing'
  BY <1>1 DEF SinkInv, Probing
<1>5. \A p \in 1..payload : Sent(p) <= Sent(p)'
  BY <1>1, <1>2 DEF Sent
<1>6. Counted' /\ Ordered' /\ FromPayloads'
  BY <1>1, <1>3, <1>5, CountKept, OrderKept, PayloadsKept
<1> QED
  BY <1>3, <1>4, <1>6 DEF SinkInv

LEMMA PublishInv == ASSUME SinkInv, Publish PROVE SinkInv'
<1>1. /\ UNCHANGED <<now, tls, probes, published, agent, flight, log>>
      /\ payload' = payload + 1 /\ try' = 1 /\ pc' = "send" /\ pc = "ready"
  BY DEF Publish
<1>2. payload \in Nat /\ Retries \in Nat \ {0} /\ Len(log) \in Nat
  BY SinkAssumption, Finite DEF SinkInv, Typed
<1>3. \A p : Accepted(p)' = Accepted(p) /\ InFlight(p)' = InFlight(p)
  BY <1>1 DEF Accepted, InFlight
<1>4. Accepted(payload + 1) = {} /\ InFlight(payload + 1) = {}
  BY <1>2 DEF SinkInv, FromPayloads, Accepted, InFlight
<1>5. \A p \in 1..(payload + 1) : p = payload + 1 \/ p \in 1..payload
  BY <1>2
<1>6. Typed'
  BY <1>1, <1>2 DEF SinkInv, Typed
<1>7. Probing'
  BY <1>1 DEF Probing
<1>8. FromPayloads'
  BY <1>1, <1>2 DEF SinkInv, FromPayloads
<1>9. Counted'
  <2> SUFFICES ASSUME NEW p \in 1..(payload + 1)
               PROVE  Cardinality(Accepted(p)) + Cardinality(InFlight(p)) <= Sent(p)'
    BY <1>1, <1>3 DEF Counted
  <2>1. CASE p = payload + 1
    <3>1. Sent(p)' = 0
      BY <1>1, <2>1 DEF Sent
    <3>2. Cardinality(Accepted(p)) = 0 /\ Cardinality(InFlight(p)) = 0
      BY <1>4, <2>1, FS_EmptySet
    <3> QED
      BY <3>1, <3>2
  <2>2. CASE p \in 1..payload
    <3>1. Sent(p)' = Retries /\ Sent(p) = Retries
      BY <1>1, <1>2, <2>2 DEF Sent
    <3> QED
      BY <2>2, <3>1 DEF SinkInv, Counted
  <2> QED
    BY <1>5, <2>1, <2>2
<1>10. Ordered'
  BY <1>1, <1>3, <1>4, <1>5 DEF SinkInv, Ordered
<1> QED
  BY <1>6, <1>7, <1>8, <1>9, <1>10 DEF SinkInv

LEMMA SendInv == ASSUME SinkInv, Send PROVE SinkInv'
<1>1. /\ UNCHANGED <<now, tls, probes, payload, try, published, agent, log>>
      /\ flight' = flight \cup {Request} /\ answer' = "none" /\ pc' = "wait" /\ pc = "send"
  BY DEF Send
<1>2. payload \in Nat /\ try \in Nat /\ try > 0
  BY <1>1 DEF SinkInv, Typed
<1>3. Request \in Requests /\ Request.p = payload
  BY <1>2 DEF Request, Requests, sinkScheme
<1>4. Typed'
  BY <1>1, <1>3, FS_AddElement DEF SinkInv, Typed
<1>5. Probing'
  BY <1>1 DEF Probing
<1>6. FromPayloads'
  <2>1. payload > 0
    BY <1>1 DEF SinkInv, Typed
  <2> QED
    BY <1>1, <1>2, <1>3, <2>1 DEF SinkInv, FromPayloads
<1>7. Counted'
  <2> SUFFICES ASSUME NEW p \in 1..payload
               PROVE  Cardinality(Accepted(p)') + Cardinality(InFlight(p)') <= Sent(p)'
    BY <1>1 DEF Counted
  <2>1. Accepted(p)' = Accepted(p)
    BY <1>1 DEF Accepted
  <2>2. Cardinality(Accepted(p)) + Cardinality(InFlight(p)) <= Sent(p)
    BY DEF SinkInv, Counted
  <2>3. Cardinality(Accepted(p)) \in Nat /\ Cardinality(InFlight(p)) \in Nat /\ IsFiniteSet(InFlight(p))
    BY Finite DEF SinkInv
  <2>4. CASE p = payload
    <3>1. InFlight(p)' = InFlight(p) \cup {Request}
      BY <1>1, <1>3, <2>4 DEF InFlight
    <3>2. Cardinality(InFlight(p)') <= Cardinality(InFlight(p)) + 1 /\ Cardinality(InFlight(p)') \in Nat
      BY <2>3, <3>1, FS_AddElement
    <3>3. Sent(p) = try - 1 /\ Sent(p)' = try
      BY <1>1, <2>4 DEF Sent
    <3> QED
      BY <1>2, <2>1, <2>2, <2>3, <3>2, <3>3
  <2>5. CASE p # payload
    <3>1. InFlight(p)' = InFlight(p)
      BY <1>1, <1>3, <2>5 DEF InFlight
    <3>2. Sent(p)' = Sent(p)
      BY <1>1, <2>5 DEF Sent
    <3> QED
      BY <2>1, <2>2, <3>1, <3>2
  <2> QED
    BY <2>4, <2>5
<1>8. Ordered'
  BY <1>1, OrderKept
<1> QED
  BY <1>4, <1>5, <1>6, <1>7, <1>8 DEF SinkInv

LEMMA AnsweredInv == ASSUME SinkInv, Answered PROVE SinkInv'
<1>1. UNCHANGED <<now, tls, probes, payload, agent, flight, answer, log>> /\ pc = "wait"
  BY DEF Answered
<1>2. CASE answer = "204" /\ pc' = "ready" /\ published' = published \cup {payload} /\ try' = try
  <2>1. payload \in Nat /\ payload > 0
    BY <1>1 DEF SinkInv, Typed
  <2>2. Typed'
    BY <1>1, <1>2, <2>1 DEF SinkInv, Typed
  <2>3. Probing'
    BY <1>2 DEF Probing
  <2>4. FromPayloads'
    BY <1>1, PayloadsKept
  <2>5. Counted'
    <3>1. \A p \in 1..payload : Sent(p) <= Sent(p)'
      BY <1>1, <1>2, SinkAssumption DEF Sent, SinkInv, Typed
    <3> QED
      BY <1>1, <2>2, <3>1, CountKept
  <2>6. Ordered'
    <3>1. \A p : Accepted(p)' = Accepted(p)
      BY <1>1 DEF Accepted
    <3>2. Accepted(payload) # {}
      BY <1>1, <1>2 DEF SinkInv, Ordered
    <3>3. \A q \in 1..payload : ~(payload < q)
      BY <2>1
    <3> QED
      BY <1>1, <1>2, <3>1, <3>2, <3>3 DEF SinkInv, Ordered
  <2> QED
    BY <2>2, <2>3, <2>4, <2>5, <2>6 DEF SinkInv
<1>3. CASE Fails /\ published' = published
  BY <1>1, <1>3, TryFailsInv
<1>4. CASE pc' = "exit" /\ UNCHANGED <<try, published>>
  BY <1>1, <1>4, TryFailsInv
<1> QED
  BY <1>2, <1>3, <1>4 DEF Answered

LEMMA WriteInv == ASSUME SinkInv, Write PROVE SinkInv'
<1>1. CASE Refused
  BY <1>1, TryFailsInv DEF Refused
<1>2. CASE TimesOut
  BY <1>2, TryFailsInv DEF TimesOut
<1> QED
  BY <1>1, <1>2, SendInv, AnsweredInv DEF Write

\* A request accepted is no longer on its way, so the count stays; and it is
\* accepted after everything that was accepted before.
LEMMA AgentHandlesInv == ASSUME SinkInv, NEW r \in flight, AgentHandles(r) PROVE SinkInv'
<1>1. /\ UNCHANGED <<pc, now, tls, probes, payload, try, published, agent>>
      /\ flight' = flight \ {r}
  BY DEF AgentHandles
<1>2. \/ /\ log' = Append(log, r.p)
         /\ (answer' = "204" /\ r = Request) \/ answer' = answer
      \/ log' = log /\ (answer' # "204" \/ answer' = answer)
  BY DEF AgentHandles
<1>3. Len(log) \in Nat /\ log \in Seq(Nat) /\ r \in Requests /\ r.p \in 1..payload /\ payload \in Nat
  BY Finite DEF SinkInv, Typed, FromPayloads
<1>4. r.p \in Nat
  BY <1>3
<1>5. flight' \subseteq Requests /\ IsFiniteSet(flight')
  BY <1>1, FlightFinite DEF SinkInv
<1>6. Typed'
  <2>1. log' \in Seq(Nat)
    BY <1>2, <1>3, <1>4
  <2> QED
    BY <1>1, <1>5, <2>1 DEF SinkInv, Typed
<1>7. Probing'
  BY <1>1 DEF SinkInv, Probing, requestTimeout
<1>8. \A p : Sent(p)' = Sent(p)
  BY <1>1 DEF Sent
<1>9. CASE log' = log
  <2>1. FromPayloads'
    BY <1>1, <1>9, PayloadsKept
  <2>2. Counted'
    <3>1. \A p \in 1..payload : Sent(p) <= Sent(p)'
      BY <1>8, SentTyped DEF SinkInv
    <3> QED
      BY <1>1, <1>6, <1>9, <3>1, CountKept
  <2>3. answer' = "204" => answer = "204"
    <3>1. log # Append(log, r.p)
      <4>1. Len(Append(log, r.p)) = Len(log) + 1 /\ Len(log) + 1 # Len(log)
        BY <1>3, <1>4
      <4> QED
        BY <4>1
    <3> QED
      BY <1>2, <1>9, <3>1
  <2>4. Ordered'
    BY <1>1, <1>9, <2>3, OrderKept
  <2> QED
    BY <1>6, <1>7, <2>1, <2>2, <2>4 DEF SinkInv
<1>10. CASE log' = Append(log, r.p)
  <2> DEFINE last == Len(log) + 1
  <2>1. /\ Len(log') = last /\ log'[last] = r.p /\ 1..last = 1..Len(log) \cup {last}
        /\ \A i \in 1..Len(log) : log'[i] = log[i] /\ i # last /\ i < last
    BY <1>3, <1>4, <1>10
  <2>2. \A p : Accepted(p)' = IF p = r.p THEN Accepted(p) \cup {last} ELSE Accepted(p)
    BY <2>1 DEF Accepted
  <2>3. \A p : last \notin Accepted(p)
    BY <2>1 DEF Accepted
  <2>4. FromPayloads'
    <3>1. \A i \in 1..Len(log)' : log'[i] \in 1..payload
      BY <1>3, <2>1 DEF SinkInv, FromPayloads
    <3> QED
      BY <1>1, <3>1 DEF SinkInv, FromPayloads
  <2>5. Counted'
    <3> SUFFICES ASSUME NEW p \in 1..payload
                 PROVE  Cardinality(Accepted(p)') + Cardinality(InFlight(p)') <= Sent(p)
      BY <1>1, <1>8 DEF Counted
    <3>1. Cardinality(Accepted(p)) + Cardinality(InFlight(p)) <= Sent(p)
      BY DEF SinkInv, Counted
    <3>2. /\ Cardinality(Accepted(p)) \in Nat /\ IsFiniteSet(Accepted(p))
          /\ Cardinality(InFlight(p)) \in Nat /\ IsFiniteSet(InFlight(p))
      BY Finite DEF SinkInv
    <3>3. CASE p = r.p
      <4>1. InFlight(p)' = InFlight(p) \ {r} /\ r \in InFlight(p)
        BY <1>1, <3>3 DEF InFlight
      <4>2. Cardinality(InFlight(p)') = Cardinality(InFlight(p)) - 1
        BY <3>2, <4>1, FS_RemoveElement
      <4>3. Cardinality(Accepted(p)') = Cardinality(Accepted(p)) + 1
        BY <2>2, <2>3, <3>2, <3>3, FS_AddElement
      <4> QED
        BY <3>1, <3>2, <4>2, <4>3
    <3>4. CASE p # r.p
      <4>1. InFlight(p)' = InFlight(p) /\ Accepted(p)' = Accepted(p)
        BY <1>1, <2>2, <3>4 DEF InFlight
      <4> QED
        BY <3>1, <4>1
    <3> QED
      BY <3>3, <3>4
  <2>6. Ordered'
    <3>1. \A p : Accepted(p) \subseteq Accepted(p)' /\ Accepted(p)' \subseteq Accepted(p) \cup {last}
      BY <2>2
    <3>2. pc' = "wait" /\ answer' = "204" => Accepted(payload)' # {}
      <4>1. CASE r = Request
        BY <1>1, <2>2, <4>1 DEF Request
      <4>2. CASE answer' = answer
        BY <1>1, <3>1, <4>2 DEF SinkInv, Ordered
      <4>3. log' # log
        BY <2>1
      <4> QED
        BY <1>2, <4>1, <4>2, <4>3
    <3>3. \A p \in published : Accepted(p)' # {}
      BY <3>1 DEF SinkInv, Ordered
    <3>4. ASSUME NEW p \in published, NEW q \in 1..payload, p < q
          PROVE  \E i \in Accepted(p)' : \A j \in Accepted(q)' : i < j
      <4>1. PICK i \in Accepted(p) : \A j \in Accepted(q) : i < j
        BY <3>4 DEF SinkInv, Ordered
      <4>2. i < last
        BY <2>1 DEF Accepted
      <4> QED
        BY <3>1, <4>1, <4>2
    <3> QED
      BY <1>1, <3>2, <3>3, <3>4 DEF Ordered
  <2> QED
    BY <1>6, <1>7, <2>4, <2>5, <2>6 DEF SinkInv
<1> QED
  BY <1>2, <1>9, <1>10

LEMMA AgentChangesInv == ASSUME SinkInv, AgentChanges PROVE SinkInv'
<1>1. /\ UNCHANGED <<pc, now, tls, probes, payload, try, published, answer, log>>
      /\ flight' \subseteq flight /\ agent' \in BOOLEAN
  BY DEF AgentChanges, SinkInv, Typed
<1>2. Typed'
  BY <1>1, FlightFinite DEF SinkInv, Typed
<1>3. Probing'
  BY <1>1 DEF SinkInv, Probing, requestTimeout
<1>4. \A p \in 1..payload : Sent(p) <= Sent(p)'
  BY <1>1, SentTyped DEF Sent, SinkInv
<1> QED
  BY <1>1, <1>2, <1>3, <1>4, CountKept, OrderKept, PayloadsKept DEF SinkInv

LEMMA SinkInductive == SinkInv /\ [Next]_vars => SinkInv'
<1> SUFFICES ASSUME SinkInv, [Next]_vars PROVE SinkInv'
  OBVIOUS
<1>1. CASE Next
  BY <1>1, ProbeInv, PublishInv, WriteInv, AgentHandlesInv, AgentChangesInv DEF Next
<1>2. CASE UNCHANGED vars
  BY <1>2 DEF vars, SinkInv, Typed, Probing, FromPayloads, Counted, Ordered, Accepted, InFlight, Sent, requestTimeout
<1> QED
  BY <1>1, <1>2

\* SinkInv holds of every schedule: what is in flight and what the agent took is
\* of payloads up to the current one, in the order in which they were written,
\* and there are never more requests of one than attempts were made.
THEOREM SinkInvariant == Spec => []SinkInv
BY SinkInitInv, SinkInductive, PTL DEF Spec

-----------------------------------------------------------------------------
(* The properties of the runs *)

\* HTTPSink.Write returning nil means that the agent has the payload, and had
\* it before any payload written later, whatever was retried or handled late.
THEOREM SinkInOrder == Spec => []PublishedInOrder
<1>1. SinkInv => PublishedInOrder
  BY DEF SinkInv, Typed, Ordered, PublishedInOrder
<1> QED
  BY <1>1, SinkInvariant, PTL

\* However many restarts and late answers there are, the agent takes a payload
\* at most as often as the client may try to send it.
THEOREM SinkDuplicates == Spec => []DuplicatesBounded
<1>1. ASSUME SinkInv PROVE DuplicatesBounded
  <2> SUFFICES ASSUME NEW p \in 1..payload PROVE Cardinality(Accepted(p)) <= Retries
    BY DEF DuplicatesBounded
  <2>1. Cardinality(Accepted(p)) + Cardinality(InFlight(p)) <= Sent(p)
    BY <1>1 DEF SinkInv, Counted
  <2>2. Cardinality(Accepted(p)) \in Nat /\ Cardinality(InFlight(p)) \in Nat
    BY <1>1, Finite DEF SinkInv
  <2>3. Sent(p) \in Nat /\ Sent(p) <= Retries /\ Retries \in Nat
    BY <1>1, SentTyped, SinkAssumption DEF SinkInv
  <2> QED
    BY <2>1, <2>2, <2>3
<1> QED
  BY <1>1, SinkInvariant, PTL

\* NewProber gives a request a third of the timeout: with any backoff of up to
\* two thirds of it, the agent is probed twice before it is given up on.
THEOREM SinkProbesTwice == Spec => []ProbesTwice
<1>1. ASSUME SinkInv PROVE ProbesTwice
  <2> SUFFICES ASSUME pc = "noAgent", 3 * ProbeBackoff <= 2 * ProbeTimeout, ~(probes >= 2)
               PROVE  FALSE
    BY DEF ProbesTwice
  <2>1. requestTimeout \in Nat /\ 3 * requestTimeout <= ProbeTimeout
    BY SinkAssumption DEF requestTimeout
  <2>2. now \in Nat /\ now > ProbeTimeout /\ probes \in {0, 1}
    BY <1>1 DEF SinkInv, Typed, Probing
  <2>3. now = 0 \/ now <= requestTimeout + ProbeBackoff
    BY <1>1, <2>2 DEF SinkInv, Probing
  <2> QED
    BY <2>1, <2>2, <2>3, SinkAssumption
<1> QED
  BY <1>1, SinkInvariant, PTL
=============================================================================
