------------------------------ MODULE AgentSink ------------------------------
(***************************************************************************)
(* Sending payloads to the infrastructure agent: Prober.Probe waits for it  *)
(* at start-up, and HTTPSink.Write posts each payload through a client that *)
(* retries (pester).  A failed Publish ends the process, which Kubernetes   *)
(* restarts.                                                                *)
(*                                                                          *)
(* The agent comes and goes; it may handle a request after the client has   *)
(* stopped waiting for it.                                                  *)
(***************************************************************************)
EXTENDS Naturals, Sequences, FiniteSets

CONSTANTS ProbeTimeout, ProbeBackoff,
          Retries,       \* attempts of the retrying client
          MaxPayloads    \* bound: payloads published

ASSUME SinkAssumption ==
    /\ ProbeTimeout \in Nat /\ ProbeBackoff \in Nat \ {0}
    /\ Retries \in Nat \ {0} /\ MaxPayloads \in Nat

VARIABLES pc, now,
          tls,          \* Sink.HTTP.TLS.Enabled; the agent is configured alike
          probes,       \* history: probes made since the start
          payload,      \* number of the current payload
          try,          \* the attempt at sending it
          published,    \* payloads whose Publish returned nil
          agent,        \* environment: the agent is up
          flight,       \* requests on their way to the agent
          answer,       \* the agent's answer to the current request
          log           \* payloads the agent accepted, in order

vars == <<pc, now, tls, probes, payload, try, published, agent, flight, answer, log>>

requestTimeout == ProbeTimeout \div 3

\* What the probe and the agent speak, and what payloads are posted over.
scheme == IF tls THEN "https" ELSE "http"
sinkScheme == "http"

Init ==
    /\ pc = "open" /\ now = 0 /\ tls \in BOOLEAN /\ probes = 0
    /\ payload = 0 /\ try = 0 /\ published = {}
    /\ agent \in BOOLEAN /\ flight = {} /\ answer = "none" /\ log = <<>>

-----------------------------------------------------------------------------
(* WithHTTPSink and Prober.Probe *)

\* NewTLSClient reads the certificates, which may be missing.
OpenClient ==
    /\ pc = "open"
    /\ pc' \in {"probe"} \cup (IF tls THEN {"exit"} ELSE {})
    /\ UNCHANGED <<now, tls, probes, payload, try, published, agent, flight, answer, log>>

ProbeOK ==
    /\ pc = "probe" /\ now <= ProbeTimeout /\ agent
    /\ pc' = "ready" /\ probes' = probes + 1
    /\ UNCHANGED <<now, tls, payload, try, published, agent, flight, answer, log>>

\* Mutant of ProbeFails: a request may last as long as the whole timeout.
ProbeFailsSlowly ==
    /\ pc = "probe" /\ now <= ProbeTimeout /\ ~agent
    /\ \E d \in 0..ProbeTimeout : now' = now + d + ProbeBackoff
    /\ probes' = probes + 1
    /\ UNCHANGED <<pc, tls, payload, try, published, agent, flight, answer, log>>

\* No 200 within the request's own timeout.
ProbeFails ==
    /\ pc = "probe" /\ now <= ProbeTimeout /\ ~agent
    /\ \E d \in 0..requestTimeout : now' = now + d + ProbeBackoff
    /\ probes' = probes + 1
    /\ UNCHANGED <<pc, tls, payload, try, published, agent, flight, answer, log>>

ProbeTimesOut ==
    /\ pc = "probe" /\ now > ProbeTimeout
    /\ pc' = "noAgent"
    /\ UNCHANGED <<now, tls, probes, payload, try, published, agent, flight, answer, log>>

-----------------------------------------------------------------------------
(* HTTPSink.Write *)

Publish ==
    /\ pc = "ready" /\ payload < MaxPayloads
    /\ payload' = payload + 1 /\ try' = 1 /\ pc' = "send" /\ answer' = "none"
    /\ UNCHANGED <<now, tls, probes, published, agent, flight, log>>

\* Mutant of Fails: one attempt too many.
FailsLate ==
    IF try <= Retries
    THEN pc' = "send" /\ try' = try + 1
    ELSE pc' = "exit" /\ try' = try

\* Mutant of Fails: retries without end.
FailsForever == pc' = "send" /\ try' = try

\* An attempt failed: the client tries again, up to Retries times; then Write
\* and Publish fail and the process exits.
Fails ==
    IF try < Retries
    THEN pc' = "send" /\ try' = try + 1
    ELSE pc' = "exit" /\ try' = try

Refused ==
    /\ pc = "send" /\ ~agent
    /\ Fails
    /\ UNCHANGED <<now, tls, probes, payload, published, agent, flight, answer, log>>

Request == [p |-> payload, t |-> try, scheme |-> sinkScheme]

Send ==
    /\ pc = "send" /\ agent
    /\ flight' = flight \cup {Request} /\ answer' = "none" /\ pc' = "wait"
    /\ UNCHANGED <<now, tls, probes, payload, try, published, agent, log>>

\* Mutant of Answered: any answer is taken for a success.
AnsweredAnyhow ==
    /\ pc = "wait" /\ answer # "none"
    /\ pc' = "ready" /\ published' = published \cup {payload} /\ try' = try
    /\ UNCHANGED <<now, tls, probes, payload, agent, flight, answer, log>>

\* Only 204 is a success; 5xx is retried, any other status is returned at once
\* and Write fails.
Answered ==
    /\ pc = "wait"
    /\ \/ /\ answer = "204" /\ pc' = "ready" /\ published' = published \cup {payload}
          /\ try' = try
       \/ answer = "5xx" /\ Fails /\ published' = published
       \/ answer = "4xx" /\ pc' = "exit" /\ UNCHANGED <<try, published>>
    /\ UNCHANGED <<now, tls, probes, payload, agent, flight, answer, log>>

\* The request's timeout passes, or its connection breaks; the answer, if there
\* was one, is not read.
TimesOut ==
    /\ pc = "wait"
    /\ Fails
    /\ UNCHANGED <<now, tls, probes, payload, published, agent, flight, answer, log>>

-----------------------------------------------------------------------------
(* The agent and Kubernetes *)

\* The agent handles a request, in any order; the client may be past it.  A
\* server that speaks TLS answers 400 to a request that does not.
AgentHandles(r) ==
    /\ agent /\ r \in flight
    /\ flight' = flight \ {r}
    /\ \E code \in IF r.scheme = scheme THEN {"204", "5xx", "4xx"} ELSE {"4xx"} :
        /\ log' = IF code = "204" THEN Append(log, r.p) ELSE log
        /\ answer' = IF pc = "wait" /\ r = Request THEN code ELSE answer
    /\ UNCHANGED <<pc, now, tls, probes, payload, try, published, agent>>

AgentChanges ==
    /\ agent' = ~agent
    /\ flight' = IF agent THEN {} ELSE flight
    /\ UNCHANGED <<pc, now, tls, probes, payload, try, published, answer, log>>

Restart ==
    /\ pc \in {"exit", "noAgent"}
    /\ pc' = "open" /\ now' = 0 /\ probes' = 0 /\ try' = 0 /\ answer' = "none"
    /\ UNCHANGED <<tls, payload, published, agent, flight, log>>

Probe == OpenClient \/ ProbeOK \/ ProbeFails \/ ProbeTimesOut
Write == Refused \/ Send \/ Answered \/ TimesOut

Next ==
    \/ Probe \/ Publish \/ Write \/ Restart
    \/ \E r \in flight : AgentHandles(r)
    \/ AgentChanges

Spec == Init /\ [][Next]_vars

\* Probes and requests have timeouts, so both loops go on.
FairSpec == Spec /\ WF_vars(Probe) /\ WF_vars(Write)

-----------------------------------------------------------------------------
(* Properties *)

Accepted(p) == {n \in 1..Len(log) : log[n] = p}

\* A payload whose Publish returned nil was accepted, before any later one that
\* was published; requests that the agent handles late, also those of an earlier
\* process, cannot change that.
PublishedInOrder ==
    \A p \in published :
        /\ Accepted(p) # {}
        /\ \A q \in published : p < q =>
              \E n \in Accepted(p) : \A m \in Accepted(q) : n < m

\* Retrying may deliver a payload more than once, never more than Retries times.
DuplicatesBounded == \A p \in 1..payload : Cardinality(Accepted(p)) <= Retries

\* "to guarantee that we will be able to probe at least twice within the global
\* timeout": unless the backoff alone leaves no time for it, the agent is given
\* up on only after two probes.
ProbesTwice == pc = "noAgent" /\ 3 * ProbeBackoff <= 2 * ProbeTimeout => probes >= 2

\* Probing ends, and so does every Write.
LoopsEnd ==
    /\ (pc = "probe") ~> (pc # "probe")
    /\ (pc \in {"send", "wait"}) ~> (pc \in {"ready", "exit"})

\* What the configuration says of TLS.Enabled, that it "dictates whether TLS is
\* used to connect to the HTTP sink": with it, no payload goes out without TLS.
PublishesOverTLS == \A r \in flight : tls => r.scheme = "https"
=============================================================================
