----------------------------- MODULE KSMScraper -----------------------------
(***************************************************************************)
(* ksm.Scraper.Run: find the kube-state-metrics endpoints (a static URL, or *)
(* the EndpointSlices, polled until some endpoint shows up or the discovery *)
(* times out), then populate from the first that works, or, for a           *)
(* distributed KSM, from all of them.                                       *)
(*                                                                          *)
(* Slices come from an informer and endpoints come and go at any time.      *)
(***************************************************************************)
EXTENDS Naturals, Sequences, FiniteSets

CONSTANTS Hosts,           \* address:port strings, in the byte order sort.Strings uses
          Addresses, Ports,
          HostPort,        \* net.JoinHostPort: [Addresses \X Ports -> hosts]
          SliceSets,       \* the EndpointSlices the informer may hold
          Configs,         \* the configurations considered: KSM.StaticURL (a host, or
                           \* NoURL), KSM.Port (a port, or NoPort), KSM.Distributed
          Timeout, BackoffDelay,
          NoURL, NoPort

AllHosts == {Hosts[n] : n \in 1..Len(Hosts)}

ASSUME KSMAssumption ==
    /\ Hosts \in Seq(AllHosts) /\ HostPort \in [Addresses \X Ports -> AllHosts]
    /\ \A n, m \in 1..Len(Hosts) : Hosts[n] = Hosts[m] => n = m
    /\ \A ss \in SliceSets : \A s \in ss :
        /\ s.ports \subseteq Ports
        /\ \A e \in s.endpoints : e.address \in Addresses /\ e.ready \in {"yes", "no", "unset"}
    /\ Configs \subseteq [staticURL : AllHosts \cup {NoURL}, port : Ports \cup {NoPort},
                          distributed : BOOLEAN]
    /\ NoURL \notin AllHosts /\ NoPort \notin Ports
    /\ Timeout \in Nat /\ BackoffDelay \in Nat \ {0}

VARIABLES config,       \* the configuration of this process
          pc,
          now,          \* time since the discovery began
          endpoints,    \* the endpoints to try, in order
          n,            \* the next of them
          reported,     \* the endpoints whose data is in the integration, in order
          result,       \* what Run returned: "none", "nil", "timeout", "notPopulated"
          slices, up,   \* environment: the informer's store; hosts whose answer can be populated
          steady        \* history: the hosts that answered throughout this Run

runVars == <<pc, now, endpoints, n, reported, result>>
vars == <<config, runVars, slices, up, steady>>

\* endpointSliceDiscoverer.Discover: every ready address with every port of its
\* slice (a Ready that is not set counts as ready), each host once, sorted.
Found ==
    {HostPort[ap] : ap \in
        {x \in Addresses \X Ports : \E s \in slices :
            /\ x[2] \in s.ports /\ config.port \in {NoPort, x[2]}
            /\ \E e \in s.endpoints : e.address = x[1] /\ e.ready # "no"}}

\* sort.Strings: the hosts of a set, each once, in byte order.
Before(g, h) == \E l, m \in 1..Len(Hosts) : l < m /\ Hosts[l] = g /\ Hosts[m] = h
InOrder(s) == \A i, j \in 1..Len(s) : i < j => Before(s[i], s[j])
Sorted(hosts) == CHOOSE s \in [1..Cardinality(hosts) -> hosts] : InOrder(s)

\* Mutant of Discover: a host that is in two slices is listed twice.
DiscoverTwice ==
    IF \E s, t \in slices : s # t THEN Sorted(Found) \o Sorted(Found) ELSE Sorted(Found)

Discover == Sorted(Found)

Init ==
    /\ config \in Configs
    /\ pc = "idle" /\ now = 0 /\ endpoints = <<>> /\ n = 1 /\ reported = <<>>
    /\ result = "none" /\ slices \in SliceSets /\ up \in SUBSET AllHosts
    /\ steady = {}

-----------------------------------------------------------------------------
\* Run starts with ksmURLs: the static URL needs no discovery.
StartRun ==
    /\ pc = "idle"
    /\ IF config.staticURL # NoURL
       THEN pc' = "fetch" /\ endpoints' = <<config.staticURL>>
       ELSE pc' = "discover" /\ endpoints' = <<>>
    /\ now' = 0 /\ n' = 1 /\ reported' = <<>> /\ result' = "none"
    /\ steady' = up
    /\ UNCHANGED <<config, slices, up>>

Return(r) == pc' = "idle" /\ result' = r

\* EndpointsDiscovererWithTimeout.Discover: one poll.
PollFinds ==
    /\ pc = "discover" /\ now < Timeout /\ Discover # <<>>
    /\ pc' = "fetch" /\ endpoints' = Discover
    /\ UNCHANGED <<now, n, reported, result, slices, up, steady, config>>

\* Mutant of PollEmpty: time is counted from the last poll.
PollEmptyRestarts ==
    /\ pc = "discover" /\ now < Timeout /\ Discover = <<>>
    /\ UNCHANGED <<pc, now, endpoints, n, reported, result, slices, up, steady, config>>

PollEmpty ==
    /\ pc = "discover" /\ now < Timeout /\ Discover = <<>>
    /\ now' = now + BackoffDelay
    /\ UNCHANGED <<pc, endpoints, n, reported, result, slices, up, steady, config>>

DiscoveryTimeout ==
    /\ pc = "discover" /\ now >= Timeout
    /\ Return("timeout")
    /\ UNCHANGED <<now, endpoints, n, reported, slices, up, steady, config>>

\* job.Populate put data into the integration: the loop ends here unless KSM is
\* distributed.
Populate ==
    /\ pc = "fetch" /\ n <= Len(endpoints) /\ endpoints[n] \in up
    /\ reported' = Append(reported, endpoints[n])
    /\ n' = IF config.distributed THEN n + 1 ELSE Len(endpoints) + 1
    /\ UNCHANGED <<pc, now, endpoints, result, slices, up, steady, config>>

\* Mutant of PopulateFails: an endpoint that fails ends the loop.
PopulateFailsStops ==
    /\ pc = "fetch" /\ n <= Len(endpoints) /\ endpoints[n] \notin up
    /\ n' = Len(endpoints) + 1
    /\ UNCHANGED <<pc, now, endpoints, reported, result, slices, up, steady, config>>

\* Nothing was populated: on to the next endpoint.
PopulateFails ==
    /\ pc = "fetch" /\ n <= Len(endpoints) /\ endpoints[n] \notin up
    /\ n' = n + 1
    /\ UNCHANGED <<pc, now, endpoints, reported, result, slices, up, steady, config>>

EndRun ==
    /\ pc = "fetch" /\ n > Len(endpoints)
    /\ Return(IF reported = <<>> THEN "notPopulated" ELSE "nil")
    /\ UNCHANGED <<now, endpoints, n, reported, slices, up, steady, config>>

\* Slices and endpoints change at any time.
Environment ==
    /\ \/ slices' \in SliceSets \ {slices} /\ UNCHANGED <<up, steady>>
       \/ /\ \E h \in AllHosts : up' = (up \ {h}) \cup ({h} \ up)
          /\ steady' = steady \cap up' /\ slices' = slices
    /\ UNCHANGED <<config, runVars>>

Run ==
    \/ PollFinds \/ PollEmpty \/ DiscoveryTimeout
    \/ Populate \/ PopulateFails \/ EndRun

Next == StartRun \/ Run \/ Environment

Spec == Init /\ [][Next]_vars

\* A Run goes on (its requests have timeouts, its sleeps are finite) and the
\* main loop starts the next.
FairSpec == Spec /\ WF_vars(Run) /\ WF_vars(StartRun)

-----------------------------------------------------------------------------
(* Properties *)

InEndpoints(h) == \E m \in 1..Len(endpoints) : endpoints[m] = h
Reported == {reported[m] : m \in 1..Len(reported)}

\* No endpoint is reported twice in a Run, however many slices list it, and a
\* KSM that is not distributed is reported from one endpoint: its objects are
\* never sent twice.
ReportedOnce ==
    /\ \A l, m \in 1..Len(reported) : reported[l] = reported[m] => l = m
    /\ ~config.distributed => Len(reported) <= 1

\* When the endpoints have been gone through, one that answered all the time has
\* not been left out: every one of a distributed KSM is reported, and else Run
\* fails only if none answered throughout.
NoEndpointMissed ==
    pc = "fetch" /\ n > Len(endpoints) =>
        /\ config.distributed => \A h \in steady : InEndpoints(h) => h \in Reported
        /\ (\E h \in steady : InEndpoints(h)) => reported # <<>>

\* Every Run returns.
RunReturns == (pc # "idle") ~> (pc = "idle")

\* Where ksmURLs looks for KSM.
Listed == IF config.staticURL = NoURL THEN Found ELSE {config.staticURL}

\* Once a host stays up and listed, Run reports KSM data again and again, even
\* if every other endpoint and slice keeps changing.
KeepsReporting ==
    \A h \in AllHosts : <>[](h \in up /\ h \in Listed) => []<>(reported # <<>>)
=============================================================================
