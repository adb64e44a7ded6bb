---------------------------- MODULE MCKSMScraper ----------------------------
EXTENDS KSMScraper

\* Two replicas, each in an IPv4 slice; one of them also in a second slice that
\* is not ready at first, and a port that is not KSM's telemetry port.
MCHosts == <<"10.0.0.1:8080", "10.0.0.1:8081", "10.0.0.2:8080", "10.0.0.2:8081">>
MCAddresses == {"10.0.0.1", "10.0.0.2"}
MCPorts == {8080, 8081}
MCHostPort == [ap \in MCAddresses \X MCPorts |->
    IF ap[1] = "10.0.0.1" THEN IF ap[2] = 8080 THEN MCHosts[1] ELSE MCHosts[2]
                          ELSE IF ap[2] = 8080 THEN MCHosts[3] ELSE MCHosts[4]]

EP(a, r) == [address |-> a, ready |-> r]
EndpointSlice(eps, ports) == [endpoints |-> eps, ports |-> ports]
A(r) == EndpointSlice({EP("10.0.0.1", r)}, {8080, 8081})
AB == EndpointSlice({EP("10.0.0.1", "unset"), EP("10.0.0.2", "yes")}, {8080})

\* One replica at a time on the telemetry port, all endpoints of a distributed
\* KSM, and a static URL.
Config(u, p, d) == [staticURL |-> u, port |-> p, distributed |-> d]
MCConfigs == {Config(NoURL, 8080, FALSE), Config(NoURL, NoPort, TRUE), Config(MCHosts[3], NoPort, FALSE)}

MCSliceSets == {{}, {A("no")}, {A("yes")}, {A("yes"), AB}, {AB}, {A("no"), AB}}
=============================================================================
