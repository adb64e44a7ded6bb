--------------------------- MODULE KubeletConnector ---------------------------
(***************************************************************************)
(* defaultConnector.Connect: find a way to the kubelet at start-up, through *)
(* the node's address (https, http) or the API server's proxy, retrying     *)
(* until InitTimeout.  A probe takes up to ProbeMax time units; the kubelet *)
(* and its certificates come and go meanwhile.                              *)
(***************************************************************************)
EXTENDS Naturals

CONSTANTS Port,          \* Kubelet.Port: "unset", or the port as NodePorts classifies it
          Scheme,        \* Kubelet.Scheme: "unset", "http", "https"
          InitTimeout, InitBackoff,
          ProbeMax       \* Kubelet.Timeout

NodePorts == {"10255", "10250", "other"}
Ways == {"https", "http", "proxy"}

\* A zero backoff between retries is a busy loop that only the clock ends.
ASSUME ConnectorAssumption ==
    /\ Port \in NodePorts \cup {"unset"} /\ Scheme \in {"unset", "http", "https"}
    /\ InitTimeout \in Nat /\ InitBackoff \in Nat \ {0} /\ ProbeMax \in Nat

VARIABLES pc, port,
          now,          \* time since Connect began retrying
          elapsed,      \* `elapsed` of the current attempt: taken before it
          conn,         \* the way of the connection returned
          reach,        \* environment: the ways that answer 200
          bundle,       \* environment: the CA bundle and the token can be read
          steady,       \* history: the ways that answered throughout this attempt
          early         \* history: the ways that have answered, with credentials that
                        \* can be read, ever since some moment before InitTimeout

env == <<reach, bundle, early>>
vars == <<pc, port, now, elapsed, conn, steady, env>>

\* The history when r answer from now on, and the credentials are there or not.
EarlyAfter(r, credentials) ==
    IF credentials THEN IF now < InitTimeout THEN r ELSE early \cap r ELSE {}

\* schemeFor: as configured, or by the well-known ports.
schemeFor(p) ==
    IF Scheme # "unset" THEN Scheme
    ELSE IF p = "10255" THEN "http"
    ELSE IF p = "10250" THEN "https" ELSE "unknown"

Init ==
    /\ pc = "port" /\ port = "unset" /\ now = 0 /\ elapsed = 0 /\ conn = "none"
    /\ reach \in SUBSET Ways /\ bundle \in BOOLEAN /\ steady = {}
    /\ early = IF bundle /\ now < InitTimeout THEN reach ELSE {}

-----------------------------------------------------------------------------
\* getPort: configured, or found in the node's status; asked for only once.
getPort ==
    /\ pc = "port"
    /\ \/ Port # "unset" /\ port' = Port
       \/ Port = "unset" /\ port' \in NodePorts
    /\ pc' = "try"
    /\ UNCHANGED <<now, elapsed, conn, steady, env>>

\* The node cannot be read: Connect fails at once, InitTimeout or not.
getPortFails ==
    /\ pc = "port" /\ Port = "unset"
    /\ pc' = "error"
    /\ UNCHANGED <<port, now, elapsed, conn, steady, env>>

\* tryConnect begins: it builds the round tripper, then probes locally.
tryConnect ==
    /\ pc = "try"
    /\ elapsed' = now /\ steady' = IF bundle THEN reach ELSE {}
    /\ pc' = IF ~bundle THEN "failed"
             ELSE IF schemeFor(port) = "http" THEN "http" ELSE "https"
    /\ UNCHANGED <<port, now, conn, env>>

\* Mutant of AfterFailed: no fallback to the proxy when the scheme is known.
AfterFailedLocalOnly(way) ==
    CASE way = "https" -> IF schemeFor(port) = "unknown" THEN "http" ELSE "failed"
      [] way = "http" -> "proxy"
      [] way = "proxy" -> "failed"

\* checkLocalConnection and the fallback of tryConnect.
AfterFailed(way) ==
    CASE way = "https" -> IF schemeFor(port) = "unknown" THEN "http" ELSE "proxy"
      [] way = "http" -> "proxy"
      [] way = "proxy" -> "failed"

\* checkConnection.  A transport to the API server that cannot be built is a
\* proxy that does not answer, after no time.
Probe(way) ==
    /\ pc = way
    /\ \E d \in 0..ProbeMax : now' = now + d
    /\ IF way \in reach
       THEN pc' = "connected" /\ conn' = way
       ELSE pc' = AfterFailed(way) /\ conn' = conn
    /\ UNCHANGED <<port, elapsed, steady, env>>

\* Mutant of GiveUp: gives up when the next attempt would begin too late.
GiveUpEarly ==
    /\ pc = "failed" /\ elapsed + InitBackoff >= InitTimeout
    /\ pc' = "error"
    /\ UNCHANGED <<port, now, elapsed, conn, steady, env>>

\* The attempt began at or after the timeout (0: there is one attempt).
GiveUp ==
    /\ pc = "failed" /\ elapsed >= InitTimeout
    /\ pc' = "error"
    /\ UNCHANGED <<port, now, elapsed, conn, steady, env>>

\* Mutant of Backoff: the remaining time does not shorten the delay.
BackoffFull ==
    /\ pc = "failed" /\ elapsed < InitTimeout
    /\ now' = now + InitBackoff
    /\ pc' = "try"
    /\ UNCHANGED <<port, elapsed, conn, steady, env>>

\* Sleep for the backoff, or what remains of the timeout counted from the
\* beginning of the attempt.
Backoff ==
    /\ pc = "failed" /\ elapsed < InitTimeout
    /\ now' = now + (IF InitBackoff > InitTimeout - elapsed
                     THEN InitTimeout - elapsed ELSE InitBackoff)
    /\ pc' = "try"
    /\ UNCHANGED <<port, elapsed, conn, steady, env>>

\* Kubelet, proxy and certificates come and go.
Environment ==
    /\ pc \notin {"connected", "error"}
    /\ \/ /\ \E w \in Ways : reach' = (reach \ {w}) \cup ({w} \ reach)
          /\ bundle' = bundle /\ steady' = steady \cap reach'
       \/ bundle' = ~bundle /\ UNCHANGED <<reach, steady>>
    /\ early' = EarlyAfter(reach', bundle')
    /\ UNCHANGED <<pc, port, now, elapsed, conn>>

Connect ==
    \/ getPort \/ getPortFails \/ tryConnect
    \/ \E way \in Ways : Probe(way)
    \/ GiveUp \/ Backoff

Next == Connect \/ Environment

Spec == Init /\ [][Next]_vars

-----------------------------------------------------------------------------
(* Properties *)

TypeOK ==
    /\ pc \in {"port", "try", "failed", "connected", "error"} \cup Ways
    /\ port \in NodePorts \cup {"unset"} /\ conn \in Ways \cup {"none"}
    /\ now \in Nat /\ elapsed \in Nat /\ elapsed <= now
    /\ reach \subseteq Ways /\ bundle \in BOOLEAN /\ steady \subseteq reach /\ early \subseteq reach
    /\ conn # "none" <=> pc = "connected"

\* The ways an attempt may use.
Allowed == {"proxy"} \cup (IF schemeFor(port) = "unknown" THEN {"https", "http"} ELSE {schemeFor(port)})

\* A kubelet that comes up in time is found: once the port is known, Connect
\* never gives up on a way that has answered, with a certificate and a token in
\* place, since before InitTimeout, however late in the last pause it came up
\* and however long the attempts took.
InTimeIsFound == pc = "error" /\ port # "unset" => early \cap Allowed = {}

\* It does give up in bounded time: a slow attempt before the timeout and one
\* after it, of three probes each, is all Connect can spend beyond it.
GivesUpInTime == now <= InitTimeout + 6 * ProbeMax

\* An attempt that could read its credentials fails only if no way it may use
\* answered throughout the attempt.  With no scheme configured and a port that
\* is not well known both schemes are tried (see NonStandardPortFails).
TriesEveryWay == pc = "failed" => steady \cap Allowed = {}

\* What the configuration says of such a port: "If Scheme is not specified and
\* the Port is non-standard, the integration will fail to connect."  The code
\* tries https, then http, then the proxy.
NonStandardPortFails == ~(pc = "connected" /\ Scheme = "unset" /\ port = "other")
=============================================================================
