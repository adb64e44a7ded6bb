---------------------------- MODULE StartUpProofs ----------------------------
(***************************************************************************)
(* Start-up across its exits and restarts, for every configuration,        *)
(* providerID and timeout: the connector by itself and inside start-up,    *)
(* what the loop finds, and the cloud's id.                                *)
(***************************************************************************)
EXTENDS StartUp, TLAPS

-----------------------------------------------------------------------------
(* Connect's timing, for every timeout, backoff and probe length. *)

\* How far an attempt can have got when it is about to make a probe: at most
\* two probes come before the proxy's.  Before that the port is not known.
Timing ==
    /\ pc = "port" => port = "unset"
    /\ pc \in {"port", "try"} => now <= InitTimeout + 3 * ProbeMax
    /\ pc \in Ways \cup {"failed"} => elapsed <= InitTimeout + 3 * ProbeMax
    /\ pc = "https" => now <= elapsed
    /\ pc = "http" => now <= elapsed + ProbeMax
    /\ pc = "proxy" => now <= elapsed + 2 * ProbeMax
    /\ pc = "failed" => now <= elapsed + 3 * ProbeMax
    /\ pc = "error" /\ port # "unset" => elapsed >= InitTimeout
    /\ now <= InitTimeout + 6 * ProbeMax

\* The ways that answer all along are still to be probed.
Untried ==
    /\ pc = "https" => schemeFor(port) \in {"unknown", "https"}
    /\ pc = "http" => /\ schemeFor(port) \in {"unknown", "http"}
                      /\ "https" \in steady => schemeFor(port) # "unknown"
    /\ pc = "proxy" => steady \cap Allowed \subseteq {"proxy"}
    /\ pc = "failed" => steady \cap Allowed = {}

\* An attempt that begins after the timeout finds every way that came up before
\* it, and such a way still answers when the attempt has failed.
Late ==
    /\ early # {} => bundle
    /\ pc \in Ways \cup {"failed"} /\ elapsed >= InitTimeout => early \subseteq steady

Inv == TypeOK /\ Timing /\ Untried /\ Late /\ InTimeIsFound

LEMMA InitInv == Init => Inv
  <1> SUFFICES ASSUME Init PROVE Inv
    OBVIOUS
  <1>1. TypeOK
    BY ConnectorAssumption DEF Init, TypeOK, Ways, NodePorts
  <1>2. Timing
    BY ConnectorAssumption DEF Init, Timing, Ways
  <1>3. Untried /\ Late /\ InTimeIsFound
    BY DEF Init, Untried, Late, InTimeIsFound, Ways
  <1> QED
    BY <1>1, <1>2, <1>3 DEF Inv

LEMMA TypeStep == ASSUME TypeOK, [Next]_vars PROVE TypeOK'
  <1> USE ConnectorAssumption DEF TypeOK, Ways, NodePorts, env
  <1>1. CASE getPort
    BY <1>1 DEF getPort
  <1>2. CASE getPortFails
    BY <1>2 DEF getPortFails
  <1>3. CASE tryConnect
    BY <1>3 DEF tryConnect
  <1>4. ASSUME NEW way \in Ways, Probe(way)
        PROVE  TypeOK'
    BY <1>4 DEF Probe, AfterFailed
  <1>5. CASE GiveUp
    BY <1>5 DEF GiveUp
  <1>6. CASE Backoff
    BY <1>6 DEF Backoff
  <1>7. CASE Environment
    BY <1>7 DEF Environment, EarlyAfter
  <1>8. CASE UNCHANGED vars
    BY <1>8 DEF vars
  <1> QED
    BY <1>1, <1>2, <1>3, <1>4, <1>5, <1>6, <1>7, <1>8 DEF Next, Connect

LEMMA TimingStep ==
  ASSUME TypeOK, Timing, [Next]_vars
  PROVE  Timing'
  <1> USE ConnectorAssumption DEF TypeOK, Timing, Ways, NodePorts
  <1>1. CASE getPort
    BY <1>1 DEF getPort
  <1>2. CASE getPortFails
    BY <1>2 DEF getPortFails
  <1>3. CASE tryConnect
    BY <1>3 DEF tryConnect
  <1>4. ASSUME NEW way \in Ways, Probe(way)
        PROVE  Timing'
    <2>1. PICK d \in 0..ProbeMax : now' = now + d
      BY <1>4 DEF Probe
    <2>2. CASE way \in reach
      BY <1>4, <2>1, <2>2 DEF Probe
    <2>3. CASE way \notin reach /\ way = "https"
      BY <1>4, <2>1, <2>3 DEF Probe, AfterFailed
    <2>4. CASE way \notin reach /\ way = "http"
      BY <1>4, <2>1, <2>4 DEF Probe, AfterFailed
    <2>5. CASE way \notin reach /\ way = "proxy"
      BY <1>4, <2>1, <2>5 DEF Probe, AfterFailed
    <2> QED
      BY <2>2, <2>3, <2>4, <2>5
  <1>5. CASE GiveUp
    BY <1>5 DEF GiveUp
  <1>6. CASE Backoff
    BY <1>6 DEF Backoff
  <1>7. CASE Environment
    BY <1>7 DEF Environment
  <1>8. CASE UNCHANGED vars
    BY <1>8 DEF vars
  <1> QED
    BY <1>1, <1>2, <1>3, <1>4, <1>5, <1>6, <1>7, <1>8 DEF Next, Connect

LEMMA UntriedStep == ASSUME TypeOK, Untried, [Next]_vars PROVE Untried'
  <1> USE ConnectorAssumption DEF TypeOK, Untried, Allowed, schemeFor, Ways, NodePorts
  <1>1. CASE getPort
    BY <1>1 DEF getPort
  <1>2. CASE getPortFails
    BY <1>2 DEF getPortFails
  <1>3. CASE tryConnect
    BY <1>3 DEF tryConnect
  <1>4. ASSUME NEW way \in Ways, Probe(way)
        PROVE  Untried'
    <2>1. UNCHANGED <<port, steady>>
      BY <1>4 DEF Probe
    <2>2. CASE way \in reach
      BY <1>4, <2>1, <2>2 DEF Probe
    <2>3. CASE way \notin reach /\ way = "https"
      BY <1>4, <2>1, <2>3 DEF Probe, AfterFailed
    <2>4. CASE way \notin reach /\ way = "http"
      BY <1>4, <2>1, <2>4 DEF Probe, AfterFailed
    <2>5. CASE way \notin reach /\ way = "proxy"
      BY <1>4, <2>1, <2>5 DEF Probe, AfterFailed
    <2> QED
      BY <2>2, <2>3, <2>4, <2>5
  <1>5. CASE GiveUp
    BY <1>5 DEF GiveUp
  <1>6. CASE Backoff
    BY <1>6 DEF Backoff
  <1>7. CASE Environment
    BY <1>7 DEF Environment
  <1>8. CASE UNCHANGED vars
    BY <1>8 DEF vars
  <1> QED
    BY <1>1, <1>2, <1>3, <1>4, <1>5, <1>6, <1>7, <1>8 DEF Next, Connect

LEMMA LateStep ==
  ASSUME TypeOK, Timing, Untried, Late, InTimeIsFound, [Next]_vars
  PROVE  Late' /\ InTimeIsFound'
  <1> USE ConnectorAssumption DEF TypeOK, Late, InTimeIsFound, Ways, env
  <1>1. CASE getPort \/ getPortFails
    <2>1. pc' \in {"try", "error"} /\ (pc' = "error" => port' = "unset") /\ UNCHANGED env
      BY <1>1 DEF getPort, getPortFails, Timing
    <2> QED
      BY <2>1
  <1>2. CASE tryConnect
    <2>1. /\ pc' # "error" /\ steady' = (IF bundle THEN reach ELSE {}) /\ UNCHANGED env
      BY <1>2 DEF tryConnect
    <2>2. early' \subseteq steady'
      BY <2>1
    <2> QED
      BY <2>1, <2>2
  <1>3. ASSUME NEW way \in Ways, Probe(way)
        PROVE  Late' /\ InTimeIsFound'
    BY <1>3 DEF Probe, AfterFailed
  <1>4. CASE GiveUp
    <2>1. early \subseteq steady /\ steady \cap Allowed = {}
      BY <1>4 DEF GiveUp, Untried
    <2>2. early \cap Allowed = {}
      BY <2>1
    <2>3. pc' = "error" /\ Allowed' = Allowed /\ UNCHANGED env
      BY <1>4 DEF GiveUp, Allowed, schemeFor
    <2> QED
      BY <2>2, <2>3
  <1>5. CASE Backoff
    <2>1. pc' = "try" /\ UNCHANGED env
      BY <1>5 DEF Backoff
    <2> QED
      BY <2>1
  <1>6. CASE Environment
    <2>1. /\ pc' # "error" /\ UNCHANGED <<pc, now, elapsed>> /\ early' = EarlyAfter(reach', bundle')
          /\ steady' = steady \cap reach' \/ UNCHANGED <<reach, steady>>
      BY <1>6 DEF Environment
    <2>2. early' # {} => bundle'
      BY <2>1 DEF EarlyAfter
    <2>3. elapsed >= InitTimeout => early' \subseteq early \cap reach'
      BY <2>1 DEF EarlyAfter
    <2>4. pc' \in Ways \cup {"failed"} /\ elapsed' >= InitTimeout => early' \subseteq steady'
      BY <2>1, <2>3
    <2> QED
      BY <2>1, <2>2, <2>4
  <1>7. CASE UNCHANGED vars
    <2>1. Allowed' = Allowed
      BY <1>7 DEF vars, Allowed, schemeFor
    <2> QED
      BY <1>7, <2>1 DEF vars
  <1> QED
    BY <1>1, <1>2, <1>3, <1>4, <1>5, <1>6, <1>7 DEF Next, Connect

LEMMA InvStep == ASSUME Inv, [Next]_vars PROVE Inv'
  BY TypeStep, TimingStep, UntriedStep, LateStep DEF Inv

LEMMA Invariance == Spec => []Inv
  BY InitInv, InvStep, PTL DEF Spec

\* The connector's state stays well-formed: an attempt never begins in the
\* future and a connection is returned exactly when Connect succeeds.
THEOREM ConnectorTypeCorrect == Spec => []TypeOK
  BY Invariance, PTL DEF Inv

\* connectWithRetry never gives up on a kubelet that came up, with its
\* certificate and token, before InitTimeout and stayed up.
THEOREM UpInTimeIsFound == Spec => []InTimeIsFound
  BY Invariance, PTL DEF Inv

\* connectWithRetry overruns InitTimeout by at most two attempts, whatever the
\* timeout, the backoff and the length of a probe.
THEOREM BoundedConnect == Spec => []GivesUpInTime
  <1>1. Inv => GivesUpInTime
    BY DEF Inv, Timing, GivesUpInTime
  <1> QED
    BY <1>1, Invariance, PTL

\* tryConnect fails only if none of the ways it may use answered throughout.
THEOREM EveryWayTried == Spec => []TriesEveryWay
  <1>1. Inv => TriesEveryWay
    BY DEF Inv, Untried, TriesEveryWay
  <1> QED
    BY <1>1, Invariance, PTL

-----------------------------------------------------------------------------
(* The connector inside start-up. *)

\* Nothing of the connector has moved before it is called.
BeforeConnect == stage \in {"config", "sink", "clients"} => pc = "port" /\ steady = {}

ConnectorInv == Inv /\ BeforeConnect

LEMMA ConnectorInit == StartUpInit => ConnectorInv
<1> SUFFICES ASSUME StartUpInit PROVE ConnectorInv
  OBVIOUS
<1>1. Inv
  BY InitInv DEF StartUpInit
<1>2. BeforeConnect
  BY DEF StartUpInit, Init, BeforeConnect
<1> QED
  BY <1>1, <1>2 DEF ConnectorInv

\* Steps of main that leave the connector alone.
LEMMA ConnectorStays ==
  ASSUME ConnectorInv, UNCHANGED vars, BeforeConnect'
  PROVE  ConnectorInv'
<1>1. Inv'
  BY InvStep DEF ConnectorInv
<1> QED
  BY <1>1 DEF ConnectorInv

\* What the world may do to a connector that rests: ways come up.
LEMMA ReachGrows ==
  ASSUME Inv, UNCHANGED <<pc, port, now, elapsed, conn, steady>>,
         reach' \subseteq Ways, bundle' \in BOOLEAN, steady \subseteq reach',
         early' = EarlyAfter(reach', bundle')
  PROVE  Inv'
<1>1. TypeOK'
  BY DEF Inv, TypeOK, EarlyAfter
<1>2. Timing' /\ Untried'
  BY DEF Inv, Timing, Untried, Allowed, schemeFor
<1>3. elapsed >= InitTimeout => early' \subseteq early
  BY ConnectorAssumption DEF Inv, TypeOK, EarlyAfter
<1>4. Late'
  BY <1>3 DEF Inv, Late, EarlyAfter
<1>5. Allowed' = Allowed
  BY DEF Allowed, schemeFor
<1>6. InTimeIsFound'
  BY <1>3, <1>5 DEF Inv, Timing, InTimeIsFound
<1> QED
  BY <1>1, <1>2, <1>4, <1>6 DEF Inv

\* A connector that has not begun.
LEMMA FreshConnector ==
  ASSUME pc' \in {"port", "connected", "error"}, port' = "unset", now' = 0, elapsed' = 0,
         conn' \in Ways \cup {"none"}, conn' # "none" <=> pc' = "connected",
         steady' = {}, reach' \subseteq Ways, bundle' \in BOOLEAN,
         early' \subseteq reach', early' # {} => bundle'
  PROVE  Inv'
<1>1. TypeOK'
  BY DEF TypeOK, Ways
<1>2. Timing'
  BY ConnectorAssumption DEF Timing, Ways
<1>3. Untried' /\ Late' /\ InTimeIsFound'
  BY DEF Untried, Late, InTimeIsFound, Ways
<1> QED
  BY <1>1, <1>2, <1>3 DEF Inv

LEMMA ConnectorStep == ASSUME ConnectorInv, [StartUpNext]_startVars PROVE ConnectorInv'
<1> USE DEF BeforeConnect
<1>1. CASE LoadConfig
  <2>1. UNCHANGED vars /\ BeforeConnect'
    BY <1>1 DEF ConnectorInv, LoadConfig, Go, vars
  <2> QED
    BY <2>1, ConnectorStays
<1>2. CASE OpenSink
  <2>1. UNCHANGED vars /\ BeforeConnect'
    BY <1>2 DEF ConnectorInv, OpenSink, Exit, Go, vars
  <2> QED
    BY <2>1, ConnectorStays
<1>3. CASE BuildClients
  <2>1. CASE UNCHANGED vars /\ stage' \in {"cloud", "exit"}
    BY <2>1, ConnectorStays
  <2>2. CASE stage' = "connect" /\ reach' \in SUBSET Ways /\ bundle' \in BOOLEAN
             /\ early' = EarlyAfter(reach', bundle')
             /\ UNCHANGED <<pc, port, now, elapsed, conn, steady>>
    <3>1. steady = {}
      BY <1>3 DEF BuildClients, ConnectorInv
    <3>2. Inv'
      BY <2>2, <3>1, ReachGrows DEF ConnectorInv
    <3> QED
      BY <2>2, <3>2 DEF ConnectorInv
  <2> QED
    BY <1>3, <2>1, <2>2 DEF BuildClients, Exit, Go
<1>4. CASE Connecting
  <2>1. Inv'
    BY <1>4, InvStep DEF ConnectorInv, Connecting, Next
  <2>2. stage' = "connect"
    BY <1>4 DEF Connecting, mainVars
  <2> QED
    BY <2>1, <2>2 DEF ConnectorInv
<1>5. CASE Connected
  <2>1. Inv'
    BY <1>5, FreshConnector DEF Connected, ConnectorInv, Inv, TypeOK
  <2>2. stage' \in {"cloud", "exit"}
    BY <1>5 DEF Connected
  <2> QED
    BY <2>1, <2>2 DEF ConnectorInv
<1>6. CASE Detecting \/ Detected \/ Request \/ StartLoop \/ WaitForCacheSync \/ LoopExits
  <2>1. UNCHANGED vars /\ stage' \in {"cloud", "setup", "running", "exit"}
    BY <1>6 DEF Detecting, Detected, Request, StartLoop, WaitForCacheSync, LoopExits, Exit, Go, mainVars
  <2> QED
    BY <2>1, ConnectorStays
<1>7. CASE Restart
  <2>1. Inv'
    BY <1>7, FreshConnector DEF Restart, ConnectorInv, Inv, TypeOK, Late, env
  <2>2. pc' = "port" /\ steady' = {}
    BY <1>7 DEF Restart
  <2> QED
    BY <2>1, <2>2 DEF ConnectorInv
<1>8. CASE KubeletChanges
  <2>1. Inv'
    BY <1>8, InvStep DEF ConnectorInv, KubeletChanges, Next
  <2>2. stage' = "connect"
    BY <1>8 DEF KubeletChanges, mainVars
  <2> QED
    BY <2>1, <2>2 DEF ConnectorInv
<1>9. CASE Settle
  <2>1. UNCHANGED <<pc, port, now, elapsed, conn, steady, stage>>
    BY <1>9 DEF Settle
  <2>2. CASE stage = "connect"
    <3>1. /\ reach' \subseteq Ways /\ bundle' \in BOOLEAN /\ steady \subseteq reach'
          /\ early' = EarlyAfter(reach', bundle')
      BY <1>9, <2>2 DEF Settle, ConnectorInv, Inv, TypeOK, Ways
    <3>2. Inv'
      BY <2>1, <3>1, ReachGrows DEF ConnectorInv
    <3> QED
      BY <2>1, <3>2 DEF ConnectorInv
  <2>3. CASE stage # "connect"
    <3>1. UNCHANGED vars /\ BeforeConnect'
      BY <1>9, <2>1, <2>3 DEF Settle, ConnectorInv, vars
    <3> QED
      BY <3>1, ConnectorStays
  <2> QED
    BY <2>2, <2>3
<1>10. CASE UNCHANGED startVars
  <2>1. UNCHANGED vars /\ stage' = stage /\ pc' = pc /\ steady' = steady
    BY <1>10 DEF startVars, mainVars, vars
  <2> QED
    BY <2>1, ConnectorStays DEF ConnectorInv
<1> QED
  BY <1>1, <1>2, <1>3, <1>4, <1>5, <1>6, <1>7, <1>8, <1>9, <1>10 DEF StartUpNext, Main

LEMMA ConnectorAlways == StartUpSpec => []ConnectorInv
BY ConnectorInit, ConnectorStep, PTL DEF StartUpSpec

\* However often main has failed and was restarted, Connect never gives up on a
\* kubelet that came up in time, always gives up in time, and only when no way
\* has answered throughout.
THEOREM StartUpConnects ==
  StartUpSpec => [](InTimeIsFound /\ GivesUpInTime /\ TriesEveryWay)
<1>1. ConnectorInv => InTimeIsFound /\ GivesUpInTime /\ TriesEveryWay
  BY DEF ConnectorInv, Inv, Timing, Untried, GivesUpInTime, TriesEveryWay
<1> QED
  BY <1>1, ConnectorAlways, PTL

-----------------------------------------------------------------------------
(* The cloud's id. *)

\* The id with all its parts, for the providerID that was read.
Known == providerID.scheme \in {"gce", "aws", "azure"}
Whole == [cloud |-> providerID.scheme, facts |-> IDParts[providerID.scheme]]

\* A pause that overran the deadline is the last: no later request succeeds, and
\* only a success allows another one.
WithinBackoff ==
    /\ spent \in Nat /\ failedTries \in {0, 1}
    /\ failedTries = 0 => spent <= CloudTimeout
    /\ spent <= CloudTimeout + QueryBackoff

\* An id is whole or absent, and rests on a providerID that does not change.
WholeOrNone ==
    /\ providerID # NoProviderID => providerID.scheme \in Schemes
    /\ cloudPC = "query" => Known
    /\ cloudID # NoID => Known /\ cloudID = Whole
    /\ ids # {} => Known
    /\ ids \subseteq {Whole}

CloudInv == WithinBackoff /\ WholeOrNone

LEMMA CloudInitInv == StartUpInit => CloudInv
BY CloudAssumption DEF StartUpInit, CloudInit, CloudInv, WithinBackoff, WholeOrNone

\* The detectors require the parts of their cloud's ids.
LEMMA RequiredParts == Known => Detector(providerID).required = IDParts[providerID.scheme]
BY DEF Known, Detector, gkeDetector, eksDetector, aksDetector, IDParts

LEMMA SameProviderID ==
  ASSUME WholeOrNone, UNCHANGED <<providerID, ids>>,
         cloudPC' = "query" => cloudPC = "query",
         cloudID' \in {NoID, cloudID}
  PROVE  WholeOrNone'
BY DEF WholeOrNone, Known, Whole

LEMMA CloudStays ==
  ASSUME CloudInv, UNCHANGED <<cloudPC, providerID, failedTries, spent, cloudID, ids>>
  PROVE  CloudInv'
BY SameProviderID DEF CloudInv, WithinBackoff

LEMMA BackoffStep == ASSUME WithinBackoff, Detecting PROVE WithinBackoff'
<1> USE CloudAssumption DEF WithinBackoff
<1>1. CASE Disabled
  BY <1>1 DEF Disabled
<1>2. CASE GetNode
  <2>1. spent' \in Nat /\ spent' <= CloudTimeout /\ failedTries' = failedTries
    BY <1>2 DEF GetNode
  <2> QED
    BY <2>1
<1>3. CASE Query
  BY <1>3 DEF Query
<1>4. CASE RetryQuery
  <2>1. PICK t \in Ends : spent' = t + QueryBackoff
    BY <1>4 DEF RetryQuery
  <2>2. failedTries = 0 /\ failedTries' = 1
    BY <1>4 DEF RetryQuery
  <2>3. t \in Nat /\ t <= CloudTimeout
    BY <2>1, <2>2 DEF Ends
  <2> QED
    BY <2>1, <2>2, <2>3
<1>5. CASE QueryFails
  <2>1. spent' \in Ends /\ failedTries' = failedTries
    BY <1>5 DEF QueryFails
  <2>2. spent' \in Nat /\ (spent' <= CloudTimeout \/ spent' = spent)
    BY <2>1 DEF Ends
  <2> QED
    BY <2>1, <2>2
<1>6. CASE Assemble
  BY <1>6 DEF Assemble
<1> QED
  BY <1>1, <1>2, <1>3, <1>4, <1>5, <1>6 DEF Detecting

LEMMA WholeStep == ASSUME WholeOrNone, Detecting PROVE WholeOrNone'
<1>1. ids' = ids
  BY DEF Detecting, mainVars
<1>2. CASE Disabled \/ Query \/ RetryQuery \/ QueryFails
  <2>1. /\ UNCHANGED <<providerID, ids>> /\ cloudID' \in {NoID, cloudID}
        /\ cloudPC' = "query" => cloudPC = "query"
    BY <1>1, <1>2 DEF Disabled, Query, RetryQuery, QueryFails, NotDetected
  <2> QED
    BY <2>1, SameProviderID
<1>3. CASE GetNode
  <2>1. cloudID' \in {NoID, cloudID}
    BY <1>3 DEF GetNode, NotDetected
  <2>2. CASE providerID = NoProviderID
    <3>1. ~Known
      BY <2>2 DEF Known, NoProviderID
    <3>2. ids' = {} /\ cloudID' = NoID
      BY <1>1, <2>1, <3>1 DEF WholeOrNone
    <3>3. providerID' \in ProviderIDs
      BY <1>3, <2>2 DEF GetNode
    <3>4. providerID'.scheme \in Schemes
      BY <3>3, CloudAssumption
    <3>5. cloudPC' = "query" => Known'
      BY <1>3, <3>4 DEF GetNode, NotDetected, Known, Schemes
    <3> QED
      BY <3>2, <3>4, <3>5 DEF WholeOrNone
  <2>3. CASE providerID # NoProviderID
    <3>1. providerID' = providerID
      BY <1>3, <2>3 DEF GetNode
    <3>2. Whole' = Whole /\ Known' = Known
      BY <3>1 DEF Whole, Known
    <3>3. cloudPC' = "query" => Known'
      BY <1>3, <2>3, <3>1 DEF GetNode, NotDetected, Known, WholeOrNone, Schemes
    <3> QED
      BY <1>1, <2>1, <2>3, <3>1, <3>2, <3>3 DEF WholeOrNone
  <2> QED
    BY <2>2, <2>3
<1>4. CASE Assemble
  <2>1. providerID' = providerID /\ cloudPC' = "done" /\ cloudPC = "query"
    BY <1>4 DEF Assemble, NotDetected
  <2>2. Known
    BY <2>1 DEF WholeOrNone
  <2>3. cloudID' = NoID \/ cloudID' = Whole
    <3> DEFINE required == Detector(providerID).required
    <3>1. cloudID' = NoID \/ (required \subseteq facts /\ cloudID' = ID)
      BY <1>4 DEF Assemble, NotDetected
    <3>2. required \subseteq facts => facts \cap required = required
      OBVIOUS
    <3> QED
      BY <2>2, <3>1, <3>2, RequiredParts DEF ID, Whole
  <2>4. Whole' = Whole /\ Known' = Known
    BY <2>1 DEF Whole, Known
  <2> QED
    BY <1>1, <2>1, <2>2, <2>3, <2>4 DEF WholeOrNone
<1> QED
  BY <1>2, <1>3, <1>4 DEF Detecting

LEMMA CloudStep == ASSUME CloudInv, [StartUpNext]_startVars PROVE CloudInv'
<1>1. CASE \/ LoadConfig \/ OpenSink \/ BuildClients \/ Connecting \/ Connected
           \/ Request \/ WaitForCacheSync \/ LoopExits \/ KubeletChanges \/ Settle
           \/ UNCHANGED startVars
  <2>1. UNCHANGED <<cloudVars, ids>>
    BY <1>1 DEF LoadConfig, OpenSink, BuildClients, Connecting, Connected, Request,
                WaitForCacheSync, LoopExits, KubeletChanges, Settle, Exit, Go, mainVars, startVars
  <2> QED
    BY <2>1, CloudStays DEF cloudVars
<1>2. CASE Detecting
  BY <1>2, BackoffStep, WholeStep DEF CloudInv
<1>3. CASE Detected
  <2>1. WithinBackoff'
    BY <1>3, CloudAssumption DEF Detected, WithinBackoff
  <2>2. UNCHANGED <<providerID, cloudPC, cloudID, ids>>
    BY <1>3 DEF Detected
  <2> QED
    BY <2>1, <2>2, SameProviderID DEF CloudInv
<1>4. CASE StartLoop
  <2>1. /\ UNCHANGED <<cloudPC, providerID, failedTries, spent, cloudID>>
        /\ ids' = ids \cup ({cloudID} \ {NoID})
    BY <1>4 DEF StartLoop, cloudVars
  <2>2. Whole' = Whole /\ Known' = Known
    BY <2>1 DEF Whole, Known
  <2>3. WholeOrNone'
    BY <2>1, <2>2 DEF CloudInv, WholeOrNone
  <2> QED
    BY <2>1, <2>3 DEF CloudInv, WithinBackoff
<1>5. CASE Restart
  <2>1. WithinBackoff'
    BY <1>5, CloudAssumption DEF Restart, WithinBackoff
  <2>2. UNCHANGED <<providerID, ids>> /\ cloudPC' # "query" /\ cloudID' = NoID
    BY <1>5 DEF Restart
  <2> QED
    BY <2>1, <2>2, SameProviderID DEF CloudInv
<1> QED
  BY <1>1, <1>2, <1>3, <1>4, <1>5 DEF StartUpNext, Main

\* Whatever the cloud answers, and in every process: detection overruns its
\* timeout by one backoff at most, and every id that is reported has all the
\* parts of its cloud's ids and is the same.
THEOREM CloudBestEffort == StartUpSpec => []CloudIsBestEffort
<1>1. CloudInv => CloudIsBestEffort
  BY DEF CloudInv, WithinBackoff, WholeOrNone, Whole, CloudIsBestEffort
<1> QED
  BY <1>1, CloudInitInv, CloudStep, PTL DEF StartUpSpec

-----------------------------------------------------------------------------
(* What the loop finds. *)

AnyCall == [scraper : Scrapers, what : Requests \cup Listers]

\* The elements of a sequence of calls.
Remaining(s) == {s[i] : i \in 1..Len(s)}

LEMMA RemainingConcat ==
  ASSUME NEW s \in Seq(AnyCall), NEW t \in Seq(AnyCall)
  PROVE  s \o t \in Seq(AnyCall) /\ Remaining(s \o t) = Remaining(s) \cup Remaining(t)
<1>1. s \o t \in Seq(AnyCall) /\ Len(s \o t) = Len(s) + Len(t)
  OBVIOUS
<1>2. Len(s) \in Nat /\ Len(t) \in Nat
  OBVIOUS
<1>3. \A i \in 1..Len(s) : i \in 1..Len(s \o t) /\ (s \o t)[i] = s[i]
  BY <1>1, <1>2
<1>4. \A i \in 1..Len(t) : Len(s) + i \in 1..Len(s \o t) /\ (s \o t)[Len(s) + i] = t[i]
  BY <1>1, <1>2
<1>5. \A i \in 1..Len(s \o t) : i \in 1..Len(s) \/ \E j \in 1..Len(t) : i = Len(s) + j
  <2> SUFFICES ASSUME NEW i \in 1..Len(s \o t), i \notin 1..Len(s)
               PROVE  \E j \in 1..Len(t) : i = Len(s) + j
    OBVIOUS
  <2>1. i - Len(s) \in 1..Len(t) /\ i = Len(s) + (i - Len(s))
    BY <1>1, <1>2
  <2> QED
    BY <2>1
<1>6. Remaining(s) \subseteq Remaining(s \o t)
  <2> SUFFICES ASSUME NEW i \in 1..Len(s)
               PROVE  s[i] \in Remaining(s \o t)
    BY Zenon DEF Remaining
  <2> QED
    BY <1>3, Zenon DEF Remaining
<1>7. Remaining(t) \subseteq Remaining(s \o t)
  <2> SUFFICES ASSUME NEW i \in 1..Len(t)
               PROVE  t[i] \in Remaining(s \o t)
    BY Zenon DEF Remaining
  <2> QED
    BY <1>4, Zenon DEF Remaining
<1>8. Remaining(s \o t) \subseteq Remaining(s) \cup Remaining(t)
  <2> SUFFICES ASSUME NEW i \in 1..Len(s \o t)
               PROVE  (s \o t)[i] \in Remaining(s) \cup Remaining(t)
    BY Zenon DEF Remaining
  <2>1. CASE i \in 1..Len(s)
    BY <2>1, <1>3, Zenon DEF Remaining
  <2>2. ASSUME NEW j \in 1..Len(t), i = Len(s) + j
        PROVE  (s \o t)[i] \in Remaining(t)
    BY <2>2, <1>4, Zenon DEF Remaining
  <2> QED
    BY <2>1, <2>2, <1>5
<1> QED
  BY <1>1, <1>6, <1>7, <1>8, Zenon

LEMMA RemainingTail ==
  ASSUME NEW s \in Seq(AnyCall), s # <<>>
  PROVE  Tail(s) \in Seq(AnyCall) /\ Remaining(s) \subseteq {Head(s)} \cup Remaining(Tail(s))
<1>1. Tail(s) \in Seq(AnyCall) /\ Len(Tail(s)) = Len(s) - 1 /\ Head(s) = s[1] /\ Len(s) \in Nat
  OBVIOUS
<1>2. \A i \in 1..Len(s) : i = 1 \/ (i - 1 \in 1..Len(Tail(s)) /\ Tail(s)[i - 1] = s[i])
  BY <1>1
<1> QED
  BY <1>1, <1>2 DEF Remaining

LEMMA OneCall ==
  ASSUME NEW a \in AnyCall
  PROVE  <<a>> \in Seq(AnyCall) /\ a \in Remaining(<<a>>)
BY DEF Remaining

LEMMA TwoCalls ==
  ASSUME NEW a \in AnyCall, NEW b \in AnyCall
  PROVE  <<a, b>> \in Seq(AnyCall) /\ b \in Remaining(<<a, b>>)
<1>1. Len(<<a, b>>) = 2 /\ <<a, b>>[2] = b
  OBVIOUS
<1> QED
  BY <1>1 DEF Remaining

LEMMA ThreeCalls ==
  ASSUME NEW a \in AnyCall, NEW b \in AnyCall, NEW d \in AnyCall
  PROVE  <<a, b, d>> \in Seq(AnyCall) /\ b \in Remaining(<<a, b, d>>) /\ d \in Remaining(<<a, b, d>>)
<1>1. Len(<<a, b, d>>) = 3 /\ <<a, b, d>>[2] = b /\ <<a, b, d>>[3] = d
  OBVIOUS
<1> QED
  BY <1>1 DEF Remaining

LEMMA CallTyped ==
  \A s \in {"kubelet", "ksm", "controlPlane"},
     w \in {"restConfig", "version", "nodes", "endpointSlices", "services", "secrets", "pods", "namespaces"} :
        Call(s, w) \in AnyCall
BY DEF Call, AnyCall, Scrapers, Requests, Listers

LEMMA FilterCalls ==
  ASSUME NEW c, NEW scraper \in {"kubelet", "ksm"}
  PROVE  /\ Filter(c, scraper) \in Seq(AnyCall)
         /\ c.selector => Call(scraper, "namespaces") \in Remaining(Filter(c, scraper))
<1>1. <<>> \in Seq(AnyCall)
  OBVIOUS
<1>2. Call(scraper, "namespaces") \in AnyCall
  BY CallTyped
<1> QED
  BY <1>1, <1>2, OneCall DEF Filter

LEMMA KubeletCalls ==
  ASSUME NEW c
  PROVE  /\ setupKubelet(c) \in Seq(AnyCall)
         /\ Call("kubelet", "nodes") \in Remaining(setupKubelet(c))
         /\ c.selector => Call("kubelet", "namespaces") \in Remaining(setupKubelet(c))
<1>1. NewKubeletScraper \in Seq(AnyCall) /\ Call("kubelet", "nodes") \in Remaining(NewKubeletScraper)
  BY CallTyped, TwoCalls DEF NewKubeletScraper
<1> QED
  BY <1>1, FilterCalls, RemainingConcat DEF setupKubelet

LEMMA KSMCalls ==
  ASSUME NEW c
  PROVE  /\ setupKSM(c) \in Seq(AnyCall)
         /\ Call("ksm", "endpointSlices") \in Remaining(setupKSM(c))
         /\ Call("ksm", "services") \in Remaining(setupKSM(c))
         /\ c.selector => Call("ksm", "namespaces") \in Remaining(setupKSM(c))
<1>1. /\ NewKSMScraper \in Seq(AnyCall)
      /\ Call("ksm", "endpointSlices") \in Remaining(NewKSMScraper)
      /\ Call("ksm", "services") \in Remaining(NewKSMScraper)
  BY CallTyped, ThreeCalls DEF NewKSMScraper
<1> QED
  BY <1>1, FilterCalls, RemainingConcat DEF setupKSM

LEMMA ControlPlaneCalls ==
  ASSUME NEW c
  PROVE  /\ setupControlPlane(c) \in Seq(AnyCall)
         /\ Call("controlPlane", "secrets") \in Remaining(setupControlPlane(c))
         /\ Call("controlPlane", "pods") \in Remaining(setupControlPlane(c))
<1>1. /\ NewControlPlaneScraper \in Seq(AnyCall)
      /\ Call("controlPlane", "secrets") \in Remaining(NewControlPlaneScraper)
      /\ Call("controlPlane", "pods") \in Remaining(NewControlPlaneScraper)
  BY CallTyped, ThreeCalls DEF NewControlPlaneScraper
<1>2. <<Call("controlPlane", "restConfig")>> \in Seq(AnyCall)
  BY CallTyped, OneCall
<1> QED
  BY <1>1, <1>2, RemainingConcat DEF setupControlPlane

\* None of the stores is filled by a mere request.
LEMMA ReadsAreStores == ASSUME NEW c, NEW r \in Reads(c) PROVE r.what \notin Requests
<1>1. r \in RunReads \cup FilterReads
  BY DEF Reads
<1> QED
  BY <1>1 DEF RunReads, FilterReads, Call, Requests

\* The set-up fills every store that the enabled scrapers read.
LEMMA SetUpCovers ==
  ASSUME NEW c \in ConfigType
  PROVE  SetUpAll(c) \in Seq(AnyCall) /\ Reads(c) \subseteq Remaining(SetUpAll(c))
<1> DEFINE kubelet == If(c, "kubelet", setupKubelet(c))
           ksm == If(c, "ksm", setupKSM(c))
           controlPlane == If(c, "controlPlane", setupControlPlane(c))
<1>1. <<>> \in Seq(AnyCall)
  OBVIOUS
<1>2. kubelet \in Seq(AnyCall) /\ ksm \in Seq(AnyCall) /\ controlPlane \in Seq(AnyCall)
  BY <1>1, KubeletCalls, KSMCalls, ControlPlaneCalls DEF If
<1>3. "kubelet" \in c.scrapers =>
        /\ Call("kubelet", "nodes") \in Remaining(kubelet)
        /\ c.selector => Call("kubelet", "namespaces") \in Remaining(kubelet)
  BY KubeletCalls DEF If
<1>4. "ksm" \in c.scrapers =>
        /\ Call("ksm", "endpointSlices") \in Remaining(ksm)
        /\ Call("ksm", "services") \in Remaining(ksm)
        /\ c.selector => Call("ksm", "namespaces") \in Remaining(ksm)
  BY KSMCalls DEF If
<1>5. "controlPlane" \in c.scrapers =>
        /\ Call("controlPlane", "secrets") \in Remaining(controlPlane)
        /\ Call("controlPlane", "pods") \in Remaining(controlPlane)
  BY ControlPlaneCalls DEF If
<1> HIDE DEF kubelet, ksm, controlPlane
<1>6. /\ kubelet \o ksm \in Seq(AnyCall)
      /\ Remaining(kubelet \o ksm) = Remaining(kubelet) \cup Remaining(ksm)
  BY <1>2, RemainingConcat
<1>7. /\ (kubelet \o ksm) \o controlPlane \in Seq(AnyCall)
      /\ Remaining((kubelet \o ksm) \o controlPlane)
           = Remaining(kubelet) \cup Remaining(ksm) \cup Remaining(controlPlane)
  BY <1>2, <1>6, RemainingConcat
<1>8. SetUpAll(c) = (kubelet \o ksm) \o controlPlane
  BY DEF SetUpAll, kubelet, ksm, controlPlane
<1>9. \A r \in Reads(c) : r \in Remaining(kubelet) \cup Remaining(ksm) \cup Remaining(controlPlane)
  <2> SUFFICES ASSUME NEW r \in Reads(c)
               PROVE  r \in Remaining(kubelet) \cup Remaining(ksm) \cup Remaining(controlPlane)
    OBVIOUS
  <2>1. r.scraper \in c.scrapers
    BY DEF Reads
  <2>2. CASE r \in RunReads
    <3>1. CASE r = Call("kubelet", "nodes")
      BY <1>3, <2>1, <3>1 DEF Call
    <3>2. CASE r = Call("ksm", "endpointSlices") \/ r = Call("ksm", "services")
      BY <1>4, <2>1, <3>2 DEF Call
    <3>3. CASE r = Call("controlPlane", "secrets") \/ r = Call("controlPlane", "pods")
      BY <1>5, <2>1, <3>3 DEF Call
    <3> QED
      BY <2>2, <3>1, <3>2, <3>3 DEF RunReads
  <2>3. CASE c.selector /\ r \in FilterReads
    <3>1. CASE r = Call("kubelet", "namespaces")
      BY <1>3, <2>1, <2>3, <3>1 DEF Call
    <3>2. CASE r = Call("ksm", "namespaces")
      BY <1>4, <2>1, <2>3, <3>2 DEF Call
    <3> QED
      BY <2>3, <3>1, <3>2 DEF FilterReads
  <2> QED
    BY <2>2, <2>3 DEF Reads
<1> QED
  BY <1>7, <1>8, <1>9

\* What main has made sure of by each stage.
Checked == stage \notin {"config", "exit"} => checkNamespaceSelectorConfig(config)

HasKubelet ==
    stage \in {"cloud", "setup", "running"} /\ "kubelet" \in config.scrapers => conn # "none"

Filled ==
    /\ stage = "setup" => Reads(config) \subseteq synced \cup Remaining(calls)
    /\ stage = "running" => Reads(config) \subseteq synced

ReadyInv ==
    ConnectorInv /\ config \in Configs /\ calls \in Seq(AnyCall) /\ Checked /\ HasKubelet /\ Filled

LEMMA ReadyInit == StartUpInit => ReadyInv
<1> SUFFICES ASSUME StartUpInit PROVE ReadyInv
  OBVIOUS
<1>1. stage = "config" /\ config \in Configs /\ calls = <<>>
  BY DEF StartUpInit, ProcessInit
<1>2. calls \in Seq(AnyCall)
  BY <1>1
<1> QED
  BY <1>1, <1>2, ConnectorInit DEF ReadyInv, Checked, HasKubelet, Filled

LEMMA ReadyStep == ASSUME ReadyInv, [StartUpNext]_startVars PROVE ReadyInv'
<1>1. ConnectorInv'
  BY ConnectorStep DEF ReadyInv
<1>2. CASE LoadConfig
  BY <1>1, <1>2 DEF LoadConfig, Go, ReadyInv, Checked, HasKubelet, Filled, checkNamespaceSelectorConfig
<1>3. CASE OpenSink
  BY <1>1, <1>3 DEF OpenSink, Exit, Go, ReadyInv, Checked, HasKubelet, Filled, checkNamespaceSelectorConfig
<1>4. CASE BuildClients
  BY <1>1, <1>4 DEF BuildClients, Exit, Go, ReadyInv, Checked, HasKubelet, Filled, checkNamespaceSelectorConfig
<1>5. CASE Connecting \/ KubeletChanges
  <2>1. stage' = "connect" /\ stage = "connect" /\ UNCHANGED <<config, calls>>
    BY <1>5 DEF Connecting, KubeletChanges, mainVars
  <2> QED
    BY <1>1, <2>1 DEF ReadyInv, Checked, HasKubelet, Filled, checkNamespaceSelectorConfig
<1>6. CASE Connected
  <2>1. stage = "connect" /\ UNCHANGED <<config, calls, conn>> /\ stage' \in {"cloud", "exit"}
        /\ (stage' = "cloud" => conn # "none")
    BY <1>6 DEF Connected, ReadyInv, ConnectorInv, Inv, TypeOK
  <2> QED
    BY <1>1, <2>1 DEF ReadyInv, Checked, HasKubelet, Filled, checkNamespaceSelectorConfig
<1>7. CASE Detecting
  <2>1. stage = "cloud" /\ UNCHANGED <<stage, config, calls, conn>>
    BY <1>7 DEF Detecting, mainVars, vars
  <2> QED
    BY <1>1, <2>1 DEF ReadyInv, Checked, HasKubelet, Filled, checkNamespaceSelectorConfig
<1>8. CASE Detected
  <2>1. /\ stage = "cloud" /\ stage' = "setup" /\ calls' = SetUpAll(config)
        /\ UNCHANGED <<config, conn, synced>>
    BY <1>8 DEF Detected, vars
  <2>2. calls' \in Seq(AnyCall) /\ Reads(config) \subseteq Remaining(calls')
    BY <2>1, SetUpCovers, StartUpAssumption DEF ReadyInv
  <2>3. Filled'
    BY <2>1, <2>2 DEF Filled, Remaining, Reads
  <2> QED
    BY <1>1, <2>1, <2>2, <2>3 DEF ReadyInv, Checked, HasKubelet, checkNamespaceSelectorConfig
<1>9. CASE Request
  <2>1. /\ stage = "setup" /\ calls # <<>> /\ Head(calls).what \in Requests
        /\ UNCHANGED <<config, conn, synced>>
        /\ \/ calls' = Tail(calls) /\ stage' = stage
           \/ stage' = "exit" /\ calls' = calls
    BY <1>9 DEF Request, vars
  <2>2. Head(calls) \notin Reads(config)
    BY <2>1, ReadsAreStores
  <2>3. CASE calls' = Tail(calls) /\ stage' = stage
    <3>1. calls' \in Seq(AnyCall) /\ Remaining(calls) \subseteq {Head(calls)} \cup Remaining(calls')
      BY <2>1, <2>3, RemainingTail DEF ReadyInv
    <3>2. Reads(config) \subseteq synced \cup Remaining(calls)
      BY <2>1 DEF ReadyInv, Filled
    <3>3. Reads(config) \subseteq synced \cup Remaining(calls')
      BY <2>2, <3>1, <3>2
    <3>4. Filled'
      BY <2>1, <2>3, <3>3 DEF Filled, Remaining, Reads
    <3> QED
      BY <1>1, <2>1, <2>3, <3>1, <3>4 DEF ReadyInv, Checked, HasKubelet, checkNamespaceSelectorConfig
  <2>4. CASE stage' = "exit" /\ calls' = calls
    BY <1>1, <2>1, <2>4 DEF ReadyInv, Checked, HasKubelet, Filled
  <2> QED
    BY <2>1, <2>3, <2>4
<1>10. CASE WaitForCacheSync
  <2>1. /\ stage = "setup" /\ calls # <<>> /\ stage' = stage
        /\ UNCHANGED <<config, conn>>
        /\ calls' = Tail(calls) /\ synced' = synced \cup {Head(calls)}
    BY <1>10 DEF WaitForCacheSync, vars
  <2>2. calls' \in Seq(AnyCall) /\ Remaining(calls) \subseteq {Head(calls)} \cup Remaining(calls')
    BY <2>1, RemainingTail DEF ReadyInv
  <2>3. Reads(config) \subseteq synced' \cup Remaining(calls')
    BY <2>1, <2>2 DEF ReadyInv, Filled
  <2>4. Filled'
    BY <2>1, <2>3 DEF Filled, Remaining, Reads
  <2> QED
    BY <1>1, <2>1, <2>2, <2>4 DEF ReadyInv, Checked, HasKubelet, checkNamespaceSelectorConfig
<1>11. CASE StartLoop
  <2>1. /\ stage = "setup" /\ calls = <<>> /\ stage' = "running"
        /\ UNCHANGED <<config, conn, calls, synced>>
    BY <1>11 DEF StartLoop, vars
  <2>2. Remaining(calls) = {}
    BY <2>1 DEF Remaining
  <2>3. Filled'
    BY <2>1, <2>2 DEF ReadyInv, Filled, Reads
  <2> QED
    BY <1>1, <2>1, <2>3 DEF ReadyInv, Checked, HasKubelet, checkNamespaceSelectorConfig
<1>12. CASE LoopExits
  BY <1>1, <1>12 DEF LoopExits, Exit, Go, ReadyInv, Checked, HasKubelet, Filled
<1>13. CASE Restart
  <2>1. stage' = "config" /\ config' \in Configs /\ calls' = <<>>
    BY <1>13 DEF Restart, Found
  <2>2. calls' \in Seq(AnyCall)
    BY <2>1
  <2> QED
    BY <1>1, <2>1, <2>2 DEF ReadyInv, Checked, HasKubelet, Filled
<1>14. CASE Settle \/ UNCHANGED startVars
  <2>1. UNCHANGED <<stage, config, calls, synced, conn>>
    BY <1>14 DEF Settle, startVars, mainVars, vars
  <2> QED
    BY <1>1, <2>1 DEF ReadyInv, Checked, HasKubelet, Filled, checkNamespaceSelectorConfig,
                      Remaining, Reads
<1> QED
  BY <1>2, <1>3, <1>4, <1>5, <1>6, <1>7, <1>8, <1>9, <1>10, <1>11, <1>12, <1>13, <1>14
     DEF StartUpNext, Main

\* In whatever order start-up failed and was tried again, the loop runs only
\* with a connected kubelet, filled stores and a selector of strings.
THEOREM StartsReady == StartUpSpec => []LoopIsReady
<1>1. ReadyInv => LoopIsReady
  BY DEF ReadyInv, Checked, HasKubelet, Filled, LoopIsReady, checkNamespaceSelectorConfig
<1> QED
  BY <1>1, ReadyInit, ReadyStep, PTL DEF StartUpSpec
=============================================================================
