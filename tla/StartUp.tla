------------------------------- MODULE StartUp -------------------------------
(***************************************************************************)
(* main up to its loop: configuration, sink, clients, the kubelet's         *)
(* connector, cloud detection and the scrapers' set-up, with the exit that  *)
(* ends it wherever one of these fails and the restart by Kubernetes.       *)
(*                                                                          *)
(* The world around it is hostile until it settles: from then on the        *)
(* configuration is a good one, the agent and the API server answer and the *)
(* kubelet can be reached through the proxy.  The cloud never settles.      *)
(***************************************************************************)
EXTENDS KubeletConnector, CloudDetect

CONSTANTS Configs    \* the configurations a process may find

Kinds == {"string", "other"}   \* of the values in a YAML list or map
Scrapers == {"kubelet", "ksm", "controlPlane"}

ConfigType == [loads : BOOLEAN, selector : BOOLEAN, labels : SUBSET Kinds,
               expressions : Seq(SUBSET Kinds), sink : {"http", "stdout", "other"},
               detect : BOOLEAN, scrapers : SUBSET Scrapers]

ASSUME StartUpAssumption == Configs \subseteq ConfigType

VARIABLES stage, config,
          calls,       \* of the set-up of the scrapers, still to be made
          synced,      \* the listers whose stores were filled
          settled,     \* environment
          ids          \* history: the cloud ids that loops have reported

mainVars == <<stage, config, calls, synced, settled, ids>>
startVars == <<vars, cloudVars, mainVars>>

\* Mutant of checkNamespaceSelectorConfig: the expressions are taken as they are.
checkLabelsOnly(c) == c.selector => c.labels \subseteq {"string"}

\* Values that YAML reads as booleans or numbers are refused.
checkNamespaceSelectorConfig(c) ==
    c.selector => /\ c.labels \subseteq {"string"}
                  /\ \A i \in 1..Len(c.expressions) : c.expressions[i] \subseteq {"string"}

Good(c) == c.loads /\ checkNamespaceSelectorConfig(c) /\ c.sink # "other"

Found(configs) == IF settled THEN {c \in configs : Good(c)} ELSE configs

\* One call of a scraper's set-up: a request, or a lister whose factory is
\* started and waited for.
Call(scraper, what) == [scraper |-> scraper, what |-> what]
Requests == {"restConfig", "version"}
Listers == {"nodes", "endpointSlices", "services", "secrets", "pods", "namespaces"}

\* NewNamespaceFilter, of the kubelet's and of KSM's set-up.
Filter(c, scraper) == IF c.selector THEN <<Call(scraper, "namespaces")>> ELSE <<>>

NewKubeletScraper == <<Call("kubelet", "version"), Call("kubelet", "nodes")>>
NewKSMScraper == <<Call("ksm", "version"), Call("ksm", "endpointSlices"), Call("ksm", "services")>>
\* (It has a lister for each namespace; one of each kind stands for them.)
NewControlPlaneScraper ==
    <<Call("controlPlane", "version"), Call("controlPlane", "secrets"), Call("controlPlane", "pods")>>

setupKubelet(c) == Filter(c, "kubelet") \o NewKubeletScraper
setupKSM(c) == Filter(c, "ksm") \o NewKSMScraper
setupControlPlane(c) == <<Call("controlPlane", "restConfig")>> \o NewControlPlaneScraper

If(c, scraper, setup) == IF scraper \in c.scrapers THEN setup ELSE <<>>

SetUpAll(c) ==
    If(c, "kubelet", setupKubelet(c)) \o If(c, "ksm", setupKSM(c))
    \o If(c, "controlPlane", setupControlPlane(c))

Reachable == bundle /\ "proxy" \in reach

ProcessInit(c) ==
    /\ stage = "config" /\ config = c /\ calls = <<>> /\ synced = {}

\* Nobody looks at the kubelet before Connect: how it is found is chosen then.
StartUpInit ==
    /\ Init /\ reach = {} /\ bundle = FALSE /\ CloudInit
    /\ settled = FALSE /\ ids = {} /\ \E c \in Configs : ProcessInit(c)

-----------------------------------------------------------------------------
Go(next) == stage' = next /\ UNCHANGED <<vars, cloudVars, config, calls, synced, settled, ids>>
Exit == Go("exit")

LoadConfig ==
    /\ stage = "config"
    /\ Go(IF config.loads /\ checkNamespaceSelectorConfig(config) THEN "sink" ELSE "exit")

\* NewWrapper, with the probe of the agent (AgentSink) and the certificates.
OpenSink ==
    /\ stage = "sink"
    /\ \/ config.sink # "other" /\ Go("clients")
       \/ config.sink = "other" /\ Exit
       \/ config.sink = "http" /\ ~settled /\ Exit

\* buildClients: the API server's client, then the kubelet's.
BuildClients ==
    /\ stage = "clients"
    /\ \/ "kubelet" \notin config.scrapers /\ Go("cloud")
       \/ /\ "kubelet" \in config.scrapers
          /\ stage' = "connect" /\ reach' \in SUBSET Ways /\ bundle' \in BOOLEAN
          /\ (settled => Reachable') /\ early' = EarlyAfter(reach', bundle')
          /\ UNCHANGED <<pc, port, now, elapsed, conn, steady>>
          /\ UNCHANGED <<cloudVars, config, calls, synced, settled, ids>>
       \/ ~settled /\ Exit

Connecting ==
    /\ stage = "connect"
    /\ Connect /\ (settled => ~getPortFails)
    /\ UNCHANGED <<cloudVars, mainVars>>

\* Connect returns and its variables are gone.
Connected ==
    /\ stage = "connect" /\ pc \in {"connected", "error"}
    /\ stage' = IF pc = "connected" THEN "cloud" ELSE "exit"
    /\ port' = "unset" /\ now' = 0 /\ elapsed' = 0 /\ steady' = {}
    /\ reach' = {} /\ bundle' = FALSE /\ early' = {}
    /\ UNCHANGED <<pc, conn, cloudVars, config, calls, synced, settled, ids>>

\* Mutant of Detecting: a failure of the cloud ends the process.
DetectingFatal ==
    /\ stage = "cloud"
    /\ \/ config.detect /\ (GetNode \/ Query \/ RetryQuery \/ Assemble) /\ stage' = stage
       \/ ~config.detect /\ Disabled /\ stage' = stage
       \/ config.detect /\ QueryFails /\ stage' = "exit"
    /\ UNCHANGED <<vars, config, calls, synced, settled, ids>>

\* detectCloudClusterID, whatever the cloud answers.
Detecting ==
    /\ stage = "cloud"
    /\ \/ config.detect /\ (GetNode \/ Query \/ RetryQuery \/ QueryFails \/ Assemble)
       \/ ~config.detect /\ Disabled
    /\ UNCHANGED <<vars, mainVars>>

Detected ==
    /\ stage = "cloud" /\ cloudPC = "done"
    /\ stage' = "setup" /\ calls' = SetUpAll(config)
    /\ queries' = <<>> /\ failedTries' = 0 /\ facts' = {} /\ spent' = 0
    /\ UNCHANGED <<vars, cloudPC, providerID, cloudID, config, synced, settled, ids>>

\* A request of the set-up; an error ends the process.
Request ==
    /\ stage = "setup" /\ calls # <<>> /\ Head(calls).what \in Requests
    /\ \/ calls' = Tail(calls) /\ stage' = stage
       \/ ~settled /\ stage' = "exit" /\ calls' = calls
    /\ UNCHANGED <<vars, cloudVars, config, synced, settled, ids>>

\* factory.WaitForCacheSync: it ends when the objects were listed, only then.
WaitForCacheSync ==
    /\ stage = "setup" /\ calls # <<>> /\ Head(calls).what \in Listers
    /\ synced' = synced \cup {Head(calls)} /\ calls' = Tail(calls)
    /\ UNCHANGED <<vars, cloudVars, stage, config, settled, ids>>

StartLoop ==
    /\ stage = "setup" /\ calls = <<>>
    /\ stage' = "running" /\ ids' = ids \cup ({cloudID} \ {NoID})
    /\ UNCHANGED <<vars, cloudVars, config, calls, synced, settled>>

\* The loop ends with a fatal error (ScrapeLoop).
LoopExits == stage = "running" /\ Exit

\* Kubernetes restarts the container; its configuration may have been edited.
Restart ==
    /\ stage = "exit"
    /\ stage' = "config" /\ config' \in Found(Configs) /\ calls' = <<>> /\ synced' = {}
    /\ pc' = "port" /\ port' = "unset" /\ now' = 0 /\ elapsed' = 0 /\ conn' = "none" /\ steady' = {}
    /\ cloudPC' = "node" /\ queries' = <<>> /\ failedTries' = 0 /\ facts' = {} /\ spent' = 0 /\ cloudID' = NoID
    /\ UNCHANGED <<env, providerID, settled, ids>>

\* What the connector meets while it works.
KubeletChanges ==
    /\ stage = "connect"
    /\ Environment /\ (settled => Reachable')
    /\ UNCHANGED <<cloudVars, mainVars>>

Settle ==
    /\ ~settled /\ settled' = TRUE
    /\ IF stage = "connect"
       THEN bundle' = TRUE /\ reach' = reach \cup {"proxy"} /\ early' = EarlyAfter(reach', bundle')
       ELSE UNCHANGED env
    /\ UNCHANGED <<pc, port, now, elapsed, conn, steady, cloudVars, stage, config, calls, synced, ids>>

Main ==
    \/ LoadConfig \/ OpenSink \/ BuildClients \/ Connecting \/ Connected
    \/ Detecting \/ Detected \/ Request \/ StartLoop \/ Restart

StartUpNext == Main \/ WaitForCacheSync \/ LoopExits \/ KubeletChanges \/ Settle

StartUpSpec == StartUpInit /\ [][StartUpNext]_startVars

\* The process runs and is restarted.  Nothing bounds the wait for a store: it
\* is fair only once the API server lets the objects be listed.
FairStartUp ==
    /\ StartUpSpec
    /\ WF_startVars(Main) /\ WF_startVars(settled /\ WaitForCacheSync)

-----------------------------------------------------------------------------
(* Properties *)

\* Once the world has settled, the loop is reached, whatever the cloud's
\* metadata service does and however start-up failed before: nothing that went
\* wrong earlier, nor a query that fails every time, keeps the integration
\* from starting.
EventuallyStarts == settled ~> (stage = "running")

\* What the scrapers' Run reads from listers, and their namespace filters.
RunReads ==
    {Call("kubelet", "nodes"), Call("ksm", "endpointSlices"), Call("ksm", "services"),
     Call("controlPlane", "secrets"), Call("controlPlane", "pods")}
FilterReads == {Call("kubelet", "namespaces"), Call("ksm", "namespaces")}

Reads(c) ==
    {r \in RunReads \cup (IF c.selector THEN FilterReads ELSE {}) : r.scraper \in c.scrapers}

\* The loop runs only with what it takes for granted: a kubelet client that is
\* connected, listers whose stores are filled, and a selector of strings, which
\* the namespace filter would otherwise widen without a word ("This should
\* never happen as each expression value type is checked when loading the
\* config").
LoopIsReady ==
    stage = "running" =>
        /\ "kubelet" \in config.scrapers => conn # "none"
        /\ Reads(config) \subseteq synced
        /\ config.selector =>
              UNION ({config.labels} \cup {config.expressions[i] : i \in 1..Len(config.expressions)})
                  \subseteq {"string"}

\* The parts of a cluster's resource id at each cloud.
IDParts ==
    [gce |-> {"project", "location", "name"},
     aws |-> {"region", "account", "name"},
     azure |-> {"subscription", "group", "name"}]

\* Detecting the cloud is best effort.  However many of its requests are slow,
\* fail and are made again, it overruns its timeout by no more than one pause
\* between two attempts; and an id that is reported has all its parts, although
\* any of them may come back empty, and is the same in every process.
CloudIsBestEffort ==
    /\ spent <= CloudTimeout + QueryBackoff
    /\ \A i \in ids : i.facts = IDParts[i.cloud]
    /\ \A i, j \in ids : i = j
=============================================================================
