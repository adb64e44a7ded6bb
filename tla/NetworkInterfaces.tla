-------------------------- MODULE NetworkInterfaces --------------------------
(***************************************************************************)
(* Which network interface a node's or pod's metrics are read from:        *)
(* FromRawWithFallbackToDefaultInterface and the InterfaceCache, which     *)
(* outlives the scrape and is vacuumed every VacuumInterval scrapes.       *)
(*                                                                         *)
(* Interfaces come and go between scrapes, and an interface reports only   *)
(* the metrics whose counters the kubelet has.                             *)
(***************************************************************************)
EXTENDS Naturals, Sequences, FiniteSetsExt

CONSTANTS Nodes, Pods,     \* entities
          Names,           \* interface names, in the byte order sort.Strings uses
          Physical,        \* those that match the physical pattern and no CNI one
          Metrics,         \* the metric keys, in the order of the specs
          EntityStats,     \* what the kubelet may report of an entity
          Populations,     \* the sets of entities a node agent may meet
          RouteFiles,      \* what NetworkRouteFile may name
          VacuumInterval,
          NoIface

Entities == Nodes \cup Pods
Keys == {Metrics[k] : k \in 1..Len(Metrics)}
Interfaces == {Names[k] : k \in 1..Len(Names)}

\* What the second field of a line is; "bad": no hexadecimal number.
Destinations == {"zero", "other", "bad", "missing"}

ASSUME NetworkAssumption ==
    /\ Physical \subseteq Interfaces
    /\ \A none \in {NoIface, "none", "top", "error"} : none \notin Interfaces
    /\ Names \in Seq(Interfaces) /\ Metrics \in Seq(Keys)
    /\ \A s \in EntityStats :
        /\ s.top \subseteq Keys
        /\ DOMAIN s.interfaces \subseteq Interfaces
        /\ \A i \in DOMAIN s.interfaces : s.interfaces[i] \subseteq Keys
    /\ Populations \subseteq SUBSET Entities
    /\ RouteFiles \subseteq [allowed : BOOLEAN, readable : BOOLEAN,
                              lines : Seq([iface : Interfaces \cup {NoIface}, destination : Destinations])]
    /\ VacuumInterval \in Nat \ {0}

VARIABLES routeFile,  \* the node's routing table
          default,    \* its default interface, read once by NewScraper
          population, \* the entities there are
          cache,      \* InterfaceCache
          count,      \* scrapeCount % VacuumInterval
          stats,      \* the current scrape's raw metrics
          pending,    \* entities still to populate
          at, k,      \* entity being populated (or "none"), its next metric
          source      \* where this scrape's metrics of `at` came from

netVars == <<routeFile, default, population, cache, count, stats, pending, at, k, source>>

EmptyCache == [e \in Entities |-> NoIface]
NoSource == [m \in Keys |-> "none"]

\* The interface of the first default route; a line before it that cannot be
\* read is an error, and NewScraper goes on without a default.
FirstDefault(rows) ==
    LET I == {n \in 1..Len(rows) : rows[n].destination # "other"} IN
    IF I # {} /\ rows[Min(I)].destination = "zero" THEN rows[Min(I)].iface ELSE NoIface

\* Mutant of findDefaultInterface: the header is read as a route.
findDefaultInterfaceHeader(lines) == FirstDefault(lines)

findDefaultInterface(lines) == IF lines = <<>> THEN NoIface ELSE FirstDefault(Tail(lines))

DefaultInterface(file) ==
    IF file.allowed /\ file.readable THEN findDefaultInterface(file.lines) ELSE NoIface

\* getMetricFromInterface succeeds.
HasMetric(i, m, s) == i \in DOMAIN s.interfaces /\ m \in s.interfaces[i]

\* Every interface has every metric that is not reported at the top level.
Complete(s) == \A i \in DOMAIN s.interfaces : Keys \ s.top \subseteq s.interfaces[i]

NetInit ==
    /\ routeFile \in RouteFiles /\ default = DefaultInterface(routeFile)
    /\ population \in Populations
    /\ cache = EmptyCache /\ count = 0
    /\ stats \in [population -> EntityStats] /\ pending = {} /\ at = "none" /\ k = 1
    /\ source = NoSource

-----------------------------------------------------------------------------
\* A scrape's groups: new stats for the entities that are there.
Scrape ==
    /\ at = "none" /\ pending = {}
    /\ stats' \in [population -> EntityStats]
    /\ pending' \in SUBSET population \ {{}}
    /\ UNCHANGED <<routeFile, default, population, cache, count, at, k, source>>

PopulateEntity(e) ==
    /\ at = "none" /\ e \in pending
    /\ at' = e /\ k' = 1 /\ source' = NoSource
    /\ UNCHANGED <<routeFile, default, population, cache, count, stats, pending>>

Fetching == at # "none" /\ k <= Len(Metrics)
Metric == Metrics[k]
Raw == stats[at]

FetchTopLevel ==
    /\ Fetching /\ Metric \in Raw.top
    /\ source' = [source EXCEPT ![Metric] = "top"] /\ k' = k + 1
    /\ UNCHANGED <<routeFile, default, population, cache, count, stats, pending, at>>

\* tryCache: the cached interface still has the metric.
TryCache ==
    /\ Fetching /\ Metric \notin Raw.top
    /\ cache[at] # NoIface /\ HasMetric(cache[at], Metric, Raw)
    /\ source' = [source EXCEPT ![Metric] = cache[at]] /\ k' = k + 1
    /\ UNCHANGED <<routeFile, default, population, cache, count, stats, pending, at>>

CacheMisses ==
    /\ Fetching /\ Metric \notin Raw.top
    /\ cache[at] # NoIface => ~HasMetric(cache[at], Metric, Raw)

\* tryRoutingTable, for nodes only.
RoutingTableHas == at \in Nodes /\ default # NoIface /\ HasMetric(default, Metric, Raw)

\* selectPrimaryInterface: the first in byte order of the physical ones.
Candidates(s) == Physical \cap DOMAIN s.interfaces
selectPrimaryInterface(s) ==
    IF Candidates(s) = {} THEN NoIface
    ELSE Names[Min({n \in 1..Len(Names) : Names[n] \in Candidates(s)})]

resolveInterface == IF RoutingTableHas THEN default ELSE selectPrimaryInterface(Raw)

\* Mutant of Resolve: the interface found is not remembered.
ResolveForgets ==
    /\ CacheMisses /\ resolveInterface # NoIface
    /\ source' = [source EXCEPT ![Metric] = IF HasMetric(resolveInterface, Metric, Raw)
                                            THEN resolveInterface ELSE "error"]
    /\ k' = k + 1
    /\ UNCHANGED <<routeFile, default, population, cache, count, stats, pending, at>>

\* The interface found is cached before its metric is looked up, which fails
\* if the heuristic's interface does not have it.
Resolve ==
    /\ CacheMisses /\ resolveInterface # NoIface
    /\ cache' = [cache EXCEPT ![at] = resolveInterface]
    /\ source' = [source EXCEPT ![Metric] = IF HasMetric(resolveInterface, Metric, Raw)
                                            THEN resolveInterface ELSE "error"]
    /\ k' = k + 1
    /\ UNCHANGED <<routeFile, default, population, count, stats, pending, at>>

\* No interface at all: an error for this metric, nothing cached.
ResolveFails ==
    /\ CacheMisses /\ resolveInterface = NoIface
    /\ source' = [source EXCEPT ![Metric] = "error"] /\ k' = k + 1
    /\ UNCHANGED <<routeFile, default, population, cache, count, stats, pending, at>>

\* scrapeCount%interfaceCacheVacuumInterval == 0, after this scrape.
VacuumDue == count + 1 = VacuumInterval

\* The metrics of an entity are set; after the last entity the scrape ends, and
\* on every VacuumInterval-th scrape main vacuums the cache.
EntityDone ==
    /\ at # "none" /\ k > Len(Metrics)
    /\ pending' = pending \ {at} /\ at' = "none"
    /\ count' = IF pending' # {} THEN count ELSE IF VacuumDue THEN 0 ELSE count + 1
    /\ cache' = IF pending' = {} /\ VacuumDue THEN EmptyCache ELSE cache
    /\ UNCHANGED <<routeFile, default, population, stats, k, source>>

\* One metric: FromRawWithFallbackToDefaultInterface.
FetchMetric == FetchTopLevel \/ TryCache \/ Resolve \/ ResolveFails
=============================================================================
