----------------------------- MODULE RateMetrics -----------------------------
(***************************************************************************)
(* The network rates of a node or pod over many scrapes: where each        *)
(* reading comes from (NetworkInterfaces) and what the SDK subtracts it    *)
(* from (Storer).  The key of a stored reading names the entity and the    *)
(* metric, not the interface, so the two caches decide together whether a  *)
(* rate is a difference of like readings.                                  *)
(*                                                                         *)
(* The SDK's metric.Set is external: for a RATE it calls Get, takes a      *)
(* missing entry for a first sample, and calls Set.                        *)
(***************************************************************************)
EXTENDS NetworkInterfaces, Storer

ASSUME RateAssumption ==
    /\ StoreKeys = Entities \X Keys
    /\ Values = Interfaces \cup {"top"}

VARIABLES pc,         \* "fetch" a value, or "get" and "set" its baseline
          base,       \* the baseline that was found
          steady      \* history: keys set since the vacuum, with complete stats since

vars == <<netVars, storeVars, pc, base, steady>>

Init == NetInit /\ StoreInit /\ pc = "fetch" /\ base = NoEntry /\ steady = {}

\* The metric fetched last, and its key.
Fetched == Metrics[k - 1]
Key == <<at, Fetched>>

-----------------------------------------------------------------------------
BeginScrape ==
    /\ Scrape
    /\ steady' = {key \in steady : key[1] \in pending' => Complete(stats'[key[1]])}
    /\ UNCHANGED <<storeVars, pc, base>>

BeginEntity == \E e \in Entities : PopulateEntity(e) /\ UNCHANGED <<storeVars, pc, base, steady>>

\* A value that cannot be fetched is not set.
Fetch ==
    /\ pc = "fetch" /\ FetchMetric
    /\ pc' = IF source'[Metric] = "error" THEN "fetch" ELSE "get"
    /\ UNCHANGED <<storeVars, base, steady>>

GetBaseline ==
    /\ pc = "get"
    /\ base' = Get(Key) /\ pc' = "set"
    /\ UNCHANGED <<netVars, storeVars, steady>>

SetBaseline ==
    /\ pc = "set"
    /\ Set(Key, source[Fetched])
    /\ steady' = IF Complete(Raw) THEN steady \cup {Key} ELSE steady
    /\ pc' = "fetch" /\ base' = NoEntry
    /\ UNCHANGED netVars

FinishEntity ==
    /\ pc = "fetch" /\ EntityDone
    /\ steady' = IF pending' = {} /\ VacuumDue THEN {} ELSE steady
    /\ UNCHANGED <<storeVars, pc, base>>

\* The store's goroutine, at any time.
StoreGoroutine == StoreVacuum /\ UNCHANGED <<netVars, pc, base, steady>>

\* Populating is local work; time passes between scrapes.
TimePasses == at = "none" /\ pending = {} /\ Tick /\ UNCHANGED <<netVars, pc, base, steady>>

Populate == BeginEntity \/ Fetch \/ GetBaseline \/ SetBaseline \/ FinishEntity

Next == BeginScrape \/ Populate \/ StoreGoroutine \/ TimePasses

Spec == Init /\ [][Next]_vars

\* The main loop goes on scraping, and populating a scrape is local work.
FairSpec == Spec /\ WF_vars(Populate) /\ WF_vars(BeginScrape)

-----------------------------------------------------------------------------
(* Properties *)

\* The source still gives the metric: the top level goes before any interface.
Gives(src, m, s) == IF src = "top" THEN m \in s.top ELSE m \notin s.top /\ HasMetric(src, m, s)

\* A rate makes sense only between two readings of one source, and an entity's
\* rates only if they are of one interface, although the store's keys do not
\* name it.  A rate's readings are of one source from scrape to scrape,
\* whatever the store has dropped, with four exceptions: the interface cache was
\* vacuumed, an interface lacked a metric, the interface is gone from the stats,
\* or the metric has moved between an interface and the top level (then the
\* difference of the two is reported).  And within a scrape all the metrics of
\* an entity that are not top-level ones come from one interface, unless an
\* interface lacks one.
RatesOfOneInterface ==
    /\ pc = "set" /\ base # NoEntry /\ Key \in steady /\ Gives(base.value, Fetched, Raw)
         => source[Fetched] = base.value
    /\ at # "none" /\ Complete(Raw) =>
         \A l, m \in Keys : {source[l], source[m]} \subseteq Interfaces => source[l] = source[m]

\* A reading taken no longer than the TTL ago is always there to be subtracted,
\* although the vacuum may come between any Get and Set.
BaselineKept == pc = "set" /\ sinceSet[Key] <= TTL => base # NoEntry

\* A rate is never taken over more than the TTL and one interval of the vacuum,
\* however long the entity was away.
BaselineNotStale == pc = "set" /\ base # NoEntry => sinceSet[Key] <= TTL + Interval

\* The interface of the default routes of a table that can be read.
Route ==
    LET lines == routeFile.lines
        ifaces == {lines[n].iface : n \in {l \in 2..Len(lines) : lines[l].destination = "zero"}}
    IN  IF /\ routeFile.allowed /\ routeFile.readable /\ Cardinality(ifaces) = 1
           /\ \A n \in 2..Len(lines) : lines[n].destination \in {"zero", "other"}
        THEN CHOOSE i \in ifaces : TRUE ELSE NoIface

\* Whatever the cache held before, once a node's stats stay complete and have
\* the interface of the routing table's default route, the vacuum makes all its
\* readings come from that interface for good.
SettlesOnRoute ==
    \A n \in Nodes :
        <>[](n \in population /\ Route \in DOMAIN stats[n].interfaces /\ Complete(stats[n]))
            => <>[](at = n => \A m \in Keys : source[m] \in {"none", "top", Route})
=============================================================================
