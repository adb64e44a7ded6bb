-------------------------- MODULE RateMetricsProofs --------------------------
(***************************************************************************)
(* Rates are taken between readings of one interface and over a bounded    *)
(* time, for any entities, interfaces, metrics, reports of the kubelet,    *)
(* routing tables, TTL and vacuum intervals.                               *)
(***************************************************************************)
EXTENDS RateMetrics, WellFoundedInduction, TLAPS

Entries == [value : Values, age : Nat]

NetTyped ==
    /\ population \subseteq Entities /\ pending \subseteq population
    /\ cache \in [Entities -> Interfaces \cup {NoIface}]
    /\ stats \in [population -> EntityStats]
    /\ at = "none" \/ at \in pending
    /\ k \in 1..(Len(Metrics) + 1)
    /\ source \in [Keys -> Interfaces \cup {"none", "top", "error"}]
    /\ \A n \in 1..(k - 1) : source[Metrics[n]] # "none"

StoreTyped ==
    /\ cachedData \in [StoreKeys -> Entries \cup {NoEntry}]
    /\ ticker \in 1..Interval /\ due \in BOOLEAN
    /\ sinceSet \in [StoreKeys -> 0..Ancient]

\* How old an entry can be: the last vacuum left none older than the TTL.
OldestAge == IF due THEN TTL + Interval ELSE TTL + (Interval - ticker)

\* An entry is as old as the reading in it; a reading without one is too old.
Aged(entry, since) ==
    IF entry = NoEntry THEN since > TTL
    ELSE entry \in Entries /\ entry.age = since

StoreAged ==
    /\ due => ticker = Interval
    /\ \A key \in StoreKeys :
        /\ Aged(cachedData[key], sinceSet[key])
        /\ cachedData[key] # NoEntry => cachedData[key].age <= OldestAge

\* Between Get and Set the clock stands still.
BaseAged ==
    /\ pc \in {"fetch", "get", "set"}
    /\ pc # "fetch" => at # "none" /\ k > 1 /\ source[Fetched] \in Values
    /\ pc = "set" => /\ Aged(base, sinceSet[Key])
                     /\ base # NoEntry => base.age <= TTL + Interval

TimeInv == NetTyped /\ StoreTyped /\ StoreAged /\ BaseAged

-----------------------------------------------------------------------------
\* No interface can be resolved for any metric of the entity.
Unresolvable ==
    /\ Candidates(Raw) = {}
    /\ ~(at \in Nodes /\ default # NoIface /\ default \in DOMAIN Raw.interfaces)

\* With complete stats an entity's metrics come from one interface, the cached
\* one, or from none.
OneSource ==
    at # "none" /\ Complete(Raw) =>
        \A m \in Keys : source[m] # "none" =>
            IF m \in Raw.top THEN source[m] = "top"
            ELSE \/ source[m] = cache[at] /\ cache[at] \in DOMAIN Raw.interfaces
                 \/ source[m] = "error" /\ cache[at] \notin DOMAIN Raw.interfaces /\ Unresolvable

\* The metric is still to be fetched, or to be set.
Open(m) == source[m] = "none" \/ (pc # "fetch" /\ m = Fetched)

\* What was fetched and set in this scrape is in the store.
SourceStored ==
    at # "none" => \A m \in Keys :
        ~Open(m) /\ source[m] # "error" /\ cachedData[<<at, m>>] # NoEntry
            => cachedData[<<at, m>>].value = source[m]

\* A steady key's entry is of the cached interface; or that interface has gone,
\* another is cached and the metric is about to be read from it.
SteadyCached ==
    \A key \in steady :
        LET entry == cachedData[key] IN
        entry # NoEntry /\ entry.value # "top" =>
            \/ entry.value = cache[key[1]]
            \/ /\ at # "none" /\ at = key[1] /\ Open(key[2])
               /\ entry.value \notin DOMAIN Raw.interfaces
               /\ cache[at] \in DOMAIN Raw.interfaces

SteadyComplete ==
    /\ steady \subseteq StoreKeys
    /\ \A key \in steady : key[1] \in pending => Complete(stats[key[1]])

BaseSteady ==
    pc = "set" /\ base # NoEntry /\ Key \in steady =>
        base.value \in {"top", cache[at]} \/ base.value \notin DOMAIN Raw.interfaces

RateInv ==
    /\ TimeInv /\ OneSource /\ SourceStored /\ SteadyCached /\ SteadyComplete /\ BaseSteady

-----------------------------------------------------------------------------
(* The interface selected *)

LEMMA LeastNat ==
  ASSUME NEW T \in SUBSET Nat, T # {}
  PROVE  \E x \in T : \A y \in T : x <= y
<1> DEFINE R == OpToRel(<, Nat)
<1>1. IsWellFoundedOn(R, Nat)
  BY NatLessThanWellFounded
<1> HIDE DEF R
<1>2. PICK x \in T : \A y \in T : ~(<<y, x>> \in R)
  BY <1>1, WFMin
<1>3. \A y \in T : <<y, x>> \in R <=> y < x
  BY DEF R, OpToRel
<1>4. \A y \in T : x \in Nat /\ y \in Nat /\ ~(y < x)
  BY <1>2, <1>3
<1>5. \A y \in T : x <= y
  BY <1>4
<1> QED
  BY <1>5

\* The heuristic selects a candidate if there is one.
LEMMA PrimaryFound ==
  ASSUME NEW s
  PROVE  IF Candidates(s) = {} THEN selectPrimaryInterface(s) = NoIface
         ELSE selectPrimaryInterface(s) \in Candidates(s)
<1> SUFFICES ASSUME Candidates(s) # {} PROVE selectPrimaryInterface(s) \in Candidates(s)
  BY DEF selectPrimaryInterface
<1> DEFINE I == {i \in 1..Len(Names) : Names[i] \in Candidates(s)}
<1>1. I # {}
  BY NetworkAssumption DEF Candidates, Interfaces
<1>2. I \in SUBSET Nat
  BY NetworkAssumption
<1>3. selectPrimaryInterface(s) = Names[Min(I)]
  BY <1>1 DEF selectPrimaryInterface
<1>4. Min(I) \in I
  <2> HIDE DEF I
  <2>1. \E x \in I : \A y \in I : x <= y
    BY <1>1, <1>2, LeastNat
  <2> QED
    BY <2>1 DEF Min
<1> QED
  BY <1>3, <1>4

LEMMA AtFacts ==
  ASSUME NetTyped, at # "none"
  PROVE  /\ at \in Entities /\ at \in population /\ at \in pending /\ Raw \in EntityStats
         /\ DOMAIN Raw.interfaces \subseteq Interfaces
         /\ cache[at] \in Interfaces \cup {NoIface}
<1>1. at \in Entities /\ at \in population /\ at \in pending
  BY DEF NetTyped
<1>2. Raw \in EntityStats
  BY <1>1 DEF NetTyped, Raw
<1> QED
  BY <1>1, <1>2, NetworkAssumption DEF NetTyped

LEMMA KeyFacts ==
  /\ Len(Metrics) \in Nat
  /\ \A n \in 1..Len(Metrics) : Metrics[n] \in Keys
  /\ \A m \in Keys : \E n \in 1..Len(Metrics) : Metrics[n] = m
BY NetworkAssumption DEF Keys

\* The interface resolved is one that is reported.
LEMMA Resolved ==
  ASSUME NetTyped, at # "none", resolveInterface # NoIface
  PROVE  /\ resolveInterface \in DOMAIN Raw.interfaces
         /\ resolveInterface \in Interfaces
<1>1. CASE RoutingTableHas
  BY <1>1, AtFacts DEF resolveInterface, RoutingTableHas, HasMetric
<1>2. CASE ~RoutingTableHas
  BY <1>2, AtFacts, PrimaryFound DEF resolveInterface, Candidates
<1> QED
  BY <1>1, <1>2

\* What fetching a metric does.
LEMMA FetchFacts ==
  ASSUME NetTyped, FetchMetric
  PROVE  /\ Fetching /\ Metric \in Keys /\ k' = k + 1
         /\ UNCHANGED <<routeFile, default, population, count, stats, pending, at>>
         /\ \E v \in Interfaces \cup {"top", "error"} : source' = [source EXCEPT ![Metric] = v]
         /\ source'[Metric] \in Interfaces \cup {"top", "error"}
         /\ cache' \in [Entities -> Interfaces \cup {NoIface}]
<1>1. Fetching /\ Metric \in Keys /\ at # "none"
  BY KeyFacts DEF FetchMetric, FetchTopLevel, TryCache, Resolve, ResolveFails, CacheMisses, Fetching, Metric, NetTyped
<1>2. /\ UNCHANGED <<routeFile, default, population, count, stats, pending, at>> /\ k' = k + 1
  BY DEF FetchMetric, FetchTopLevel, TryCache, Resolve, ResolveFails
<1>3. cache' \in [Entities -> Interfaces \cup {NoIface}]
  <2>1. CASE Resolve
    BY <1>1, <2>1, Resolved, AtFacts DEF Resolve, NetTyped
  <2>2. CASE FetchTopLevel \/ TryCache \/ ResolveFails
    BY <2>2 DEF FetchTopLevel, TryCache, ResolveFails, NetTyped
  <2> QED
    BY <2>1, <2>2 DEF FetchMetric
<1>4. \E v \in Interfaces \cup {"top", "error"} : source' = [source EXCEPT ![Metric] = v]
  <2>1. CASE Resolve
    BY <1>1, <2>1, Resolved DEF Resolve
  <2>2. CASE TryCache
    BY <1>1, <2>2, AtFacts DEF TryCache, HasMetric
  <2>3. CASE FetchTopLevel \/ ResolveFails
    BY <2>3 DEF FetchTopLevel, ResolveFails
  <2> QED
    BY <2>1, <2>2, <2>3 DEF FetchMetric
<1>5. source'[Metric] \in Interfaces \cup {"top", "error"}
  BY <1>1, <1>4 DEF NetTyped
<1> QED
  BY <1>1, <1>2, <1>3, <1>4, <1>5

-----------------------------------------------------------------------------
(* Types *)

LEMMA FetchTyped == ASSUME NetTyped, FetchMetric PROVE NetTyped'
<1>1. k \in 1..Len(Metrics) /\ Len(Metrics) \in Nat /\ k' = k + 1
  BY FetchFacts, KeyFacts DEF NetTyped, Fetching
<1>2. PICK v \in Interfaces \cup {"top", "error"} : source' = [source EXCEPT ![Metric] = v]
  BY FetchFacts
<1>3. source' \in [Keys -> Interfaces \cup {"none", "top", "error"}]
  BY <1>2 DEF NetTyped
<1>4. \A n \in 1..(k' - 1) : source'[Metrics[n]] # "none"
  <2> SUFFICES ASSUME NEW n \in 1..k PROVE source'[Metrics[n]] # "none"
    BY <1>1
  <2>1. Metrics[n] \in Keys
    BY <1>1, KeyFacts
  <2>2. v # "none"
    BY NetworkAssumption
  <2>3. CASE Metrics[n] = Metric
    BY <1>2, <2>1, <2>2, <2>3 DEF NetTyped
  <2>4. CASE Metrics[n] # Metric
    <3>1. n \in 1..(k - 1)
      BY <1>1, <2>4 DEF Metric
    <3>2. source'[Metrics[n]] = source[Metrics[n]]
      BY <1>2, <2>1, <2>4 DEF NetTyped
    <3> QED
      BY <3>1, <3>2 DEF NetTyped
  <2> QED
    BY <2>3, <2>4
<1>5. UNCHANGED <<population, stats, pending, at>> /\ cache' \in [Entities -> Interfaces \cup {NoIface}]
  BY FetchFacts
<1>6. k' \in 1..(Len(Metrics) + 1)
  BY <1>1
<1> QED
  BY <1>3, <1>4, <1>5, <1>6 DEF NetTyped

LEMMA NetKept ==
  ASSUME NetTyped, UNCHANGED netVars
  PROVE  NetTyped'
BY DEF NetTyped, netVars

LEMMA ScrapeTyped == ASSUME NetTyped, Scrape PROVE NetTyped'
BY DEF NetTyped, Scrape

LEMMA PopulateTyped == ASSUME NetTyped, NEW e, PopulateEntity(e) PROVE NetTyped'
<1>1. 1 \in 1..(Len(Metrics) + 1) /\ 1..(1 - 1) = {}
  BY KeyFacts
<1>2. NoSource \in [Keys -> Interfaces \cup {"none", "top", "error"}]
  BY DEF NoSource
<1> QED
  BY <1>1, <1>2 DEF NetTyped, PopulateEntity

LEMMA DoneTyped == ASSUME NetTyped, EntityDone PROVE NetTyped'
<1>1. EmptyCache \in [Entities -> Interfaces \cup {NoIface}]
  BY DEF EmptyCache
<1> QED
  BY <1>1 DEF NetTyped, EntityDone

LEMMA KeyIn ==
  ASSUME NetTyped, at # "none", k > 1
  PROVE  Fetched \in Keys /\ Key \in StoreKeys /\ Key[1] = at /\ Key[2] = Fetched
<1>1. k - 1 \in 1..Len(Metrics)
  BY KeyFacts DEF NetTyped
<1>2. Fetched \in Keys
  BY <1>1, KeyFacts DEF Fetched
<1> QED
  BY <1>2, AtFacts, RateAssumption DEF Key

-----------------------------------------------------------------------------
(* Ages *)

LEMMA EntryFacts ==
  ASSUME NEW entry \in Entries
  PROVE  entry # NoEntry /\ entry.age \in Nat /\ entry.value \in Values
BY StorerAssumption DEF Entries

LEMMA OldestNat ==
  ASSUME StoreTyped
  PROVE  OldestAge \in Nat /\ OldestAge <= TTL + Interval
<1>1. ticker \in Nat /\ ticker >= 1 /\ ticker <= Interval /\ TTL \in Nat /\ Interval \in Nat
  BY StorerAssumption DEF StoreTyped
<1> QED
  BY <1>1 DEF OldestAge

LEMMA StoreKept ==
  ASSUME StoreTyped, StoreAged, UNCHANGED storeVars
  PROVE  StoreTyped' /\ StoreAged'
BY DEF StoreTyped, StoreAged, storeVars, OldestAge, Aged

LEMMA SetStore ==
  ASSUME StoreTyped, StoreAged, NEW key \in StoreKeys, NEW v \in Values, Set(key, v)
  PROVE  /\ StoreTyped' /\ StoreAged'
         /\ cachedData'[key].value = v
         /\ \A other \in StoreKeys \ {key} : cachedData'[other] = cachedData[other]
<1> DEFINE new == [value |-> v, age |-> 0]
<1>1. /\ cachedData' = [cachedData EXCEPT ![key] = new]
      /\ sinceSet' = [sinceSet EXCEPT ![key] = 0]
      /\ UNCHANGED <<ticker, due>>
  BY DEF Set
<1>2. new \in Entries /\ new.value = v /\ new.age = 0
  BY DEF Entries
<1> HIDE DEF new
<1>3. 0 \in 0..Ancient
  BY StorerAssumption DEF Ancient
<1>4. /\ cachedData'[key] = new /\ sinceSet'[key] = 0
      /\ \A other \in StoreKeys \ {key} :
            cachedData'[other] = cachedData[other] /\ sinceSet'[other] = sinceSet[other]
  BY <1>1 DEF StoreTyped
<1>5. StoreTyped'
  BY <1>1, <1>2, <1>3 DEF StoreTyped
<1>6. OldestAge' = OldestAge /\ 0 <= OldestAge
  BY <1>1, OldestNat DEF OldestAge
<1>7. StoreAged'
  <2> SUFFICES ASSUME NEW o \in StoreKeys
               PROVE  /\ Aged(cachedData'[o], sinceSet'[o])
                      /\ cachedData'[o] # NoEntry => cachedData'[o].age <= OldestAge
    BY <1>1, <1>6 DEF StoreAged
  <2>1. CASE o = key
    BY <1>2, <1>4, <1>6, <2>1, EntryFacts DEF Aged
  <2>2. CASE o # key
    BY <1>4, <2>2 DEF StoreAged
  <2> QED
    BY <2>1, <2>2
<1> QED
  BY <1>2, <1>4, <1>5, <1>7

\* The vacuum drops what is older than the TTL, and nothing else.
LEMMA VacuumStore ==
  ASSUME StoreTyped, StoreAged, StoreVacuum
  PROVE  /\ StoreTyped' /\ StoreAged' /\ sinceSet' = sinceSet
         /\ \A key \in StoreKeys : cachedData'[key] \in {NoEntry, cachedData[key]}
<1>1. /\ due = TRUE /\ due' = FALSE /\ UNCHANGED <<ticker, sinceSet>>
      /\ cachedData' = [key \in StoreKeys |-> IF Expired(cachedData[key]) THEN NoEntry ELSE cachedData[key]]
  BY DEF StoreVacuum, StoreTyped
<1>2. StoreTyped'
  BY <1>1 DEF StoreTyped
<1>3. ticker = Interval /\ OldestAge' = TTL
  BY <1>1, StorerAssumption DEF StoreAged, OldestAge
<1>4. StoreAged'
  <2> SUFFICES ASSUME NEW o \in StoreKeys
               PROVE  /\ Aged(cachedData'[o], sinceSet[o])
                      /\ cachedData'[o] # NoEntry => cachedData'[o].age <= TTL
    BY <1>1, <1>3 DEF StoreAged
  <2>1. Aged(cachedData[o], sinceSet[o])
    BY DEF StoreAged
  <2>2. CASE Expired(cachedData[o])
    BY <1>1, <2>1, <2>2 DEF Expired, Aged
  <2>3. CASE ~Expired(cachedData[o])
    <3>1. cachedData'[o] = cachedData[o]
      BY <1>1, <2>3
    <3>2. cachedData[o] # NoEntry => cachedData[o].age \in Nat /\ ~(cachedData[o].age > TTL)
      BY <2>1, <2>3, EntryFacts DEF Expired, Aged
    <3> QED
      BY <2>1, <3>1, <3>2, StorerAssumption
  <2> QED
    BY <2>2, <2>3
<1> QED
  BY <1>1, <1>2, <1>4

\* Entries age with their readings; none gets older than the TTL and one
\* interval before the vacuum is due.
LEMMA TickStore ==
  ASSUME StoreTyped, StoreAged, Tick
  PROVE  /\ StoreTyped' /\ StoreAged'
         /\ \A key \in StoreKeys :
              cachedData'[key] = NoEntry \/ cachedData'[key].value = cachedData[key].value
         /\ \A key \in StoreKeys : cachedData'[key] = NoEntry <=> cachedData[key] = NoEntry
<1>1. /\ due = FALSE /\ due' = (ticker = 1) /\ ticker' = IF ticker = 1 THEN Interval ELSE ticker - 1
      /\ cachedData' = [key \in StoreKeys |->
                         IF cachedData[key] = NoEntry THEN NoEntry
                         ELSE [cachedData[key] EXCEPT !.age = @ + 1]]
      /\ sinceSet' = [key \in StoreKeys |-> IF sinceSet[key] = Ancient THEN Ancient ELSE sinceSet[key] + 1]
  BY DEF Tick, StoreTyped
<1>2. /\ ticker \in Nat /\ ticker >= 1 /\ ticker <= Interval /\ TTL \in Nat /\ Interval \in Nat
      /\ Interval >= 1 /\ Ancient \in Nat
  BY StorerAssumption DEF StoreTyped, Ancient
<1>3. ticker' \in 1..Interval /\ due' \in BOOLEAN /\ (due' => ticker' = Interval)
  <2>1. ticker' \in 1..Interval
    BY <1>1, <1>2
  <2>2. due' \in BOOLEAN /\ (due' => ticker = 1)
    BY <1>1, Zenon
  <2> QED
    BY <1>1, <2>1, <2>2
<1>4. OldestAge' = OldestAge + 1 /\ OldestAge \in Nat /\ OldestAge < TTL + Interval
  <2>1. OldestAge = TTL + (Interval - ticker)
    BY <1>1 DEF OldestAge
  <2>2. OldestAge' = IF ticker = 1 THEN TTL + Interval ELSE TTL + (Interval - ticker')
    BY <1>1 DEF OldestAge
  <2>3. ticker # 1 => ticker' = ticker - 1
    BY <1>1
  <2> QED
    BY <1>2, <2>1, <2>2, <2>3
<1>5. ASSUME NEW o \in StoreKeys
      PROVE  /\ cachedData'[o] \in Entries \cup {NoEntry}
             /\ cachedData'[o] = NoEntry <=> cachedData[o] = NoEntry
             /\ cachedData'[o] # NoEntry => cachedData'[o].value = cachedData[o].value
             /\ cachedData'[o] # NoEntry => cachedData'[o].age <= OldestAge + 1
             /\ Aged(cachedData'[o], sinceSet'[o])
             /\ sinceSet'[o] \in 0..Ancient
  <2>1. sinceSet[o] \in Nat /\ sinceSet[o] <= Ancient /\ Aged(cachedData[o], sinceSet[o])
    BY <1>2 DEF StoreTyped, StoreAged
  <2>2. sinceSet'[o] = IF sinceSet[o] = Ancient THEN Ancient ELSE sinceSet[o] + 1
    BY <1>1
  <2>3. sinceSet'[o] \in 0..Ancient
    BY <1>2, <2>1, <2>2
  <2>4. CASE cachedData[o] = NoEntry
    <3>1. cachedData'[o] = NoEntry
      BY <1>1, <2>4
    <3>2. sinceSet[o] > TTL
      BY <2>1, <2>4 DEF Aged
    <3>3. sinceSet'[o] > TTL
      BY <1>2, <2>1, <2>2, <3>2
    <3> QED
      BY <2>3, <2>4, <3>1, <3>3 DEF Aged
  <2>5. CASE cachedData[o] # NoEntry
    <3>1. cachedData[o] \in Entries /\ cachedData[o].age = sinceSet[o] /\ cachedData[o].age <= OldestAge
      BY <2>1, <2>5 DEF Aged, StoreAged
    <3>2. cachedData'[o] = [cachedData[o] EXCEPT !.age = cachedData[o].age + 1]
      BY <1>1, <2>5
    <3>3. /\ cachedData'[o] \in Entries /\ cachedData'[o].age = sinceSet[o] + 1
          /\ cachedData'[o].value = cachedData[o].value
      BY <2>1, <3>1, <3>2 DEF Entries
    <3>4. sinceSet[o] # Ancient
      BY <1>2, <1>4, <2>1, <3>1 DEF Ancient
    <3>5. cachedData'[o].age <= OldestAge + 1
      BY <1>4, <2>1, <3>1, <3>3
    <3> QED
      BY <2>2, <2>3, <2>5, <3>3, <3>4, <3>5, EntryFacts DEF Aged
  <2> QED
    BY <2>4, <2>5
<1>6. StoreTyped'
  <2>1. cachedData' \in [StoreKeys -> Entries \cup {NoEntry}]
    BY <1>1, <1>5
  <2>2. sinceSet' \in [StoreKeys -> 0..Ancient]
    BY <1>1, <1>5
  <2> QED
    BY <1>3, <2>1, <2>2 DEF StoreTyped, Ancient
<1>7. StoreAged'
  BY <1>3, <1>4, <1>5 DEF StoreAged
<1> QED
  BY <1>5, <1>6, <1>7

-----------------------------------------------------------------------------
(* Baselines in time *)

LEMMA TimeInitInv == Init => TimeInv
<1> SUFFICES ASSUME Init PROVE TimeInv
  OBVIOUS
<1>1. NetTyped
  <2>1. 1 \in 1..(Len(Metrics) + 1) /\ 1..(1 - 1) = {}
    BY KeyFacts
  <2>2. NoSource \in [Keys -> Interfaces \cup {"none", "top", "error"}]
    BY DEF NoSource
  <2>3. EmptyCache \in [Entities -> Interfaces \cup {NoIface}]
    BY DEF EmptyCache
  <2> QED
    BY <2>1, <2>2, <2>3, NetworkAssumption DEF Init, NetInit, NetTyped
<1>2. StoreTyped
  <2>1. Ancient \in 0..Ancient /\ Interval \in 1..Interval
    BY StorerAssumption DEF Ancient
  <2> QED
    BY <2>1 DEF Init, StoreInit, StoreTyped
<1>3. StoreAged
  <2>1. Ancient > TTL
    BY StorerAssumption DEF Ancient
  <2> QED
    BY <2>1 DEF Init, StoreInit, StoreAged, Aged
<1>4. BaseAged
  BY DEF Init, BaseAged
<1> QED
  BY <1>1, <1>2, <1>3, <1>4 DEF TimeInv

\* Outside Get and Set there is no baseline to speak of.
LEMMA BaseIdle == ASSUME pc' = "fetch" PROVE BaseAged'
BY DEF BaseAged

LEMMA TimeNet == ASSUME TimeInv, BeginScrape \/ BeginEntity \/ FinishEntity PROVE TimeInv'
<1>1. UNCHANGED storeVars /\ pc' = "fetch"
  BY DEF BeginScrape, Scrape, BeginEntity, PopulateEntity, FinishEntity, TimeInv, BaseAged
<1>2. NetTyped'
  BY ScrapeTyped, PopulateTyped, DoneTyped DEF BeginScrape, BeginEntity, FinishEntity, TimeInv
<1> QED
  BY <1>1, <1>2, StoreKept, BaseIdle DEF TimeInv

LEMMA TimeFetch == ASSUME TimeInv, Fetch PROVE TimeInv'
<1>1. UNCHANGED storeVars /\ FetchMetric /\ pc' = IF source'[Metric] = "error" THEN "fetch" ELSE "get"
  BY DEF Fetch
<1>2. NetTyped'
  BY <1>1, FetchTyped DEF TimeInv
<1>3. at' = at /\ at # "none" /\ k' = k + 1 /\ k' - 1 = k /\ k' > 1
  BY <1>1, FetchFacts DEF TimeInv, NetTyped, Fetching
<1>4. Fetched' = Metric
  BY <1>3 DEF Fetched, Metric
<1>5. source'[Metric] \in Values \cup {"error"}
  BY <1>1, FetchFacts, RateAssumption DEF TimeInv
<1>6. BaseAged'
  BY <1>1, <1>3, <1>4, <1>5 DEF BaseAged
<1> QED
  BY <1>1, <1>2, <1>6, StoreKept DEF TimeInv

LEMMA TimeGet == ASSUME TimeInv, GetBaseline PROVE TimeInv'
<1>1. /\ pc = "get" /\ pc' = "set" /\ base' = cachedData[Key] /\ UNCHANGED netVars
      /\ UNCHANGED storeVars
  BY DEF GetBaseline, Get
<1>2. at # "none" /\ k > 1 /\ source[Fetched] \in Values /\ Key \in StoreKeys
  BY <1>1, KeyIn DEF TimeInv, BaseAged
<1>3. Aged(base', sinceSet[Key]) /\ (base' # NoEntry => base'.age <= OldestAge)
  BY <1>1, <1>2 DEF TimeInv, StoreAged
<1>4. base' # NoEntry => base'.age \in Nat
  BY <1>3, EntryFacts DEF Aged
<1>5. base' # NoEntry => base'.age <= TTL + Interval
  BY <1>3, <1>4, OldestNat, StorerAssumption DEF TimeInv
<1>6. Key' = Key /\ Fetched' = Fetched /\ sinceSet' = sinceSet /\ at' = at /\ k' = k /\ source' = source
  BY <1>1 DEF netVars, storeVars, Key, Fetched
<1>7. BaseAged'
  BY <1>1, <1>2, <1>3, <1>5, <1>6 DEF BaseAged, Aged
<1> QED
  BY <1>1, <1>7, NetKept, StoreKept DEF TimeInv

LEMMA TimeSet == ASSUME TimeInv, SetBaseline PROVE TimeInv'
<1>1. pc = "set" /\ pc' = "fetch" /\ Set(Key, source[Fetched]) /\ UNCHANGED netVars
  BY DEF SetBaseline
<1>2. source[Fetched] \in Values /\ Key \in StoreKeys
  BY <1>1, KeyIn DEF TimeInv, BaseAged
<1> QED
  BY <1>1, <1>2, NetKept, SetStore, BaseIdle DEF TimeInv

LEMMA TimeVacuum == ASSUME TimeInv, StoreGoroutine PROVE TimeInv'
<1>1. UNCHANGED netVars /\ UNCHANGED <<pc, base>> /\ StoreVacuum
  BY DEF StoreGoroutine
<1>2. StoreTyped' /\ StoreAged' /\ sinceSet' = sinceSet
  BY <1>1, VacuumStore DEF TimeInv
<1>3. BaseAged'
  BY <1>1, <1>2 DEF TimeInv, BaseAged, Aged, netVars, Key, Fetched
<1> QED
  BY <1>1, <1>2, <1>3, NetKept DEF TimeInv

LEMMA TimeTick == ASSUME TimeInv, TimePasses PROVE TimeInv'
<1>1. UNCHANGED netVars /\ pc' = pc /\ at = "none" /\ Tick
  BY DEF TimePasses
<1>2. pc' = "fetch"
  BY <1>1 DEF TimeInv, BaseAged
<1> QED
  BY <1>1, <1>2, TickStore, NetKept, BaseIdle DEF TimeInv

LEMMA TimeInductive == TimeInv /\ [Next]_vars => TimeInv'
<1> SUFFICES ASSUME TimeInv, [Next]_vars PROVE TimeInv'
  OBVIOUS
<1>1. CASE UNCHANGED vars
  <2>1. UNCHANGED netVars /\ UNCHANGED storeVars /\ UNCHANGED <<pc, base>>
    BY <1>1 DEF vars
  <2>2. BaseAged'
    BY <2>1 DEF TimeInv, BaseAged, Aged, netVars, storeVars, Key, Fetched
  <2> QED
    BY <2>1, <2>2, NetKept, StoreKept DEF TimeInv
<1> QED
  BY <1>1, TimeNet, TimeFetch, TimeGet, TimeSet, TimeVacuum, TimeTick DEF Next, Populate

\* Only a reading older than the TTL is dropped, whenever the vacuum runs, so a
\* fresh one is always there to be subtracted.
THEOREM RateBaselineKept == Spec => []BaselineKept
<1>1. ASSUME TimeInv PROVE BaselineKept
  <2> SUFFICES ASSUME pc = "set", sinceSet[Key] <= TTL, base = NoEntry PROVE FALSE
    BY DEF BaselineKept
  <2>1. sinceSet[Key] > TTL
    BY <1>1 DEF TimeInv, BaseAged, Aged
  <2>2. sinceSet[Key] \in Nat /\ TTL \in Nat
    BY <1>1, KeyIn, StorerAssumption DEF TimeInv, BaseAged, StoreTyped, Ancient
  <2> QED
    BY <2>1, <2>2
<1> QED
  BY <1>1, TimeInitInv, TimeInductive, PTL DEF Spec

\* The ticker's phase bounds how long an expired reading can outlive the TTL.
THEOREM RateBaselineFresh == Spec => []BaselineNotStale
<1>1. ASSUME TimeInv PROVE BaselineNotStale
  BY <1>1 DEF TimeInv, BaseAged, Aged, BaselineNotStale
<1> QED
  BY <1>1, TimeInitInv, TimeInductive, PTL DEF Spec

-----------------------------------------------------------------------------
(* Readings of one interface *)

LEMMA CompleteHas ==
  ASSUME Complete(Raw), NEW m \in Keys, m \notin Raw.top
  PROVE  \A i : HasMetric(i, m, Raw) <=> i \in DOMAIN Raw.interfaces
BY DEF Complete, HasMetric

\* With complete stats, all metrics can be resolved or none.
LEMMA ResolvedAlike ==
  ASSUME NetTyped, FetchMetric, Complete(Raw), Metric \notin Raw.top
  PROVE  resolveInterface = NoIface <=> Unresolvable
<1>1. at # "none" /\ Metric \in Keys
  BY FetchFacts DEF Fetching
<1>2. HasMetric(default, Metric, Raw) <=> default \in DOMAIN Raw.interfaces
  BY <1>1, CompleteHas
<1>3. selectPrimaryInterface(Raw) = NoIface <=> Candidates(Raw) = {}
  BY PrimaryFound, NetworkAssumption DEF Candidates
<1> QED
  BY <1>2, <1>3 DEF Unresolvable, resolveInterface, RoutingTableHas

\* What a fetch finds if the stats are complete.
LEMMA FetchComplete ==
  ASSUME NetTyped, FetchMetric, Complete(Raw)
  PROVE  \/ Metric \in Raw.top /\ source'[Metric] = "top" /\ cache' = cache
         \/ /\ Metric \notin Raw.top /\ cache[at] \in DOMAIN Raw.interfaces
            /\ source'[Metric] = cache[at] /\ cache' = cache
         \/ /\ Metric \notin Raw.top /\ cache[at] \notin DOMAIN Raw.interfaces /\ ~Unresolvable
            /\ source'[Metric] = resolveInterface /\ resolveInterface \in DOMAIN Raw.interfaces
            /\ cache' = [cache EXCEPT ![at] = resolveInterface]
         \/ /\ Metric \notin Raw.top /\ cache[at] \notin DOMAIN Raw.interfaces /\ Unresolvable
            /\ source'[Metric] = "error" /\ cache' = cache
<1>1. at # "none" /\ Metric \in Keys /\ source \in [Keys -> Interfaces \cup {"none", "top", "error"}]
  BY FetchFacts DEF Fetching, NetTyped
<1>2. \A v : source' = [source EXCEPT ![Metric] = v] => source'[Metric] = v
  BY <1>1
<1>3. CASE FetchTopLevel
  BY <1>2, <1>3 DEF FetchTopLevel
<1>4. CASE TryCache
  BY <1>2, <1>4 DEF TryCache, HasMetric
<1>5. CASE CacheMisses
  <2>1. Metric \notin Raw.top /\ cache[at] \notin DOMAIN Raw.interfaces
    BY <1>1, <1>5, CompleteHas, AtFacts, NetworkAssumption DEF CacheMisses
  <2>2. CASE Resolve
    <3>1. resolveInterface \in DOMAIN Raw.interfaces /\ ~Unresolvable
      BY <1>1, <2>1, <2>2, Resolved, ResolvedAlike DEF Resolve
    <3>2. HasMetric(resolveInterface, Metric, Raw)
      BY <1>1, <2>1, <3>1, CompleteHas
    <3>3. source'[Metric] = resolveInterface /\ cache' = [cache EXCEPT ![at] = resolveInterface]
      BY <1>2, <2>2, <3>2 DEF Resolve
    <3> QED
      BY <2>1, <3>1, <3>3
  <2>3. CASE ResolveFails
    BY <1>2, <2>1, <2>3, ResolvedAlike DEF ResolveFails
  <2>4. CASE FetchTopLevel \/ TryCache
    BY <1>3, <1>4, <2>4
  <2> QED
    BY <2>2, <2>3, <2>4 DEF FetchMetric
<1> QED
  BY <1>3, <1>4, <1>5 DEF FetchMetric, Resolve, ResolveFails

LEMMA RateInitInv == Init => RateInv
BY TimeInitInv DEF Init, NetInit, RateInv, OneSource, SourceStored, SteadyCached, SteadyComplete, BaseSteady

\* Steps of the store alone, and none at all.
LEMMA RateStore ==
  ASSUME RateInv, TimeInv', UNCHANGED netVars, UNCHANGED <<pc, base, steady>>,
         \A key \in StoreKeys : \/ cachedData'[key] = NoEntry
                              \/ /\ cachedData[key] # NoEntry
                                 /\ cachedData'[key].value = cachedData[key].value
  PROVE  RateInv'
<1> USE DEF netVars, RateInv
<1>1. OneSource'
  BY DEF OneSource, Raw, Complete, Unresolvable, Candidates
<1>2. SourceStored'
  <2> SUFFICES ASSUME at # "none", NEW m \in Keys,
                      ~Open(m), source[m] # "error", cachedData'[<<at, m>>] # NoEntry
               PROVE  cachedData'[<<at, m>>].value = source[m]
    BY DEF SourceStored, Open, Fetched
  <2>1. <<at, m>> \in StoreKeys
    BY AtFacts, RateAssumption DEF TimeInv
  <2> QED
    BY <2>1 DEF SourceStored
<1>3. SteadyCached'
  <2> SUFFICES ASSUME NEW key \in steady, cachedData'[key] # NoEntry, cachedData'[key].value # "top"
               PROVE  \/ cachedData'[key].value = cache[key[1]]
                      \/ /\ at # "none" /\ at = key[1] /\ Open(key[2])
                         /\ cachedData'[key].value \notin DOMAIN Raw.interfaces
                         /\ cache[at] \in DOMAIN Raw.interfaces
    BY DEF SteadyCached, Open, Fetched, Raw
  <2>1. key \in StoreKeys
    BY DEF SteadyComplete
  <2> QED
    BY <2>1 DEF SteadyCached
<1>4. SteadyComplete'
  BY DEF SteadyComplete, Complete
<1>5. BaseSteady'
  BY DEF BaseSteady, Key, Fetched, Raw
<1> QED
  BY <1>1, <1>2, <1>3, <1>4, <1>5

LEMMA RateScrape == ASSUME RateInv, BeginScrape PROVE RateInv'
<1>1. /\ at = "none" /\ pc = "fetch" /\ UNCHANGED <<cachedData, pc, at, k, source, cache>>
      /\ steady' = {key \in steady : key[1] \in pending' => Complete(stats'[key[1]])}
  BY DEF BeginScrape, Scrape, storeVars, RateInv, TimeInv, BaseAged
<1>2. TimeInv'
  BY TimeNet DEF RateInv
<1>3. OneSource' /\ SourceStored' /\ BaseSteady'
  BY <1>1 DEF OneSource, SourceStored, BaseSteady
<1>4. SteadyCached'
  BY <1>1 DEF RateInv, SteadyCached
<1>5. SteadyComplete'
  BY <1>1 DEF RateInv, SteadyComplete, Complete
<1> QED
  BY <1>2, <1>3, <1>4, <1>5 DEF RateInv

LEMMA RateEntity == ASSUME RateInv, BeginEntity PROVE RateInv'
<1>1. /\ at = "none" /\ pc = "fetch" /\ UNCHANGED <<cachedData, pc, cache, steady, stats, pending>>
      /\ source' = NoSource
  BY DEF BeginEntity, PopulateEntity, storeVars, RateInv, TimeInv, BaseAged
<1>2. TimeInv'
  BY TimeNet DEF RateInv
<1>3. \A m \in Keys : source'[m] = "none"
  BY <1>1 DEF NoSource
<1>4. OneSource' /\ SourceStored' /\ BaseSteady'
  BY <1>1, <1>3 DEF OneSource, SourceStored, BaseSteady, Open
<1>5. SteadyCached'
  BY <1>1 DEF RateInv, SteadyCached
<1>6. SteadyComplete'
  BY <1>1 DEF RateInv, SteadyComplete, Complete
<1> QED
  BY <1>2, <1>4, <1>5, <1>6 DEF RateInv

LEMMA RateFinish == ASSUME RateInv, FinishEntity PROVE RateInv'
<1>1. /\ at # "none" /\ at' = "none" /\ pc = "fetch" /\ k > Len(Metrics)
      /\ UNCHANGED <<cachedData, pc, stats, source>> /\ pending' \subseteq pending
      /\ steady' = {} \/ (steady' = steady /\ cache' = cache)
  BY DEF FinishEntity, EntityDone, storeVars
<1>2. TimeInv'
  BY TimeNet DEF RateInv
<1>3. \A m \in Keys : source[m] # "none"
  <2> SUFFICES ASSUME NEW m \in Keys PROVE source[m] # "none"
    OBVIOUS
  <2>1. PICK n \in 1..Len(Metrics) : Metrics[n] = m
    BY KeyFacts
  <2>2. n \in 1..(k - 1)
    BY <1>1, KeyFacts DEF RateInv, TimeInv, NetTyped
  <2> QED
    BY <2>1, <2>2 DEF RateInv, TimeInv, NetTyped
<1>4. OneSource' /\ SourceStored' /\ BaseSteady'
  BY <1>1 DEF OneSource, SourceStored, BaseSteady
<1>5. SteadyCached'
  <2> SUFFICES ASSUME NEW key \in steady, cachedData[key] # NoEntry, cachedData[key].value # "top"
               PROVE  cachedData[key].value = cache[key[1]]
    BY <1>1 DEF SteadyCached
  <2>1. key[2] \in Keys
    BY RateAssumption DEF RateInv, SteadyComplete
  <2>2. ~Open(key[2])
    BY <1>1, <1>3, <2>1 DEF Open
  <2> QED
    BY <2>2 DEF RateInv, SteadyCached
<1>6. SteadyComplete'
  BY <1>1 DEF RateInv, SteadyComplete, Complete
<1> QED
  BY <1>2, <1>4, <1>5, <1>6 DEF RateInv

\* A metric is fetched: if its interface has gone, another is cached before any
\* metric was read from the old one in this scrape.
LEMMA RateFetch == ASSUME RateInv, Fetch PROVE RateInv'
<1>1. /\ FetchMetric /\ pc = "fetch" /\ UNCHANGED <<cachedData, base, steady>>
      /\ pc' = IF source'[Metric] = "error" THEN "fetch" ELSE "get"
  BY DEF Fetch, storeVars
<1>2. NetTyped /\ TimeInv'
  BY TimeFetch DEF RateInv, TimeInv
<1>3. /\ at # "none" /\ Metric \in Keys /\ k' = k + 1 /\ k' - 1 = k
      /\ UNCHANGED <<default, stats, pending, at>>
  BY <1>1, <1>2, FetchFacts DEF Fetching, NetTyped
<1>4. Fetched' = Metric /\ Raw' = Raw /\ (Unresolvable' <=> Unresolvable)
  BY <1>3 DEF Fetched, Metric, Raw, Unresolvable, Candidates
<1>5. \A m \in Keys \ {Metric} : source'[m] = source[m]
  BY <1>1, <1>2, FetchFacts DEF NetTyped
<1>6. /\ \A m \in Keys \ {Metric} : Open(m)' <=> source[m] = "none"
      /\ \A m \in Keys : Open(m) <=> source[m] = "none"
      /\ \A m \in Keys : m = Metric /\ source'[m] # "error" => Open(m)'
  BY <1>1, <1>4, <1>5 DEF Open
<1>7. OneSource'
  <2> SUFFICES ASSUME Complete(Raw), NEW m \in Keys, source'[m] # "none"
               PROVE  IF m \in Raw.top THEN source'[m] = "top"
                      ELSE \/ source'[m] = cache'[at] /\ cache'[at] \in DOMAIN Raw.interfaces
                           \/ /\ source'[m] = "error" /\ cache'[at] \notin DOMAIN Raw.interfaces
                              /\ Unresolvable
    BY <1>3, <1>4 DEF OneSource, Complete
  <2>1. at \in Entities /\ cache \in [Entities -> Interfaces \cup {NoIface}]
    BY <1>2, <1>3, AtFacts DEF NetTyped
  <2>2. CASE m = Metric
    BY <1>1, <1>2, <2>1, <2>2, FetchComplete
  <2>3. CASE m # Metric
    <3>1. IF m \in Raw.top THEN source[m] = "top"
          ELSE \/ source[m] = cache[at] /\ cache[at] \in DOMAIN Raw.interfaces
               \/ source[m] = "error" /\ cache[at] \notin DOMAIN Raw.interfaces /\ Unresolvable
      BY <1>3, <1>5, <2>3 DEF RateInv, OneSource
    <3>2. cache' = cache \/ (cache[at] \notin DOMAIN Raw.interfaces /\ ~Unresolvable)
      BY <1>1, <1>2, FetchComplete
    <3> QED
      BY <1>5, <2>3, <3>1, <3>2
  <2> QED
    BY <2>2, <2>3
<1>8. SourceStored'
  <2> SUFFICES ASSUME NEW m \in Keys, ~Open(m)', source'[m] # "error",
                      cachedData[<<at, m>>] # NoEntry
               PROVE  cachedData[<<at, m>>].value = source'[m]
    BY <1>1, <1>3 DEF SourceStored
  <2>1. m # Metric
    BY <1>6
  <2>2. ~Open(m) /\ source'[m] = source[m]
    BY <1>5, <1>6, <2>1
  <2> QED
    BY <1>3, <2>2 DEF RateInv, SourceStored
<1>9. SteadyCached'
  <2> SUFFICES ASSUME NEW key \in steady, cachedData[key] # NoEntry, cachedData[key].value # "top"
               PROVE  \/ cachedData[key].value = cache'[key[1]]
                      \/ /\ at = key[1] /\ Open(key[2])'
                         /\ cachedData[key].value \notin DOMAIN Raw.interfaces
                         /\ cache'[at] \in DOMAIN Raw.interfaces
    BY <1>1, <1>3, <1>4 DEF SteadyCached, Open
  <2>1. /\ key = <<key[1], key[2]>> /\ key[1] \in Entities /\ key[2] \in Keys
        /\ at \in Entities /\ at \in pending /\ cache \in [Entities -> Interfaces \cup {NoIface}]
    BY <1>2, <1>3, AtFacts, RateAssumption DEF RateInv, SteadyComplete, NetTyped
  <2>2. CASE key[1] # at
    <3>1. cache'[key[1]] = cache[key[1]]
      BY <1>1, <2>1, <2>2 DEF FetchMetric, FetchTopLevel, TryCache, Resolve, ResolveFails
    <3> QED
      BY <2>2, <3>1 DEF RateInv, SteadyCached
  <2>3. CASE key[1] = at
    <3>1. Complete(Raw)
      BY <2>1, <2>3 DEF RateInv, SteadyComplete, Raw
    <3>2. CASE cache' = cache
      <4>1. CASE cachedData[key].value = cache[at]
        BY <2>3, <3>2, <4>1
      <4>2. CASE /\ Open(key[2]) /\ cachedData[key].value \notin DOMAIN Raw.interfaces
                 /\ cache[at] \in DOMAIN Raw.interfaces
        <5>1. cache[at] # "error"
          BY <1>2, <1>3, <4>2, AtFacts, NetworkAssumption
        <5>2. source'[Metric] # "error"
          BY <1>1, <1>2, <3>1, <4>2, <5>1, FetchComplete
        <5>3. Open(key[2])'
          BY <1>6, <2>1, <4>2, <5>2
        <5> QED
          BY <2>3, <3>2, <4>2, <5>3
      <4> QED
        BY <2>3, <4>1, <4>2 DEF RateInv, SteadyCached
    <3>3. CASE /\ cache[at] \notin DOMAIN Raw.interfaces /\ ~Unresolvable
               /\ source'[Metric] = resolveInterface /\ resolveInterface \in DOMAIN Raw.interfaces
               /\ cache' = [cache EXCEPT ![at] = resolveInterface]
      <4>1. cachedData[key].value = cache[at]
        BY <2>3, <3>3 DEF RateInv, SteadyCached
      <4>2. cache'[at] \in DOMAIN Raw.interfaces
        BY <2>1, <3>3
      <4>3. source'[Metric] # "error"
        BY <1>2, <1>3, <3>3, AtFacts, NetworkAssumption
      <4>4. CASE key[2] # Metric /\ source[key[2]] # "none"
        <5>1. source[key[2]] = "top"
          BY <1>3, <2>1, <3>1, <3>3, <4>4 DEF RateInv, OneSource
        <5>2. cachedData[<<at, key[2]>>].value = source[key[2]]
          <6>1. ~Open(key[2]) /\ source[key[2]] # "error" /\ cachedData[<<at, key[2]>>] # NoEntry
            BY <1>6, <2>1, <2>3, <4>4, <5>1
          <6> QED
            BY <1>3, <2>1, <6>1 DEF RateInv, SourceStored
        <5> QED
          BY <2>1, <2>3, <5>1, <5>2
      <4>5. CASE key[2] = Metric \/ source[key[2]] = "none"
        <5>1. Open(key[2])'
          BY <1>6, <2>1, <4>3, <4>5
        <5> QED
          BY <2>3, <3>3, <4>1, <4>2, <5>1
      <4> QED
        BY <4>4, <4>5
    <3> QED
      BY <1>1, <1>2, <3>1, <3>2, <3>3, FetchComplete
  <2> QED
    BY <2>2, <2>3
<1>10. SteadyComplete'
  BY <1>1, <1>3 DEF RateInv, SteadyComplete, Complete
<1>11. BaseSteady'
  BY <1>1 DEF BaseSteady
<1> QED
  BY <1>2, <1>7, <1>8, <1>9, <1>10, <1>11 DEF RateInv

LEMMA RateGet == ASSUME RateInv, GetBaseline PROVE RateInv'
<1>1. /\ pc = "get" /\ pc' = "set" /\ base' = cachedData[Key] /\ UNCHANGED netVars
      /\ UNCHANGED <<cachedData, steady>>
  BY DEF GetBaseline, Get, storeVars
<1>2. TimeInv'
  BY TimeGet DEF RateInv
<1>3. /\ Key' = Key /\ Fetched' = Fetched /\ Raw' = Raw
      /\ UNCHANGED <<default, cache, stats, pending, at, k, source>>
  BY <1>1 DEF netVars, Key, Fetched, Raw
<1>4. \A m : Open(m)' <=> Open(m)
  BY <1>1, <1>3 DEF Open
<1>5. OneSource'
  BY <1>3 DEF RateInv, OneSource, Complete, Unresolvable, Candidates
<1>6. SourceStored'
  BY <1>1, <1>3, <1>4 DEF RateInv, SourceStored
<1>7. SteadyCached'
  BY <1>1, <1>3, <1>4 DEF RateInv, SteadyCached
<1>8. SteadyComplete'
  BY <1>1, <1>3 DEF RateInv, SteadyComplete, Complete
<1>9. BaseSteady'
  <2> SUFFICES ASSUME cachedData[Key] # NoEntry, Key \in steady
               PROVE  \/ cachedData[Key].value \in {"top", cache[at]}
                      \/ cachedData[Key].value \notin DOMAIN Raw.interfaces
    BY <1>1, <1>3 DEF BaseSteady
  <2>1. Key[1] = at
    BY <1>1, KeyIn DEF RateInv, TimeInv, BaseAged
  <2> QED
    BY <2>1 DEF RateInv, SteadyCached
<1> QED
  BY <1>2, <1>5, <1>6, <1>7, <1>8, <1>9 DEF RateInv

LEMMA RateSet == ASSUME RateInv, SetBaseline PROVE RateInv'
<1>1. /\ pc = "set" /\ pc' = "fetch" /\ Set(Key, source[Fetched]) /\ UNCHANGED netVars
      /\ steady' = IF Complete(Raw) THEN steady \cup {Key} ELSE steady
  BY DEF SetBaseline
<1>2. TimeInv'
  BY TimeSet DEF RateInv
<1>3. /\ at # "none" /\ k > 1 /\ source[Fetched] \in Values /\ NetTyped /\ StoreTyped /\ StoreAged
      /\ Fetched \in Keys /\ Key \in StoreKeys /\ Key[1] = at /\ Key[2] = Fetched /\ Key = <<at, Fetched>>
  BY <1>1, KeyIn DEF RateInv, TimeInv, BaseAged, Key
<1>4. /\ cachedData'[Key].value = source[Fetched]
      /\ \A other \in StoreKeys \ {Key} : cachedData'[other] = cachedData[other]
  BY <1>1, <1>3, SetStore
<1>5. /\ Raw' = Raw /\ Fetched' = Fetched
      /\ UNCHANGED <<default, cache, stats, pending, at, k, source>>
  BY <1>1 DEF netVars, Fetched, Raw
<1>6. /\ \A m : Open(m)' <=> source[m] = "none"
      /\ \A m : Open(m) <=> source[m] = "none" \/ m = Fetched
  BY <1>1, <1>5 DEF Open
<1>7. \A key \in StoreKeys : key = <<key[1], key[2]>> /\ key[2] \in Keys
  BY RateAssumption
<1>8. OneSource'
  BY <1>5 DEF RateInv, OneSource, Complete, Unresolvable, Candidates
<1>9. SourceStored'
  <2> SUFFICES ASSUME NEW m \in Keys, source[m] # "none", source[m] # "error",
                      cachedData'[<<at, m>>] # NoEntry
               PROVE  cachedData'[<<at, m>>].value = source[m]
    BY <1>5, <1>6 DEF SourceStored
  <2>1. CASE m = Fetched
    BY <1>3, <1>4, <2>1
  <2>2. CASE m # Fetched
    <3>1. <<at, m>> \in StoreKeys \ {Key}
      BY <1>3, <2>2, AtFacts, RateAssumption
    <3> QED
      BY <1>3, <1>4, <1>6, <2>2, <3>1 DEF RateInv, SourceStored
  <2> QED
    BY <2>1, <2>2
<1>10. SteadyComplete'
  <2>1. steady' \subseteq StoreKeys
    BY <1>1, <1>3 DEF RateInv, SteadyComplete
  <2>2. \A key \in steady' : key[1] \in pending => Complete(stats[key[1]])
    BY <1>1, <1>3 DEF RateInv, SteadyComplete, Raw
  <2> QED
    BY <1>5, <2>1, <2>2 DEF SteadyComplete, Complete
<1>11. SteadyCached'
  <2> SUFFICES ASSUME NEW key \in steady', cachedData'[key] # NoEntry, cachedData'[key].value # "top"
               PROVE  \/ cachedData'[key].value = cache[key[1]]
                      \/ /\ at # "none" /\ at = key[1] /\ source[key[2]] = "none"
                         /\ cachedData'[key].value \notin DOMAIN Raw.interfaces
                         /\ cache[at] \in DOMAIN Raw.interfaces
    BY <1>5, <1>6 DEF SteadyCached
  <2>1. key \in StoreKeys
    BY <1>10 DEF SteadyComplete
  <2>2. CASE key = Key
    <3>1. Complete(Raw)
      BY <1>1, <1>3, <2>2, AtFacts DEF RateInv, SteadyComplete, Raw
    <3>2. source[Fetched] # "none" /\ source[Fetched] # "error"
      BY <1>3, NetworkAssumption, RateAssumption
    <3>3. source[Fetched] \in {"top", cache[at]}
      BY <1>3, <3>1, <3>2 DEF RateInv, OneSource
    <3> QED
      BY <1>3, <1>4, <2>2, <3>3
  <2>3. CASE key # Key
    <3>1. key \in steady /\ cachedData'[key] = cachedData[key]
      BY <1>1, <1>4, <2>1, <2>3
    <3>2. at = key[1] => key[2] # Fetched
      BY <1>3, <1>7, <2>1, <2>3
    <3> QED
      BY <1>6, <3>1, <3>2 DEF RateInv, SteadyCached
  <2> QED
    BY <2>2, <2>3
<1>12. BaseSteady'
  BY <1>1 DEF BaseSteady
<1> QED
  BY <1>2, <1>8, <1>9, <1>10, <1>11, <1>12 DEF RateInv

LEMMA RateInductive == RateInv /\ [Next]_vars => RateInv'
<1> SUFFICES ASSUME RateInv, [Next]_vars PROVE RateInv'
  OBVIOUS
<1>1. CASE StoreGoroutine
  <2>1. TimeInv' /\ StoreVacuum /\ UNCHANGED netVars /\ UNCHANGED <<pc, base, steady>>
    BY <1>1, TimeVacuum DEF RateInv, StoreGoroutine
  <2>2. \A key \in StoreKeys : cachedData'[key] \in {NoEntry, cachedData[key]}
    BY <2>1, VacuumStore DEF RateInv, TimeInv
  <2> QED
    BY <2>1, <2>2, RateStore
<1>2. CASE TimePasses
  <2>1. TimeInv' /\ Tick /\ UNCHANGED netVars /\ UNCHANGED <<pc, base, steady>>
    BY <1>2, TimeTick DEF RateInv, TimePasses
  <2> QED
    BY <2>1, TickStore, RateStore DEF RateInv, TimeInv
<1>3. CASE UNCHANGED vars
  <2>1. UNCHANGED netVars /\ UNCHANGED <<pc, base, steady>> /\ cachedData' = cachedData
    BY <1>3 DEF vars, storeVars
  <2>2. TimeInv'
    BY <1>3, TimeInductive DEF RateInv
  <2> QED
    BY <2>1, <2>2, RateStore
<1> QED
  BY <1>1, <1>2, <1>3, RateScrape, RateEntity, RateFetch, RateGet, RateSet, RateFinish DEF Next, Populate

\* FromRawWithFallbackToDefaultInterface and the store's keys, which do not name
\* the interface, agree: as long as the stats are complete and the cache is not
\* vacuumed, a rate subtracts a reading of its own source if that source still
\* gives the metric, and the interface metrics of an entity are of one interface.
THEOREM RateOneInterface == Spec => []RatesOfOneInterface
<1>1. ASSUME RateInv, pc = "set", base # NoEntry, Key \in steady, Gives(base.value, Fetched, Raw)
      PROVE  source[Fetched] = base.value
  <2>1. /\ at # "none" /\ k > 1 /\ source[Fetched] \in Values /\ NetTyped
        /\ Fetched \in Keys /\ Key[1] = at
    BY <1>1, KeyIn DEF RateInv, TimeInv, BaseAged
  <2>2. Complete(Raw)
    BY <1>1, <2>1, AtFacts DEF RateInv, SteadyComplete, Raw
  <2>3. source[Fetched] # "none" /\ source[Fetched] # "error"
    BY <2>1, NetworkAssumption, RateAssumption
  <2>4. CASE base.value = "top"
    BY <1>1, <2>1, <2>2, <2>3, <2>4 DEF RateInv, OneSource, Gives
  <2>5. CASE base.value # "top"
    <3>1. base.value \in DOMAIN Raw.interfaces /\ Fetched \notin Raw.top
      BY <1>1, <2>5 DEF Gives, HasMetric
    <3>2. base.value = cache[at]
      BY <1>1, <2>5, <3>1 DEF RateInv, BaseSteady
    <3> QED
      BY <1>1, <2>1, <2>2, <2>3, <3>1, <3>2 DEF RateInv, OneSource
  <2> QED
    BY <2>4, <2>5
<1>2. ASSUME RateInv, at # "none", Complete(Raw), NEW l \in Keys, NEW m \in Keys,
             {source[l], source[m]} \subseteq Interfaces
      PROVE  source[l] = source[m]
  <2>1. \A i \in {l, m} : source[i] \notin {"none", "top", "error"}
    BY <1>2, NetworkAssumption
  <2>2. \A i \in {l, m} : source[i] = cache[at]
    BY <1>2, <2>1 DEF RateInv, OneSource
  <2> QED
    BY <2>2
<1>3. RateInv => RatesOfOneInterface
  BY <1>1, <1>2 DEF RatesOfOneInterface
<1> QED
  BY <1>3, RateInitInv, RateInductive, PTL DEF Spec
=============================================================================
