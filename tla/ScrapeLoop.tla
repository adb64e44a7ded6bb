----------------------------- MODULE ScrapeLoop -----------------------------
(***************************************************************************)
(* The main loop of cmd/nri-kubernetes: run the enabled scrapers, publish  *)
(* what they added to the integration, vacuum the caches, sleep.  KSM and  *)
(* kubelet jobs pass their entities through IntegrationPopulator, whose    *)
(* filterGroup asks the cached namespace filter; the informers behind the  *)
(* filters go on changing while a job runs.                                *)
(*                                                                         *)
(* An entity is where it comes from, its namespace, and whether its group  *)
(* is the namespace group (always reported, with the attribute nrFiltered),*)
(* has a NamespaceGetter (dropped when not allowed) or has none.           *)
(***************************************************************************)
EXTENDS NamespaceFilter, Integers, FiniteSets

CONSTANTS Configs,            \* the sets of scrapers a configuration may enable
          HasSelector,        \* c.NamespaceSelector != nil
          NoNamespace,
          Entities,           \* what the groupers can return
          ScraperMaxReruns,   \* c.Kubelet.ScraperMaxReruns
          VacuumInterval,     \* interfaceCacheVacuumInterval
          CountMod,           \* scrapeCount wraps at this value (2^64)
          Interval,           \* c.Interval, in clock ticks
          MaxTotal            \* bound: longest scrape and publish, in ticks

Scrapers == {"ksm", "kubelet", "controlPlane"}
EntityType ==
    [src : Scrapers, kind : {"namespace", "object"}, ns : Namespaces]
        \cup [src : Scrapers, kind : {"plain", "cluster"}, ns : {NoNamespace}]

ASSUME LoopAssumption ==
    /\ Configs \subseteq SUBSET Scrapers
    /\ HasSelector \in BOOLEAN
    /\ NoNamespace \notin Namespaces
    /\ Filters = {"ksm", "kubelet"}
    /\ Entities \subseteq {e \in EntityType : e.kind # "cluster"}
    /\ \A e \in Entities : e.src = "controlPlane" => e.ns = NoNamespace
    /\ ScraperMaxReruns \in Nat
    /\ VacuumInterval \in Nat \ {0} /\ CountMod \in Nat \ {0}
    /\ Interval \in Nat \ {0} /\ MaxTotal \in Nat

VARIABLES enabled,        \* the scrapers that are not nil
          phase,          \* where the loop is
          running,        \* a job of the phase's scraper is being populated
          scrapeCount,
          currentReruns,  \* kubelet.Scraper.currentReruns
          todo,           \* entities of the running job still to process
          current,        \* the entity filterGroup is asking about
          populated,      \* the job populated something
          buffer,         \* metric sets held by the integration
          payload,        \* what the last Publish sent
          skipped,        \* history: entities filterGroup dropped this cycle
          ifaceAge,       \* scrapes the interface cache's entry has survived, -1: none
          tick            \* clock at the start of the scrape, modulo Interval

loopVars == <<enabled, phase, running, scrapeCount, currentReruns, todo, current,
              populated, buffer, payload, skipped, ifaceAge, tick>>
vars == <<loopVars, filterVars>>

\* A metric set: its entity, whether any metric was set in it, the attribute
\* nrFiltered, and whether it was added during the current cycle.
Sample(e, full, filtered) == [entity |-> e, full |-> full, filtered |-> filtered, now |-> TRUE]
Samples == [entity : EntityType, full : BOOLEAN, filtered : BOOLEAN, now : BOOLEAN]

Phases == Scrapers \cup {"top", "publish", "rest", "exited"}
After(p) == CASE p = "ksm" -> "kubelet"
              [] p = "kubelet" -> "controlPlane"
              [] p = "controlPlane" -> "publish"

NoEntity == [src |-> "none"]

ProcessInit ==
    /\ enabled \in Configs
    /\ phase = "top" /\ running = FALSE
    /\ scrapeCount = 0 /\ currentReruns = 0
    /\ todo = {} /\ current = NoEntity /\ populated = FALSE
    /\ buffer = {} /\ payload = {} /\ skipped = {}
    /\ ifaceAge = -1 /\ tick = 0

Init == ProcessInit /\ FilterInit

-----------------------------------------------------------------------------
\* The head of the loop.
StartCycle ==
    /\ phase = "top"
    /\ scrapeCount' = (scrapeCount + 1) % CountMod
    /\ phase' = "ksm"
    /\ payload' = {} /\ skipped' = {}
    /\ UNCHANGED <<enabled, running, currentReruns, todo, current, populated, buffer, ifaceAge, tick,
                   filterVars>>

SkipScraper ==
    /\ phase \in Scrapers \ enabled
    /\ phase' = After(phase)
    /\ UNCHANGED <<enabled, running, scrapeCount, currentReruns, todo, current, populated, buffer,
                   payload, skipped, ifaceAge, tick, filterVars>>

\* Scraper.Run up to IntegrationPopulator: the groups may hold any of the
\* entities, and none when the endpoint or the grouper failed.
Fetch(es) ==
    /\ phase \in enabled /\ ~running
    /\ es \subseteq {e \in Entities : e.src = phase}
    /\ running' = TRUE /\ todo' = es /\ populated' = FALSE
    /\ UNCHANGED <<enabled, phase, scrapeCount, currentReruns, current, buffer, payload, skipped,
                   ifaceAge, tick, filterVars>>

\* filterGroup and processEntities for e, once it is known whether its
\* namespace is allowed.  An entity that is kept may fail to be built, give an
\* empty metric set, or give one with metrics.
Process(e, allowed) ==
    /\ todo' = todo \ {e}
    /\ current' = NoEntity
    /\ \/ /\ e.kind = "object" /\ ~allowed
          /\ skipped' = skipped \cup {e}
          /\ UNCHANGED <<buffer, populated>>
       \/ /\ e.kind = "object" => allowed
          /\ \/ UNCHANGED <<buffer, populated>>
             \/ \E full \in BOOLEAN :
                  /\ buffer' = buffer \cup {Sample(e, full, e.kind = "namespace" /\ ~allowed)}
                  /\ populated' = (populated \/ full)
          /\ UNCHANGED skipped

\* The group has no NamespaceGetter, or there is no filter.  The node entity
\* of the kubelet job resolves its network interface through the cache.
ProcessUnfiltered(e) ==
    /\ running /\ current = NoEntity /\ e \in todo
    /\ e.ns = NoNamespace \/ ~HasSelector
    /\ Process(e, TRUE)
    /\ ifaceAge' = IF e.src = "kubelet" /\ e.kind = "plain" /\ ifaceAge = -1 THEN 0 ELSE ifaceAge
    /\ UNCHANGED <<enabled, phase, running, scrapeCount, currentReruns, payload, tick, filterVars>>

AskFilter(e) ==
    /\ running /\ current = NoEntity /\ e \in todo
    /\ e.ns # NoNamespace /\ HasSelector
    /\ Ask(phase, e.ns)
    /\ current' = e
    /\ UNCHANGED <<enabled, phase, running, scrapeCount, currentReruns, todo, populated, buffer,
                   payload, skipped, ifaceAge, tick>>

EvaluateFilter == Evaluate /\ UNCHANGED loopVars

ProcessAnswered ==
    /\ current # NoEntity
    /\ Answer
    /\ Process(current, call.answer)
    /\ UNCHANGED <<enabled, phase, running, scrapeCount, currentReruns, payload, ifaceAge, tick>>

\* os.Exit
Exit ==
    /\ phase' = "exited" /\ running' = FALSE
    /\ UNCHANGED <<enabled, scrapeCount, todo, current, populated, payload, skipped, ifaceAge, tick,
                   filterVars>>

RunEnds == running /\ todo = {} /\ current = NoEntity

IsMaxRerunReached == currentReruns > ScraperMaxReruns

\* Mutant of RunSucceeds: a success forgets the earlier failures.
RunSucceedsResets ==
    /\ RunEnds
    /\ populated \/ phase = "controlPlane"
    /\ running' = FALSE /\ phase' = After(phase)
    /\ currentReruns' = IF phase = "kubelet" THEN 0 ELSE currentReruns
    /\ UNCHANGED <<enabled, scrapeCount, todo, current, populated, buffer, payload, skipped,
                   ifaceAge, tick, filterVars>>

\* populateCluster adds a metric set of its own for every job that populated.
RunSucceeds ==
    /\ RunEnds
    /\ populated \/ phase = "controlPlane"
    /\ running' = FALSE /\ phase' = After(phase)
    /\ buffer' = IF populated
                 THEN buffer \cup {Sample([src |-> phase, kind |-> "cluster", ns |-> NoNamespace], TRUE, FALSE)}
                 ELSE buffer
    /\ UNCHANGED <<enabled, scrapeCount, currentReruns, todo, current, populated, payload, skipped,
                   ifaceAge, tick, filterVars>>

\* Nothing was populated: fatal for KSM.
KSMFails ==
    /\ RunEnds /\ phase = "ksm" /\ ~populated
    /\ Exit /\ UNCHANGED <<currentReruns, buffer>>

\* ... and for the kubelet once the reruns are used up; until then the cycle
\* goes on without kubelet data.
KubeletFails ==
    /\ RunEnds /\ phase = "kubelet" /\ ~populated
    /\ IF IsMaxRerunReached
       THEN Exit /\ UNCHANGED <<currentReruns, buffer>>
       ELSE /\ currentReruns' = currentReruns + 1
            /\ running' = FALSE /\ phase' = After(phase)
            /\ UNCHANGED <<enabled, scrapeCount, todo, current, populated, buffer, payload, skipped,
                           ifaceAge, tick, filterVars>>

\* The control plane scraper fails before it populates any of its jobs.
ControlPlaneFails ==
    /\ phase = "controlPlane" /\ phase \in enabled /\ ~running
    /\ Exit /\ UNCHANGED <<currentReruns, buffer>>

\* Mutant of PublishOK: the integration keeps what it published.
PublishKeeps ==
    /\ phase = "publish"
    /\ payload' = buffer
    /\ phase' = "rest"
    /\ UNCHANGED <<enabled, running, scrapeCount, currentReruns, todo, current, populated, buffer,
                   skipped, ifaceAge, tick, filterVars>>

\* Integration.Publish writes the payload and empties the integration.
PublishOK ==
    /\ phase = "publish"
    /\ payload' = buffer /\ buffer' = {}
    /\ phase' = "rest"
    /\ UNCHANGED <<enabled, running, scrapeCount, currentReruns, todo, current, populated, skipped,
                   ifaceAge, tick, filterVars>>

\* The sink may have taken the payload although Publish reports an error.
PublishFails ==
    /\ phase = "publish"
    /\ payload' \in {buffer, {}} /\ buffer' = {}
    /\ phase' = "exited"
    /\ UNCHANGED <<enabled, running, scrapeCount, currentReruns, todo, current, populated, skipped,
                   ifaceAge, tick, filterVars>>

\* Mutant of NextTick: always a full interval.
NextTickFull(total) == Interval

NextTick(total) == Interval - (total % Interval)

\* Mutant of Rest: the interface cache is vacuumed once, not periodically.
RestVacuumsOnce ==
    /\ phase = "rest"
    /\ Vacuum
    /\ ifaceAge' = IF scrapeCount = VacuumInterval \/ ifaceAge = -1 THEN -1 ELSE ifaceAge + 1
    /\ \E total \in 0..MaxTotal : tick' = (tick + total + NextTick(total)) % Interval
    /\ buffer' = {[s EXCEPT !.now = FALSE] : s \in buffer}
    /\ phase' = "top"
    /\ UNCHANGED <<enabled, running, scrapeCount, currentReruns, todo, current, populated, payload, skipped>>

\* From namespaceCache.Vacuum to the end of the sleep.
Rest ==
    /\ phase = "rest"
    /\ Vacuum
    /\ ifaceAge' = IF scrapeCount % VacuumInterval = 0 \/ ifaceAge = -1 THEN -1 ELSE ifaceAge + 1
    /\ \E total \in 0..MaxTotal : tick' = (tick + total + NextTick(total)) % Interval
    /\ buffer' = {[s EXCEPT !.now = FALSE] : s \in buffer}
    /\ phase' = "top"
    /\ UNCHANGED <<enabled, running, scrapeCount, currentReruns, todo, current, populated, payload, skipped>>

\* Kubernetes restarts the container; the informers list everything again.
Restart ==
    /\ phase = "exited"
    /\ phase' = "top" /\ running' = FALSE
    /\ scrapeCount' = 0 /\ currentReruns' = 0
    /\ todo' = {} /\ current' = NoEntity /\ populated' = FALSE
    /\ buffer' = {} /\ payload' = {} /\ skipped' = {}
    /\ ifaceAge' = -1 /\ tick' = 0
    /\ cache' = EmptyCache /\ call' = Idle
    /\ seen' = [ns \in Namespaces |-> {store[f][ns] : f \in Filters}]
    /\ UNCHANGED <<enabled, store>>

\* The informers run until the process ends.
Informers ==
    /\ phase # "exited"
    /\ \E f \in Filters, ns \in Namespaces, v \in Stored : InformerUpdate(f, ns, v)
    /\ UNCHANGED loopVars

Main ==
    \/ StartCycle \/ SkipScraper
    \/ \E es \in SUBSET Entities : Fetch(es)
    \/ \E e \in Entities : ProcessUnfiltered(e) \/ AskFilter(e)
    \/ EvaluateFilter \/ ProcessAnswered
    \/ RunSucceeds \/ KSMFails \/ KubeletFails \/ ControlPlaneFails
    \/ PublishOK \/ PublishFails \/ Rest

Next == Main \/ Restart \/ Informers

Spec == Init /\ [][Next]_vars

\* The main goroutine keeps running (every request it makes has a timeout) and
\* Kubernetes restarts a container that ended.
FairSpec == Spec /\ WF_vars(Main) /\ WF_vars(Restart)

-----------------------------------------------------------------------------
(* Properties *)

TypeOK ==
    /\ FilterTypeOK
    /\ enabled \in Configs
    /\ phase \in Phases /\ running \in BOOLEAN
    /\ scrapeCount \in 0..(CountMod - 1)
    /\ currentReruns \in 0..(ScraperMaxReruns + 1)
    /\ todo \subseteq Entities
    /\ current \in Entities \cup {NoEntity}
    /\ populated \in BOOLEAN
    /\ buffer \subseteq Samples /\ payload \subseteq Samples
    /\ skipped \subseteq Entities
    /\ ifaceAge \in Nat \cup {-1}
    /\ tick \in 0..(Interval - 1)

\* A payload holds only metric sets collected in the cycle that publishes it:
\* nothing is left over from an earlier cycle, not even after a kubelet
\* failure that was tolerated.
PayloadOfOneCycle == \A s \in payload : s.now

\* Within one payload a namespace is either allowed or filtered, for KSM and
\* kubelet entities alike, whatever the two informers did meanwhile: if any
\* entity of it was dropped, or its own sample says nrFiltered, then no other
\* entity of it was reported.
OneVerdictPerPayload ==
    \A s \in payload :
        /\ \A e \in skipped : s.entity.ns = e.ns => s.filtered
        /\ \A t \in payload : s.entity.ns = t.entity.ns /\ s.filtered => t.filtered

\* A resolved network interface is used for at most VacuumInterval scrapes,
\* also when scrapeCount wraps around.
InterfaceEntryExpires == ifaceAge < VacuumInterval

\* Every scrape starts a whole number of intervals after the previous one,
\* however long scraping and publishing took.
ScrapesStayOnGrid == tick = 0

\* What a report makes of a namespace is what the selector says of version v.
AgreesWith(ns, v) ==
    /\ \A s \in payload : s.entity.ns = ns => s.filtered = ~Allowed(v)
    /\ \A e \in skipped : e.ns = ns => ~Allowed(v)

\* The reports catch up with the cluster: once both informers hold a namespace
\* in one version for good, then from some report on it is allowed or filtered
\* exactly as the selector says, whatever was decided, cached, half evaluated
\* or reported while its labels changed.
VerdictsCatchUp ==
    \A ns \in Namespaces, v \in Stored :
        <>[](\A f \in Filters : store[f][ns] = v) => <>[]AgreesWith(ns, v)

\* Kubelet failures are never tolerated for ever: if they keep happening,
\* however far apart, the process exits and Kubernetes restarts it.
FailuresEventuallyFatal == []<><<KubeletFails>>_vars => []<>(phase = "exited")

\* The detail of a metric set that a report is about.
Reported(samples) == {[entity |-> s.entity, filtered |-> s.filtered] : s \in samples}

R == INSTANCE Reports
     WITH Subjects <- EntityType, verdict <- cache, held <- Reported(buffer), sent <- Reported(payload)

\* The loop, with its scrapers, filters, informers, failures and restarts,
\* implements the abstract integration: at every step a verdict is only added,
\* only what agrees with the verdicts is gathered, what is gathered is sent
\* whole or lost whole, and verdicts are forgotten only between reports.
ImplementsReports == R!Spec
=============================================================================
