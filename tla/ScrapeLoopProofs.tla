--------------------------- MODULE ScrapeLoopProofs ---------------------------
(***************************************************************************)
(* Safety of the main loop for any entities, any selector and any          *)
(* configuration of scrapers.                                              *)
(***************************************************************************)
EXTENDS ScrapeLoop, TLAPS

-----------------------------------------------------------------------------
(* The cached namespace filter, for any selector, any number of filters that *)
(* share the cache and any schedule of informer updates.                     *)

\* What the stores hold now has been seen.
SeenCovers == \A f \in Filters, ns \in Namespaces : store[f][ns] \in seen[ns]

\* The expressions a call has passed held of versions seen.
PassedAreBacked ==
    call.at = "eval" /\ ~HasMatchLabels =>
        \A i \in 1..(call.expr - 1) :
            /\ MatchExpressions[i].ok
            /\ \E v \in seen[call.ns] : v \in MatchExpressions[i].match

FilterInv ==
    FilterTypeOK /\ SeenCovers /\ PassedAreBacked /\ OneVerdictUntilVacuum /\ VerdictsAreFresh

LEMMA ExpressionsTyped ==
    /\ Len(MatchExpressions) \in Nat
    /\ \A i \in 1..Len(MatchExpressions) : MatchExpressions[i] \in Requirements
<1>1. MatchExpressions \in Seq(Requirements)
  BY SelectorAssumption
<1> QED
  BY <1>1

LEMMA FilterInitInv == FilterInit => FilterInv
<1> SUFFICES ASSUME FilterInit PROVE FilterInv
  OBVIOUS
<1>1. FilterTypeOK
  BY DEF FilterInit, FilterTypeOK, EmptyCache, Calls, Idle, Stored
<1>2. SeenCovers
  BY DEF FilterInit, SeenCovers
<1>3. PassedAreBacked /\ OneVerdictUntilVacuum
  BY DEF FilterInit, PassedAreBacked, OneVerdictUntilVacuum, Idle
<1>4. VerdictsAreFresh
  BY DEF FilterInit, VerdictsAreFresh, EmptyCache
<1> QED
  BY <1>1, <1>2, <1>3, <1>4 DEF FilterInv

LEMMA AskInv ==
    ASSUME FilterInv, NEW f \in Filters, NEW ns \in Namespaces, Ask(f, ns)
    PROVE  FilterInv'
<1>1. call' \in Calls
  <2>1. 1 \in 1..(Len(MatchExpressions) + 1)
    BY ExpressionsTyped
  <2>2. CASE ns \in DOMAIN cache
    BY <2>2 DEF Ask, Calls, Answered, FilterInv, FilterTypeOK
  <2>3. CASE ns \notin DOMAIN cache
    BY <2>1, <2>3 DEF Ask, Calls
  <2> QED
    BY <2>2, <2>3
<1>2. FilterTypeOK' /\ SeenCovers' /\ VerdictsAreFresh'
  BY <1>1 DEF Ask, FilterInv, FilterTypeOK, SeenCovers, VerdictsAreFresh, Allowed, Effective
<1>3. PassedAreBacked' /\ OneVerdictUntilVacuum'
  BY DEF Ask, Answered, PassedAreBacked, OneVerdictUntilVacuum
<1> QED
  BY <1>2, <1>3 DEF FilterInv

\* A call in progress has a namespace and a filter.
LEMMA EvalTyped ==
    ASSUME FilterTypeOK, call.at = "eval"
    PROVE  /\ call.ns \in Namespaces /\ call.filter \in Filters
           /\ call.expr \in 1..(Len(MatchExpressions) + 1)
           /\ call = [at |-> "eval", filter |-> call.filter, ns |-> call.ns, expr |-> call.expr]
BY DEF FilterTypeOK, Calls, Idle

\* Caching a verdict that the versions seen justify keeps the invariant.
LEMMA DecideInv ==
    ASSUME FilterInv, call.at = "eval", NEW b \in BOOLEAN, Decide(b),
           IF b
           THEN IF HasMatchLabels THEN \E v \in seen[call.ns] : Allowed(v)
                ELSE \A i \in 1..Len(MatchExpressions) :
                       Effective(i) => \E v \in seen[call.ns] : v \in MatchExpressions[i].match
           ELSE \E v \in seen[call.ns] : ~Allowed(v)
    PROVE  FilterInv'
<1>1. call.ns \in Namespaces
  BY EvalTyped DEF FilterInv
<1>2. /\ DOMAIN cache' = DOMAIN cache \cup {call.ns}
      /\ cache'[call.ns] = b
      /\ \A n \in DOMAIN cache : n # call.ns => cache'[n] = cache[n]
  BY DEF Decide, Put
<1>3. cache' \in [DOMAIN cache' -> BOOLEAN] /\ DOMAIN cache' \subseteq Namespaces
  BY <1>1 DEF Decide, Put, FilterInv, FilterTypeOK
<1>4. call' = Answered(call.ns, b) /\ seen' = seen /\ store' = store
  BY DEF Decide
<1>5. FilterTypeOK'
  BY <1>1, <1>3, <1>4 DEF FilterInv, FilterTypeOK, Calls, Answered
<1>6. SeenCovers' /\ PassedAreBacked' /\ OneVerdictUntilVacuum'
  BY <1>2, <1>4 DEF FilterInv, SeenCovers, PassedAreBacked, OneVerdictUntilVacuum, Answered
<1>7. VerdictsAreFresh'
  BY <1>2, <1>4 DEF FilterInv, VerdictsAreFresh, Allowed, Effective
<1> QED
  BY <1>5, <1>6, <1>7 DEF FilterInv

LEMMA EvaluateInv == ASSUME FilterInv, Evaluate PROVE FilterInv'
<1>1. call.at = "eval"
  BY DEF Evaluate, EvalLabels, EvalExpression, EvalEnd
<1>2. /\ call.ns \in Namespaces /\ call.filter \in Filters
      /\ call.expr \in 1..(Len(MatchExpressions) + 1)
      /\ call = [at |-> "eval", filter |-> call.filter, ns |-> call.ns, expr |-> call.expr]
  BY <1>1, EvalTyped DEF FilterInv
<1>3. Current \in seen[call.ns]
  BY <1>2 DEF Current, FilterInv, SeenCovers
<1>4. CASE EvalLabels
  <2> DEFINE b == MatchNamespaceByLabels(Current)
  <2>1. b \in BOOLEAN /\ Decide(b) /\ HasMatchLabels
    BY <1>4 DEF EvalLabels, MatchNamespaceByLabels
  <2>2. Allowed(Current) <=> b
    BY <2>1 DEF Allowed
  <2> HIDE DEF b
  <2> QED
    BY <1>1, <1>3, <2>1, <2>2, DecideInv
<1>5. CASE EvalExpression
  <2> DEFINE r == MatchExpressions[call.expr]
  <2>1. call.expr \in 1..Len(MatchExpressions) /\ ~HasMatchLabels
    BY <1>2, <1>5, ExpressionsTyped DEF EvalExpression
  <2>2. r.ok \in BOOLEAN
    BY <2>1, ExpressionsTyped DEF Requirements
  <2>3. CASE r.ok /\ Current \in r.match
    <3>1. call' = [call EXCEPT !.expr = @ + 1] /\ UNCHANGED <<store, cache, seen>>
      BY <1>5, <2>3 DEF EvalExpression
    <3>2. /\ call'.at = "eval" /\ call'.ns = call.ns
          /\ call'.expr = call.expr + 1 /\ call' \in Calls
      BY <1>2, <2>1, <3>1, ExpressionsTyped DEF Calls
    <3>3. PassedAreBacked'
      <4>1. ASSUME NEW i \in 1..call.expr
            PROVE  /\ MatchExpressions[i].ok
                   /\ \E v \in seen[call.ns] : v \in MatchExpressions[i].match
        <5>1. CASE i = call.expr
          BY <1>3, <2>3, <5>1
        <5>2. CASE i # call.expr
          BY <1>1, <1>2, <2>1, <5>2 DEF FilterInv, PassedAreBacked
        <5> QED
          BY <5>1, <5>2
      <4>2. call.expr + 1 - 1 = call.expr
        BY <2>1
      <4>3. call'.expr - 1 = call.expr /\ seen' = seen
        <5>1. call'.expr = call.expr + 1 /\ seen' = seen
          BY <3>1, <3>2
        <5>2. call.expr \in Nat
          BY <2>1
        <5> QED
          BY <5>1, <5>2
      <4>4. \A i \in 1..(call'.expr - 1) : /\ MatchExpressions[i].ok
                                           /\ \E v \in seen'[call'.ns] : v \in MatchExpressions[i].match
        BY <3>2, <4>1, <4>3
      <4> QED
        BY <4>4 DEF PassedAreBacked
    <3>4. FilterTypeOK' /\ SeenCovers' /\ OneVerdictUntilVacuum' /\ VerdictsAreFresh'
      BY <1>1, <3>1, <3>2 DEF FilterInv, FilterTypeOK, SeenCovers, OneVerdictUntilVacuum,
                              VerdictsAreFresh, Allowed, Effective
    <3> QED
      BY <3>3, <3>4 DEF FilterInv
  <2>4. CASE ~(r.ok /\ Current \in r.match)
    <3>1. Decide(~r.ok)
      BY <1>5, <2>4 DEF EvalExpression
    <3>2. CASE r.ok
      <4>1. Effective(call.expr)
        BY <1>1, <2>1, <3>2 DEF Effective, FilterInv, PassedAreBacked
      <4>2. ~Allowed(Current)
        BY <2>1, <2>4, <3>2, <4>1 DEF Allowed
      <4>3. Decide(FALSE)
        BY <3>1, <3>2
      <4> QED
        BY <1>1, <1>3, <4>2, <4>3, DecideInv
    <3>3. CASE ~r.ok
      <4>1. \A i \in 1..Len(MatchExpressions) :
               Effective(i) => \E v \in seen[call.ns] : v \in MatchExpressions[i].match
        BY <1>1, <2>1, <3>3 DEF Effective, FilterInv, PassedAreBacked
      <4>2. Decide(TRUE)
        BY <2>2, <3>1, <3>3
      <4> QED
        BY <1>1, <2>1, <4>1, <4>2, DecideInv
    <3> QED
      BY <2>2, <3>2, <3>3
  <2> QED
    BY <2>3, <2>4
<1>6. CASE EvalEnd
  <2>1. Decide(TRUE) /\ ~HasMatchLabels /\ call.expr - 1 = Len(MatchExpressions)
    <3>1. Decide(TRUE) /\ ~HasMatchLabels /\ call.expr > Len(MatchExpressions)
      BY <1>6 DEF EvalEnd
    <3>2. call.expr \in 1..(Len(MatchExpressions) + 1)
      BY <1>2
    <3>3. call.expr - 1 = Len(MatchExpressions)
      BY <3>1, <3>2, ExpressionsTyped
    <3> QED
      BY <3>1, <3>3
  <2>2. \A i \in 1..Len(MatchExpressions) : \E v \in seen[call.ns] : v \in MatchExpressions[i].match
    BY <1>1, <2>1 DEF FilterInv, PassedAreBacked
  <2> QED
    BY <1>1, <2>1, <2>2, DecideInv
<1> QED
  BY <1>4, <1>5, <1>6 DEF Evaluate

LEMMA AnswerInv == ASSUME FilterInv, Answer PROVE FilterInv'
BY DEF Answer, FilterInv, FilterTypeOK, SeenCovers, PassedAreBacked, OneVerdictUntilVacuum,
       VerdictsAreFresh, Allowed, Effective, Calls, Idle

LEMMA VacuumInv == ASSUME FilterInv, Vacuum PROVE FilterInv'
<1>1. call' = Idle /\ store' = store /\ DOMAIN cache' = {}
  BY DEF Vacuum, EmptyCache
<1>2. FilterTypeOK'
  BY <1>1 DEF Vacuum, FilterInv, FilterTypeOK, EmptyCache, Calls
<1>3. SeenCovers' /\ PassedAreBacked' /\ OneVerdictUntilVacuum' /\ VerdictsAreFresh'
  BY <1>1 DEF Vacuum, SeenCovers, PassedAreBacked, OneVerdictUntilVacuum, VerdictsAreFresh, Idle
<1> QED
  BY <1>2, <1>3 DEF FilterInv

LEMMA InformerInv ==
    ASSUME FilterInv, NEW f \in Filters, NEW ns \in Namespaces, NEW v \in Stored,
           InformerUpdate(f, ns, v)
    PROVE  FilterInv'
<1>1. cache' = cache /\ call' = call
  BY DEF InformerUpdate
<1>2. seen' \in [Namespaces -> SUBSET Stored] /\ \A n \in Namespaces : seen[n] \subseteq seen'[n]
  BY DEF InformerUpdate, FilterInv, FilterTypeOK
<1>3. store' \in [Filters -> [Namespaces -> Stored]]
  BY DEF InformerUpdate, FilterInv, FilterTypeOK
<1>4. FilterTypeOK' /\ OneVerdictUntilVacuum'
  BY <1>1, <1>2, <1>3 DEF FilterInv, FilterTypeOK, OneVerdictUntilVacuum
<1>5. SeenCovers'
  <2> SUFFICES ASSUME NEW g \in Filters, NEW n \in Namespaces
               PROVE  store'[g][n] \in seen'[n]
    BY DEF SeenCovers
  <2>1. CASE g = f /\ n = ns
    BY <2>1 DEF InformerUpdate, FilterInv, FilterTypeOK
  <2>2. CASE ~(g = f /\ n = ns)
    <3>1. store'[g][n] = store[g][n]
      BY <2>2 DEF InformerUpdate, FilterInv, FilterTypeOK
    <3> QED
      BY <1>2, <3>1 DEF FilterInv, SeenCovers
  <2> QED
    BY <2>1, <2>2
<1>6. PassedAreBacked'
  <2>1. CASE call.at = "eval"
    <3>1. call.ns \in Namespaces
      BY <2>1, EvalTyped DEF FilterInv
    <3> QED
      BY <1>1, <1>2, <3>1 DEF FilterInv, PassedAreBacked
  <2>2. CASE call.at # "eval"
    BY <1>1, <2>2 DEF PassedAreBacked
  <2> QED
    BY <2>1, <2>2
<1>7. VerdictsAreFresh'
  <2> SUFFICES ASSUME NEW n \in DOMAIN cache
               PROVE  IF cache[n]
                      THEN IF HasMatchLabels THEN \E w \in seen'[n] : Allowed(w)
                           ELSE \A i \in 1..Len(MatchExpressions) :
                                  Effective(i) => \E w \in seen'[n] : w \in MatchExpressions[i].match
                      ELSE \E w \in seen'[n] : ~Allowed(w)
    BY <1>1 DEF VerdictsAreFresh, Allowed, Effective
  <2>1. seen[n] \subseteq seen'[n]
    BY <1>2 DEF FilterInv, FilterTypeOK
  <2> QED
    BY <2>1 DEF FilterInv, VerdictsAreFresh
<1> QED
  BY <1>4, <1>5, <1>6, <1>7 DEF FilterInv

LEMMA FilterStutterInv == ASSUME FilterInv, UNCHANGED filterVars PROVE FilterInv'
BY DEF filterVars, FilterInv, FilterTypeOK, SeenCovers, PassedAreBacked, OneVerdictUntilVacuum,
       VerdictsAreFresh, Allowed, Effective

LEMMA FilterInductive == FilterSpec => []FilterInv
<1>1. FilterInv /\ [FilterNext]_filterVars => FilterInv'
  BY AskInv, EvaluateInv, AnswerInv, VacuumInv, InformerInv, FilterStutterInv DEF FilterNext
<1> QED
  BY <1>1, FilterInitInv, PTL DEF FilterSpec

\* Every cached verdict is justified by what some informer delivered since the
\* last Vacuum: the filter never acts on older labels.
THEOREM FreshVerdicts == FilterSpec => []VerdictsAreFresh
BY FilterInductive, PTL DEF FilterInv

\* The answers of all filters that share the cache agree between two Vacuums.
THEOREM AgreeingVerdicts == FilterSpec => []OneVerdictUntilVacuum
BY FilterInductive, PTL DEF FilterInv

-----------------------------------------------------------------------------
(* The main loop. *)

\* Where the loop can be: a job runs in the phase of an enabled scraper, on
\* entities of that scraper, and a filter call is under way exactly while an
\* entity waits for its answer.
Control ==
    /\ running => /\ phase \in enabled
                  /\ \A e \in todo : e.src = phase
    /\ current # NoEntity => /\ running /\ current \in todo
                             /\ current.ns # NoNamespace /\ HasSelector
                             /\ call.at \in {"eval", "done"} /\ call.ns = current.ns
    /\ current = NoEntity => call = Idle

\* The integration is empty between cycles, so nothing in it is old.
NothingOld ==
    /\ phase \in {"rest", "top"} => buffer = {}
    /\ \A s \in buffer \cup payload : s.now

\* While a cycle lasts the cache remembers every verdict it acted on.
Acted(s) ==
    IF s.entity.ns = NoNamespace \/ ~HasSelector
    THEN ~s.filtered
    ELSE s.entity.ns \in DOMAIN cache /\ s.filtered = ~cache[s.entity.ns]

Verdicts ==
    /\ ~HasSelector => skipped = {}
    /\ \A e \in skipped : e.ns # NoNamespace
    /\ phase # "top" => /\ \A e \in skipped : e.ns \in DOMAIN cache /\ ~cache[e.ns]
                        /\ \A s \in buffer \cup payload : Acted(s)

LoopInv == TypeOK /\ FilterInv /\ Control /\ NothingOld /\ Verdicts /\ OneVerdictPerPayload

\* Only scrapers are enabled.
LEMMA EnabledScrapers == ASSUME LoopInv PROVE enabled \subseteq Scrapers
BY LoopAssumption DEF LoopInv, TypeOK

\* Actions that leave the filter alone.
QuietStep ==
    \/ StartCycle \/ SkipScraper
    \/ \E es \in SUBSET Entities : Fetch(es)
    \/ \E e \in Entities : ProcessUnfiltered(e)
    \/ RunSucceeds \/ KSMFails \/ KubeletFails \/ ControlPlaneFails
    \/ PublishOK \/ PublishFails

LEMMA QuietUnchanged == QuietStep => UNCHANGED filterVars
BY DEF QuietStep, StartCycle, SkipScraper, Fetch, ProcessUnfiltered, RunSucceeds, KSMFails,
       KubeletFails, ControlPlaneFails, PublishOK, PublishFails, Exit

LEMMA NextCases ==
    Next <=> \/ QuietStep
             \/ \E e \in Entities : AskFilter(e)
             \/ EvaluateFilter \/ ProcessAnswered \/ Rest \/ Restart \/ Informers
BY DEF Next, Main, QuietStep

LEMMA EntityFacts ==
    /\ NoEntity \notin Entities
    /\ \A e \in Entities : /\ e \in EntityType /\ e.kind # "cluster"
                           /\ e.kind \in {"namespace", "object", "plain"}
                           /\ e.ns \in Namespaces \cup {NoNamespace}
                           /\ e.kind = "object" => e.ns \in Namespaces
                           /\ e.kind = "namespace" => e.ns \in Namespaces
                           /\ e.kind = "plain" => e.ns = NoNamespace
                           /\ e.ns # NoNamespace => e.src \in Filters
<1>1. \A e \in EntityType : e.src \in Scrapers
  BY DEF EntityType
<1>2. NoEntity \notin Entities
  BY <1>1, LoopAssumption DEF NoEntity, Scrapers
<1>3. ASSUME NEW e \in Entities
      PROVE  /\ e \in EntityType /\ e.kind # "cluster"
             /\ e.kind \in {"namespace", "object", "plain"}
             /\ e.ns \in Namespaces \cup {NoNamespace}
             /\ e.kind = "object" => e.ns \in Namespaces
             /\ e.kind = "namespace" => e.ns \in Namespaces
             /\ e.kind = "plain" => e.ns = NoNamespace
  BY LoopAssumption DEF EntityType
<1>4. ASSUME NEW e \in Entities, e.ns # NoNamespace PROVE e.src \in Filters
  BY <1>1, <1>3, <1>4, LoopAssumption DEF Scrapers
<1> QED
  BY <1>2, <1>3, <1>4

-----------------------------------------------------------------------------
LEMMA RestartFilter == ASSUME LoopInv, Restart PROVE FilterInv'
<1>1. call' = Idle /\ store' = store /\ DOMAIN cache' = {} /\ cache' = EmptyCache
      /\ seen' = [ns \in Namespaces |-> {store[f][ns] : f \in Filters}]
  BY DEF Restart, EmptyCache
<1>2. FilterTypeOK'
  BY <1>1 DEF LoopInv, FilterInv, FilterTypeOK, EmptyCache, Calls
<1>3. SeenCovers' /\ PassedAreBacked' /\ OneVerdictUntilVacuum' /\ VerdictsAreFresh'
  BY <1>1 DEF SeenCovers, PassedAreBacked, OneVerdictUntilVacuum, VerdictsAreFresh, Idle
<1> QED
  BY <1>2, <1>3 DEF FilterInv

LEMMA FilterPart == ASSUME LoopInv, [Next]_vars PROVE FilterInv'
<1> USE DEF LoopInv
<1>1. CASE QuietStep \/ UNCHANGED vars
  BY <1>1, QuietUnchanged, FilterStutterInv DEF vars
<1>2. CASE \E e \in Entities : AskFilter(e)
  <2>1. PICK e \in Entities : AskFilter(e)
    BY <1>2
  <2>2. phase \in Filters /\ e.ns \in Namespaces
    BY <2>1, EntityFacts DEF AskFilter, Control
  <2> QED
    BY <2>1, <2>2, AskInv DEF AskFilter
<1>3. CASE EvaluateFilter
  BY <1>3, EvaluateInv DEF EvaluateFilter
<1>4. CASE ProcessAnswered
  BY <1>4, AnswerInv DEF ProcessAnswered
<1>5. CASE Rest
  BY <1>5, VacuumInv DEF Rest
<1>6. CASE Restart
  BY <1>6, RestartFilter
<1>7. CASE Informers
  BY <1>7, InformerInv DEF Informers
<1> QED
  BY <1>1, <1>2, <1>3, <1>4, <1>5, <1>6, <1>7, NextCases

\* A cached verdict survives every step but Vacuum.
LEMMA EvaluateKeeps ==
    ASSUME FilterInv, Evaluate
    PROVE  \A n \in DOMAIN cache : n \in DOMAIN cache' /\ cache'[n] = cache[n]
<1>1. call.at = "eval"
  BY DEF Evaluate, EvalLabels, EvalExpression, EvalEnd
<1>2. cache' = cache \/ \E b : Put(call.ns, b)
  BY DEF Evaluate, EvalLabels, EvalExpression, EvalEnd, Decide
<1>3. call.ns \notin DOMAIN cache
  BY <1>1 DEF FilterInv, OneVerdictUntilVacuum
<1> QED
  BY <1>2, <1>3 DEF Put

-----------------------------------------------------------------------------
LEMMA SampleTyped ==
    ASSUME NEW e \in EntityType, NEW full \in BOOLEAN, NEW filtered \in BOOLEAN
    PROVE  Sample(e, full, filtered) \in Samples
BY DEF Sample, Samples

LEMMA ClusterTyped ==
    ASSUME NEW p \in Scrapers
    PROVE  [src |-> p, kind |-> "cluster", ns |-> NoNamespace] \in EntityType
BY DEF EntityType

LEMMA ProcessTyped ==
    ASSUME TypeOK, NEW e \in Entities, NEW a, Process(e, a)
    PROVE  /\ todo' \subseteq Entities /\ current' = NoEntity
           /\ populated' \in BOOLEAN /\ buffer' \subseteq Samples /\ skipped' \subseteq Entities
<1>1. \A full \in BOOLEAN : Sample(e, full, e.kind = "namespace" /\ ~a) \in Samples
  BY SampleTyped, EntityFacts
<1>2. populated' \in BOOLEAN
  BY DEF Process, TypeOK
<1>3. buffer' \subseteq Samples
  BY <1>1 DEF Process, TypeOK
<1> QED
  BY <1>2, <1>3 DEF Process, TypeOK

LEMMA TypePart == ASSUME LoopInv, [Next]_vars PROVE TypeOK'
<1> USE DEF LoopInv
<1>0. FilterTypeOK'
  BY FilterPart DEF FilterInv
<1>1. CASE UNCHANGED vars
  BY <1>0, <1>1 DEF TypeOK, vars, loopVars
<1>2. CASE StartCycle
  <2>1. scrapeCount' \in 0..(CountMod - 1)
    BY <1>2, LoopAssumption DEF StartCycle, TypeOK
  <2> QED
    BY <1>0, <1>2, <2>1 DEF StartCycle, TypeOK, Phases, Scrapers
<1>3. CASE SkipScraper
  BY <1>0, <1>3 DEF SkipScraper, TypeOK, Phases, Scrapers, After
<1>4. CASE \E es \in SUBSET Entities : Fetch(es)
  BY <1>0, <1>4 DEF Fetch, TypeOK
<1>5. CASE \E e \in Entities : ProcessUnfiltered(e)
  <2>1. PICK e \in Entities : ProcessUnfiltered(e)
    BY <1>5
  <2>2. Process(e, TRUE)
    BY <2>1 DEF ProcessUnfiltered
  <2>3. /\ todo' \subseteq Entities /\ current' = NoEntity
        /\ populated' \in BOOLEAN /\ buffer' \subseteq Samples /\ skipped' \subseteq Entities
    BY <2>2, ProcessTyped
  <2> QED
    BY <1>0, <2>1, <2>3 DEF ProcessUnfiltered, TypeOK
<1>6. CASE \E e \in Entities : AskFilter(e)
  BY <1>0, <1>6 DEF AskFilter, TypeOK
<1>7. CASE EvaluateFilter \/ Informers
  BY <1>0, <1>7 DEF EvaluateFilter, Informers, TypeOK, loopVars
<1>8. CASE ProcessAnswered
  <2>1. current \in Entities /\ Process(current, call.answer)
    BY <1>8 DEF ProcessAnswered, TypeOK
  <2>2. /\ todo' \subseteq Entities /\ current' = NoEntity
        /\ populated' \in BOOLEAN /\ buffer' \subseteq Samples /\ skipped' \subseteq Entities
    BY <2>1, ProcessTyped
  <2> QED
    BY <1>0, <1>8, <2>2 DEF ProcessAnswered, TypeOK
<1>9. CASE RunSucceeds
  <2>1. phase \in Scrapers
    BY <1>9, EnabledScrapers DEF RunSucceeds, RunEnds, Control
  <2>2. buffer' \subseteq Samples
    BY <1>9, <2>1, ClusterTyped, SampleTyped DEF RunSucceeds, TypeOK
  <2>3. phase' \in Phases
    BY <1>9, <2>1 DEF RunSucceeds, After, Phases, Scrapers
  <2> QED
    BY <1>0, <1>9, <2>2, <2>3 DEF RunSucceeds, TypeOK
<1>10. CASE KSMFails \/ ControlPlaneFails
  BY <1>0, <1>10 DEF KSMFails, ControlPlaneFails, Exit, TypeOK, Phases
<1>11. CASE KubeletFails
  <2>1. CASE IsMaxRerunReached
    BY <1>0, <1>11, <2>1 DEF KubeletFails, Exit, TypeOK, Phases
  <2>2. CASE ~IsMaxRerunReached
    <3>1. currentReruns' \in 0..(ScraperMaxReruns + 1)
      BY <1>11, <2>2, LoopAssumption DEF KubeletFails, IsMaxRerunReached, TypeOK
    <3> QED
      BY <1>0, <1>11, <2>2, <3>1 DEF KubeletFails, TypeOK, Phases, Scrapers, After
  <2> QED
    BY <2>1, <2>2
<1>12. CASE PublishOK \/ PublishFails
  BY <1>0, <1>12 DEF PublishOK, PublishFails, TypeOK, Phases
<1>13. CASE Rest
  <2>1. buffer' = {}
    BY <1>13 DEF Rest, NothingOld
  <2>2. tick' \in 0..(Interval - 1)
    BY <1>13, LoopAssumption DEF Rest, NextTick, TypeOK
  <2>3. ifaceAge' \in Nat \cup {-1}
    BY <1>13 DEF Rest, TypeOK
  <2> QED
    BY <1>0, <1>13, <2>1, <2>2, <2>3 DEF Rest, TypeOK, Phases
<1>14. CASE Restart
  <2>1. scrapeCount' \in 0..(CountMod - 1) /\ tick' \in 0..(Interval - 1)
        /\ currentReruns' \in 0..(ScraperMaxReruns + 1)
    BY <1>14, LoopAssumption DEF Restart
  <2> QED
    BY <1>0, <1>14, <2>1 DEF Restart, TypeOK, Phases
<1> QED
  BY <1>1, <1>2, <1>3, <1>4, <1>5, <1>6, <1>7, <1>8, <1>9, <1>10, <1>11, <1>12, <1>13, <1>14,
     NextCases DEF QuietStep

-----------------------------------------------------------------------------
LEMMA ControlPart == ASSUME LoopInv, [Next]_vars PROVE Control'
<1> USE DEF LoopInv
<1>1. CASE UNCHANGED vars
  BY <1>1 DEF Control, vars, loopVars, filterVars
<1>2. CASE QuietStep
  <2>1. call' = call /\ current' = current /\ (current # NoEntity => current' # NoEntity)
    BY <1>2, QuietUnchanged DEF filterVars, QuietStep, StartCycle, SkipScraper, Fetch,
       ProcessUnfiltered, Process, RunSucceeds, KSMFails, KubeletFails, ControlPlaneFails,
       PublishOK, PublishFails, Exit
  <2>2. CASE StartCycle \/ SkipScraper \/ (\E es \in SUBSET Entities : Fetch(es))
    BY <2>1, <2>2, EnabledScrapers
       DEF Control, StartCycle, SkipScraper, Fetch, Scrapers
  <2>3. CASE \E e \in Entities : ProcessUnfiltered(e)
    BY <2>1, <2>3 DEF Control, ProcessUnfiltered, Process
  <2>4. CASE RunSucceeds \/ KSMFails \/ KubeletFails \/ ControlPlaneFails
    <3>1. running' = FALSE
      BY <2>4 DEF RunSucceeds, KSMFails, KubeletFails, ControlPlaneFails, Exit
    <3>2. current = NoEntity
      BY <2>4 DEF Control, RunSucceeds, KSMFails, KubeletFails, ControlPlaneFails, RunEnds
    <3> QED
      BY <2>1, <3>1, <3>2 DEF Control
  <2>5. CASE PublishOK \/ PublishFails
    BY <2>1, <2>5, EnabledScrapers DEF Control, PublishOK, PublishFails, Scrapers
  <2> QED
    BY <1>2, <2>2, <2>3, <2>4, <2>5 DEF QuietStep
<1>3. CASE \E e \in Entities : AskFilter(e)
  BY <1>3, EntityFacts DEF AskFilter, Ask, Answered, Control, Idle
<1>4. CASE EvaluateFilter
  <2>1. call.at = "eval" /\ call'.at \in {"eval", "done"} /\ call'.ns = call.ns
    <3>1. call.at = "eval"
      BY <1>4 DEF EvaluateFilter, Evaluate, EvalLabels, EvalExpression, EvalEnd
    <3>2. call = [at |-> "eval", filter |-> call.filter, ns |-> call.ns, expr |-> call.expr]
      BY <3>1, EvalTyped DEF FilterInv
    <3>3. \/ \E b : call' = Answered(call.ns, b)
          \/ call' = [call EXCEPT !.expr = @ + 1]
      BY <1>4 DEF EvaluateFilter, Evaluate, EvalLabels, EvalExpression, EvalEnd, Decide
    <3>4. ASSUME NEW b, call' = Answered(call.ns, b)
          PROVE  call'.at \in {"eval", "done"} /\ call'.ns = call.ns
      BY <3>4 DEF Answered
    <3>5. CASE call' = [call EXCEPT !.expr = @ + 1]
      BY <3>1, <3>2, <3>5
    <3> QED
      BY <3>1, <3>3, <3>4, <3>5
  <2> QED
    BY <1>4, <2>1 DEF EvaluateFilter, loopVars, Control, Idle
<1>5. CASE ProcessAnswered
  BY <1>5 DEF ProcessAnswered, Process, Answer, Control
<1>6. CASE Rest
  BY <1>6, EnabledScrapers DEF Rest, Vacuum, Control, Scrapers
<1>7. CASE Restart
  BY <1>7 DEF Restart, Control
<1>8. CASE Informers
  BY <1>8 DEF Informers, InformerUpdate, loopVars, Control
<1> QED
  BY <1>1, <1>2, <1>3, <1>4, <1>5, <1>6, <1>7, <1>8, NextCases

LEMMA OldPart == ASSUME LoopInv, [Next]_vars PROVE NothingOld'
<1> USE DEF LoopInv
<1>1. CASE UNCHANGED vars \/ EvaluateFilter \/ Informers
  BY <1>1 DEF NothingOld, vars, loopVars, EvaluateFilter, Informers
<1>2. CASE StartCycle \/ SkipScraper \/ (\E es \in SUBSET Entities : Fetch(es))
           \/ (\E e \in Entities : AskFilter(e))
  BY <1>2, LoopAssumption DEF NothingOld, StartCycle, SkipScraper, Fetch, AskFilter, Scrapers, After
<1>3. CASE (\E e \in Entities : ProcessUnfiltered(e)) \/ ProcessAnswered
  <2>1. phase \notin {"rest", "top"} /\ phase' = phase /\ payload' = payload
    BY <1>3, EnabledScrapers DEF ProcessUnfiltered, ProcessAnswered, Control, Scrapers
  <2>2. \A s \in buffer' : s \in buffer \/ s.now
    BY <1>3 DEF ProcessUnfiltered, ProcessAnswered, Process, Sample
  <2> QED
    BY <2>1, <2>2 DEF NothingOld
<1>4. CASE RunSucceeds
  <2>1. phase' \notin {"rest", "top"} /\ payload' = payload
    BY <1>4, EnabledScrapers DEF RunSucceeds, RunEnds, Control, Scrapers, After
  <2>2. \A s \in buffer' : s \in buffer \/ s.now
    BY <1>4 DEF RunSucceeds, Sample
  <2> QED
    BY <2>1, <2>2 DEF NothingOld
<1>5. CASE KSMFails \/ KubeletFails \/ ControlPlaneFails
  BY <1>5 DEF NothingOld, KSMFails, KubeletFails, ControlPlaneFails, Exit, After
<1>6. CASE PublishOK \/ PublishFails
  BY <1>6 DEF NothingOld, PublishOK, PublishFails
<1>7. CASE Rest
  BY <1>7 DEF NothingOld, Rest
<1>8. CASE Restart
  BY <1>8 DEF NothingOld, Restart
<1> QED
  BY <1>1, <1>2, <1>3, <1>4, <1>5, <1>6, <1>7, <1>8, NextCases DEF QuietStep

-----------------------------------------------------------------------------
\* Processing an entity whose namespace has verdict a in the cache.
LEMMA ProcessVerdict ==
    ASSUME LoopInv, NEW e \in Entities, NEW a \in BOOLEAN, Process(e, a),
           cache' = cache, payload' = payload, phase' = phase, phase # "top",
           IF e.ns = NoNamespace \/ ~HasSelector
           THEN a ELSE e.ns \in DOMAIN cache /\ a = cache[e.ns]
    PROVE  Verdicts'
<1> USE DEF LoopInv
<1>1. \A x \in skipped' : x \in skipped \/ (x = e /\ e.kind = "object" /\ ~a)
  BY DEF Process
<1>2. ASSUME NEW s \in buffer' PROVE Acted(s)'
  <2>1. CASE s \in buffer
    BY <2>1 DEF Verdicts, Acted
  <2>2. CASE s \notin buffer
    <3>1. PICK full \in BOOLEAN : s = Sample(e, full, e.kind = "namespace" /\ ~a)
      BY <1>2, <2>2 DEF Process
    <3>2. s.entity = e /\ s.filtered = (e.kind = "namespace" /\ ~a)
      BY <3>1 DEF Sample
    <3>3. e.kind = "object" => a
      BY <1>2, <2>2 DEF Process
    <3> QED
      BY <3>2, <3>3, EntityFacts DEF Acted
  <2> QED
    BY <2>1, <2>2
<1>3. ASSUME NEW s \in payload' PROVE Acted(s)'
  BY <1>3 DEF Verdicts, Acted
<1>4. e.kind = "object" /\ ~a => e.ns # NoNamespace /\ HasSelector /\ e.ns \in DOMAIN cache /\ ~cache[e.ns]
  BY EntityFacts, LoopAssumption
<1> QED
  BY <1>1, <1>2, <1>3, <1>4 DEF Verdicts

LEMMA VerdictPart == ASSUME LoopInv, [Next]_vars PROVE Verdicts'
<1> USE DEF LoopInv
<1>1. CASE UNCHANGED vars
  BY <1>1 DEF Verdicts, Acted, vars, loopVars, filterVars
<1>2. CASE StartCycle
  <2>1. buffer' = {} /\ payload' = {} /\ skipped' = {}
    BY <1>2 DEF StartCycle, NothingOld
  <2> QED
    BY <2>1 DEF Verdicts
<1>3. CASE \/ SkipScraper \/ (\E es \in SUBSET Entities : Fetch(es)) \/ KSMFails \/ KubeletFails
           \/ ControlPlaneFails \/ (\E e \in Entities : AskFilter(e)) \/ Informers
  <2>1. UNCHANGED <<buffer, payload, skipped, cache>> /\ (phase # "top" \/ phase' = phase)
    BY <1>3, LoopAssumption DEF SkipScraper, Fetch, KSMFails, KubeletFails, ControlPlaneFails,
       AskFilter, Ask, Informers, InformerUpdate, Exit, loopVars, filterVars, Scrapers
  <2> QED
    BY <2>1 DEF Verdicts, Acted
<1>4. CASE \E e \in Entities : ProcessUnfiltered(e)
  <2>1. PICK e \in Entities : ProcessUnfiltered(e)
    BY <1>4
  <2>2. phase # "top"
    BY <2>1, EnabledScrapers DEF ProcessUnfiltered, Control, Scrapers
  <2> QED
    BY <2>1, <2>2, ProcessVerdict DEF ProcessUnfiltered, filterVars
<1>5. CASE ProcessAnswered
  <2>1. /\ current \in Entities /\ Process(current, call.answer) /\ call.at = "done"
        /\ current.ns # NoNamespace /\ HasSelector /\ call.ns = current.ns
    BY <1>5 DEF ProcessAnswered, Answer, TypeOK, Control
  <2>2. call.answer \in BOOLEAN /\ current.ns \in DOMAIN cache /\ call.answer = cache[current.ns]
    BY <2>1 DEF FilterInv, FilterTypeOK, OneVerdictUntilVacuum
  <2>3. phase # "top" /\ cache' = cache /\ payload' = payload /\ phase' = phase
    BY <1>5, EnabledScrapers DEF ProcessAnswered, Answer, Control, Scrapers
  <2> QED
    BY <2>1, <2>2, <2>3, ProcessVerdict
<1>6. CASE EvaluateFilter
  <2>1. UNCHANGED loopVars
    BY <1>6 DEF EvaluateFilter
  <2>2. \A n \in DOMAIN cache : n \in DOMAIN cache' /\ cache'[n] = cache[n]
    BY <1>6, EvaluateKeeps DEF EvaluateFilter
  <2> QED
    BY <2>1, <2>2 DEF loopVars, Verdicts, Acted
<1>7. CASE RunSucceeds
  <2>1. UNCHANGED <<payload, skipped, cache>> /\ phase # "top"
    BY <1>7, EnabledScrapers DEF RunSucceeds, RunEnds, Control, Scrapers, filterVars
  <2>2. \A s \in buffer' : s \in buffer \/ (s.entity.ns = NoNamespace /\ s.filtered = FALSE)
    BY <1>7 DEF RunSucceeds, Sample
  <2> QED
    BY <2>1, <2>2 DEF Verdicts, Acted
<1>8. CASE PublishOK \/ PublishFails
  <2>1. UNCHANGED <<skipped, cache>> /\ phase # "top" /\ buffer' = {} /\ payload' \in {buffer, {}}
    BY <1>8 DEF PublishOK, PublishFails, filterVars
  <2> QED
    BY <2>1 DEF Verdicts, Acted
<1>9. CASE Rest
  BY <1>9 DEF Rest, Verdicts
<1>10. CASE Restart
  BY <1>10 DEF Restart, Verdicts
<1> QED
  BY <1>1, <1>2, <1>3, <1>4, <1>5, <1>6, <1>7, <1>8, <1>9, <1>10, NextCases DEF QuietStep

\* In every phase but "top" the payload's agreement follows from the cache; at
\* the top the payload and the skipped entities are those of the phase before.
LEMMA AgreementFromCache ==
    ASSUME Verdicts, phase # "top"
    PROVE  OneVerdictPerPayload
<1>1. ASSUME NEW s \in payload, NEW e \in skipped, s.entity.ns = e.ns PROVE s.filtered
  BY <1>1 DEF Verdicts, Acted
<1>2. ASSUME NEW s \in payload, NEW t \in payload, s.entity.ns = t.entity.ns, s.filtered
      PROVE  t.filtered
  BY <1>2 DEF Verdicts, Acted
<1> QED
  BY <1>1, <1>2 DEF OneVerdictPerPayload

LEMMA AgreementPart == ASSUME LoopInv, [Next]_vars PROVE OneVerdictPerPayload'
<1>1. Verdicts'
  BY VerdictPart
<1>2. CASE phase' # "top"
  <2>1. Verdicts' /\ (phase # "top")' => OneVerdictPerPayload'
    BY AgreementFromCache, PTL
  <2> QED
    BY <1>1, <1>2, <2>1
<1>3. CASE phase' = "top"
  <2>1. payload' = {} \/ UNCHANGED <<payload, skipped>>
    BY <1>3, EnabledScrapers DEF Next, Main, StartCycle, SkipScraper, Fetch, ProcessUnfiltered, AskFilter,
       EvaluateFilter, ProcessAnswered, RunSucceeds, KSMFails, KubeletFails, ControlPlaneFails,
       PublishOK, PublishFails, Rest, Restart, Informers, vars, loopVars, Exit, LoopInv, Control, Scrapers
  <2> QED
    BY <2>1 DEF LoopInv, OneVerdictPerPayload
<1> QED
  BY <1>2, <1>3

-----------------------------------------------------------------------------
LEMMA InitLoopInv == Init => LoopInv
<1> SUFFICES ASSUME Init PROVE LoopInv
  OBVIOUS
<1>1. FilterInv
  BY FilterInitInv DEF Init
<1>2. TypeOK
  <2>1. 0 \in 0..(CountMod - 1) /\ 0 \in 0..(Interval - 1) /\ 0 \in 0..(ScraperMaxReruns + 1)
    BY LoopAssumption
  <2> QED
    BY <1>1, <2>1 DEF Init, ProcessInit, TypeOK, FilterInv, Phases
<1>3. Control
  BY DEF Init, ProcessInit, FilterInit, Control
<1>4. NothingOld /\ Verdicts /\ OneVerdictPerPayload
  BY DEF Init, ProcessInit, NothingOld, Verdicts, OneVerdictPerPayload
<1> QED
  BY <1>1, <1>2, <1>3, <1>4 DEF LoopInv

LEMMA LoopInductive == Spec => []LoopInv
<1>1. LoopInv /\ [Next]_vars => LoopInv'
  BY FilterPart, TypePart, ControlPart, OldPart, VerdictPart, AgreementPart DEF LoopInv
<1> QED
  BY <1>1, InitLoopInv, PTL DEF Spec

\* Types, including that the kubelet is rerun at most ScraperMaxReruns + 1
\* times before its failure ends the process.
THEOREM LoopTypeCorrect == Spec => []TypeOK
BY LoopInductive, PTL DEF LoopInv

\* Nothing is published in a later cycle than the one that collected it.
THEOREM PayloadsAreCurrent == Spec => []PayloadOfOneCycle
<1>1. LoopInv => PayloadOfOneCycle
  BY DEF LoopInv, NothingOld, PayloadOfOneCycle
<1> QED
  BY <1>1, LoopInductive, PTL

\* One payload never reports some entities of a namespace and filters others,
\* whatever the informers of the two scrapers do while the cycle runs.
THEOREM PayloadsAgree == Spec => []OneVerdictPerPayload
BY LoopInductive, PTL DEF LoopInv

\* No verdict acted on in a cycle dates from before the previous Vacuum.
THEOREM LoopFreshVerdicts == Spec => []VerdictsAreFresh
<1>1. LoopInv => VerdictsAreFresh
  BY DEF LoopInv, FilterInv
<1> QED
  BY <1>1, LoopInductive, PTL

-----------------------------------------------------------------------------
(* The clock and the interface cache *)

\* Division with remainder, which the provers know, in the form they can use.
LEMMA DivMod ==
  ASSUME NEW m \in Nat \ {0}, NEW a \in Nat
  PROVE  a % m \in 0..(m - 1) /\ a \div m \in Nat /\ a = m * (a \div m) + (a % m)
OBVIOUS

LEMMA ModUnique ==
  ASSUME NEW m \in Nat \ {0}, NEW q \in Nat, NEW r \in 0..(m - 1)
  PROVE  (m * q + r) % m = r
OBVIOUS

LEMMA ModNext ==
  ASSUME NEW m \in Nat \ {0}, NEW c \in Nat
  PROVE  (c + 1) % m = IF c % m = m - 1 THEN 0 ELSE (c % m) + 1
<1> DEFINE q == c \div m
           r == c % m
<1>1. r \in 0..(m - 1) /\ q \in Nat /\ c = m * q + r
  BY DivMod
<1> HIDE DEF q, r
<1>2. CASE r = m - 1
  <2>1. c + 1 = m * (q + 1) + 0
    BY <1>1, <1>2
  <2>2. (m * (q + 1) + 0) % m = 0
    BY <1>1, ModUnique
  <2>3. (c + 1) % m = 0
    BY <2>1, <2>2
  <2> QED
    BY <1>2, <2>3 DEF r
<1>3. CASE r # m - 1
  <2>1. c + 1 = m * q + (r + 1) /\ r + 1 \in 0..(m - 1)
    BY <1>1, <1>3
  <2>2. (c + 1) % m = r + 1
    BY <1>1, <2>1, ModUnique
  <2> QED
    BY <1>3, <2>2 DEF r
<1> QED
  BY <1>2, <1>3

\* Sleeping to the next tick of the grid ends on the grid.
LEMMA SleepEndsOnGrid ==
  ASSUME NEW m \in Nat \ {0}, NEW a \in Nat
  PROVE  (0 + a + (m - (a % m))) % m = 0
<1> DEFINE q == a \div m
           r == a % m
<1>1. r \in 0..(m - 1) /\ q \in Nat /\ a = m * q + r
  BY DivMod
<1> HIDE DEF q, r
<1>2. 0 + a + (m - r) = m * (q + 1) + 0
  BY <1>1
<1>3. (m * (q + 1) + 0) % m = 0
  BY <1>1, ModUnique
<1>4. (0 + a + (m - r)) % m = 0
  BY <1>2, <1>3
<1> QED
  BY <1>4 DEF r

\* How long an entry of the interface cache can have been there: no longer than
\* the scrapes since the last one whose number VacuumInterval divides.  At the
\* wrap of scrapeCount such a number comes early.
Age ==
    IF phase = "top" THEN ifaceAge <= scrapeCount % VacuumInterval
    ELSE IF scrapeCount % VacuumInterval = 0 THEN ifaceAge < VacuumInterval
    ELSE ifaceAge < scrapeCount % VacuumInterval

Steady == tick = 0 /\ Age

LEMMA SteadyStep == ASSUME LoopInv, Steady, [Next]_vars PROVE Steady'
<1> DEFINE r == scrapeCount % VacuumInterval
<1>t. /\ scrapeCount \in Nat /\ VacuumInterval \in Nat \ {0} /\ ifaceAge \in Int /\ ifaceAge >= -1
      /\ r \in 0..(VacuumInterval - 1) /\ r \in Int /\ Interval \in Nat \ {0}
      /\ CountMod \in Nat \ {0} /\ 0 % VacuumInterval = 0
  BY LoopAssumption DEF LoopInv, TypeOK
<1>1. CASE StartCycle
  <2>1. phase = "top" /\ phase' = "ksm" /\ ifaceAge' = ifaceAge /\ tick' = tick
        /\ scrapeCount' = (scrapeCount + 1) % CountMod
    BY <1>1 DEF StartCycle
  <2>2. ifaceAge <= r
    BY <2>1 DEF Steady, Age
  <2>3. scrapeCount' = 0 \/ scrapeCount' = scrapeCount + 1
    <3>1. scrapeCount + 1 \in 0..CountMod
      BY <1>t DEF LoopInv, TypeOK
    <3>2. CASE scrapeCount + 1 = CountMod
      <4>1. CountMod % CountMod = 0
        BY <1>t
      <4> QED
        BY <2>1, <3>2, <4>1
    <3>3. CASE scrapeCount + 1 < CountMod
      BY <1>t, <2>1, <3>3
    <3> QED
      BY <3>1, <3>2, <3>3, <1>t
  <2>4. (scrapeCount + 1) % VacuumInterval = IF r = VacuumInterval - 1 THEN 0 ELSE r + 1
    BY <1>t, ModNext
  <2>5. scrapeCount' % VacuumInterval \in {0, r + 1}
    BY <2>3, <2>4, <1>t
  <2> HIDE DEF r
  <2>6. Age'
    BY <2>1, <2>2, <2>5, <1>t DEF Age
  <2> QED
    BY <2>1, <2>6 DEF Steady
<1>2. CASE Rest
  <2>1. PICK total \in 0..MaxTotal : tick' = (tick + total + NextTick(total)) % Interval
    BY <1>2 DEF Rest
  <2>2. tick' = 0
    <3>1. total \in Nat
      BY LoopAssumption
    <3>2. tick' = (0 + total + (Interval - (total % Interval))) % Interval
      BY <2>1 DEF Steady, NextTick
    <3> QED
      BY <3>1, <3>2, <1>t, SleepEndsOnGrid
  <2>3. phase = "rest" /\ phase' = "top" /\ scrapeCount' = scrapeCount
        /\ ifaceAge' = IF r = 0 \/ ifaceAge = -1 THEN -1 ELSE ifaceAge + 1
    BY <1>2 DEF Rest
  <2>4. r # 0 => ifaceAge < r
    BY <2>3 DEF Steady, Age
  <2>5. ifaceAge' <= scrapeCount' % VacuumInterval
    <3>1. scrapeCount' % VacuumInterval = r
      BY <2>3
    <3> HIDE DEF r
    <3> QED
      BY <2>3, <2>4, <3>1, <1>t
  <2> QED
    BY <2>2, <2>3, <2>5 DEF Steady, Age
<1>3. CASE \E e \in Entities : ProcessUnfiltered(e)
  <2>1. UNCHANGED <<phase, scrapeCount, tick>> /\ ifaceAge' \in {0, ifaceAge} /\ running
    BY <1>3 DEF ProcessUnfiltered
  <2>2. phase # "top"
    BY <2>1, EnabledScrapers DEF LoopInv, Control, Scrapers
  <2>3. scrapeCount' % VacuumInterval = r
    BY <2>1
  <2>4. IF r = 0 THEN ifaceAge < VacuumInterval ELSE ifaceAge < r
    BY <2>2 DEF Steady, Age
  <2> HIDE DEF r
  <2>5. IF r = 0 THEN ifaceAge' < VacuumInterval ELSE ifaceAge' < r
    BY <2>1, <2>4, <1>t
  <2> QED
    BY <2>1, <2>2, <2>3, <2>5 DEF Steady, Age
<1>4. CASE Restart
  <2>1. phase' = "top" /\ scrapeCount' = 0 /\ ifaceAge' = -1 /\ tick' = 0
    BY <1>4 DEF Restart
  <2> QED
    BY <2>1, <1>t DEF Steady, Age
<1>5. CASE /\ UNCHANGED <<scrapeCount, ifaceAge, tick>>
           /\ phase' = "top" <=> phase = "top"
  BY <1>5 DEF Steady, Age
<1>6. [Next]_vars => \/ StartCycle \/ Rest \/ \E e \in Entities : ProcessUnfiltered(e)
                     \/ Restart
                     \/ /\ UNCHANGED <<scrapeCount, ifaceAge, tick>>
                        /\ phase' = "top" <=> phase = "top"
  BY EnabledScrapers DEF Next, Main, SkipScraper, Fetch, AskFilter, EvaluateFilter, ProcessAnswered,
     RunSucceeds, RunEnds, KSMFails, KubeletFails, ControlPlaneFails, PublishOK, PublishFails,
     Informers, Exit, After, Scrapers, vars, loopVars, LoopInv, Control
<1> QED
  BY <1>1, <1>2, <1>3, <1>4, <1>5, <1>6

LEMMA SteadyInductive == Spec => []Steady
<1>1. Init => Steady
  <2>1. 0 % VacuumInterval = 0
    BY LoopAssumption
  <2> QED
    BY <2>1 DEF Init, ProcessInit, Steady, Age
<1> QED
  BY <1>1, SteadyStep, LoopInductive, PTL DEF Spec

\* However long scraping and publishing take, also longer than an interval, the
\* scrapes of a process start whole intervals apart.
THEOREM LoopOnGrid == Spec => []ScrapesStayOnGrid
<1>1. Steady => ScrapesStayOnGrid
  BY DEF Steady, ScrapesStayOnGrid
<1> QED
  BY <1>1, SteadyInductive, PTL

\* For every vacuum interval, and whether or not it divides the value at which
\* scrapeCount wraps, a network interface once resolved is not kept for longer
\* than that many scrapes.
THEOREM InterfacesExpire == Spec => []InterfaceEntryExpires
<1>1. LoopInv /\ Steady => InterfaceEntryExpires
  BY LoopAssumption DEF LoopInv, TypeOK, Steady, Age, InterfaceEntryExpires
<1> QED
  BY <1>1, LoopInductive, SteadyInductive, PTL

-----------------------------------------------------------------------------
(* The refinement *)

\* Emptying or extending the integration, as the abstract state shows it.
LEMMA ReportedFacts ==
    /\ Reported({}) = {}
    /\ \A b, c : Reported(b \cup c) = Reported(b) \cup Reported(c)
    /\ \A s : Reported({s}) = {[entity |-> s.entity, filtered |-> s.filtered]}
BY DEF Reported

\* A step that leaves the cache and both sets alone is a stutter.
LEMMA ReportStutter == ASSUME UNCHANGED <<cache, buffer, payload>> PROVE UNCHANGED R!vars
BY DEF R!vars, Reported

\* Processing an entity holds at most its entry, by the cache's verdict.
LEMMA ProcessHolds ==
    ASSUME LoopInv, NEW e \in Entities, NEW a \in BOOLEAN, Process(e, a),
           cache' = cache, payload' = payload,
           IF e.ns = NoNamespace \/ ~HasSelector
           THEN a ELSE e.ns \in DOMAIN cache /\ a = cache[e.ns]
    PROVE  [R!Next]_R!vars
<1>1. CASE buffer' = buffer
  BY <1>1, ReportStutter
<1>2. CASE buffer' # buffer
  <2>1. PICK full \in BOOLEAN : buffer' = buffer \cup {Sample(e, full, e.kind = "namespace" /\ ~a)}
    BY <1>2 DEF Process
  <2> DEFINE m == Sample(e, full, e.kind = "namespace" /\ ~a)
             s == [entity |-> m.entity, filtered |-> m.filtered]
  <2>2. Reported(buffer') = Reported(buffer) \cup {s}
    <3>1. buffer' = buffer \cup {m} /\ Reported({m}) = {s}
      BY <2>1, ReportedFacts
    <3> HIDE DEF m, s
    <3> QED
      BY <3>1, ReportedFacts
  <2>7. m.entity = e /\ m.filtered = (e.kind = "namespace" /\ ~a)
    BY DEF Sample
  <2>3. e.kind = "object" => a
    BY <1>2 DEF Process
  <2>4. s \in R!Entries
    BY <2>7, EntityFacts DEF R!Entries
  <2>5. R!Agrees(s)
    BY <2>3, <2>7, EntityFacts DEF R!Agrees
  <2>6. R!Hold(s)
    BY <2>2, <2>5 DEF R!Hold, Reported
  <2> QED
    BY <2>4, <2>6 DEF R!Next
<1> QED
  BY <1>1, <1>2

\* A verdict is put in the cache once.
LEMMA EvaluateDecides ==
    ASSUME LoopInv, EvaluateFilter
    PROVE  [R!Next]_R!vars
<1>1. call.at = "eval" /\ UNCHANGED <<buffer, payload>>
  BY DEF EvaluateFilter, Evaluate, EvalLabels, EvalExpression, EvalEnd, loopVars
<1>2. call.ns \notin DOMAIN cache /\ call.ns \in Namespaces
  BY <1>1, EvalTyped DEF LoopInv, FilterInv, OneVerdictUntilVacuum
<1>3. cache' = cache \/ \E b \in BOOLEAN : Put(call.ns, b)
  BY DEF EvaluateFilter, Evaluate, EvalLabels, EvalExpression, EvalEnd, Decide,
         MatchNamespaceByLabels
<1>4. CASE cache' = cache
  BY <1>1, <1>4, ReportStutter
<1>5. CASE \E b \in BOOLEAN : Put(call.ns, b)
  <2>1. PICK b \in BOOLEAN : Put(call.ns, b)
    BY <1>5
  <2>2. R!Decide(call.ns, b)
    BY <1>1, <1>2, <2>1 DEF R!Decide, Put, Reported
  <2> QED
    BY <1>2, <2>2 DEF R!Next
<1> QED
  BY <1>3, <1>4, <1>5

LEMMA ReportStep == ASSUME LoopInv, [Next]_vars PROVE [R!Next]_R!vars
<1>1. CASE \/ UNCHANGED vars \/ SkipScraper \/ (\E es \in SUBSET Entities : Fetch(es)) \/ KSMFails
           \/ KubeletFails \/ ControlPlaneFails \/ (\E e \in Entities : AskFilter(e)) \/ Informers
  <2>1. UNCHANGED <<cache, buffer, payload>>
    BY <1>1 DEF vars, loopVars, filterVars, SkipScraper, Fetch, KSMFails, KubeletFails,
       ControlPlaneFails, AskFilter, Ask, Informers, InformerUpdate, Exit
  <2> QED
    BY <2>1, ReportStutter
<1>2. CASE StartCycle
  <2>1. UNCHANGED <<cache, buffer>> /\ payload' = {}
    BY <1>2 DEF StartCycle, filterVars
  <2>2. R!Begin
    BY <2>1, ReportedFacts DEF R!Begin, Reported
  <2> QED
    BY <2>2 DEF R!Next
<1>3. CASE \E e \in Entities : ProcessUnfiltered(e)
  BY <1>3, ProcessHolds DEF ProcessUnfiltered, filterVars
<1>4. CASE ProcessAnswered
  <2>1. /\ current \in Entities /\ Process(current, call.answer) /\ call.at = "done"
        /\ current.ns # NoNamespace /\ HasSelector /\ call.ns = current.ns
    BY <1>4 DEF ProcessAnswered, Answer, LoopInv, TypeOK, Control
  <2>2. call.answer \in BOOLEAN /\ current.ns \in DOMAIN cache /\ call.answer = cache[current.ns]
    BY <2>1 DEF LoopInv, FilterInv, FilterTypeOK, OneVerdictUntilVacuum
  <2>3. cache' = cache /\ payload' = payload
    BY <1>4 DEF ProcessAnswered, Answer
  <2> QED
    BY <2>1, <2>2, <2>3, ProcessHolds
<1>5. CASE EvaluateFilter
  BY <1>5, EvaluateDecides
<1>6. CASE RunSucceeds
  <2>1. UNCHANGED <<cache, payload>>
    BY <1>6 DEF RunSucceeds, filterVars
  <2>2. CASE ~populated
    BY <1>6, <2>1, <2>2, ReportStutter DEF RunSucceeds
  <2>3. CASE populated
    <3> DEFINE e == [src |-> phase, kind |-> "cluster", ns |-> NoNamespace]
               m == Sample(e, TRUE, FALSE)
               s == [entity |-> m.entity, filtered |-> m.filtered]
    <3>1. e \in EntityType /\ e.ns = NoNamespace
      BY <1>6, EnabledScrapers, ClusterTyped DEF RunSucceeds, RunEnds, LoopInv, Control
    <3>2. buffer' = buffer \cup {Sample(e, TRUE, FALSE)}
      BY <1>6, <2>3 DEF RunSucceeds
    <3>3. Reported(buffer') = Reported(buffer) \cup {s}
      <4>1. buffer' = buffer \cup {m} /\ Reported({m}) = {s}
        BY <3>2, ReportedFacts
      <4> HIDE DEF m, s
      <4> QED
        BY <4>1, ReportedFacts
    <3>5. m.entity = e /\ m.filtered = FALSE
      BY DEF Sample
    <3>4. R!Hold(s) /\ s \in R!Entries
      BY <2>1, <3>1, <3>3, <3>5 DEF R!Hold, R!Agrees, R!Entries, Reported
    <3> QED
      BY <3>4 DEF R!Next
  <2> QED
    BY <2>2, <2>3 DEF LoopInv, TypeOK
<1>7. CASE PublishOK \/ PublishFails
  <2>1. cache' = cache /\ buffer' = {} /\ payload' \in {buffer, {}}
    BY <1>7 DEF PublishOK, PublishFails, filterVars
  <2>2. R!Send \/ R!Lose
    BY <2>1, ReportedFacts DEF R!Send, R!Lose
  <2> QED
    BY <2>2 DEF R!Next
<1>8. CASE Rest
  <2>1. buffer = {} /\ buffer' = {} /\ payload' = payload /\ cache' = EmptyCache
    BY <1>8 DEF Rest, Vacuum, LoopInv, NothingOld
  <2>2. R!Forget
    BY <2>1, ReportedFacts DEF R!Forget, R!Undecided, EmptyCache, Reported
  <2> QED
    BY <2>2 DEF R!Next
<1>9. CASE Restart
  <2>1. buffer' = {} /\ payload' = {} /\ cache' = EmptyCache
    BY <1>9 DEF Restart
  <2>2. R!Crash
    BY <2>1, ReportedFacts DEF R!Crash, R!Undecided, EmptyCache
  <2> QED
    BY <2>2 DEF R!Next
<1> QED
  BY <1>1, <1>2, <1>3, <1>4, <1>5, <1>6, <1>7, <1>8, <1>9, NextCases DEF QuietStep

\* The loop implements the abstract integration: for any scrapers, entities and
\* selector, its reports are whole, of one gathering and of one verdict for each
\* namespace.
THEOREM LoopImplementsReports == Spec => ImplementsReports
<1>1. Init => R!Init
  BY ReportedFacts DEF Init, ProcessInit, FilterInit, EmptyCache, R!Init, R!Undecided
<1>2. LoopInv /\ [Next]_vars => [R!Next]_R!vars
  BY ReportStep
<1> QED
  BY <1>1, <1>2, LoopInductive, PTL DEF Spec, ImplementsReports, R!Spec
=============================================================================
