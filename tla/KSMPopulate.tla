----------------------------- MODULE KSMPopulate -----------------------------
(***************************************************************************)
(* One KSM job: its grouper turns the series of an answer into raw groups, *)
(* adds the selectors of the services the API server lists, and            *)
(* IntegrationPopulator makes an entity with a metric set of every group   *)
(* entry, in the order of a Go map, that is in any order.                  *)
(*                                                                         *)
(* A series is [family, labels, value].  A label's name is the sequence of *)
(* its parts: <<"namespace">>, <<"label", "app">> for label_app.  So is an *)
(* attribute's: <<"createdAt">>, <<"label", "app">> for label.app.  An     *)
(* entity ID is the sequence of the names joined in it; Kubernetes names   *)
(* hold no underscore, so different sequences are different IDs.           *)
(*                                                                         *)
(* Where the code takes what the iteration over a map gives first, an      *)
(* operator below is the SET of what it may return.                        *)
(***************************************************************************)
EXTENDS Integers, FiniteSets, Sequences

CONSTANTS Responses,   \* what KSM may answer: sequences of series
          Listings,    \* what the services lister may return: maps from
                       \* <<namespace, name>> to a map of selectors
          Allowances   \* the sets of namespaces the filter may allow

VARIABLES stage,       \* of the job: "idle", "populate", "done"
          quotas,      \* EnableResourceQuotaSamples
          response, services, allowed,
          groups,      \* RawGroups
          todo,        \* entries of groups still to be populated
          samples,     \* metric sets of the integration
          errs,        \* errors so far: the entry, or what else failed
          populated

populateVars == <<stage, quotas, response, services, allowed, groups, todo, samples, errs, populated>>

NoMap == [x \in {} |-> x]
key :> value == [x \in {key} |-> value]
f @@ g == [x \in DOMAIN f \cup DOMAIN g |-> IF x \in DOMAIN f THEN f[x] ELSE g[x]]
Get(map, key) == IF key \in DOMAIN map THEN map[key] ELSE NoMap

-----------------------------------------------------------------------------
\* GroupMetricsBySpec.  A raw value is one Metric, or a slice once a second
\* series of the family has come for the same entity.
Has(m, l) == <<l>> \in DOMAIN m.labels
Label(m, l) == IF Has(m, l) THEN m.labels[<<l>>] ELSE ""

ClusterScoped == {"namespace", "node", "persistentvolume"}

BelongsTo(g, m) ==
    /\ Has(m, g)
    /\ g = "node" => ~Has(m, "pod")
    /\ g = "namespace" => \A l \in {"daemonset", "pod", "endpoint", "service",
                                     "deployment", "replicaset"} : ~Has(m, l)

\* Mutant of RawEntityID: objects of different namespaces share an entry.
RawEntityIDByName(g, m) == IF g \in ClusterScoped THEN <<Label(m, g)>> ELSE <<"", Label(m, g)>>

RawEntityID(g, m) ==
    CASE g \in ClusterScoped -> <<Label(m, g)>>
      [] g = "container" -> <<Label(m, "namespace"), Label(m, "pod"), Label(m, g)>>
      [] OTHER -> <<Label(m, "namespace"), Label(m, g)>>

One(m) == [slice |-> FALSE, ms |-> <<m>>]
Slice(ms) == [slice |-> TRUE, ms |-> ms]

AddMetric(group, id, m) ==
    LET metrics == Get(group, id)
        raw == IF m.family \in DOMAIN metrics
                 THEN Slice(Append(metrics[m.family].ms, m)) ELSE One(m)
    IN (id :> ((m.family :> raw) @@ metrics)) @@ group

\* The group after each turn of the loop over the series.
GroupOf(g, series) ==
    LET group[k \in 0..Len(series)] ==
          IF k = 0 THEN NoMap
          ELSE IF BelongsTo(g, series[k])
            THEN AddMetric(group[k - 1], RawEntityID(g, series[k]), series[k])
            ELSE group[k - 1]
    IN group

GroupMetrics(g, series) == GroupOf(g, series)[Len(series)]

\* addServiceSpecSelectorToGroup: a Metric without the label namespace.
Selectors == "apiserver_kube_service_spec_selectors"

SelectorMetric(selector) ==
    [family |-> Selectors, value |-> 0,
     labels |-> [l \in {<<"selector", k>> : k \in DOMAIN selector} |-> selector[l[2]]]]

AddSelectors(group, listed) ==
    [id \in DOMAIN group |->
        IF id \in DOMAIN listed THEN (Selectors :> One(SelectorMetric(listed[id]))) @@ group[id]
                                ELSE group[id]]

-----------------------------------------------------------------------------
\* Fetch functions.  The result of one is an error, nil, or a map of values.
Err == [kind |-> "error", values |-> NoMap]
Nil == [kind |-> "nil", values |-> NoMap]
Values(map) == [kind |-> "values", values |-> map]

Num(n) == [num |-> n]
Txt(s) == [txt |-> s]

HasRaw(gs, g, id, key) ==
    g \in DOMAIN gs /\ id \in DOMAIN gs[g] /\ key \in DOMAIN gs[g][id]

FromRaw(gs, g, id, key) == gs[g][id][key]

\* The values of the series at some positions, added up.
SumAt(ms, positions) ==
    LET sum[k \in 0..Len(ms)] ==
          IF k = 0 THEN 0 ELSE sum[k - 1] + (IF k \in positions THEN ms[k].value ELSE 0)
    IN sum[Len(ms)]

\* FromValue: the series of a slice become attributes named after their labels.
FromValue(gs, g, id, spec) ==
    LET raw == FromRaw(gs, g, id, spec.key)
        Name(m) == <<spec.key, {<<l, m.labels[l]>> : l \in DOMAIN m.labels}>>
    IN IF ~HasRaw(gs, g, id, spec.key) THEN Err
       ELSE IF ~raw.slice THEN Values(<<spec.name>> :> Num(raw.ms[1].value))
       ELSE Values([a \in {Name(raw.ms[i]) : i \in DOMAIN raw.ms} |->
                        Num(SumAt(raw.ms, {i \in DOMAIN raw.ms : Name(raw.ms[i]) = a}))])

\* CountFromValueWithLabelsFilter with the filter {"ready": spec.arg}: a family
\* that is absent counts as an empty slice, a single Metric is not filtered.
CountReady(gs, g, id, spec) ==
    LET raw == FromRaw(gs, g, id, spec.key)
    IN Values(<<spec.name>> :>
         Num(IF ~HasRaw(gs, g, id, spec.key) THEN 0
             ELSE IF ~raw.slice THEN raw.ms[1].value
             ELSE SumAt(raw.ms, {i \in DOMAIN raw.ms : Label(raw.ms[i], "ready") = spec.arg})))

\* FromLabelValue: of a slice, the first series.
FromLabelValue(gs, g, id, spec) ==
    IF /\ HasRaw(gs, g, id, spec.key)
       /\ Has(FromRaw(gs, g, id, spec.key).ms[1], spec.arg)
      THEN Values(<<spec.name>> :> Txt(Label(FromRaw(gs, g, id, spec.key).ms[1], spec.arg)))
      ELSE Err

\* Subtract of two FromValue.
Subtract(gs, g, id, spec) ==
    LET Single(key) == HasRaw(gs, g, id, key) /\ ~FromRaw(gs, g, id, key).slice
        Value(key) == FromRaw(gs, g, id, key).ms[1].value
    IN IF Single(spec.key) /\ Single(spec.arg)
         THEN Values(<<spec.name>> :> Num(Value(spec.key) - Value(spec.arg))) ELSE Err

\* FromFlattenedMetrics: one attribute for each value of the label spec.arg, that
\* of the last series that has it.
FromFlattenedMetrics(gs, g, id, spec) ==
    LET raw == FromRaw(gs, g, id, spec.key)
        Of(i) == <<Label(raw.ms[i], spec.arg)>>
        with == {i \in DOMAIN raw.ms : Has(raw.ms[i], spec.arg)}
        Last(a) == CHOOSE i \in with : Of(i) = a /\ \A j \in with : Of(j) = a => j <= i
    IN IF ~HasRaw(gs, g, id, spec.key) THEN Err
       ELSE IF ~raw.slice THEN Nil
       ELSE Values([a \in {Of(i) : i \in with} |-> Num(raw.ms[Last(a)].value)])

\* prefix_x and x both become prefix.x: when a metric has both, either value may
\* be the one that stays.
Prefixed(prefix, l) == <<prefix>> \o (IF Len(l) > 1 /\ l[1] = prefix THEN Tail(l) ELSE l)

PrefixedLabels(m, prefix) ==
    LET names == {Prefixed(prefix, l) : l \in DOMAIN m.labels}
        Candidates(a) == {Txt(m.labels[l]) : l \in {k \in DOMAIN m.labels : Prefixed(prefix, k) = a}}
    IN {map \in [names -> UNION {Candidates(a) : a \in names}] :
            \A a \in names : map[a] \in Candidates(a)}

\* FromMetricWithPrefixedLabels
OwnLabels(gs, g, id, spec) ==
    IF ~HasRaw(gs, g, id, spec.key) THEN {Nil}
    ELSE IF FromRaw(gs, g, id, spec.key).slice THEN {Err}
    ELSE {Values(map) : map \in PrefixedLabels(FromRaw(gs, g, id, spec.key).ms[1], spec.arg)}

-----------------------------------------------------------------------------
\* getRandomMetric and getRandomMetricWithLabels: any Metric that qualifies.
Singles(metrics) == {metrics[k].ms[1] : k \in {f \in DOMAIN metrics : ~metrics[f].slice}}

\* Mutant of RelatedIn: any Metric is taken for one with the labels.
RelatedInAny(metrics, parent) == Singles(metrics)

RelatedIn(metrics, parent) ==
    IF parent \in ClusterScoped
      THEN Singles(metrics)
      ELSE {m \in Singles(metrics) : Has(m, "namespace") /\ Has(m, parent)}

\* getRawEntityID, <<>> standing for its error.
ParentIDs(metrics, parent) ==
    {IF ~Has(m, parent) \/ (parent \notin ClusterScoped /\ ~Has(m, "namespace")) THEN <<>>
     ELSE IF parent \in ClusterScoped THEN <<Label(m, parent)>>
     ELSE <<Label(m, "namespace"), Label(m, parent)>> : m \in RelatedIn(metrics, parent)}

\* labelsFromMetric: InheritAllLabelsFrom, InheritAllSelectorsFrom.
InheritLabels(gs, g, id, spec) ==
    LET parents == ParentIDs(gs[g][id], spec.parent)
        From(p) == IF /\ HasRaw(gs, spec.parent, p, spec.key)
                      /\ ~FromRaw(gs, spec.parent, p, spec.key).slice
                     THEN {Values(map) : map \in
                             PrefixedLabels(FromRaw(gs, spec.parent, p, spec.key).ms[1], spec.arg)}
                     ELSE {Err}
    IN IF parents = {} THEN {Err} ELSE UNION {From(p) : p \in parents}

-----------------------------------------------------------------------------
\* The tables of specs.  Of several specs that read a value or a label of the
\* entity in the same way one is kept.
Spec4(name, fetch, key, arg) ==
    [name |-> name, fetch |-> fetch, key |-> key, arg |-> arg, parent |-> "", optional |-> FALSE]
Optional(spec) == [spec EXCEPT !.optional = TRUE]
Inherit(name, parent, key, prefix) == [Spec4(name, "inherit", key, prefix) EXCEPT !.parent = parent]

NamespaceSpecs ==
    <<Spec4("createdAt", "value", "kube_namespace_created", ""),
      Spec4("namespaceName", "label", "kube_namespace_created", "namespace"),
      Spec4("label.*", "own", "kube_namespace_labels", "label")>>

\* Mutant of DeploymentSpecs: the labels of the namespace come last.
DeploymentSpecsNamespaceLast ==
    <<Spec4("label.*", "own", "kube_deployment_labels", "label"),
      Inherit("label.*", "namespace", "kube_namespace_labels", "label")>>

DeploymentSpecs ==
    <<Spec4("createdAt", "value", "kube_deployment_created", ""),
      Spec4("podsDesired", "value", "kube_deployment_spec_replicas", ""),
      Spec4("deploymentName", "label", "kube_deployment_created", "deployment"),
      Inherit("label.*", "namespace", "kube_namespace_labels", "label"),
      Spec4("label.*", "own", "kube_deployment_labels", "label"),
      Spec4("podsMissing", "subtract", "kube_deployment_spec_replicas",
            "kube_deployment_status_replicas")>>

ServiceSpecs ==
    <<Spec4("createdAt", "value", "kube_service_created", ""),
      Optional(Spec4("clusterIP", "label", "kube_service_info", "cluster_ip")),
      Spec4("label.*", "own", "kube_service_labels", "label"),
      Inherit("selector.*", "service", Selectors, "selector")>>

EndpointSpecs ==
    <<Spec4("createdAt", "value", "kube_endpoint_created", ""),
      Optional(Spec4("addressAvailable", "value", "kube_endpoint_address_available", "")),
      Optional(Spec4("addressNotReady", "value", "kube_endpoint_address_not_ready", "")),
      Optional(Spec4("addressAvailable", "count", "kube_endpoint_address", "true")),
      Optional(Spec4("addressNotReady", "count", "kube_endpoint_address", "false"))>>

QuotaSpecs ==
    <<Spec4("createdAt", "value", "kube_resourcequota_created", ""),
      Spec4("resourcequotaName", "label", "kube_resourcequota_created", "resourcequota"),
      Spec4("resource", "label", "kube_resourcequota", "resource"),
      Spec4("resource.*", "flattened", "kube_resourcequota", "type"),
      Optional(Spec4("label.*", "own", "kube_resourcequota_labels", "label"))>>

Specs == [namespace |-> NamespaceSpecs, deployment |-> DeploymentSpecs, service |-> ServiceSpecs,
          endpoint |-> EndpointSpecs, resourcequota |-> QuotaSpecs]

\* The family the ID and the type of an entity are taken from.
Created == [namespace |-> "kube_namespace_created", deployment |-> "kube_deployment_created",
            service |-> "kube_service_created", endpoint |-> "kube_endpoint_created",
            resourcequota |-> "kube_resourcequota_created"]

\* What KSM's exposition is relied on for.  A label name has at least one part.
\* The series that describe an object name it (those of a namespace are not
\* taken for another object's), and an object has one of each family, a
\* quota one for each resource and type.
Describes == [kube_namespace_created |-> "namespace", kube_namespace_labels |-> "namespace",
              kube_deployment_created |-> "deployment", kube_deployment_labels |-> "deployment",
              kube_service_created |-> "service", kube_endpoint_created |-> "endpoint",
              kube_resourcequota_created |-> "resourcequota", kube_resourcequota |-> "resourcequota"]

AllSeries == UNION {{series[i] : i \in DOMAIN series} : series \in Responses}

SameObject(m, k) ==
    /\ m.family = k.family /\ m.family \in DOMAIN Describes
    /\ \A l \in {"namespace", Describes[m.family]} : Label(m, l) = Label(k, l)
    /\ m.family = "kube_resourcequota" => \A l \in {"resource", "type"} : Label(m, l) = Label(k, l)

ASSUME ResponseAssumption ==
    /\ Responses \subseteq Seq(AllSeries)
    /\ \A m \in AllSeries :
         /\ DOMAIN m.labels \subseteq Seq(STRING) \ {<<>>}
         /\ m.family \in DOMAIN Describes => BelongsTo(Describes[m.family], m)
         /\ m.family = "kube_resourcequota" =>
              Has(m, "resource") /\ Has(m, "type") /\ Label(m, "type") \in {"hard", "used"}
    /\ \A series \in Responses : \A i, j \in DOMAIN series :
         SameObject(series[i], series[j]) => i = j

Fetch(gs, g, id, spec) ==
    CASE spec.fetch = "value" -> {FromValue(gs, g, id, spec)}
      [] spec.fetch = "label" -> {FromLabelValue(gs, g, id, spec)}
      [] spec.fetch = "count" -> {CountReady(gs, g, id, spec)}
      [] spec.fetch = "subtract" -> {Subtract(gs, g, id, spec)}
      [] spec.fetch = "flattened" -> {FromFlattenedMetrics(gs, g, id, spec)}
      [] spec.fetch = "own" -> OwnLabels(gs, g, id, spec)
      [] spec.fetch = "inherit" -> InheritLabels(gs, g, id, spec)

\* metricSetPopulate: every spec in order, a later value replacing an earlier.
ApplySpec(acc, spec, result) ==
    CASE result.kind = "error" -> [acc EXCEPT !.failed = @ \cup (IF spec.optional THEN {} ELSE {spec.name})]
      [] result.kind = "nil" -> acc
      [] result.kind = "values" -> [acc EXCEPT !.attrs = result.values @@ @,
                                               !.populated = @ \/ result.values # NoMap]

MetricSets(gs, g, id) ==
    LET sets[k \in 0..Len(Specs[g])] ==
          IF k = 0 THEN {[attrs |-> NoMap, failed |-> {}, populated |-> FALSE]}
          ELSE {ApplySpec(x[1], Specs[g][k], x[2]) :
                   x \in sets[k - 1] \X Fetch(gs, g, id, Specs[g][k])}
    IN sets

MetricSetPopulate(gs, g, id) == MetricSets(gs, g, id)[Len(Specs[g])]

-----------------------------------------------------------------------------
\* TypeGenerator and IDGenerator, <<>> standing for their errors.
LabelOf(gs, g, id, label) ==
    FromLabelValue(gs, g, id, [name |-> "", key |-> Created[g], arg |-> label])

TypeOf(gs, g, id) ==
    IF g \in ClusterScoped THEN <<g>>
    ELSE LET ns == LabelOf(gs, g, id, "namespace")
         IN IF ns = Err \/ ns.values[<<"">>] = Txt("") THEN <<>> ELSE <<ns.values[<<"">>].txt, g>>

IDOf(gs, g, id) ==
    IF g = "namespace" THEN id
    ELSE LET name == LabelOf(gs, g, id, g)
         IN IF name = Err THEN <<>> ELSE <<name.values[<<"">>].txt>>

\* Mutant of SplitGroup: every sub-entity keeps the whole slice.
SplitGroupWhole(metrics) ==
    LET ms == metrics["kube_resourcequota"].ms
    IN [r \in {Label(ms[i], "resource") : i \in {j \in DOMAIN ms : Has(ms[j], "resource")}} |-> metrics]

\* The series of each resource after each turn of splitGroup's loop.
SplitOf(ms) ==
    LET split[k \in 0..Len(ms)] ==
          IF k = 0 THEN NoMap
          ELSE IF ~Has(ms[k], "resource") THEN split[k - 1]
          ELSE LET r == Label(ms[k], "resource")
                   so_far == IF r \in DOMAIN split[k - 1] THEN split[k - 1][r] ELSE <<>>
               IN (r :> Append(so_far, ms[k])) @@ split[k - 1]
    IN split

\* splitGroup of a quota by resource, in which the other families are shared.
SplitGroup(metrics) ==
    LET ms == metrics["kube_resourcequota"].ms
        split == SplitOf(ms)[Len(ms)]
    IN [r \in DOMAIN split |-> ("kube_resourcequota" :> Slice(split[r])) @@ metrics]

\* prepareProcessingUnits: the entities of an entry with the metrics of each, or
\* nothing when it fails.
UnitsOf(gs, g, id) ==
    LET metrics == gs[g][id]
        slice == "kube_resourcequota" \in DOMAIN metrics /\ metrics["kube_resourcequota"].slice
    IN IF TypeOf(gs, g, id) = <<>> \/ (g = "resourcequota" /\ ~slice)
         THEN [ok |-> FALSE, of |-> NoMap]
       ELSE IF g = "resourcequota"
         THEN [ok |-> TRUE, of |-> [u \in {Append(id, r) : r \in DOMAIN SplitGroup(metrics)} |->
                                        SplitGroup(metrics)[u[Len(u)]]]]
       ELSE [ok |-> IDOf(gs, g, id) # <<>>, of |-> IDOf(gs, g, id) :> metrics]

\* FromLabelGetNamespace: of any Metric that has the label.
NamespacesOf(metrics) ==
    LET found == {Label(m, "namespace") : m \in Singles(metrics)} \ {""}
    IN IF found = {} THEN {""} ELSE found

-----------------------------------------------------------------------------
PopulateInit ==
    /\ stage = "idle" /\ quotas \in BOOLEAN
    /\ response = <<>> /\ services = NoMap /\ allowed = {}
    /\ groups = NoMap /\ todo = {} /\ samples = {} /\ errs = {} /\ populated = FALSE

\* The grouper cannot query KSM: nothing is populated.
QueryFails ==
    /\ stage = "idle"
    /\ response' = <<>> /\ groups' = NoMap /\ samples' = {} /\ populated' = FALSE
    /\ errs' = {<<"query">>}
    /\ UNCHANGED <<stage, quotas, services, allowed, todo>>

\* grouper.Group.  Groups without data and a lister that fails are recoverable
\* errors.
Group(series, listed, listOK) ==
    LET found == {g \in DOMAIN Specs : DOMAIN GroupMetrics(g, series) # {}}
        kept == found \ (IF quotas THEN {} ELSE {"resourcequota"})
        grouped == [g \in kept |-> IF g = "service" /\ listOK
                                     THEN AddSelectors(GroupMetrics(g, series), listed)
                                     ELSE GroupMetrics(g, series)]
    IN /\ stage = "idle" /\ stage' = "populate"
       /\ response' = series /\ services' = IF listOK THEN listed ELSE NoMap
       /\ groups' = grouped
       /\ todo' = UNION {{<<g, id>> : id \in DOMAIN grouped[g]} : g \in kept}
       /\ errs' = {<<g>> : g \in DOMAIN Specs \ found}
                     \cup (IF ~listOK /\ "service" \in found THEN {<<"services">>} ELSE {})
       /\ allowed' \in Allowances
       /\ samples' = {} /\ populated' = FALSE
       /\ UNCHANGED quotas

Skip(g, id) ==
    /\ g # "namespace" /\ \E ns \in NamespacesOf(groups[g][id]) : ns \notin allowed
    /\ UNCHANGED <<samples, errs, populated>>

UnitsFail(g, id) ==
    /\ g # "namespace" => \E ns \in NamespacesOf(groups[g][id]) : ns \in allowed
    /\ ~UnitsOf(groups, g, id).ok
    /\ errs' = errs \cup {<<g, id>>}
    /\ UNCHANGED <<samples, populated>>

\* processEntities: each unit sees the other groups as they are and, of its own
\* group, only itself, under the ID of the entry.
ProcessEntities(g, id) ==
    LET units == UnitsOf(groups, g, id).of
        Sets(u) == MetricSetPopulate((g :> (id :> units[u])) @@ groups, g, id)
    IN \E ns \in NamespacesOf(groups[g][id]) :
         /\ g # "namespace" => ns \in allowed
         /\ UnitsOf(groups, g, id).ok
         /\ \E ms \in [DOMAIN units -> UNION {Sets(u) : u \in DOMAIN units}] :
              /\ \A u \in DOMAIN units : ms[u] \in Sets(u)
              /\ samples' = samples \cup
                    {[group |-> g, type |-> TypeOf(groups, g, id), id |-> u,
                      filtered |-> g = "namespace" /\ ns \notin allowed,
                      attrs |-> ms[u].attrs] : u \in DOMAIN units}
              /\ errs' = errs \cup {<<g, id>> : u \in {v \in DOMAIN units : ms[v].failed # {}}}
              /\ populated' = (populated \/ \E u \in DOMAIN units : ms[u].populated)

\* One turn of IntegrationPopulator's loops.
PopulateEntry(g, id) ==
    /\ stage = "populate" /\ <<g, id>> \in todo
    /\ todo' = todo \ {<<g, id>>}
    /\ Skip(g, id) \/ UnitsFail(g, id) \/ ProcessEntities(g, id)
    /\ UNCHANGED <<stage, quotas, response, services, allowed, groups>>

ClusterSample == [group |-> "cluster", type |-> <<"cluster">>, id |-> <<>>, filtered |-> FALSE,
                  attrs |-> NoMap]

\* populateCluster, and what Job.Populate returns when nothing was populated.
Finish ==
    /\ stage = "populate" /\ todo = {}
    /\ stage' = "done"
    /\ samples' = samples \cup (IF populated THEN {ClusterSample} ELSE {})
    /\ errs' = errs \cup (IF populated THEN {} ELSE {<<"no data">>})
    /\ UNCHANGED <<quotas, response, services, allowed, groups, todo, populated>>

\* The next scrape finds an empty integration.
NextScrape ==
    /\ stage = "done" /\ stage' = "idle"
    /\ response' = <<>> /\ services' = NoMap /\ allowed' = {}
    /\ groups' = NoMap /\ samples' = {} /\ errs' = {} /\ populated' = FALSE
    /\ UNCHANGED <<quotas, todo>>

PopulateNext ==
    \/ QueryFails
    \/ \E series \in Responses, listed \in Listings, listOK \in BOOLEAN : Group(series, listed, listOK)
    \/ \E e \in todo : PopulateEntry(e[1], e[2])
    \/ Finish
    \/ NextScrape

PopulateSpec == PopulateInit /\ [][PopulateNext]_populateVars

-----------------------------------------------------------------------------
\* The positions in the answer of the series of one object, the objects that
\* it reports as created (their namespaces and names), and their samples.
SeriesOf(family, ns, label, name) ==
    {i \in DOMAIN response : /\ response[i].family = family
                             /\ Label(response[i], "namespace") = ns /\ Label(response[i], label) = name}
Names(g) == {<<Label(response[i], "namespace"), Label(response[i], g)>> :
                i \in {j \in DOMAIN response : response[j].family = Created[g]}}
SamplesOf(g, ns) == {s \in samples : s.group = g /\ s.type = <<ns, g>>}

\* Every object KSM reports as created is accounted for once a job is done: in a
\* namespace that is not allowed it has no sample, otherwise it has one (a quota
\* one for each resource) or an error was returned for it, in whatever order
\* the entries were populated.
EveryObjectAccounted ==
    stage = "done" =>
      \A g \in DOMAIN Specs \ ({"namespace"} \cup (IF quotas THEN {} ELSE {"resourcequota"})) :
        \A o \in Names(g) :
          LET mine == {s \in SamplesOf(g, o[1]) :
                          s.id = <<o[2]>> \/ (g = "resourcequota" /\ SubSeq(s.id, 1, 2) = o)}
          IN IF o[1] \in allowed THEN mine # {} \/ <<g, o>> \in errs ELSE mine = {}

\* The samples of a quota are those of its resources: one for each, with the
\* hard and used values of the series of that quota, namespace and resource,
\* although the quota's series also went to the group of its namespace and were
\* split after being collected.
QuotaSplitByResource ==
    \A s \in samples : s.group = "resourcequota" =>
      LET own == {i \in SeriesOf("kube_resourcequota", s.type[1], "resourcequota", s.id[2]) :
                     Label(response[i], "resource") = s.id[3]}
          types == {Label(response[i], "type") : i \in own}
      IN /\ s.id[1] = s.type[1] /\ types # {}
         /\ s.attrs[<<"resource">>] = Txt(s.id[3])
         /\ {a \in DOMAIN s.attrs : a \in {<<"hard">>, <<"used">>}} = {<<t>> : t \in types}
         /\ \A i \in own : s.attrs[<<Label(response[i], "type")>>] = Num(response[i].value)

\* A deployment has the labels of its own and of its namespace, and the value of
\* one that both have is its own, whichever metric the code happened to find the
\* namespace with ("we would like to keep the value closer to deployment").
LabelsOfNearest ==
    \A s \in samples : s.group = "deployment" =>
      LET own == SeriesOf("kube_deployment_labels", s.type[1], "deployment", s.id[1])
          ns == SeriesOf("kube_namespace_labels", s.type[1], "namespace", s.type[1])
          Labels(of) == UNION {{<<Prefixed("label", l), Txt(response[i].labels[l])>> :
                                   l \in DOMAIN response[i].labels} : i \in of}
          Attrs(of) == {x[1] : x \in Labels(of)}
      IN /\ {a \in DOMAIN s.attrs : a[1] = "label"} = Attrs(own) \cup Attrs(ns)
         /\ \A a \in Attrs(own) : <<a, s.attrs[a]>> \in Labels(own)
         /\ \A a \in Attrs(ns) \ Attrs(own) : <<a, s.attrs[a]>> \in Labels(ns)

\* A service that the API server lists has every selector of its spec in its
\* sample, and no other, whichever metric its own ID was taken from.
SelectorsReported ==
    \A s \in samples : s.group = "service" /\ <<s.type[1], s.id[1]>> \in DOMAIN services =>
      LET selector == services[<<s.type[1], s.id[1]>>]
      IN /\ {a \in DOMAIN s.attrs : a[1] = "selector"} = {<<"selector", k>> : k \in DOMAIN selector}
         /\ \A k \in DOMAIN selector : s.attrs[<<"selector", k>>] = Txt(selector[k])

\* The addresses of an endpoint are counted by readiness, an endpoint without
\* any as 0 of both: "counting addresses with ready="true" should return 0 if
\* there are no ready addresses".
AddressesCounted ==
    \A s \in samples : s.group = "endpoint" =>
      LET addresses == SeriesOf("kube_endpoint_address", s.type[1], "endpoint", s.id[1])
          Ready(r) == Num(Cardinality({i \in addresses : Label(response[i], "ready") = r}))
      IN /\ s.attrs[<<"addressAvailable">>] = Ready("true")
         /\ s.attrs[<<"addressNotReady">>] = Ready("false")
=============================================================================
