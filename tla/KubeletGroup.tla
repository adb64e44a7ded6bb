---------------------------- MODULE KubeletGroup ----------------------------
(***************************************************************************)
(* The kubelet grouper: three answers of the kubelet and one of the API    *)
(* server, read one after the other while pods come, go, restart and are   *)
(* resized, are merged into one set of raw groups.                         *)
(*                                                                         *)
(* A pod is what the answers say of it: the instance (creation time,       *)
(* image, usage: what a recreated pod of the same name need not share), its*)
(* host IP ("" when not set), phase and conditions, and its containers: a  *)
(* container of the spec, a sidecar (an init container that always         *)
(* restarts) or an ordinary init container, with the request of the spec   *)
(* and the one of the status (NoStatus when it has no resources).          *)
(***************************************************************************)
EXTENDS Integers, FiniteSets, FiniteSetsExt, Sequences

CONSTANTS PodNames,        \* names of pods
          Shapes,          \* the states a pod can be in
          Gone,            \* there is no pod of that name
          NodeConditions   \* lists of conditions a node can have

NoStatus == -1
IP == "ip"

ASSUME ShapeAssumption ==
    /\ IsFiniteSet(PodNames) /\ Gone \notin Shapes
    /\ \A s \in Shapes :
        /\ s.hostIP \in {"", IP} /\ IsFiniteSet(DOMAIN s.containers)
        /\ \A c \in DOMAIN s.containers :
            s.containers[c] \in [kind : {"main", "sidecar", "init"}, spec : Nat,
                                 actual : Nat \cup {NoStatus}]
    /\ NodeConditions \subseteq Seq(STRING \X STRING)

VARIABLES reading,      \* the answer that is read next
          world,        \* the pods on the node
          groups,       \* rawGroups
          listed,       \* history: the world when /pods answered
          identified,   \* history: listed containers cAdvisor gave an ID for
          measured,     \* history: the pods of the answer of /stats/summary
          conditions    \* history: the node's conditions when it was read

groupVars == <<reading, world, groups, listed, identified, measured, conditions>>

\* Maps; the entries of f come before those of g.
NoMap == [x \in {} |-> x]
key :> value == [x \in {key} |-> value]
f @@ g == [x \in DOMAIN f \cup DOMAIN g |-> IF x \in DOMAIN f THEN f[x] ELSE g[x]]

On(w) == {p \in PodNames : w[p] # Gone}

-----------------------------------------------------------------------------
\* isFakePendingPod and fillPodStatus
IsFakePending(s) == s.phase = "Pending" /\ s.conditions = <<<<"PodScheduled", "True">>>>

PodData(s) ==
    ("createdAt" :> s.inst) @@ ("status" :> IF IsFakePending(s) THEN "Running" ELSE s.phase)

\* Mutant of Reported: sidecars are taken for init containers.
ReportedMain(s) == {c \in DOMAIN s.containers : s.containers[c].kind = "main"}

\* fetchContainersData: the containers that are reported, and the data of each.
Reported(s) == {c \in DOMAIN s.containers : s.containers[c].kind \in {"main", "sidecar"}}

Requested(c) == IF c.actual = NoStatus THEN c.spec ELSE c.actual

ContainerData(s, c) == ("containerImage" :> s.inst) @@ ("cpuRequestedCores" :> Requested(s.containers[c]))

\* fillGaps: the first host IP that turns up is everyone's from there on, and in
\* the end also that of the pods and containers that came before.
WithIP(metrics, ip) == IF ip = "" THEN metrics ELSE ("nodeIP" :> ip) @@ metrics

AddPod(acc, p) ==
    LET s == world[p]
        ip == IF acc.ip = "" THEN s.hostIP ELSE acc.ip
    IN [ip |-> ip,
        pod |-> (p :> WithIP(PodData(s), ip)) @@ acc.pod,
        container |-> [id \in {<<p, c>> : c \in Reported(s)} |-> WithIP(ContainerData(s, id[2]), ip)]
                         @@ acc.container]

Backfill(metrics, ip) ==
    [id \in DOMAIN metrics |->
        IF "nodeIP" \in DOMAIN metrics[id] THEN metrics[id] ELSE ("nodeIP" :> ip) @@ metrics[id]]

\* The loop over the pods: what it has after the first n.
PodsOf(items) ==
    LET acc[n \in 0..Len(items)] ==
            IF n = 0 THEN [ip |-> "", pod |-> NoMap, container |-> NoMap]
            ELSE AddPod(acc[n - 1], items[n])
    IN acc

FillGaps(items) ==
    LET acc == PodsOf(items)[Len(items)]
    IN [pod |-> Backfill(acc.pod, acc.ip), container |-> Backfill(acc.container, acc.ip)]

\* Mutant of Merge: entities of a later answer are added.
MergeAdds(dest, from) ==
    [l \in DOMAIN dest \cup DOMAIN from |->
        IF l \notin DOMAIN from THEN dest[l]
        ELSE IF l \notin DOMAIN dest THEN from[l]
        ELSE dest[l] @@ from[l]]

\* fillGroupsAndMergeNonExistent: a group the destination has keeps its entities,
\* which get the metrics they do not have yet.
Merge(dest, from) ==
    [l \in DOMAIN dest \cup DOMAIN from |->
        IF l \notin DOMAIN from THEN dest[l]
        ELSE IF l \notin DOMAIN dest THEN from[l]
        ELSE [id \in DOMAIN dest[l] |->
                IF id \in DOMAIN from[l] THEN dest[l][id] @@ from[l][id] ELSE dest[l][id]]]

\* CadvisorFetchFunc: the containers whose series could be read.
RunningContainers == UNION {{<<p, c>> : c \in DOMAIN world[p].containers} : p \in On(world)}

CadvisorGroups(ids) == [container |-> [id \in ids |-> "containerID" :> world[id[1]].inst]]

\* GroupStatsSummary: the pods that have statistics yet, with their containers
\* and volumes.
StatsSummary(ps) ==
    [pod |-> [p \in ps |-> "usage" :> world[p].inst],
     container |-> [id \in {k \in RunningContainers : k[1] \in ps} |-> "usage" :> world[id[1]].inst],
     volume |-> [p \in ps |-> "usage" :> world[p].inst],
     node |-> "node" :> ("usage" :> 0)]

ConditionValue == [True |-> 1, False |-> 0, Unknown |-> -1]

\* Mutant of AddCondition: the last one wins.
AddConditionLast(map, c) ==
    IF c[2] \notin DOMAIN ConditionValue THEN map ELSE (c[1] :> ConditionValue[c[2]]) @@ map

\* Entries of one type that disagree make it unknown.
AddCondition(map, c) ==
    IF c[2] \notin DOMAIN ConditionValue THEN map
    ELSE IF c[1] \in DOMAIN map /\ map[c[1]] # ConditionValue[c[2]] THEN (c[1] :> -1) @@ map
    ELSE (c[1] :> ConditionValue[c[2]]) @@ map

\* The map of the first n conditions.
ConditionsOf(cs) ==
    LET map[n \in 0..Len(cs)] == IF n = 0 THEN NoMap ELSE AddCondition(map[n - 1], cs[n])
    IN map

Sum(w) == MapThenSumSet(LAMBDA x : w[x], DOMAIN w)

CountRunningPods ==
    Cardinality({p \in DOMAIN groups.pod :
                    "status" \in DOMAIN groups.pod[p] /\ groups.pod[p]["status"] = "Running"})

\* The node's group: its conditions, the requests of the containers and the
\* running pods as the groups have them by now.
NodeGroup(cs) ==
    [node |-> "node" :> (
        ("cpuRequestedCores" :> Sum([id \in {i \in DOMAIN groups.container :
                                              "cpuRequestedCores" \in DOMAIN groups.container[i]} |->
                                        groups.container[id]["cpuRequestedCores"]]))
        @@ ("conditions" :> ConditionsOf(cs)[Len(cs)])
        @@ ("runningPods" :> CountRunningPods))]

-----------------------------------------------------------------------------
\* Group, read by read.  A read that fails ends it without groups; the next
\* scrape begins again.
NoGroups == groups' = NoMap /\ listed' = NoMap /\ identified' = {} /\ measured' = NoMap /\ conditions' = <<>>

GroupInit ==
    /\ reading = "pods" /\ world \in [PodNames -> Shapes \cup {Gone}]
    /\ groups = NoMap /\ listed = NoMap /\ identified = {} /\ measured = NoMap /\ conditions = <<>>

\* The list of pods comes in any order.
FetchPods(items) ==
    /\ reading = "pods" /\ reading' = "cadvisor"
    /\ Range(items) = On(world) /\ Len(items) = Cardinality(On(world))
    /\ groups' = Merge(groups, FillGaps(items))
    /\ listed' = world
    /\ UNCHANGED <<world, identified, measured, conditions>>

\* Series that cannot be attributed make an ErrorGroup, which Group passes over.
FetchCadvisor(ids) ==
    /\ reading = "cadvisor" /\ reading' = "summary"
    /\ ids \subseteq RunningContainers
    /\ groups' = Merge(groups, CadvisorGroups(ids))
    /\ identified' = ids \cap DOMAIN groups.container
    /\ UNCHANGED <<world, listed, measured, conditions>>

FetchSummary(ps) ==
    /\ reading = "summary" /\ reading' = "node"
    /\ groups' = Merge(groups, StatsSummary(ps))
    /\ measured' = [p \in PodNames |-> IF p \in ps THEN world[p] ELSE Gone]
    /\ UNCHANGED <<world, listed, identified, conditions>>

FetchNode(cs) ==
    /\ reading = "node" /\ reading' = "done"
    /\ groups' = Merge(groups, NodeGroup(cs))
    /\ conditions' = cs
    /\ UNCHANGED <<world, listed, identified, measured>>

\* A request fails, or an answer cannot be decoded, or (GroupStatsSummary)
\* something in it has no name: that error is called recoverable, but nothing
\* is returned with it.
FetchFails == reading # "done" /\ reading' = "pods" /\ NoGroups /\ UNCHANGED world

NextScrape == reading = "done" /\ reading' = "pods" /\ NoGroups /\ UNCHANGED world

\* A pod is created, deleted, recreated, resized, or changes its status.
PodChanges(p, s) ==
    /\ world[p] # s /\ world' = [world EXCEPT ![p] = s]
    /\ UNCHANGED <<reading, groups, listed, identified, measured, conditions>>

GroupNext ==
    \/ \E n \in 0..Cardinality(PodNames) : \E items \in [1..n -> PodNames] : FetchPods(items)
    \/ \E ids \in SUBSET RunningContainers : FetchCadvisor(ids)
    \/ \E ps \in SUBSET On(world) : FetchSummary(ps)
    \/ \E cs \in NodeConditions : FetchNode(cs)
    \/ FetchFails
    \/ NextScrape
    \/ \E p \in PodNames, s \in Shapes \cup {Gone} : PodChanges(p, s)

GroupSpec == GroupInit /\ [][GroupNext]_groupVars

-----------------------------------------------------------------------------
\* What is reported about pods and containers is about the ones that were
\* listed, however the node changed while the other answers were read: one that
\* came later has no entry, one that is gone keeps what the list said, and the
\* rest is joined by name.  All have the node's IP, wherever in the list the
\* pod was that knew it.  Only volumes follow the summary.
JoinedOnListing ==
    reading = "done" =>
      LET pods == groups.pod
          containers == groups.container
          nodeIP == IF \E p \in On(listed) : listed[p].hostIP = IP THEN IP ELSE ""
      IN /\ DOMAIN pods = On(listed)
         /\ DOMAIN containers = UNION {{<<p, c>> : c \in Reported(listed[p])} : p \in On(listed)}
         /\ \A p \in DOMAIN pods :
              /\ pods[p]["createdAt"] = listed[p].inst
              /\ pods[p]["nodeIP"] = nodeIP
              /\ "usage" \in DOMAIN pods[p] <=> measured[p] # Gone
         /\ \A id \in DOMAIN containers :
              /\ containers[id]["containerImage"] = listed[id[1]].inst
              /\ containers[id]["nodeIP"] = nodeIP
              /\ "containerID" \in DOMAIN containers[id] <=> id \in identified
              /\ "usage" \in DOMAIN containers[id] =>
                   measured[id[1]] # Gone /\ containers[id]["usage"] = measured[id[1]].inst
         /\ DOMAIN groups.volume = On(measured)

\* The node's totals are those of the pods listed: what their containers,
\* sidecars included, were actually given where the status says so and else
\* asked for, and how many run, whatever the later answers held.
NodeTotalsOfListing ==
    reading = "done" =>
      LET Of(p) == Sum([c \in DOMAIN listed[p].containers |->
                         LET k == listed[p].containers[c]
                         IN IF k.kind = "init" THEN 0
                            ELSE IF k.actual # NoStatus THEN k.actual ELSE k.spec])
          running == {p \in On(listed) : listed[p].phase = "Running" \/ IsFakePending(listed[p])}
      IN /\ groups.node["node"]["cpuRequestedCores"] = Sum([p \in On(listed) |-> Of(p)])
         /\ groups.node["node"]["runningPods"] = Cardinality(running)

\* A condition of the node is reported as true or false only if every entry of
\* its type that has a known status says so, in whatever order they are listed.
ConditionsAgree ==
    reading = "done" =>
      \A t \in {c[1] : c \in Range(conditions)} :
        LET said == {ConditionValue[c[2]] : c \in {d \in Range(conditions) :
                                                      d[1] = t /\ d[2] \in DOMAIN ConditionValue}}
            map == groups.node["node"]["conditions"]
        IN IF said = {} THEN t \notin DOMAIN map
           ELSE map[t] = IF Cardinality(said) = 1 THEN CHOOSE v \in said : TRUE ELSE -1
=============================================================================
