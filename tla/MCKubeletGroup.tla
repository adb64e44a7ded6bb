--------------------------- MODULE MCKubeletGroup ---------------------------
EXTENDS KubeletGroup

C(kind, spec, actual) == [kind |-> kind, spec |-> spec, actual |-> actual]
Pod(inst, ip, phase, conds, containers) ==
    [inst |-> inst, hostIP |-> ip, phase |-> phase, conditions |-> conds, containers |-> containers]

\* A running pod that was resized, the same recreated with a sidecar, and one
\* that is reported as pending although it runs, without a host IP.
SomeShapes ==
    {Pod(1, IP, "Running", <<<<"PodScheduled", "True">>, <<"Ready", "True">>>>,
         [main |-> C("main", 4, 2)]),
     Pod(2, IP, "Pending", <<<<"PodScheduled", "True">>, <<"Ready", "False">>>>,
         [main |-> C("main", 3, NoStatus), side |-> C("sidecar", 1, NoStatus), init |-> C("init", 7, NoStatus)]),
     Pod(3, "", "Pending", <<<<"PodScheduled", "True">>>>, [main |-> C("main", 1, NoStatus)])}

SomeConditions ==
    {<<>>, <<<<"Ready", "True">>>>,
     <<<<"Ready", "True">>, <<"Ready", "False">>, <<"Ready", "True">>, <<"Disk", "False">>>>,
     <<<<"Ready", "Odd">>, <<"Disk", "Unknown">>, <<"Disk", "False">>>>}
=============================================================================
