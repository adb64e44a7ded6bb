---------------------------- MODULE MCRateMetrics ----------------------------
EXTENDS RateMetrics

\* Two physical interfaces and one of a CNI plugin.
MCNames == <<"cali1", "eth0", "eth1">>
MCPhysical == {"eth0", "eth1"}
MCMetrics == <<"rxBytes", "errors">>

Stats(top, interfaces, has) ==
    [top |-> top, interfaces |-> [i \in interfaces |-> has]]

\* Every interface reports every metric, except where nothing has "errors".
MCStats ==
    {Stats({}, is, {"rxBytes", "errors"}) : is \in {{"eth0", "cali1"}, {"eth1"}, {"eth0", "eth1"}}}
    \cup {Stats({}, {}, {}), Stats({}, {"eth0", "eth1"}, {"rxBytes"}),
          Stats({"rxBytes"}, {"eth1"}, {"rxBytes", "errors"})}

\* A node or a pod: both caches keep the readings of two entities apart.
MCPopulations == {{"node"}, {"pod"}}

Row(i, d) == [iface |-> i, destination |-> d]
Header == Row(NoIface, "bad")

\* A table whose default route is not on the heuristic's choice, one with a line
\* that cannot be read before it, and one that may not be read.
MCRouteFiles ==
    {[allowed |-> TRUE, readable |-> TRUE, lines |-> <<Header, Row("eth0", "other"), Row("eth1", "zero")>>],
     [allowed |-> TRUE, readable |-> TRUE, lines |-> <<Header, Row("eth0", "bad"), Row("eth1", "zero")>>],
     [allowed |-> FALSE, readable |-> TRUE, lines |-> <<Header, Row("eth1", "zero")>>]}

MCStoreKeys == Entities \X Keys
MCValues == Interfaces \cup {"top"}
=============================================================================
