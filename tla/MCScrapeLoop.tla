---------------------------- MODULE MCScrapeLoop ----------------------------
EXTENDS ScrapeLoop

CONSTANTS n1, v1, v2, v3

Req(vs) == [ok |-> TRUE, match |-> vs]

NoLabels == {}

\* v3 satisfies both expressions; v1 and v2 one each, so a change of labels
\* between the two reads of a call matters.
TwoExpressions == <<Req({v1, v3}), Req({v2, v3})>>

E(src, kind, ns) == [src |-> src, kind |-> kind, ns |-> ns]

\* One namespace seen by both jobs, and the node.
SomeEntities ==
    {E("ksm", "namespace", n1), E("ksm", "object", n1), E("kubelet", "object", n1),
     E("kubelet", "plain", NoNamespace)}

\* All scrapers (a node with a control plane pod), or only the kubelet's.
SomeConfigs == {Scrapers, {"kubelet"}}
=============================================================================
