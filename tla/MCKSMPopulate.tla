---------------------------- MODULE MCKSMPopulate ----------------------------
EXTENDS KSMPopulate

\* A series from a list of label names and values.
S(family, labels, value) == [family |-> family, labels |-> labels, value |-> value]
In(ns, g, name) == (<<"namespace">> :> ns) @@ (<<g>> :> name)

Namespace(ns, label) ==
    <<S("kube_namespace_created", <<"namespace">> :> ns, 1),
      S("kube_namespace_labels", (<<"namespace">> :> ns) @@ (<<"label", "team">> :> label)
                                    @@ (<<"label", "tier">> :> "base"), 1)>>

\* A deployment without labels, with the namespace's label overridden, and with
\* a label that is called "namespace".
Deployment(ns) ==
    <<S("kube_deployment_created", In(ns, "deployment", "web"), 1),
      S("kube_deployment_spec_replicas", In(ns, "deployment", "web"), 3)>>
Labelled(ns, more) ==
    Deployment(ns) \o <<S("kube_deployment_labels", In(ns, "deployment", "web") @@ more, 1)>>
Deployments ==
    {<<>>, Deployment("a"), Labelled("a", <<"label", "team">> :> "own"),
     Labelled("a", <<"label", "namespace">> :> "own") \o Labelled("b", <<"label", "team">> :> "other")}

Address(ready) ==
    S("kube_endpoint_address", In("a", "endpoint", "web") @@ (<<"ready">> :> ready), 1)
Endpoint == S("kube_endpoint_created", In("a", "endpoint", "web"), 1)
Endpoints ==
    {<<>>, <<Endpoint>>, <<Endpoint, Address("false")>>,
     <<Endpoint, Address("true"), Address("false"), Address("true")>>,
     <<Endpoint, Address("false"), Address("false")>>,
     <<Address("true"), Address("true")>>}

Quota(name, resource, type, value) ==
    S("kube_resourcequota", In("a", "resourcequota", name) @@ (<<"resource">> :> resource)
                               @@ (<<"type">> :> type), value)
QuotaCreated(name) == S("kube_resourcequota_created", In("a", "resourcequota", name), 1)
Quotas ==
    {<<>>, <<QuotaCreated("q"), Quota("q", "pods", "hard", 5)>>,
     <<Quota("q", "pods", "hard", 5), Quota("q", "cpu", "hard", 8), Quota("q", "pods", "used", 2)>>,
     <<QuotaCreated("q"), QuotaCreated("r"), Quota("q", "pods", "hard", 5), Quota("q", "cpu", "hard", 8),
       Quota("q", "pods", "used", 2), Quota("r", "pods", "used", 7), Quota("r", "pods", "hard", 9)>>}

Service ==
    <<S("kube_service_created", In("a", "service", "web"), 1),
      S("kube_service_info", In("a", "service", "web") @@ (<<"cluster_ip">> :> "ip"), 1)>>

\* The namespaces' own series may come from another shard of KSM.
SomeResponses ==
    {Namespace("a", "ns") \o d \o e : d \in Deployments, e \in Endpoints}
      \cup {n \o q \o Service : n \in {<<>>, Namespace("a", "ns") \o Namespace("b", "ns")}, q \in Quotas}

SomeListings ==
    {<<"a", "web">> :> ("app" :> "web"),
     (<<"a", "web">> :> (("app" :> "web") @@ ("tier" :> "x"))) @@ (<<"b", "web">> :> ("app" :> "b"))}

\* No selector, or one that matches one of the namespaces.
SomeAllowances == {{"", "a", "b"}, {"a"}, {"b"}}
==============================================================================
