--------------------------- MODULE MCControlPlane ---------------------------
EXTENDS ControlPlane

CONSTANTS u1, u2, kubeSystem, labelA, labelB

EP(u, auth) == [url |-> u, parses |-> TRUE, auth |-> auth, skipVerify |-> FALSE]
Discover(ns, l, local, eps) ==
    [namespace |-> ns, selector |-> l, matchNode |-> local, endpoints |-> eps]

\* The scheduler is looked for under two labels, on this node and then
\* anywhere, with mTLS; etcd has an entry without a namespace, the controller
\* manager one whose selector is not valid; the API server has a static endpoint.
Names == {"scheduler", "etcd", "controller-manager", "api-server"}
AllComponents == <<"scheduler", "etcd", "controller-manager", "api-server">>
MCStatic == [c \in Names |-> IF c = "api-server" THEN <<EP(u2, "bearer")>> ELSE <<>>]
MCAutodiscover == [c \in Names |->
    CASE c = "scheduler" ->
            <<Discover(kubeSystem, labelA, TRUE, <<EP(u1, "mtls"), EP(u2, "none")>>),
              Discover(kubeSystem, labelB, FALSE, <<[EP(u1, "mtls") EXCEPT !.skipVerify = TRUE]>>)>>
      [] c = "etcd" ->
            <<Discover(kubeSystem, labelA, FALSE, <<EP(u2, "none")>>),
              Discover(NoNamespace, labelB, FALSE, <<EP(u1, "none")>>)>>
      [] c = "controller-manager" ->
            <<Discover(kubeSystem, labelB, FALSE, <<EP(u1, "none")>>),
              Discover(kubeSystem, BadSelector, FALSE, <<EP(u1, "none")>>)>>
      [] OTHER -> <<>>]
=============================================================================
