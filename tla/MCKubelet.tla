------------------------------ MODULE MCKubelet ------------------------------
(***************************************************************************)
(* The two parts of a kubelet scrape that keep state of their own: the     *)
(* grouper, and the rates made from what it groups.  They share no         *)
(* variable, so each is followed in behaviours of its own while the other  *)
(* stands still.                                                           *)
(***************************************************************************)
EXTENDS MCRateMetrics, MCKubeletGroup

VARIABLE part   \* the part that is followed

all == <<part, vars, groupVars>>

\* A pod without interfaces that is never scraped, and a node without pods.
RatesRest ==
    /\ Init /\ population = {"pod"} /\ stats = [e \in population |-> Stats({}, {}, {})]
    /\ routeFile.allowed = FALSE
GroupRests == GroupInit /\ world = [p \in PodNames |-> Gone]

KubeletInit ==
    \/ part = "rates" /\ Init /\ GroupRests
    \/ part = "group" /\ GroupInit /\ RatesRest

OfRates(Step) == part = "rates" /\ Step /\ UNCHANGED <<part, groupVars>>
OfGroup(Step) == part = "group" /\ Step /\ UNCHANGED <<part, vars>>

KubeletNext == OfRates(Next) \/ OfGroup(GroupNext)

\* The fairness of FairSpec.
KubeletSpec ==
    /\ KubeletInit /\ [][KubeletNext]_all
    /\ WF_all(OfRates(Populate)) /\ WF_all(OfRates(BeginScrape))
==============================================================================
