----------------------------- MODULE CloudDetect -----------------------------
(***************************************************************************)
(* detectCloudClusterID: the id of the cluster at its cloud provider, put   *)
(* together from the node's providerID and queries to the cloud, all under  *)
(* one deadline.                                                            *)
(*                                                                          *)
(* A fact of the cluster has one true value, so what is known is a set of   *)
(* facts: one that came back empty is not in it.  A providerID is its       *)
(* scheme, whether the provider's pattern matches it, the form of its       *)
(* availability zone (aws) and the parts of its node resource group (azure).*)
(***************************************************************************)
EXTENDS Naturals, Sequences

CONSTANTS ProviderIDs,
          CloudTimeout,  \* of the whole detection: 10 s
          QueryMax,      \* the longest a request lasts when nothing cuts it short
          QueryBackoff   \* pester.LinearBackoff after a first attempt: 1 s

Schemes == {"gce", "aws", "azure", "other"}
Facts == {"project", "location", "name", "region", "instance", "account",
          "subscription", "group"}
NoID == [cloud |-> "none", facts |-> {}]
NoProviderID == [scheme |-> "none", matches |-> FALSE, az |-> "letter", rg |-> <<>>]

ASSUME CloudAssumption ==
    /\ ProviderIDs \subseteq [scheme : Schemes, matches : BOOLEAN, az : {"zone", "region", "letter"},
                               rg : Seq({"mc", "other", "empty"})]
    /\ CloudTimeout \in Nat /\ QueryMax \in Nat /\ QueryBackoff \in Nat

VARIABLES cloudPC, providerID,
          queries,     \* still to be made, in order
          failedTries, \* of the query at hand
          facts,       \* known so far
          spent,       \* time since the detection began
          cloudID      \* cloudClusterID

cloudVars == <<cloudPC, providerID, queries, failedTries, facts, spent, cloudID>>

-----------------------------------------------------------------------------
(* The providers' detectors: the facts found in a providerID, the queries, *)
(* each for a set of facts, and what the id is made of.                    *)

parseGCEProviderID(p) == IF p.matches THEN {"project"} ELSE {}

\* The project comes from the metadata server if the providerID has none.
gkeDetector(p) ==
    [found |-> parseGCEProviderID(p),
     queries |-> <<{"name"}, {"location"}>>
                 \o (IF "project" \in parseGCEProviderID(p) THEN <<>> ELSE <<{"project"}>>),
     required |-> {"project", "location", "name"}]

\* A zone loses its last letter, if that is one: nothing is left of a letter.
azToRegion(az) == IF az = "letter" THEN {} ELSE {"region"}

parseAWSProviderID(p) == IF p.matches THEN {"instance"} \cup azToRegion(p.az) ELSE {}

\* DescribeInstances: the instance's tag has the name, its reservation the account.
eksDetector(p) ==
    [found |-> parseAWSProviderID(p), queries |-> <<{"name", "account"}>>,
     required |-> {"region", "account", "name"}]

\* MC_<group>_<cluster>_<region>, split at every underscore.
parseAKSNodeResourceGroup(rg) ==
    IF Len(rg) = 4 /\ rg[1] = "mc"
    THEN (IF rg[2] = "empty" THEN {} ELSE {"group"}) \cup (IF rg[3] = "empty" THEN {} ELSE {"name"})
    ELSE {}

parseAzureProviderID(p) ==
    IF p.matches THEN {"subscription"} \cup parseAKSNodeResourceGroup(p.rg) ELSE {}

aksDetector(p) ==
    [found |-> parseAzureProviderID(p), queries |-> <<>>,
     required |-> {"subscription", "group", "name"}]

Detector(p) ==
    CASE p.scheme = "gce" -> gkeDetector(p)
      [] p.scheme = "aws" -> eksDetector(p)
      [] OTHER -> aksDetector(p)

\* identityFromAPI does not ask without a region and an instance.
Askable(p) == p.scheme = "aws" => {"region", "instance"} \subseteq parseAWSProviderID(p)

-----------------------------------------------------------------------------
CloudInit ==
    /\ cloudPC = "node" /\ providerID = NoProviderID /\ queries = <<>> /\ failedTries = 0
    /\ facts = {} /\ spent = 0 /\ cloudID = NoID

-----------------------------------------------------------------------------
\* Detection is over with no id: an error is logged and nothing else.
NotDetected == cloudPC' = "done" /\ cloudID' = NoID

Disabled ==
    /\ cloudPC = "node"
    /\ NotDetected
    /\ UNCHANGED <<providerID, queries, failedTries, facts, spent>>

\* DetectClusterID reads the node, whose providerID never changes, and picks
\* the provider.
GetNode ==
    /\ cloudPC = "node"
    /\ \E d \in 0..QueryMax : spent + d <= CloudTimeout /\ spent' = spent + d
    /\ providerID' \in IF providerID = NoProviderID THEN ProviderIDs ELSE {providerID}
    /\ IF providerID'.scheme = "other" \/ ~Askable(providerID')
       THEN NotDetected /\ UNCHANGED <<facts, queries>>
       ELSE /\ facts' = Detector(providerID').found /\ queries' = Detector(providerID').queries
            /\ cloudPC' = "query" /\ cloudID' = cloudID
    /\ UNCHANGED failedTries

\* The query's request is answered before the deadline.  A value may be empty.
Query ==
    /\ cloudPC = "query" /\ queries # <<>>
    /\ \E d \in 0..QueryMax : spent + d <= CloudTimeout /\ spent' = spent + d
    /\ \E got \in SUBSET Head(queries) : facts' = facts \cup got
    /\ queries' = Tail(queries) /\ failedTries' = 0
    /\ UNCHANGED <<cloudPC, providerID, cloudID>>

\* When a request that fails may end: the context cuts it off at the deadline,
\* and after the deadline it fails at once.
Ends == {t \in spent..(spent + QueryMax) : t <= CloudTimeout \/ t = spent}

\* pester, external: the metadata server does not answer, or not well, the first
\* time (MaxRetries counts both attempts).  The pause does not heed the context.
RetryQuery ==
    /\ cloudPC = "query" /\ queries # <<>>
    /\ providerID.scheme = "gce" /\ failedTries = 0
    /\ failedTries' = 1 /\ \E t \in Ends : spent' = t + QueryBackoff
    /\ UNCHANGED <<cloudPC, providerID, queries, facts, cloudID>>

\* The node cannot be read, or a query fails for good: refused, no answer, no
\* such tag.
QueryFails ==
    /\ cloudPC \in {"node", "query"} /\ (cloudPC = "query" => queries # <<>>)
    /\ spent' \in Ends
    /\ NotDetected
    /\ UNCHANGED <<providerID, queries, failedTries, facts>>

ID == [cloud |-> providerID.scheme, facts |-> facts \cap Detector(providerID).required]

\* Mutant of Assemble: an empty part is left empty.
AssembleAnyhow ==
    /\ cloudPC = "query" /\ queries = <<>>
    /\ cloudPC' = "done" /\ cloudID' = ID
    /\ UNCHANGED <<providerID, queries, failedTries, facts, spent>>

\* detect of the provider: an id of which a part is empty is an error.
Assemble ==
    /\ cloudPC = "query" /\ queries = <<>>
    /\ IF Detector(providerID).required \subseteq facts
       THEN cloudPC' = "done" /\ cloudID' = ID
       ELSE NotDetected
    /\ UNCHANGED <<providerID, queries, failedTries, facts, spent>>
=============================================================================
