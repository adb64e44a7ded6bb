---------------------------- MODULE ControlPlane ----------------------------
(***************************************************************************)
(* controlplane.Scraper.Run: for every enabled component find an endpoint  *)
(* (a static one, or by autodiscovery entries, pods and probes) and build  *)
(* a job; only then populate the jobs.  Pods and secrets come from         *)
(* informers and endpoints come and go, so the environment changes between *)
(* any two steps.                                                          *)
(*                                                                         *)
(* A URL stands for an endpoint's address, a selector for a label set.     *)
(***************************************************************************)
EXTENDS Naturals, Sequences

CONSTANTS Components,    \* newComponents: the enabled components, in order
          Static,          \* per component: <<>> or its static endpoint
          Autodiscover,    \* per component: its autodiscovery entries, in order
          URLs, PodNamespaces, Selectors,
          NoNamespace,     \* the empty namespace
          BadSelector      \* a selector that is no list of key=value

Endpoints == [url : URLs, parses : BOOLEAN, auth : {"none", "bearer", "mtls", "other"},
              skipVerify : BOOLEAN]
Entries == [namespace : PodNamespaces \cup {NoNamespace},
            selector : Selectors \cup {BadSelector}, matchNode : BOOLEAN, endpoints : Seq(Endpoints)]

ASSUME ControlPlaneAssumption ==
    /\ Components \in Seq(STRING)
    /\ \A i \in 1..Len(Components) :
        /\ Static[Components[i]] \in Seq(Endpoints) /\ Len(Static[Components[i]]) <= 1
        /\ Autodiscover[Components[i]] \in Seq(Entries)
    /\ NoNamespace \notin PodNamespaces /\ BadSelector \notin Selectors

VARIABLES pc,
          ci, ai, ei,    \* the component, entry (0: static) and endpoint being tried
          pod,           \* <<>>, or the pod found for the entry
          jobs,          \* the jobs built, in order
          ji,            \* the job being populated
          reported,      \* components whose data is in the integration
          failed,        \* the component whose failure Run returned, 0: none
          attempts,      \* history: outcomes of this Run's entries and endpoints
          pods, up, secret   \* environment

runVars == <<pc, ci, ai, ei, pod, jobs, ji, reported, failed, attempts>>
env == <<pods, up, secret>>
vars == <<runVars, env>>

Pods == [namespace : PodNamespaces, selector : Selectors, local : BOOLEAN]

Component == Components[ci]
Entry == Autodiscover[Component][ai]
Candidates == IF ai = 0 THEN Static[Component] ELSE Entry.endpoints

\* MultiNamespacePodListerer has a lister for each namespace of
\* autodiscoverNamespaces, which leaves out the empty one.
HasLister(namespace) == namespace # NoNamespace

\* ConvertSelectorToLabelsMap accepts the entry's selector.
SelectorParses(selector) == selector # BadSelector

\* Mutant of Matching: a pod of any node will do.
MatchingAnyNode(entry) ==
    {p \in pods : p.namespace = entry.namespace /\ p.selector = entry.selector}

\* ControlplanePodDiscoverer.Discover: any pod of the namespace that matches.
Matching(entry) ==
    {p \in pods : /\ p.namespace = entry.namespace /\ p.selector = entry.selector
                  /\ entry.matchNode => p.local}

\* AuthenticatedTransport succeeds: mTLS needs the certificate and key of the
\* secret, and its CA unless verification is skipped.
Authenticated(e) ==
    \/ e.auth \in {"none", "bearer"}
    \/ e.auth = "mtls" /\ (secret = "full" \/ (secret = "noCA" /\ e.skipVerify))

Attempt(outcome) == [c |-> ci, a |-> ai, e |-> ei, outcome |-> outcome]

Init ==
    /\ pc = "idle" /\ ci = 1 /\ ai = 0 /\ ei = 1 /\ pod = <<>>
    /\ jobs = <<>> /\ ji = 1 /\ reported = {} /\ failed = 0 /\ attempts = {}
    /\ pods \in SUBSET Pods /\ up \in SUBSET URLs
    /\ secret \in {"absent", "noCA", "full"}

-----------------------------------------------------------------------------
StartRun ==
    /\ pc = "idle"
    /\ pc' = "build" /\ ci' = 1 /\ ai' = 0 /\ ei' = 1 /\ pod' = <<>>
    /\ jobs' = <<>> /\ ji' = 1 /\ reported' = {} /\ failed' = 0 /\ attempts' = {}
    /\ UNCHANGED env

ReturnError ==
    /\ pc' = "idle" /\ failed' = ci
    /\ UNCHANGED <<ci, ai, ei, pod, jobs, ji, reported, env>>

\* The static endpoint takes precedence over autodiscovery.
BuildStatic ==
    /\ pc = "build" /\ ci <= Len(Components) /\ Static[Component] # <<>>
    /\ pc' = "connect" /\ ai' = 0 /\ ei' = 1
    /\ UNCHANGED <<ci, pod, jobs, ji, reported, failed, attempts, env>>

BuildAutodiscover ==
    /\ pc = "build" /\ ci <= Len(Components) /\ Static[Component] = <<>>
    /\ pc' = "discover" /\ ai' = 1 /\ ei' = 1
    /\ UNCHANGED <<ci, pod, jobs, ji, reported, failed, attempts, env>>

\* No entry is left: the component has no job, and that is no error.
NothingDiscovered ==
    /\ pc = "discover" /\ ai > Len(Autodiscover[Component])
    /\ pc' = "build" /\ ci' = ci + 1
    /\ UNCHANGED <<ai, ei, pod, jobs, ji, reported, failed, attempts, env>>

NoLister ==
    /\ pc = "discover" /\ ai <= Len(Autodiscover[Component])
    /\ ~HasLister(Entry.namespace)
    /\ attempts' = attempts
    /\ ReturnError

\* The selector is looked at only when the entry's turn comes.
InvalidSelector ==
    /\ pc = "discover" /\ ai <= Len(Autodiscover[Component])
    /\ HasLister(Entry.namespace) /\ ~SelectorParses(Entry.selector)
    /\ attempts' = attempts
    /\ ReturnError


PodNotFound ==
    /\ pc = "discover" /\ ai <= Len(Autodiscover[Component])
    /\ HasLister(Entry.namespace) /\ SelectorParses(Entry.selector)
    /\ Matching(Entry) = {}
    /\ attempts' = attempts \cup {Attempt("noPod")}
    /\ ai' = ai + 1
    /\ UNCHANGED <<pc, ci, ei, pod, jobs, ji, reported, failed, env>>

PodFound ==
    /\ pc = "discover" /\ ai <= Len(Autodiscover[Component])
    /\ HasLister(Entry.namespace) /\ SelectorParses(Entry.selector)
    /\ \E p \in Matching(Entry) : pod' = <<p>>
    /\ pc' = "connect" /\ ei' = 1
    /\ UNCHANGED <<ci, ai, jobs, ji, reported, failed, attempts, env>>

\* Mutant of ClientFails: fatal for every component.
ClientFailsAlways(outcome) ==
    /\ attempts' = attempts \cup {Attempt(outcome)}
    /\ ReturnError

\* client.New failed: fatal for a static endpoint, else on to the next entry.
ClientFails(outcome) ==
    /\ attempts' = attempts \cup {Attempt(outcome)}
    /\ IF ai = 0
       THEN ReturnError
       ELSE /\ pc' = "discover" /\ ai' = ai + 1 /\ ei' = 1 /\ pod' = <<>>
            /\ UNCHANGED <<ci, jobs, ji, reported, failed, env>>

\* DefaultConnector.Connect, one endpoint at a time.
ConnectBadEndpoint ==
    /\ pc = "connect" /\ ei <= Len(Candidates)
    /\ ~Candidates[ei].parses \/ ~Authenticated(Candidates[ei])
    /\ ClientFails("unusable")

ProbeFails ==
    /\ pc = "connect" /\ ei <= Len(Candidates)
    /\ Candidates[ei].parses /\ Authenticated(Candidates[ei])
    /\ Candidates[ei].url \notin up
    /\ attempts' = attempts \cup {Attempt("probeFailed")}
    /\ ei' = ei + 1
    /\ UNCHANGED <<pc, ci, ai, pod, jobs, ji, reported, failed, env>>

AllProbesFailed ==
    /\ pc = "connect" /\ ei > Len(Candidates)
    /\ ClientFails("allFailed")

\* Mutant of ProbeOK: the job is run as soon as it is built.
ProbeOKPopulates ==
    /\ pc = "connect" /\ ei <= Len(Candidates)
    /\ Candidates[ei].parses /\ Authenticated(Candidates[ei])
    /\ Candidates[ei].url \in up
    /\ attempts' = attempts \cup {Attempt("ok")}
    /\ jobs' = Append(jobs, [c |-> ci, a |-> ai, e |-> ei, pod |-> pod])
    /\ reported' = reported \cup {ci}
    /\ pc' = "build" /\ ci' = ci + 1 /\ pod' = <<>>
    /\ UNCHANGED <<ai, ei, ji, failed, env>>

ProbeOK ==
    /\ pc = "connect" /\ ei <= Len(Candidates)
    /\ Candidates[ei].parses /\ Authenticated(Candidates[ei])
    /\ Candidates[ei].url \in up
    /\ attempts' = attempts \cup {Attempt("ok")}
    /\ jobs' = Append(jobs, [c |-> ci, a |-> ai, e |-> ei, pod |-> pod])
    /\ pc' = "build" /\ ci' = ci + 1 /\ pod' = <<>>
    /\ UNCHANGED <<ai, ei, ji, reported, failed, env>>

\* Every component has been looked at without an error.
StartPopulate ==
    /\ pc = "build" /\ ci > Len(Components)
    /\ pc' = "populate"
    /\ UNCHANGED <<ci, ai, ei, pod, jobs, ji, reported, failed, attempts, env>>

JobURL(j) ==
    IF j.a = 0 THEN Static[Components[j.c]][j.e].url
    ELSE Autodiscover[Components[j.c]][j.a].endpoints[j.e].url

\* job.Populate: its failure is logged, the other jobs go on.
PopulateJob ==
    /\ pc = "populate" /\ ji <= Len(jobs)
    /\ \/ JobURL(jobs[ji]) \in up /\ reported' = reported \cup {jobs[ji].c}
       \/ reported' = reported
    /\ ji' = ji + 1
    /\ UNCHANGED <<pc, ci, ai, ei, pod, jobs, failed, attempts, env>>

ReturnNil ==
    /\ pc = "populate" /\ ji > Len(jobs)
    /\ pc' = "idle"
    /\ UNCHANGED <<ci, ai, ei, pod, jobs, ji, reported, failed, attempts, env>>

\* Pods, endpoints and the secret change at any time.
Environment ==
    /\ \/ \E p \in Pods : pods' = (pods \ {p}) \cup ({p} \ pods) /\ UNCHANGED <<up, secret>>
       \/ \E u \in URLs : up' = (up \ {u}) \cup ({u} \ up) /\ UNCHANGED <<pods, secret>>
       \/ secret' \in {"absent", "noCA", "full"} \ {secret} /\ UNCHANGED <<pods, up>>
    /\ UNCHANGED runVars

Run ==
    \/ BuildStatic \/ BuildAutodiscover
    \/ NothingDiscovered \/ NoLister \/ InvalidSelector \/ PodNotFound \/ PodFound
    \/ ConnectBadEndpoint \/ ProbeFails \/ AllProbesFailed \/ ProbeOK
    \/ StartPopulate \/ PopulateJob \/ ReturnNil

Next == StartRun \/ Run \/ Environment

Spec == Init /\ [][Next]_vars

\* Run goes on (lister reads are local and each request has a timeout), and the
\* main loop calls it again.
FairSpec == Spec /\ WF_vars(Run) /\ WF_vars(StartRun)

-----------------------------------------------------------------------------
(* Properties *)

\* A Run that returns an error has put nothing into the integration: a static
\* endpoint that fails late cannot leave half of the components reported.
NothingReportedOnError == failed # 0 => reported = {}

\* A job uses the first endpoint that answers of the first entry that works:
\* every endpoint before it failed its probe in this Run, every entry before
\* its own had no pod, no endpoint that answers or one that cannot be used (the
\* entry is left there; the configuration documents otherwise, see
\* EntriesEndAtMatch).  The lister gives pods in any
\* order, but the entity is named after one that matches the very entry whose
\* endpoint is used, on this node if the entry asks for it.  Components appear
\* once, in order.
FirstUsableEndpoint ==
    \A k \in 1..Len(jobs) :
        LET j == jobs[k] IN
        /\ \A e \in 1..(j.e - 1) :
              [c |-> j.c, a |-> j.a, e |-> e, outcome |-> "probeFailed"] \in attempts
        /\ \A a \in 1..(j.a - 1) : \E t \in attempts :
              t.c = j.c /\ t.a = a /\ t.outcome \in {"noPod", "unusable", "allFailed"}
        /\ IF j.a = 0 THEN j.pod = <<>>
           ELSE LET entry == Autodiscover[Components[j.c]][j.a] IN
                /\ j.pod[1].namespace = entry.namespace /\ j.pod[1].selector = entry.selector
                /\ entry.matchNode => j.pod[1].local
        /\ \A l \in 1..(k - 1) : jobs[l].c < j.c

\* Run fails only for a component with a static endpoint, or with an entry
\* that Discover cannot use: one that names no namespace or whose selector is
\* not valid, and it fails for such an entry whatever the cluster holds.  Pods
\* and endpoints that are missing or broken are never fatal for an
\* autodiscovered component.
ErrorsAreConfigured ==
    failed # 0 =>
        \/ Static[Components[failed]] # <<>>
        \/ \E a \in 1..Len(Autodiscover[Components[failed]]) :
              LET entry == Autodiscover[Components[failed]][a]
              IN ~HasLister(entry.namespace) \/ ~SelectorParses(entry.selector)

UsableIn(eps) ==
    \E e \in 1..Len(eps) :
        /\ eps[e].url \in up
        /\ \A d \in 1..e : eps[d].parses /\ Authenticated(eps[d])
\* By its static endpoint, or through its n-th entry.
Reachable(i, n) ==
    LET c == Components[i] IN
    IF Static[c] # <<>> THEN UsableIn(Static[c])
    ELSE /\ n \in 1..Len(Autodiscover[c])
         /\ Matching(Autodiscover[c][n]) # {} /\ UsableIn(Autodiscover[c][n].endpoints)

\* The last of each component's entries before one that Discover cannot use.
LastEntry ==
    [i \in 1..Len(Components) |->
        LET entries == Autodiscover[Components[i]]
            Sound(a) == \A b \in 1..a : HasLister(entries[b].namespace) /\ SelectorParses(entries[b].selector)
        IN CHOOSE a \in 0..Len(entries) :
              Sound(a) /\ (a < Len(entries) => ~Sound(a + 1))]


\* What the configuration's rules say of the entries: "If all endpoints for a
\* matching fail, no more entries will be processed".  Whenever an entry has
\* been tried, those before it matched no pod.  The code goes on to the next
\* entry, and after an endpoint it cannot use it does so without the endpoints
\* left ("Endpoints are tried in order for a matching pod, until metrics can be
\* read successfully from one of them").
EntriesEndAtMatch ==
    \A t \in attempts : \A a \in 1..(t.a - 1) :
        \E s \in attempts : s.c = t.c /\ s.a = a /\ s.outcome = "noPod"

\* What the configuration says of an entry's namespace: "If empty, all
\* namespaces will be considered."  Such an entry is no reason to fail, so only
\* static endpoints and selectors are.  The code has no lister for it.
EmptyNamespaceIsAll ==
    failed # 0 =>
        \/ Static[Components[failed]] # <<>>
        \/ \E a \in 1..Len(Autodiscover[Components[failed]]) :
              ~SelectorParses(Autodiscover[Components[failed]][a].selector)

=============================================================================
