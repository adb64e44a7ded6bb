-------------------------- MODULE ControlPlaneProofs --------------------------
(***************************************************************************)
(* Safety of the control plane scraper for any components, endpoints and   *)
(* autodiscovery entries.                                                  *)
(***************************************************************************)
EXTENDS ControlPlane, TLAPS

Jobs == [c : Nat, a : Nat, e : Nat, pod : Seq(Pods)]
Outcomes == {"ok", "noPod", "unusable", "probeFailed", "allFailed"}

Typed ==
    /\ pc \in {"idle", "build", "discover", "connect", "populate"}
    /\ ci \in Nat \ {0} /\ ai \in Nat /\ ei \in Nat \ {0} /\ ji \in Nat \ {0}
    /\ pod \in Seq(Pods) /\ jobs \in Seq(Jobs)
    /\ reported \subseteq Nat /\ failed \in Nat
    /\ attempts \subseteq [c : Nat, a : Nat, e : Nat, outcome : Outcomes]
    /\ pods \subseteq Pods

Building == pc \in {"build", "discover", "connect"}

\* While jobs are built nothing is reported and nothing has failed; the pod that
\* goes into the next job is one that matches the entry being tried.
Fits(p, entry) ==
    /\ p.namespace = entry.namespace /\ p.selector = entry.selector
    /\ entry.matchNode => p.local

Place ==
    /\ Building => reported = {} /\ failed = 0
    /\ pc = "populate" => failed = 0
    /\ pc \in {"build", "discover"} => pod = <<>>
    /\ pc \in {"discover", "connect"} => ci <= Len(Components)
    /\ pc = "discover" => Static[Component] = <<>> /\ ai > 0
    /\ pc = "connect" =>
        IF ai = 0 THEN Static[Component] # <<>> /\ pod = <<>>
        ELSE /\ Static[Component] = <<>> /\ ai <= Len(Autodiscover[Component])
             /\ pod # <<>> /\ Fits(pod[1], Entry)

\* What has been tried before the entry and the endpoint at hand, of attempts T.
EntryFailed(T, c, a) ==
    \E t \in T : t.c = c /\ t.a = a /\ t.outcome \in {"noPod", "unusable", "allFailed"}
EndpointFailed(T, c, a, e) == [c |-> c, a |-> a, e |-> e, outcome |-> "probeFailed"] \in T

Tried ==
    /\ pc \in {"discover", "connect"} => \A a \in 1..(ai - 1) : EntryFailed(attempts, ci, a)
    /\ pc = "connect" => \A e \in 1..(ei - 1) : EndpointFailed(attempts, ci, ai, e)

\* A job that is right, whatever is tried after it.
Right(T, j) ==
    /\ \A e \in 1..(j.e - 1) : EndpointFailed(T, j.c, j.a, e)
    /\ \A a \in 1..(j.a - 1) : EntryFailed(T, j.c, a)
    /\ IF j.a = 0 THEN j.pod = <<>> ELSE Fits(j.pod[1], Autodiscover[Components[j.c]][j.a])

JobsRight ==
    /\ \A k \in 1..Len(jobs) : Right(attempts, jobs[k]) /\ (Building => jobs[k].c < ci)
    /\ \A k \in 1..Len(jobs) : \A l \in 1..(k - 1) : jobs[l].c < jobs[k].c

CPInv == Typed /\ Place /\ Tried /\ JobsRight /\ NothingReportedOnError /\ ErrorsAreConfigured

-----------------------------------------------------------------------------
(* Attempts are only added while a Run lasts. *)

LEMMA RightGrows ==
  ASSUME NEW S, NEW T, S \subseteq T, NEW j, Right(S, j)
  PROVE  Right(T, j)
<1>1. \A e \in 1..(j.e - 1) : EndpointFailed(T, j.c, j.a, e)
  BY DEF Right, EndpointFailed
<1>2. \A a \in 1..(j.a - 1) : EntryFailed(T, j.c, a)
  BY DEF Right, EntryFailed
<1> QED
  BY <1>1, <1>2 DEF Right

LEMMA JobsKept ==
  ASSUME CPInv, UNCHANGED jobs, attempts \subseteq attempts', ci' \in Nat,
         Building' => Building /\ ci <= ci'
  PROVE  JobsRight'
<1>1. \A k \in 1..Len(jobs) : Right(attempts', jobs[k])
  BY RightGrows DEF CPInv, JobsRight
<1>2. \A k \in 1..Len(jobs) : jobs[k].c \in Nat
  <2>1. \A k \in 1..Len(jobs) : jobs[k] \in Jobs
    BY DEF CPInv, Typed
  <2> QED
    BY <2>1 DEF Jobs
<1>3. ASSUME Building', NEW k \in 1..Len(jobs) PROVE jobs[k].c < ci'
  <2>1. jobs[k].c < ci /\ ci \in Nat
    BY <1>3 DEF CPInv, JobsRight, Typed
  <2> QED
    BY <1>2, <1>3, <2>1
<1> QED
  BY <1>1, <1>3 DEF CPInv, JobsRight

LEMMA ErrorsKept ==
  ASSUME CPInv, UNCHANGED failed, failed # 0 => UNCHANGED reported
  PROVE  NothingReportedOnError' /\ ErrorsAreConfigured'
BY DEF CPInv, NothingReportedOnError, ErrorsAreConfigured

LEMMA EntryTyped ==
  ASSUME Typed, ci <= Len(Components)
  PROVE  /\ ci \in 1..Len(Components)
         /\ Autodiscover[Component] \in Seq(Entries) /\ Len(Autodiscover[Component]) \in Nat
         /\ Static[Component] \in Seq(Endpoints)
<1>1. Len(Components) \in Nat /\ ci \in 1..Len(Components)
  BY ControlPlaneAssumption DEF Typed
<1> QED
  BY <1>1, ControlPlaneAssumption DEF Component

-----------------------------------------------------------------------------
LEMMA CPInitInv == Init => CPInv
<1> SUFFICES ASSUME Init PROVE CPInv
  OBVIOUS
<1>1. jobs = <<>> /\ Len(<<>>) = 0 /\ 1..0 = {} /\ pc = "idle" /\ failed = 0
  BY DEF Init
<1>2. Typed
  BY DEF Init, Typed
<1>3. Place /\ Tried /\ NothingReportedOnError /\ ErrorsAreConfigured
  BY <1>1 DEF Place, Building, Tried, NothingReportedOnError, ErrorsAreConfigured
<1>4. JobsRight
  BY <1>1 DEF JobsRight
<1> QED
  BY <1>2, <1>3, <1>4 DEF CPInv

LEMMA StartRunInv == ASSUME CPInv, StartRun PROVE CPInv'
<1>1. /\ pc' = "build" /\ ci' = 1 /\ ai' = 0 /\ ei' = 1 /\ pod' = <<>> /\ jobs' = <<>> /\ ji' = 1
      /\ reported' = {} /\ failed' = 0 /\ attempts' = {} /\ pods' = pods
      /\ Len(<<>>) = 0 /\ 1..0 = {}
  BY DEF StartRun, env
<1>2. Typed'
  BY <1>1 DEF CPInv, Typed
<1>3. Place' /\ Tried' /\ NothingReportedOnError' /\ ErrorsAreConfigured'
  BY <1>1 DEF Place, Building, Tried, NothingReportedOnError, ErrorsAreConfigured
<1>4. JobsRight'
  BY <1>1 DEF JobsRight
<1> QED
  BY <1>2, <1>3, <1>4 DEF CPInv

\* Run returns an error for the component at hand.
LEMMA ReturnErrorInv ==
  ASSUME CPInv, ReturnError, pc \in {"discover", "connect"}, attempts \subseteq attempts',
         attempts' \subseteq [c : Nat, a : Nat, e : Nat, outcome : Outcomes],
         \/ Static[Component] # <<>>
         \/ \E a \in 1..Len(Autodiscover[Component]) :
              \/ ~HasLister(Autodiscover[Component][a].namespace)
              \/ ~SelectorParses(Autodiscover[Component][a].selector)
  PROVE  CPInv'
<1>1. pc' = "idle" /\ failed' = ci /\ UNCHANGED <<ci, ai, ei, pod, jobs, ji, reported, pods>>
  BY DEF ReturnError, env
<1>2. Typed'
  BY <1>1 DEF CPInv, Typed
<1>3. Place' /\ Tried'
  BY <1>1 DEF Place, Building, Tried
<1>4. NothingReportedOnError' /\ ErrorsAreConfigured'
  BY <1>1 DEF CPInv, Place, Building, NothingReportedOnError, ErrorsAreConfigured, Component
<1>5. JobsRight'
  BY <1>1, JobsKept DEF CPInv, Typed, Building
<1> QED
  BY <1>2, <1>3, <1>4, <1>5 DEF CPInv

LEMMA BuildInv ==
  ASSUME CPInv, BuildStatic \/ BuildAutodiscover \/ NothingDiscovered
  PROVE  CPInv'
<1>1. /\ UNCHANGED <<pod, jobs, ji, reported, failed, attempts, pods>>
      /\ pc' \in {"connect", "discover", "build"} /\ Building
      /\ pc \in {"build", "discover"} /\ ei' \in Nat \ {0} /\ ai' \in Nat /\ ci' \in {ci, ci + 1}
  BY DEF BuildStatic, BuildAutodiscover, NothingDiscovered, env, Building, CPInv, Typed
<1>2. ci \in Nat \ {0} /\ ci' \in Nat \ {0} /\ ci <= ci'
  BY <1>1 DEF CPInv, Typed
<1>3. Typed'
  BY <1>1, <1>2 DEF CPInv, Typed
<1>4. Place'
  <2>1. reported' = {} /\ failed' = 0 /\ pod' = <<>>
    BY <1>1 DEF CPInv, Place
  <2>2. CASE BuildStatic
    BY <2>1, <2>2 DEF BuildStatic, Place, Building, Component
  <2>3. CASE BuildAutodiscover
    BY <2>1, <2>3 DEF BuildAutodiscover, Place, Building, Component
  <2>4. CASE NothingDiscovered
    BY <2>1, <2>4 DEF NothingDiscovered, Place, Building
  <2> QED
    BY <2>2, <2>3, <2>4
<1>5. Tried'
  BY DEF BuildStatic, BuildAutodiscover, NothingDiscovered, Tried
<1>6. JobsRight'
  BY <1>1, <1>2, JobsKept
<1>7. NothingReportedOnError' /\ ErrorsAreConfigured'
  BY <1>1, ErrorsKept
<1> QED
  BY <1>3, <1>4, <1>5, <1>6, <1>7 DEF CPInv

LEMMA AttemptAdded ==
  ASSUME Typed, NEW o \in Outcomes, attempts' = attempts \cup {Attempt(o)}
  PROVE  /\ attempts \subseteq attempts'
         /\ attempts' \subseteq [c : Nat, a : Nat, e : Nat, outcome : Outcomes]
BY DEF Typed, Attempt

\* The entry at hand is done with: the ones before it and itself have failed.
LEMMA NextEntryTried ==
  ASSUME CPInv, pc \in {"discover", "connect"}, ai > 0,
         NEW o \in {"noPod", "unusable", "allFailed"},
         attempts' = attempts \cup {Attempt(o)}, ai' = ai + 1, ci' = ci, pc' = "discover"
  PROVE  Tried'
<1>1. ai \in Nat
  BY DEF CPInv, Typed
<1>2. EntryFailed(attempts', ci, ai)
  <2>1. Attempt(o) \in attempts'
    OBVIOUS
  <2>2. Attempt(o).c = ci /\ Attempt(o).a = ai /\ Attempt(o).outcome = o
    BY DEF Attempt
  <2> QED
    BY <2>1, <2>2 DEF EntryFailed
<1>3. \A a \in 1..(ai - 1) : EntryFailed(attempts', ci, a)
  BY DEF CPInv, Tried, EntryFailed
<1>4. \A a \in 1..(ai' - 1) : a = ai \/ a \in 1..(ai - 1)
  BY <1>1
<1> QED
  BY <1>2, <1>3, <1>4 DEF Tried

LEMMA PodNotFoundInv == ASSUME CPInv, PodNotFound PROVE CPInv'
<1>1. /\ UNCHANGED <<pc, ci, ei, pod, jobs, ji, reported, failed, pods>>
      /\ pc = "discover" /\ ai' = ai + 1 /\ attempts' = attempts \cup {Attempt("noPod")}
  BY DEF PodNotFound, env
<1>2. ai \in Nat /\ ai > 0 /\ ci \in Nat
  BY <1>1 DEF CPInv, Typed, Place
<1>3. /\ attempts \subseteq attempts'
      /\ attempts' \subseteq [c : Nat, a : Nat, e : Nat, outcome : Outcomes]
  BY <1>1, AttemptAdded DEF CPInv, Outcomes
<1>4. Typed'
  BY <1>1, <1>2, <1>3 DEF CPInv, Typed
<1>5. Place'
  BY <1>1, <1>2 DEF CPInv, Place, Building, Component
<1>6. Tried'
  BY <1>1, <1>2, NextEntryTried
<1>7. JobsRight'
  BY <1>1, <1>2, <1>3, JobsKept DEF Building
<1>8. NothingReportedOnError' /\ ErrorsAreConfigured'
  BY <1>1, ErrorsKept
<1> QED
  BY <1>4, <1>5, <1>6, <1>7, <1>8 DEF CPInv

LEMMA PodFoundInv == ASSUME CPInv, PodFound PROVE CPInv'
<1>1. /\ UNCHANGED <<ci, ai, jobs, ji, reported, failed, attempts, pods>>
      /\ pc = "discover" /\ pc' = "connect" /\ ei' = 1 /\ ai <= Len(Autodiscover[Component])
  BY DEF PodFound, env
<1>2. PICK p \in Matching(Entry) : pod' = <<p>>
  BY DEF PodFound
<1>3. p \in Pods /\ Fits(p, Entry) /\ pod' \in Seq(Pods) /\ pod' # <<>> /\ pod'[1] = p
  BY <1>2 DEF Matching, Fits, CPInv, Typed
<1>4. Typed'
  BY <1>1, <1>3 DEF CPInv, Typed
<1>5. Place'
  <2>1. reported' = {} /\ failed' = 0 /\ ci <= Len(Components) /\ Static[Component] = <<>> /\ ai > 0 /\ ai \in Nat
    BY <1>1 DEF CPInv, Place, Building, Typed
  <2>2. Entry' = Entry /\ Component' = Component
    BY <1>1 DEF Entry, Component
  <2> QED
    BY <1>1, <1>3, <2>1, <2>2 DEF Place, Building
<1>6. Tried'
  BY <1>1 DEF CPInv, Tried
<1>7. JobsRight'
  BY <1>1, JobsKept DEF Building, CPInv, Typed
<1>8. NothingReportedOnError' /\ ErrorsAreConfigured'
  BY <1>1, ErrorsKept
<1> QED
  BY <1>4, <1>5, <1>6, <1>7, <1>8 DEF CPInv

LEMMA ClientFailsInv ==
  ASSUME CPInv, pc = "connect", NEW o \in {"unusable", "allFailed"}, ClientFails(o)
  PROVE  CPInv'
<1>1. attempts' = attempts \cup {Attempt(o)}
  BY DEF ClientFails
<1>2. /\ attempts \subseteq attempts'
      /\ attempts' \subseteq [c : Nat, a : Nat, e : Nat, outcome : Outcomes]
  BY <1>1, AttemptAdded DEF CPInv, Outcomes
<1>3. CASE ai = 0
  <2>1. ReturnError /\ Static[Component] # <<>>
    BY <1>3 DEF ClientFails, CPInv, Place
  <2> QED
    BY <1>2, <2>1, ReturnErrorInv
<1>4. CASE ai # 0
  <2>1. /\ pc' = "discover" /\ ai' = ai + 1 /\ ei' = 1 /\ pod' = <<>>
        /\ UNCHANGED <<ci, jobs, ji, reported, failed, pods>>
    BY <1>4 DEF ClientFails, env
  <2>2. ai \in Nat /\ ai > 0 /\ ci \in Nat
    BY <1>4 DEF CPInv, Typed
  <2>3. Typed'
    BY <1>2, <2>1, <2>2 DEF CPInv, Typed
  <2>4. Place'
    BY <1>4, <2>1, <2>2 DEF CPInv, Place, Building, Component
  <2>5. Tried'
    BY <1>1, <2>1, <2>2, NextEntryTried
  <2>6. JobsRight'
    BY <1>2, <2>1, <2>2, JobsKept DEF Building
  <2>7. NothingReportedOnError' /\ ErrorsAreConfigured'
    BY <2>1, ErrorsKept
  <2> QED
    BY <2>3, <2>4, <2>5, <2>6, <2>7 DEF CPInv
<1> QED
  BY <1>3, <1>4

LEMMA ProbeFailsInv == ASSUME CPInv, ProbeFails PROVE CPInv'
<1>1. /\ UNCHANGED <<pc, ci, ai, pod, jobs, ji, reported, failed, pods>>
      /\ pc = "connect" /\ ei' = ei + 1 /\ attempts' = attempts \cup {Attempt("probeFailed")}
  BY DEF ProbeFails, env
<1>2. ei \in Nat \ {0} /\ ci \in Nat
  BY DEF CPInv, Typed
<1>3. /\ attempts \subseteq attempts'
      /\ attempts' \subseteq [c : Nat, a : Nat, e : Nat, outcome : Outcomes]
  BY <1>1, AttemptAdded DEF CPInv, Outcomes
<1>4. Typed'
  BY <1>1, <1>2, <1>3 DEF CPInv, Typed
<1>5. Place'
  <2>1. Entry' = Entry /\ Component' = Component
    BY <1>1 DEF Entry, Component
  <2> QED
    BY <1>1, <2>1 DEF CPInv, Place, Building
<1>6. Tried'
  <2>1. EndpointFailed(attempts', ci, ai, ei)
    BY <1>1 DEF EndpointFailed, Attempt
  <2>2. \A e \in 1..(ei - 1) : EndpointFailed(attempts', ci, ai, e)
    BY <1>1, <1>3 DEF CPInv, Tried, EndpointFailed
  <2>3. \A e \in 1..(ei' - 1) : e = ei \/ e \in 1..(ei - 1)
    BY <1>1, <1>2
  <2>4. \A a \in 1..(ai - 1) : EntryFailed(attempts', ci, a)
    BY <1>1, <1>3 DEF CPInv, Tried, EntryFailed
  <2> QED
    BY <1>1, <2>1, <2>2, <2>3, <2>4 DEF Tried
<1>7. JobsRight'
  BY <1>1, <1>2, <1>3, JobsKept DEF Building
<1>8. NothingReportedOnError' /\ ErrorsAreConfigured'
  BY <1>1, ErrorsKept
<1> QED
  BY <1>4, <1>5, <1>6, <1>7, <1>8 DEF CPInv

LEMMA ProbeOKInv == ASSUME CPInv, ProbeOK PROVE CPInv'
<1> DEFINE j == [c |-> ci, a |-> ai, e |-> ei, pod |-> pod]
           k == Len(jobs)
<1>1. /\ UNCHANGED <<ai, ei, ji, reported, failed, pods>>
      /\ pc = "connect" /\ pc' = "build" /\ ci' = ci + 1 /\ pod' = <<>>
      /\ attempts' = attempts \cup {Attempt("ok")} /\ jobs' = Append(jobs, j)
  BY DEF ProbeOK, env
<1>2. ci \in Nat \ {0} /\ jobs \in Seq(Jobs) /\ k \in Nat /\ j \in Jobs
  BY DEF CPInv, Typed, Jobs
<1>3. /\ attempts \subseteq attempts'
      /\ attempts' \subseteq [c : Nat, a : Nat, e : Nat, outcome : Outcomes]
  BY <1>1, AttemptAdded DEF CPInv, Outcomes
<1>4. Right(attempts, j)
  <2>1. j.c = ci /\ j.a = ai /\ j.e = ei /\ j.pod = pod
    OBVIOUS
  <2> HIDE DEF j
  <2>2. \A e \in 1..(j.e - 1) : EndpointFailed(attempts, j.c, j.a, e)
    BY <1>1, <2>1 DEF CPInv, Tried
  <2>3. \A a \in 1..(j.a - 1) : EntryFailed(attempts, j.c, a)
    BY <1>1, <2>1 DEF CPInv, Tried
  <2>4. IF j.a = 0 THEN j.pod = <<>> ELSE Fits(j.pod[1], Autodiscover[Components[j.c]][j.a])
    BY <1>1, <2>1 DEF CPInv, Place, Entry, Component
  <2> QED
    BY <2>2, <2>3, <2>4 DEF Right
<1>j. j.c = ci
  OBVIOUS
<1> HIDE DEF j
<1>5. /\ jobs' \in Seq(Jobs) /\ Len(jobs') = k + 1 /\ jobs'[k + 1] = j
      /\ \A l \in 1..k : jobs'[l] = jobs[l]
  BY <1>1, <1>2
<1>6. \A l \in 1..k : Right(attempts, jobs[l]) /\ jobs[l].c < ci /\ jobs[l].c \in Nat
  <2>1. \A l \in 1..k : jobs[l] \in Jobs
    BY <1>2
  <2> QED
    BY <1>1, <2>1 DEF CPInv, JobsRight, Building, Jobs
<1>7. Typed'
  BY <1>1, <1>2, <1>3, <1>5 DEF CPInv, Typed
<1>8. Place' /\ Tried'
  BY <1>1 DEF CPInv, Place, Building, Tried
<1>9. JobsRight'
  <2>1. \A l \in 1..(k + 1) : Right(attempts, jobs'[l]) /\ jobs'[l].c < ci + 1
    <3> SUFFICES ASSUME NEW l \in 1..(k + 1) PROVE Right(attempts, jobs'[l]) /\ jobs'[l].c < ci + 1
      OBVIOUS
    <3>1. CASE l = k + 1
      BY <3>1, <1>2, <1>4, <1>5, <1>j
    <3>2. CASE l # k + 1
      <4>1. l \in 1..k
        BY <3>2, <1>2
      <4> QED
        BY <4>1, <1>2, <1>5, <1>6
    <3> QED
      BY <3>1, <3>2
  <2>2. \A l \in 1..(k + 1) : \A m \in 1..(l - 1) : jobs'[m].c < jobs'[l].c
    <3> SUFFICES ASSUME NEW l \in 1..(k + 1), NEW m \in 1..(l - 1) PROVE jobs'[m].c < jobs'[l].c
      OBVIOUS
    <3>1. m \in 1..k /\ jobs'[m] = jobs[m]
      BY <1>2, <1>5
    <3>2. CASE l = k + 1
      BY <3>1, <3>2, <1>5, <1>6, <1>j
    <3>3. CASE l # k + 1
      <4>1. l \in 1..k
        BY <3>3, <1>2
      <4> QED
        BY <3>1, <4>1, <1>5 DEF CPInv, JobsRight
    <3> QED
      BY <3>2, <3>3
  <2>3. \A l \in 1..(k + 1) : Right(attempts', jobs'[l])
    BY <2>1, <1>3, RightGrows
  <2> QED
    BY <1>1, <1>5, <2>1, <2>2, <2>3 DEF JobsRight
<1>10. NothingReportedOnError' /\ ErrorsAreConfigured'
  BY <1>1, ErrorsKept
<1> QED
  BY <1>7, <1>8, <1>9, <1>10 DEF CPInv

LEMMA PopulateInv ==
  ASSUME CPInv, StartPopulate \/ PopulateJob \/ ReturnNil
  PROVE  CPInv'
<1>1. /\ UNCHANGED <<ci, ai, ei, pod, jobs, failed, attempts, pods>>
      /\ pc' \in {"populate", "idle"} /\ failed = 0
  BY DEF StartPopulate, PopulateJob, ReturnNil, env, CPInv, Place, Building
<1>2. ji' \in Nat \ {0}
  BY DEF StartPopulate, PopulateJob, ReturnNil, CPInv, Typed
<1>3. reported' \subseteq Nat
  <2>1. CASE PopulateJob
    <3>1. ji <= Len(jobs) /\ pc = "populate"
      BY <2>1 DEF PopulateJob
    <3>2. reported' = reported \/ reported' = reported \cup {jobs[ji].c}
      BY <2>1 DEF PopulateJob
    <3>3. jobs[ji] \in Jobs
      <4>1. ji \in 1..Len(jobs)
        BY <3>1 DEF CPInv, Typed
      <4> QED
        BY <4>1 DEF CPInv, Typed
    <3> QED
      BY <3>2, <3>3 DEF CPInv, Typed, Jobs
  <2>2. CASE StartPopulate \/ ReturnNil
    BY <2>2 DEF StartPopulate, ReturnNil, CPInv, Typed
  <2> QED
    BY <2>1, <2>2
<1>4. Typed'
  BY <1>1, <1>2, <1>3 DEF CPInv, Typed
<1>5. Place' /\ Tried'
  BY <1>1 DEF Place, Building, Tried
<1>6. JobsRight'
  BY <1>1, JobsKept DEF Building, CPInv, Typed
<1>7. NothingReportedOnError' /\ ErrorsAreConfigured'
  BY <1>1, ErrorsKept
<1> QED
  BY <1>4, <1>5, <1>6, <1>7 DEF CPInv

LEMMA RunUnchangedInv ==
  ASSUME CPInv, UNCHANGED runVars, pods' \subseteq Pods
  PROVE  CPInv'
<1>1. UNCHANGED <<pc, ci, ai, ei, pod, jobs, ji, reported, failed, attempts>>
  BY DEF runVars
<1>2. Typed'
  BY <1>1 DEF CPInv, Typed
<1>3. Place'
  <2>1. Entry' = Entry /\ Component' = Component
    BY <1>1 DEF Entry, Component
  <2> QED
    BY <1>1, <2>1 DEF CPInv, Place, Building
<1>4. Tried'
  BY <1>1 DEF CPInv, Tried
<1>5. JobsRight'
  BY <1>1, JobsKept DEF Building, CPInv, Typed
<1>6. NothingReportedOnError' /\ ErrorsAreConfigured'
  BY <1>1, ErrorsKept
<1> QED
  BY <1>2, <1>3, <1>4, <1>5, <1>6 DEF CPInv

LEMMA CPStep == ASSUME CPInv, [Next]_vars PROVE CPInv'
<1>1. CASE NoLister \/ InvalidSelector
  <2>1. /\ ReturnError /\ pc = "discover" /\ attempts' = attempts
        /\ ai <= Len(Autodiscover[Component])
        /\ ~HasLister(Entry.namespace) \/ ~SelectorParses(Entry.selector)
    BY <1>1 DEF NoLister, InvalidSelector
  <2>2. ai \in 1..Len(Autodiscover[Component])
    BY <2>1, EntryTyped DEF CPInv, Typed, Place
  <2>3. attempts' \subseteq [c : Nat, a : Nat, e : Nat, outcome : Outcomes]
    BY <2>1 DEF CPInv, Typed
  <2> QED
    BY <2>1, <2>2, <2>3, ReturnErrorInv DEF Entry
<1>2. CASE ConnectBadEndpoint \/ AllProbesFailed
  BY <1>2, ClientFailsInv DEF ConnectBadEndpoint, AllProbesFailed
<1>3. CASE Environment \/ UNCHANGED vars
  <2>1. UNCHANGED runVars /\ pods' \subseteq Pods
    BY <1>3 DEF Environment, vars, env, CPInv, Typed
  <2> QED
    BY <2>1, RunUnchangedInv
<1> QED
  BY <1>1, <1>2, <1>3, StartRunInv, BuildInv, PodNotFoundInv, PodFoundInv, ProbeFailsInv, ProbeOKInv,
     PopulateInv DEF Next, Run

LEMMA CPInductive == Spec => []CPInv
BY CPInitInv, CPStep, PTL DEF Spec

\* A Run that fails, at whatever component and for whatever reason, has added
\* nothing to the integration.
THEOREM CPAllOrNothing == Spec => []NothingReportedOnError
BY CPInductive, PTL DEF CPInv

\* Missing pods, broken credentials and endpoints that do not answer never make
\* a Run fail for an autodiscovered component, whatever changes meanwhile: only
\* an entry without a namespace or with a selector that is not valid does.
THEOREM CPErrorsConfigured == Spec => []ErrorsAreConfigured
BY CPInductive, PTL DEF CPInv

\* The precedence of entries and endpoints, and the identity of the pod, for any
\* number of components, entries and endpoints and any changes between probes.
THEOREM CPFirstUsable == Spec => []FirstUsableEndpoint
<1>1. CPInv => FirstUsableEndpoint
  BY DEF CPInv, JobsRight, Right, Fits, EndpointFailed, EntryFailed, FirstUsableEndpoint
<1> QED
  BY <1>1, CPInductive, PTL
=============================================================================
