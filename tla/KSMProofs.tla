------------------------------ MODULE KSMProofs ------------------------------
(***************************************************************************)
(* Safety of the KSM scraper for any hosts, slices, configurations and     *)
(* timeouts, and of a KSM job for any answers of KSM, any services that    *)
(* are listed and any namespaces that are allowed.                         *)
(***************************************************************************)
EXTENDS KSMScraper, KSMPopulate, FiniteSetTheorems, WellFoundedInduction, TLAPS

(* Discovery lists every host that was found, once. *)

\* Induction over the naturals, in the form of a least counterexample.
LEMMA LeastNat ==
  ASSUME NEW T \in SUBSET Nat, T # {}
  PROVE  \E x \in T : \A y \in T : x <= y
<1> DEFINE R == OpToRel(<, Nat)
<1>1. IsWellFoundedOn(R, Nat)
  BY NatLessThanWellFounded
<1> HIDE DEF R
<1>2. PICK x \in T : \A y \in T : ~(<<y, x>> \in R)
  BY <1>1, WFMin
<1>3. \A y \in T : <<y, x>> \in R <=> y < x
  BY DEF R, OpToRel
<1>4. \A y \in T : x \in Nat /\ y \in Nat /\ ~(y < x)
  BY <1>2, <1>3
<1>5. \A y \in T : x <= y
  BY <1>4
<1> QED
  BY <1>5

\* Of any hosts one is the last in byte order.
LEMMA LastHost ==
  ASSUME NEW hosts \in SUBSET AllHosts, hosts # {}
  PROVE  \E h \in hosts : \A g \in hosts \ {h} : Before(g, h)
<1> DEFINE Ks == {k \in 1..Len(Hosts) : Hosts[k] \in hosts}
           T == {d \in Nat : \E k \in Ks : d = Len(Hosts) - k}
<1>0. Len(Hosts) \in Nat
  BY KSMAssumption
<1>1. \A h \in hosts : \E k \in Ks : Hosts[k] = h
  BY DEF AllHosts
<1>2. T # {}
  <2>1. PICK k \in Ks : TRUE
    BY <1>1
  <2>2. Len(Hosts) - k \in Nat
    BY <1>0
  <2> QED
    BY <2>2
<1>3. PICK d \in T : \A y \in T : d <= y
  <2> HIDE DEF T
  <2>1. T \in SUBSET Nat
    BY DEF T
  <2> QED
    BY <1>2, <2>1, LeastNat
<1>4. PICK k \in Ks : d = Len(Hosts) - k
  OBVIOUS
<1>5. \A l \in Ks : l <= k
  <2> SUFFICES ASSUME NEW l \in Ks PROVE l <= k
    OBVIOUS
  <2>1. Len(Hosts) - l \in T
    BY <1>0
  <2>2. d <= Len(Hosts) - l
    BY <1>3, <2>1
  <2> QED
    BY <1>0, <1>4, <2>2
<1>6. ASSUME NEW g \in hosts \ {Hosts[k]} PROVE Before(g, Hosts[k])
  <2>1. PICK l \in Ks : Hosts[l] = g
    BY <1>1
  <2>2. l < k
    BY <2>1, <1>5, <1>0
  <2> QED
    BY <2>1, <2>2 DEF Before
<1> QED
  BY <1>6

LEMMA HostsFinite == IsFiniteSet(AllHosts)
<1>1. Hosts \in Surjection(1..Len(Hosts), AllHosts)
  <2>1. Hosts \in [1..Len(Hosts) -> AllHosts]
    BY KSMAssumption
  <2>2. \A h \in AllHosts : \E l \in 1..Len(Hosts) : Hosts[l] = h
    BY DEF AllHosts
  <2> QED
    BY <2>1, <2>2 DEF Surjection
<1>2. IsFiniteSet(1..Len(Hosts))
  BY KSMAssumption, FS_Interval
<1> QED
  BY <1>1, <1>2, FS_Surjection

\* Any hosts can be put in order.
LEMMA CanBeSorted ==
  ASSUME NEW hosts \in SUBSET AllHosts
  PROVE  \E s \in [1..Cardinality(hosts) -> hosts] : InOrder(s)
<1> DEFINE P(S) == \E s \in [1..Cardinality(S) -> S] : InOrder(s)
           T == {c \in Nat : \E S \in SUBSET AllHosts : Cardinality(S) = c /\ ~P(S)}
<1>f. \A S \in SUBSET AllHosts : IsFiniteSet(S) /\ Cardinality(S) \in Nat
  BY HostsFinite, FS_Subset, FS_CardinalityType
<1> SUFFICES ASSUME ~P(hosts) PROVE FALSE
  OBVIOUS
<1>1. Cardinality(hosts) \in T
  BY <1>f
<1>2. PICK c \in T : \A y \in T : c <= y
  <2>1. T \in SUBSET Nat /\ T # {}
    BY <1>1
  <2> HIDE DEF T
  <2> QED
    BY <2>1, LeastNat
<1>3. PICK S \in SUBSET AllHosts : Cardinality(S) = c /\ ~P(S)
  OBVIOUS
<1>4. S # {}
  <2> SUFFICES ASSUME S = {} PROVE FALSE
    OBVIOUS
  <2>1. Cardinality(S) = 0
    BY FS_EmptySet
  <2>2. <<>> \in [1..0 -> S] /\ InOrder(<<>>)
    BY DEF InOrder
  <2> QED
    BY <1>3, <2>1, <2>2
<1>5. PICK h \in S : \A g \in S \ {h} : Before(g, h)
  BY <1>4, LastHost
<1>6. Cardinality(S \ {h}) = c - 1 /\ c \in Nat /\ c - 1 \in Nat
  BY <1>f, <1>3, <1>4, FS_RemoveElement, FS_EmptySet
<1>7. P(S \ {h})
  <2>1. c - 1 \notin T
    BY <1>2, <1>6
  <2> QED
    BY <1>6, <2>1
<1>8. PICK s \in [1..(c - 1) -> S \ {h}] : InOrder(s)
  BY <1>6, <1>7
<1> DEFINE t == [i \in 1..c |-> IF i = c THEN h ELSE s[i]]
<1>9. t \in [1..c -> S]
  BY <1>6, <1>8
<1>10. InOrder(t)
  <2>1. Len(t) = c /\ Len(s) = c - 1
    BY <1>6, <1>8
  <2> SUFFICES ASSUME NEW i \in 1..c, NEW j \in 1..c, i < j PROVE Before(t[i], t[j])
    BY <2>1 DEF InOrder
  <2>2. i \in 1..(c - 1) /\ t[i] = s[i] /\ s[i] \in S \ {h}
    BY <1>6, <1>8
  <2>3. CASE j = c
    BY <2>2, <2>3, <1>5
  <2>4. CASE j # c
    <3>1. j \in 1..(c - 1) /\ t[j] = s[j]
      BY <2>4, <1>6
    <3> QED
      BY <2>1, <2>2, <3>1, <1>8 DEF InOrder
  <2> QED
    BY <2>3, <2>4
<1> QED
  BY <1>3, <1>9, <1>10

LEMMA BeforeIrreflexive == \A h : ~Before(h, h)
BY KSMAssumption DEF Before

\* What Discover returns: a list of the hosts found, with no host twice and
\* none left out.
LEMMA SortedFacts ==
  ASSUME NEW hosts \in SUBSET AllHosts
  PROVE  /\ Sorted(hosts) \in Seq(AllHosts)
         /\ \A i, j \in 1..Len(Sorted(hosts)) : Sorted(hosts)[i] = Sorted(hosts)[j] => i = j
         /\ {Sorted(hosts)[i] : i \in 1..Len(Sorted(hosts))} = hosts
<1> DEFINE c == Cardinality(hosts)
           s == Sorted(hosts)
<1>f. IsFiniteSet(hosts) /\ c \in Nat
  BY HostsFinite, FS_Subset, FS_CardinalityType
<1>1. s \in [1..c -> hosts] /\ InOrder(s)
  BY CanBeSorted DEF Sorted
<1> HIDE DEF s
<1>2. Len(s) = c /\ s \in Seq(AllHosts)
  BY <1>1, <1>f
<1>3. \A i, j \in 1..c : s[i] = s[j] => i = j
  <2> SUFFICES ASSUME NEW i \in 1..c, NEW j \in 1..c, s[i] = s[j], i < j PROVE FALSE
    BY <1>f
  <2>1. Before(s[i], s[j])
    BY <1>1, <1>2 DEF InOrder
  <2> QED
    BY <2>1, BeforeIrreflexive
<1>4. s \in Injection(1..c, hosts)
  BY <1>1, <1>3 DEF Injection, IsInjective
<1>5. s \in Surjection(1..c, hosts)
  <2>1. IsFiniteSet(1..c) /\ Cardinality(1..c) = c
    BY <1>f, FS_Interval
  <2> QED
    BY <1>f, <1>4, <2>1, FS_Injection
<1>6. {s[i] : i \in 1..c} = hosts
  BY <1>1, <1>5 DEF Surjection
<1> QED
  BY <1>2, <1>3, <1>6 DEF s

-----------------------------------------------------------------------------
(* The state machine *)

Typed ==
    /\ config \in Configs /\ slices \in SliceSets
    /\ pc \in {"idle", "discover", "fetch"}
    /\ endpoints \in Seq(AllHosts) /\ reported \in Seq(AllHosts)
    /\ n \in Nat \ {0} /\ now \in Nat
    /\ result \in {"none", "nil", "timeout", "notPopulated"}
    /\ steady \subseteq up /\ up \subseteq AllHosts

\* The endpoints of a Run are distinct.
EndpointsOnce == \A l, m \in 1..Len(endpoints) : endpoints[l] = endpoints[m] => l = m

\* How far the loop over the endpoints has come: what is reported comes from the
\* endpoints before the next, and of those none that answered all the time is
\* missing.  A KSM that is not distributed ends the loop with its first success.
Progress ==
    /\ pc = "discover" => n = 1 /\ reported = <<>>
    /\ pc = "fetch" =>
        /\ n <= Len(endpoints) + 1
        /\ \A l \in 1..Len(reported) : \E m \in 1..(n - 1) : m <= Len(endpoints) /\ endpoints[m] = reported[l]
        /\ ~config.distributed => reported = <<>> \/ n = Len(endpoints) + 1
        /\ config.distributed => \A m \in 1..(n - 1) : endpoints[m] \in steady => endpoints[m] \in Reported
        /\ reported = <<>> => \A m \in 1..(n - 1) : endpoints[m] \notin steady

KSMInv == Typed /\ EndpointsOnce /\ Progress /\ ReportedOnce

LEMMA ConfigTyped ==
  ASSUME Typed
  PROVE  config.distributed \in BOOLEAN /\ config.staticURL \in AllHosts \cup {NoURL}
BY KSMAssumption DEF Typed

LEMMA FoundHosts == Found \subseteq AllHosts
BY KSMAssumption DEF Found

\* One poll of the discovery: whatever the slices hold, however often they list
\* an endpoint, its answer has every host that was found, once, in byte order.
THEOREM DiscoverListsFound ==
    /\ {Discover[i] : i \in 1..Len(Discover)} = Found
    /\ \A i, j \in 1..Len(Discover) : i < j => Before(Discover[i], Discover[j])
    /\ \A i, j \in 1..Len(Discover) : Discover[i] = Discover[j] => i = j
<1>1. InOrder(Discover)
  BY CanBeSorted, FoundHosts DEF Discover, Sorted
<1> QED
  BY <1>1, SortedFacts, FoundHosts DEF Discover, InOrder

LEMMA KSMInitInv == Init => KSMInv
<1> SUFFICES ASSUME Init PROVE KSMInv
  OBVIOUS
<1>1. endpoints = <<>> /\ reported = <<>> /\ Len(<<>>) = 0 /\ 1..0 = {}
  BY DEF Init
<1>2. Typed
  BY <1>1 DEF Init, Typed
<1>3. EndpointsOnce /\ ReportedOnce
  BY <1>1 DEF EndpointsOnce, ReportedOnce
<1>4. Progress
  BY DEF Init, Progress
<1> QED
  BY <1>2, <1>3, <1>4 DEF KSMInv

LEMMA StartRunInv == ASSUME KSMInv, StartRun PROVE KSMInv'
<1>1. n' = 1 /\ reported' = <<>> /\ Len(<<>>) = 0 /\ 1..0 = {} /\ pc' \in {"fetch", "discover"}
      /\ UNCHANGED <<config, slices, up>> /\ steady' = up /\ now' = 0 /\ result' = "none"
  BY DEF StartRun
<1>2. endpoints' = <<>> \/ \E h \in AllHosts : endpoints' = <<h>>
  BY ConfigTyped DEF StartRun, KSMInv
<1>3. endpoints' \in Seq(AllHosts) /\ Len(endpoints') \in {0, 1}
  <2>1. <<>> \in Seq(AllHosts) /\ Len(<<>>) = 0
    OBVIOUS
  <2>2. \A h \in AllHosts : <<h>> \in Seq(AllHosts) /\ Len(<<h>>) = 1
    OBVIOUS
  <2> QED
    BY <1>2, <2>1, <2>2
<1>4. Typed'
  BY <1>1, <1>3 DEF KSMInv, Typed
<1>5. EndpointsOnce'
  BY <1>3 DEF EndpointsOnce
<1>6. ReportedOnce'
  BY <1>1 DEF ReportedOnce
<1>7. Progress'
  BY <1>1, <1>3 DEF Progress
<1> QED
  BY <1>4, <1>5, <1>6, <1>7 DEF KSMInv

LEMMA DiscoveryInv ==
  ASSUME KSMInv, PollFinds \/ PollEmpty \/ DiscoveryTimeout
  PROVE  KSMInv'
<1>1. UNCHANGED <<config, slices, up, steady, n, reported>> /\ pc = "discover"
  BY DEF PollFinds, PollEmpty, DiscoveryTimeout
<1>2. n = 1 /\ reported = <<>> /\ Len(<<>>) = 0 /\ 1..0 = {}
  BY <1>1 DEF KSMInv, Progress
<1>3. endpoints' \in Seq(AllHosts) /\ EndpointsOnce'
  <2>1. CASE PollFinds
    BY <2>1, SortedFacts, FoundHosts DEF PollFinds, Discover, EndpointsOnce
  <2>2. CASE PollEmpty \/ DiscoveryTimeout
    BY <2>2 DEF PollEmpty, DiscoveryTimeout, KSMInv, Typed, EndpointsOnce
  <2> QED
    BY <2>1, <2>2
<1>4. Typed'
  <2>1. now' \in Nat
    BY KSMAssumption DEF PollFinds, PollEmpty, DiscoveryTimeout, KSMInv, Typed
  <2> QED
    BY <1>1, <1>3, <2>1 DEF PollFinds, PollEmpty, DiscoveryTimeout, Return, KSMInv, Typed
<1>5. ReportedOnce'
  BY <1>1 DEF KSMInv, ReportedOnce
<1>6. Progress'
  <2>1. Len(endpoints') \in Nat
    BY <1>3
  <2> QED
    BY <1>1, <1>2, <2>1 DEF Progress
<1> QED
  BY <1>3, <1>4, <1>5, <1>6 DEF KSMInv

LEMMA PopulateInv == ASSUME KSMInv, Populate PROVE KSMInv'
<1>1. /\ UNCHANGED <<config, slices, up, steady, endpoints, pc, now, result>>
      /\ pc = "fetch" /\ n <= Len(endpoints)
      /\ reported' = Append(reported, endpoints[n])
      /\ n' = IF config.distributed THEN n + 1 ELSE Len(endpoints) + 1
  BY DEF Populate
<1> DEFINE k == Len(reported)
<1>2. /\ n \in Nat \ {0} /\ k \in Nat /\ Len(endpoints) \in Nat /\ endpoints[n] \in AllHosts
      /\ config.distributed \in BOOLEAN
  BY <1>1, ConfigTyped DEF KSMInv, Typed
<1>3. /\ reported' \in Seq(AllHosts) /\ Len(reported') = k + 1 /\ reported'[k + 1] = endpoints[n]
      /\ \A l \in 1..k : reported'[l] = reported[l]
  BY <1>1, <1>2 DEF KSMInv, Typed
<1>4. n' \in Nat /\ n < n' /\ n' <= Len(endpoints) + 1 /\ 1..n \subseteq 1..(n' - 1)
  <2>1. CASE config.distributed
    BY <1>1, <1>2, <2>1
  <2>2. CASE ~config.distributed
    BY <1>1, <1>2, <2>2
  <2> QED
    BY <2>1, <2>2
<1>5. Typed'
  BY <1>1, <1>3, <1>4 DEF KSMInv, Typed
<1>6. EndpointsOnce'
  BY <1>1 DEF KSMInv, EndpointsOnce
<1>7. \A l \in 1..k : \E m \in 1..(n - 1) : m <= Len(endpoints) /\ endpoints[m] = reported[l]
  BY <1>1 DEF KSMInv, Progress
<1>8. \A l \in 1..k : reported[l] # endpoints[n]
  <2> SUFFICES ASSUME NEW l \in 1..k, reported[l] = endpoints[n] PROVE FALSE
    OBVIOUS
  <2>1. PICK m \in 1..(n - 1) : m <= Len(endpoints) /\ endpoints[m] = reported[l]
    BY <1>7
  <2>2. m \in 1..Len(endpoints) /\ n \in 1..Len(endpoints) /\ m # n
    BY <1>1, <1>2
  <2> QED
    BY <2>1, <2>2 DEF KSMInv, EndpointsOnce
<1>9. ReportedOnce'
  <2>1. \A l, m \in 1..(k + 1) : reported'[l] = reported'[m] => l = m
    <3> SUFFICES ASSUME NEW l \in 1..(k + 1), NEW m \in 1..(k + 1), reported'[l] = reported'[m]
                 PROVE  l = m
      OBVIOUS
    <3>1. CASE l = k + 1 /\ m # k + 1
      BY <3>1, <1>2, <1>3, <1>8
    <3>2. CASE l # k + 1 /\ m = k + 1
      BY <3>2, <1>2, <1>3, <1>8
    <3>3. CASE l # k + 1 /\ m # k + 1
      <4>1. l \in 1..k /\ m \in 1..k
        BY <3>3, <1>2
      <4> QED
        BY <4>1, <1>3 DEF KSMInv, ReportedOnce
    <3> QED
      BY <3>1, <3>2, <3>3
  <2>2. ~config.distributed => k = 0
    <3> SUFFICES ASSUME ~config.distributed PROVE reported = <<>>
      BY DEF k
    <3> QED
      BY <1>1, <1>2 DEF KSMInv, Progress
  <2> QED
    BY <1>1, <1>2, <1>3, <2>1, <2>2 DEF ReportedOnce
<1>10. Progress'
  <2>1. \A l \in 1..(k + 1) : \E m \in 1..(n' - 1) : m <= Len(endpoints) /\ endpoints[m] = reported'[l]
    <3> SUFFICES ASSUME NEW l \in 1..(k + 1)
                 PROVE  \E m \in 1..(n' - 1) : m <= Len(endpoints) /\ endpoints[m] = reported'[l]
      OBVIOUS
    <3>1. CASE l = k + 1
      <4>1. n \in 1..n
        BY <1>2
      <4> QED
        BY <3>1, <4>1, <1>1, <1>3, <1>4
    <3>2. CASE l # k + 1
      <4>1. l \in 1..k
        BY <3>2, <1>2
      <4>2. PICK m \in 1..(n - 1) : m <= Len(endpoints) /\ endpoints[m] = reported[l]
        BY <4>1, <1>7
      <4>3. m \in 1..n
        BY <1>2
      <4> QED
        BY <4>1, <4>2, <4>3, <1>3, <1>4
    <3> QED
      BY <3>1, <3>2
  <2>2. Reported' = Reported \cup {endpoints[n]}
    BY <1>2, <1>3 DEF Reported
  <2>3. config.distributed => \A m \in 1..(n' - 1) : endpoints[m] \in steady => endpoints[m] \in Reported'
    <3> SUFFICES ASSUME config.distributed, NEW m \in 1..(n' - 1), endpoints[m] \in steady
                 PROVE  endpoints[m] \in Reported'
      OBVIOUS
    <3>1. m = n \/ m \in 1..(n - 1)
      BY <1>1, <1>2
    <3> QED
      BY <3>1, <2>2, <1>1 DEF KSMInv, Progress
  <2>4. reported' # <<>>
    BY <1>2, <1>3
  <2>5. ~config.distributed => n' = Len(endpoints) + 1
    BY <1>1
  <2> QED
    BY <1>1, <1>3, <1>4, <2>1, <2>3, <2>4, <2>5 DEF Progress
<1> QED
  BY <1>5, <1>6, <1>9, <1>10 DEF KSMInv

LEMMA PopulateFailsInv == ASSUME KSMInv, PopulateFails PROVE KSMInv'
<1>1. /\ UNCHANGED <<config, slices, up, steady, endpoints, pc, now, result, reported>>
      /\ pc = "fetch" /\ n <= Len(endpoints) /\ n' = n + 1 /\ endpoints[n] \notin steady
  BY DEF PopulateFails, KSMInv, Typed
<1>2. n \in Nat \ {0} /\ Len(endpoints) \in Nat
  BY DEF KSMInv, Typed
<1>3. Typed' /\ EndpointsOnce' /\ ReportedOnce'
  BY <1>1, <1>2 DEF KSMInv, Typed, EndpointsOnce, ReportedOnce
<1>4. Reported' = Reported
  BY <1>1 DEF Reported
<1>5. \A m \in 1..(n' - 1) : m = n \/ m \in 1..(n - 1)
  BY <1>1, <1>2
<1>6. \A m \in 1..(n - 1) : m \in 1..(n' - 1)
  BY <1>1, <1>2
<1>7. n' <= Len(endpoints) + 1 /\ n # Len(endpoints) + 1
  BY <1>1, <1>2
<1>8. Progress'
  BY <1>1, <1>4, <1>5, <1>6, <1>7 DEF KSMInv, Progress
<1> QED
  BY <1>3, <1>8 DEF KSMInv

LEMMA EndRunInv == ASSUME KSMInv, EndRun PROVE KSMInv'
<1>1. UNCHANGED <<config, slices, up, steady, endpoints, now, reported, n>>
      /\ pc' = "idle" /\ result' \in {"notPopulated", "nil"}
  BY DEF EndRun, Return
<1>2. Typed'
  BY <1>1 DEF KSMInv, Typed
<1>3. EndpointsOnce' /\ ReportedOnce' /\ Progress'
  BY <1>1 DEF KSMInv, EndpointsOnce, ReportedOnce, Progress
<1> QED
  BY <1>2, <1>3 DEF KSMInv

LEMMA EnvironmentInv == ASSUME KSMInv, Environment PROVE KSMInv'
<1>1. /\ UNCHANGED <<config, pc, now, endpoints, n, reported, result>>
      /\ steady' \subseteq steady /\ steady' \subseteq up' /\ up' \subseteq AllHosts /\ slices' \in SliceSets
  BY DEF Environment, runVars, KSMInv, Typed
<1>2. Typed'
  BY <1>1 DEF KSMInv, Typed
<1>3. EndpointsOnce' /\ ReportedOnce'
  BY <1>1 DEF KSMInv, EndpointsOnce, ReportedOnce
<1>4. Reported' = Reported
  BY <1>1 DEF Reported
<1>5. Progress'
  BY <1>1, <1>4 DEF KSMInv, Progress
<1> QED
  BY <1>2, <1>3, <1>5 DEF KSMInv

LEMMA KSMInductive == Spec => []KSMInv
<1>1. ASSUME KSMInv, UNCHANGED vars PROVE KSMInv'
  <2>1. UNCHANGED <<config, slices, up, steady, pc, now, endpoints, n, reported, result>>
    BY <1>1 DEF vars, runVars
  <2>2. Reported' = Reported
    BY <2>1 DEF Reported
  <2> QED
    BY <1>1, <2>1, <2>2 DEF KSMInv, Typed, EndpointsOnce, ReportedOnce, Progress
<1>2. KSMInv /\ [Next]_vars => KSMInv'
  BY <1>1, StartRunInv, DiscoveryInv, PopulateInv, PopulateFailsInv, EndRunInv, EnvironmentInv
     DEF Next, Run
<1> QED
  BY <1>2, KSMInitInv, PTL DEF Spec

\* For any slices that list the same endpoints, any configuration and any
\* coming and going of hosts: no endpoint's objects are sent twice.
THEOREM KSMReportedOnce == Spec => []ReportedOnce
BY KSMInductive, PTL DEF KSMInv

\* No endpoint that kept answering is left out of a Run that has gone through
\* its list, however many endpoints before it failed.
THEOREM KSMNoneMissed == Spec => []NoEndpointMissed
<1>1. ASSUME KSMInv PROVE NoEndpointMissed
  <2> SUFFICES ASSUME pc = "fetch", n > Len(endpoints)
               PROVE  /\ config.distributed => \A h \in steady : InEndpoints(h) => h \in Reported
                      /\ (\E h \in steady : InEndpoints(h)) => reported # <<>>
    BY DEF NoEndpointMissed
  <2>1. \A m \in 1..Len(endpoints) : m \in 1..(n - 1)
    BY <1>1 DEF KSMInv, Typed
  <2> QED
    BY <1>1, <2>1 DEF KSMInv, Progress, InEndpoints
<1> QED
  BY <1>1, KSMInductive, PTL

-----------------------------------------------------------------------------
(* A KSM job.  What is proved of its loops is proved for a range of numbers. *)

\* Induction over the numbers up to N: what is proved of them is that they are
\* elements of a set T.
LEMMA UpTo ==
  ASSUME NEW N \in Nat, NEW T, 0 \in T, \A k \in 0..N : k < N /\ k \in T => k + 1 \in T
  PROVE  \A k \in 0..N : k \in T
<1> SUFFICES ASSUME NEW m \in 0..N, m \notin T PROVE FALSE
  OBVIOUS
<1> DEFINE Bad == {k \in 0..N : k \notin T}
<1>1. Bad \in SUBSET Nat /\ Bad # {}
  OBVIOUS
<1>2. PICK k \in Bad : \A y \in Bad : k <= y
  <2> HIDE DEF Bad
  <2> QED
    BY <1>1, LeastNat
<1>3. k \in 0..N /\ k \notin T /\ k # 0
  OBVIOUS
<1>4. k - 1 \in 0..N /\ k - 1 < N /\ k - 1 \notin Bad /\ (k - 1) + 1 = k
  BY <1>2, <1>3
<1>5. k - 1 \in T
  BY <1>4
<1> QED
  BY <1>3, <1>4, <1>5

\* Of some positions one is the last.
LEMMA Latest ==
  ASSUME NEW N \in Nat, NEW S \in SUBSET (1..N), S # {}
  PROVE  \E i \in S : \A j \in S : j <= i
<1> DEFINE T == {d \in 0..N : N - d \in S}
<1>1. T \in SUBSET Nat /\ T # {}
  <2>1. PICK i \in S : TRUE
    OBVIOUS
  <2>2. i \in 1..N
    OBVIOUS
  <2>3. N - i \in 0..N /\ N - (N - i) = i
    BY <2>2
  <2>4. N - i \in T
    BY <2>3
  <2>5. \A d \in 0..N : d \in Nat
    OBVIOUS
  <2>6. T \in SUBSET Nat
    BY <2>5
  <2> HIDE DEF T
  <2> QED
    BY <2>4, <2>6
<1>2. PICK d \in T : \A y \in T : d <= y
  <2> HIDE DEF T
  <2> QED
    BY <1>1, LeastNat
<1>3. ASSUME NEW j \in S PROVE j <= N - d
  <2>1. N - j \in 0..N /\ N - (N - j) = j
    OBVIOUS
  <2>2. d <= N - j
    BY <1>2, <2>1
  <2> QED
    BY <2>1, <2>2
<1> QED
  BY <1>2, <1>3

-----------------------------------------------------------------------------
(* Grouping *)

\* The group before and after each series.
LEMMA GroupRecursion ==
  ASSUME NEW g, NEW series, Len(series) \in Nat
  PROVE  /\ GroupOf(g, series)[0] = NoMap
         /\ \A k \in 1..Len(series) :
              GroupOf(g, series)[k] =
                IF BelongsTo(g, series[k])
                  THEN AddMetric(GroupOf(g, series)[k - 1], RawEntityID(g, series[k]), series[k])
                  ELSE GroupOf(g, series)[k - 1]
<1> DEFINE N == Len(series)
           Turn(k, x) == IF k = 0 THEN NoMap
                         ELSE IF BelongsTo(g, series[k])
                           THEN AddMetric(x, RawEntityID(g, series[k]), series[k])
                           ELSE x
           Sat(f, m) == f = [k \in 0..m |->
                               IF k = 0 THEN NoMap
                               ELSE IF BelongsTo(g, series[k])
                                 THEN AddMetric(f[k - 1], RawEntityID(g, series[k]), series[k])
                                 ELSE f[k - 1]]
           T == {m \in 0..N : \E f : Sat(f, m)}
<1>1. 0 \in T
  <2>1. Sat([k \in 0..0 |-> NoMap], 0)
    OBVIOUS
  <2>2. \E f : Sat(f, 0)
    <3> HIDE DEF Sat
    <3> QED
      BY <2>1
  <2> QED
    BY <2>2
<1>2. ASSUME NEW m \in 0..N, m < N, m \in T PROVE m + 1 \in T
  <2>1. PICK f : Sat(f, m)
    BY <1>2
  <2> DEFINE h == [k \in 0..(m + 1) |-> IF k = m + 1 THEN Turn(k, f[m]) ELSE f[k]]
  <2>2. ASSUME NEW k \in 0..(m + 1) PROVE h[k] = Turn(k, h[k - 1])
    <3>1. CASE k = m + 1
      <4>1. k - 1 = m /\ m \in 0..(m + 1) /\ m # m + 1
        BY <3>1
      <4>2. h[k] = Turn(k, f[m]) /\ h[m] = f[m]
        BY <3>1, <4>1
      <4> QED
        BY <4>1, <4>2
    <3>2. CASE k # m + 1
      <4>1. k \in 0..m /\ h[k] = f[k]
        BY <3>2
      <4>2. f[k] = Turn(k, f[k - 1])
        BY <2>1, <4>1
      <4>3. k # 0 => h[k - 1] = f[k - 1]
        BY <3>2
      <4> QED
        BY <4>1, <4>2, <4>3
    <3> QED
      BY <3>1, <3>2
  <2>3. Sat(h, m + 1)
    BY <2>2
  <2>4. \E x : Sat(x, m + 1)
    <3> HIDE DEF Sat, h
    <3> QED
      BY <2>3
  <2> QED
    BY <1>2, <2>4
<1>3. N \in T
  <2> HIDE DEF T, N
  <2>1. N \in Nat
    BY DEF N
  <2>2. \A k \in 0..N : k \in T
    BY <1>1, <1>2, <2>1, UpTo
  <2> QED
    BY <2>1, <2>2
<1>4. Sat(GroupOf(g, series), N)
  <2>1. PICK h : Sat(h, N)
    BY <1>3
  <2>2. GroupOf(g, series) = CHOOSE f : Sat(f, N)
    BY DEF GroupOf
  <2> QED
    BY <2>1, <2>2
<1>5. \A k \in 0..N : GroupOf(g, series)[k] = Turn(k, GroupOf(g, series)[k - 1])
  <2> DEFINE G == GroupOf(g, series)
  <2>1. Sat(G, N)
    BY <1>4
  <2> HIDE DEF G
  <2>2. \A k \in 0..N : G[k] = Turn(k, G[k - 1])
    BY <2>1
  <2> QED
    BY <2>2 DEF G
<1>6. 0 \in 0..N /\ \A k \in 1..N : k \in 0..N /\ k # 0
  OBVIOUS
<1> QED
  BY <1>5, <1>6

\* The positions, up to k, of the series of a family that belong to an entry.
At(g, series, k, id, f) ==
    {i \in 1..k : BelongsTo(g, series[i]) /\ RawEntityID(g, series[i]) = id /\ series[i].family = f}

\* A sequence holds the series at some positions.
Holds(ms, series, at) ==
    /\ ms \in Seq({series[i] : i \in at}) /\ Len(ms) # 0
    /\ \A i \in at : \E x \in 1..Len(ms) : ms[x] = series[i]

\* So does a raw value, which is a slice if these are more than one.
RawOf(raw, series, at) ==
    /\ Holds(raw.ms, series, at)
    /\ raw.slice => \E i, j \in at : i # j
    /\ ~raw.slice => Len(raw.ms) = 1 /\ \A i, j \in at : i = j

\* A group after k series.
GroupedTo(group, g, series, k) ==
    /\ \A id : id \in DOMAIN group <=> \E f : At(g, series, k, id, f) # {}
    /\ \A id \in DOMAIN group : \A f : f \in DOMAIN group[id] <=> At(g, series, k, id, f) # {}
    /\ \A id \in DOMAIN group : \A f \in DOMAIN group[id] :
         RawOf(group[id][f], series, At(g, series, k, id, f))

\* One more series.
LEMMA HoldsFirst ==
  ASSUME NEW series, NEW i
  PROVE  Holds(<<series[i]>>, series, {i})
<1>1. Len(<<series[i]>>) = 1 /\ <<series[i]>>[1] = series[i]
  OBVIOUS
<1> QED
  BY <1>1 DEF Holds

\* One more series.
LEMMA HoldsNext ==
  ASSUME NEW series, NEW at, NEW i, NEW ms, Holds(ms, series, at)
  PROVE  Holds(Append(ms, series[i]), series, at \cup {i})
<1> DEFINE S0 == {series[j] : j \in at}
           S == {series[j] : j \in at \cup {i}}
           L == Len(ms)
           more == Append(ms, series[i])
<1>1. ms \in Seq(S0) /\ S0 \subseteq S /\ series[i] \in S
  BY DEF Holds
<1> HIDE DEF S, S0
<1>2. ms \in Seq(S)
  <2>1. L \in Nat /\ ms \in [1..L -> S0]
    BY <1>1
  <2>2. \A x \in 1..L : ms[x] \in S
    BY <1>1, <2>1
  <2>3. ms \in [1..L -> S]
    BY <2>1, <2>2
  <2> HIDE DEF L
  <2> QED
    BY <2>1, <2>3
<1>3. more \in Seq(S) /\ Len(more) = L + 1 /\ more[L + 1] = series[i]
      /\ L \in Nat /\ \A x \in 1..L : more[x] = ms[x]
  BY <1>1, <1>2
<1> HIDE DEF more, L
<1>4. \A j \in at : \E x \in 1..L : ms[x] = series[j]
  BY DEF Holds, L
<1>5. \A j \in at \cup {i} : \E x \in 1..(L + 1) : more[x] = series[j]
  BY <1>3, <1>4
<1>6. Len(more) # 0
  BY <1>3
<1> DEFINE both == at \cup {i}
<1>7. /\ more \in Seq({series[j] : j \in both})
      /\ \A j \in both : \E x \in 1..Len(more) : more[x] = series[j]
  BY <1>3, <1>5 DEF S
<1> HIDE DEF both
<1>8. Holds(more, series, both)
  BY <1>6, <1>7 DEF Holds
<1> QED
  BY <1>8 DEF both, more

\* The first series of a family is kept as it is.
LEMMA RawFirst ==
  ASSUME NEW series, NEW i
  PROVE  RawOf(One(series[i]), series, {i})
<1>1. One(series[i]).ms = <<series[i]>> /\ One(series[i]).slice = FALSE
  BY DEF One
<1>2. Len(<<series[i]>>) = 1
  OBVIOUS
<1> QED
  BY <1>1, <1>2, HoldsFirst DEF RawOf

\* From the second on they are a slice.
LEMMA RawNext ==
  ASSUME NEW series, NEW at, NEW i, i \notin at, at # {}, NEW raw, RawOf(raw, series, at)
  PROVE  RawOf(Slice(Append(raw.ms, series[i])), series, at \cup {i})
<1> DEFINE more == Append(raw.ms, series[i])
           both == at \cup {i}
<1>1. Holds(more, series, both)
  BY HoldsNext DEF RawOf
<1>2. \E j1, j2 \in both : j1 # j2
  OBVIOUS
<1> HIDE DEF more, both
<1>3. Slice(more).ms = more /\ Slice(more).slice = TRUE
  BY DEF Slice
<1>4. RawOf(Slice(more), series, both)
  BY <1>1, <1>2, <1>3 DEF RawOf
<1> QED
  BY <1>4 DEF more, both

\* AddMetric, in the terms of what the maps hold.
Added(new, group, id0, m) ==
    LET old == Get(group, id0)
    IN /\ DOMAIN new = DOMAIN group \cup {id0}
       /\ \A id \in DOMAIN group \ {id0} : new[id] = group[id]
       /\ DOMAIN new[id0] = DOMAIN old \cup {m.family}
       /\ \A f \in DOMAIN old \ {m.family} : new[id0][f] = old[f]
       /\ new[id0][m.family] = IF m.family \in DOMAIN old
                                 THEN Slice(Append(old[m.family].ms, m)) ELSE One(m)

\* A series is added to one family of one entry.
LEMMA AddMetricFacts ==
  ASSUME NEW group, NEW id0, NEW m
  PROVE  Added(AddMetric(group, id0, m), group, id0, m)
<1> DEFINE metrics == Get(group, id0)
           raw == IF m.family \in DOMAIN metrics
                    THEN Slice(Append(metrics[m.family].ms, m)) ELSE One(m)
           new == (m.family :> raw) @@ metrics
<1>1. AddMetric(group, id0, m) = (id0 :> new) @@ group
  BY DEF AddMetric
<1> HIDE DEF raw, metrics
<1>2. /\ DOMAIN new = DOMAIN metrics \cup {m.family}
      /\ new[m.family] = raw
      /\ \A f \in DOMAIN metrics \ {m.family} : new[f] = metrics[f]
  BY DEF @@, :>
<1> HIDE DEF new
<1>3. /\ DOMAIN ((id0 :> new) @@ group) = DOMAIN group \cup {id0}
      /\ ((id0 :> new) @@ group)[id0] = new
      /\ \A id \in DOMAIN group \ {id0} : ((id0 :> new) @@ group)[id] = group[id]
  BY DEF @@, :>
<1> QED
  BY <1>1, <1>2, <1>3 DEF Added, metrics, raw

\* A group holds, of each entry and family, the series that belong there.
LEMMA GroupedStep ==
  ASSUME NEW g, NEW series, NEW k \in Nat \ {0}, NEW group, GroupedTo(group, g, series, k - 1)
  PROVE  GroupedTo(IF BelongsTo(g, series[k])
                     THEN AddMetric(group, RawEntityID(g, series[k]), series[k]) ELSE group,
                   g, series, k)
<1> DEFINE A(id, f) == At(g, series, k - 1, id, f)
           B(id, f) == At(g, series, k, id, f)
           m == series[k]
           id0 == RawEntityID(g, m)
<1>0. 1..k = (1..(k - 1)) \cup {k} /\ k \notin 1..(k - 1)
  OBVIOUS
<1>1. \A id, f : k \notin A(id, f)
  BY <1>0 DEF At
<1>2. CASE ~BelongsTo(g, m)
  <2>1. \A id, f : B(id, f) = A(id, f)
    BY <1>0, <1>2 DEF At
  <2> QED
    BY <1>2, <2>1 DEF GroupedTo
<1>3. CASE BelongsTo(g, m)
  <2>1. B(id0, m.family) = A(id0, m.family) \cup {k}
    BY <1>0, <1>3 DEF At
  <2>2. \A id, f : id # id0 \/ f # m.family => B(id, f) = A(id, f)
    BY <1>0 DEF At
  <2> DEFINE new == AddMetric(group, id0, m)
             old == Get(group, id0)
  <2>3. /\ DOMAIN new = DOMAIN group \cup {id0}
        /\ \A id \in DOMAIN group \ {id0} : new[id] = group[id]
        /\ DOMAIN new[id0] = DOMAIN old \cup {m.family}
        /\ \A f \in DOMAIN old \ {m.family} : new[id0][f] = old[f]
        /\ new[id0][m.family] = IF m.family \in DOMAIN old
                                  THEN Slice(Append(old[m.family].ms, m)) ELSE One(m)
    <3> HIDE DEF id0, m
    <3>1. Added(new, group, id0, m)
      BY AddMetricFacts
    <3> QED
      BY <3>1 DEF Added
  <2>4. /\ \A id : id \in DOMAIN group <=> \E f : A(id, f) # {}
        /\ \A id \in DOMAIN group : \A f : f \in DOMAIN group[id] <=> A(id, f) # {}
        /\ \A id \in DOMAIN group : \A f \in DOMAIN group[id] : RawOf(group[id][f], series, A(id, f))
    BY DEF GroupedTo
  <2>5. /\ \A f : f \in DOMAIN old <=> A(id0, f) # {}
        /\ \A f \in DOMAIN old : RawOf(old[f], series, A(id0, f))
    <3>1. CASE id0 \in DOMAIN group
      BY <2>4, <3>1 DEF Get
    <3>2. CASE id0 \notin DOMAIN group
      <4>1. \A f : A(id0, f) = {}
        BY <2>4, <3>2
      <4>2. old = NoMap
        BY <3>2 DEF Get
      <4>3. DOMAIN old = {}
        BY <4>2 DEF NoMap
      <4> HIDE DEF old, A
      <4> QED
        BY <4>1, <4>3
    <3> QED
      BY <3>1, <3>2
  <2> HIDE DEF new, old, A, B, id0, m
  <2>6. \A id : id \in DOMAIN new <=> \E f : B(id, f) # {}
    <3> SUFFICES ASSUME NEW id PROVE id \in DOMAIN new <=> \E f : B(id, f) # {}
      OBVIOUS
    <3>1. CASE id = id0
      <4>1. B(id, m.family) # {}
        BY <2>1, <3>1
      <4> QED
        BY <2>3, <3>1, <4>1
    <3>2. CASE id # id0
      BY <2>2, <2>3, <2>4, <3>2
    <3> QED
      BY <3>1, <3>2
  <2>7. \A f : f \in DOMAIN new[id0] <=> B(id0, f) # {}
    BY <2>1, <2>2, <2>3, <2>5
  <2>8. ASSUME NEW f \in DOMAIN new[id0] PROVE RawOf(new[id0][f], series, B(id0, f))
    <3>1. CASE f # m.family
      BY <2>2, <2>3, <2>5, <3>1
    <3>2. CASE f = m.family /\ f \in DOMAIN old
      <4>1. RawOf(old[f], series, A(id0, f)) /\ A(id0, f) # {}
        BY <2>5, <3>2
      <4>2. RawOf(Slice(Append(old[f].ms, series[k])), series, A(id0, f) \cup {k})
        BY <1>1, <4>1, RawNext
      <4> QED
        BY <2>1, <2>3, <3>2, <4>2 DEF m
    <3>3. CASE f = m.family /\ f \notin DOMAIN old
      <4>1. A(id0, f) = {} /\ B(id0, f) = {k}
        BY <2>1, <2>5, <3>3
      <4>2. RawOf(One(series[k]), series, {k})
        BY RawFirst
      <4> QED
        BY <2>3, <3>3, <4>1, <4>2 DEF m
    <3> QED
      BY <3>1, <3>2, <3>3
  <2>9. ASSUME NEW id \in DOMAIN new, id # id0
        PROVE  /\ \A f : f \in DOMAIN new[id] <=> B(id, f) # {}
               /\ \A f \in DOMAIN new[id] : RawOf(new[id][f], series, B(id, f))
    <3>1. id \in DOMAIN group /\ new[id] = group[id]
      BY <2>3, <2>9
    <3>2. \A f : B(id, f) = A(id, f)
      BY <2>2, <2>9
    <3> QED
      BY <2>4, <3>1, <3>2
  <2>10. GroupedTo(new, g, series, k)
    BY <2>6, <2>7, <2>8, <2>9 DEF GroupedTo, B
  <2> QED
    BY <1>3, <2>10 DEF new, id0, m
<1> QED
  BY <1>2, <1>3

\* What GroupMetricsBySpec makes of all the series.
LEMMA Grouped ==
  ASSUME NEW g, NEW series, Len(series) \in Nat
  PROVE  GroupedTo(GroupMetrics(g, series), g, series, Len(series))
<1> DEFINE G == GroupOf(g, series)
           N == Len(series)
           T == {k \in 0..N : GroupedTo(G[k], g, series, k)}
<1>1. /\ G[0] = NoMap
      /\ \A k \in 1..N : G[k] = IF BelongsTo(g, series[k])
                                  THEN AddMetric(G[k - 1], RawEntityID(g, series[k]), series[k])
                                  ELSE G[k - 1]
  BY GroupRecursion
<1>2. N \in Nat
  OBVIOUS
<1> HIDE DEF G, N
<1>3. 0 \in T
  <2>1. \A id, f : At(g, series, 0, id, f) = {}
    BY DEF At
  <2>2. DOMAIN G[0] = {}
    BY <1>1 DEF NoMap
  <2>3. GroupedTo(G[0], g, series, 0)
    BY <2>1, <2>2 DEF GroupedTo
  <2> QED
    BY <1>2, <2>3
<1>4. ASSUME NEW k \in 0..N, k < N, k \in T PROVE k + 1 \in T
  <2>1. k + 1 \in 1..N /\ k + 1 \in 0..N /\ (k + 1) - 1 = k /\ k + 1 \in Nat \ {0}
    BY <1>2, <1>4
  <2>2. GroupedTo(G[(k + 1) - 1], g, series, (k + 1) - 1)
    BY <1>4, <2>1
  <2> DEFINE j == k + 1
  <2> HIDE DEF j
  <2>3. GroupedTo(G[j], g, series, j)
    <3>1. GroupedTo(IF BelongsTo(g, series[j])
                      THEN AddMetric(G[j - 1], RawEntityID(g, series[j]), series[j]) ELSE G[j - 1],
                    g, series, j)
      BY <2>1, <2>2, GroupedStep DEF j
    <3> QED
      BY <1>1, <2>1, <3>1 DEF j
  <2> QED
    BY <2>1, <2>3 DEF j
<1>5. N \in T
  <2> HIDE DEF T
  <2>1. \A k \in 0..N : k \in T
    BY <1>2, <1>3, <1>4, UpTo
  <2> QED
    BY <1>2, <2>1
<1> QED
  BY <1>5 DEF G, N, GroupMetrics

-----------------------------------------------------------------------------
(* The groups of an answer *)

\* The tables that the invariants speak of.
LEMMA Tables ==
    /\ DOMAIN Specs = {"namespace", "deployment", "service", "endpoint", "resourcequota"}
    /\ DOMAIN Created = DOMAIN Specs
    /\ Created["deployment"] = "kube_deployment_created" /\ Created["service"] = "kube_service_created"
    /\ Created["endpoint"] = "kube_endpoint_created"
    /\ Created["resourcequota"] = "kube_resourcequota_created"
    /\ Specs["deployment"] = DeploymentSpecs /\ Specs["service"] = ServiceSpecs
    /\ Specs["resourcequota"] = QuotaSpecs
BY DEF Specs, Created

\* The families that describe an object, and which objects.
LEMMA DescribesFacts ==
    /\ DOMAIN Describes = {"kube_namespace_created", "kube_namespace_labels",
         "kube_deployment_created", "kube_deployment_labels", "kube_service_created",
         "kube_endpoint_created", "kube_resourcequota_created", "kube_resourcequota"}
    /\ Describes["kube_namespace_labels"] = "namespace" 
    /\ Describes["kube_deployment_labels"] = "deployment"
    /\ Describes["kube_resourcequota"] = "resourcequota"
    /\ \A g \in DOMAIN Specs : /\ Created[g] \in DOMAIN Describes /\ Describes[Created[g]] = g
                               /\ Created[g] # "kube_resourcequota" /\ Created[g] # Selectors
BY DEF Describes, Created, Specs, Selectors

\* The groups that are populated, and the positions of the series of an entry.
Kept == DOMAIN Specs \ (IF quotas THEN {} ELSE {"resourcequota"})
Held(g, id, f) == At(g, response, Len(response), id, f)

\* The selectors of a service that is listed.
Joins(g, id, f) == g = "service" /\ f = Selectors /\ id \in DOMAIN services

\* What Group leaves behind.
Grouping ==
    /\ response \in Responses
    /\ DOMAIN groups = {g \in Kept : DOMAIN GroupMetrics(g, response) # {}}
    /\ \A g \in DOMAIN groups :
         IF g = "service"
           THEN \/ groups[g] = AddSelectors(GroupMetrics(g, response), services)
                \/ services = NoMap /\ groups[g] = GroupMetrics(g, response)
           ELSE groups[g] = GroupMetrics(g, response)

\* The same, in the terms of the series of the answer.
Entries ==
    /\ DOMAIN groups \subseteq DOMAIN Specs
    /\ \A g \in Kept : \A id, f : Held(g, id, f) # {} => g \in DOMAIN groups
    /\ \A g \in DOMAIN groups : \A id : id \in DOMAIN groups[g] <=> \E f : Held(g, id, f) # {}
    /\ \A g \in DOMAIN groups : \A id \in DOMAIN groups[g] : \A f : Joins(g, id, f) =>
         f \in DOMAIN groups[g][id] /\ groups[g][id][f] = One(SelectorMetric(services[id]))
    /\ \A g \in DOMAIN groups : \A id \in DOMAIN groups[g] : \A f : ~Joins(g, id, f) =>
         /\ f \in DOMAIN groups[g][id] <=> Held(g, id, f) # {}
         /\ f \in DOMAIN groups[g][id] => RawOf(groups[g][id][f], response, Held(g, id, f))

\* An answer is a sequence of series.
LEMMA ResponseSeq ==
  ASSUME response \in Responses
  PROVE  /\ response \in Seq(AllSeries) /\ Len(response) \in Nat /\ DOMAIN response = 1..Len(response)
         /\ \A i \in DOMAIN response : response[i] \in AllSeries
BY ResponseAssumption

\* What the grouper leaves, read from the groups it built.
LEMMA EntriesHold ==
  ASSUME Grouping
  PROVE  Entries
<1> DEFINE G(g) == GroupMetrics(g, response)
<1>1. \A g : GroupedTo(G(g), g, response, Len(response))
  <2>1. Len(response) \in Nat
    BY ResponseSeq DEF Grouping
  <2> QED
    BY <2>1, Grouped
<1>2. /\ \A g, id : id \in DOMAIN G(g) <=> \E f : Held(g, id, f) # {}
      /\ \A g : \A id \in DOMAIN G(g) : \A f : f \in DOMAIN G(g)[id] <=> Held(g, id, f) # {}
      /\ \A g : \A id \in DOMAIN G(g) : \A f \in DOMAIN G(g)[id] : RawOf(G(g)[id][f], response, Held(g, id, f))
  BY <1>1 DEF GroupedTo, Held
<1> HIDE DEF G
<1>3. /\ DOMAIN groups \subseteq DOMAIN Specs
      /\ \A g \in Kept : \A id, f : Held(g, id, f) # {} => g \in DOMAIN groups
  BY <1>2 DEF Grouping, G, Kept
<1>4. ASSUME NEW g \in DOMAIN groups, groups[g] = G(g), g = "service" => services = NoMap
      PROVE  /\ \A id : id \in DOMAIN groups[g] <=> \E f : Held(g, id, f) # {}
             /\ \A id \in DOMAIN groups[g] : \A f :
                  /\ ~Joins(g, id, f)
                  /\ f \in DOMAIN groups[g][id] <=> Held(g, id, f) # {}
                  /\ f \in DOMAIN groups[g][id] => RawOf(groups[g][id][f], response, Held(g, id, f))
  <2>1. \A id, f : ~Joins(g, id, f)
    <3>1. DOMAIN NoMap = {}
      BY DEF NoMap
    <3> QED
      BY <1>4, <3>1 DEF Joins
  <2> QED
    BY <1>2, <1>4, <2>1
<1>5. ASSUME NEW g \in DOMAIN groups, g = "service", groups[g] = AddSelectors(G(g), services)
      PROVE  /\ \A id : id \in DOMAIN groups[g] <=> \E f : Held(g, id, f) # {}
             /\ \A id \in DOMAIN groups[g] : \A f : Joins(g, id, f) =>
                  f \in DOMAIN groups[g][id] /\ groups[g][id][f] = One(SelectorMetric(services[id]))
             /\ \A id \in DOMAIN groups[g] : \A f : ~Joins(g, id, f) =>
                  /\ f \in DOMAIN groups[g][id] <=> Held(g, id, f) # {}
                  /\ f \in DOMAIN groups[g][id] => RawOf(groups[g][id][f], response, Held(g, id, f))
  <2>1. /\ DOMAIN groups[g] = DOMAIN G(g)
        /\ \A id \in DOMAIN G(g) : id \notin DOMAIN services => groups[g][id] = G(g)[id]
        /\ \A id \in DOMAIN G(g) : id \in DOMAIN services =>
             groups[g][id] = (Selectors :> One(SelectorMetric(services[id]))) @@ G(g)[id]
    BY <1>5 DEF AddSelectors
  <2>2. ASSUME NEW id \in DOMAIN G(g), id \in DOMAIN services
        PROVE  /\ \A f : f \in DOMAIN groups[g][id] <=> f = Selectors \/ f \in DOMAIN G(g)[id]
               /\ groups[g][id][Selectors] = One(SelectorMetric(services[id]))
               /\ \A f \in DOMAIN G(g)[id] : f # Selectors => groups[g][id][f] = G(g)[id][f]
    <3> DEFINE old == G(g)[id]
               raw == One(SelectorMetric(services[id]))
               new == (Selectors :> raw) @@ old
    <3>1. groups[g][id] = new
      BY <2>1, <2>2
    <3> HIDE DEF old, raw
    <3>2. /\ \A f : f \in DOMAIN new <=> f = Selectors \/ f \in DOMAIN old
          /\ new[Selectors] = raw
          /\ \A f \in DOMAIN old : f # Selectors => new[f] = old[f]
      BY DEF @@, :>
    <3> HIDE DEF new
    <3> QED
      BY <3>1, <3>2 DEF old, raw
  <2>3. ASSUME NEW id \in DOMAIN groups[g], NEW f, Joins(g, id, f)
        PROVE  f \in DOMAIN groups[g][id] /\ groups[g][id][f] = One(SelectorMetric(services[id]))
    BY <2>1, <2>2, <2>3 DEF Joins
  <2>4. ASSUME NEW id \in DOMAIN groups[g], NEW f, ~Joins(g, id, f)
        PROVE  /\ f \in DOMAIN groups[g][id] <=> Held(g, id, f) # {}
               /\ f \in DOMAIN groups[g][id] => RawOf(groups[g][id][f], response, Held(g, id, f))
    <3>1. CASE id \notin DOMAIN services
      BY <1>2, <2>1, <3>1
    <3>2. CASE id \in DOMAIN services
      <4>1. f # Selectors
        BY <1>5, <2>4, <3>2 DEF Joins
      <4> QED
        BY <1>2, <2>1, <2>2, <3>2, <4>1
    <3> QED
      BY <3>1, <3>2
  <2> QED
    BY <1>2, <2>1, <2>3, <2>4
<1>6. ASSUME NEW g \in DOMAIN groups
      PROVE  \/ groups[g] = G(g) /\ (g = "service" => services = NoMap)
             \/ g = "service" /\ groups[g] = AddSelectors(G(g), services)
  BY DEF Grouping, G
<1> QED
  BY <1>3, <1>4, <1>5, <1>6 DEF Entries

\* The groups whose objects are in a namespace.
Namespaced == {"deployment", "service", "endpoint", "resourcequota"}

\* IDs of entries are made of names, and of a namespace first.
LEMMA NamespacedFacts ==
    /\ DOMAIN Specs = Namespaced \cup {"namespace"} /\ "namespace" \notin Namespaced
    /\ \A g \in Namespaced : \A m : RawEntityID(g, m) = <<Label(m, "namespace"), Label(m, g)>>
    /\ \A m : RawEntityID("namespace", m) = <<Label(m, "namespace")>>
    /\ \A g \in Namespaced : \A m : BelongsTo(g, m) <=> Has(m, g)
    /\ "namespace" \in ClusterScoped /\ \A g \in Namespaced : g \notin ClusterScoped
<1>1. DOMAIN Specs = Namespaced \cup {"namespace"}
  BY Tables DEF Namespaced
<1>2. \A g \in Namespaced : g \notin ClusterScoped /\ g # "container" /\ g # "node" /\ g # "namespace"
  BY DEF Namespaced, ClusterScoped
<1>3. "namespace" \in ClusterScoped
  BY DEF ClusterScoped
<1>4. \A g \in Namespaced : \A m : RawEntityID(g, m) = <<Label(m, "namespace"), Label(m, g)>>
  BY <1>2 DEF RawEntityID
<1>5. \A m : RawEntityID("namespace", m) = <<Label(m, "namespace")>>
  BY <1>3 DEF RawEntityID
<1>6. \A g \in Namespaced : \A m : BelongsTo(g, m) <=> Has(m, g)
  BY <1>2 DEF BelongsTo
<1> QED
  BY <1>1, <1>2, <1>3, <1>4, <1>5, <1>6

\* A series at an entry is of its family and has its ID.
LEMMA HeldFacts ==
  ASSUME Grouping, NEW g, NEW id, NEW f, NEW i \in Held(g, id, f)
  PROVE  /\ i \in DOMAIN response /\ response[i] \in AllSeries /\ response[i].family = f
         /\ BelongsTo(g, response[i]) /\ RawEntityID(g, response[i]) = id
BY ResponseSeq DEF Held, At, Grouping

\* The series that describe an object are all in its entry.
LEMMA HeldDescribes ==
  ASSUME Grouping, NEW f \in DOMAIN Describes, NEW id
  PROVE  Held(Describes[f], id, f) =
           {i \in DOMAIN response : response[i].family = f /\ RawEntityID(Describes[f], response[i]) = id}
<1>1. DOMAIN response = 1..Len(response) /\ \A i \in DOMAIN response : response[i] \in AllSeries
  BY ResponseSeq DEF Grouping
<1>2. \A i \in DOMAIN response : response[i].family = f => BelongsTo(Describes[f], response[i])
  BY <1>1, ResponseAssumption
<1> QED
  BY <1>1, <1>2 DEF Held, At

\* A family that describes an object has one series for it, a quota's apart.
LEMMA OneSeries ==
  ASSUME Grouping, NEW f \in DOMAIN Describes, f # "kube_resourcequota",
         NEW g \in DOMAIN groups, g = Describes[f], NEW id \in DOMAIN groups[g],
         f \in DOMAIN groups[g][id]
  PROVE  \E i \in DOMAIN response :
           /\ Held(g, id, f) = {i} /\ response[i].family = f
           /\ BelongsTo(g, response[i]) /\ RawEntityID(g, response[i]) = id
           /\ ~groups[g][id][f].slice /\ groups[g][id][f].ms[1] = response[i]
<1> DEFINE raw == groups[g][id][f]
           at == Held(g, id, f)
<1>1. f # Selectors
  BY DescribesFacts DEF Selectors
<1>2. at # {} /\ RawOf(raw, response, at)
  BY <1>1, EntriesHold DEF Entries, Joins
<1>3. ASSUME NEW i \in at, NEW j \in at PROVE i = j
  <2>1. /\ i \in DOMAIN response /\ j \in DOMAIN response
        /\ response[i].family = f /\ response[j].family = f
        /\ RawEntityID(g, response[i]) = id /\ RawEntityID(g, response[j]) = id
    BY HeldFacts
  <2>2. g \in DOMAIN Specs
    BY EntriesHold DEF Entries
  <2>3. /\ Label(response[i], "namespace") = Label(response[j], "namespace")
        /\ Label(response[i], g) = Label(response[j], g)
    <3>1. CASE g = "namespace"
      <4>1. <<Label(response[i], "namespace")>> = <<Label(response[j], "namespace")>>
        BY <2>1, <3>1, NamespacedFacts
      <4> QED
        BY <3>1, <4>1
    <3>2. CASE g \in Namespaced
      <4>1. <<Label(response[i], "namespace"), Label(response[i], g)>> =
              <<Label(response[j], "namespace"), Label(response[j], g)>>
        BY <2>1, <3>2, NamespacedFacts
      <4> QED
        BY <4>1
    <3> QED
      BY <2>2, <3>1, <3>2, NamespacedFacts
  <2>4. SameObject(response[i], response[j])
    BY <2>1, <2>3 DEF SameObject
  <2> QED
    BY <2>1, <2>4, ResponseAssumption DEF Grouping
<1>4. PICK i \in at : TRUE
  BY <1>2
<1>5. at = {i}
  BY <1>3, <1>4
<1>6. ~raw.slice /\ Len(raw.ms) = 1 /\ raw.ms[1] = response[i]
  <2> HIDE DEF raw
  <2>1. ~raw.slice
    BY <1>2, <1>5 DEF RawOf
  <2>2. Len(raw.ms) = 1 /\ raw.ms \in Seq({response[j] : j \in {i}})
    BY <1>2, <1>5, <2>1 DEF RawOf, Holds
  <2>3. raw.ms[1] \in {response[j] : j \in {i}}
    BY <2>2
  <2> QED
    BY <2>1, <2>2, <2>3
<1>7. /\ i \in DOMAIN response /\ response[i].family = f
      /\ BelongsTo(g, response[i]) /\ RawEntityID(g, response[i]) = id
  BY <1>4, HeldFacts
<1> QED
  BY <1>5, <1>6, <1>7

\* The metric that holds the selectors has no other label.
LEMMA SelectorLabels ==
  ASSUME NEW selector, NEW l
  PROVE  ~Has(SelectorMetric(selector), l)
<1>1. DOMAIN SelectorMetric(selector).labels = {<<"selector", k>> : k \in DOMAIN selector}
  BY DEF SelectorMetric
<1>2. \A k : <<l>> # <<"selector", k>>
  <2>1. \A k : Len(<<l>>) = 1 /\ Len(<<"selector", k>>) = 2
    OBVIOUS
  <2> QED
    BY <2>1
<1> QED
  BY <1>1, <1>2 DEF Has

\* A metric that is not in a slice is a series of the entry, or holds the
\* selectors of a service.
LEMMA SinglesFacts ==
  ASSUME Grouping, NEW g \in DOMAIN groups, NEW id \in DOMAIN groups[g],
         NEW m \in Singles(groups[g][id])
  PROVE  \/ \E f, i : i \in Held(g, id, f) /\ m = response[i]
         \/ g = "service" /\ id \in DOMAIN services /\ m = SelectorMetric(services[id])
<1>1. PICK f \in DOMAIN groups[g][id] : ~groups[g][id][f].slice /\ m = groups[g][id][f].ms[1]
  BY DEF Singles
<1> DEFINE raw == groups[g][id][f]
<1>2. CASE Joins(g, id, f)
  <2>1. raw = One(SelectorMetric(services[id]))
    BY <1>2, EntriesHold DEF Entries
  <2>2. raw.ms[1] = SelectorMetric(services[id])
    BY <2>1 DEF One
  <2> QED
    BY <1>1, <1>2, <2>2 DEF Joins
<1>3. CASE ~Joins(g, id, f)
  <2>1. RawOf(raw, response, Held(g, id, f))
    BY <1>3, EntriesHold DEF Entries
  <2> HIDE DEF raw
  <2>2. raw.ms \in Seq({response[i] : i \in Held(g, id, f)}) /\ Len(raw.ms) # 0
    BY <2>1 DEF RawOf, Holds
  <2>3. raw.ms[1] \in {response[i] : i \in Held(g, id, f)}
    BY <2>2
  <2> QED
    BY <1>1, <2>3 DEF raw
<1> QED
  BY <1>2, <1>3

-----------------------------------------------------------------------------
(* Types, IDs and namespaces *)

\* The three kinds of results differ, and only values set anything.
LEMMA ValuesFacts ==
  ASSUME NEW map
  PROVE  /\ Values(map) # Err /\ Values(map) # Nil /\ Values(map).kind = "values" /\ Values(map).values = map
         /\ Err.kind = "error" /\ Err.values = NoMap /\ Nil.kind = "nil" /\ Nil.values = NoMap
         /\ DOMAIN NoMap = {}
<1>1. /\ Values(map).kind = "values" /\ Values(map).values = map
      /\ Err.kind = "error" /\ Err.values = NoMap /\ Nil.kind = "nil" /\ Nil.values = NoMap
  BY DEF Values, Err, Nil
<1>2. Values(map) # Err /\ Values(map) # Nil
  BY <1>1
<1>3. DOMAIN NoMap = {}
  BY DEF NoMap
<1> QED
  BY <1>1, <1>2, <1>3

LEMMA OneEntry ==
  ASSUME NEW x, NEW v
  PROVE  DOMAIN (x :> v) = {x} /\ (x :> v)[x] = v
BY DEF :>

\* A label of the created series, or an error.
LabelRead(gs, g, id, label) ==
    LET m == gs[g][id][Created[g]].ms[1]
        read == LabelOf(gs, g, id, label)
    IN IF HasRaw(gs, g, id, Created[g]) /\ Has(m, label)
         THEN read # Err /\ read.values[<<"">>] = Txt(Label(m, label))
         ELSE read = Err

\* The generators read the first series of the family.
LEMMA LabelOfFacts ==
  ASSUME NEW gs, NEW g, NEW id, NEW label
  PROVE  LabelRead(gs, g, id, label)
<1> DEFINE spec == [name |-> "", key |-> Created[g], arg |-> label]
           m == gs[g][id][Created[g]].ms[1]
<1>1. spec.key = Created[g] /\ spec.name = "" /\ spec.arg = label
  OBVIOUS
<1>2. LabelOf(gs, g, id, label) = FromLabelValue(gs, g, id, spec)
  BY DEF LabelOf
<1>3. FromRaw(gs, g, id, Created[g]).ms[1] = m
  BY DEF FromRaw
<1> HIDE DEF spec, m
<1>4. FromLabelValue(gs, g, id, spec) =
        IF HasRaw(gs, g, id, Created[g]) /\ Has(m, label)
          THEN Values(<<"">> :> Txt(Label(m, label))) ELSE Err
  BY <1>1, <1>3 DEF FromLabelValue
<1>5. (<<"">> :> Txt(Label(m, label)))[<<"">>] = Txt(Label(m, label))
  BY OneEntry
<1>6. Values(<<"">> :> Txt(Label(m, label))) # Err
      /\ Values(<<"">> :> Txt(Label(m, label))).values = (<<"">> :> Txt(Label(m, label)))
  BY ValuesFacts
<1> QED
  BY <1>2, <1>4, <1>5, <1>6 DEF m, LabelRead

\* An entry with a created series is of the object that this names.
LEMMA CreatedEntry ==
  ASSUME Grouping, NEW g \in DOMAIN groups, g \in Namespaced, NEW id \in DOMAIN groups[g],
         Created[g] \in DOMAIN groups[g][id]
  PROVE  \E i \in DOMAIN response :
           /\ response[i].family = Created[g] /\ Has(response[i], g)
           /\ id = <<Label(response[i], "namespace"), Label(response[i], g)>>
           /\ groups[g][id][Created[g]].ms[1] = response[i]
           /\ response[i] \in Singles(groups[g][id])
<1> DEFINE f == Created[g]
<1>1. f \in DOMAIN Describes /\ Describes[f] = g /\ f # "kube_resourcequota"
  BY DescribesFacts, NamespacedFacts
<1>2. PICK i \in DOMAIN response :
           /\ Held(g, id, f) = {i} /\ response[i].family = f
           /\ BelongsTo(g, response[i]) /\ RawEntityID(g, response[i]) = id
           /\ ~groups[g][id][f].slice /\ groups[g][id][f].ms[1] = response[i]
  BY <1>1, OneSeries
<1>3. response[i] \in Singles(groups[g][id])
  BY <1>2 DEF Singles
<1> QED
  BY <1>2, <1>3, NamespacedFacts

\* The namespace that is asked about is the one in the entry's ID.
LEMMA NamespaceOfEntry ==
  ASSUME Grouping, NEW g \in DOMAIN groups, g \in Namespaced, NEW id \in DOMAIN groups[g],
         Created[g] \in DOMAIN groups[g][id]
  PROVE  NamespacesOf(groups[g][id]) = {id[1]}
<1> DEFINE S == Singles(groups[g][id])
           found == {Label(m, "namespace") : m \in S} \ {""}
<1>1. PICK i \in DOMAIN response :
           /\ id = <<Label(response[i], "namespace"), Label(response[i], g)>>
           /\ response[i] \in S
  BY CreatedEntry
<1>2. ASSUME NEW m \in S PROVE Label(m, "namespace") \in {id[1], ""}
  <2>1. CASE \E f, j : j \in Held(g, id, f) /\ m = response[j]
    <3>1. PICK f, j : j \in Held(g, id, f) /\ m = response[j]
      BY <2>1
    <3>2. RawEntityID(g, m) = id
      BY <3>1, HeldFacts
    <3>3. id = <<Label(m, "namespace"), Label(m, g)>>
      BY <3>2, NamespacedFacts
    <3> QED
      BY <3>3
  <2>2. CASE g = "service" /\ id \in DOMAIN services /\ m = SelectorMetric(services[id])
    BY <2>2, SelectorLabels DEF Label
  <2> QED
    BY <2>1, <2>2, SinglesFacts
<1>3. Label(response[i], "namespace") = id[1]
  BY <1>1
<1> HIDE DEF S
<1>4. CASE id[1] = ""
  <2>1. found = {}
    BY <1>2, <1>4
  <2> QED
    BY <1>4, <2>1 DEF NamespacesOf, S
<1>5. CASE id[1] # ""
  <2>1. found = {id[1]}
    BY <1>1, <1>2, <1>3, <1>5
  <2> QED
    BY <2>1 DEF NamespacesOf, S
<1> QED
  BY <1>4, <1>5

\* When there is a type, it and the ID are those of the entry.
LEMMA TypeAndID ==
  ASSUME Grouping, NEW g \in DOMAIN groups, g \in Namespaced, NEW id \in DOMAIN groups[g],
         TypeOf(groups, g, id) # <<>>
  PROVE  /\ Created[g] \in DOMAIN groups[g][id]
         /\ id = <<id[1], id[2]>> /\ id[1] # ""
         /\ TypeOf(groups, g, id) = <<id[1], g>>
         /\ IDOf(groups, g, id) = <<id[2]>>
<1> DEFINE ns == LabelOf(groups, g, id, "namespace")
           name == LabelOf(groups, g, id, g)
           m == groups[g][id][Created[g]].ms[1]
<1>1. g \notin ClusterScoped /\ g # "namespace"
  BY NamespacedFacts
<1>2. /\ ns # Err /\ ns.values[<<"">>] # Txt("")
      /\ TypeOf(groups, g, id) = <<ns.values[<<"">>].txt, g>>
  BY <1>1 DEF TypeOf
<1>3. HasRaw(groups, g, id, Created[g]) /\ Has(m, "namespace")
  <2>1. LabelRead(groups, g, id, "namespace")
    BY LabelOfFacts
  <2> QED
    BY <1>2, <2>1 DEF LabelRead
<1>4. Created[g] \in DOMAIN groups[g][id]
  BY <1>3 DEF HasRaw
<1>5. PICK i \in DOMAIN response :
           /\ Has(response[i], g)
           /\ id = <<Label(response[i], "namespace"), Label(response[i], g)>>
           /\ m = response[i]
  BY <1>4, CreatedEntry
<1>6. ns.values[<<"">>] = Txt(Label(m, "namespace")) /\ name # Err /\ name.values[<<"">>] = Txt(Label(m, g))
  <2>1. Has(m, g)
    BY <1>5
  <2>2. ns.values[<<"">>] = Txt(Label(m, "namespace"))
    <3>1. LabelRead(groups, g, id, "namespace")
      BY LabelOfFacts
    <3> QED
      BY <1>3, <3>1 DEF LabelRead
  <2>3. name # Err /\ name.values[<<"">>] = Txt(Label(m, g))
    <3>1. LabelRead(groups, g, id, g)
      BY LabelOfFacts
    <3> QED
      BY <1>3, <2>1, <3>1 DEF LabelRead
  <2> QED
    BY <2>2, <2>3
<1>7. \A s : Txt(s).txt = s
  BY DEF Txt
<1>8. IDOf(groups, g, id) = <<name.values[<<"">>].txt>>
  BY <1>1, <1>6 DEF IDOf
<1> HIDE DEF ns, name, m
<1>9. id = <<Label(m, "namespace"), Label(m, g)>>
  BY <1>5
<1>10. id = <<id[1], id[2]>> /\ id[1] = Label(m, "namespace") /\ id[2] = Label(m, g)
  BY <1>9
<1>11. TypeOf(groups, g, id) = <<id[1], g>> /\ IDOf(groups, g, id) = <<id[2]>>
  BY <1>2, <1>6, <1>7, <1>8, <1>10
<1>12. id[1] # ""
  BY <1>2, <1>6, <1>10
<1> QED
  BY <1>4, <1>10, <1>11, <1>12

-----------------------------------------------------------------------------
(* The split of a quota *)

\* One turn of splitGroup's loop.
SplitTurn(ms, k, split) ==
    IF k = 0 THEN NoMap
    ELSE IF ~Has(ms[k], "resource") THEN split
    ELSE (Label(ms[k], "resource") :>
            Append(IF Label(ms[k], "resource") \in DOMAIN split
                     THEN split[Label(ms[k], "resource")] ELSE <<>>, ms[k])) @@ split

\* The series of each resource before and after each turn.
LEMMA SplitRecursion ==
  ASSUME NEW ms, Len(ms) \in Nat
  PROVE  \A k \in 0..Len(ms) : SplitOf(ms)[k] = SplitTurn(ms, k, SplitOf(ms)[k - 1])
<1> DEFINE N == Len(ms)
           Sat(f, m) == f = [k \in 0..m |-> SplitTurn(ms, k, f[k - 1])]
           T == {m \in 0..N : \E f : Sat(f, m)}
<1>1. 0 \in T
  <2>1. Sat([k \in 0..0 |-> NoMap], 0)
    BY DEF SplitTurn
  <2>2. \E f : Sat(f, 0)
    <3> HIDE DEF Sat
    <3> QED
      BY <2>1
  <2> QED
    BY <2>2
<1>2. ASSUME NEW m \in 0..N, m < N, m \in T PROVE m + 1 \in T
  <2>1. PICK f : Sat(f, m)
    BY <1>2
  <2> DEFINE h == [k \in 0..(m + 1) |-> IF k = m + 1 THEN SplitTurn(ms, k, f[m]) ELSE f[k]]
  <2>2. ASSUME NEW k \in 0..(m + 1) PROVE h[k] = SplitTurn(ms, k, h[k - 1])
    <3>1. CASE k = m + 1
      <4>1. k - 1 = m /\ m \in 0..(m + 1) /\ m # m + 1
        BY <3>1
      <4>2. h[k] = SplitTurn(ms, k, f[m]) /\ h[m] = f[m]
        BY <3>1, <4>1
      <4> QED
        BY <4>1, <4>2
    <3>2. CASE k # m + 1
      <4>1. k \in 0..m /\ h[k] = f[k]
        BY <3>2
      <4>2. f[k] = SplitTurn(ms, k, f[k - 1])
        BY <2>1, <4>1
      <4>3. CASE k = 0
        BY <4>1, <4>2, <4>3 DEF SplitTurn
      <4>4. CASE k # 0
        <5>1. h[k - 1] = f[k - 1]
          BY <3>2, <4>4
        <5> QED
          BY <4>1, <4>2, <5>1
      <4> QED
        BY <4>3, <4>4
    <3> QED
      BY <3>1, <3>2
  <2>3. Sat(h, m + 1)
    BY <2>2
  <2>4. \E x : Sat(x, m + 1)
    <3> HIDE DEF Sat, h
    <3> QED
      BY <2>3
  <2> QED
    BY <1>2, <2>4
<1>3. N \in T
  <2> HIDE DEF T, N
  <2>1. N \in Nat
    BY DEF N
  <2>2. \A k \in 0..N : k \in T
    BY <1>1, <1>2, <2>1, UpTo
  <2> QED
    BY <2>1, <2>2
<1>4. Sat(SplitOf(ms), N)
  <2>1. PICK h : Sat(h, N)
    BY <1>3
  <2>2. SplitOf(ms) = CHOOSE f : Sat(f, N)
    BY DEF SplitOf, SplitTurn
  <2> QED
    BY <2>1, <2>2
<1> DEFINE S == SplitOf(ms)
<1>5. Sat(S, N)
  BY <1>4
<1> HIDE DEF S
<1>6. \A k \in 0..N : S[k] = SplitTurn(ms, k, S[k - 1])
  BY <1>5
<1> QED
  BY <1>6 DEF S

\* The positions, up to k, of the series of a resource.
OfResource(ms, k, r) == {x \in 1..k : Has(ms[x], "resource") /\ Label(ms[x], "resource") = r}

\* The split after k series.
SplitTo(split, ms, k) ==
    /\ \A r : r \in DOMAIN split <=> OfResource(ms, k, r) # {}
    /\ \A r \in DOMAIN split : Holds(split[r], ms, OfResource(ms, k, r))

\* A turn puts one series with its resource, or leaves it out.
LEMMA SplitStep ==
  ASSUME NEW ms, NEW k \in Nat \ {0}, NEW split, SplitTo(split, ms, k - 1)
  PROVE  SplitTo(SplitTurn(ms, k, split), ms, k)
<1> DEFINE A(r) == OfResource(ms, k - 1, r)
           B(r) == OfResource(ms, k, r)
           r0 == Label(ms[k], "resource")
           new == SplitTurn(ms, k, split)
<1>0. 1..k = (1..(k - 1)) \cup {k} /\ k \notin 1..(k - 1) /\ k # 0
  OBVIOUS
<1>1. CASE ~Has(ms[k], "resource")
  <2>1. \A r : B(r) = A(r)
    BY <1>0, <1>1 DEF OfResource
  <2>2. new = split
    BY <1>0, <1>1 DEF SplitTurn
  <2> QED
    BY <2>1, <2>2 DEF SplitTo
<1>2. CASE Has(ms[k], "resource")
  <2>1. B(r0) = A(r0) \cup {k} /\ \A r : r # r0 => B(r) = A(r)
    BY <1>0, <1>2 DEF OfResource
  <2> DEFINE old == IF r0 \in DOMAIN split THEN split[r0] ELSE <<>>
             more == Append(old, ms[k])
  <2>2. new = (r0 :> more) @@ split
    BY <1>0, <1>2 DEF SplitTurn
  <2> HIDE DEF more, new
  <2>3. /\ DOMAIN new = DOMAIN split \cup {r0} /\ new[r0] = more
        /\ \A r \in DOMAIN split \ {r0} : new[r] = split[r]
    BY <2>2 DEF @@, :>
  <2>4. Holds(more, ms, B(r0))
    <3>1. CASE r0 \in DOMAIN split
      <4>1. Holds(old, ms, A(r0))
        BY <3>1 DEF SplitTo
      <4>2. Holds(more, ms, A(r0) \cup {k})
        BY <4>1, HoldsNext DEF more
      <4> QED
        BY <2>1, <4>2
    <3>2. CASE r0 \notin DOMAIN split
      <4>1. B(r0) = {k}
        BY <2>1, <3>2 DEF SplitTo
      <4>2. more = <<ms[k]>>
        BY <3>2 DEF more
      <4>3. Holds(<<ms[k]>>, ms, {k})
        BY HoldsFirst
      <4> QED
        BY <4>1, <4>2, <4>3
    <3> QED
      BY <3>1, <3>2
  <2>5. /\ \A r : r \in DOMAIN split <=> A(r) # {}
        /\ \A r \in DOMAIN split : Holds(split[r], ms, A(r))
    BY DEF SplitTo
  <2> HIDE DEF A, B, r0
  <2>6. \A r : r \in DOMAIN new <=> B(r) # {}
    BY <2>1, <2>3, <2>5
  <2>7. \A r \in DOMAIN new : Holds(new[r], ms, B(r))
    BY <2>1, <2>3, <2>4, <2>5
  <2>8. SplitTo(new, ms, k)
    BY <2>6, <2>7 DEF SplitTo, B
  <2> QED
    BY <2>8 DEF new
<1> QED
  BY <1>1, <1>2

\* Every resource has its series, in the end.
LEMMA Split ==
  ASSUME NEW ms, Len(ms) \in Nat
  PROVE  SplitTo(SplitOf(ms)[Len(ms)], ms, Len(ms))
<1> DEFINE S == SplitOf(ms)
           N == Len(ms)
           T == {k \in 0..N : SplitTo(S[k], ms, k)}
<1>1. \A k \in 0..N : S[k] = SplitTurn(ms, k, S[k - 1])
  BY SplitRecursion
<1>2. N \in Nat
  OBVIOUS
<1> HIDE DEF S, N
<1>3. 0 \in T
  <2>1. 0 \in 0..N /\ \A r : OfResource(ms, 0, r) = {}
    BY <1>2 DEF OfResource
  <2>2. DOMAIN S[0] = {}
    BY <1>1, <2>1 DEF NoMap, SplitTurn
  <2>3. SplitTo(S[0], ms, 0)
    BY <2>1, <2>2 DEF SplitTo
  <2> QED
    BY <2>1, <2>3
<1>4. ASSUME NEW k \in 0..N, k < N, k \in T PROVE k + 1 \in T
  <2> DEFINE j == k + 1
  <2>1. j \in 0..N /\ j - 1 = k /\ j \in Nat \ {0}
    BY <1>2, <1>4
  <2>2. SplitTo(S[k], ms, k)
    BY <1>4
  <2> HIDE DEF j
  <2>3. SplitTo(SplitTurn(ms, j, S[k]), ms, j)
    BY <2>1, <2>2, SplitStep
  <2>4. SplitTo(S[j], ms, j)
    BY <1>1, <2>1, <2>3
  <2> QED
    BY <2>1, <2>4 DEF j
<1>5. N \in T
  <2> HIDE DEF T
  <2>1. \A k \in 0..N : k \in T
    BY <1>2, <1>3, <1>4, UpTo
  <2> QED
    BY <1>2, <2>1
<1> QED
  BY <1>5 DEF S, N

-----------------------------------------------------------------------------
(* Fetch functions *)

\* The fetch functions.
Kinds == {"value", "label", "count", "subtract", "flattened", "own", "inherit"}

\* An error, nil, or values.
IsResult(r) == r = Err \/ r = Nil \/ \E map : r = Values(map)

\* Which function a spec calls.
LEMMA FetchKinds ==
  ASSUME NEW gs, NEW g, NEW id, NEW spec
  PROVE  /\ spec.fetch = "value" => Fetch(gs, g, id, spec) = {FromValue(gs, g, id, spec)}
         /\ spec.fetch = "label" => Fetch(gs, g, id, spec) = {FromLabelValue(gs, g, id, spec)}
         /\ spec.fetch = "count" => Fetch(gs, g, id, spec) = {CountReady(gs, g, id, spec)}
         /\ spec.fetch = "subtract" => Fetch(gs, g, id, spec) = {Subtract(gs, g, id, spec)}
         /\ spec.fetch = "flattened" => Fetch(gs, g, id, spec) = {FromFlattenedMetrics(gs, g, id, spec)}
         /\ spec.fetch = "own" => Fetch(gs, g, id, spec) = OwnLabels(gs, g, id, spec)
         /\ spec.fetch = "inherit" => Fetch(gs, g, id, spec) = InheritLabels(gs, g, id, spec)
BY DEF Fetch

\* A fetch function returns a result.
LEMMA FetchResults ==
  ASSUME NEW gs, NEW g, NEW id, NEW spec, spec.fetch \in Kinds, NEW r \in Fetch(gs, g, id, spec)
  PROVE  IsResult(r)
<1>1. CASE spec.fetch = "value"
  <2>1. r = FromValue(gs, g, id, spec)
    BY <1>1, FetchKinds
  <2> QED
    BY <2>1 DEF FromValue, IsResult
<1>2. CASE spec.fetch = "label"
  <2>1. r = FromLabelValue(gs, g, id, spec)
    BY <1>2, FetchKinds
  <2> QED
    BY <2>1 DEF FromLabelValue, IsResult
<1>3. CASE spec.fetch = "count"
  <2>1. r = CountReady(gs, g, id, spec)
    BY <1>3, FetchKinds
  <2> QED
    BY <2>1 DEF CountReady, IsResult
<1>4. CASE spec.fetch = "subtract"
  <2>1. r = Subtract(gs, g, id, spec)
    BY <1>4, FetchKinds
  <2> QED
    BY <2>1 DEF Subtract, IsResult
<1>5. CASE spec.fetch = "flattened"
  <2>1. r = FromFlattenedMetrics(gs, g, id, spec)
    BY <1>5, FetchKinds
  <2> QED
    BY <2>1 DEF FromFlattenedMetrics, IsResult
<1>6. CASE spec.fetch = "own"
  <2>1. r \in OwnLabels(gs, g, id, spec)
    BY <1>6, FetchKinds
  <2> QED
    BY <2>1 DEF OwnLabels, IsResult
<1>7. CASE spec.fetch = "inherit"
  <2>1. r \in InheritLabels(gs, g, id, spec)
    BY <1>7, FetchKinds
  <2> QED
    BY <2>1 DEF InheritLabels, IsResult
<1> QED
  BY <1>1, <1>2, <1>3, <1>4, <1>5, <1>6, <1>7 DEF Kinds

\* The attributes a value is set as: its name, or those of the series.
LEMMA ValueNames ==
  ASSUME NEW gs, NEW g, NEW id, NEW spec, NEW a \in DOMAIN FromValue(gs, g, id, spec).values
  PROVE  a = <<spec.name>> \/ \E x : a = <<spec.key, x>>
<1> DEFINE raw == FromRaw(gs, g, id, spec.key)
           Name(m) == <<spec.key, {<<l, m.labels[l]>> : l \in DOMAIN m.labels}>>
           r == FromValue(gs, g, id, spec)
<1>1. CASE ~HasRaw(gs, g, id, spec.key)
  <2>1. r = Err
    BY <1>1 DEF FromValue
  <2> QED
    BY <2>1, ValuesFacts
<1>2. CASE HasRaw(gs, g, id, spec.key) /\ ~raw.slice
  <2>1. r = Values(<<spec.name>> :> Num(raw.ms[1].value))
    BY <1>2 DEF FromValue
  <2>2. r.values = (<<spec.name>> :> Num(raw.ms[1].value))
    BY <2>1, ValuesFacts
  <2> QED
    BY <2>2, OneEntry
<1>3. CASE HasRaw(gs, g, id, spec.key) /\ raw.slice
  <2> DEFINE map == [b \in {Name(raw.ms[i]) : i \in DOMAIN raw.ms} |->
                        Num(SumAt(raw.ms, {i \in DOMAIN raw.ms : Name(raw.ms[i]) = b}))]
  <2>1. r = Values(map)
    BY <1>3 DEF FromValue
  <2>2. r.values = map
    <3> HIDE DEF map, r
    <3> QED
      BY <2>1, ValuesFacts
  <2>3. a \in DOMAIN map
    BY <2>2
  <2>4. a \in {Name(raw.ms[i]) : i \in DOMAIN raw.ms}
    BY <2>3
  <2> QED
    BY <2>4
<1> QED
  BY <1>1, <1>2, <1>3

\* A label is set as one attribute, a difference too.
LEMMA LabelNames ==
  ASSUME NEW gs, NEW g, NEW id, NEW spec, NEW a
  PROVE  /\ a \in DOMAIN FromLabelValue(gs, g, id, spec).values => a = <<spec.name>>
         /\ a \in DOMAIN Subtract(gs, g, id, spec).values => a = <<spec.name>>
<1>1. \A v : Values(<<spec.name>> :> v).values = (<<spec.name>> :> v) /\ DOMAIN (<<spec.name>> :> v) = {<<spec.name>>}
  BY ValuesFacts, OneEntry
<1>2. DOMAIN Err.values = {}
  BY ValuesFacts
<1>3. FromLabelValue(gs, g, id, spec) = Err \/ \E v : FromLabelValue(gs, g, id, spec) = Values(<<spec.name>> :> v)
  BY DEF FromLabelValue
<1>4. Subtract(gs, g, id, spec) = Err \/ \E v : Subtract(gs, g, id, spec) = Values(<<spec.name>> :> v)
  BY DEF Subtract
<1> QED
  BY <1>1, <1>2, <1>3, <1>4

-----------------------------------------------------------------------------
(* Metric sets *)

\* One turn of metricSetPopulate's loop.
SetsTurn(gs, g, id, k, sets) ==
    IF k = 0 THEN {[attrs |-> NoMap, failed |-> {}, populated |-> FALSE]}
    ELSE {ApplySpec(x[1], Specs[g][k], x[2]) : x \in sets \X Fetch(gs, g, id, Specs[g][k])}

\* The metric sets before and after each spec.
LEMMA SetsRecursion ==
  ASSUME NEW gs, NEW g, NEW id, Len(Specs[g]) \in Nat
  PROVE  \A k \in 0..Len(Specs[g]) :
           MetricSets(gs, g, id)[k] = SetsTurn(gs, g, id, k, MetricSets(gs, g, id)[k - 1])
<1> DEFINE N == Len(Specs[g])
           Turn(k, x) == SetsTurn(gs, g, id, k, x)
           Sat(f, m) == f = [k \in 0..m |-> SetsTurn(gs, g, id, k, f[k - 1])]
           T == {m \in 0..N : \E f : Sat(f, m)}
<1>0. \A x, y : Turn(0, x) = Turn(0, y)
  BY DEF SetsTurn
<1>1. 0 \in T
  <2> DEFINE z == [k \in 0..0 |-> Turn(0, 0)]
  <2>1. ASSUME NEW k \in 0..0 PROVE z[k] = Turn(k, z[k - 1])
    <3>1. k = 0
      OBVIOUS
    <3> HIDE DEF Turn
    <3> QED
      BY <1>0, <3>1
  <2>2. Sat(z, 0)
    BY <2>1
  <2>3. \E f : Sat(f, 0)
    <3> HIDE DEF Sat, z
    <3> QED
      BY <2>2
  <2> QED
    BY <2>3
<1>2. ASSUME NEW m \in 0..N, m < N, m \in T PROVE m + 1 \in T
  <2>1. PICK f : Sat(f, m)
    BY <1>2
  <2> DEFINE h == [k \in 0..(m + 1) |-> IF k = m + 1 THEN Turn(k, f[m]) ELSE f[k]]
  <2>2. ASSUME NEW k \in 0..(m + 1) PROVE h[k] = Turn(k, h[k - 1])
    <3>0. \A j \in 0..m : f[j] = Turn(j, f[j - 1])
      BY <2>1
    <3> HIDE DEF Turn, Sat
    <3>1. CASE k = m + 1
      <4>1. k - 1 = m /\ m \in 0..(m + 1) /\ m # m + 1
        BY <3>1
      <4>2. h[k] = Turn(k, f[m]) /\ h[m] = f[m]
        BY <3>1, <4>1
      <4> QED
        BY <4>1, <4>2
    <3>2. CASE k # m + 1
      <4>1. k \in 0..m /\ h[k] = f[k]
        BY <3>2
      <4>2. f[k] = Turn(k, f[k - 1])
        BY <3>0, <4>1
      <4>3. CASE k = 0
        BY <1>0, <4>1, <4>2, <4>3
      <4>4. CASE k # 0
        <5>1. h[k - 1] = f[k - 1]
          BY <3>2, <4>4
        <5> QED
          BY <4>1, <4>2, <5>1
      <4> QED
        BY <4>3, <4>4
    <3> QED
      BY <3>1, <3>2
  <2>3. Sat(h, m + 1)
    BY <2>2
  <2>4. \E x : Sat(x, m + 1)
    <3> HIDE DEF Sat, h
    <3> QED
      BY <2>3
  <2>5. m + 1 \in 0..N
    BY <1>2
  <2> HIDE DEF Sat, h
  <2> QED
    BY <2>4, <2>5
<1>3. N \in T
  <2> HIDE DEF T, N
  <2>1. N \in Nat
    BY DEF N
  <2>2. \A k \in 0..N : k \in T
    BY <1>1, <1>2, <2>1, UpTo
  <2> QED
    BY <2>1, <2>2
<1>4. Sat(MetricSets(gs, g, id), N)
  <2>1. PICK h : Sat(h, N)
    BY <1>3
  <2>2. MetricSets(gs, g, id) = CHOOSE f : Sat(f, N)
    BY DEF MetricSets, SetsTurn
  <2> QED
    BY <2>1, <2>2
<1> DEFINE S == MetricSets(gs, g, id)
<1>5. Sat(S, N)
  BY <1>4
<1> HIDE DEF S
<1>6. \A k \in 0..N : S[k] = SetsTurn(gs, g, id, k, S[k - 1])
  BY <1>5
<1> QED
  BY <1>6 DEF S

\* A metric set.
IsSet(acc) == \E x, y, z : acc = [attrs |-> x, failed |-> y, populated |-> z]

\* The values of a result over the attributes that were there.
Over(new, values, old) ==
    /\ \A a : a \in DOMAIN new <=> a \in DOMAIN values \/ a \in DOMAIN old
    /\ \A a \in DOMAIN values : new[a] = values[a]
    /\ \A a \in DOMAIN old : a \notin DOMAIN values => new[a] = old[a]

\* A spec adds its values and replaces those of the same name.
LEMMA Applied ==
  ASSUME NEW acc, IsSet(acc), NEW spec, NEW r, IsResult(r)
  PROVE  IsSet(ApplySpec(acc, spec, r)) /\ Over(ApplySpec(acc, spec, r).attrs, r.values, acc.attrs)
<1> DEFINE new == ApplySpec(acc, spec, r)
<1>1. PICK x, y, z : acc = [attrs |-> x, failed |-> y, populated |-> z]
  BY DEF IsSet
<1>2. CASE r = Err
  <2>1. r.kind = "error" /\ DOMAIN r.values = {}
    BY <1>2, ValuesFacts
  <2> DEFINE w == y \cup (IF spec.optional THEN {} ELSE {spec.name})
  <2>2. new = [acc EXCEPT !.failed = @ \cup (IF spec.optional THEN {} ELSE {spec.name})]
    BY <2>1 DEF ApplySpec
  <2>3. new = [attrs |-> x, failed |-> w, populated |-> z]
    BY <1>1, <2>2
  <2> HIDE DEF w, new
  <2>4. IsSet(new) /\ new.attrs = x /\ acc.attrs = x
    BY <1>1, <2>3 DEF IsSet
  <2> QED
    BY <2>1, <2>4 DEF Over, new
<1>3. CASE r = Nil
  <2>1. r.kind = "nil" /\ DOMAIN r.values = {}
    BY <1>3, ValuesFacts
  <2>2. new = acc
    BY <2>1 DEF ApplySpec
  <2> HIDE DEF new
  <2> QED
    BY <2>1, <2>2 DEF Over, new
<1>4. CASE \E map : r = Values(map)
  <2>1. PICK map : r = Values(map)
    BY <1>4
  <2>2. r.kind = "values" /\ r.values = map
    BY <2>1, ValuesFacts
  <2> DEFINE w == map @@ x
             p == z \/ map # NoMap
  <2>3. new = [acc EXCEPT !.attrs = r.values @@ @, !.populated = @ \/ r.values # NoMap]
    BY <2>2 DEF ApplySpec
  <2>4. new = [attrs |-> w, failed |-> y, populated |-> p]
    BY <1>1, <2>2, <2>3
  <2>5. Over(w, map, x)
    BY DEF Over, @@
  <2> HIDE DEF w, p, new
  <2>6. IsSet(new) /\ new.attrs = w /\ acc.attrs = x
    BY <1>1, <2>4 DEF IsSet
  <2> QED
    BY <2>2, <2>5, <2>6 DEF new
<1> QED
  BY <1>2, <1>3, <1>4 DEF IsResult

\* rs holds a result of each of the first k specs, and attrs what they set:
\* of each attribute the value of the last that has one.
Writes(rs, attrs, gs, g, id, k) ==
    /\ \A j \in 1..k : rs[j] \in Fetch(gs, g, id, Specs[g][j])
    /\ \A a : a \in DOMAIN attrs <=> \E j \in 1..k : a \in DOMAIN rs[j].values
    /\ \A j \in 1..k : \A a \in DOMAIN rs[j].values :
         (\A i \in 1..k : i > j => a \notin DOMAIN rs[i].values) => attrs[a] = rs[j].values[a]

\* A metric set after k specs.
Written(acc, gs, g, id, k) == IsSet(acc) /\ \E rs : Writes(rs, acc.attrs, gs, g, id, k)

\* One more spec.
LEMMA WriteStep ==
  ASSUME NEW gs, NEW g, NEW id, NEW k \in Nat \ {0}, Specs[g][k].fetch \in Kinds,
         NEW acc, Written(acc, gs, g, id, k - 1), NEW r \in Fetch(gs, g, id, Specs[g][k])
  PROVE  Written(ApplySpec(acc, Specs[g][k], r), gs, g, id, k)
<1> DEFINE new == ApplySpec(acc, Specs[g][k], r)
<1>0. 1..k = (1..(k - 1)) \cup {k} /\ k \notin 1..(k - 1) /\ \A j \in 1..(k - 1) : k > j /\ j # k
  OBVIOUS
<1>1. PICK rs : Writes(rs, acc.attrs, gs, g, id, k - 1)
  BY DEF Written
<1>2. IsSet(new) /\ Over(new.attrs, r.values, acc.attrs)
  BY Applied, FetchResults DEF Written
<1> DEFINE qs == [j \in 1..k |-> IF j = k THEN r ELSE rs[j]]
<1>3. qs[k] = r /\ \A j \in 1..(k - 1) : qs[j] = rs[j]
  BY <1>0
<1> HIDE DEF qs, new
<1>4. \A j \in 1..k : qs[j] \in Fetch(gs, g, id, Specs[g][j])
  BY <1>0, <1>1, <1>3 DEF Writes
<1>5. \A a : a \in DOMAIN new.attrs <=> \E j \in 1..k : a \in DOMAIN qs[j].values
  BY <1>0, <1>1, <1>2, <1>3 DEF Writes, Over
<1>6. ASSUME NEW j \in 1..k, NEW a \in DOMAIN qs[j].values,
             \A i \in 1..k : i > j => a \notin DOMAIN qs[i].values
      PROVE  new.attrs[a] = qs[j].values[a]
  <2>1. CASE j = k
    BY <1>2, <1>3, <2>1 DEF Over
  <2>2. CASE j \in 1..(k - 1)
    <3>1. a \in DOMAIN rs[j].values /\ a \notin DOMAIN r.values
      BY <1>0, <1>3, <1>6, <2>2
    <3>2. \A i \in 1..(k - 1) : i > j => a \notin DOMAIN rs[i].values
      BY <1>0, <1>3, <1>6
    <3>3. a \in DOMAIN acc.attrs /\ acc.attrs[a] = rs[j].values[a]
      BY <1>1, <2>2, <3>1, <3>2 DEF Writes
    <3> QED
      BY <1>2, <1>3, <2>2, <3>1, <3>3 DEF Over
  <2> QED
    BY <1>0, <2>1, <2>2
<1>7. Writes(qs, new.attrs, gs, g, id, k)
  BY <1>4, <1>5, <1>6 DEF Writes
<1> QED
  BY <1>2, <1>7 DEF Written, new

\* What a metric set holds is what its specs returned, the last of them first.
LEMMA SetWritten ==
  ASSUME NEW gs, NEW g, NEW id, Len(Specs[g]) \in Nat,
         \A k \in 1..Len(Specs[g]) : Specs[g][k].fetch \in Kinds,
         NEW acc \in MetricSetPopulate(gs, g, id)
  PROVE  \E rs : Writes(rs, acc.attrs, gs, g, id, Len(Specs[g]))
<1> DEFINE S == MetricSets(gs, g, id)
           N == Len(Specs[g])
           T == {k \in 0..N : \A x \in S[k] : Written(x, gs, g, id, k)}
<1>1. \A k \in 0..N : S[k] = SetsTurn(gs, g, id, k, S[k - 1])
  BY SetsRecursion
<1>2. N \in Nat /\ acc \in S[N]
  BY DEF MetricSetPopulate
<1> HIDE DEF S
<1>3. 0 \in T
  <2>1. 0 \in 0..N /\ 1..0 = {}
    BY <1>2
  <2> DEFINE z == [attrs |-> NoMap, failed |-> {}, populated |-> FALSE]
  <2>2. S[0] = {z}
    BY <1>1, <2>1 DEF SetsTurn
  <2>3. IsSet(z) /\ z.attrs = NoMap
    BY DEF IsSet
  <2>4. Writes(<<>>, NoMap, gs, g, id, 0)
    BY <2>1, ValuesFacts DEF Writes
  <2> HIDE DEF z
  <2>5. Written(z, gs, g, id, 0)
    BY <2>3, <2>4 DEF Written
  <2> QED
    BY <2>1, <2>2, <2>5
<1>4. ASSUME NEW k \in 0..N, k < N, k \in T PROVE k + 1 \in T
  <2> DEFINE j == k + 1
  <2>1. j \in 0..N /\ j \in 1..N /\ j - 1 = k /\ j \in Nat \ {0} /\ j # 0
    BY <1>2, <1>4
  <2>2. \A x \in S[k] : Written(x, gs, g, id, k)
    BY <1>4
  <2> HIDE DEF j
  <2>3. S[j] = {ApplySpec(x[1], Specs[g][j], x[2]) : x \in S[k] \X Fetch(gs, g, id, Specs[g][j])}
    BY <1>1, <2>1 DEF SetsTurn
  <2>4. ASSUME NEW y \in S[j] PROVE Written(y, gs, g, id, j)
    <3>1. PICK x \in S[k], r \in Fetch(gs, g, id, Specs[g][j]) : y = ApplySpec(x, Specs[g][j], r)
      BY <2>3
    <3> QED
      BY <2>1, <2>2, <3>1, WriteStep
  <2> QED
    BY <2>1, <2>4 DEF j
<1>5. N \in T
  <2> HIDE DEF T, N
  <2>1. \A k \in 0..N : k \in T
    BY <1>2, <1>3, <1>4, UpTo
  <2> QED
    BY <1>2, <2>1
<1> QED
  BY <1>2, <1>5 DEF Written

-----------------------------------------------------------------------------
(* Prefixed labels *)

\* A prefixed name starts with the prefix.
LEMMA PrefixFirst ==
  ASSUME NEW prefix, NEW l \in Seq(STRING) \ {<<>>}
  PROVE  Prefixed(prefix, l)[1] = prefix
<1>1. Tail(l) \in Seq(STRING) /\ l \in Seq(STRING)
  OBVIOUS
<1>2. \A x \in Seq(STRING) : (<<prefix>> \o x)[1] = prefix
  <2>1. ASSUME NEW x \in Seq(STRING) PROVE (<<prefix>> \o x)[1] = prefix
    <3> DEFINE S == STRING \cup {prefix}
    <3>1. <<prefix>> \in Seq(S) /\ x \in Seq(S) /\ Len(<<prefix>>) = 1 /\ <<prefix>>[1] = prefix
      OBVIOUS
    <3> HIDE DEF S
    <3> QED
      BY <3>1
  <2> QED
    BY <2>1
<1> QED
  BY <1>1, <1>2 DEF Prefixed

\* A map of prefixed labels has a name for each label and the value of one that
\* has the name.
IsPrefixed(map, m, prefix) ==
    /\ \A a : a \in DOMAIN map <=> \E l \in DOMAIN m.labels : a = Prefixed(prefix, l)
    /\ \A a \in DOMAIN map : \E l \in DOMAIN m.labels :
         a = Prefixed(prefix, l) /\ map[a] = Txt(m.labels[l])

\* Every label gets a name, and a name the value of one of its labels.
LEMMA PrefixedMaps ==
  ASSUME NEW m, NEW prefix, NEW map \in PrefixedLabels(m, prefix)
  PROVE  IsPrefixed(map, m, prefix)
<1> DEFINE names == {Prefixed(prefix, l) : l \in DOMAIN m.labels}
           Candidates(a) == {Txt(m.labels[l]) : l \in {k \in DOMAIN m.labels : Prefixed(prefix, k) = a}}
<1>1. /\ map \in [names -> UNION {Candidates(a) : a \in names}]
      /\ \A a \in names : map[a] \in Candidates(a)
  BY DEF PrefixedLabels
<1>2. DOMAIN map = names
  BY <1>1
<1>3. \A a : a \in DOMAIN map <=> \E l \in DOMAIN m.labels : a = Prefixed(prefix, l)
  BY <1>2
<1>4. \A a \in DOMAIN map : \E l \in DOMAIN m.labels :
         a = Prefixed(prefix, l) /\ map[a] = Txt(m.labels[l])
  BY <1>1, <1>2
<1> QED
  BY <1>3, <1>4 DEF IsPrefixed

-----------------------------------------------------------------------------
(* Units *)

\* The groups as a unit sees them.
View(g, id, unit) == (g :> (id :> unit)) @@ groups

\* A unit sees itself under the ID of the entry, and the other groups as they are.
LEMMA ViewFacts ==
  ASSUME NEW g, NEW id, NEW unit
  PROVE  /\ g \in DOMAIN View(g, id, unit) /\ DOMAIN View(g, id, unit)[g] = {id}
         /\ View(g, id, unit)[g][id] = unit
         /\ \A h : h # g => (h \in DOMAIN View(g, id, unit) <=> h \in DOMAIN groups)
         /\ \A h \in DOMAIN groups : h # g => View(g, id, unit)[h] = groups[h]
<1> DEFINE own == id :> unit
           V == (g :> own) @@ groups
<1>1. DOMAIN own = {id} /\ own[id] = unit
  BY OneEntry
<1> HIDE DEF own
<1>2. DOMAIN (g :> own) = {g} /\ (g :> own)[g] = own
  BY OneEntry
<1>3. /\ DOMAIN V = DOMAIN groups \cup {g} /\ V[g] = own
      /\ \A h \in DOMAIN groups : h # g => V[h] = groups[h]
  BY <1>2 DEF @@
<1>4. View(g, id, unit) = V
  BY DEF View, own
<1> HIDE DEF V
<1> QED
  BY <1>1, <1>3, <1>4

\* What is read of a unit is read of its metrics.
LEMMA UnitRead ==
  ASSUME NEW g, NEW id, NEW unit, NEW f
  PROVE  /\ HasRaw(View(g, id, unit), g, id, f) <=> f \in DOMAIN unit
         /\ FromRaw(View(g, id, unit), g, id, f) = unit[f]
<1> DEFINE V == View(g, id, unit)
<1>1. g \in DOMAIN V /\ DOMAIN V[g] = {id} /\ V[g][id] = unit
  BY ViewFacts
<1> HIDE DEF V
<1>2. /\ HasRaw(V, g, id, f) <=> f \in DOMAIN unit
      /\ FromRaw(V, g, id, f) = unit[f]
  BY <1>1 DEF HasRaw, FromRaw
<1> QED
  BY <1>2 DEF V

\* The units of an entry of a namespaced group that is not split.
LEMMA WholeUnit ==
  ASSUME Grouping, NEW g \in DOMAIN groups, g \in Namespaced, g # "resourcequota",
         NEW id \in DOMAIN groups[g], UnitsOf(groups, g, id).ok
  PROVE  /\ TypeOf(groups, g, id) # <<>>
         /\ DOMAIN UnitsOf(groups, g, id).of = {<<id[2]>>}
         /\ UnitsOf(groups, g, id).of[<<id[2]>>] = groups[g][id]
<1> DEFINE metrics == groups[g][id]
           us == UnitsOf(groups, g, id)
<1>1. TypeOf(groups, g, id) # <<>>
  <2>1. SUFFICES ASSUME TypeOf(groups, g, id) = <<>> PROVE FALSE
    OBVIOUS
  <2>2. us = [ok |-> FALSE, of |-> NoMap]
    BY <2>1 DEF UnitsOf
  <2> QED
    BY <2>2
<1>2. us = [ok |-> IDOf(groups, g, id) # <<>>, of |-> IDOf(groups, g, id) :> metrics]
  BY <1>1 DEF UnitsOf
<1>3. us.of = IDOf(groups, g, id) :> metrics
  BY <1>2
<1>4. IDOf(groups, g, id) = <<id[2]>>
  BY <1>1, TypeAndID
<1> DEFINE name == <<id[2]>>
           of == name :> metrics
<1>5. us.of = of
  BY <1>3, <1>4
<1>6. DOMAIN of = {name} /\ of[name] = metrics
  <2> HIDE DEF name, metrics
  <2> QED
    BY OneEntry
<1> HIDE DEF of, us
<1>7. DOMAIN us.of = {name} /\ us.of[name] = metrics
  BY <1>5, <1>6
<1> QED
  BY <1>1, <1>7 DEF us

\* The series at a quota's entry of one of its resources.
HeldOf(id, r) ==
    {i \in Held("resourcequota", id, "kube_resourcequota") : Label(response[i], "resource") = r}

\* A unit of a quota: its series of one resource, and what else its entry has.
IsQuotaUnit(unit, id, r) ==
    /\ HeldOf(id, r) # {}
    /\ "kube_resourcequota" \in DOMAIN unit /\ unit["kube_resourcequota"].slice = TRUE
    /\ Holds(unit["kube_resourcequota"].ms, response, HeldOf(id, r))
    /\ \A f : f # "kube_resourcequota" =>
         /\ f \in DOMAIN unit <=> f \in DOMAIN groups["resourcequota"][id]
         /\ f \in DOMAIN unit => unit[f] = groups["resourcequota"][id][f]

\* The series of a resource among those at some positions.
LEMMA HoldsResource ==
  ASSUME NEW ms, NEW more, NEW series, NEW at, NEW r, Holds(ms, series, at),
         Holds(more, ms, OfResource(ms, Len(ms), r)),
         \A i \in at : Has(series[i], "resource")
  PROVE  Holds(more, series, {i \in at : Label(series[i], "resource") = r})
<1> DEFINE A == {series[i] : i \in at}
           sub == OfResource(ms, Len(ms), r)
           to == {i \in at : Label(series[i], "resource") = r}
           B == {series[i] : i \in to}
<1>1. ms \in Seq(A) /\ \A x \in 1..Len(ms) : ms[x] \in A
  BY DEF Holds
<1>2. {ms[x] : x \in sub} \subseteq B
  <2>1. ASSUME NEW x \in sub PROVE ms[x] \in B
    <3>1. Label(ms[x], "resource") = r /\ ms[x] \in A
      BY <1>1 DEF OfResource
    <3>2. PICK i \in at : ms[x] = series[i]
      BY <3>1
    <3> QED
      BY <3>1, <3>2
  <2> QED
    BY <2>1
<1>3. more \in Seq(B) /\ Len(more) # 0
  <2>1. more \in Seq({ms[x] : x \in sub}) /\ Len(more) # 0
    BY DEF Holds
  <2> HIDE DEF B
  <2> QED
    BY <1>2, <2>1
<1>4. ASSUME NEW i \in to PROVE \E y \in 1..Len(more) : more[y] = series[i]
  <2>1. PICK x \in 1..Len(ms) : ms[x] = series[i]
    BY DEF Holds
  <2>2. x \in sub
    BY <2>1 DEF OfResource
  <2>3. PICK y \in 1..Len(more) : more[y] = ms[x]
    BY <2>2 DEF Holds
  <2> QED
    BY <2>1, <2>3
<1> QED
  BY <1>3, <1>4 DEF Holds

\* The units of a quota, of which there is at least one.
LEMMA QuotaUnits ==
  ASSUME Grouping, "resourcequota" \in DOMAIN groups, NEW id \in DOMAIN groups["resourcequota"],
         UnitsOf(groups, "resourcequota", id).ok
  PROVE  /\ TypeOf(groups, "resourcequota", id) # <<>>
         /\ DOMAIN UnitsOf(groups, "resourcequota", id).of # {}
         /\ \A u \in DOMAIN UnitsOf(groups, "resourcequota", id).of :
              \E r : u = <<id[1], id[2], r>> /\ IsQuotaUnit(UnitsOf(groups, "resourcequota", id).of[u], id, r)
<1> DEFINE g == "resourcequota"
           metrics == groups[g][id]
           us == UnitsOf(groups, g, id)
           ms == metrics["kube_resourcequota"].ms
           split == SplitOf(ms)[Len(ms)]
           at == Held(g, id, "kube_resourcequota")
<1>1. /\ TypeOf(groups, g, id) # <<>>
      /\ "kube_resourcequota" \in DOMAIN metrics
  <2>1. SUFFICES ASSUME TypeOf(groups, g, id) = <<>> \/ "kube_resourcequota" \notin DOMAIN metrics PROVE FALSE
    OBVIOUS
  <2>2. us = [ok |-> FALSE, of |-> NoMap]
    BY <2>1 DEF UnitsOf
  <2> QED
    BY <2>2
<1>2. us.of = [u \in {Append(id, r) : r \in DOMAIN SplitGroup(metrics)} |->
                 SplitGroup(metrics)[u[Len(u)]]]
  <2>1. metrics["kube_resourcequota"].slice
    <3>1. SUFFICES ASSUME ~metrics["kube_resourcequota"].slice PROVE FALSE
      OBVIOUS
    <3>2. us = [ok |-> FALSE, of |-> NoMap]
      BY <3>1 DEF UnitsOf
    <3> QED
      BY <3>2
  <2>2. us = [ok |-> TRUE, of |-> [u \in {Append(id, r) : r \in DOMAIN SplitGroup(metrics)} |->
                                      SplitGroup(metrics)[u[Len(u)]]]]
    BY <1>1, <2>1 DEF UnitsOf
  <2> QED
    BY <2>2
<1>3. at # {} /\ RawOf(metrics["kube_resourcequota"], response, at)
  BY <1>1, EntriesHold DEF Entries, Joins
<1>4. Holds(ms, response, at) /\ Len(ms) \in Nat /\ Len(ms) # 0
  <2>1. Holds(ms, response, at)
    BY <1>3 DEF RawOf
  <2> HIDE DEF ms, at
  <2> QED
    BY <2>1 DEF Holds
<1>5. \A i \in at : Has(response[i], "resource")
  BY HeldFacts, ResponseAssumption
<1>6. SplitTo(split, ms, Len(ms))
  BY <1>4, Split
<1>7. id = <<id[1], id[2]>>
  <2>1. g \in Namespaced
    BY DEF Namespaced
  <2> QED
    BY <1>1, <2>1, TypeAndID
<1>8. SplitGroup(metrics) = [r \in DOMAIN split |-> ("kube_resourcequota" :> Slice(split[r])) @@ metrics]
  BY DEF SplitGroup
<1> HIDE DEF us, split, ms
<1>9. ASSUME NEW r \in DOMAIN split
      PROVE  IsQuotaUnit(SplitGroup(metrics)[r], id, r)
  <2> DEFINE raw == Slice(split[r])
             unit == ("kube_resourcequota" :> raw) @@ metrics
  <2>1. SplitGroup(metrics)[r] = unit
    BY <1>8
  <2>2. raw.slice = TRUE /\ raw.ms = split[r]
    BY DEF Slice
  <2>3. Holds(split[r], response, HeldOf(id, r))
    <3>1. Holds(split[r], ms, OfResource(ms, Len(ms), r))
      BY <1>6 DEF SplitTo
    <3>2. Holds(split[r], response, {i \in at : Label(response[i], "resource") = r})
      BY <1>4, <1>5, <3>1, HoldsResource
    <3> QED
      BY <3>2 DEF HeldOf
  <2>4. HeldOf(id, r) # {}
    <3>1. split[r] \in Seq({response[i] : i \in HeldOf(id, r)}) /\ Len(split[r]) # 0
      BY <2>3 DEF Holds
    <3>2. split[r][1] \in {response[i] : i \in HeldOf(id, r)}
      BY <3>1
    <3> QED
      BY <3>2
  <2> HIDE DEF raw, metrics
  <2>5. /\ DOMAIN unit = DOMAIN metrics \cup {"kube_resourcequota"} /\ unit["kube_resourcequota"] = raw
        /\ \A f \in DOMAIN metrics : f # "kube_resourcequota" => unit[f] = metrics[f]
    BY DEF @@, :>
  <2> HIDE DEF unit
  <2>6. IsQuotaUnit(unit, id, r)
    BY <2>2, <2>3, <2>4, <2>5 DEF IsQuotaUnit, metrics
  <2> QED
    BY <2>1, <2>6
<1>10. DOMAIN split # {}
  <2>1. ms[1] \in {response[i] : i \in at} /\ 1 \in 1..Len(ms)
    <3>1. ms \in Seq({response[i] : i \in at})
      BY <1>4 DEF Holds
    <3> QED
      BY <1>4, <3>1
  <2>2. Has(ms[1], "resource")
    BY <1>5, <2>1
  <2>3. 1 \in OfResource(ms, Len(ms), Label(ms[1], "resource"))
    BY <2>1, <2>2 DEF OfResource
  <2> QED
    BY <1>6, <2>3 DEF SplitTo
<1>11. \A r : Append(id, r) = <<id[1], id[2], r>> /\ <<id[1], id[2], r>>[Len(<<id[1], id[2], r>>)] = r
  <2>1. \A x, y, r : Append(<<x, y>>, r) = <<x, y, r>>
    <3>1. ASSUME NEW x, NEW y, NEW r PROVE Append(<<x, y>>, r) = <<x, y, r>>
      <4> DEFINE S == {x, y, r}
                 p == Append(<<x, y>>, r)
      <4>1. <<x, y>> \in Seq(S) /\ Len(<<x, y>>) = 2 /\ r \in S /\ <<x, y>>[1] = x /\ <<x, y>>[2] = y
        OBVIOUS
      <4>2. p \in Seq(S) /\ Len(p) = 3 /\ p[1] = x /\ p[2] = y /\ p[3] = r
        BY <4>1
      <4> DEFINE q == <<x, y, r>>
      <4>3. q \in Seq(S) /\ Len(q) = 3 /\ q[1] = x /\ q[2] = y /\ q[3] = r
        OBVIOUS
      <4> HIDE DEF p, q, S
      <4>4. DOMAIN p = 1..3 /\ DOMAIN q = 1..3 /\ \A i \in 1..3 : p[i] = q[i]
        BY <4>2, <4>3
      <4>5. p = [i \in 1..3 |-> p[i]] /\ q = [i \in 1..3 |-> q[i]]
        BY <4>2, <4>3, <4>4
      <4>6. p = q
        BY <4>4, <4>5
      <4> QED
        BY <4>6 DEF p, q
    <3> QED
      BY <3>1
  <2>2. \A x, y, r : <<x, y, r>>[Len(<<x, y, r>>)] = r
    OBVIOUS
  <2> DEFINE x == id[1]
             y == id[2]
  <2>3. id = <<x, y>>
    BY <1>7
  <2> HIDE DEF x, y
  <2>4. \A r : Append(id, r) = <<x, y, r>> /\ <<x, y, r>>[Len(<<x, y, r>>)] = r
    BY <2>1, <2>2, <2>3
  <2> QED
    BY <2>4 DEF x, y
<1>12. /\ DOMAIN us.of = {Append(id, r) : r \in DOMAIN split}
       /\ \A u \in DOMAIN us.of : us.of[u] = SplitGroup(metrics)[u[Len(u)]]
  BY <1>2, <1>8
<1>13. ASSUME NEW u \in DOMAIN us.of
       PROVE  \E r : u = <<id[1], id[2], r>> /\ IsQuotaUnit(us.of[u], id, r)
  <2>1. PICK r \in DOMAIN split : u = Append(id, r)
    BY <1>12
  <2>2. u = <<id[1], id[2], r>> /\ u[Len(u)] = r
    BY <1>11, <2>1
  <2>3. us.of[u] = SplitGroup(metrics)[r]
    BY <1>12, <2>2
  <2> QED
    BY <1>9, <2>2, <2>3
<1> QED
  BY <1>1, <1>10, <1>12, <1>13 DEF us

-----------------------------------------------------------------------------
(* The tables of specs *)

\* What a spec reads, how, and the name it sets.
Reads(spec, kind, name, f) == spec.fetch = kind /\ spec.name = name /\ spec.key = f

\* What the specs of the three tables read.
LEMMA DeploymentTable ==
    /\ Len(DeploymentSpecs) = 6
    /\ Reads(DeploymentSpecs[1], "value", "createdAt", "kube_deployment_created")
    /\ Reads(DeploymentSpecs[2], "value", "podsDesired", "kube_deployment_spec_replicas")
    /\ Reads(DeploymentSpecs[3], "label", "deploymentName", "kube_deployment_created")
    /\ Reads(DeploymentSpecs[4], "inherit", "label.*", "kube_namespace_labels") /\ DeploymentSpecs[4].arg = "label"
    /\ DeploymentSpecs[4].parent = "namespace"
    /\ Reads(DeploymentSpecs[5], "own", "label.*", "kube_deployment_labels") /\ DeploymentSpecs[5].arg = "label"
    /\ Reads(DeploymentSpecs[6], "subtract", "podsMissing", "kube_deployment_spec_replicas")
BY DEF DeploymentSpecs, Spec4, Inherit, Reads

LEMMA ServiceTable ==
    /\ Len(ServiceSpecs) = 4
    /\ Reads(ServiceSpecs[1], "value", "createdAt", "kube_service_created")
    /\ Reads(ServiceSpecs[2], "label", "clusterIP", "kube_service_info")
    /\ Reads(ServiceSpecs[3], "own", "label.*", "kube_service_labels") /\ ServiceSpecs[3].arg = "label"
    /\ Reads(ServiceSpecs[4], "inherit", "selector.*", Selectors) /\ ServiceSpecs[4].arg = "selector"
    /\ ServiceSpecs[4].parent = "service"
BY DEF ServiceSpecs, Spec4, Optional, Inherit, Reads

LEMMA QuotaTable ==
    /\ Len(QuotaSpecs) = 5
    /\ Reads(QuotaSpecs[1], "value", "createdAt", "kube_resourcequota_created")
    /\ Reads(QuotaSpecs[2], "label", "resourcequotaName", "kube_resourcequota_created")
    /\ Reads(QuotaSpecs[3], "label", "resource", "kube_resourcequota") /\ QuotaSpecs[3].arg = "resource"
    /\ Reads(QuotaSpecs[4], "flattened", "resource.*", "kube_resourcequota") /\ QuotaSpecs[4].arg = "type"
    /\ Reads(QuotaSpecs[5], "own", "label.*", "kube_resourcequota_labels") /\ QuotaSpecs[5].arg = "label"
BY DEF QuotaSpecs, Spec4, Optional, Reads

\* What a spec of a value, a label or a difference sets starts with its name or
\* with its family.
LEMMA PlainNames ==
  ASSUME NEW gs, NEW g, NEW id, NEW spec, NEW kind \in {"value", "label", "subtract"},
         NEW name, NEW f, Reads(spec, kind, name, f),
         NEW r \in Fetch(gs, g, id, spec), NEW a \in DOMAIN r.values
  PROVE  a[1] = name \/ a[1] = f
<1>0. (a = <<name>> \/ \E x : a = <<f, x>>) => a[1] = name \/ a[1] = f
  OBVIOUS
<1>1. CASE kind = "value"
  <2>1. r = FromValue(gs, g, id, spec)
    BY <1>1, FetchKinds DEF Reads
  <2> QED
    BY <1>0, <2>1, ValueNames DEF Reads
<1>2. CASE kind = "label"
  <2>1. r = FromLabelValue(gs, g, id, spec)
    BY <1>2, FetchKinds DEF Reads
  <2> QED
    BY <1>0, <2>1, LabelNames DEF Reads
<1>3. CASE kind = "subtract"
  <2>1. r = Subtract(gs, g, id, spec)
    BY <1>3, FetchKinds DEF Reads
  <2> QED
    BY <1>0, <2>1, LabelNames DEF Reads
<1> QED
  BY <1>1, <1>2, <1>3

-----------------------------------------------------------------------------
(* Labels of an entry and of its namespace *)

\* The attributes a result sets are the prefixed labels of the series at some
\* positions, with the value of one that has the name.
FromLabels(r, at, prefix) ==
    /\ \A a : a \in DOMAIN r.values <=>
         \E i \in at : \E l \in DOMAIN response[i].labels : a = Prefixed(prefix, l)
    /\ \A a \in DOMAIN r.values : \E i \in at : \E l \in DOMAIN response[i].labels :
         a = Prefixed(prefix, l) /\ r.values[a] = Txt(response[i].labels[l])

\* An error and nil set nothing.
LEMMA FromLabelsNone ==
  ASSUME NEW r, r = Err \/ r = Nil, NEW prefix
  PROVE  FromLabels(r, {}, prefix)
<1>1. DOMAIN r.values = {}
  BY ValuesFacts
<1> QED
  BY <1>1 DEF FromLabels

\* The labels of one series.
LEMMA FromLabelsOne ==
  ASSUME NEW i, NEW prefix, NEW map \in PrefixedLabels(response[i], prefix)
  PROVE  FromLabels(Values(map), {i}, prefix)
<1> DEFINE r == Values(map)
<1>1. r.values = map
  BY ValuesFacts
<1>2. IsPrefixed(map, response[i], prefix)
  BY PrefixedMaps
<1> HIDE DEF r
<1>3. FromLabels(r, {i}, prefix)
  BY <1>1, <1>2 DEF FromLabels, IsPrefixed
<1> QED
  BY <1>3 DEF r

\* All their names start with the prefix.
LEMMA PrefixedFirst ==
  ASSUME Grouping, NEW at \in SUBSET DOMAIN response, NEW r, NEW prefix, FromLabels(r, at, prefix),
         NEW a \in DOMAIN r.values
  PROVE  a[1] = prefix
<1>1. PICK i \in at : \E l \in DOMAIN response[i].labels : a = Prefixed(prefix, l)
  BY DEF FromLabels
<1>2. PICK l \in DOMAIN response[i].labels : a = Prefixed(prefix, l)
  BY <1>1
<1>3. response[i] \in AllSeries
  BY ResponseSeq DEF Grouping
<1>4. l \in Seq(STRING) \ {<<>>}
  BY <1>2, <1>3, ResponseAssumption
<1> QED
  BY <1>2, <1>4, PrefixFirst

\* The first metric of a family is one of its series.
LEMMA FirstHeld ==
  ASSUME Grouping, NEW g \in DOMAIN groups, NEW id \in DOMAIN groups[g],
         NEW f \in DOMAIN groups[g][id], ~Joins(g, id, f)
  PROVE  \E i \in Held(g, id, f) : groups[g][id][f].ms[1] = response[i]
<1> DEFINE raw == groups[g][id][f]
<1>1. RawOf(raw, response, Held(g, id, f))
  BY EntriesHold DEF Entries
<1> HIDE DEF raw
<1>2. raw.ms \in Seq({response[i] : i \in Held(g, id, f)}) /\ Len(raw.ms) # 0
  BY <1>1 DEF RawOf, Holds
<1>3. raw.ms[1] \in {response[i] : i \in Held(g, id, f)}
  BY <1>2
<1> QED
  BY <1>3 DEF raw

\* A unit has a family as its entry has it.
Shares(unit, g, id, f) ==
    /\ f \in DOMAIN unit <=> f \in DOMAIN groups[g][id]
    /\ f \in DOMAIN unit => unit[f] = groups[g][id][f]

\* The labels of a series of the unit all get the prefix.
LEMMA OwnNames ==
  ASSUME Grouping, NEW g \in DOMAIN groups, NEW id \in DOMAIN groups[g], NEW unit, NEW spec,
         ~Joins(g, id, spec.key), Shares(unit, g, id, spec.key), spec.fetch = "own",
         NEW r \in Fetch(View(g, id, unit), g, id, spec), NEW a \in DOMAIN r.values
  PROVE  a[1] = spec.arg
<1> DEFINE f == spec.key
           V == View(g, id, unit)
<1>1. r \in OwnLabels(V, g, id, spec)
  BY FetchKinds
<1>2. /\ HasRaw(V, g, id, f) <=> f \in DOMAIN unit
      /\ FromRaw(V, g, id, f) = unit[f]
  BY UnitRead
<1>3. r # Nil /\ r # Err
  BY ValuesFacts
<1> HIDE DEF V
<1>4. HasRaw(V, g, id, f) /\ \E map \in PrefixedLabels(FromRaw(V, g, id, f).ms[1], spec.arg) : r = Values(map)
  BY <1>1, <1>3 DEF OwnLabels
<1>5. f \in DOMAIN groups[g][id] /\ unit[f] = groups[g][id][f]
  BY <1>2, <1>4 DEF Shares
<1>6. PICK i \in Held(g, id, f) : groups[g][id][f].ms[1] = response[i]
  BY <1>5, FirstHeld
<1>7. PICK map \in PrefixedLabels(response[i], spec.arg) : r = Values(map)
  BY <1>2, <1>4, <1>5, <1>6
<1>8. FromLabels(r, {i}, spec.arg)
  BY <1>7, FromLabelsOne
<1>9. {i} \in SUBSET DOMAIN response
  BY HeldFacts
<1> QED
  BY <1>8, <1>9, PrefixedFirst

\* The labels of an object: of the one series that describes it, if there is one.
LEMMA OwnRead ==
  ASSUME Grouping, NEW f \in DOMAIN Describes, f # "kube_resourcequota",
         NEW g \in DOMAIN groups, g = Describes[f], NEW id \in DOMAIN groups[g],
         NEW spec, spec.key = f, spec.fetch = "own",
         NEW r \in Fetch(View(g, id, groups[g][id]), g, id, spec)
  PROVE  FromLabels(r, Held(g, id, f), spec.arg)
<1> DEFINE unit == groups[g][id]
           V == View(g, id, unit)
<1>1. r \in OwnLabels(V, g, id, spec)
  BY FetchKinds
<1>2. /\ HasRaw(V, g, id, f) <=> f \in DOMAIN unit
      /\ FromRaw(V, g, id, f) = unit[f]
  BY UnitRead
<1> HIDE DEF V
<1>3. CASE f \notin DOMAIN unit
  <2>1. r = Nil
    BY <1>1, <1>2, <1>3 DEF OwnLabels
  <2>2. f # Selectors
    BY DescribesFacts DEF Selectors
  <2>3. Held(g, id, f) = {}
    BY <1>3, <2>2, EntriesHold DEF Entries, Joins
  <2> QED
    BY <2>1, <2>3, FromLabelsNone
<1>4. CASE f \in DOMAIN unit
  <2>1. PICK i \in DOMAIN response : /\ Held(g, id, f) = {i}
                                     /\ ~unit[f].slice /\ unit[f].ms[1] = response[i]
    BY <1>4, OneSeries
  <2>2. PICK map \in PrefixedLabels(response[i], spec.arg) : r = Values(map)
    BY <1>1, <1>2, <1>4, <2>1 DEF OwnLabels
  <2> QED
    BY <2>1, <2>2, FromLabelsOne
<1> QED
  BY <1>3, <1>4

\* Whichever metric is found, the parent of an entry is the one its ID names.
LEMMA NamespaceParent ==
  ASSUME Grouping, NEW g \in DOMAIN groups, g \in Namespaced, g # "service",
         NEW id \in DOMAIN groups[g], TypeOf(groups, g, id) # <<>>
  PROVE  ParentIDs(groups[g][id], "namespace") = {<<id[1]>>}
<1> DEFINE S == Singles(groups[g][id])
           P(m) == IF ~Has(m, "namespace") \/ ("namespace" \notin ClusterScoped /\ ~Has(m, "namespace")) THEN <<>>
                   ELSE IF "namespace" \in ClusterScoped THEN <<Label(m, "namespace")>>
                   ELSE <<Label(m, "namespace"), Label(m, "namespace")>>
<1>1. ParentIDs(groups[g][id], "namespace") = {P(m) : m \in S}
  BY NamespacedFacts DEF ParentIDs, RelatedIn
<1>2. /\ Created[g] \in DOMAIN groups[g][id] /\ id[1] # ""
  BY TypeAndID
<1>3. PICK i \in DOMAIN response : response[i] \in S
  BY <1>2, CreatedEntry
<1>4. ASSUME NEW m \in S PROVE P(m) = <<id[1]>>
  <2>1. PICK f, j : j \in Held(g, id, f) /\ m = response[j]
    BY SinglesFacts
  <2>2. RawEntityID(g, m) = id
    BY <2>1, HeldFacts
  <2>3. id = <<Label(m, "namespace"), Label(m, g)>>
    BY <2>2, NamespacedFacts
  <2>4. Label(m, "namespace") = id[1]
    BY <2>3
  <2>5. Has(m, "namespace")
    BY <1>2, <2>4 DEF Label
  <2> QED
    BY <2>4, <2>5, NamespacedFacts
<1> HIDE DEF S, P
<1> QED
  BY <1>1, <1>3, <1>4

\* The inherited labels are those of the one series that describes the namespace.
LEMMA InheritedLabels ==
  ASSUME Grouping, NEW g \in DOMAIN groups, g \in Namespaced, g # "service",
         NEW id \in DOMAIN groups[g], TypeOf(groups, g, id) # <<>>,
         NEW spec, spec.fetch = "inherit", spec.parent = "namespace", spec.key = "kube_namespace_labels",
         NEW r \in Fetch(View(g, id, groups[g][id]), g, id, spec)
  PROVE  FromLabels(r, Held("namespace", <<id[1]>>, "kube_namespace_labels"), spec.arg)
<1> DEFINE V == View(g, id, groups[g][id])
           p == <<id[1]>>
           f == "kube_namespace_labels"
           n0 == "namespace"
           From(q) == IF /\ HasRaw(V, spec.parent, q, spec.key)
                         /\ ~FromRaw(V, spec.parent, q, spec.key).slice
                        THEN {Values(map) : map \in
                                PrefixedLabels(FromRaw(V, spec.parent, q, spec.key).ms[1], spec.arg)}
                        ELSE {Err}
<1>1. r \in InheritLabels(V, g, id, spec)
  BY FetchKinds
<1>2. V[g][id] = groups[g][id] /\ n0 # g
      /\ (n0 \in DOMAIN V <=> n0 \in DOMAIN groups) /\ (n0 \in DOMAIN groups => V[n0] = groups[n0])
  BY ViewFacts, NamespacedFacts
<1>3. ParentIDs(V[g][id], spec.parent) = {p}
  BY <1>2, NamespaceParent
<1> HIDE DEF V, p
<1>4. r \in From(p)
  <2>1. InheritLabels(V, g, id, spec) = IF ParentIDs(V[g][id], spec.parent) = {} THEN {Err}
                                        ELSE UNION {From(q) : q \in ParentIDs(V[g][id], spec.parent)}
    BY DEF InheritLabels
  <2> HIDE DEF From
  <2> QED
    BY <1>1, <1>3, <2>1
<1>5. CASE HasRaw(V, n0, p, f)
  <2>1. /\ n0 \in DOMAIN groups /\ p \in DOMAIN groups[n0] /\ f \in DOMAIN groups[n0][p]
        /\ FromRaw(V, n0, p, f) = groups[n0][p][f]
    BY <1>2, <1>5 DEF HasRaw, FromRaw
  <2>2. f \in DOMAIN Describes /\ n0 = Describes[f] /\ f # "kube_resourcequota"
    BY DescribesFacts
  <2>3. PICK i \in DOMAIN response : /\ Held(n0, p, f) = {i}
                                     /\ ~groups[n0][p][f].slice /\ groups[n0][p][f].ms[1] = response[i]
    BY <2>1, <2>2, OneSeries
  <2>4. PICK map \in PrefixedLabels(response[i], spec.arg) : r = Values(map)
    BY <1>4, <1>5, <2>1, <2>3
  <2> QED
    BY <2>3, <2>4, FromLabelsOne DEF p
<1>6. CASE ~HasRaw(V, n0, p, f)
  <2>1. r = Err
    BY <1>4, <1>6
  <2>2. ~(n0 \in DOMAIN groups /\ p \in DOMAIN groups[n0] /\ f \in DOMAIN groups[n0][p])
    BY <1>2, <1>6 DEF HasRaw
  <2>3. n0 \in Kept
    BY NamespacedFacts DEF Kept
  <2>4. Held(n0, p, f) = {}
    BY <2>2, <2>3, EntriesHold DEF Entries, Joins
  <2> QED
    BY <2>1, <2>4, FromLabelsNone DEF p
<1> QED
  BY <1>5, <1>6

-----------------------------------------------------------------------------
(* What the samples hold *)

\* The sample of a unit of an entry.
Made(s, g, id) ==
    /\ g \in DOMAIN groups /\ id \in DOMAIN groups[g] /\ UnitsOf(groups, g, id).ok
    /\ s.id \in DOMAIN UnitsOf(groups, g, id).of
    /\ s.group = g /\ s.type = TypeOf(groups, g, id)
    /\ \E x \in MetricSetPopulate(View(g, id, UnitsOf(groups, g, id).of[s.id]), g, id) : s.attrs = x.attrs
    /\ g # "namespace" => \E ns \in NamespacesOf(groups[g][id]) : ns \in allowed

\* The sample of an entry that is not split.
OfWhole(s, g, id) ==
    /\ id = <<id[1], id[2]>> /\ id[1] # "" /\ TypeOf(groups, g, id) # <<>>
    /\ s.type = <<id[1], g>> /\ s.id = <<id[2]>>
    /\ \E x \in MetricSetPopulate(View(g, id, groups[g][id]), g, id) : s.attrs = x.attrs

\* A sample of a group that is not split is the one of its entry.
LEMMA MadeWhole ==
  ASSUME Grouping, NEW s, NEW g \in Namespaced, g # "resourcequota", NEW id, Made(s, g, id)
  PROVE  OfWhole(s, g, id)
<1>1. /\ TypeOf(groups, g, id) # <<>>
      /\ DOMAIN UnitsOf(groups, g, id).of = {<<id[2]>>}
      /\ UnitsOf(groups, g, id).of[<<id[2]>>] = groups[g][id]
  BY WholeUnit DEF Made
<1>2. id = <<id[1], id[2]>> /\ id[1] # "" /\ TypeOf(groups, g, id) = <<id[1], g>>
  BY <1>1, TypeAndID DEF Made
<1>3. s.id = <<id[2]>>
  BY <1>1 DEF Made
<1>4. \E x \in MetricSetPopulate(View(g, id, groups[g][id]), g, id) : s.attrs = x.attrs
  BY <1>1, <1>3 DEF Made
<1>5. s.type = <<id[1], g>>
  BY <1>2 DEF Made
<1> QED
  BY <1>1, <1>2, <1>3, <1>4, <1>5 DEF OfWhole

\* The series that LabelsOfNearest speaks of are those of the entries.
LEMMA SeriesHeld ==
  ASSUME Grouping, NEW f \in DOMAIN Describes, NEW ns, NEW name
  PROVE  /\ Describes[f] \in Namespaced =>
              SeriesOf(f, ns, Describes[f], name) = Held(Describes[f], <<ns, name>>, f)
         /\ Describes[f] = "namespace" =>
              SeriesOf(f, ns, Describes[f], ns) = Held(Describes[f], <<ns>>, f)
<1> DEFINE g == Describes[f]
<1>1. \A id : Held(g, id, f) = {i \in DOMAIN response : response[i].family = f /\ RawEntityID(g, response[i]) = id}
  BY HeldDescribes
<1> HIDE DEF g
<1>2. CASE g \in Namespaced
  <2>1. \A i : RawEntityID(g, response[i]) = <<ns, name>> <=>
                 Label(response[i], "namespace") = ns /\ Label(response[i], g) = name
    <3>1. \A i : RawEntityID(g, response[i]) = <<Label(response[i], "namespace"), Label(response[i], g)>>
      BY <1>2, NamespacedFacts
    <3>2. \A x, y : <<x, y>> = <<ns, name>> <=> x = ns /\ y = name
      OBVIOUS
    <3> QED
      BY <3>1, <3>2
  <2>2. SeriesOf(f, ns, g, name) = Held(g, <<ns, name>>, f)
    BY <1>1, <2>1 DEF SeriesOf
  <2> QED
    BY <1>2, <2>2, NamespacedFacts DEF g
<1>3. CASE g = "namespace"
  <2>1. \A i : RawEntityID(g, response[i]) = <<ns>> <=> Label(response[i], "namespace") = ns
    <3>1. \A i : RawEntityID(g, response[i]) = <<Label(response[i], "namespace")>>
      BY <1>3, NamespacedFacts
    <3>2. \A x : <<x>> = <<ns>> <=> x = ns
      OBVIOUS
    <3> QED
      BY <3>1, <3>2
  <2>2. SeriesOf(f, ns, g, ns) = Held(g, <<ns>>, f)
    BY <1>1, <1>3, <2>1 DEF SeriesOf
  <2> QED
    BY <1>3, <2>2, NamespacedFacts DEF g
<1> QED
  BY <1>2, <1>3 DEF g

\* The sample of a deployment is written by six specs.
LEMMA DeploymentWrites ==
  ASSUME NEW V, NEW id, NEW x \in MetricSetPopulate(V, "deployment", id)
  PROVE  \E rs : Writes(rs, x.attrs, V, "deployment", id, 6)
<1> DEFINE g == "deployment"
<1>1. Specs[g] = DeploymentSpecs /\ x \in MetricSetPopulate(V, g, id)
  BY Tables
<1>2. Len(DeploymentSpecs) = 6
  BY DeploymentTable
<1>3. \A k \in 1..6 : DeploymentSpecs[k].fetch \in Kinds
  <2>1. \A k \in 1..6 : k = 1 \/ k = 2 \/ k = 3 \/ k = 4 \/ k = 5 \/ k = 6
    OBVIOUS
  <2> QED
    BY <2>1, DeploymentTable DEF Reads, Kinds
<1> HIDE DEF g
<1>4. Len(Specs[g]) = 6 /\ Len(Specs[g]) \in Nat /\ \A k \in 1..Len(Specs[g]) : Specs[g][k].fetch \in Kinds
  BY <1>1, <1>2, <1>3
<1>5. \E rs : Writes(rs, x.attrs, V, g, id, Len(Specs[g]))
  BY <1>1, <1>4, SetWritten
<1> QED
  BY <1>4, <1>5 DEF g

\* The names of what the specs set that are not of labels.
LEMMA DeploymentNames ==
  ASSUME NEW V, NEW id, NEW j \in {1, 2, 3, 6}, NEW r \in Fetch(V, "deployment", id, DeploymentSpecs[j]),
         NEW a \in DOMAIN r.values
  PROVE  a[1] # "label"
<1> DEFINE spec == DeploymentSpecs[j]
<1>0. r \in Fetch(V, "deployment", id, spec)
  OBVIOUS
<1> HIDE DEF spec
<1>1. CASE j = 1
  <2>1. Reads(spec, "value", "createdAt", "kube_deployment_created")
    BY <1>1, DeploymentTable DEF spec
  <2>2. a[1] = "createdAt" \/ a[1] = "kube_deployment_created"
    BY <1>0, <2>1, PlainNames
  <2> QED
    BY <2>2
<1>2. CASE j = 2
  <2>1. Reads(spec, "value", "podsDesired", "kube_deployment_spec_replicas")
    BY <1>2, DeploymentTable DEF spec
  <2>2. a[1] = "podsDesired" \/ a[1] = "kube_deployment_spec_replicas"
    BY <1>0, <2>1, PlainNames
  <2> QED
    BY <2>2
<1>3. CASE j = 3
  <2>1. Reads(spec, "label", "deploymentName", "kube_deployment_created")
    BY <1>3, DeploymentTable DEF spec
  <2>2. a[1] = "deploymentName" \/ a[1] = "kube_deployment_created"
    BY <1>0, <2>1, PlainNames
  <2> QED
    BY <2>2
<1>6. CASE j = 6
  <2>1. Reads(spec, "subtract", "podsMissing", "kube_deployment_spec_replicas")
    BY <1>6, DeploymentTable DEF spec
  <2>2. a[1] = "podsMissing" \/ a[1] = "kube_deployment_spec_replicas"
    BY <1>0, <2>1, PlainNames
  <2> QED
    BY <2>2
<1> QED
  BY <1>1, <1>2, <1>3, <1>6

\* The labels of a deployment's sample: first its own, then its namespace's.
NearestLabels(attrs, own, inherited) ==
    \E near, far :
      /\ FromLabels(near, own, "label") /\ FromLabels(far, inherited, "label")
      /\ \A a : a \in DOMAIN attrs /\ a[1] = "label" <=> a \in DOMAIN near.values \/ a \in DOMAIN far.values
      /\ \A a \in DOMAIN near.values : attrs[a] = near.values[a]
      /\ \A a \in DOMAIN far.values : a \notin DOMAIN near.values => attrs[a] = far.values[a]

\* Own labels are written after the inherited, and nothing after them is one.
LEMMA DeploymentLabels ==
  ASSUME Grouping, NEW s, NEW id, Made(s, "deployment", id)
  PROVE  NearestLabels(s.attrs, Held("deployment", id, "kube_deployment_labels"),
                       Held("namespace", <<id[1]>>, "kube_namespace_labels"))
<1> DEFINE g == "deployment"
           V == View(g, id, groups[g][id])
           own == Held(g, id, "kube_deployment_labels")
           inherited == Held("namespace", <<id[1]>>, "kube_namespace_labels")
<1>1. g \in Namespaced /\ g # "resourcequota" /\ g # "service"
  BY DEF Namespaced
<1>2. g \in DOMAIN groups /\ id \in DOMAIN groups[g]
  BY DEF Made
<1>3. TypeOf(groups, g, id) # <<>> /\ \E x \in MetricSetPopulate(V, g, id) : s.attrs = x.attrs
  <2>1. OfWhole(s, g, id)
    BY <1>1, MadeWhole
  <2> QED
    BY <2>1 DEF OfWhole
<1>4. PICK rs : Writes(rs, s.attrs, V, g, id, 6)
  <2>1. PICK x \in MetricSetPopulate(V, g, id) : s.attrs = x.attrs
    BY <1>3
  <2> HIDE DEF V
  <2> QED
    BY <2>1, DeploymentWrites
<1>5. \A j \in 1..6 : rs[j] \in Fetch(V, g, id, DeploymentSpecs[j])
  BY <1>4, Tables DEF Writes
<1>6. FromLabels(rs[5], own, "label")
  <2> DEFINE f == "kube_deployment_labels"
  <2>1. f \in DOMAIN Describes /\ g = Describes[f] /\ f # "kube_resourcequota"
    BY DescribesFacts
  <2>2. rs[5] \in Fetch(V, g, id, DeploymentSpecs[5])
    BY <1>5
  <2>3. DeploymentSpecs[5].key = f /\ DeploymentSpecs[5].fetch = "own" /\ DeploymentSpecs[5].arg = "label"
    BY DeploymentTable DEF Reads
  <2> QED
    BY <1>2, <2>1, <2>2, <2>3, OwnRead
<1>7. FromLabels(rs[4], inherited, "label")
  <2>1. rs[4] \in Fetch(V, g, id, DeploymentSpecs[4])
    BY <1>5
  <2>2. /\ DeploymentSpecs[4].key = "kube_namespace_labels" /\ DeploymentSpecs[4].fetch = "inherit"
        /\ DeploymentSpecs[4].arg = "label" /\ DeploymentSpecs[4].parent = "namespace"
    BY DeploymentTable DEF Reads
  <2> QED
    BY <1>1, <1>2, <1>3, <2>1, <2>2, InheritedLabels
<1>8. \A j \in {1, 2, 3, 6} : \A a \in DOMAIN rs[j].values : a[1] # "label"
  <2>1. \A j \in {1, 2, 3, 6} : j \in 1..6
    OBVIOUS
  <2> HIDE DEF V
  <2> QED
    BY <1>5, <2>1, DeploymentNames
<1>9. \A j \in {4, 5} : \A a \in DOMAIN rs[j].values : a[1] = "label"
  <2>1. own \in SUBSET DOMAIN response /\ inherited \in SUBSET DOMAIN response
    BY HeldFacts
  <2> QED
    BY <1>6, <1>7, <2>1, PrefixedFirst
<1>10. /\ \A a : a \in DOMAIN s.attrs <=> \E j \in 1..6 : a \in DOMAIN rs[j].values
       /\ \A j \in 1..6 : \A a \in DOMAIN rs[j].values :
            (\A i \in 1..6 : i > j => a \notin DOMAIN rs[i].values) => s.attrs[a] = rs[j].values[a]
  BY <1>4 DEF Writes
<1> HIDE DEF V, own, inherited
<1>11. \A j : j \in 1..6 <=> j \in {1, 2, 3, 6} \/ j \in {4, 5}
  OBVIOUS
<1>12. \A a : a \in DOMAIN s.attrs /\ a[1] = "label" <=> a \in DOMAIN rs[5].values \/ a \in DOMAIN rs[4].values
  <2>1. ASSUME NEW a, a \in DOMAIN s.attrs, a[1] = "label"
        PROVE  a \in DOMAIN rs[5].values \/ a \in DOMAIN rs[4].values
    <3>1. PICK j \in 1..6 : a \in DOMAIN rs[j].values
      BY <1>10, <2>1
    <3>2. j \in {4, 5}
      BY <1>8, <1>11, <2>1, <3>1
    <3> QED
      BY <3>1, <3>2
  <2>2. ASSUME NEW j \in {4, 5}, NEW a \in DOMAIN rs[j].values
        PROVE  a \in DOMAIN s.attrs /\ a[1] = "label"
    BY <1>9, <1>10, <1>11
  <2> QED
    BY <2>1, <2>2
<1>13. \A a \in DOMAIN rs[5].values : s.attrs[a] = rs[5].values[a]
  <2>1. ASSUME NEW a \in DOMAIN rs[5].values PROVE s.attrs[a] = rs[5].values[a]
    <3>1. a \notin DOMAIN rs[6].values
      BY <1>8, <1>9
    <3>2. \A i \in 1..6 : i > 5 => i = 6
      OBVIOUS
    <3> QED
      BY <1>10, <3>1, <3>2
  <2> QED
    BY <2>1
<1>14. \A a \in DOMAIN rs[4].values : a \notin DOMAIN rs[5].values => s.attrs[a] = rs[4].values[a]
  <2>1. ASSUME NEW a \in DOMAIN rs[4].values, a \notin DOMAIN rs[5].values
        PROVE  s.attrs[a] = rs[4].values[a]
    <3>1. a \notin DOMAIN rs[6].values
      BY <1>8, <1>9
    <3>2. \A i \in 1..6 : i > 4 => i = 5 \/ i = 6
      OBVIOUS
    <3> QED
      BY <1>10, <2>1, <3>1, <3>2
  <2> QED
    BY <2>1
<1> DEFINE near == rs[5]
           far == rs[4]
<1>15. NearestLabels(s.attrs, own, inherited)
  <2>1. /\ FromLabels(near, own, "label") /\ FromLabels(far, inherited, "label")
        /\ \A a : a \in DOMAIN s.attrs /\ a[1] = "label" <=> a \in DOMAIN near.values \/ a \in DOMAIN far.values
        /\ \A a \in DOMAIN near.values : s.attrs[a] = near.values[a]
        /\ \A a \in DOMAIN far.values : a \notin DOMAIN near.values => s.attrs[a] = far.values[a]
    BY <1>6, <1>7, <1>12, <1>13, <1>14
  <2> HIDE DEF near, far
  <2> QED
    BY <2>1 DEF NearestLabels
<1> QED
  BY <1>15 DEF own, inherited

\* What LabelsOfNearest says of one sample.
LEMMA NearestOfSample ==
  ASSUME Grouping, NEW s, NEW id, Made(s, "deployment", id)
  PROVE  LET own == SeriesOf("kube_deployment_labels", s.type[1], "deployment", s.id[1])
             ns == SeriesOf("kube_namespace_labels", s.type[1], "namespace", s.type[1])
             Labels(of) == UNION {{<<Prefixed("label", l), Txt(response[i].labels[l])>> :
                                      l \in DOMAIN response[i].labels} : i \in of}
             Attrs(of) == {x[1] : x \in Labels(of)}
         IN /\ {a \in DOMAIN s.attrs : a[1] = "label"} = Attrs(own) \cup Attrs(ns)
            /\ \A a \in Attrs(own) : <<a, s.attrs[a]>> \in Labels(own)
            /\ \A a \in Attrs(ns) \ Attrs(own) : <<a, s.attrs[a]>> \in Labels(ns)
<1> DEFINE g == "deployment"
           own == SeriesOf("kube_deployment_labels", s.type[1], "deployment", s.id[1])
           inherited == SeriesOf("kube_namespace_labels", s.type[1], "namespace", s.type[1])
           Labels(of) == UNION {{<<Prefixed("label", l), Txt(response[i].labels[l])>> :
                                    l \in DOMAIN response[i].labels} : i \in of}
           Attrs(of) == {x[1] : x \in Labels(of)}
<1>1. id = <<id[1], id[2]>> /\ s.type = <<id[1], g>> /\ s.id = <<id[2]>>
  <2>1. g \in Namespaced /\ g # "resourcequota"
    BY DEF Namespaced
  <2>2. OfWhole(s, g, id)
    BY <2>1, MadeWhole
  <2> QED
    BY <2>2 DEF OfWhole
<1>2. s.type[1] = id[1] /\ s.id[1] = id[2]
  <2> DEFINE x == id[1]
             y == id[2]
  <2>1. s.type = <<x, g>> /\ s.id = <<y>>
    BY <1>1
  <2> HIDE DEF x, y
  <2>2. s.type[1] = x /\ s.id[1] = y
    BY <2>1
  <2> QED
    BY <2>2 DEF x, y
<1>3. own = Held(g, id, "kube_deployment_labels")
  <2> DEFINE f == "kube_deployment_labels"
  <2>1. f \in DOMAIN Describes /\ Describes[f] = g /\ g \in Namespaced
    BY DescribesFacts DEF Namespaced
  <2>2. SeriesOf(f, id[1], g, id[2]) = Held(g, <<id[1], id[2]>>, f)
    BY <2>1, SeriesHeld
  <2> QED
    BY <1>1, <1>2, <2>2
<1>4. inherited = Held("namespace", <<id[1]>>, "kube_namespace_labels")
  <2> DEFINE f == "kube_namespace_labels"
  <2>1. f \in DOMAIN Describes /\ Describes[f] = "namespace"
    BY DescribesFacts
  <2>2. SeriesOf(f, id[1], "namespace", id[1]) = Held("namespace", <<id[1]>>, f)
    BY <2>1, SeriesHeld
  <2> QED
    BY <1>2, <2>2
<1>5. NearestLabels(s.attrs, own, inherited)
  BY <1>3, <1>4, DeploymentLabels
<1> HIDE DEF own, inherited
<1>6. PICK near, far :
        /\ FromLabels(near, own, "label") /\ FromLabels(far, inherited, "label")
        /\ \A a : a \in DOMAIN s.attrs /\ a[1] = "label" <=> a \in DOMAIN near.values \/ a \in DOMAIN far.values
        /\ \A a \in DOMAIN near.values : s.attrs[a] = near.values[a]
        /\ \A a \in DOMAIN far.values : a \notin DOMAIN near.values => s.attrs[a] = far.values[a]
  BY <1>5 DEF NearestLabels
<1>7. \A of, a, v : <<a, v>> \in Labels(of) <=>
        \E i \in of : \E l \in DOMAIN response[i].labels : a = Prefixed("label", l) /\ v = Txt(response[i].labels[l])
  OBVIOUS
<1>8. \A of, a : a \in Attrs(of) <=> \E i \in of : \E l \in DOMAIN response[i].labels : a = Prefixed("label", l)
  <2>1. ASSUME NEW of, NEW i \in of, NEW l \in DOMAIN response[i].labels PROVE Prefixed("label", l) \in Attrs(of)
    <3> DEFINE x == <<Prefixed("label", l), Txt(response[i].labels[l])>>
    <3>1. x \in Labels(of)
      OBVIOUS
    <3>2. x[1] = Prefixed("label", l)
      OBVIOUS
    <3> HIDE DEF Labels, x
    <3> QED
      BY <3>1, <3>2
  <2>2. ASSUME NEW of, NEW a \in Attrs(of)
        PROVE  \E i \in of : \E l \in DOMAIN response[i].labels : a = Prefixed("label", l)
    OBVIOUS
  <2> QED
    BY <2>1, <2>2
<1> HIDE DEF Labels, Attrs
<1>9. ASSUME NEW r, NEW of, FromLabels(r, of, "label")
      PROVE  /\ \A a : a \in DOMAIN r.values <=> a \in Attrs(of)
             /\ \A a \in DOMAIN r.values : <<a, r.values[a]>> \in Labels(of)
  BY <1>7, <1>8, <1>9 DEF FromLabels
<1>10. /\ \A a : a \in DOMAIN near.values <=> a \in Attrs(own)
       /\ \A a : a \in DOMAIN far.values <=> a \in Attrs(inherited)
       /\ \A a \in DOMAIN near.values : <<a, near.values[a]>> \in Labels(own)
       /\ \A a \in DOMAIN far.values : <<a, far.values[a]>> \in Labels(inherited)
  BY <1>6, <1>9
<1>11. {a \in DOMAIN s.attrs : a[1] = "label"} = Attrs(own) \cup Attrs(inherited)
  BY <1>6, <1>10
<1>12. \A a \in Attrs(own) : <<a, s.attrs[a]>> \in Labels(own)
  BY <1>6, <1>10
<1>13. \A a \in Attrs(inherited) \ Attrs(own) : <<a, s.attrs[a]>> \in Labels(inherited)
  BY <1>6, <1>10
<1> QED
  BY <1>11, <1>12, <1>13 DEF own, inherited, Labels, Attrs

-----------------------------------------------------------------------------
(* Selectors *)

\* The sample of a service is written by four specs.
LEMMA ServiceWrites ==
  ASSUME NEW V, NEW id, NEW x \in MetricSetPopulate(V, "service", id)
  PROVE  \E rs : Writes(rs, x.attrs, V, "service", id, 4)
<1> DEFINE g == "service"
<1>1. Specs[g] = ServiceSpecs /\ x \in MetricSetPopulate(V, g, id)
  BY Tables
<1>2. Len(ServiceSpecs) = 4
  BY ServiceTable
<1>3. \A k \in 1..4 : ServiceSpecs[k].fetch \in Kinds
  <2>1. \A k \in 1..4 : k = 1 \/ k = 2 \/ k = 3 \/ k = 4
    OBVIOUS
  <2> QED
    BY <2>1, ServiceTable DEF Reads, Kinds
<1> HIDE DEF g
<1>4. Len(Specs[g]) = 4 /\ Len(Specs[g]) \in Nat /\ \A k \in 1..Len(Specs[g]) : Specs[g][k].fetch \in Kinds
  BY <1>1, <1>2, <1>3
<1>5. \E rs : Writes(rs, x.attrs, V, g, id, Len(Specs[g]))
  BY <1>1, <1>4, SetWritten
<1> QED
  BY <1>4, <1>5 DEF g

\* The metric that holds the selectors has neither label, so that whichever is
\* found names the service.
LEMMA ServiceParent ==
  ASSUME Grouping, "service" \in DOMAIN groups, NEW id \in DOMAIN groups["service"],
         TypeOf(groups, "service", id) # <<>>
  PROVE  ParentIDs(groups["service"][id], "service") = {id}
<1> DEFINE g == "service"
           S == Singles(groups[g][id])
           R == {m \in S : Has(m, "namespace") /\ Has(m, g)}
           P(m) == IF ~Has(m, g) \/ (g \notin ClusterScoped /\ ~Has(m, "namespace")) THEN <<>>
                   ELSE IF g \in ClusterScoped THEN <<Label(m, g)>>
                   ELSE <<Label(m, "namespace"), Label(m, g)>>
<1>0. g \in Namespaced /\ g \notin ClusterScoped
  BY DEF Namespaced, ClusterScoped
<1>1. ParentIDs(groups[g][id], g) = {P(m) : m \in R}
  BY <1>0 DEF ParentIDs, RelatedIn
<1>2. /\ Created[g] \in DOMAIN groups[g][id] /\ id[1] # ""
  BY <1>0, TypeAndID
<1>3. PICK i \in DOMAIN response :
           /\ Has(response[i], g) /\ id = <<Label(response[i], "namespace"), Label(response[i], g)>>
           /\ response[i] \in S
  BY <1>0, <1>2, CreatedEntry
<1>4. response[i] \in R
  <2>1. Label(response[i], "namespace") = id[1]
    BY <1>3
  <2>2. Has(response[i], "namespace")
    BY <1>2, <2>1 DEF Label
  <2> QED
    BY <1>3, <2>2
<1>5. ASSUME NEW m \in R PROVE P(m) = id
  <2>1. m \in S /\ Has(m, "namespace") /\ Has(m, g)
    OBVIOUS
  <2>2. \A selector : m # SelectorMetric(selector)
    BY <2>1, SelectorLabels
  <2>3. PICK f, j : j \in Held(g, id, f) /\ m = response[j]
    BY <2>1, <2>2, SinglesFacts
  <2>4. RawEntityID(g, m) = id
    BY <2>3, HeldFacts
  <2>5. id = <<Label(m, "namespace"), Label(m, g)>>
    BY <1>0, <2>4, NamespacedFacts
  <2> QED
    BY <1>0, <2>1, <2>5
<1> HIDE DEF R, P
<1>6. {P(m) : m \in R} = {id}
  BY <1>4, <1>5
<1> QED
  BY <1>1, <1>6

\* The attributes of the selectors.
OfSelector(values, selector) ==
    /\ \A a : a \in DOMAIN values <=> \E x \in DOMAIN selector : a = <<"selector", x>>
    /\ \A x \in DOMAIN selector : values[<<"selector", x>>] = Txt(selector[x])

\* The selectors keep their names.
LEMMA SelectorAttributes ==
  ASSUME NEW selector, NEW map \in PrefixedLabels(SelectorMetric(selector), "selector")
  PROVE  OfSelector(map, selector)
<1> DEFINE m == SelectorMetric(selector)
           Name(x) == <<"selector", x>>
<1>1. DOMAIN m.labels = {Name(x) : x \in DOMAIN selector}
  BY DEF SelectorMetric
<1>2. \A x \in DOMAIN selector : m.labels[Name(x)] = selector[x]
  BY DEF SelectorMetric
<1>3. \A x : Prefixed("selector", Name(x)) = Name(x)
  <2>1. ASSUME NEW x PROVE Prefixed("selector", Name(x)) = Name(x)
    <3>1. Len(Name(x)) = 2 /\ Name(x)[1] = "selector" /\ Tail(Name(x)) = <<x>>
      OBVIOUS
    <3>2. <<"selector">> \o <<x>> = <<"selector", x>>
      <4> DEFINE S == {"selector", x}
                 p == <<"selector">> \o <<x>>
                 q == <<"selector", x>>
      <4>1. <<"selector">> \in Seq(S) /\ <<x>> \in Seq(S) /\ Len(<<"selector">>) = 1 /\ Len(<<x>>) = 1
        OBVIOUS
      <4>2. p \in Seq(S) /\ Len(p) = 2 /\ p[1] = "selector" /\ p[2] = x
        BY <4>1
      <4>3. q \in Seq(S) /\ Len(q) = 2 /\ q[1] = "selector" /\ q[2] = x
        OBVIOUS
      <4> HIDE DEF p, q, S
      <4>4. DOMAIN p = 1..2 /\ DOMAIN q = 1..2 /\ \A i \in 1..2 : p[i] = q[i]
        BY <4>2, <4>3
      <4>5. p = [i \in 1..2 |-> p[i]] /\ q = [i \in 1..2 |-> q[i]]
        BY <4>2, <4>3, <4>4
      <4>6. p = q
        BY <4>4, <4>5
      <4> QED
        BY <4>6 DEF p, q
    <3> QED
      BY <3>1, <3>2 DEF Prefixed
  <2> QED
    BY <2>1
<1>4. IsPrefixed(map, m, "selector")
  BY PrefixedMaps
<1>5. \A x, y : Name(x) = Name(y) => x = y
  OBVIOUS
<1> HIDE DEF m, Name
<1>6. \A a : a \in DOMAIN map <=> \E x \in DOMAIN selector : a = Name(x)
  BY <1>1, <1>3, <1>4 DEF IsPrefixed
<1>7. ASSUME NEW x \in DOMAIN selector PROVE map[Name(x)] = Txt(selector[x])
  <2>1. PICK l \in DOMAIN m.labels : Name(x) = Prefixed("selector", l) /\ map[Name(x)] = Txt(m.labels[l])
    BY <1>4, <1>6 DEF IsPrefixed
  <2>2. PICK y \in DOMAIN selector : l = Name(y)
    BY <1>1
  <2>3. x = y
    BY <1>3, <1>5, <2>1, <2>2
  <2> QED
    BY <1>2, <2>1, <2>2, <2>3
<1> QED
  BY <1>6, <1>7 DEF OfSelector, Name

\* A service inherits its selectors from itself.
LEMMA InheritedSelectors ==
  ASSUME Grouping, "service" \in DOMAIN groups, NEW id \in DOMAIN groups["service"],
         TypeOf(groups, "service", id) # <<>>, id \in DOMAIN services,
         NEW spec, spec.fetch = "inherit", spec.parent = "service", spec.key = Selectors, spec.arg = "selector",
         NEW r \in Fetch(View("service", id, groups["service"][id]), "service", id, spec)
  PROVE  OfSelector(r.values, services[id])
<1> DEFINE g == "service"
           V == View(g, id, groups[g][id])
           m == SelectorMetric(services[id])
           From(q) == IF /\ HasRaw(V, spec.parent, q, spec.key)
                         /\ ~FromRaw(V, spec.parent, q, spec.key).slice
                        THEN {Values(map) : map \in
                                PrefixedLabels(FromRaw(V, spec.parent, q, spec.key).ms[1], spec.arg)}
                        ELSE {Err}
<1>1. r \in InheritLabels(V, g, id, spec)
  BY FetchKinds
<1>2. /\ V[g][id] = groups[g][id]
      /\ HasRaw(V, g, id, Selectors) <=> Selectors \in DOMAIN groups[g][id]
      /\ FromRaw(V, g, id, Selectors) = groups[g][id][Selectors]
  BY ViewFacts, UnitRead
<1>3. ParentIDs(V[g][id], spec.parent) = {id}
  BY <1>2, ServiceParent
<1>4. Selectors \in DOMAIN groups[g][id] /\ groups[g][id][Selectors] = One(m)
  <2>1. Joins(g, id, Selectors)
    BY DEF Joins
  <2> QED
    BY <2>1, EntriesHold DEF Entries
<1>5. One(m).slice = FALSE /\ One(m).ms[1] = m
  BY DEF One
<1> HIDE DEF V, m
<1>6. r \in From(id)
  <2>1. InheritLabels(V, g, id, spec) = IF ParentIDs(V[g][id], spec.parent) = {} THEN {Err}
                                        ELSE UNION {From(q) : q \in ParentIDs(V[g][id], spec.parent)}
    BY DEF InheritLabels
  <2> HIDE DEF From
  <2> QED
    BY <1>1, <1>3, <2>1
<1>7. PICK map \in PrefixedLabels(m, "selector") : r = Values(map)
  BY <1>2, <1>4, <1>5, <1>6
<1>8. r.values = map
  BY <1>7, ValuesFacts
<1> QED
  BY <1>7, <1>8, SelectorAttributes DEF m

\* The other specs set nothing that looks like one.
LEMMA ServiceNames ==
  ASSUME Grouping, "service" \in DOMAIN groups, NEW id \in DOMAIN groups["service"],
         NEW j \in {1, 2, 3},
         NEW r \in Fetch(View("service", id, groups["service"][id]), "service", id, ServiceSpecs[j]),
         NEW a \in DOMAIN r.values
  PROVE  a[1] # "selector"
<1> DEFINE spec == ServiceSpecs[j]
           g == "service"
           V == View(g, id, groups[g][id])
<1>0. r \in Fetch(V, g, id, spec)
  OBVIOUS
<1> HIDE DEF spec
<1>1. CASE j = 1
  <2>1. Reads(spec, "value", "createdAt", "kube_service_created")
    BY <1>1, ServiceTable DEF spec
  <2>2. a[1] = "createdAt" \/ a[1] = "kube_service_created"
    BY <1>0, <2>1, PlainNames
  <2> QED
    BY <2>2
<1>2. CASE j = 2
  <2>1. Reads(spec, "label", "clusterIP", "kube_service_info")
    BY <1>2, ServiceTable DEF spec
  <2>2. a[1] = "clusterIP" \/ a[1] = "kube_service_info"
    BY <1>0, <2>1, PlainNames
  <2> QED
    BY <2>2
<1>3. CASE j = 3
  <2>1. Reads(spec, "own", "label.*", "kube_service_labels") /\ spec.arg = "label"
    BY <1>3, ServiceTable DEF spec
  <2>2. ~Joins(g, id, spec.key)
    BY <2>1 DEF Joins, Reads, Selectors
  <2>3. Shares(groups[g][id], g, id, spec.key)
    BY DEF Shares
  <2>4. a[1] = "label"
    BY <1>0, <2>1, <2>2, <2>3, OwnNames DEF Reads
  <2> QED
    BY <2>4
<1> QED
  BY <1>1, <1>2, <1>3

\* What SelectorsReported says of one sample.
LEMMA SelectorsOfSample ==
  ASSUME Grouping, NEW s, NEW id, Made(s, "service", id), <<s.type[1], s.id[1]>> \in DOMAIN services
  PROVE  LET selector == services[<<s.type[1], s.id[1]>>]
         IN /\ {a \in DOMAIN s.attrs : a[1] = "selector"} = {<<"selector", k>> : k \in DOMAIN selector}
            /\ \A k \in DOMAIN selector : s.attrs[<<"selector", k>>] = Txt(selector[k])
<1> DEFINE g == "service"
           V == View(g, id, groups[g][id])
           selector == services[id]
<1>1. g \in DOMAIN groups /\ id \in DOMAIN groups[g]
  BY DEF Made
<1>2. OfWhole(s, g, id)
  <2>1. g \in Namespaced /\ g # "resourcequota"
    BY DEF Namespaced
  <2> QED
    BY <2>1, MadeWhole
<1>3. <<s.type[1], s.id[1]>> = id /\ id \in DOMAIN services
  <2> DEFINE x == id[1]
             y == id[2]
  <2>1. s.type = <<x, g>> /\ s.id = <<y>> /\ id = <<x, y>>
    BY <1>2 DEF OfWhole
  <2> HIDE DEF x, y
  <2>2. s.type[1] = x /\ s.id[1] = y
    BY <2>1
  <2> QED
    BY <2>1, <2>2
<1>4. TypeOf(groups, g, id) # <<>> /\ \E x \in MetricSetPopulate(V, g, id) : s.attrs = x.attrs
  BY <1>2 DEF OfWhole
<1>5. PICK rs : Writes(rs, s.attrs, V, g, id, 4)
  <2>1. PICK x \in MetricSetPopulate(V, g, id) : s.attrs = x.attrs
    BY <1>4
  <2> HIDE DEF V
  <2> QED
    BY <2>1, ServiceWrites
<1>6. \A j \in 1..4 : rs[j] \in Fetch(V, g, id, ServiceSpecs[j])
  BY <1>5, Tables DEF Writes
<1>7. OfSelector(rs[4].values, selector)
  <2>1. rs[4] \in Fetch(V, g, id, ServiceSpecs[4])
    BY <1>6
  <2>2. /\ ServiceSpecs[4].fetch = "inherit" /\ ServiceSpecs[4].parent = "service"
        /\ ServiceSpecs[4].key = Selectors /\ ServiceSpecs[4].arg = "selector"
    BY ServiceTable DEF Reads
  <2> QED
    BY <1>1, <1>3, <1>4, <2>1, <2>2, InheritedSelectors
<1>8. \A j \in {1, 2, 3} : \A a \in DOMAIN rs[j].values : a[1] # "selector"
  <2>1. \A j \in {1, 2, 3} : j \in 1..4
    OBVIOUS
  <2> QED
    BY <1>1, <1>6, <2>1, ServiceNames
<1>9. /\ \A a : a \in DOMAIN s.attrs <=> \E j \in 1..4 : a \in DOMAIN rs[j].values
      /\ \A j \in 1..4 : \A a \in DOMAIN rs[j].values :
            (\A i \in 1..4 : i > j => a \notin DOMAIN rs[i].values) => s.attrs[a] = rs[j].values[a]
  BY <1>5 DEF Writes
<1> HIDE DEF V, selector
<1>10. \A j : j \in 1..4 <=> j \in {1, 2, 3} \/ j = 4
  OBVIOUS
<1>11. \A a \in DOMAIN rs[4].values : a \in DOMAIN s.attrs /\ s.attrs[a] = rs[4].values[a]
  <2>1. 4 \in 1..4 /\ \A i \in 1..4 : ~(i > 4)
    OBVIOUS
  <2> QED
    BY <1>9, <2>1
<1>12. \A a \in DOMAIN rs[4].values : a[1] = "selector"
  <2>1. \A x : <<"selector", x>>[1] = "selector"
    OBVIOUS
  <2> QED
    BY <1>7, <2>1 DEF OfSelector
<1>13. \A a : a \in DOMAIN s.attrs /\ a[1] = "selector" <=> a \in DOMAIN rs[4].values
  BY <1>8, <1>9, <1>10, <1>11, <1>12
<1>14. {a \in DOMAIN s.attrs : a[1] = "selector"} = {<<"selector", k>> : k \in DOMAIN selector}
  BY <1>7, <1>13 DEF OfSelector
<1>15. \A k \in DOMAIN selector : s.attrs[<<"selector", k>>] = Txt(selector[k])
  BY <1>7, <1>11 DEF OfSelector
<1> QED
  BY <1>3, <1>14, <1>15 DEF selector

-----------------------------------------------------------------------------
(* Quotas *)

\* The series of a resource of a quota.
LEMMA QuotaSeries ==
  ASSUME Grouping, NEW id, NEW r, NEW i \in HeldOf(id, r)
  PROVE  /\ i \in DOMAIN response /\ response[i].family = "kube_resourcequota"
         /\ Has(response[i], "resource") /\ Label(response[i], "resource") = r
         /\ Has(response[i], "type") /\ Label(response[i], "type") \in {"hard", "used"}
         /\ <<Label(response[i], "namespace"), Label(response[i], "resourcequota")>> = id
<1>1. /\ i \in DOMAIN response /\ response[i] \in AllSeries /\ response[i].family = "kube_resourcequota"
      /\ RawEntityID("resourcequota", response[i]) = id /\ Label(response[i], "resource") = r
  BY HeldFacts DEF HeldOf
<1>2. RawEntityID("resourcequota", response[i]) =
        <<Label(response[i], "namespace"), Label(response[i], "resourcequota")>>
  <2>1. "resourcequota" \in Namespaced
    BY DEF Namespaced
  <2> QED
    BY <2>1, NamespacedFacts
<1> QED
  BY <1>1, <1>2, ResponseAssumption

\* A quota has one series of each resource and type.
LEMMA OneOfType ==
  ASSUME Grouping, NEW id, NEW r, NEW i \in HeldOf(id, r), NEW j \in HeldOf(id, r),
         Label(response[i], "type") = Label(response[j], "type")
  PROVE  i = j
<1>1. /\ i \in DOMAIN response /\ j \in DOMAIN response
      /\ response[i].family = "kube_resourcequota" /\ response[j].family = "kube_resourcequota"
      /\ Label(response[i], "resource") = Label(response[j], "resource")
  BY QuotaSeries
<1>2. <<Label(response[i], "namespace"), Label(response[i], "resourcequota")>> =
        <<Label(response[j], "namespace"), Label(response[j], "resourcequota")>>
  BY QuotaSeries
<1>3. /\ Label(response[i], "namespace") = Label(response[j], "namespace")
      /\ Label(response[i], "resourcequota") = Label(response[j], "resourcequota")
  BY <1>2
<1>4. SameObject(response[i], response[j])
  BY <1>1, <1>3, DescribesFacts DEF SameObject
<1> QED
  BY <1>1, <1>4, ResponseAssumption DEF Grouping

\* An attribute for each type, with its value.
OfTypes(values, at) ==
    /\ \A a : a \in DOMAIN values <=> \E i \in at : a = <<Label(response[i], "type")>>
    /\ \A i \in at : values[<<Label(response[i], "type")>>] = Num(response[i].value)

\* FromFlattenedMetrics on the series of one resource.
LEMMA Flattened ==
  ASSUME Grouping, NEW g, NEW id, NEW unit, NEW r0, IsQuotaUnit(unit, id, r0),
         NEW spec, spec.fetch = "flattened", spec.key = "kube_resourcequota", spec.arg = "type",
         NEW r \in Fetch(View(g, id, unit), g, id, spec)
  PROVE  OfTypes(r.values, HeldOf(id, r0))
<1> DEFINE f == "kube_resourcequota"
           V == View(g, id, unit)
           raw == FromRaw(V, g, id, spec.key)
           Of(i) == <<Label(raw.ms[i], spec.arg)>>
           with == {i \in DOMAIN raw.ms : Has(raw.ms[i], spec.arg)}
           Last(a) == CHOOSE i \in with : Of(i) = a /\ \A j \in with : Of(j) = a => j <= i
           map == [a \in {Of(i) : i \in with} |-> Num(raw.ms[Last(a)].value)]
           own == HeldOf(id, r0)
           ms == unit[f].ms
<1>1. HasRaw(V, g, id, spec.key) /\ raw = unit[f] /\ raw.slice = TRUE
  BY UnitRead DEF IsQuotaUnit
<1>2. r = Values(map)
  <2>1. r = FromFlattenedMetrics(V, g, id, spec)
    BY FetchKinds
  <2>2. FromFlattenedMetrics(V, g, id, spec) = Values(map)
    <3> HIDE DEF V
    <3> QED
      BY <1>1 DEF FromFlattenedMetrics
  <2> QED
    BY <2>1, <2>2
<1>3. r.values = map
  <2> HIDE DEF map
  <2> QED
    BY <1>2, ValuesFacts
<1>4. raw.ms = ms
  BY <1>1
<1>5. Holds(ms, response, own)
  BY DEF IsQuotaUnit
<1> HIDE DEF raw, ms, own
<1>6. /\ ms \in Seq({response[i] : i \in own}) /\ Len(ms) \in Nat /\ DOMAIN ms = 1..Len(ms)
      /\ \A x \in 1..Len(ms) : \E i \in own : ms[x] = response[i]
      /\ \A i \in own : \E x \in 1..Len(ms) : ms[x] = response[i]
  BY <1>5 DEF Holds
<1>7. with = 1..Len(ms)
  <2>1. \A i \in own : Has(response[i], "type")
    BY QuotaSeries DEF own
  <2> QED
    BY <1>4, <1>6, <2>1
<1>8. \A x : Of(x) = <<Label(ms[x], "type")>>
  BY <1>4
<1> HIDE DEF with, Of
<1>9. DOMAIN map = {Of(x) : x \in with}
  OBVIOUS
<1>10. \A a : a \in DOMAIN map <=> \E i \in own : a = <<Label(response[i], "type")>>
  BY <1>6, <1>7, <1>8, <1>9
<1>11. ASSUME NEW i \in own PROVE map[<<Label(response[i], "type")>>] = Num(response[i].value)
  <2> DEFINE a == <<Label(response[i], "type")>>
             S == {x \in with : Of(x) = a}
  <2>1. S \in SUBSET (1..Len(ms)) /\ S # {}
    BY <1>6, <1>7, <1>8
  <2>2. PICK x \in S : \A y \in S : y <= x
    <3> HIDE DEF S
    <3> QED
      BY <1>6, <2>1, Latest
  <2>3. x \in with /\ Of(x) = a /\ \A j \in with : Of(j) = a => j <= x
    BY <2>2
  <2>4. Last(a) \in with /\ Of(Last(a)) = a
    <3> HIDE DEF a
    <3> QED
      BY <2>3
  <2> DEFINE last == Last(a)
  <2>5. map[a] = Num(ms[last].value)
    BY <1>4, <1>9, <2>3
  <2>6. last \in 1..Len(ms) /\ <<Label(ms[last], "type")>> = a
    BY <1>7, <1>8, <2>4
  <2> HIDE DEF last, map
  <2>7. PICK j \in own : ms[last] = response[j]
    BY <1>6, <2>6
  <2>8. Label(response[j], "type") = Label(response[i], "type")
    BY <2>6, <2>7
  <2>9. j = i
    BY <2>8, OneOfType DEF own
  <2> QED
    BY <2>5, <2>7, <2>9
<1> HIDE DEF map
<1>12. OfTypes(r.values, own)
  BY <1>3, <1>10, <1>11 DEF OfTypes
<1> QED
  BY <1>12 DEF own

\* The resource of a unit, read from its first series.
LEMMA ResourceRead ==
  ASSUME Grouping, NEW g, NEW id, NEW unit, NEW r0, IsQuotaUnit(unit, id, r0),
         NEW spec, spec.fetch = "label", spec.key = "kube_resourcequota", spec.arg = "resource",
         spec.name = "resource", NEW r \in Fetch(View(g, id, unit), g, id, spec)
  PROVE  DOMAIN r.values = {<<"resource">>} /\ r.values[<<"resource">>] = Txt(r0)
<1> DEFINE f == "kube_resourcequota"
           V == View(g, id, unit)
           own == HeldOf(id, r0)
           m == unit[f].ms[1]
           a == <<"resource">>
<1>1. HasRaw(V, g, id, f) /\ FromRaw(V, g, id, f) = unit[f]
  BY UnitRead DEF IsQuotaUnit
<1>2. Has(m, "resource") /\ Label(m, "resource") = r0
  <2>1. Holds(unit[f].ms, response, own)
    BY DEF IsQuotaUnit
  <2>2. m \in {response[i] : i \in own}
    BY <2>1 DEF Holds
  <2>3. PICK i \in own : m = response[i]
    BY <2>2
  <2> QED
    BY <2>3, QuotaSeries
<1>3. r = FromLabelValue(V, g, id, spec)
  BY FetchKinds
<1> HIDE DEF V
<1>4. r = Values(a :> Txt(r0))
  BY <1>1, <1>2, <1>3 DEF FromLabelValue
<1> DEFINE v == Txt(r0)
           map == a :> v
<1>5. r = Values(map)
  BY <1>4
<1>6. DOMAIN map = {a} /\ map[a] = v
  <2> HIDE DEF a, v
  <2> QED
    BY OneEntry
<1> HIDE DEF map, a
<1>7. r.values = map
  BY <1>5, ValuesFacts
<1> QED
  BY <1>6, <1>7 DEF a

\* The sample of a quota's resource is written by five specs.
LEMMA QuotaWrites ==
  ASSUME NEW V, NEW id, NEW x \in MetricSetPopulate(V, "resourcequota", id)
  PROVE  \E rs : Writes(rs, x.attrs, V, "resourcequota", id, 5)
<1> DEFINE g == "resourcequota"
<1>1. Specs[g] = QuotaSpecs /\ x \in MetricSetPopulate(V, g, id)
  BY Tables
<1>2. Len(QuotaSpecs) = 5
  BY QuotaTable
<1>3. \A k \in 1..5 : QuotaSpecs[k].fetch \in Kinds
  <2>1. \A k \in 1..5 : k = 1 \/ k = 2 \/ k = 3 \/ k = 4 \/ k = 5
    OBVIOUS
  <2> QED
    BY <2>1, QuotaTable DEF Reads, Kinds
<1> HIDE DEF g
<1>4. Len(Specs[g]) = 5 /\ Len(Specs[g]) \in Nat /\ \A k \in 1..Len(Specs[g]) : Specs[g][k].fetch \in Kinds
  BY <1>1, <1>2, <1>3
<1>5. \E rs : Writes(rs, x.attrs, V, g, id, Len(Specs[g]))
  BY <1>1, <1>4, SetWritten
<1> QED
  BY <1>4, <1>5 DEF g

\* The other specs set neither the resource nor a type.
LEMMA QuotaNames ==
  ASSUME Grouping, "resourcequota" \in DOMAIN groups, NEW id \in DOMAIN groups["resourcequota"],
         NEW unit, NEW r0, IsQuotaUnit(unit, id, r0), NEW j \in {1, 2, 5},
         NEW r \in Fetch(View("resourcequota", id, unit), "resourcequota", id, QuotaSpecs[j]),
         NEW a \in DOMAIN r.values
  PROVE  a \notin {<<"resource">>, <<"hard">>, <<"used">>}
<1> DEFINE spec == QuotaSpecs[j]
           g == "resourcequota"
           V == View(g, id, unit)
<1>0. r \in Fetch(V, g, id, spec)
  OBVIOUS
<1> HIDE DEF spec
<1>1. CASE j = 1
  <2>1. Reads(spec, "value", "createdAt", "kube_resourcequota_created")
    BY <1>1, QuotaTable DEF spec
  <2>2. a[1] = "createdAt" \/ a[1] = "kube_resourcequota_created"
    BY <1>0, <2>1, PlainNames
  <2> QED
    BY <2>2
<1>2. CASE j = 2
  <2>1. Reads(spec, "label", "resourcequotaName", "kube_resourcequota_created")
    BY <1>2, QuotaTable DEF spec
  <2>2. a[1] = "resourcequotaName" \/ a[1] = "kube_resourcequota_created"
    BY <1>0, <2>1, PlainNames
  <2> QED
    BY <2>2
<1>3. CASE j = 5
  <2>1. Reads(spec, "own", "label.*", "kube_resourcequota_labels") /\ spec.arg = "label"
    BY <1>3, QuotaTable DEF spec
  <2>2. ~Joins(g, id, spec.key)
    BY DEF Joins
  <2>3. Shares(unit, g, id, spec.key)
    BY <2>1 DEF Shares, IsQuotaUnit, Reads
  <2>4. a[1] = "label"
    BY <1>0, <2>1, <2>2, <2>3, OwnNames DEF Reads
  <2> QED
    BY <2>4
<1> QED
  BY <1>1, <1>2, <1>3

\* The sample of one resource of a quota.
LEMMA QuotaAttributes ==
  ASSUME Grouping, "resourcequota" \in DOMAIN groups, NEW id \in DOMAIN groups["resourcequota"],
         NEW unit, NEW r0, IsQuotaUnit(unit, id, r0),
         NEW x \in MetricSetPopulate(View("resourcequota", id, unit), "resourcequota", id)
  PROVE  /\ x.attrs[<<"resource">>] = Txt(r0)
         /\ \A t \in {"hard", "used"} :
              <<t>> \in DOMAIN x.attrs <=> \E i \in HeldOf(id, r0) : Label(response[i], "type") = t
         /\ \A i \in HeldOf(id, r0) : x.attrs[<<Label(response[i], "type")>>] = Num(response[i].value)
<1> DEFINE g == "resourcequota"
           V == View(g, id, unit)
           own == HeldOf(id, r0)
           special == {<<"resource">>, <<"hard">>, <<"used">>}
<1>1. PICK rs : Writes(rs, x.attrs, V, g, id, 5)
  <2>1. x \in MetricSetPopulate(V, g, id)
    OBVIOUS
  <2> HIDE DEF V
  <2> QED
    BY <2>1, QuotaWrites
<1>2. \A j \in 1..5 : rs[j] \in Fetch(V, g, id, QuotaSpecs[j])
  BY <1>1, Tables DEF Writes
<1>3. DOMAIN rs[3].values = {<<"resource">>} /\ rs[3].values[<<"resource">>] = Txt(r0)
  <2>1. rs[3] \in Fetch(V, g, id, QuotaSpecs[3])
    BY <1>2
  <2>2. /\ QuotaSpecs[3].fetch = "label" /\ QuotaSpecs[3].key = "kube_resourcequota"
        /\ QuotaSpecs[3].arg = "resource" /\ QuotaSpecs[3].name = "resource"
    BY QuotaTable DEF Reads
  <2> QED
    BY <2>1, <2>2, ResourceRead
<1>4. OfTypes(rs[4].values, own)
  <2>1. rs[4] \in Fetch(V, g, id, QuotaSpecs[4])
    BY <1>2
  <2>2. /\ QuotaSpecs[4].fetch = "flattened" /\ QuotaSpecs[4].key = "kube_resourcequota"
        /\ QuotaSpecs[4].arg = "type"
    BY QuotaTable DEF Reads
  <2> QED
    BY <2>1, <2>2, Flattened
<1>5. \A j \in {1, 2, 5} : \A a \in DOMAIN rs[j].values : a \notin special
  <2>1. \A j \in {1, 2, 5} : j \in 1..5
    OBVIOUS
  <2> QED
    BY <1>2, <2>1, QuotaNames
<1>6. /\ \A a : a \in DOMAIN x.attrs <=> \E j \in 1..5 : a \in DOMAIN rs[j].values
      /\ \A j \in 1..5 : \A a \in DOMAIN rs[j].values :
            (\A i \in 1..5 : i > j => a \notin DOMAIN rs[i].values) => x.attrs[a] = rs[j].values[a]
  BY <1>1 DEF Writes
<1>7. \A i \in own : Label(response[i], "type") \in {"hard", "used"}
  BY QuotaSeries
<1> HIDE DEF V, own
<1>9. \A a \in DOMAIN rs[4].values : a \in {<<"hard">>, <<"used">>}
  BY <1>4, <1>7 DEF OfTypes
<1>10. <<"resource">> \notin DOMAIN rs[4].values /\ <<"resource">> \notin DOMAIN rs[5].values
  <2>1. <<"resource">> # <<"hard">> /\ <<"resource">> # <<"used">>
    OBVIOUS
  <2> QED
    BY <1>5, <1>9, <2>1
<1>11. x.attrs[<<"resource">>] = Txt(r0)
  <2>1. 3 \in 1..5 /\ \A i \in 1..5 : i > 3 => i = 4 \/ i = 5
    OBVIOUS
  <2>2. <<"resource">> \in DOMAIN rs[3].values /\ \A i \in 1..5 : i > 3 => <<"resource">> \notin DOMAIN rs[i].values
    BY <1>3, <1>10, <2>1
  <2>3. x.attrs[<<"resource">>] = rs[3].values[<<"resource">>]
    BY <1>6, <2>1, <2>2
  <2> QED
    BY <1>3, <2>3
<1>12. ASSUME NEW a \in {<<"hard">>, <<"used">>} PROVE a \in DOMAIN x.attrs <=> a \in DOMAIN rs[4].values
  <2>1. a \notin DOMAIN rs[3].values
    <3>1. a # <<"resource">>
      OBVIOUS
    <3> QED
      BY <1>3, <3>1
  <2>2. \A j : j \in 1..5 <=> j \in {1, 2, 5} \/ j = 3 \/ j = 4
    OBVIOUS
  <2>3. a \in special
    OBVIOUS
  <2> HIDE DEF special
  <2> QED
    BY <1>5, <1>6, <2>1, <2>2, <2>3
<1>13. ASSUME NEW a \in DOMAIN rs[4].values PROVE x.attrs[a] = rs[4].values[a]
  <2>1. 4 \in 1..5 /\ \A i \in 1..5 : i > 4 => i = 5
    OBVIOUS
  <2>2. a \notin DOMAIN rs[5].values
    BY <1>5, <1>9
  <2> QED
    BY <1>6, <2>1, <2>2
<1>14. \A t \in {"hard", "used"} :
         <<t>> \in DOMAIN x.attrs <=> \E i \in own : Label(response[i], "type") = t
  <2>1. \A t, y : <<t>> = <<y>> <=> t = y
    OBVIOUS
  <2>2. ASSUME NEW t \in {"hard", "used"}
        PROVE  <<t>> \in DOMAIN x.attrs <=> \E i \in own : Label(response[i], "type") = t
    <3>1. <<t>> \in {<<"hard">>, <<"used">>}
      OBVIOUS
    <3>2. <<t>> \in DOMAIN x.attrs <=> <<t>> \in DOMAIN rs[4].values
      BY <1>12, <3>1
    <3>3. <<t>> \in DOMAIN rs[4].values <=> \E i \in own : <<t>> = <<Label(response[i], "type")>>
      BY <1>4 DEF OfTypes
    <3> QED
      BY <2>1, <3>2, <3>3
  <2> QED
    BY <2>2
<1>15. \A i \in own : x.attrs[<<Label(response[i], "type")>>] = Num(response[i].value)
  BY <1>4, <1>13 DEF OfTypes
<1> QED
  BY <1>11, <1>14, <1>15 DEF own

\* What QuotaSplitByResource says of one sample.
LEMMA QuotaOfSample ==
  ASSUME Grouping, NEW s, NEW id, Made(s, "resourcequota", id)
  PROVE  LET own == {i \in SeriesOf("kube_resourcequota", s.type[1], "resourcequota", s.id[2]) :
                        Label(response[i], "resource") = s.id[3]}
             types == {Label(response[i], "type") : i \in own}
         IN /\ s.id[1] = s.type[1] /\ types # {}
            /\ s.attrs[<<"resource">>] = Txt(s.id[3])
            /\ {a \in DOMAIN s.attrs : a \in {<<"hard">>, <<"used">>}} = {<<t>> : t \in types}
            /\ \A i \in own : s.attrs[<<Label(response[i], "type")>>] = Num(response[i].value)
<1> DEFINE g == "resourcequota"
           f == "kube_resourcequota"
           us == UnitsOf(groups, g, id)
           own == {i \in SeriesOf(f, s.type[1], g, s.id[2]) : Label(response[i], "resource") = s.id[3]}
           types == {Label(response[i], "type") : i \in own}
<1>1. /\ g \in DOMAIN groups /\ id \in DOMAIN groups[g] /\ us.ok /\ s.id \in DOMAIN us.of
      /\ s.type = TypeOf(groups, g, id)
      /\ \E x \in MetricSetPopulate(View(g, id, us.of[s.id]), g, id) : s.attrs = x.attrs
  BY DEF Made
<1>2. TypeOf(groups, g, id) # <<>> /\ \E r : s.id = <<id[1], id[2], r>> /\ IsQuotaUnit(us.of[s.id], id, r)
  BY <1>1, QuotaUnits
<1>3. id = <<id[1], id[2]>> /\ TypeOf(groups, g, id) = <<id[1], g>>
  <2>1. g \in Namespaced
    BY DEF Namespaced
  <2> QED
    BY <1>1, <1>2, <2>1, TypeAndID
<1>4. PICK r : s.id = <<id[1], id[2], r>> /\ IsQuotaUnit(us.of[s.id], id, r)
  BY <1>2
<1>5. s.id[1] = id[1] /\ s.id[2] = id[2] /\ s.id[3] = r /\ s.type[1] = id[1]
  <2> DEFINE x == id[1]
             y == id[2]
  <2>1. s.id = <<x, y, r>> /\ s.type = <<x, g>>
    BY <1>1, <1>3, <1>4
  <2> HIDE DEF x, y
  <2>2. s.id[1] = x /\ s.id[2] = y /\ s.id[3] = r /\ s.type[1] = x
    BY <2>1
  <2> QED
    BY <2>2 DEF x, y
<1>6. own = HeldOf(id, r)
  <2>1. f \in DOMAIN Describes /\ Describes[f] = g /\ g \in Namespaced
    BY DescribesFacts DEF Namespaced
  <2>2. SeriesOf(f, id[1], g, id[2]) = Held(g, <<id[1], id[2]>>, f)
    BY <2>1, SeriesHeld
  <2>3. SeriesOf(f, s.type[1], g, s.id[2]) = Held(g, id, f)
    BY <1>3, <1>5, <2>2
  <2> QED
    BY <1>5, <2>3 DEF HeldOf
<1>7. PICK x \in MetricSetPopulate(View(g, id, us.of[s.id]), g, id) : s.attrs = x.attrs
  BY <1>1
<1>8. /\ s.attrs[<<"resource">>] = Txt(r)
      /\ \A t \in {"hard", "used"} :
           <<t>> \in DOMAIN s.attrs <=> \E i \in HeldOf(id, r) : Label(response[i], "type") = t
      /\ \A i \in HeldOf(id, r) : s.attrs[<<Label(response[i], "type")>>] = Num(response[i].value)
  BY <1>1, <1>4, <1>7, QuotaAttributes
<1>9. types # {} /\ types \subseteq {"hard", "used"}
  <2>1. HeldOf(id, r) # {}
    BY <1>4 DEF IsQuotaUnit
  <2>2. \A i \in HeldOf(id, r) : Label(response[i], "type") \in {"hard", "used"}
    BY QuotaSeries
  <2> QED
    BY <1>6, <2>1, <2>2
<1> HIDE DEF own
<1>10. {a \in DOMAIN s.attrs : a \in {<<"hard">>, <<"used">>}} = {<<t>> : t \in types}
  <2>1. \A t \in {"hard", "used"} : <<t>> \in DOMAIN s.attrs <=> t \in types
    BY <1>6, <1>8
  <2> HIDE DEF types
  <2> QED
    BY <1>9, <2>1
<1> QED
  BY <1>5, <1>6, <1>8, <1>9, <1>10 DEF own

-----------------------------------------------------------------------------
(* The invariant of a job *)

\* What became of an entry that is no longer to be populated.
Treated(g, id) ==
    \/ g # "namespace" /\ \E ns \in NamespacesOf(groups[g][id]) : ns \notin allowed
    \/ <<g, id>> \in errs
    \/ /\ UnitsOf(groups, g, id).ok
       /\ \A u \in DOMAIN UnitsOf(groups, g, id).of :
            \E s \in samples : s.group = g /\ s.type = TypeOf(groups, g, id) /\ s.id = u

\* While a job runs its groups are what the grouper made of the answer, every
\* sample was made from an entry, and every entry is to be populated or was
\* treated.  Before, there are no samples.
JobInv ==
    /\ stage = "idle" => todo = {} /\ samples = {}
    /\ stage = "done" => todo = {}
    /\ stage # "idle" =>
         /\ Grouping
         /\ \A s \in samples : s = ClusterSample \/ \E g, id : Made(s, g, id)
         /\ \A e \in todo : e[1] \in DOMAIN groups /\ e[2] \in DOMAIN groups[e[1]]
         /\ \A g \in DOMAIN groups : \A id \in DOMAIN groups[g] : <<g, id>> \in todo \/ Treated(g, id)

\* Populating an entry leaves the answer and the groups alone.
Frozen == UNCHANGED <<quotas, response, services, allowed, groups>>

\* What speaks of these only stays true.
LEMMA FrozenKeeps ==
  ASSUME Frozen
  PROVE  /\ Grouping => Grouping'
         /\ \A s, g, id : Made(s, g, id) => Made(s, g, id)'
<1>1. Grouping => Grouping'
  BY DEF Frozen, Grouping, Kept
<1>2. \A s, g, id : Made(s, g, id) => Made(s, g, id)'
  BY DEF Frozen, Made, View
<1> QED
  BY <1>1, <1>2

\* An entry stays accounted for when samples and errors are added.
LEMMA TreatedKept ==
  ASSUME Frozen, samples \subseteq samples', errs \subseteq errs', NEW g, NEW id, Treated(g, id)
  PROVE  Treated(g, id)'
<1>1. CASE g # "namespace" /\ \E ns \in NamespacesOf(groups[g][id]) : ns \notin allowed
  BY <1>1 DEF Frozen, Treated
<1>2. CASE <<g, id>> \in errs
  BY <1>2 DEF Treated
<1>3. CASE /\ UnitsOf(groups, g, id).ok
           /\ \A u \in DOMAIN UnitsOf(groups, g, id).of :
                \E s \in samples : s.group = g /\ s.type = TypeOf(groups, g, id) /\ s.id = u
  <2>1. groups' = groups
    BY DEF Frozen
  <2>2. /\ UnitsOf(groups, g, id).ok
        /\ \A u \in DOMAIN UnitsOf(groups, g, id).of :
             \E s \in samples' : s.group = g /\ s.type = TypeOf(groups, g, id) /\ s.id = u
    BY <1>3
  <2>3. UnitsOf(groups', g, id) = UnitsOf(groups, g, id) /\ TypeOf(groups', g, id) = TypeOf(groups, g, id)
    BY <2>1
  <2> QED
    BY <2>2, <2>3 DEF Treated
<1> QED
  BY <1>1, <1>2, <1>3 DEF Treated

\* Grouping starts with every entry to be populated.
LEMMA GroupStep ==
  ASSUME NEW series \in Responses, NEW listed, NEW listOK \in BOOLEAN, Group(series, listed, listOK)
  PROVE  JobInv'
<1> DEFINE found == {g \in DOMAIN Specs : DOMAIN GroupMetrics(g, series) # {}}
           kept == found \ (IF quotas THEN {} ELSE {"resourcequota"})
           grouped == [g \in kept |-> IF g = "service" /\ listOK
                                        THEN AddSelectors(GroupMetrics(g, series), listed)
                                        ELSE GroupMetrics(g, series)]
<1>1. /\ stage' = "populate" /\ response' = series /\ services' = IF listOK THEN listed ELSE NoMap
      /\ groups' = grouped /\ quotas' = quotas /\ samples' = {}
      /\ todo' = UNION {{<<g, id>> : id \in DOMAIN grouped[g]} : g \in kept}
  BY DEF Group
<1>2. DOMAIN grouped = kept
  OBVIOUS
<1>3. kept = {g \in DOMAIN Specs \ (IF quotas THEN {} ELSE {"resourcequota"}) :
                DOMAIN GroupMetrics(g, series) # {}}
  OBVIOUS
<1>4. \A g \in kept :
         IF g = "service"
           THEN \/ grouped[g] = AddSelectors(GroupMetrics(g, series), services')
                \/ services' = NoMap /\ grouped[g] = GroupMetrics(g, series)
           ELSE grouped[g] = GroupMetrics(g, series)
  BY <1>1
<1> HIDE DEF grouped, kept
<1>5. Grouping'
  BY <1>1, <1>2, <1>3, <1>4 DEF Grouping, Kept
<1>6. \A e \in todo' : e[1] \in DOMAIN groups' /\ e[2] \in DOMAIN groups'[e[1]]
  <2>1. ASSUME NEW e \in todo' PROVE e[1] \in DOMAIN groups' /\ e[2] \in DOMAIN groups'[e[1]]
    <3>1. PICK g \in kept : \E id \in DOMAIN grouped[g] : e = <<g, id>>
      BY <1>1
    <3>2. e[1] = g /\ e[2] \in DOMAIN grouped[g]
      BY <3>1
    <3> QED
      BY <1>1, <1>2, <3>1, <3>2
  <2> QED
    BY <2>1
<1>7. \A g \in DOMAIN groups' : \A id \in DOMAIN groups'[g] : <<g, id>> \in todo'
  BY <1>1, <1>2
<1>8. stage' # "idle" /\ stage' # "done" /\ \A s \in samples' : FALSE
  BY <1>1
<1> QED
  BY <1>5, <1>6, <1>7, <1>8 DEF JobInv

\* Populating an entry accounts for it, and adds only samples of it.
LEMMA EntryStep ==
  ASSUME JobInv, NEW g, NEW id, <<g, id>> \in todo, PopulateEntry(g, id)
  PROVE  JobInv'
<1> DEFINE us == UnitsOf(groups, g, id)
<1>1. /\ stage = "populate" /\ stage' = "populate" /\ todo' = todo \ {<<g, id>>} /\ Frozen
  BY DEF PopulateEntry, Frozen
<1>2. /\ Grouping
      /\ \A s \in samples : s = ClusterSample \/ \E h, k : Made(s, h, k)
      /\ \A e \in todo : e[1] \in DOMAIN groups /\ e[2] \in DOMAIN groups[e[1]]
      /\ \A h \in DOMAIN groups : \A k \in DOMAIN groups[h] : <<h, k>> \in todo \/ Treated(h, k)
  BY <1>1 DEF JobInv
<1>3. g \in DOMAIN groups /\ id \in DOMAIN groups[g]
  <2>1. <<g, id>>[1] = g /\ <<g, id>>[2] = id
    OBVIOUS
  <2> QED
    BY <1>2, <2>1
<1>4. groups' = groups /\ allowed' = allowed
  BY <1>1 DEF Frozen
<1>5. /\ samples \subseteq samples' /\ errs \subseteq errs' /\ Treated(g, id)'
      /\ \A s \in samples' : s \in samples \/ Made(s, g, id)
  <2>1. CASE Skip(g, id)
    <3>1. samples' = samples /\ errs' = errs
      BY <2>1 DEF Skip
    <3>2. Treated(g, id)
      BY <2>1 DEF Skip, Treated
    <3> QED
      BY <1>1, <3>1, <3>2, TreatedKept
  <2>2. CASE UnitsFail(g, id)
    <3>1. samples' = samples /\ errs' = errs \cup {<<g, id>>}
      BY <2>2 DEF UnitsFail
    <3>2. Treated(g, id)'
      BY <3>1 DEF Treated
    <3> QED
      BY <3>1, <3>2
  <2>3. CASE ProcessEntities(g, id)
    <3> DEFINE Sets(u) == MetricSetPopulate((g :> (id :> us.of[u])) @@ groups, g, id)
    <3>1. PICK ns \in NamespacesOf(groups[g][id]) :
           /\ g # "namespace" => ns \in allowed
           /\ us.ok
           /\ \E ms \in [DOMAIN us.of -> UNION {Sets(u) : u \in DOMAIN us.of}] :
                /\ \A u \in DOMAIN us.of : ms[u] \in Sets(u)
                /\ samples' = samples \cup
                      {[group |-> g, type |-> TypeOf(groups, g, id), id |-> u,
                        filtered |-> g = "namespace" /\ ns \notin allowed,
                        attrs |-> ms[u].attrs] : u \in DOMAIN us.of}
                /\ errs' = errs \cup {<<g, id>> : u \in {v \in DOMAIN us.of : ms[v].failed # {}}}
      BY <2>3 DEF ProcessEntities
    <3>2. PICK ms :
                /\ \A u \in DOMAIN us.of : ms[u] \in Sets(u)
                /\ samples' = samples \cup
                      {[group |-> g, type |-> TypeOf(groups, g, id), id |-> u,
                        filtered |-> g = "namespace" /\ ns \notin allowed,
                        attrs |-> ms[u].attrs] : u \in DOMAIN us.of}
                /\ errs' = errs \cup {<<g, id>> : u \in {v \in DOMAIN us.of : ms[v].failed # {}}}
      BY <3>1
    <3> DEFINE New(u) == [group |-> g, type |-> TypeOf(groups, g, id), id |-> u,
                          filtered |-> g = "namespace" /\ ns \notin allowed, attrs |-> ms[u].attrs]
    <3>3. samples' = samples \cup {New(u) : u \in DOMAIN us.of} /\ errs \subseteq errs'
      BY <3>2
    <3>4. \A u : /\ New(u).group = g /\ New(u).type = TypeOf(groups, g, id) /\ New(u).id = u
                 /\ New(u).attrs = ms[u].attrs
      OBVIOUS
    <3>5. \A u \in DOMAIN us.of : ms[u] \in MetricSetPopulate(View(g, id, us.of[u]), g, id)
      BY <3>2 DEF View
    <3> HIDE DEF New, Sets, us
    <3>6. ASSUME NEW u \in DOMAIN us.of PROVE Made(New(u), g, id)
      <4>1. New(u).id \in DOMAIN us.of /\ New(u).group = g /\ New(u).type = TypeOf(groups, g, id)
        BY <3>4
      <4>2. \E x \in MetricSetPopulate(View(g, id, us.of[New(u).id]), g, id) : New(u).attrs = x.attrs
        BY <3>4, <3>5
      <4>3. g # "namespace" => \E n2 \in NamespacesOf(groups[g][id]) : n2 \in allowed
        BY <3>1
      <4> QED
        BY <1>3, <3>1, <4>1, <4>2, <4>3 DEF Made, us
    <3>7. \A s \in samples' : s \in samples \/ Made(s, g, id)
      BY <3>3, <3>6
    <3>8. Treated(g, id)'
      <4>1. us.ok /\ \A u \in DOMAIN us.of :
              \E s \in samples' : s.group = g /\ s.type = TypeOf(groups, g, id) /\ s.id = u
        BY <3>1, <3>3, <3>4
      <4>2. UnitsOf(groups', g, id) = us /\ TypeOf(groups', g, id) = TypeOf(groups, g, id)
        BY <1>4 DEF us
      <4> QED
        BY <4>1, <4>2 DEF Treated
    <3> QED
      BY <3>3, <3>7, <3>8
  <2> QED
    BY <2>1, <2>2, <2>3 DEF PopulateEntry
<1>6. Grouping' /\ \A s, h, k : Made(s, h, k) => Made(s, h, k)'
  BY <1>1, <1>2, FrozenKeeps
<1>7. \A s \in samples' : s = ClusterSample \/ \E h, k : Made(s, h, k)'
  BY <1>2, <1>5, <1>6
<1>8. \A e \in todo' : e[1] \in DOMAIN groups' /\ e[2] \in DOMAIN groups'[e[1]]
  BY <1>1, <1>2, <1>4
<1>9. ASSUME NEW h \in DOMAIN groups', NEW k \in DOMAIN groups'[h], <<h, k>> \notin todo'
      PROVE  Treated(h, k)'
  <2>1. CASE <<h, k>> = <<g, id>>
    BY <1>5, <2>1
  <2>2. CASE <<h, k>> # <<g, id>>
    <3>1. <<h, k>> \notin todo /\ h \in DOMAIN groups /\ k \in DOMAIN groups[h]
      BY <1>1, <1>4, <1>9, <2>2
    <3> QED
      BY <1>1, <1>2, <1>5, <3>1, TreatedKept
  <2> QED
    BY <2>1, <2>2
<1> QED
  BY <1>1, <1>6, <1>7, <1>8, <1>9 DEF JobInv

\* The end adds at most the sample of the cluster.
LEMMA FinishStep ==
  ASSUME JobInv, Finish
  PROVE  JobInv'
<1>1. /\ stage = "populate" /\ stage' = "done" /\ todo = {} /\ todo' = {} /\ Frozen
      /\ samples \subseteq samples' /\ errs \subseteq errs'
      /\ \A s \in samples' : s \in samples \/ s = ClusterSample
  BY DEF Finish, Frozen
<1>2. /\ Grouping
      /\ \A s \in samples : s = ClusterSample \/ \E h, k : Made(s, h, k)
      /\ \A h \in DOMAIN groups : \A k \in DOMAIN groups[h] : Treated(h, k)
  BY <1>1 DEF JobInv
<1>3. Grouping' /\ \A s, h, k : Made(s, h, k) => Made(s, h, k)'
  BY <1>1, <1>2, FrozenKeeps
<1>4. \A s \in samples' : s = ClusterSample \/ \E h, k : Made(s, h, k)'
  BY <1>1, <1>2, <1>3
<1>5. \A h \in DOMAIN groups' : \A k \in DOMAIN groups'[h] : Treated(h, k)'
  <2>1. groups' = groups
    BY <1>1 DEF Frozen
  <2> QED
    BY <1>1, <1>2, <2>1, TreatedKept
<1> QED
  BY <1>1, <1>3, <1>4, <1>5 DEF JobInv

\* Every step preserves the invariant.
LEMMA JobStep ==
  ASSUME JobInv, [PopulateNext]_populateVars
  PROVE  JobInv'
<1>1. CASE QueryFails
  BY <1>1 DEF QueryFails, JobInv
<1>2. CASE \E series \in Responses, listed \in Listings, listOK \in BOOLEAN : Group(series, listed, listOK)
  BY <1>2, GroupStep
<1>3. CASE \E e \in todo : PopulateEntry(e[1], e[2])
  <2>1. PICK e \in todo : PopulateEntry(e[1], e[2])
    BY <1>3
  <2>2. <<e[1], e[2]>> \in todo
    BY <2>1 DEF PopulateEntry
  <2> QED
    BY <2>1, <2>2, EntryStep
<1>4. CASE Finish
  BY <1>4, FinishStep
<1>5. CASE NextScrape
  BY <1>5 DEF NextScrape, JobInv
<1>6. CASE UNCHANGED populateVars
  <2>1. Frozen /\ samples' = samples /\ errs' = errs /\ todo' = todo /\ stage' = stage /\ groups' = groups
    BY <1>6 DEF populateVars, Frozen
  <2>2. CASE stage = "idle"
    BY <2>1, <2>2 DEF JobInv
  <2>3. CASE stage # "idle"
    <3>1. /\ Grouping /\ (stage = "done" => todo = {})
          /\ \A s \in samples : s = ClusterSample \/ \E h, k : Made(s, h, k)
          /\ \A e \in todo : e[1] \in DOMAIN groups /\ e[2] \in DOMAIN groups[e[1]]
          /\ \A h \in DOMAIN groups : \A k \in DOMAIN groups[h] : <<h, k>> \in todo \/ Treated(h, k)
      BY <2>3 DEF JobInv
    <3>2. Grouping' /\ \A s, h, k : Made(s, h, k) => Made(s, h, k)'
      BY <2>1, <3>1, FrozenKeeps
    <3>3. \A h, k : Treated(h, k) => Treated(h, k)'
      BY <2>1, TreatedKept
    <3> QED
      BY <2>1, <2>3, <3>1, <3>2, <3>3 DEF JobInv
  <2> QED
    BY <2>2, <2>3
<1> QED
  BY <1>1, <1>2, <1>3, <1>4, <1>5, <1>6 DEF PopulateNext

\* The invariant of a job.
LEMMA KSMJob == PopulateSpec => []JobInv
<1>1. PopulateInit => JobInv
  BY DEF PopulateInit, JobInv
<1>2. JobInv /\ [PopulateNext]_populateVars => JobInv'
  BY JobStep
<1> QED
  BY <1>1, <1>2, PTL DEF PopulateSpec

\* A sample that is not the cluster's was made from an entry.
LEMMA MadeSamples ==
  ASSUME JobInv, NEW s \in samples, s.group # "cluster"
  PROVE  stage # "idle" /\ Grouping /\ \E id : Made(s, s.group, id)
<1>1. stage # "idle"
  BY DEF JobInv
<1>2. Grouping /\ (s = ClusterSample \/ \E g, id : Made(s, g, id))
  BY <1>1 DEF JobInv
<1>3. s # ClusterSample
  BY DEF ClusterSample
<1>4. PICK g, id : Made(s, g, id)
  BY <1>2, <1>3
<1>5. s.group = g
  BY <1>4 DEF Made
<1> QED
  BY <1>1, <1>2, <1>4, <1>5

\* An object that was created has an entry, and its namespace is the one asked
\* about.
LEMMA CreatedHasEntry ==
  ASSUME Grouping, NEW g \in Namespaced, g \in Kept, NEW o \in Names(g)
  PROVE  /\ g \in DOMAIN groups /\ o \in DOMAIN groups[g]
         /\ NamespacesOf(groups[g][o]) = {o[1]} /\ o = <<o[1], o[2]>>
<1> DEFINE f == Created[g]
<1>1. PICK i \in DOMAIN response : /\ response[i].family = f
                                   /\ o = <<Label(response[i], "namespace"), Label(response[i], g)>>
  BY DEF Names
<1>2. f \in DOMAIN Describes /\ Describes[f] = g /\ f # Selectors
  BY DescribesFacts, NamespacedFacts
<1>3. i \in Held(g, o, f)
  <2>1. Held(g, o, f) = {j \in DOMAIN response : response[j].family = f /\ RawEntityID(g, response[j]) = o}
    BY <1>2, HeldDescribes
  <2>2. RawEntityID(g, response[i]) = o
    BY <1>1, NamespacedFacts
  <2> QED
    BY <1>1, <2>1, <2>2
<1>4. g \in DOMAIN groups /\ o \in DOMAIN groups[g]
  BY <1>3, EntriesHold DEF Entries
<1>5. f \in DOMAIN groups[g][o]
  BY <1>2, <1>3, <1>4, EntriesHold DEF Entries, Joins
<1>6. NamespacesOf(groups[g][o]) = {o[1]}
  BY <1>4, <1>5, NamespaceOfEntry
<1>7. o = <<o[1], o[2]>>
  BY <1>1
<1> QED
  BY <1>4, <1>6, <1>7

\* The namespace of a sample is allowed.
LEMMA MadeAllowed ==
  ASSUME Grouping, NEW s, NEW g \in Namespaced, NEW id, Made(s, g, id)
  PROVE  s.type[1] \in allowed
<1>1. g \in DOMAIN groups /\ id \in DOMAIN groups[g] /\ s.type = TypeOf(groups, g, id)
  BY DEF Made
<1>2. TypeOf(groups, g, id) # <<>>
  <2>1. CASE g = "resourcequota"
    BY <2>1, QuotaUnits DEF Made
  <2>2. CASE g # "resourcequota"
    BY <2>2, WholeUnit DEF Made
  <2> QED
    BY <2>1, <2>2
<1>3. Created[g] \in DOMAIN groups[g][id] /\ TypeOf(groups, g, id) = <<id[1], g>>
  BY <1>1, <1>2, TypeAndID
<1>4. NamespacesOf(groups[g][id]) = {id[1]}
  BY <1>1, <1>3, NamespaceOfEntry
<1>5. id[1] \in allowed
  <2>1. g # "namespace"
    BY NamespacedFacts
  <2> QED
    BY <1>4, <2>1 DEF Made
<1> DEFINE x == id[1]
<1>6. s.type = <<x, g>>
  BY <1>1, <1>3
<1> HIDE DEF x
<1>7. s.type[1] = x
  BY <1>6
<1> QED
  BY <1>5, <1>7 DEF x

\* The first two of three names.
LEMMA FirstTwo ==
  ASSUME NEW x, NEW y, NEW z
  PROVE  SubSeq(<<x, y, z>>, 1, 2) = <<x, y>>
<1> DEFINE S == {x, y, z}
           u == <<x, y, z>>
           o == <<x, y>>
<1>1. u \in Seq(S) /\ Len(u) = 3 /\ u[1] = x /\ u[2] = y
  OBVIOUS
<1>2. o \in Seq(S) /\ Len(o) = 2 /\ o[1] = x /\ o[2] = y
  OBVIOUS
<1> HIDE DEF u, o, S
<1>3. SubSeq(u, 1, 2) = [i \in 1..2 |-> u[i]]
  BY <1>1
<1>4. o = [i \in 1..2 |-> o[i]]
  BY <1>2
<1>5. \A i \in 1..2 : u[i] = o[i]
  BY <1>1, <1>2
<1>6. SubSeq(u, 1, 2) = o
  BY <1>3, <1>4, <1>5
<1> QED
  BY <1>6 DEF u, o

\* An object in an allowed namespace whose units were made has a sample.
LEMMA SampleOf ==
  ASSUME Grouping, NEW g \in Namespaced, g \in DOMAIN groups, NEW o \in DOMAIN groups[g],
         UnitsOf(groups, g, o).ok,
         \A u \in DOMAIN UnitsOf(groups, g, o).of :
            \E s \in samples : s.group = g /\ s.type = TypeOf(groups, g, o) /\ s.id = u
  PROVE  \E s \in SamplesOf(g, o[1]) :
           s.id = <<o[2]>> \/ (g = "resourcequota" /\ SubSeq(s.id, 1, 2) = o)
<1> DEFINE us == UnitsOf(groups, g, o)
<1>1. CASE g # "resourcequota"
  <2>1. TypeOf(groups, g, o) # <<>> /\ DOMAIN us.of = {<<o[2]>>}
    BY <1>1, WholeUnit
  <2>2. TypeOf(groups, g, o) = <<o[1], g>>
    BY <2>1, TypeAndID
  <2>3. PICK s \in samples : s.group = g /\ s.type = TypeOf(groups, g, o) /\ s.id = <<o[2]>>
    BY <2>1
  <2> QED
    BY <2>2, <2>3 DEF SamplesOf
<1>2. CASE g = "resourcequota"
  <2>1. /\ TypeOf(groups, g, o) # <<>> /\ DOMAIN us.of # {}
        /\ \A u \in DOMAIN us.of : \E r : u = <<o[1], o[2], r>>
    BY <1>2, QuotaUnits
  <2>2. TypeOf(groups, g, o) = <<o[1], g>> /\ o = <<o[1], o[2]>>
    BY <2>1, TypeAndID
  <2>3. PICK u \in DOMAIN us.of : TRUE
    BY <2>1
  <2>4. PICK r : u = <<o[1], o[2], r>>
    BY <2>1
  <2>5. PICK s \in samples : s.group = g /\ s.type = TypeOf(groups, g, o) /\ s.id = u
    OBVIOUS
  <2>6. SubSeq(u, 1, 2) = o
    <3> DEFINE x == o[1]
               y == o[2]
    <3>1. u = <<x, y, r>> /\ o = <<x, y>>
      BY <2>2, <2>4
    <3> HIDE DEF x, y
    <3> QED
      BY <3>1, FirstTwo
  <2> QED
    BY <1>2, <2>2, <2>5, <2>6 DEF SamplesOf
<1> QED
  BY <1>1, <1>2

\* The invariant implies that every object is accounted for.
LEMMA Accounted ==
  ASSUME JobInv
  PROVE  EveryObjectAccounted
<1> SUFFICES ASSUME stage = "done",
                    NEW g \in DOMAIN Specs \ ({"namespace"} \cup (IF quotas THEN {} ELSE {"resourcequota"})),
                    NEW o \in Names(g)
             PROVE  LET mine == {s \in SamplesOf(g, o[1]) :
                                    s.id = <<o[2]>> \/ (g = "resourcequota" /\ SubSeq(s.id, 1, 2) = o)}
                    IN IF o[1] \in allowed THEN mine # {} \/ <<g, o>> \in errs ELSE mine = {}
  BY DEF EveryObjectAccounted
<1> DEFINE mine == {s \in SamplesOf(g, o[1]) :
                       s.id = <<o[2]>> \/ (g = "resourcequota" /\ SubSeq(s.id, 1, 2) = o)}
<1>1. g \in Namespaced /\ g \in Kept
  BY NamespacedFacts DEF Kept
<1>2. Grouping /\ todo = {} /\ stage # "idle"
  BY DEF JobInv
<1>3. /\ g \in DOMAIN groups /\ o \in DOMAIN groups[g]
      /\ NamespacesOf(groups[g][o]) = {o[1]} /\ o = <<o[1], o[2]>>
  BY <1>1, <1>2, CreatedHasEntry
<1>4. Treated(g, o)
  BY <1>2, <1>3 DEF JobInv
<1>5. ASSUME o[1] \in allowed, <<g, o>> \notin errs PROVE mine # {}
  <2>1. /\ UnitsOf(groups, g, o).ok
        /\ \A u \in DOMAIN UnitsOf(groups, g, o).of :
             \E s \in samples : s.group = g /\ s.type = TypeOf(groups, g, o) /\ s.id = u
    BY <1>3, <1>4, <1>5 DEF Treated
  <2>2. \E s \in SamplesOf(g, o[1]) :
           s.id = <<o[2]>> \/ (g = "resourcequota" /\ SubSeq(s.id, 1, 2) = o)
    BY <1>1, <1>2, <1>3, <2>1, SampleOf
  <2> QED
    BY <2>2
<1>6. ASSUME o[1] \notin allowed, NEW s \in mine PROVE FALSE
  <2>1. s \in samples /\ s.group = g /\ s.type = <<o[1], g>>
    BY <1>6 DEF SamplesOf
  <2>2. g # "cluster"
    BY <1>1 DEF Namespaced
  <2>3. PICK id : Made(s, g, id)
    BY <2>1, <2>2, MadeSamples
  <2>4. s.type[1] \in allowed
    BY <1>1, <1>2, <2>3, MadeAllowed
  <2> DEFINE x == o[1]
  <2>5. s.type = <<x, g>>
    BY <2>1
  <2> HIDE DEF x
  <2>6. s.type[1] = x
    BY <2>5
  <2> QED
    BY <1>6, <2>4, <2>6 DEF x
<1> HIDE DEF mine
<1>7. IF o[1] \in allowed THEN mine # {} \/ <<g, o>> \in errs ELSE mine = {}
  BY <1>5, <1>6
<1> QED
  BY <1>7 DEF mine

\* For whatever KSM answers and in whatever order the entries are populated,
\* IntegrationPopulator leaves no created object out: it is skipped with its
\* namespace, or has a sample, or an error.
THEOREM KSMObjectsAccounted == PopulateSpec => []EveryObjectAccounted
BY KSMJob, Accounted, PTL

\* prepareProcessingUnits and splitGroup give each resource of a quota its own
\* sample, with the values of its own series, for any quotas, however many
\* resources they have and however their series are mixed.
THEOREM KSMQuotasSplit == PopulateSpec => []QuotaSplitByResource
<1>1. JobInv => QuotaSplitByResource
  <2> SUFFICES ASSUME JobInv, NEW s \in samples, s.group = "resourcequota"
               PROVE  LET own == {i \in SeriesOf("kube_resourcequota", s.type[1], "resourcequota", s.id[2]) :
                                     Label(response[i], "resource") = s.id[3]}
                          types == {Label(response[i], "type") : i \in own}
                      IN /\ s.id[1] = s.type[1] /\ types # {}
                         /\ s.attrs[<<"resource">>] = Txt(s.id[3])
                         /\ {a \in DOMAIN s.attrs : a \in {<<"hard">>, <<"used">>}} = {<<t>> : t \in types}
                         /\ \A i \in own : s.attrs[<<Label(response[i], "type")>>] = Num(response[i].value)
    BY DEF QuotaSplitByResource
  <2>1. Grouping /\ \E id : Made(s, "resourcequota", id)
    BY MadeSamples
  <2> QED
    BY <2>1, QuotaOfSample
<1> QED
  BY <1>1, KSMJob, PTL

\* The labels of a deployment win over those of its namespace, whichever metric
\* InheritAllLabelsFrom happened to pick, for any labels.
THEOREM KSMLabelsNearest == PopulateSpec => []LabelsOfNearest
<1>1. JobInv => LabelsOfNearest
  <2> SUFFICES ASSUME JobInv, NEW s \in samples, s.group = "deployment"
               PROVE  LET own == SeriesOf("kube_deployment_labels", s.type[1], "deployment", s.id[1])
                          ns == SeriesOf("kube_namespace_labels", s.type[1], "namespace", s.type[1])
                          Labels(of) == UNION {{<<Prefixed("label", l), Txt(response[i].labels[l])>> :
                                                   l \in DOMAIN response[i].labels} : i \in of}
                          Attrs(of) == {x[1] : x \in Labels(of)}
                      IN /\ {a \in DOMAIN s.attrs : a[1] = "label"} = Attrs(own) \cup Attrs(ns)
                         /\ \A a \in Attrs(own) : <<a, s.attrs[a]>> \in Labels(own)
                         /\ \A a \in Attrs(ns) \ Attrs(own) : <<a, s.attrs[a]>> \in Labels(ns)
    BY DEF LabelsOfNearest
  <2>1. Grouping /\ \E id : Made(s, "deployment", id)
    BY MadeSamples
  <2> QED
    BY <2>1, NearestOfSample
<1> QED
  BY <1>1, KSMJob, PTL

\* Every selector of a listed service is in its sample, and no other, whichever
\* metric InheritAllSelectorsFrom happened to pick, for any selectors.
THEOREM KSMSelectors == PopulateSpec => []SelectorsReported
<1>1. JobInv => SelectorsReported
  <2> SUFFICES ASSUME JobInv, NEW s \in samples, s.group = "service",
                      <<s.type[1], s.id[1]>> \in DOMAIN services
               PROVE  LET selector == services[<<s.type[1], s.id[1]>>]
                      IN /\ {a \in DOMAIN s.attrs : a[1] = "selector"} = {<<"selector", k>> : k \in DOMAIN selector}
                         /\ \A k \in DOMAIN selector : s.attrs[<<"selector", k>>] = Txt(selector[k])
    BY DEF SelectorsReported
  <2>1. Grouping /\ \E id : Made(s, "service", id)
    BY MadeSamples
  <2> QED
    BY <2>1, SelectorsOfSample
<1> QED
  BY <1>1, KSMJob, PTL
=============================================================================
