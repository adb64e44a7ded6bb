--------------------------- MODULE NamespaceFilter ---------------------------
(***************************************************************************)
(* discovery.CachedNamespaceFilter over discovery.NamespaceFilter.  Each   *)
(* filter reads the store of its own namespace informer, which another     *)
(* goroutine updates at any time; all filters share one in-memory cache of *)
(* verdicts, emptied by Vacuum.  Calls come from the main goroutine only,  *)
(* one at a time, but a MatchExpressions call reads the store once per     *)
(* expression, so an update can fall between two reads.                    *)
(*                                                                         *)
(* A version is a set of labels a namespace can have; a requirement is the *)
(* set of versions that satisfy it and whether it could be parsed.         *)
(***************************************************************************)
EXTENDS Naturals, Sequences

CONSTANTS Namespaces, Versions,
          Absent,            \* the namespace is not in the store
          Filters,           \* one NamespaceFilter per scraper
          HasMatchLabels,    \* c.MatchLabels != nil
          MatchLabels,       \* its pairs
          MatchExpressions   \* c.MatchExpressions, in order

Requirements == [ok : BOOLEAN, match : SUBSET Versions]

ASSUME SelectorAssumption ==
    /\ Absent \notin Versions
    /\ HasMatchLabels \in BOOLEAN
    /\ MatchLabels \subseteq Requirements
    /\ MatchExpressions \in Seq(Requirements)

VARIABLES store,   \* informer stores
          cache,   \* NamespaceInMemoryStore.cache
          call,    \* the IsAllowed call under way
          seen     \* history: the versions in any store since the last Vacuum

filterVars == <<store, cache, call, seen>>

Stored == Versions \cup {Absent}

\* parseToStringMap drops the pairs whose value is not a string.
ParseToStringMap == {r \in MatchLabels : r.ok}

\* Membership in lister.List(SelectorFromSet(...)): an empty selector selects
\* every namespace there is.
MatchNamespaceByLabels(v) == v # Absent /\ \A r \in ParseToStringMap : v \in r.match

Idle == [at |-> "idle"]
Calls ==
    {Idle} \cup [at : {"eval"}, filter : Filters, ns : Namespaces, expr : 1..(Len(MatchExpressions) + 1)]
           \cup [at : {"done"}, ns : Namespaces, answer : BOOLEAN]

Answered(ns, b) == [at |-> "done", ns |-> ns, answer |-> b]

EmptyCache == [ns \in {} |-> FALSE]
Put(ns, b) == cache' = [n \in DOMAIN cache \cup {ns} |-> IF n = ns THEN b ELSE cache[n]]

FilterInit ==
    /\ store \in [Filters -> [Namespaces -> Stored]]
    /\ cache = EmptyCache
    /\ call = Idle
    /\ seen = [ns \in Namespaces |-> {store[f][ns] : f \in Filters}]

-----------------------------------------------------------------------------
\* CachedNamespaceFilter.IsAllowed is entered: a hit answers at once.
Ask(f, ns) ==
    /\ call = Idle
    /\ call' = IF ns \in DOMAIN cache
               THEN Answered(ns, cache[ns])
               ELSE [at |-> "eval", filter |-> f, ns |-> ns, expr |-> 1]
    /\ UNCHANGED <<store, cache, seen>>

\* Mutant of Decide: only positive verdicts are cached.
DecideCachesAllowed(b) ==
    /\ IF b THEN Put(call.ns, b) ELSE UNCHANGED cache
    /\ call' = Answered(call.ns, b)
    /\ UNCHANGED <<store, seen>>

\* The filter answered b: the verdict is cached and returned.
Decide(b) ==
    /\ Put(call.ns, b)
    /\ call' = Answered(call.ns, b)
    /\ UNCHANGED <<store, seen>>

Current == store[call.filter][call.ns]

\* MatchLabels takes precedence over MatchExpressions.
EvalLabels ==
    /\ call.at = "eval" /\ HasMatchLabels
    /\ Decide(MatchNamespaceByLabels(Current))

\* One iteration of matchNamespaceByExpressions: an expression that cannot be
\* parsed allows the namespace, one that does not select it rejects it.
EvalExpression ==
    /\ call.at = "eval" /\ ~HasMatchLabels
    /\ call.expr <= Len(MatchExpressions)
    /\ LET r == MatchExpressions[call.expr] IN
        IF r.ok /\ Current \in r.match
        THEN /\ call' = [call EXCEPT !.expr = @ + 1]
             /\ UNCHANGED <<store, cache, seen>>
        ELSE Decide(~r.ok)

\* The loop ran out of expressions, or there were none.
EvalEnd ==
    /\ call.at = "eval" /\ ~HasMatchLabels
    /\ call.expr > Len(MatchExpressions)
    /\ Decide(TRUE)

Evaluate == EvalLabels \/ EvalExpression \/ EvalEnd

\* Mutant of Vacuum: the map is not replaced.
VacuumKeeps ==
    /\ call = Idle
    /\ seen' = [ns \in Namespaces |-> {store[f][ns] : f \in Filters}]
    /\ UNCHANGED <<store, cache, call>>

\* NamespaceInMemoryStore.Vacuum.  The history restarts from what the stores
\* hold now.
Vacuum ==
    /\ call = Idle
    /\ cache' = EmptyCache
    /\ seen' = [ns \in Namespaces |-> {store[f][ns] : f \in Filters}]
    /\ UNCHANGED <<store, call>>

\* The informer goroutine of filter f applies a watch event or a resync.
InformerUpdate(f, ns, v) ==
    /\ v # store[f][ns]
    /\ store' = [store EXCEPT ![f][ns] = v]
    /\ seen' = [seen EXCEPT ![ns] = @ \cup {v}]
    /\ UNCHANGED <<cache, call>>

\* The caller takes the answer.
Answer ==
    /\ call.at = "done"
    /\ call' = Idle
    /\ UNCHANGED <<store, cache, seen>>

FilterNext ==
    \/ \E f \in Filters, ns \in Namespaces : Ask(f, ns)
    \/ Evaluate \/ Answer \/ Vacuum
    \/ \E f \in Filters, ns \in Namespaces, v \in Stored : InformerUpdate(f, ns, v)

FilterSpec == FilterInit /\ [][FilterNext]_filterVars

-----------------------------------------------------------------------------
(* Properties *)

FilterTypeOK ==
    /\ store \in [Filters -> [Namespaces -> Stored]]
    /\ DOMAIN cache \subseteq Namespaces /\ cache \in [DOMAIN cache -> BOOLEAN]
    /\ call \in Calls
    /\ seen \in [Namespaces -> SUBSET Stored]

\* The verdict the selector gives a namespace in version v: the reference the
\* step-by-step evaluation is compared with.  Expressions after one that
\* cannot be parsed are ignored.
Effective(i) == \A j \in 1..i : MatchExpressions[j].ok
Allowed(v) ==
    IF HasMatchLabels THEN MatchNamespaceByLabels(v)
    ELSE \A i \in 1..Len(MatchExpressions) : Effective(i) => v \in MatchExpressions[i].match

\* A cached verdict is backed by versions seen since the last Vacuum.  A
\* rejection means some version seen is rejected; an acceptance means every
\* effective requirement held of some version seen, though not necessarily of
\* the same one when labels change during the call.  When the namespace did
\* not change, the verdict is exactly the selector's.
VerdictsAreFresh ==
    \A ns \in DOMAIN cache :
        IF cache[ns]
        THEN IF HasMatchLabels THEN \E v \in seen[ns] : Allowed(v)
             ELSE \A i \in 1..Len(MatchExpressions) :
                    Effective(i) => \E v \in seen[ns] : v \in MatchExpressions[i].match
        ELSE \E v \in seen[ns] : ~Allowed(v)

\* Until the next Vacuum a namespace is always answered alike: a cached
\* verdict never changes, and it is the one that is returned.
OneVerdictUntilVacuum ==
    /\ call.at = "done" => call.ns \in DOMAIN cache /\ call.answer = cache[call.ns]
    /\ call.at = "eval" => call.ns \notin DOMAIN cache
=============================================================================
