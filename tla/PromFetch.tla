------------------------------ MODULE PromFetch ------------------------------
(***************************************************************************)
(* One call of prometheus.GetFilteredMetricFamilies: the HTTP exchange,    *)
(* the goroutine that runs parseResponse and the caller that ranges over   *)
(* the unbuffered channel, applies the queries and then looks at the error *)
(* variable that the goroutine writes without synchronisation.             *)
(*                                                                         *)
(* The body is filtered line by line (MetricsFilter) and then parsed.      *)
(* What a query keeps of a family is reduced to whether the result is      *)
(* valid (a metric of the family passed the query's label and value        *)
(* conditions).                                                            *)
(***************************************************************************)
EXTENDS MetricsFilter

CONSTANTS Queries,     \* the queries of the caller
          MetricName   \* Query.MetricName, the family each query is about

ASSUME MetricNameAssumption == MetricName \in [Queries -> Families]

VARIABLES resp,    \* what the endpoint answers (fixed for the call)
          cpc,     \* control of the calling goroutine
          gpc,     \* control of the parsing goroutine
          unsent,  \* families parsed and not yet sent on ch
          perr,    \* parseResponse returns an error
          closed,  \* ch is closed
          err,     \* the variable err is non-nil, shared by both goroutines
          metrics, \* the slice metrics: how often each query's result is in it
          outcome  \* what the caller gets

callVars == <<resp, cpc, gpc, unsent, perr, closed, err, metrics, outcome>>
fetchVars == <<callVars, body, scanVars>>

Kinds == {"badURL", "doErr", "nilResp", "notOK", "ok"}

\* An answer besides its body.  matching: the queries whose conditions some
\* metric of their family passes; readErr: the body cannot be read to its end
\* (or has a line over the 1 MiB scanner limit).
Answers == [kind : Kinds, matching : SUBSET Queries, readErr : BOOLEAN]

\* Query.Execute followed by MetricFamily.valid.
Execute(q, f) == MetricName[q] = f /\ q \in resp.matching

\* Query results the caller should hold once it has received the families fs.
Selected(fs) == {q \in Queries : \E f \in fs : Execute(q, f)}

\* The query results present in the slice; it is empty iff len(metrics) = 0.
Kept(m) == {q \in Queries : m[q] > 0}

FetchInit ==
    /\ resp \in Answers
    /\ cpc = "call" /\ gpc = "none"
    /\ unsent = {} /\ perr = FALSE /\ closed = FALSE /\ err = FALSE
    /\ metrics = [q \in Queries |-> 0]
    /\ outcome = "none"
    /\ ScanInit

-----------------------------------------------------------------------------
(* The caller *)

\* GetFilteredMetricFamilies up to the call of handleResponseWithFilter, and
\* that function's own early returns.
FailEarly ==
    /\ cpc = "call" /\ resp.kind # "ok"
    /\ cpc' = "returned" /\ outcome' = "err"
    /\ UNCHANGED <<resp, gpc, unsent, perr, closed, err, metrics, body, scanVars>>

StartParser ==
    /\ cpc = "call" /\ resp.kind = "ok"
    /\ cpc' = "range" /\ gpc' = "scan"
    /\ UNCHANGED <<resp, unsent, perr, closed, err, metrics, outcome, body, scanVars>>

\* A rendezvous on ch: "ch <- mf" meets the range loop, whose body runs every
\* query on the family.  The map of parsed families has no iteration order.
Receive(f) ==
    /\ cpc = "range" /\ gpc = "send" /\ f \in unsent
    /\ unsent' = unsent \ {f}
    /\ metrics' = [q \in Queries |-> IF Execute(q, f) THEN metrics[q] + 1 ELSE metrics[q]]
    /\ UNCHANGED <<resp, cpc, gpc, perr, closed, err, outcome, body, scanVars>>

RangeEnds ==
    /\ cpc = "range" /\ closed
    /\ cpc' = "lenient"
    /\ UNCHANGED <<resp, gpc, unsent, perr, closed, err, metrics, outcome, body, scanVars>>

\* if err != nil && len(metrics) > 0 { err = nil }
Lenient ==
    /\ cpc = "lenient"
    /\ err' = (err /\ Kept(metrics) = {})
    /\ cpc' = "final"
    /\ UNCHANGED <<resp, gpc, unsent, perr, closed, metrics, outcome, body, scanVars>>

\* if err != nil { return nil, err }; return metrics, nil
ReturnFamilies ==
    /\ cpc = "final"
    /\ outcome' = IF err THEN "err" ELSE "ok"
    /\ cpc' = "returned"
    /\ UNCHANGED <<resp, gpc, unsent, perr, closed, err, metrics, body, scanVars>>

-----------------------------------------------------------------------------
(* The goroutine *)

Scan ==
    /\ gpc = "scan" /\ ScanLine
    /\ UNCHANGED callVars

\* The scanner has nothing more, and parseResponse goes on to its send loop.  A
\* read error of the line filter returns before anything is parsed; a parse
\* error keeps the families found so far.
Parse ==
    /\ gpc = "scan" /\ line > Len(body)
    /\ gpc' = "send"
    /\ unsent' = IF resp.readErr THEN {} ELSE ParsedFamilies
    /\ perr' = (resp.readErr \/ ParseFails)
    /\ UNCHANGED <<resp, cpc, closed, err, metrics, outcome, body, scanVars>>

\* Mutant of Close: the channel is closed on the success path only.
CloseUnlessError ==
    /\ gpc = "send" /\ unsent = {}
    /\ closed' = ~perr /\ gpc' = "assign"
    /\ UNCHANGED <<resp, cpc, unsent, perr, err, metrics, outcome, body, scanVars>>

\* The deferred close(ch) of parseResponse.
Close ==
    /\ gpc = "send" /\ unsent = {}
    /\ closed' = TRUE /\ gpc' = "assign"
    /\ UNCHANGED <<resp, cpc, unsent, perr, err, metrics, outcome, body, scanVars>>

\* err = parseResponse(...): the write comes after the close.
AssignErr ==
    /\ gpc = "assign"
    /\ err' = perr /\ gpc' = "done"
    /\ UNCHANGED <<resp, cpc, unsent, perr, closed, metrics, outcome, body, scanVars>>

-----------------------------------------------------------------------------
Caller == FailEarly \/ StartParser \/ RangeEnds \/ Lenient \/ ReturnFamilies
Parser == Scan \/ Parse \/ Close \/ AssignErr
Exchange == \E f \in Families : Receive(f)

\* Both goroutines have run to their end.
Finished ==
    /\ cpc = "returned" /\ gpc \in {"none", "done"}
    /\ UNCHANGED fetchVars

FetchNext == Caller \/ Parser \/ Exchange \/ Finished

FetchSpec == FetchInit /\ [][FetchNext]_fetchVars

\* The Go scheduler runs every runnable goroutine.
FairFetch == FetchSpec /\ WF_fetchVars(Caller) /\ WF_fetchVars(Parser) /\ WF_fetchVars(Exchange)

-----------------------------------------------------------------------------
(* Properties *)

\* Types.  A query's result is in the slice at most once: a family is sent at
\* most once, whatever the order of the goroutines' steps.
TypeOK ==
    /\ ScanTypeOK
    /\ resp \in Answers
    /\ cpc \in {"call", "range", "lenient", "final", "returned"}
    /\ gpc \in {"none", "scan", "send", "assign", "done"}
    /\ unsent \in SUBSET Families
    /\ perr \in BOOLEAN /\ closed \in BOOLEAN /\ err \in BOOLEAN
    /\ metrics \in [Queries -> {0, 1}]
    /\ outcome \in {"none", "ok", "err"}

\* A successful call on a body that could be read returns the result of every
\* query on every supported family up to the first broken line: no family is
\* lost to an unsupported one before it, and the caller never leaves the range
\* loop while the goroutine still has families to send.
CompleteOnSuccess ==
    outcome = "ok" /\ ~resp.readErr /\ Grouped => Kept(metrics) = Selected(Exposed)

\* The caller gets an error only when something failed: the exchange, the
\* reading, or a line of a supported family.  An unsupported type is never the
\* cause.
ErrorsAreGenuine ==
    outcome = "err" /\ Grouped =>
        resp.kind # "ok" \/ resp.readErr \/ \E i \in Numbers : Broken(i)

\* Neither goroutine blocks for ever on the channel: the caller returns and
\* the parsing goroutine ends, so a scrape leaks nothing.
BothEnd == <>[](cpc = "returned" /\ gpc \in {"none", "done"})

\* What the comment on parseResponse promises of a failed parse ("We also
\* return any error that we did come along"): if parsing failed and no metric
\* was kept, the caller learns of it.
ParseErrorReported ==
    cpc = "returned" /\ resp.kind = "ok" /\ (resp.readErr \/ ParseFails) /\ Kept(metrics) = {}
        => outcome = "err"
=============================================================================
