------------------------------- MODULE Reports -------------------------------
(***************************************************************************)
(* What the integration promises of its reports: a report is sent whole    *)
(* and once, everything in it was gathered for it, and all that it says of *)
(* a namespace follows one verdict.  How the verdict is reached, by which  *)
(* scraper, and in which order subjects are gathered is left open.         *)
(***************************************************************************)
CONSTANTS Namespaces, NoNamespace,
          Subjects,    \* what can be reported, each with its kind and ns
          HasSelector  \* namespaces are selected at all

VARIABLES verdict,  \* the namespaces decided so far, and how
          held,     \* what was gathered for the next report
          sent      \* the last report

vars == <<verdict, held, sent>>

Entries == [entity : Subjects, filtered : BOOLEAN]
Undecided == [ns \in {} |-> FALSE]

Init == verdict = Undecided /\ held = {} /\ sent = {}

Decide(ns, b) ==
    /\ ns \notin DOMAIN verdict
    /\ verdict' = [n \in DOMAIN verdict \cup {ns} |-> IF n = ns THEN b ELSE verdict[n]]
    /\ UNCHANGED <<held, sent>>

\* A namespace that is left out still has its own entry, which says so.
Agrees(s) ==
    /\ s.filtered => s.entity.kind = "namespace"
    /\ IF s.entity.ns = NoNamespace \/ ~HasSelector
       THEN ~s.filtered
       ELSE s.entity.ns \in DOMAIN verdict /\ s.filtered = ~verdict[s.entity.ns]

Hold(s) == Agrees(s) /\ held' = held \cup {s} /\ UNCHANGED <<verdict, sent>>

Send == sent' = held /\ held' = {} /\ UNCHANGED verdict

\* The report did not reach anybody.
Lose == sent' = {} /\ held' = {} /\ UNCHANGED verdict

\* Verdicts last as long as anything is held that they decided.
Forget == held = {} /\ verdict' = Undecided /\ UNCHANGED <<held, sent>>

\* The last report is over.
Begin == sent' = {} /\ UNCHANGED <<verdict, held>>

\* The process ended and starts again.
Crash == verdict' = Undecided /\ held' = {} /\ sent' = {}

Next ==
    \/ \E ns \in Namespaces, b \in BOOLEAN : Decide(ns, b)
    \/ \E s \in Entries : Hold(s)
    \/ Send \/ Lose \/ Forget \/ Begin \/ Crash

Spec == Init /\ [][Next]_vars
=============================================================================
