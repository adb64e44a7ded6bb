-------------------------------- MODULE MCKSM --------------------------------
(***************************************************************************)
(* The three parts of a KSM scrape: ksm.Scraper.Run, one call of           *)
(* GetFilteredMetricFamilies and one job with its populator.  They share   *)
(* no variable, so each is followed in behaviours of its own while the     *)
(* other two stand still.                                                  *)
(***************************************************************************)
EXTENDS MCKSMScraper, MCPromFetch, MCKSMPopulate

VARIABLE part   \* the part that is followed

all == <<part, vars, fetchVars, populateVars>>

\* States in which a part stands still: a Run with no endpoint to find, a call
\* that has failed and a job that has not begun.
RunRests == Init /\ config = Config(NoURL, 8080, FALSE) /\ slices = {} /\ up = {}
FetchRests ==
    /\ resp = [kind |-> "badURL", matching |-> {}, readErr |-> FALSE]
    /\ cpc = "returned" /\ gpc = "none" /\ outcome = "err"
    /\ unsent = {} /\ perr = FALSE /\ closed = FALSE /\ err = FALSE
    /\ metrics = [q \in Queries |-> 0]
    /\ ScanInit /\ body = <<>>
PopulateRests == PopulateInit /\ quotas = FALSE

KSMInit ==
    \/ part = "run" /\ Init /\ FetchRests /\ PopulateRests
    \/ part = "fetch" /\ FetchInit /\ RunRests /\ PopulateRests
    \/ part = "populate" /\ PopulateInit /\ RunRests /\ FetchRests

OfRun(Step) == part = "run" /\ Step /\ UNCHANGED <<part, fetchVars, populateVars>>
OfFetch(Step) == part = "fetch" /\ Step /\ UNCHANGED <<part, vars, populateVars>>
OfPopulate(Step) == part = "populate" /\ Step /\ UNCHANGED <<part, vars, fetchVars>>

KSMNext == OfRun(Next) \/ OfFetch(FetchNext) \/ OfPopulate(PopulateNext)

\* The fairness of FairSpec and FairFetch.
KSMSpec ==
    /\ KSMInit /\ [][KSMNext]_all
    /\ WF_all(OfRun(Run)) /\ WF_all(OfRun(StartRun))
    /\ WF_all(OfFetch(Caller)) /\ WF_all(OfFetch(Parser)) /\ WF_all(OfFetch(Exchange))
==============================================================================
