----------------------------- MODULE MCStartUp -----------------------------
EXTENDS StartUp

P(scheme, matches, az, rg) == [scheme |-> scheme, matches |-> matches, az |-> az, rg |-> rg]

\* As the patterns match them, or not: with or without a project, a zone that
\* is a mere letter, node resource groups with an underscore or an empty name.
SomeProviderIDs ==
    {P("gce", TRUE, "zone", <<>>), P("gce", FALSE, "zone", <<>>),
     P("aws", TRUE, "zone", <<>>), P("aws", TRUE, "letter", <<>>), P("aws", FALSE, "letter", <<>>),
     P("azure", TRUE, "region", <<"mc", "other", "other", "other">>),
     P("azure", TRUE, "region", <<"mc", "other", "other", "other", "other">>),
     P("azure", TRUE, "region", <<"mc", "other", "empty", "other">>),
     P("azure", FALSE, "region", <<>>), P("other", FALSE, "region", <<>>)}

Everything ==
    [loads |-> TRUE, selector |-> TRUE, labels |-> {"string"}, expressions |-> <<{"string"}, {"string"}>>,
     sink |-> "http", detect |-> TRUE, scrapers |-> Scrapers]

\* Everything, or KSM alone to stdout; an expression with a boolean, a file
\* that cannot be read, and a sink that does not exist.
SomeConfigs ==
    {Everything,
     [Everything EXCEPT !.scrapers = {"ksm"}, !.selector = FALSE, !.detect = FALSE, !.sink = "stdout"],
     [Everything EXCEPT !.expressions = <<{"string"}, Kinds>>],
     [Everything EXCEPT !.loads = FALSE],
     [Everything EXCEPT !.sink = "other"]}
=============================================================================
