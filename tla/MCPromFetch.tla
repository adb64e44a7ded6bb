----------------------------- MODULE MCPromFetch -----------------------------
EXTENDS PromFetch

CONSTANTS f1, f2, f3, q1, q2, q3

\* Two queries share a family, as the cAdvisor queries do; f3 is queried by none.
MCMetricName == [q \in {q1, q2, q3} |-> IF q = q3 THEN f2 ELSE f1]

L(kind, name) == [kind |-> kind, name |-> name]

\* Groups of lines: supported families, unsupported ones with HELP on either
\* side of TYPE, broken ones, and samples that nothing announces.
Groups ==
    {<<L("HELP", f1), L("TYPE", f1), L("sample", f1)>>,
     <<L("TYPE", f2), L("sample", f2), L("blank", f2)>>,
     <<L("HELP", f2), L("INFO", f2), L("sample", f2), L("malformed", f2)>>,
     <<L("INFO", f3), L("HELP", f3), L("comment", f3), L("malformed", f3)>>,
     <<L("HELP", f3), L("sample", f3), L("malformed", f3)>>,
     <<L("BADTYPE", f3), L("sample", f3)>>,
     <<L("sample", f1)>>}

\* Up to three groups, of different families.
About(g) == g[1].name
MCBodies ==
    {<<>>} \cup Groups
    \cup {p[1] \o p[2] : p \in {q \in Groups \X Groups : About(q[1]) # About(q[2])}}
    \cup {p[1] \o p[2] \o p[3] :
            p \in {q \in Groups \X Groups \X Groups : {About(q[1]), About(q[2]), About(q[3])} = Families}}
=============================================================================
