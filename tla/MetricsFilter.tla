---------------------------- MODULE MetricsFilter ----------------------------
(***************************************************************************)
(* filterUnsupportedMetrics: one pass over the lines of a Prometheus text  *)
(* that leaves out the families of a type the parser does not know, so     *)
(* that they do not cost the families after them.                          *)
(*                                                                         *)
(* A line is its kind and the family it is about.  "INFO" is a TYPE line   *)
(* of a type the filter removes (info, stateset), "BADTYPE" one of another *)
(* type that the parser does not know either (gaugehistogram, say).  A     *)
(* TYPE line without a type counts as "TYPE": it ends the skipping and the *)
(* parser passes over it.  "malformed" is a line of data that the parser   *)
(* rejects.                                                                *)
(***************************************************************************)
EXTENDS Naturals, Sequences

CONSTANTS Families,   \* names of metric families
          Bodies,     \* the texts an endpoint may answer, as sequences of lines
          NoName      \* ""

Declarations == {"HELP", "TYPE", "INFO", "BADTYPE"}
Data == {"sample", "malformed"}
Lines == [kind : Declarations \cup Data \cup {"blank", "comment"}, name : Families]

ASSUME FilterAssumption == Bodies \subseteq Seq(Lines) /\ NoName \notin Families

VARIABLES body,                  \* what can be read of the response's body
          line,                  \* number of the line the scanner is at
          skipUntilNextFamily, currentMetricName,
          filteredLines          \* numbers of the lines kept

scanVars == <<line, skipUntilNextFamily, currentMetricName, filteredLines>>

ScanInit ==
    /\ body \in Bodies
    /\ line = 1 /\ skipUntilNextFamily = FALSE /\ currentMetricName = NoName
    /\ filteredLines = {}

At(skip, name) == [skip |-> skip, name |-> name]
Now == At(skipUntilNextFamily, currentMetricName)

\* Mutant of handleTypeDeclaration: a supported type does not end the skipping.
handleTypeDeclarationSticky(l) == IF l.kind = "INFO" THEN At(TRUE, l.name) ELSE Now

handleTypeDeclaration(l) == IF l.kind = "INFO" THEN At(TRUE, l.name) ELSE At(FALSE, NoName)

\* Mutant of handleHelpDeclaration: any HELP line ends the skipping.
handleHelpDeclarationAny(l) == At(FALSE, NoName)

handleHelpDeclaration(l) ==
    IF skipUntilNextFamily /\ currentMetricName # NoName /\ l.name # currentMetricName
    THEN At(FALSE, NoName) ELSE Now

\* The skip state after line l.
Declared(l) ==
    IF l.kind \in {"TYPE", "INFO", "BADTYPE"} THEN handleTypeDeclaration(l)
    ELSE IF l.kind = "HELP" THEN handleHelpDeclaration(l) ELSE Now

\* For a line met while skipping: other comments stay.
shouldSkipLine(l, name) == l.kind \in Data \/ (l.kind = "HELP" /\ l.name = name)

Keeps(l, after) ==
    CASE l.kind = "INFO" -> FALSE
      [] l.kind = "blank" -> ~after.skip
      [] OTHER -> ~(after.skip /\ shouldSkipLine(l, after.name))

\* One turn of the scanner's loop.
ScanLine ==
    /\ line <= Len(body)
    /\ LET after == Declared(body[line]) IN
        /\ skipUntilNextFamily' = after.skip /\ currentMetricName' = after.name
        /\ filteredLines' = IF Keeps(body[line], after) THEN filteredLines \cup {line} ELSE filteredLines
    /\ line' = line + 1
    /\ UNCHANGED body

-----------------------------------------------------------------------------
ScanTypeOK ==
    /\ body \in Bodies /\ line \in 1..(Len(body) + 1)
    /\ skipUntilNextFamily \in BOOLEAN /\ currentMetricName \in Families \cup {NoName}
    /\ filteredLines \subseteq 1..(line - 1)

-----------------------------------------------------------------------------
(* expfmt.TextParser, external: it stops at the first line it cannot parse  *)
(* and returns the families that have a sample so far.                      *)

\* A type that the parser does not know, or data it cannot read.
Fault(i) == body[i].kind \in {"INFO", "BADTYPE", "malformed"}
Parses(i) == \A j \in filteredLines : j < i => ~Fault(j)
ParsedFamilies == {body[i].name : i \in {j \in filteredLines : body[j].kind = "sample" /\ Parses(j)}}
ParseFails == \E i \in filteredLines : Fault(i)

-----------------------------------------------------------------------------
(* What the text says, without the scanner's state. *)

Numbers == 1..Len(body)
Unsupported == {body[i].name : i \in {j \in Numbers : body[j].kind = "INFO"}}

\* j declares the family of line i, and no other family is declared between.
Owns(j, i) ==
    /\ j < i /\ body[j].kind \in Declarations
    /\ \A n \in j..(i - 1) : body[n].kind \in Declarations => body[n].name = body[i].name

\* The text format's own rule: a family's lines form one group that its HELP or
\* TYPE line begins, and its one TYPE line comes before its samples.
Grouped ==
    /\ \A i \in Numbers : body[i].kind \in Data =>
        \E j \in Numbers :
            /\ Owns(j, i)
            /\ body[i].name \in Unsupported => body[j].kind = "INFO"
    /\ \A i \in Numbers : body[i].kind \in {"TYPE", "BADTYPE"} => body[i].name \notin Unsupported

\* A supported family's line that no parser accepts, and the families that have
\* a sample before the first such line.
Broken(i) == body[i].kind \in {"BADTYPE", "malformed"} /\ body[i].name \notin Unsupported
Exposed ==
    {body[i].name : i \in {j \in Numbers : /\ body[j].kind = "sample" /\ body[j].name \notin Unsupported
                                           /\ \A n \in 1..(j - 1) : ~Broken(n)}}
=============================================================================
