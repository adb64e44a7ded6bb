--------------------------- MODULE PromFetchProofs ---------------------------
(***************************************************************************)
(* Safety of the line filter and of PromFetch, for any text, families and  *)
(* queries.                                                                *)
(***************************************************************************)
EXTENDS PromFetch, TLAPS

-----------------------------------------------------------------------------
(* What the line filter keeps, for every text that groups its lines by family. *)

Seen == 1..(line - 1)

\* Only family f has been declared since line j.
Only(f, j) == \A n \in j..(line - 1) : body[n].kind \in Declarations => body[n].name = f

\* The scanner skips within the group of an unsupported family, and not within
\* that of a supported one.
SkipsUnsupported ==
    /\ skipUntilNextFamily => currentMetricName \in Unsupported
    /\ \A j \in Seen : body[j].kind = "INFO" /\ Only(body[j].name, j)
        => skipUntilNextFamily /\ currentMetricName = body[j].name
    /\ \A j \in Seen : /\ body[j].kind \in Declarations /\ body[j].name \notin Unsupported
                       /\ Only(body[j].name, j)
        => ~skipUntilNextFamily

\* Lines of data are kept or left out with their family, whatever is around.
KeepsSupported ==
    /\ \A i \in Seen : body[i].kind \in Data => (i \in filteredLines <=> body[i].name \notin Unsupported)
    /\ \A i \in Seen : body[i].kind = "INFO" => i \notin filteredLines
    /\ \A i \in Seen : body[i].kind = "BADTYPE" => i \in filteredLines

ScanInv == ScanTypeOK /\ (Grouped => SkipsUnsupported /\ KeepsSupported)

LEMMA BodyTyped ==
    ASSUME ScanTypeOK
    PROVE  /\ Len(body) \in Nat /\ line \in Nat
           /\ \A i \in Numbers : body[i] \in Lines
           /\ Unsupported \subseteq Families
<1>1. body \in Seq(Lines)
  BY FilterAssumption DEF ScanTypeOK
<1>2. Len(body) \in Nat /\ \A i \in Numbers : body[i] \in Lines
  BY <1>1 DEF Numbers
<1> QED
  BY <1>2 DEF ScanTypeOK, Unsupported, Lines, Numbers

LEMMA ScanInitInv == ScanInit => ScanInv
<1> SUFFICES ASSUME ScanInit PROVE ScanInv
  OBVIOUS
<1>1. Len(body) \in Nat
  BY FilterAssumption DEF ScanInit
<1>2. Seen = {}
  BY DEF ScanInit, Seen
<1>3. ScanTypeOK
  <2>1. line \in 1..(Len(body) + 1)
    BY <1>1 DEF ScanInit
  <2>2. skipUntilNextFamily \in BOOLEAN /\ currentMetricName \in Families \cup {NoName}
    BY DEF ScanInit
  <2> QED
    BY <2>1, <2>2 DEF ScanInit, ScanTypeOK
<1> QED
  BY <1>2, <1>3 DEF ScanInit, ScanInv, SkipsUnsupported, KeepsSupported

\* The skip state after a line, in every case.
LEMMA DeclaredCases ==
    ASSUME ScanTypeOK, ScanLine
    PROVE  LET l == body[line] IN
           /\ l \in Lines
           /\ l.kind = "INFO" => skipUntilNextFamily' /\ currentMetricName' = l.name
           /\ l.kind \in {"TYPE", "BADTYPE"} => ~skipUntilNextFamily' /\ currentMetricName' = NoName
           /\ l.kind = "HELP" =>
                \/ /\ skipUntilNextFamily /\ currentMetricName # NoName /\ l.name # currentMetricName
                   /\ ~skipUntilNextFamily' /\ currentMetricName' = NoName
                \/ /\ ~(skipUntilNextFamily /\ currentMetricName # NoName /\ l.name # currentMetricName)
                   /\ UNCHANGED <<skipUntilNextFamily, currentMetricName>>
           /\ l.kind \notin Declarations => UNCHANGED <<skipUntilNextFamily, currentMetricName>>
           /\ skipUntilNextFamily' \in BOOLEAN /\ currentMetricName' \in Families \cup {NoName}
<1> DEFINE l == body[line]
           after == Declared(l)
<1>1. l \in Lines
  BY BodyTyped DEF ScanLine, ScanTypeOK, Numbers
<1>2. skipUntilNextFamily' = after.skip /\ currentMetricName' = after.name
  BY DEF ScanLine
<1>3. CASE l.kind = "INFO"
  BY <1>1, <1>2, <1>3 DEF Declared, handleTypeDeclaration, At, Lines, Declarations
<1>4. CASE l.kind \in {"TYPE", "BADTYPE"}
  BY <1>1, <1>2, <1>4 DEF Declared, handleTypeDeclaration, At, Lines, Declarations
<1>5. CASE l.kind = "HELP"
  BY <1>1, <1>2, <1>5 DEF Declared, handleHelpDeclaration, At, Now, Lines, Declarations, ScanTypeOK
<1>6. CASE l.kind \notin Declarations
  BY <1>1, <1>2, <1>6 DEF Declared, At, Now, Lines, Declarations, ScanTypeOK
<1> QED
  BY <1>1, <1>3, <1>4, <1>5, <1>6 DEF Declarations

LEMMA ScanTyped == ASSUME ScanTypeOK, ScanLine PROVE ScanTypeOK'
<1>1. skipUntilNextFamily' \in BOOLEAN /\ currentMetricName' \in Families \cup {NoName}
  BY DeclaredCases
<1>2. line' = line + 1 /\ body' = body /\ line <= Len(body) /\ filteredLines' \subseteq filteredLines \cup {line}
  BY DEF ScanLine
<1>3. line' \in 1..(Len(body') + 1) /\ filteredLines' \subseteq 1..(line' - 1)
  BY <1>2, BodyTyped DEF ScanTypeOK
<1> QED
  BY <1>1, <1>2, <1>3 DEF ScanTypeOK

\* The family whose group a line of data is in decides whether it is skipped.
LEMMA DataLine ==
    ASSUME ScanTypeOK, Grouped, SkipsUnsupported, line <= Len(body), body[line].kind \in Data
    PROVE  skipUntilNextFamily <=> body[line].name \in Unsupported
<1>1. line \in Numbers
  BY BodyTyped DEF ScanTypeOK, Numbers
<1>2. PICK j \in Numbers : /\ Owns(j, line)
                           /\ body[line].name \in Unsupported => body[j].kind = "INFO"
  BY <1>1 DEF Grouped
<1>3. j \in Seen /\ body[j].kind \in Declarations /\ j \in j..(line - 1)
  BY <1>2, BodyTyped DEF Owns, Seen, Numbers
<1>4. body[j].name = body[line].name /\ Only(body[j].name, j)
  BY <1>2, <1>3 DEF Owns, Only
<1> QED
  BY <1>2, <1>3, <1>4 DEF SkipsUnsupported

LEMMA SkipStep ==
    ASSUME ScanTypeOK, Grouped, SkipsUnsupported, ScanLine
    PROVE  SkipsUnsupported'
<1> DEFINE l == body[line]
<1>1. /\ body' = body /\ line' = line + 1 /\ Unsupported' = Unsupported /\ line \in Numbers
      /\ Len(body) \in Nat /\ line \in Nat
  BY BodyTyped DEF ScanLine, Unsupported, Numbers, ScanTypeOK
<1>2. l.kind = "INFO" => l.name \in Unsupported
  BY <1>1 DEF Unsupported
<1>3. l.kind \in {"TYPE", "BADTYPE"} => l.name \notin Unsupported
  BY <1>1 DEF Grouped
<1>4. Seen' = Seen \cup {line}
  BY <1>1 DEF Seen, ScanTypeOK
<1>5. ASSUME NEW f, NEW j \in Seen, Only(f, j)'
      PROVE  Only(f, j) /\ (l.kind \in Declarations => l.name = f)
  <2>1. line \in j..(line' - 1) /\ j..(line - 1) \subseteq j..(line' - 1)
    BY <1>1 DEF Seen
  <2> QED
    BY <1>1, <1>5, <2>1 DEF Only
<1>6. NoName \notin Unsupported
  BY BodyTyped, FilterAssumption
<1>7. skipUntilNextFamily' => (currentMetricName \in Unsupported)'
  BY <1>1, <1>2, DeclaredCases DEF SkipsUnsupported, Declarations, Lines
<1>8. ASSUME NEW f, NEW j \in Seen', body[j].kind = "INFO", f = body[j].name, Only(f, j)'
      PROVE  skipUntilNextFamily' /\ currentMetricName' = f
  <2>1. CASE j = line
    BY <1>8, <2>1, DeclaredCases
  <2>2. CASE j # line
    <3>1. j \in Seen /\ Only(f, j) /\ (l.kind \in Declarations => l.name = f)
      BY <1>4, <1>5, <1>8, <2>2
    <3>2. skipUntilNextFamily /\ currentMetricName = f
      BY <1>8, <3>1 DEF SkipsUnsupported
    <3>3. f \in Unsupported
      BY <3>2 DEF SkipsUnsupported
    <3> QED
      BY <1>3, <3>1, <3>2, <3>3, DeclaredCases DEF Declarations, Lines
  <2> QED
    BY <2>1, <2>2
<1>9. ASSUME NEW f, NEW j \in Seen', body[j].kind \in Declarations, f = body[j].name,
             f \notin Unsupported, Only(f, j)'
      PROVE  ~skipUntilNextFamily'
  <2>1. CASE j = line
    BY <1>2, <1>6, <1>9, <2>1, DeclaredCases DEF SkipsUnsupported, Declarations
  <2>2. CASE j # line
    <3>1. j \in Seen /\ Only(f, j) /\ (l.kind \in Declarations => l.name = f)
      BY <1>4, <1>5, <1>9, <2>2
    <3>2. ~skipUntilNextFamily
      BY <1>9, <3>1 DEF SkipsUnsupported
    <3> QED
      BY <1>2, <1>9, <3>1, <3>2, DeclaredCases DEF Declarations, Lines
  <2> QED
    BY <2>1, <2>2
<1> QED
  BY <1>1, <1>7, <1>8, <1>9 DEF SkipsUnsupported, Only

LEMMA KeepStep ==
    ASSUME ScanTypeOK, Grouped, SkipsUnsupported, KeepsSupported, ScanLine
    PROVE  KeepsSupported'
<1> DEFINE l == body[line]
           after == Declared(l)
<1>1. /\ body' = body /\ Unsupported' = Unsupported /\ line \notin filteredLines
      /\ Seen' = Seen \cup {line} /\ line <= Len(body)
  BY BodyTyped DEF ScanLine, Unsupported, Numbers, Seen, ScanTypeOK
<1>2. filteredLines' = IF Keeps(l, after) THEN filteredLines \cup {line} ELSE filteredLines
  BY DEF ScanLine
<1>3. after.skip = skipUntilNextFamily' /\ after.name = currentMetricName'
  BY DEF ScanLine
<1>4. CASE l.kind \in Data
  <2>1. skipUntilNextFamily' = skipUntilNextFamily
    BY <1>4, DeclaredCases DEF Data, Declarations
  <2>2. Keeps(l, after) <=> ~skipUntilNextFamily
    BY <1>3, <1>4, <2>1 DEF Keeps, shouldSkipLine, Data
  <2>3. Keeps(l, after) <=> l.name \notin Unsupported
    BY <1>1, <1>4, <2>2, DataLine
  <2> QED
    BY <1>1, <1>2, <1>4, <2>3 DEF KeepsSupported, Data
<1>5. CASE l.kind = "INFO"
  BY <1>1, <1>2, <1>5 DEF KeepsSupported, Keeps, Data
<1>6. CASE l.kind = "BADTYPE"
  BY <1>1, <1>2, <1>3, <1>6 DEF KeepsSupported, Keeps, Data, shouldSkipLine
<1>7. CASE l.kind \notin Data \cup {"INFO", "BADTYPE"}
  BY <1>1, <1>2, <1>7 DEF KeepsSupported
<1> QED
  BY <1>4, <1>5, <1>6, <1>7

LEMMA ScanStep == ASSUME ScanInv, ScanLine PROVE ScanInv'
<1>1. ScanTypeOK'
  BY ScanTyped DEF ScanInv
<1>2. body' = body
  BY DEF ScanLine
<1>3. Grouped' = Grouped
  BY <1>2 DEF Grouped, Owns, Numbers, Unsupported
<1> QED
  BY <1>1, <1>3, SkipStep, KeepStep DEF ScanInv

\* Once the scan is over, the parser meets exactly the faults of supported
\* families, and returns exactly the families the text exposes.
LEMMA ScanResult ==
    ASSUME ScanInv, line > Len(body), Grouped
    PROVE  /\ ParsedFamilies = Exposed
           /\ ParseFails => \E i \in Numbers : Broken(i)
<1>1. Seen = Numbers /\ filteredLines \subseteq Numbers /\ Len(body) \in Nat
  BY BodyTyped DEF ScanInv, ScanTypeOK, Seen, Numbers
<1>2. \A i \in filteredLines : Fault(i) <=> Broken(i)
  BY <1>1 DEF ScanInv, KeepsSupported, Fault, Broken, Data, Grouped
<1>3. \A i \in Numbers : Broken(i) => i \in filteredLines
  BY <1>1 DEF ScanInv, KeepsSupported, Broken, Data
<1>4. ASSUME NEW i \in Numbers
      PROVE  Parses(i) <=> \A n \in 1..(i - 1) : ~Broken(n)
  <2>1. 1..(i - 1) \subseteq Numbers /\ \A n \in Numbers : n < i <=> n \in 1..(i - 1)
    BY <1>1 DEF Numbers
  <2> QED
    BY <1>1, <1>2, <1>3, <2>1 DEF Parses
<1>5. \A i \in Numbers : body[i].kind = "sample" => (i \in filteredLines <=> body[i].name \notin Unsupported)
  BY <1>1 DEF ScanInv, KeepsSupported, Data
<1>6. {j \in filteredLines : body[j].kind = "sample" /\ Parses(j)} =
      {j \in Numbers : /\ body[j].kind = "sample" /\ body[j].name \notin Unsupported
                       /\ \A n \in 1..(j - 1) : ~Broken(n)}
  BY <1>1, <1>4, <1>5
<1>7. ParsedFamilies = Exposed
  BY <1>6 DEF ParsedFamilies, Exposed
<1> QED
  BY <1>1, <1>2, <1>7 DEF ParseFails

\* The families handed to the parser's caller are families.
LEMMA ParsedTyped == ASSUME ScanTypeOK PROVE ParsedFamilies \subseteq Families
<1>1. filteredLines \subseteq Numbers
  BY BodyTyped DEF ScanTypeOK, Numbers
<1> QED
  BY <1>1, BodyTyped DEF ParsedFamilies, Lines

-----------------------------------------------------------------------------
(* The fetch. *)

\* What the goroutine puts on the channel.
Delivered == IF resp.readErr THEN {} ELSE ParsedFamilies

\* Before the goroutine runs.
Quiet ==
    /\ cpc = "call" => gpc = "none" /\ outcome = "none"
    /\ gpc = "none" => /\ cpc \in {"call", "returned"}
                       /\ cpc = "returned" => outcome = "err" /\ resp.kind # "ok"
    /\ gpc # "none" => resp.kind = "ok" /\ cpc # "call"

\* The channel: open until everything is sent, and the caller stays in its
\* loop until then.
Channel ==
    /\ closed <=> gpc \in {"assign", "done"}
    /\ gpc # "none" /\ cpc # "range" => closed
    /\ closed => unsent = {}

\* The slice holds exactly what was sent so far.
Accounting ==
    /\ gpc \in {"none", "scan"} => metrics = [q \in Queries |-> 0] /\ unsent = {}
    /\ gpc \in {"send", "assign", "done"} =>
        /\ line > Len(body)
        /\ unsent \subseteq Delivered
        /\ metrics = [q \in Queries |-> IF q \in Selected(Delivered \ unsent) THEN 1 ELSE 0]

\* Where an error can come from.
Errors ==
    /\ err => perr
    /\ perr => gpc \in {"send", "assign", "done"} /\ (resp.readErr \/ ParseFails)
    /\ outcome = "err" => resp.kind # "ok" \/ perr
    /\ outcome = "ok" => cpc = "returned" /\ closed

IInv == TypeOK /\ ScanInv /\ Quiet /\ Channel /\ Accounting /\ Errors

LEMMA InitIInv == FetchInit => IInv
<1> SUFFICES ASSUME FetchInit PROVE IInv
  OBVIOUS
<1>0. ScanInv
  BY ScanInitInv DEF FetchInit
<1>1. TypeOK
  BY <1>0 DEF FetchInit, TypeOK, Answers, ScanInv
<1>2. Quiet /\ Channel /\ Errors
  BY DEF FetchInit, Quiet, Channel, Errors
<1>3. Accounting
  BY DEF FetchInit, Accounting
<1> QED
  BY <1>0, <1>1, <1>2, <1>3 DEF IInv

\* A step that leaves the scanner alone leaves what it found alone.
ScanStays == UNCHANGED <<body, scanVars>>

LEMMA ScanStaysSame ==
    ASSUME ScanStays
    PROVE  /\ UNCHANGED <<ScanTypeOK, ScanInv, ParsedFamilies, ParseFails>>
           /\ UNCHANGED <<body, line>>
<1>1. UNCHANGED <<body, line, skipUntilNextFamily, currentMetricName, filteredLines>>
  BY DEF ScanStays, scanVars
<1>2. UNCHANGED <<ParsedFamilies, ParseFails>>
  BY <1>1 DEF ParsedFamilies, ParseFails, Parses, Fault
<1>3. UNCHANGED <<ScanTypeOK, Grouped, KeepsSupported, SkipsUnsupported>>
  BY <1>1 DEF ScanTypeOK, Grouped, Owns, Numbers, Unsupported, KeepsSupported, SkipsUnsupported,
              Seen, Only
<1> QED
  BY <1>1, <1>2, <1>3 DEF ScanInv

\* Receiving f adds the results of the queries on f, none of which was in the
\* slice, since a query is about one family.
LEMMA ReceiveStep ==
    ASSUME IInv, NEW f \in Families, Receive(f)
    PROVE  IInv'
<1> DEFINE D == Delivered
<1>0. ScanStays
  BY DEF Receive, ScanStays
<1>1. Delivered' = Delivered /\ resp' = resp
  BY <1>0, ScanStaysSame DEF Receive, Delivered
<1>2. f \in D /\ unsent \subseteq D /\ gpc = "send" /\ gpc' = "send"
  BY DEF Receive, IInv, Accounting
<1>4. metrics' = [q \in Queries |-> IF q \in Selected(Delivered \ unsent)' THEN 1 ELSE 0]
  <2>1. \A q \in Queries : metrics[q] = IF MetricName[q] \in D \ unsent /\ q \in resp.matching THEN 1 ELSE 0
    BY <1>2 DEF IInv, Accounting, Selected, Execute
  <2>2. metrics' = [q \in Queries |-> IF Execute(q, f) THEN metrics[q] + 1 ELSE metrics[q]]
    BY DEF Receive
  <2>3. unsent' = unsent \ {f} /\ f \in unsent
    BY DEF Receive
  <2>4. ASSUME NEW q \in Queries
        PROVE  metrics'[q] = IF q \in Selected(Delivered \ unsent)' THEN 1 ELSE 0
    <3>1. q \in Selected(Delivered \ unsent)' <=> MetricName[q] \in D \ unsent' /\ q \in resp.matching
      BY <1>1 DEF Selected, Execute
    <3> QED
      BY <1>2, <2>1, <2>2, <2>3, <3>1 DEF Execute
  <2> QED
    BY <2>2, <2>4
<1>5. Accounting'
  BY <1>0, <1>1, <1>2, <1>4, ScanStaysSame DEF Accounting, Receive, IInv
<1>6. metrics' \in [Queries -> {0, 1}]
  BY <1>4
<1>7. TypeOK' /\ ScanInv'
  BY <1>0, <1>1, <1>6, ScanStaysSame DEF IInv, TypeOK, Receive, Answers
<1>8. Quiet' /\ Channel' /\ Errors'
  BY <1>0, ScanStaysSame DEF IInv, Quiet, Channel, Errors, Receive
<1> QED
  BY <1>5, <1>7, <1>8 DEF IInv

\* The scanner's own steps come before anything is parsed.
LEMMA ScanStepCase == ASSUME IInv, Scan PROVE IInv'
<1>1. gpc = "scan" /\ UNCHANGED <<resp, cpc, gpc, unsent, perr, closed, err, metrics, outcome>>
  BY DEF Scan, callVars
<1>2. ScanInv'
  BY ScanStep DEF Scan, IInv
<1>3. TypeOK'
  BY <1>1, <1>2 DEF IInv, TypeOK, ScanInv
<1>4. Quiet' /\ Channel' /\ Accounting' /\ Errors'
  BY <1>1 DEF IInv, Quiet, Channel, Accounting, Errors
<1> QED
  BY <1>2, <1>3, <1>4 DEF IInv

\* Parse loads the list to send; nothing is in the slice yet.
LEMMA ParseStep == ASSUME IInv, Parse PROVE IInv'
<1>0. ScanStays
  BY DEF Parse, ScanStays
<1>1. Delivered' = Delivered /\ unsent' = Delivered /\ resp' = resp
  BY <1>0, ScanStaysSame DEF Parse, Delivered
<1>2. Selected(Delivered \ unsent)' = {}
  BY <1>1 DEF Selected
<1>3. metrics' = [q \in Queries |-> 0] /\ gpc' = "send"
  BY DEF Parse, IInv, Accounting
<1>4. Accounting'
  BY <1>0, <1>1, <1>2, <1>3, ScanStaysSame DEF Accounting, Parse
<1>5. TypeOK' /\ ScanInv'
  <2>1. Delivered \subseteq Families
    BY ParsedTyped DEF Delivered, IInv, ScanInv
  <2>2. perr' \in BOOLEAN
    BY DEF Parse, ParseFails, IInv, TypeOK, Answers
  <2> QED
    BY <1>0, <1>1, <1>3, <2>1, <2>2, ScanStaysSame DEF IInv, TypeOK, Parse, Answers
<1>6. Quiet' /\ Channel' /\ Errors'
  BY <1>0, ScanStaysSame DEF IInv, TypeOK, Quiet, Channel, Errors, Parse
<1> QED
  BY <1>4, <1>5, <1>6 DEF IInv

\* The other steps leave the list and the slice alone.
LEMMA OtherSteps ==
    ASSUME IInv,
           UNCHANGED fetchVars \/ FailEarly \/ StartParser \/ RangeEnds \/ Lenient \/ ReturnFamilies
               \/ Close \/ AssignErr
    PROVE  IInv'
<1>0. ScanStays
  BY DEF FailEarly, StartParser, RangeEnds, Lenient, ReturnFamilies, Close, AssignErr, fetchVars, ScanStays
<1>1. UNCHANGED <<resp, unsent, metrics, perr>>
  BY DEF FailEarly, StartParser, RangeEnds, Lenient, ReturnFamilies, Close, AssignErr, fetchVars, callVars
<1>2. Delivered' = Delivered /\ Selected(Delivered \ unsent)' = Selected(Delivered \ unsent)
  BY <1>0, <1>1, ScanStaysSame DEF Delivered, Selected, Execute
<1>3. Accounting'
  BY <1>0, <1>1, <1>2, ScanStaysSame DEF IInv, Accounting, Quiet, FailEarly, StartParser, RangeEnds,
                    Lenient, ReturnFamilies, Close, AssignErr, fetchVars, callVars
<1>4. TypeOK' /\ ScanInv'
  BY <1>0, <1>1, ScanStaysSame DEF IInv, TypeOK, FailEarly, StartParser, RangeEnds, Lenient, ReturnFamilies,
              Close, AssignErr, fetchVars, callVars
<1>5. Quiet' /\ Channel' /\ Errors'
  BY <1>0, <1>1, ScanStaysSame DEF IInv, TypeOK, Quiet, Channel, Errors, FailEarly, StartParser,
              RangeEnds, Lenient, ReturnFamilies, Close, AssignErr, fetchVars, callVars
<1> QED
  BY <1>3, <1>4, <1>5 DEF IInv

LEMMA NextIInv == IInv /\ [FetchNext]_fetchVars => IInv'
<1> SUFFICES ASSUME IInv, [FetchNext]_fetchVars PROVE IInv'
  OBVIOUS
<1>1. CASE Exchange
  BY <1>1, ReceiveStep DEF Exchange
<1>2. CASE Parse
  BY <1>2, ParseStep
<1>3. CASE UNCHANGED fetchVars \/ Caller \/ Close \/ AssignErr
  BY <1>3, OtherSteps DEF Caller
<1>4. CASE Scan
  BY <1>4, ScanStepCase
<1> QED
  BY <1>1, <1>2, <1>3, <1>4 DEF FetchNext, Parser, Finished

LEMMA Inductive == FetchSpec => []IInv
BY InitIInv, NextIInv, PTL DEF FetchSpec

\* Types, and no query result is ever in the slice twice.
THEOREM TypeCorrect == FetchSpec => []TypeOK
BY Inductive, PTL DEF IInv

\* A call that succeeds on a readable body returns the result of every query on
\* every supported family before the first broken line: the filter drops no
\* family with an unsupported one, and no order of the goroutines' steps lets
\* the caller leave its loop early.
THEOREM SuccessIsComplete == FetchSpec => []CompleteOnSuccess
<1>1. IInv => CompleteOnSuccess
  <2> SUFFICES ASSUME IInv, outcome = "ok", ~resp.readErr, Grouped
               PROVE  Kept(metrics) = Selected(Exposed)
    BY DEF CompleteOnSuccess
  <2>1. gpc \in {"assign", "done"} /\ unsent = {} /\ line > Len(body)
    BY DEF IInv, Errors, Channel, Accounting
  <2>2. Delivered \ unsent = Exposed
    BY <2>1, ScanResult DEF Delivered, IInv
  <2>3. metrics = [q \in Queries |-> IF q \in Selected(Exposed) THEN 1 ELSE 0]
    BY <2>1, <2>2 DEF IInv, Accounting
  <2> QED
    BY <2>3 DEF Kept, Selected
<1> QED
  BY <1>1, Inductive, PTL

\* An error is only ever reported after a failure of the exchange, of the
\* reading or of a supported family's line, even when the goroutine's write to
\* err races with the caller's.
THEOREM GenuineErrors == FetchSpec => []ErrorsAreGenuine
<1>1. IInv => ErrorsAreGenuine
  <2> SUFFICES ASSUME IInv, outcome = "err", Grouped, resp.kind = "ok", ~resp.readErr
               PROVE  \E i \in Numbers : Broken(i)
    BY DEF ErrorsAreGenuine
  <2>1. ParseFails /\ gpc \in {"send", "assign", "done"}
    BY DEF IInv, Errors
  <2>2. line > Len(body)
    BY <2>1 DEF IInv, Accounting
  <2> QED
    BY <2>1, <2>2, ScanResult DEF IInv
<1> QED
  BY <1>1, Inductive, PTL
=============================================================================
