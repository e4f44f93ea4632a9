---------------------------- MODULE Conformance ----------------------------
(***************************************************************************)
(* How one fixture becomes a row of a product's results (src/corpus:       *)
(* answer.go, the deciding half of run.go), what the results claim         *)
(* (results.go), and how two products' results are compared (agree.go).    *)
(* Every product answers the same expectation file with analyses of its    *)
(* own and gaps of its own.  CorpusRun has the processes behind an         *)
(* analysis; here one is the documents it wrote.                           *)
(*                                                                         *)
(* A finding has a code, a site, its subject's reference and shape, and a  *)
(* confidence, which stands for every member a row may pin besides.        *)
(***************************************************************************)
EXTENDS FixtureMembers

CONSTANTS
  Scenarios,      \* each an expectation file, the products that answer it, the lists of
                  \* gaps one may declare and what a first analysis may write
  SecondFindings  \* the <<site, code>> a second analysis may report

None == "none"
Absent == [result |-> None]     \* no document, row or phase
StaleCode == "stale-suppression"
RootCode == "unmatched-root"
SkipGap == "type-error-skips"

(* Every list of a document has its elements at 1 and on.                  *)
IsList(list) == list \in Seq(ToSet(list))

ASSUME ListsAreLists ==
  \A s \in Scenarios :
    /\ IsList(s.expect.rows) /\ \A list \in s.gaps : IsList(list)
    /\ \A report \in s.analyses :
         /\ IsList(report.findings) /\ IsList(report.stale)
         /\ IF s.expect.setup # {} THEN IsList(report.lines)
            ELSE /\ IsList(report.evaluations) /\ IsList(report.notes)
                 /\ \A doc \in report.facts : IsList(doc.bindings)

(* What a fixture that checks and resolves has (check.go, resolve.go): no  *)
(* two rows of one symbol, no two declarations at one position, and no row *)
(* beside a setup failure, of which it has one or none.                    *)
ASSUME FixturesResolve ==
  \A s \in Scenarios :
    LET rows == s.expect.rows
    IN  /\ \A i, j \in DOMAIN rows :
             \/ rows[i].symbol = rows[j].symbol
             \/ rows[i].entry = None /\ rows[j].entry = None /\ rows[i].site = rows[j].site
             => i = j
        /\ \A one, other \in s.expect.setup : one = other
        /\ s.expect.setup # {} => rows = << >>

VARIABLES
  scenario,  \* the one at hand
  gaps,      \* each product's declared gaps
  phase,     \* each product: "first", "second", "deciding", "answered"
  first,     \* its first analysis, Absent before
  second,    \* its second analysis, Absent where there is none
  result,    \* its row of the fixture, Absent before
  agreement  \* of two products' rows, Absent before

expect == scenario.expect
Product == scenario.products

vars == <<scenario, gaps, phase, first, second, result, agreement>>

Init ==
  /\ scenario \in Scenarios
  /\ gaps \in [Product -> scenario.gaps]
  /\ phase = [p \in Product |-> "first"]
  /\ first = [p \in Product |-> Absent] /\ second = [p \in Product |-> Absent]
  /\ result = [p \in Product |-> Absent]
  /\ agreement = Absent

Rows == DOMAIN expect.rows     \* sorted by symbol
IsConfigured(row) == row.entry # None

-----------------------------------------------------------------------------
(* What a report answers one row with: the positions of its records in the *)
(* list they are in, the first of which is the answer.                     *)
FindingsAt(report, site) == {i \in DOMAIN report.findings : report.findings[i].site = site}

(* A stale suppression is looked for among the stale records.              *)
IsStale(row) == ~ IsConfigured(row) /\ row.report = StaleCode
ReadFrom(row, report) == IF IsStale(row) THEN report.stale ELSE report.findings

(* The findings or stale records that could answer a row: those about its  *)
(* configured entry wherever they are, or those at its position.           *)
Candidates(row, report) ==
  LET list == ReadFrom(row, report)
  IN  {i \in DOMAIN list :
         IF IsConfigured(row) THEN list[i].code = RootCode /\ list[i].ref = row.entry
         ELSE list[i].site = row.site}

(* The classes the retained listing names at a row's position, which are   *)
(* read for a row that wants no finding and got none.                      *)
ClassesAt(row, report) == IF IsConfigured(row) THEN {} ELSE report.retained[row.site]

Actual(row, report) ==
  LET found == Candidates(row, report)
      answer == ReadFrom(row, report)[Min(found)]
  IN  IF found # {}
        THEN [report |-> answer.code, confidence |-> answer.confidence, retained |-> {}]
        ELSE [report |-> None, confidence |-> None,
              retained |-> IF row.report = None THEN ClassesAt(row, report) ELSE {}]

(* The row's members that the finding differs in. *)
Differences(row, found) ==
  {member \in {"report", "confidence"} :
     IF member = "report" THEN found.code # row.report ELSE found.confidence # row.confidence}

(* Bug: a second finding at the position not counted. *)
MatchesFirst(row, report) ==
  LET found == Candidates(row, report)
  IN  IF row.report = None
        THEN found = {} /\ (IsConfigured(row) \/ row.retained \in {{}, ClassesAt(row, report)})
        ELSE found # {} /\ Differences(row, ReadFrom(row, report)[Min(found)]) = {}

(* The answer has every member the row names: exactly one finding under    *)
(* its code, or none and the classes it lists.                             *)
Matches(row, report) ==
  LET found == Candidates(row, report)
  IN  IF row.report = None
        THEN found = {} /\ (IsConfigured(row) \/ row.retained \in {{}, ClassesAt(row, report)})
        ELSE /\ Cardinality(found) = 1
             /\ \A i \in found : Differences(row, ReadFrom(row, report)[i]) = {}

-----------------------------------------------------------------------------
(* The suppression phase: the rows whose finding a record can bind to,     *)
(* each with the entry written for it.                                     *)
FirstAt(row, report) == report.findings[Min(FindingsAt(report, row.site))]

HasEntry(row, report) ==
  /\ ~ IsConfigured(row) /\ row.report \notin {None, StaleCode}
  /\ FindingsAt(report, row.site) # {} /\ FirstAt(row, report).shape # "row"

EntryOf(row, report) ==
  LET found == FirstAt(row, report) IN <<found.code, found.ref, found.path>>

Covered(report) == {i \in Rows : HasEntry(expect.rows[i], report)}
Entries(report) == {EntryOf(expect.rows[i], report) : i \in Covered(report)}

(* Whether an entry like row i's is written for an earlier one of the rows. *)
Repeats(i, rows, report) ==
  \E k \in rows : k < i /\ EntryOf(expect.rows[k], report) = EntryOf(expect.rows[i], report)

(* Bug: one entry for each row. *)
IgnoreEntriesEach(report) == Covered(report)

(* The rows whose entries are written to the ignore file, in their order:  *)
(* two rows whose findings one entry names have one entry.                 *)
IgnoreEntries(report) == {i \in Covered(report) : ~ Repeats(i, Covered(report), report)}

SuppressionOf(i, p) ==
  IF second[p] = Absent \/ i \notin Covered(first[p]) THEN Absent
  ELSE LET entry == EntryOf(expect.rows[i], first[p])
       IN  [suppressed |-> <<expect.rows[i].site, entry[1]>> \notin second[p].findings,
            stale |-> entry \in second[p].stale]

-----------------------------------------------------------------------------
(* What a row exercises, and the first gap declared for it. *)
Capabilities(row) == ({row.report} \ {None}) \union row.retained

(* Bug: a gap for one symbol covering every row that exercises it. *)
CoversAnySymbol(gap, row) == gap.capability \in Capabilities(row)

Covers(gap, row) == gap.symbol \in {None, row.symbol} /\ gap.capability \in Capabilities(row)

Covering(list, row) ==
  LET covering == {i \in DOMAIN list : Covers(list[i], row)}
  IN  IF covering = {} THEN None ELSE list[Min(covering)].capability

CoversFixture(list, capability) ==
  \E gap \in ToSet(list) : gap.symbol = None /\ gap.capability = capability

(* Bug: a gap read before the suppression phase's outcome only. *)
DecideUnsuppressed(i, p) ==
  LET row == expect.rows[i]
      gap == Covering(gaps[p], row)
  IN  [symbol |-> row.symbol, actual |-> Actual(row, first[p]), suppression |-> SuppressionOf(i, p),
       stalegap |-> gap # None /\ Matches(row, first[p]), capability |-> gap,
       result |-> CASE gap # None -> "gap"
                    [] gap = None /\ Matches(row, first[p]) -> "pass"
                    [] OTHER -> "fail"]

(* A gap wherever one covers the row, whatever it answered; otherwise a    *)
(* pass when the answer matches and the suppression phase held.            *)
DecideRow(i, p) ==
  LET row == expect.rows[i]
      gap == Covering(gaps[p], row)
      suppression == SuppressionOf(i, p)
      agrees == /\ Matches(row, first[p])
                /\ suppression \in {Absent, [suppressed |-> TRUE, stale |-> FALSE]}
  IN  [symbol |-> row.symbol, actual |-> Actual(row, first[p]), suppression |-> suppression,
       stalegap |-> gap # None /\ agrees, capability |-> gap,
       result |-> CASE gap # None -> "gap" [] gap = None /\ agrees -> "pass" [] OTHER -> "fail"]

-----------------------------------------------------------------------------
(* Bug: a record named by any row at its position. *)
NamesByPosition(row, found) == ~ IsConfigured(row) /\ row.report # None /\ row.site = found.site

(* A row names what is at its position under its code, or its entry. *)
NamesFinding(row, found) ==
  IF IsConfigured(row)
    THEN row.report = RootCode /\ found.code = RootCode /\ found.ref = row.entry
    ELSE /\ row.report = found.code /\ row.site = found.site
         /\ row.report # None /\ found.code # RootCode

Unexpected(report) ==
  {f \in ToSet(report.findings) \union ToSet(report.stale) :
     \A i \in Rows : ~ NamesFinding(expect.rows[i], f)}

(* The members of the fixture the first report answers.  A declared gap    *)
(* for type-error skips, or for one of the convention rows the fixture     *)
(* names, takes their comparison away.                                     *)
SkipsDiffer(list, report) == ~ CoversFixture(list, SkipGap) /\ expect.skips # report.skips

RowsDeclined(list) == \E name \in expect.conventions \union expect.disabled : CoversFixture(list, name)
ConventionsDiffer(list, report) == ~ RowsDeclined(list) /\ expect.conventions # report.conventions

(* Each note the fixture names exactly once, and no other. *)
NotesDiffer(report) ==
  \/ \E kind \in expect.notes : Cardinality({i \in DOMAIN report.notes : report.notes[i] = kind}) # 1
  \/ ToSet(report.notes) \ expect.notes # {}

(* The members no gap takes away (FixtureMembers). *)
OthersDiffer(report) ==
  \/ EdgesDiffer(expect, report) \/ FactsDiffer(expect, scenario.language, report)
  \/ NotBuiltDiffers(expect, report) \/ InEffectDiffers(expect, report)

FixtureResult(p) ==
  LET held == [i \in Rows |-> DecideRow(i, p)]
      fails == \/ Unexpected(first[p]) # {}
               \/ SkipsDiffer(gaps[p], first[p]) \/ NotesDiffer(first[p])
               \/ ConventionsDiffer(gaps[p], first[p]) \/ OthersDiffer(first[p])
               \/ \E i \in Rows : held[i].result = "fail"
      gapped == RowsDeclined(gaps[p]) \/ \E i \in Rows : held[i].result = "gap"
  IN  [expectations |-> held,
       result |-> CASE fails -> "fail" [] ~ fails /\ gapped -> "gap" [] OTHER -> "pass"]

Broken == [expectations |-> << >>, result |-> "fail"]

(* A pending fixture is pending whatever it answered. *)
RowOf(answer) == IF expect.pending THEN [answer EXCEPT !.result = "pending"] ELSE answer

-----------------------------------------------------------------------------
Analyze(p) ==
  /\ phase[p] = "first" /\ expect.setup = {}
  /\ \E report \in scenario.analyses :
       /\ first' = [first EXCEPT ![p] = report]
       /\ phase' = [phase EXCEPT ![p] = IF Covered(report) = {} THEN "deciding" ELSE "second"]
  /\ UNCHANGED <<scenario, gaps, second, result, agreement>>

(* The entries are written, and the analyzer run over them. *)
AnalyzeAgain(p) ==
  /\ phase[p] = "second"
  /\ \E findings \in SUBSET SecondFindings, stale \in SUBSET Entries(first[p]) :
       second' = [second EXCEPT ![p] = [findings |-> findings, stale |-> stale]]
  /\ phase' = [phase EXCEPT ![p] = "deciding"]
  /\ UNCHANGED <<scenario, gaps, first, result, agreement>>

Answer(p, answer) ==
  /\ phase' = [phase EXCEPT ![p] = "answered"]
  /\ result' = [result EXCEPT ![p] = RowOf(answer)]
  /\ UNCHANGED <<scenario, gaps, first, second, agreement>>

Decide(p) == phase[p] = "deciding" /\ Answer(p, FixtureResult(p))

(* A fixture whose run must fail is answered by that run's end, which a    *)
(* gap for the failure's class covers whole.                               *)
SetupResult(want, p, run) ==
  [expectations |-> << >>,
   result |-> CASE ~ SetupDiffers(want, run) -> "pass"
                [] SetupDiffers(want, run) /\ CoversFixture(gaps[p], want.class) -> "gap"
                [] OTHER -> "fail"]

RunToFail(p) ==
  /\ phase[p] = "first"
  /\ \E want \in expect.setup, run \in scenario.analyses :
       /\ first' = [first EXCEPT ![p] = run]
       /\ result' = [result EXCEPT ![p] = RowOf(SetupResult(want, p, run))]
  /\ phase' = [phase EXCEPT ![p] = "answered"]
  /\ UNCHANGED <<scenario, gaps, second, agreement>>

(* The runner could not complete the fixture. *)
Break(p) == phase[p] # "answered" /\ Answer(p, Broken)

-----------------------------------------------------------------------------
(* What one pair of answers compares as. *)
RowNamed(held, symbol) == CHOOSE row \in ToSet(held.expectations) : row.symbol = symbol
SymbolsOf(held) == {row.symbol : row \in ToSet(held.expectations)}
BothAnswered(a, b) == SymbolsOf(a) \intersect SymbolsOf(b)

(* Bug: a row left out only when both products report a gap. *)
ExcludedOnBoth(a, b, symbol) ==
  \/ "pending" \in {a.result, b.result}
  \/ {"gap"} = {RowNamed(a, symbol).result, RowNamed(b, symbol).result}

Excluded(a, b, symbol) ==
  \/ "pending" \in {a.result, b.result}
  \/ "gap" \in {RowNamed(a, symbol).result, RowNamed(b, symbol).result}

(* The code alone where the codes differ, else the confidence and the      *)
(* suppression, each for itself.                                           *)
Fields(a, b) ==
  IF a.actual.report # b.actual.report THEN {"report"}
  ELSE (IF a.actual.confidence # b.actual.confidence THEN {"confidence"} ELSE {})
         \union (IF a.suppression # b.suppression THEN {"suppression"} ELSE {})

Agree(a, b) ==
  LET both == BothAnswered(a, b)
      excluded == {s \in both : Excluded(a, b, s)}
  IN  [both |-> both, compared |-> Cardinality(both \ excluded), excluded |-> excluded,
       divergences |-> UNION {{<<s, f>> : f \in Fields(RowNamed(a, s), RowNamed(b, s))} :
                               s \in both \ excluded}]

Compare ==
  /\ agreement = Absent /\ \A p \in Product : phase[p] = "answered"
  /\ \E p, q \in Product : p # q /\ agreement' = Agree(result[p], result[q])
  /\ UNCHANGED <<scenario, gaps, phase, first, second, result>>

Next ==
  \/ Compare
  \/ \E p \in Product :
       Analyze(p) \/ AnalyzeAgain(p) \/ Decide(p) \/ RunToFail(p) \/ Break(p)

Spec == Init /\ [][Next]_vars

-----------------------------------------------------------------------------
Answered == {p \in Product : phase[p] = "answered"}

(* What holds a results document against the corpus: an expectation with   *)
(* no answer and no gap, or a gap no declared one covers.                  *)
DeclaredCapabilities(list, row) ==
  {gap.capability : gap \in {g \in ToSet(list) :
     g.symbol \in {None, row.symbol} /\ g.capability \in Capabilities(row)}}

Unanswered(p) ==
  {row \in ToSet(expect.rows) :
     LET covered == DeclaredCapabilities(gaps[p], row)
     IN  \/ row.symbol \notin SymbolsOf(result[p]) /\ covered = {}
         \/ /\ row.symbol \in SymbolsOf(result[p])
            /\ RowNamed(result[p], row.symbol).result = "gap"
            /\ RowNamed(result[p], row.symbol).capability \notin covered}

-----------------------------------------------------------------------------
Told(p) == ToSet(first[p].findings) \union ToSet(first[p].stale)
IsFor(f, row) ==
  IF IsConfigured(row) THEN row.report = RootCode /\ f.code = RootCode /\ f.ref = row.entry
  ELSE f.code = row.report /\ f.site = row.site

Reporting == {row \in ToSet(expect.rows) : row.report # None}

(* Everything told is for a row that reports, and of what is told where a  *)
(* row is read from, one record is for it.                                 *)
ReportsExactly(p) ==
  /\ \A f \in Told(p) : \E row \in Reporting : IsFor(f, row)
  /\ \A row \in Reporting :
       LET list == ReadFrom(row, first[p])
       IN  \E i \in DOMAIN list :
             /\ list[i].confidence = row.confidence
             /\ {j \in DOMAIN list : IsFor(list[j], row)} = {i}

(* The report evaluates each side the fixture names once, as it names it,  *)
(* and no other.                                                           *)
EvaluatesExactly(p) ==
  LET records == first[p].evaluations
  IN  /\ {<<e.edge, e.side, e.state>> : e \in ToSet(records)}
           = {<<e.edge, e.side, e.state>> : e \in expect.evaluations}
      /\ \A i, j \in DOMAIN records : OfSide(records[i], records[j]) => i = j
      /\ \A want \in {e \in expect.evaluations : e.state = "dead"} :
           \E e \in ToSet(records) : \E f \in e.finding :
             OfSide(e, want) /\ f.code = want.report /\ f.site \in want.site

(* The run failed, reported nothing, and its one class line is of the      *)
(* failure the fixture names and names what it does.                       *)
FailsExactly(p, want) ==
  /\ first[p].exit = "failure" /\ first[p].findings = << >>
  /\ \E i \in DOMAIN first[p].lines :
       /\ ClassLines(first[p]) = {i}
       /\ first[p].lines[i].group = "setup" /\ first[p].lines[i].class = want.class
       /\ want.names \subseteq first[p].lines[i].names

(* A fixture passes only when the analysis reported exactly what its rows  *)
(* name: one finding each, with its confidence, and nothing else anywhere, *)
(* the stale suppressions counted with the findings; and evaluated exactly *)
(* the sides of the edges it names.  One whose run must fail passes only   *)
(* when it failed exactly as the fixture names.                            *)
PassIsExact ==
  \A p \in Answered : result[p].result = "pass" =>
    IF expect.setup = {} THEN ReportsExactly(p) /\ EvaluatesExactly(p)
    ELSE \A want \in expect.setup : FailsExactly(p, want)

(* The document holds what the fixture names of it: of each fact one       *)
(* record or none, and the generated entries.                              *)
FactsAsNamed(p) ==
  \A doc \in first[p].facts :
    /\ \A want \in {f \in expect.facts : scenario.language \in f.languages \/ f.languages = {}} :
         LET records == {i \in DOMAIN doc.bindings :
                           doc.bindings[i].role = want.role /\ doc.bindings[i].ref = want.ref}
         IN  /\ Cardinality(records) = IF want.absent THEN 0 ELSE 1
             /\ \A i \in records :
                  /\ doc.bindings[i].members = want.members
                  /\ want.generated # Unnamed => doc.bindings[i].generated = want.generated
                  /\ want.generated = Unnamed =>
                       doc.bindings[i].generated =
                         IF want.role \in {"consumer", "fallback"} THEN want.file ELSE Unnamed
                  /\ \A code \in want.report :
                       [code |-> code, site |-> want.site] \in doc.bindings[i].finding
    /\ expect.generated \in {{}, ToSet(doc.generated)}

(* What a product without gaps that makes no mistake answers first: the    *)
(* findings and classes of the rows, a root's finding in the configuration *)
(* document and none about an entry a row wants none about, and each other *)
(* member.                                                                 *)
FirstIsRight(p) ==
  /\ ReportsExactly(p) /\ EvaluatesExactly(p) /\ FactsAsNamed(p)
  /\ \A row \in ToSet(expect.rows) :
       /\ row.retained # {} => first[p].retained[row.site] = row.retained
       /\ \A f \in Told(p) :
            /\ f.code = RootCode => f.site # row.site
            /\ f.code = RootCode /\ IsConfigured(row) /\ row.report = None => f.ref # row.entry
  /\ first[p].skips = expect.skips /\ first[p].conventions = expect.conventions
  /\ ToSet(first[p].notes) = expect.notes /\ IsInjective(first[p].notes)
  /\ \A list \in expect.notBuilt : first[p].notBuilt = list
  /\ \A count \in expect.inEffect : first[p].inEffect = count

(* And over the entries written for it, by the ledger's rule: nothing an   *)
(* entry names, and an entry stale where an earlier one is the same.       *)
SecondIsRight(p) ==
  LET written == IgnoreEntries(first[p])
  IN  second[p] = Absent
        \/ /\ second[p].findings = {}
           /\ second[p].stale = {EntryOf(expect.rows[i], first[p]) :
                                   i \in {j \in written : Repeats(j, written, first[p])}}

(* A product that answers right passes, unless the runner itself broke:    *)
(* what the runner writes for the second analysis never makes a right      *)
(* answer look wrong, as one entry written twice would.                    *)
RightAnswerPasses ==
  \A p \in Answered :
    /\ gaps[p] = << >> /\ ~ expect.pending /\ result[p] # Broken
    /\ IF expect.setup = {} THEN FirstIsRight(p) /\ SecondIsRight(p)
       ELSE \A want \in expect.setup : FailsExactly(p, want)
    => result[p].result = "pass"

(* Neither does a declared gap open the closed world: whatever a fixture   *)
(* that does not fail reports, some row of it names.  (A gap for the class *)
(* of a failure covers its whole run.)                                     *)
ClosedWorld ==
  \A p \in Answered : result[p].result \in {"pass", "gap"} /\ expect.setup = {} =>
    \A f \in Told(p) : \E row \in ToSet(expect.rows) : IsFor(f, row)

(* A fixture passes only when the second analysis reports none of the      *)
(* findings a record can bind to, which an entry was written for, and finds *)
(* no such entry stale.                                                    *)
PassIsSilenced ==
  \A p \in Answered : result[p].result = "pass" =>
    \A f \in ToSet(first[p].findings) :
      f.shape # "row" /\ f.code \notin {RootCode, StaleCode} =>
        /\ second[p] # Absent
        /\ <<f.site, f.code>> \notin second[p].findings
        /\ <<f.code, f.ref, f.path>> \notin second[p].stale

(* The document a run writes holds up against the corpus it answered: what *)
(* it leaves without an answer and without a gap it does not pass.         *)
NeverASilence ==
  \A p \in Answered :
    /\ Unanswered(p) # {} => result[p].result \in {"fail", "pending"}
    /\ result[p].expectations # << >> => Unanswered(p) = {}

(* Two products differ about a finding or its confidence only where one of *)
(* them is wrong, so that a divergence always has a failed row behind it.  *)
PassingRowsAgree ==
  agreement # Absent =>
    \A divergence \in agreement.divergences :
      divergence[2] \in {"report", "confidence"} =>
        \E p \in Product : RowNamed(result[p], divergence[1]).result = "fail"

-----------------------------------------------------------------------------
(* corpus.json, runner.suppression_phase: the second analysis produces no  *)
(* finding at the position of one that was suppressed.                     *)
PositionFallsSilent ==
  \A p \in Answered : result[p].result = "pass" =>
    \A i \in Covered(first[p]) : \A f \in second[p].findings : f[1] # expect.rows[i].site
=============================================================================
