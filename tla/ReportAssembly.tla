--------------------------- MODULE ReportAssembly ---------------------------
(***************************************************************************)
(* A report's life in one product: assembled from what an analysis         *)
(* answered (report.Build) or read from a document (report.Decode), put in *)
(* order again, capped, written (report.Encode) and rendered               *)
(* (render.Render), in whichever order the product asks.                   *)
(***************************************************************************)
EXTENDS Rendering

CONSTANTS
  Inputs,      \* what an analysis may answer
  Documents,   \* the reports that may be read instead, merged ones among them
  Files,       \* the target's files
  Declarations,   \* each component's declarations, by its identifier
  Most,        \* the maximum finding counts a product may ask for
  MaxCaps      \* bound on the caps of one report

ASSUME ReportAssumption == MaxCaps \in Nat /\ Most \subseteq Int
ASSUME FilesAreUnits == \A path \in DOMAIN Files : Files[path] \in Seq(Nat)

(* What the types and the schemas leave of an array: a list of records     *)
(* that compare by strings and numbers and differ where their encodings do, *)
(* those with an identifier aside; and of a finding, the counts it is      *)
(* ranked by.                                                              *)
IsList(list) == list \in Seq(ToSet(list))
Identity(array, e) ==
  CASE array \in ById -> <<e.id>>
    [] array \in Listed -> <<e.key, e.enc>>
    [] array \in {"findings", "stale"} -> <<e.path, e.line, e.code, e.ref, e.analyzer, e.enc>>
    [] array = "gaps" -> <<e.analyzer, e.enc>>
    [] array = "evaluations" -> <<e.edge, e.side, e.analyzer, e.enc>>
    [] OTHER -> <<e>>
Keyed(array, list) ==
  /\ IsList(list)
  /\ \A e, f \in ToSet(list) :
       /\ Identity(array, e) \in Seq(Int) /\ Len(Identity(array, e)) = Len(Identity(array, f))
       /\ Identity(array, e) = Identity(array, f) => e = f \/ array \in ById
Measured(f) == {f.path, f.line, f.code, f.ref, f.analyzer, f.enc, f.lines, f.size} \subseteq Int

ASSUME InputsAreWhole ==
  \A in \in Inputs :
    /\ (Arrays \ {"mergedFrom"}) \union {"members", "uncounted"} \subseteq DOMAIN in
    /\ {"mergedFrom", "components", "totals"} \intersect DOMAIN in = {}
    /\ \A array \in Arrays \ {"mergedFrom"} : Keyed(array, in[array])
    /\ \A f \in ToSet(in.findings) : Measured(f)
    /\ \A record \in ToSet(in.findings) \union ToSet(in.stale) : record.analyzer = 0

(* A finding at the root of its component has what deleting it removes: as *)
(* many lines as the component's declarations span, each counted once      *)
(* (finding.schema.json, deletable_lines).                                 *)
Spanned(position) == {<<position.path, n>> : n \in position.line .. position.end}
LinesRemoved(component) == Cardinality(UNION {Spanned(p) : p \in ToSet(Declarations[component])})
ASSUME RootsAreMeasured ==
  \A in \in Inputs : \A f \in ToSet(in.findings) : f.root => f.lines = LinesRemoved(f.component)

(* A document is read in the order it was written in: Decode does not sort *)
(* it, and a report a product writes is in canonical order (merge.md).  No *)
(* two of the reports it was merged from share a name, and a record of a   *)
(* report that was not merged names no analyzer (report.schema.json).      *)
ASSUME DocumentsAreCanonical ==
  \A document \in Documents :
    /\ Arrays \union {"components", "totals"} \subseteq DOMAIN document
    /\ \A array \in {"findings", "evaluations", "stale"} : Keyed(array, document[array])
    /\ \A f \in ToSet(document.findings) : Measured(f)
    /\ document.totals = [total \in DOMAIN document.totals |-> document.totals[total]]
    /\ "omitted" \in DOMAIN document.totals /\ document.totals.omitted \in Nat
    /\ ListsEveryComponent(document) => document = Order(document)
    /\ IF document.mergedFrom = None
         THEN \A record \in ToSet(document.findings) \union ToSet(document.stale) : record.analyzer = 0
         ELSE /\ Keyed("mergedFrom", document.mergedFrom)
              /\ \A i, j \in DOMAIN document.mergedFrom :
                   document.mergedFrom[i].id = document.mergedFrom[j].id => i = j
              /\ \A m \in ToSet(document.mergedFrom) : m.id # 0

VARIABLES
  input,       \* what the analysis answered, or the document read
  report,      \* None before, and where it was refused
  phase,       \* "answered", "refused", "held", "written", "unwritten", "rendered"
  caps,        \* how many caps were applied, their maxima and whether by size
  rendering    \* the rendering and its format, None before

vars == <<input, report, phase, caps, rendering>>

NoCaps == [count |-> 0, most |-> {}, bySize |-> {}]

Init ==
  /\ input \in Inputs \union Documents
  /\ report = None /\ phase = "answered" /\ caps = NoCaps /\ rendering = None

IsDocument == "totals" \in DOMAIN input

RefuseInput ==
  /\ phase = "answered"
  /\ IF IsDocument THEN ~ ListsEveryComponent(input) ELSE Refused(input)
  /\ phase' = "refused"
  /\ UNCHANGED <<input, report, caps, rendering>>

Assemble ==
  /\ phase = "answered" /\ ~ IsDocument /\ ~ Refused(input)
  /\ report' = Build(input)
  /\ phase' = "held"
  /\ UNCHANGED <<input, caps, rendering>>

Decode ==
  /\ phase = "answered" /\ IsDocument /\ ListsEveryComponent(input)
  /\ report' = input
  /\ phase' = "held"
  /\ UNCHANGED <<input, caps, rendering>>

OrderAgain ==
  /\ phase = "held"
  /\ report' = Order(report)
  /\ UNCHANGED <<input, phase, caps, rendering>>

CapFindings(most, bySize) ==
  /\ phase = "held" /\ caps.count < MaxCaps
  /\ report' = Cap(report, most, bySize)
  /\ caps' = [count |-> caps.count + 1, most |-> caps.most \union {most}, bySize |-> caps.bySize \union {bySize}]
  /\ UNCHANGED <<input, phase, rendering>>

Encode ==
  /\ phase = "held"
  /\ phase' = IF ListsEveryComponent(report) THEN "written" ELSE "unwritten"
  /\ UNCHANGED <<input, report, caps, rendering>>

RenderAs(format, bySize) ==
  /\ phase = "held"
  /\ rendering' = [format |-> format, made |-> Render(format, report, bySize, Files)]
  /\ phase' = "rendered"
  /\ UNCHANGED <<input, report, caps>>

Next ==
  \/ RefuseInput \/ Assemble \/ Decode \/ OrderAgain \/ Encode
  \/ \E most \in Most, bySize \in BOOLEAN : CapFindings(most, bySize)
  \/ \E format \in {"text", "github", "sarif", "template"}, bySize \in BOOLEAN : RenderAs(format, bySize)

Spec == Init /\ [][Next]_vars

-----------------------------------------------------------------------------
Held == report # None
Findings == ToSet(report.findings)

(* The findings the report was assembled from, capped or not. *)
All == ToSet(input.findings)
RootsNamed == {f.component : f \in {g \in All : g.root}}

(* The totals say what the whole run found whatever was capped: the        *)
(* findings printed and the omitted ones, every line of a root component's *)
(* declarations once, the dead evaluations; so the verdict is the run's.   *)
(* Of a document's, only how many are omitted changes.                     *)
LeftOut == Len(input.findings) - Len(report.findings)
TotalsDescribeTheRun ==
  Held =>
    LET t == report.totals
    IN  IF IsDocument THEN t = [input.totals EXCEPT !.omitted = @ + LeftOut]
        ELSE
          /\ t.findings = Len(input.findings) /\ t.omitted = LeftOut
          /\ \A s \in DOMAIN t.severity :
               t.severity[s] = Cardinality({i \in DOMAIN input.findings : input.findings[i].severity = s})
          /\ t.lines = SumFunction([c \in RootsNamed |-> LinesRemoved(c)])
          /\ t.pending = Cardinality({i \in DOMAIN input.evaluations : input.evaluations[i].state = "dead"})
          /\ \A failOn \in ToSet(Severities) :
               Verdict(t, failOn) =
                 CASE t.pending > 0 -> "pending"
                   [] t.pending = 0 /\ \/ input.stale # << >>
                                       \/ \E f \in All, i, j \in DOMAIN Severities :
                                            i <= j /\ failOn = Severities[i] /\ f.severity = Severities[j] -> "findings"
                   [] OTHER -> "clean"

(* A listing that was exact stays so: one entry for each component a       *)
(* finding or a dead evaluation names, in the order of the first naming    *)
(* it, with the members the analysis gave; so a report is not written only *)
(* where the analysis gave a component it names no members, and a cap      *)
(* leaves no entry behind.                                                 *)
Position(s, x) == CHOOSE i \in DOMAIN s : s[i] = x /\ \A j \in 1 .. i - 1 : s[j] # x
ListingIsExact ==
  Held /\ report.components # None =>
    LET named == ComponentsNamed(report)
        given == IF IsDocument THEN MembersOf(input) ELSE input.members
        listed == report.components
    IN  /\ \A i \in DOMAIN listed : listed[i].members = given[listed[i].id]
        /\ {listed[i].id : i \in DOMAIN listed} = ToSet(named) \intersect DOMAIN given
        /\ \A i, j \in DOMAIN listed : i < j => Position(named, listed[i].id) < Position(named, listed[j].id)
        /\ phase = "unwritten" => ~ ToSet(named) \subseteq DOMAIN given

(* A report does not depend on the order its records arrived in, where an  *)
(* array lists no identifier twice, and putting it in order again changes  *)
(* nothing.                                                                *)
Arrivals(array) ==
  LET s == input[array]
      twice == array \in ById /\ \E i, j \in DOMAIN s : i # j /\ s[i].id = s[j].id
  IN  {[i \in DOMAIN s |-> s[p[i]]] : p \in {q \in [DOMAIN s -> DOMAIN s] : IsInjective(q) /\ (twice => \A i \in DOMAIN s : q[i] = i)}}
ArrivalDoesNotMatter ==
  /\ Held => report = Order(report)
  /\ phase = "held" /\ ~ IsDocument /\ caps = NoCaps =>
       \A findings \in Arrivals("findings"), evaluations \in Arrivals("evaluations"),
          notes \in Arrivals("notes"), configurations \in Arrivals("configurations") :
         report = Build([input EXCEPT !.findings = findings, !.evaluations = evaluations,
                                      !.notes = notes, !.configurations = configurations])

(* What was left out is no larger than what is kept, where every cap was   *)
(* by size, and canonically after it where none was; and the rest is what  *)
(* the smallest maximum admits.                                            *)
Larger(f, g) ==
  \/ f.lines > g.lines
  \/ f.lines = g.lines /\ f.size > g.size
Maxima == {n \in caps.most : n > 0}
KeepsTheLargest ==
  Held =>
    /\ Findings \subseteq All
    /\ Len(report.findings) =
         LET all == Len(input.findings) IN IF Maxima = {} \/ all <= Min(Maxima) THEN all ELSE Min(Maxima)
    /\ \A f \in Findings, g \in All \ Findings :
         /\ caps.bySize \subseteq {TRUE} => ~ Larger(g, f)
         /\ caps.bySize \subseteq {FALSE} => ~ Precedes(CompareFindings(g), CompareFindings(f))

(* What keeps a record out of a log: no run, no rule in its run, no line. *)
Carries(record, m) == m.id = record.analyzer
Applies(r, kind, record) ==
  IF r.mergedFrom = None THEN kind \in Applying(r.languages)
  ELSE record.analyzer = 0 \/ \E m \in ToSet(r.mergedFrom) : Carries(record, m) /\ kind \in Applying(m.languages)
LoneFeeds(content) == {i \in DOMAIN content : content[i] = LF /\ ~ AfterReturn(content, i)}
LinesIn(content) == 1 + Cardinality(LoneFeeds(content) \union {i \in DOMAIN content : content[i] = CR})
Unplaceable(r, record) ==
  \/ r.mergedFrom # None /\ record.analyzer # 0 /\ ~ \E m \in ToSet(r.mergedFrom) : Carries(record, m)
  \/ ~ \E kind \in Kinds : kind.code = record.code /\ Applies(r, kind, record)
  \/ record.path \notin DOMAIN Files
  \/ record.path \in DOMAIN Files /\ record.line \notin 1 .. LinesIn(Files[record.path])

(* What a record and a result say alike, and the places of each. *)
Mention(analyzer, symbol, place) == <<analyzer, symbol, place.path, place.line>>
RecordPlaces(r) == ({"finding"} \X DOMAIN r.findings) \union ({"stale"} \X DOMAIN r.stale)
RecordAt(r, p) == IF p[1] = "finding" THEN r.findings[p[2]] ELSE r.stale[p[2]]
MentionOf(r, p) == LET record == RecordAt(r, p) IN Mention(record.analyzer, <<record.code, record.ref>>, record)
ResultPlaces(log) == UNION {{i} \X DOMAIN log.runs[i].results : i \in DOMAIN log.runs}
ResultAt(log, p) == log.runs[p[1]].results[p[2]]
MentionBy(log, p) == Mention(log.runs[p[1]].driver, ResultAt(log, p).symbol, ResultAt(log, p))

(* The file checked out with a carriage return before every line feed. *)
WithCarriageReturns(content) ==
  LET units == {2 * i : i \in DOMAIN content}
      returns == {2 * i - 1 : i \in LoneFeeds(content)}
      places == Rising(units \union returns)
  IN  [k \in DOMAIN places |-> IF places[k] \in returns THEN CR ELSE content[places[k] \div 2]]

(* A log holds every record once, in the run of the analyzer that carried  *)
(* it and under a rule of its code, with a fingerprint no other line of    *)
(* its file has and no line ending changes; and there is no log exactly    *)
(* where a record has no run, no rule in its run, or no line.              *)
EachRecordPlacedOnce ==
  rendering # None /\ rendering.format = "sarif" =>
    LET log == rendering.made
    IN  /\ log = Failed <=> \E p \in RecordPlaces(report) : Unplaceable(report, RecordAt(report, p))
        /\ log # Failed =>
             /\ \A mention \in {MentionOf(report, p) : p \in RecordPlaces(report)} \union {MentionBy(log, p) : p \in ResultPlaces(log)} :
                  Cardinality({p \in ResultPlaces(log) : MentionBy(log, p) = mention}) =
                    Cardinality({p \in RecordPlaces(report) : MentionOf(report, p) = mention})
             /\ \A p \in ResultPlaces(log) : log.runs[p[1]].rules[ResultAt(log, p).rule] = ResultAt(log, p).code
             /\ \A p, q \in ResultPlaces(log) :
                  ResultAt(log, p).path = ResultAt(log, q).path =>
                    (ResultAt(log, p).line = ResultAt(log, q).line <=> ResultAt(log, p).hash = ResultAt(log, q).hash)
        /\ \A path \in DOMAIN Files : LineHashes(WithCarriageReturns(Files[path])) = LineHashes(Files[path])
=============================================================================
