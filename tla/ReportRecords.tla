--------------------------- MODULE ReportRecords ---------------------------
(***************************************************************************)
(* The rules package report applies to every report (src/report: order.go, *)
(* build.go, codec.go, report.go).                                         *)
(*                                                                         *)
(* A report is a record of its arrays, its components listing and its      *)
(* totals.  Strings are their ranks (Ordering); a finding's line stands    *)
(* for its line and column; enc is the rank of a record's compact          *)
(* encoding, which tells records of one key apart.                         *)
(***************************************************************************)
EXTENDS Ordering

Severities == <<"allow", "warn", "deny">>

ById == {"mergedFrom", "configurations", "notBuilt", "loaded", "unavailable"}
Listed == {"excluded", "testRules", "skips", "notes", "questions", "conventions"}
Arrays == ById \union Listed \union {"findings", "stale", "gaps", "evaluations", "languages"}

-----------------------------------------------------------------------------
CompareFindings(f) == <<f.path, f.line, f.code, f.ref, f.analyzer>>
CompareEvaluations(e) == <<e.edge, e.side, e.analyzer>>

(* Bug: ties left as they arrived. *)
WithoutEncoding(r, key) == key

WithEncoding(r, key) == Append(key, r.enc)

(* What an array is sorted by: SortTotal and Distinct break ties by the    *)
(* records' encodings, and the arrays sorted by identifier keep theirs.    *)
SortKey(array, e) ==
  CASE array \in ById -> <<e.id>>
    [] array \in Listed -> WithEncoding(e, <<e.key>>)
    [] array \in {"findings", "stale"} -> WithEncoding(e, CompareFindings(e))
    [] array = "gaps" -> WithEncoding(e, <<e.analyzer>>)
    [] array = "evaluations" -> WithEncoding(e, CompareEvaluations(e))
    [] OTHER -> Unary(e)
Sorted(array, list) == SortOn(list, LAMBDA e : SortKey(array, e))

(* What Order leaves of each array. *)
Canonical(array, list) ==
  IF array \notin Arrays \/ (array = "mergedFrom" /\ list = None) THEN list
  ELSE IF array \in Listed \union {"languages"} THEN Once(Sorted(array, list))
  ELSE Sorted(array, list)

(* The components the findings and then the evaluations' findings name. *)
ComponentsNamed(r) ==
  [i \in DOMAIN r.findings |-> r.findings[i].component]
  \o LET carrying == Selected(r.evaluations, {i \in DOMAIN r.evaluations : r.evaluations[i].component # 0})
     IN  [i \in DOMAIN carrying |-> carrying[i].component]

Listing(r, members) ==
  LET named == ComponentsNamed(r)
      listed == Selected(named, {i \in Firsts(named) : named[i] \in DOMAIN members})
  IN  [i \in DOMAIN listed |-> [id |-> listed[i], members |-> members[listed[i]]]]

(* The members each listed component holds: where one is listed twice, the *)
(* later entry's.                                                          *)
MembersOf(r) ==
  [c \in {r.components[i].id : i \in DOMAIN r.components} |->
     r.components[SelectLastInSeq(r.components, LAMBDA e : e.id = c)].members]

Relisted(r) == IF r.components = None THEN r ELSE [r EXCEPT !.components = Listing(r, MembersOf(r))]

Order(r) == Relisted([member \in DOMAIN r |-> Canonical(member, r[member])])

-----------------------------------------------------------------------------
(* The totals the records decide. *)
BySeverity(findings) ==
  [s \in ToSet(Severities) |-> Cardinality({i \in DOMAIN findings : findings[i].severity = s})]

(* Bug: the lines of every finding added up. *)
EveryFindingsLines(findings) == SumFunction([i \in DOMAIN findings |-> findings[i].lines])

(* Each root component's lines once, as the first finding naming it has them. *)
DeletableLines(findings) ==
  SumFunction([c \in {findings[i].component : i \in {j \in DOMAIN findings : findings[j].root}} |->
                 findings[SelectInSeq(findings, LAMBDA f : f.root /\ f.component = c)].lines])

Recount(r) ==
  [r EXCEPT !.totals = [@ EXCEPT !.findings = Len(r.findings), !.severity = BySeverity(r.findings),
                                 !.lines = DeletableLines(r.findings), !.stale = Len(r.stale)]]

-----------------------------------------------------------------------------
ConsumersDeclared(in) == Len(in.loaded) + Len(in.unavailable)

Refused(in) ==
  \E i \in DOMAIN in.notBuilt, j \in DOMAIN in.configurations : in.notBuilt[i].id = in.configurations[j].id

(* The report of one analysis that is not refused: its records, in order,  *)
(* the components they name, and the totals.                               *)
Assembled(in) ==
  [member \in (DOMAIN in \ {"members", "uncounted"}) \union {"mergedFrom", "components", "declared", "totals"} |->
     CASE member \in {"mergedFrom", "components"} -> None
       [] member = "declared" -> ConsumersDeclared(in)
       [] member = "totals" ->
            [omitted |-> 0, severity |-> << >>, findings |-> 0, lines |-> 0, stale |-> 0, pending |-> 0,
             inEffect |-> in.uncounted.inEffect, reasons |-> in.uncounted.reasons, withheld |-> in.uncounted.withheld]
       [] OTHER -> in[member]]

Completed(assembled, members) ==
  LET listed == IF members = None THEN assembled
                ELSE [assembled EXCEPT !.components = Listing(assembled, members)]
      dead == {i \in DOMAIN assembled.evaluations : assembled.evaluations[i].state = "dead"}
  IN  [Recount(listed) EXCEPT !.totals = [@ EXCEPT !.pending = Cardinality(dead)]]

Build(in) == Completed(Order(Assembled(in)), in.members)

(* Bug: the size of the subject before the lines its component removes. *)
BySubject(findings) == SortOn(findings, LAMBDA f : <<- f.size, - f.lines>> \o CompareFindings(f))

(* The order reporters.sort size renders findings in. *)
BySize(findings) == SortOn(findings, LAMBDA f : <<- f.lines, - f.size>> \o CompareFindings(f))

(* Bug: the components listing left as it was. *)
CapAlone(r, most, bySize) ==
  IF most <= 0 \/ Len(r.findings) <= most THEN r
  ELSE LET ranked == IF bySize THEN BySize(r.findings) ELSE r.findings
       IN  [r EXCEPT !.findings = Sorted("findings", SubSeq(ranked, 1, most)),
                     !.totals.omitted = @ + Len(r.findings) - most]

Cap(r, most, bySize) ==
  IF most <= 0 \/ Len(r.findings) <= most THEN r
  ELSE LET ranked == IF bySize THEN BySize(r.findings) ELSE r.findings
       IN  Relisted([r EXCEPT !.findings = Sorted("findings", SubSeq(ranked, 1, most)),
                              !.totals.omitted = @ + Len(r.findings) - most])

-----------------------------------------------------------------------------
(* What Encode, Decode and Validate hold a listing to beyond the schema. *)
ListsEveryComponent(r) ==
  \/ r.components = None
  \/ LET ids == [i \in DOMAIN r.components |-> r.components[i].id]
     IN  IsInjective(ids) /\ ToSet(ids) = ToSet(ComponentsNamed(r))

(* The sweep over positions ordered by path and line: where the last one   *)
(* reached, and how many lines so far.                                     *)
DistinctLines(positions) ==
  LET ordered == SortOn(positions, LAMBDA p : <<p.path, p.line>>)
      Swept(held, i) ==
        LET p == ordered[i]
        IN  CASE i = 1 \/ p.path # ordered[i - 1].path \/ p.line > held.last ->
                   [lines |-> held.lines + p.end - p.line + 1, last |-> p.end]
              [] ~ (i = 1 \/ p.path # ordered[i - 1].path \/ p.line > held.last) /\ p.end > held.last ->
                   [lines |-> held.lines + p.end - held.last, last |-> p.end]
              [] OTHER -> held
  IN  FoldLeft(Swept, [lines |-> 0, last |-> 0], [i \in DOMAIN ordered |-> i]).lines

(* What a report of withheld findings names: the counts, and the minimum   *)
(* that shows them, the lowest of them.                                    *)
WithheldLine(withheld) ==
  LET named == SelectSeq(<<"probable", "possible">>, LAMBDA c : withheld[c] > 0)
  IN  IF named = << >> THEN None
      ELSE [counts |-> [c \in ToSet(named) |-> withheld[c]], shownWith |-> named[Len(named)]]
=============================================================================
