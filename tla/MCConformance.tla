--------------------------- MODULE MCConformance ---------------------------
(***************************************************************************)
(* Conformance over fixtures of two rows.  Sites 1 and 2 are the rows'     *)
(* positions and 3 the configuration document's; A and B are two codes.    *)
(***************************************************************************)
EXTENDS Conformance

Reports(symbol, code, site) ==
  [symbol |-> symbol, report |-> code, confidence |-> "certain", retained |-> {},
   site |-> site, entry |-> None]
Silent(symbol, site, classes) ==
  [symbol |-> symbol, report |-> None, confidence |-> None, retained |-> classes,
   site |-> site, entry |-> None]
Configured(symbol, code) ==
  [symbol |-> symbol, report |-> code, confidence |-> IF code = None THEN None ELSE "certain",
   retained |-> {}, site |-> 0, entry |-> "entry"]

Fixture(rows) ==
  [rows |-> rows, pending |-> FALSE, skips |-> {}, notes |-> {}, conventions |-> {}, disabled |-> {},
   evaluations |-> {}, facts |-> {}, generated |-> {}, notBuilt |-> {}, inEffect |-> {},
   setup |-> {}]

First == Reports("first", "A", 1)
RowExpectations ==
  {Fixture(<<First, row>>) :
     row \in {Silent("second", 2, {}), Silent("second", 2, {"X"}), Reports("second", "B", 2),
              Reports("second", "A", 2),
              Reports("second", StaleCode, 2), Configured("second", RootCode),
              Configured("second", None)}}
  \union {[Fixture(<<First>>) EXCEPT !.pending = TRUE]}

Gap(symbol, capability) == [symbol |-> symbol, capability |-> capability]
RowGaps ==
  {<< >>, <<Gap(None, "A")>>, <<Gap("second", "A")>>, <<Gap("second", "B")>>, <<Gap(None, "X")>>,
   <<Gap(None, StaleCode)>>, <<Gap("second", RootCode), Gap("first", "A")>>}

Finding(code, site, ref, shape, confidence) ==
  [code |-> code, site |-> site, ref |-> ref, path |-> "file", shape |-> shape, confidence |-> confidence]
Stale(site) == Finding(StaleCode, site, None, "row", "certain")

Analysis(findings, stale, classes) ==
  [findings |-> findings, stale |-> stale, retained |-> [s \in 1 .. 2 |-> IF s = 2 THEN classes ELSE {}],
   skips |-> {}, notes |-> << >>, conventions |-> {},
   evaluations |-> << >>, facts |-> {}, notBuilt |-> << >>, inEffect |-> 0]

RowFindings ==
  {Finding("A", 1, "p", "declaration", "certain"), Finding("A", 1, "p", "declaration", "possible"),
   Finding("A", 1, "p", "row", "certain"), Finding("B", 1, "p", "declaration", "certain"),
   Finding("B", 2, "q", "declaration", "certain"), Finding("A", 2, "p", "declaration", "certain"),
   Finding(RootCode, 3, "entry", "row", "certain"), Finding(StaleCode, 2, None, "row", "certain"),
   Finding(RootCode, 1, "entry", "row", "certain")}
RowAnalyses ==
  {Analysis(findings, << >>, classes) : findings \in BoundedSeq(RowFindings, 2), classes \in {{}, {"X"}}}
  \union {Analysis(findings, stale, {}) :
            findings \in BoundedSeq(RowFindings, 1),
            stale \in {<<Stale(1)>>, <<Stale(2)>>, <<Stale(2), Stale(2)>>}}

(* The members of a fixture besides its rows. *)
Members ==
  [Fixture(<<First>>) EXCEPT !.skips = {2}, !.notes = {"note"}, !.conventions = {"row"},
                             !.disabled = {"other"}, !.inEffect = {0}]
MemberExpectations == {Members, [Members EXCEPT !.notes = {}, !.conventions = {}]}
MemberGaps ==
  {<< >>, <<Gap(None, SkipGap)>>, <<Gap(None, "note")>>, <<Gap(None, "other")>>, <<Gap(None, "row")>>,
   <<Gap("first", "A"), Gap(None, SkipGap)>>}
MemberAnalyses ==
  {[Analysis(findings, << >>, {}) EXCEPT !.skips = skips, !.notes = notes, !.conventions = rows,
                                         !.inEffect = count] :
     findings \in {<< >>, <<Finding("A", 1, "p", "declaration", "certain")>>},
     skips \in SUBSET {2}, notes \in {<< >>, <<"note">>, <<"note", "note">>},
     rows \in SUBSET {"row"}, count \in 0 .. 1}

(* A fixture of two edge sides and one of three facts. *)
Site1 == [code |-> "A", site |-> 1]
Evaluated(side, state, finding) == [edge |-> "edge", side |-> side, state |-> state, finding |-> finding]
EdgeFixture ==
  [Fixture(<<First>>) EXCEPT
     !.evaluations = {[edge |-> "edge", side |-> "a", state |-> "dead", report |-> "A", site |-> {1}],
                      [edge |-> "edge", side |-> "b", state |-> "alive", report |-> None, site |-> {}]},
     !.notBuilt = {<<"x", "y">>}]
EdgeAnalyses ==
  {[Analysis(<<Finding("A", 1, "p", "declaration", "certain")>>, << >>, {}) EXCEPT
      !.evaluations = list, !.notBuilt = dropped] :
     list \in BoundedSeq({Evaluated("a", "dead", {}), Evaluated("a", "dead", {Site1}),
                          Evaluated("a", "dead", {[Site1 EXCEPT !.site = 2]}),
                          Evaluated("a", "alive", {}), Evaluated("b", "alive", {}),
                          Evaluated("c", "alive", {})}, 3),
     dropped \in {<<"x", "y">>, <<"y", "x">>}}

Wanted(role, ref) ==
  [role |-> role, ref |-> ref, languages |-> {}, absent |-> FALSE, members |-> "m",
   generated |-> Unnamed, file |-> "file", report |-> {}, site |-> 1]
FactsFixture ==
  [Fixture(<<First>>) EXCEPT
     !.facts = {[Wanted("schema", "s") EXCEPT !.report = {"A"}], Wanted("consumer", "c"),
                [Wanted("consumer", "d") EXCEPT !.absent = TRUE],
                [Wanted("schema", "e") EXCEPT !.languages = {"ts"}]},
     !.generated = {"g"}]
Binding(role, ref, members, generated, finding) ==
  [role |-> role, ref |-> ref, members |-> members, generated |-> generated, finding |-> finding]
FactsAnalyses ==
  {[Analysis(<<Finding("A", 1, "p", "declaration", "certain")>>, << >>, {}) EXCEPT
      !.facts = doc] :
     doc \in {{}} \union {{[bindings |-> list, generated |-> entries]} :
       list \in BoundedSeq({Binding("schema", "s", "m", Unnamed, {Site1}),
                            Binding("schema", "s", "m", Unnamed, {}),
                            Binding("schema", "s", "n", Unnamed, {Site1}),
                            Binding("consumer", "c", "m", "file", {}),
                            Binding("consumer", "c", "m", Unnamed, {}),
                            Binding("consumer", "d", "m", "file", {}),
                            Binding("schema", "e", "m", Unnamed, {})}, 3),
       entries \in {<< >>, <<"g">>, <<"g", "g">>, <<"g", "h">>}}}

(* A run that must fail, naming two files. *)
SetupFixture == [Fixture(<< >>) EXCEPT !.setup = {[class |-> "C", names |-> {"m", "n"}]}]
Line(group, class, names) == [group |-> group, class |-> class, names |-> names]
SetupGaps == {<< >>, <<Gap(None, "C")>>, <<Gap(None, "A")>>}
SetupRuns ==
  {[exit |-> exit, findings |-> findings, stale |-> << >>, lines |-> lines] :
     exit \in {"clean", "failure"},
     findings \in {<< >>, <<Finding("A", 1, "p", "declaration", "certain")>>},
     lines \in BoundedSeq({Line("setup", "C", {"m", "n"}), Line("setup", "C", {"m"}),
                           Line("setup", "D", {"m", "n"}), Line("run", "C", {"m", "n"}),
                           Line(Unnamed, "C", {"m", "n"})}, 2)}

(* Two products over one fixture. *)
PairExpectations ==
  {Fixture(<<First, Silent("second", 2, {"X"})>>),
   [Fixture(<<First, Silent("second", 2, {"X"})>>) EXCEPT !.pending = TRUE]}
PairGaps == {<< >>, <<Gap(None, "A")>>, <<Gap(None, "X")>>}
PairAnalyses ==
  {Analysis(findings, << >>, classes) :
     findings \in {<< >>} \union {<<f>> : f \in {Finding("A", 1, "p", "declaration", "certain"),
       Finding("A", 1, "p", "declaration", "possible"),
       Finding("B", 1, "p", "declaration", "certain"), Finding("B", 2, "q", "declaration", "certain")}},
     classes \in {{}, {"X"}}}

Scenario(expectations, products, lists, analyses) ==
  {[expect |-> e, language |-> "go", products |-> products, gaps |-> lists, analyses |-> analyses] : e \in expectations}

RowScenarios == Scenario(RowExpectations, {"p"}, RowGaps, RowAnalyses)
MemberScenarios == Scenario(MemberExpectations, {"p"}, MemberGaps, MemberAnalyses)
LoneScenarios == Scenario(PairExpectations, {"p"}, PairGaps, PairAnalyses)
PairScenarios == Scenario(PairExpectations, {"p", "q"}, PairGaps, PairAnalyses)
ListedScenarios ==
  Scenario({EdgeFixture}, {"p"}, {<< >>}, EdgeAnalyses)
    \union Scenario({FactsFixture}, {"p"}, {<< >>}, FactsAnalyses)
    \union Scenario({SetupFixture, [SetupFixture EXCEPT !.pending = TRUE]}, {"p"}, SetupGaps, SetupRuns)
AllScenarios == RowScenarios \union MemberScenarios \union ListedScenarios \union PairScenarios

SecondReports == {<<1, "A">>, <<1, "B">>}
=============================================================================
