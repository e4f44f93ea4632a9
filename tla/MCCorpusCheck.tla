--------------------------- MODULE MCCorpusCheck ---------------------------
(***************************************************************************)
(* Corpora of one fixture and of two, over three kinds of the registry:    *)
(* DS1002 reports a declaration, DS1501 one the analysis holds live, and   *)
(* DS1601 a file, with the constraint that excludes it in Go alone.        *)
(***************************************************************************)
EXTENDS CorpusCheck

Pinned(required, languages) == [required |-> required, languages |-> languages]
KnownKinds ==
  [DS1002 |-> [holdsLive |-> FALSE, fixabilities |-> {"deletable", "manual"},
               details |-> "name_literal" :> Pinned(FALSE, {})],
   DS1501 |-> [holdsLive |-> TRUE, fixabilities |-> {"narrowable"},
               details |-> [name_literal |-> Pinned(FALSE, {}), narrower_visibility |-> Pinned(TRUE, {})]],
   DS1601 |-> [holdsLive |-> FALSE, fixabilities |-> {"deletable"},
               details |-> "excluded_by" :> Pinned(FALSE, {"go"})]]
KnownSubjects == [function |-> "declaration", file |-> "file", message |-> "declaration"]
KnownKindLanguages == [message |-> {"proto"}]
KnownVocabulary ==
  [languages |-> {"go", "ts", "proto"}, target_kind |-> {"application", "library"},
   severity |-> {"DS1002", "DS1501", "DS1601"}, symbol_kind |-> {"function", "file", "message"},
   confidence |-> {"certain"}, reachability_class |-> {"certain"}, liveness_relation |-> {"references"},
   retained_by |-> {"tests"}] @@ ("target_kind language" :> {"go", "ts"})
KnownRules == [both |-> {"go", "ts"}, own |-> {"go"}]

KnownNames == <<"A", "B", "C">>
Empty == [x \in {} |-> x]
Reporting(symbol, code) ==
  [symbol |-> symbol, literal |-> None, report |-> code, values |-> Empty, retainedBy |-> {},
   configurations |-> << >>, details |-> {}, counts |-> FALSE]
Row(symbol) == Reporting(symbol, "none")
Fact(role, symbol, via) ==
  [role |-> role, symbol |-> symbol, via |-> via, carried |-> << >>, languages |-> << >>, report |-> None]
Evaluation(edge, side, symbol) == [edge |-> edge, side |-> side, symbol |-> symbol]

Serializer(name) == [key |-> "serializers", list |-> None, entry |-> name, members |-> {}]
Lifecycle(list, name) == [key |-> "lifecycle_contracts", list |-> list, entry |-> name, members |-> {"start"}]

Expect(languages, rows) ==
  [name |-> "one", languages |-> languages, rules |-> {}, pending |-> FALSE, consumers |-> {},
   setup |-> None, closedWorld |-> {}, targetKind |-> [perLanguage |-> None, one |-> "library"],
   severity |-> {}, members |-> {}, rows |-> rows, skips |-> << >>, evaluations |-> << >>,
   facts |-> << >>, roots |-> {}, declarations |-> {}, entryLanguage |-> Empty, meetsSchema |-> TRUE,
   patterns |-> [n \in {"A", "B", "C"} |-> n], declared |-> [n \in {"A", "B", "C"} |-> Serializer(n)]]

Code == <<"target", "code">>
At(file, line) == [file |-> file, line |-> line, ref |-> FALSE]
Lines == [A |-> 1, B |-> 2, C |-> 3]
Exact(expect, language) ==
  [name \in BoundNames(expect, language) \cup EvaluatedBy(expect) |->
     [At(Code, Lines[name]) EXCEPT !.ref = name \in FactsNamed(expect, language)]]
Manifest(symbols) ==
  [malformed |-> FALSE, meetsSchema |-> TRUE, symbols |-> symbols, built |-> << >>, dropped |-> << >>]
GoModule(path, requires, replaces) == [path |-> path, requires |-> requires, replaces |-> replaces]
Rendering(symbols) ==
  [manifest |-> Manifest(symbols), files |-> (Code :> 3) @@ (<<"", "manifest">> :> 9),
   modules |-> "target" :> GoModule("t", {}, Empty), uses |-> None, installed |-> {}, edges |-> None]

Entry(name, expect, renderings) ==
  [name |-> name, isDir |-> TRUE, expect |-> expect,
   renderings |-> [form \in {"go", "ts"} |-> IF form \in DOMAIN renderings THEN renderings[form] ELSE None]]
Fixture(expect) ==
  Entry("one", expect, [l \in Range(expect.languages) |-> Rendering(Exact(expect, l))])
GoRendered(expect, rendering) == Entry("one", expect, "go" :> rendering)

---------------------------------------------------------------------------
(* The uses of up to three names, and manifests that place them and nearly. *)
Named1 == [Expect(<<"ts">>, << >>) EXCEPT !.entryLanguage = [n \in {"A", "B", "C"} |-> "ts"]]
NameUses ==
  {[Named1 EXCEPT !.rows = rows, !.skips = skips, !.evaluations = evaluations, !.facts = facts,
                  !.roots = configured[1], !.declarations = configured[2]] :
     rows \in {<<Row("A")>>, <<Row("A"), Row("B")>>, <<Row("A"), Row("A")>>,
               <<[Row("A") EXCEPT !.literal = "B"], [Row("B") EXCEPT !.literal = "C"]>>,
               <<[Row("A") EXCEPT !.literal = "C"], [Row("B") EXCEPT !.literal = "C"]>>},
     skips \in {<< >>, <<"B">>, <<"C">>},
     evaluations \in {<< >>, <<Evaluation("e", "provides", "A")>>, <<Evaluation("e", "provides", "C")>>},
     facts \in {<< >>, <<Fact("r", "A", <<"C">>)>>, <<Fact("r", "B", << >>), Fact("r", "B", <<"C">>)>>},
     configured \in {<<{}, {}>>, <<{"A"}, {}>>, <<{}, {"A"}>>, <<{"B"}, {"A"}>>}}
NearlyExact(expect) ==
  LET exact == Exact(expect, "ts")
  IN  {exact, [n \in DOMAIN exact |-> [exact[n] EXCEPT !.line = 1]],
       [n \in DOMAIN exact \ {"C"} |-> exact[n]],
       [n \in DOMAIN Lines |-> IF n \in DOMAIN exact THEN exact[n] ELSE At(Code, 3)]}
NameFixtures == UNION {{Entry("one", e, "ts" :> Rendering(m)) : m \in NearlyExact(e)} : e \in NameUses}

Spelled == Expect(<<"go">>, <<Row("A")>>)
SpellingFixtures ==
  {GoRendered(Spelled, [Rendering("A" :> At(file, line)) EXCEPT !.manifest.meetsSchema = file # None /\ line # None]) :
     file \in {None, Code, <<"target", "gone">>}, line \in {None, 1, 3, 4}}
  \cup {GoRendered(Spelled, [Rendering("A" :> At(Code, 0)) EXCEPT !.manifest.meetsSchema = FALSE])}

---------------------------------------------------------------------------
(* A Go rendering with a consumer and a dependency. *)
Wired == [Expect(<<"go">>, <<Row("A")>>) EXCEPT !.consumers = {"consumer"}]
WiringFixtures ==
  {GoRendered(Wired, [Rendering(Exact(Wired, "go")) EXCEPT
      !.files = (<<"consumer", "code">> :> 1) @@ (<<"lib", "code">> :> 1) @@ @,
      !.uses = uses,
      !.modules = ("target" :> target) @@ consumer @@ lib]) :
     uses \in {None, << >>, <<"target">>, <<"lib">>, <<"target", "lib">>, <<"target", "lib", "consumer">>, <<"target", Elsewhere>>},
     target \in {GoModule(p, r, s) : p \in {"t", None}, r \in {{}, {"l"}}, s \in {Empty, "l" :> "lib", "l" :> Elsewhere}},
     consumer \in {Empty, "consumer" :> GoModule("c", {"t"}, "t" :> "target"),
                   "consumer" :> GoModule("c", {}, "t" :> "target"), "consumer" :> GoModule("c", {"t"}, "t" :> "lib")},
     lib \in {Empty, "lib" :> GoModule("l", {}, Empty)}}
(* Two dependencies of one module path, and a target that is its own consumer. *)
SharedFixtures ==
  {GoRendered([Wired EXCEPT !.consumers = consumers],
              [Rendering(Exact(Wired, "go")) EXCEPT
                 !.files = (<<"lib", "code">> :> 1) @@ (<<"other", "code">> :> 1) @@ @,
                 !.uses = uses,
                 !.modules = [dir \in {"target", "lib", "other"} |->
                                IF dir = "target" THEN GoModule("t", {"l", "t"}, [l |-> "lib", t |-> "target"])
                                ELSE GoModule("l", {}, Empty)]]) :
     consumers \in {{}, {"target"}}, uses \in {None, <<"target">>, <<"target", "other">>, <<"target", "lib", "other">>}}
UnwiredFixtures ==
  {GoRendered([Wired EXCEPT !.setup = setup, !.rows = IF setup = None THEN @ ELSE << >>],
              [Rendering(IF setup = None THEN Exact(Wired, "go") ELSE Empty) EXCEPT
                 !.files = IF held THEN (<<"consumer", "code">> :> 1) @@ @ ELSE @,
                 !.uses = uses]) :
     setup \in {None, [class |-> "missing-consumer", names |-> {"consumer"}],
                [class |-> "missing-consumer", names |-> {"other"}], [class |-> "build", names |-> {}]},
     held \in BOOLEAN, uses \in {None, <<"target">>}}

(* Build matrices and the rows that name their configurations. *)
MatrixFixtures ==
  {GoRendered([Spelled EXCEPT !.rows[1].configurations = named, !.closedWorld = world],
              [Rendering(Exact(Spelled, "go")) EXCEPT
                 !.manifest.built = built, !.manifest.dropped = dropped,
                 !.manifest.meetsSchema = (built # <<1, 1>> /\ dropped # <<3, 3>>)]) :
     named \in {<< >>, <<1>>, <<1, 2>>, <<2, 1>>, <<3>>, <<2, 2>>},
     world \in {{}, {"matrix"}},
     built \in {<< >>, <<1>>, <<1, 2>>, <<2, 1>>, <<1, 1>>, <<1, 5>>},
     dropped \in {<< >>, <<3>>, <<1>>, <<3, 3>>, <<4, 3>>}}

(* Edges documents and the evaluations that name their sides. *)
Provides == [edge |-> "e", side |-> "provides", language |-> "go"]
Uses == [edge |-> "e", side |-> "used_by", language |-> "ts"]
EdgeFixtures ==
  {Entry("one", expect, [l \in Range(languages) |-> [Rendering(Exact(expect, l)) EXCEPT !.edges = edges]]) :
     expect \in {[Expect(ls, <<Row("A")>>) EXCEPT !.evaluations = evaluations] :
                   ls \in {<<"go">>, <<"go", "ts">>},
                   evaluations \in {<< >>, <<Evaluation("e", "provides", "A")>>, <<Evaluation("e", "used_by", None)>>,
                     <<Evaluation("e", "provides", "A"), Evaluation("e", "provides", "A")>>}},
     languages \in {<<"go">>, <<"go", "ts">>},
     edges \in {None, [malformed |-> TRUE, sides |-> {}], [malformed |-> FALSE, sides |-> {Provides}],
                [malformed |-> FALSE, sides |-> {Provides, Uses}], [malformed |-> FALSE, sides |-> {}]}}

---------------------------------------------------------------------------
(* One expectation file and its near misses. *)
Two == Expect(<<"go", "ts">>, <<Reporting("A", "DS1002")>>)
Ts == Expect(<<"ts">>, <<Reporting("A", "DS1002")>>)
NearMisses(expect) ==
  {expect}
  \cup {[expect EXCEPT !.meetsSchema = FALSE, !.targetKind = kind] :
          kind \in {[perLanguage |-> None, one |-> "tool"], [perLanguage |-> "go" :> "library", one |-> None]}}
  \cup {[expect EXCEPT !.targetKind = [perLanguage |-> [go |-> "library", ts |-> "application"], one |-> None]]}
  \cup {[expect EXCEPT !.members = {m}] : m \in {"conventions_applied", "generated", "entry_files", "disabled_conventions", "consumer_tests"}}
  \cup {[expect EXCEPT !.severity = {s}] : s \in {"DS1002", "DS9999"}}
  \cup {[expect EXCEPT !.rows[1].values = v] :
          v \in {"symbol_kind" :> "function", "symbol_kind" :> "message", "fixability" :> "deletable", "fixability" :> "narrowable",
                 "liveness_relation" :> "references", ("liveness_relation" :> "references") @@ ("symbol_kind" :> "file"),
                 "confidence" :> "certain"}}
  \cup {[expect EXCEPT !.rows[1].values = "confidence" :> "sure", !.meetsSchema = FALSE]}
  \cup {[expect EXCEPT !.rows[1].retainedBy = {r}] : r \in {"tests", "habit"}}
  \cup {[expect EXCEPT !.rows[1].report = code, !.rows[1].details = d, !.rows[1].values = v] :
          code \in {"none", "DS1002", "DS1501", "DS1601", "DS9999"},
          d \in SUBSET {"name_literal", "narrower_visibility", "excluded_by"},
          v \in {Empty, "liveness_relation" :> "references"}}
  \cup {[expect EXCEPT !.rows[1].counts = TRUE], [expect EXCEPT !.rows = << >>], [expect EXCEPT !.name = "other"]}
  \cup {[expect EXCEPT !.facts = <<[Fact("r", "A", << >>) EXCEPT !.languages = ls, !.report = code]>>] :
          ls \in {<< >>, <<"go">>, <<"proto">>}, code \in {None, "DS1002", "DS9999"}}
  \cup {[expect EXCEPT !.setup = [class |-> "build", names |-> {}], !.rows = rows, !.facts = facts, !.closedWorld = w] :
          rows \in {<< >>, expect.rows}, facts \in {<< >>, <<Fact("r", "A", << >>)>>}, w \in {{}, {"roots"}}}
  \cup {[expect EXCEPT ![scope] = {"A"}, !.entryLanguage = "A" :> l, !.meetsSchema = (scope = "roots" \/ l = "ts")] :
          scope \in {"roots", "declarations"}, l \in {"go", "ts"}}
(* Configured roots and declarations, the members and the world beside them. *)
ConfiguredExpects ==
  {[Expect(languages, <<Row("A"), Row("B")>>) EXCEPT
      !.roots = configured[1], !.declarations = configured[2], !.patterns = patterns,
      !.entryLanguage = spelled, !.meetsSchema = \A n \in configured[2] : spelled[n] = "ts",
      !.declared = declared, !.members = members, !.closedWorld = world, !.consumers = consumers] :
     languages \in {<<"go">>, <<"ts">>}, spelled \in [{"A", "B"} -> {"go", "ts"}],
     configured \in {<<{"A", "B"}, {}>>, <<{"A"}, {"B"}>>, <<{}, {"A", "B"}>>},
     patterns \in {[n \in {"A", "B"} |-> n], [n \in {"A", "B"} |-> "A"]},
     declared \in {[A |-> Serializer("A"), B |-> Serializer("B")], [A |-> Serializer("A"), B |-> Lifecycle("bases", "B")],
                   [A |-> Lifecycle("components", "A"), B |-> Lifecycle("bases", "B")],
                   [A |-> Lifecycle("bases", "A"), B |-> Lifecycle("bases", "B")]},
     members \in {{}, {"entry_files", "min_confidence"}, {"import_paths"}},
     world \in {{}, {"consumers", "roots"}}, consumers \in {{}, {"consumer"}}}
ConfiguredFixtures ==
  {Entry("one", e, [l \in Range(e.languages) |->
     [Rendering(Exact(e, l)) EXCEPT
        !.files = IF e.consumers = {} THEN @ ELSE (<<"consumer", "code">> :> 1) @@ @,
        !.modules = IF e.consumers = {} THEN @ ELSE @ @@ ("consumer" :> GoModule("c", {"t"}, "t" :> "target"))]]) :
     e \in ConfiguredExpects}
(* The platforms of a matrix: an identifier that names none passes Check. *)
KnownPlatforms == 1 :> "linux-amd64" @@ 2 :> "linux-arm64" @@ 3 :> "windows-amd64"
KnownConfigKeys ==
  {<<"target", "kind">>, <<"roots", "patterns">>, <<"consumers", "complete">>, <<"proto", "import_paths">>}
  \cup {"analysis"} \X {"matrix", "configurations", "min_confidence", "consumer_tests"}
  \cup {"severity"} \X KnownVocabulary.severity
  \cup {"ts"} \X {"roots_complete", "entry_files", "disabled_conventions", "serializers", "injection_registrations",
                   "lifecycle_contracts"}

ExpectationFixtures == {Fixture(e) : e \in UNION {NearMisses(b) : b \in {Two, Ts, Spelled}}}

(* Renderings listed, present and readable, or not. *)
RenderingFixtures ==
  {Entry("one", Expect(languages, <<Row("A")>>), [go |-> go, ts |-> ts]) :
     languages \in {<<"go">>, <<"ts">>, <<"go", "ts">>, <<"proto">>},
     go \in {None, Rendering("A" :> At(Code, 1)), [Rendering("A" :> At(Code, 1)) EXCEPT !.manifest.malformed = TRUE]},
     ts \in {None, Rendering("A" :> At(Code, 1)), [Rendering("A" :> At(Code, 1)) EXCEPT !.manifest = None],
             [Rendering("A" :> At(Code, 1)) EXCEPT !.installed = {[path |-> "p", names |-> "p", private |-> TRUE, isManifest |-> TRUE]}],
             [Rendering("A" :> At(Code, 1)) EXCEPT !.installed = {[path |-> "p", names |-> "q", private |-> TRUE, isManifest |-> TRUE]}]}}

(* Fixtures that cite rules, a file among them and one that does not decode. *)
Citing(languages, rules, pending) ==
  [Expect(languages, <<Row("A")>>) EXCEPT !.rules = rules, !.pending = pending]
CitingExpects ==
  {Citing(languages, rules, pending) :
     languages \in {<<"go">>, <<"ts">>, <<"go", "ts">>},
     rules \in {{}, {"both"}, {"own"}, {"both", "own"}, {"unknown"}}, pending \in BOOLEAN}
CitingEntries(name) ==
  {[Fixture([e EXCEPT !.name = name]) EXCEPT !.name = name] : e \in CitingExpects}
  \cup {[Fixture(Spelled) EXCEPT !.name = name, !.expect = None],
        [Fixture(Spelled) EXCEPT !.name = name, !.isDir = FALSE]}

SmallCorpora ==
  {<<entry>> : entry \in NameFixtures \cup SpellingFixtures \cup WiringFixtures \cup SharedFixtures \cup UnwiredFixtures
                         \cup MatrixFixtures \cup EdgeFixtures \cup ExpectationFixtures \cup RenderingFixtures
                         \cup ConfiguredFixtures}
  \cup {<<a, b>> : a \in CitingEntries("one"), b \in CitingEntries("two")}
=============================================================================
