----------------------------- MODULE FixtureChecks -----------------------------
(***************************************************************************)
(* What one fixture is held to, src/corpus/check.go: the rules of its      *)
(* expectation file, and those of each rendering.  Each check is the set   *)
(* of the defects it names.  A rendering is None where it does not read,   *)
(* and else its manifest, its files (a function of <<directory, name>> to  *)
(* their lines, the root's directory ""), its modules and workspace, its   *)
(* installed files and its edges document.                                 *)
(***************************************************************************)
EXTENDS FixtureSites, GoWiring

CONSTANTS
  Forms,          \* the languages corpus.json states a rendering form for
  Kinds,          \* the live kinds by code
  Subjects,       \* the subject of each symbol kind
  KindLanguages,  \* the languages that declare a kind not every language does
  Vocabulary,     \* the closed values of each field
  Admitted        \* the details members the expectation schema admits

PerLanguageDetails == {"dependency_class", "excluded_by", "overlap", "replacement"}
RowsOf(expect) == Range(expect.rows)
Live(code) == code \in DOMAIN Kinds

(* absentConsumers: those a missing-consumer setup failure names. *)
AbsentConsumers(expect) ==
  IF expect.setup # None /\ expect.setup.class = "missing-consumer"
  THEN expect.consumers \cap expect.setup.names ELSE {}

(* checkSetupFailure *)
SetupErrs(expect) ==
  IF expect.setup = None
  THEN When(expect.rows = << >> /\ expect.facts = << >> /\ "generated" \notin expect.members, "no expectation", None)
  ELSE When(expect.rows # << >>, "setup and expectations", None)
       \cup When(expect.setup.class = "missing-consumer" /\ AbsentConsumers(expect) = {}, "no absent consumer", None)
       \cup {<<"setup and member", member>> : member \in
               (expect.members \ {"import_paths"})
               \cup (IF expect.closedWorld # {} THEN {"closed_world"} ELSE {})
               \cup (IF Configured(expect) # {} THEN {"configured"} ELSE {})
               \cup (IF expect.evaluations # << >> THEN {"edge_evaluations"} ELSE {})
               \cup (IF expect.facts # << >> THEN {"facts"} ELSE {})
               \cup (IF expect.skips # << >> THEN {"type_error_skips"} ELSE {})
               \cup (IF expect.severity # {} THEN {"severity"} ELSE {})}

(* checkVocabularies: the values outside their closed vocabulary. *)
Outside(field, values) == {<<"outside vocabulary", v>> : v \in values \ Vocabulary[field]}
RowValueErrs(row) ==
  When(row.report # "none" /\ ~Live(row.report), "outside vocabulary", row.report)
  \cup (UNION {Outside(field, {row.values[field]}) : field \in DOMAIN row.values \ {"fixability"}})
  \cup {<<"outside vocabulary", "fixability">> : fixability \in
          {row.values[f] : f \in DOMAIN row.values \cap {"fixability"}}
          \ (IF Live(row.report) THEN Kinds[row.report].fixabilities ELSE {})}
  \cup Outside("retained_by", row.retainedBy)
FactValueErrs(fact, languages) ==
  When(fact.report # None /\ ~Live(fact.report), "outside vocabulary", fact.report)
  \cup {<<"outside vocabulary", l>> : l \in Range(fact.languages) \ Range(languages)}
TargetKindErrs(targetKind) ==
  IF targetKind.perLanguage = None THEN Outside("target_kind", {targetKind.one})
  ELSE {<<"outside vocabulary", l>> : l \in DOMAIN targetKind.perLanguage \ Vocabulary["target_kind language"]}
       \cup {<<"outside vocabulary", l>> : l \in {l \in Vocabulary["target_kind language"] :
               l \notin DOMAIN targetKind.perLanguage \/ targetKind.perLanguage[l] \notin Vocabulary["target_kind"]}}
VocabularyErrs(expect) ==
  TargetKindErrs(expect.targetKind)
  \cup Outside("languages", Range(expect.languages)) \cup Outside("severity", expect.severity)
  \cup (UNION {RowValueErrs(row) : row \in RowsOf(expect)})
  \cup UNION {FactValueErrs(fact, expect.languages) : fact \in Range(expect.facts)}

(* The members and rows some languages alone admit. *)
ScopeErrs(expect) ==
  LET one == Len(expect.languages) = 1
      language == expect.languages[1]
      spelled(names) == {name \in names : expect.entryLanguage[name] # language}
  IN  {<<"one language", m>> : m \in IF one THEN {} ELSE {"conventions_applied", "generated"} \cap expect.members}
      \cup {<<"ts alone", m>> : m \in IF expect.languages = <<"ts">> THEN {}
                                      ELSE {"entry_files", "disabled_conventions"} \cap expect.members}
      \cup When("consumer_tests" \in expect.members /\ expect.consumers = {}, "no consumer", None)
      \cup When(expect.roots # {} /\ ~one, "roots scope", None)
      \cup {<<"root prefix", name>> : name \in IF one THEN spelled(expect.roots) ELSE {}}
      \cup {<<"declaration scope", name>> : name \in IF one THEN spelled(expect.declarations) ELSE expect.declarations}
      \cup {<<"kind scope", row.symbol>> : row \in {row \in RowsOf(expect) :
              /\ "symbol_kind" \in DOMAIN row.values /\ row.values["symbol_kind"] \in DOMAIN KindLanguages
              /\ Range(expect.languages) \ KindLanguages[row.values["symbol_kind"]] # {}}}

(* checkDetailsLanguageScope *)
DetailsScopeErrs(expect) ==
  {<<"details scope", row.symbol>> : row \in {row \in RowsOf(expect) :
     Len(expect.languages) > 1 /\ row.details \cap PerLanguageDetails # {}}}

(* checkComponentLanguageScope *)
ComponentScopeErrs(expect) ==
  {<<"component scope", row.symbol>> : row \in {row \in RowsOf(expect) : Len(expect.languages) > 1 /\ row.counts}}

(* PinnableDetails: the members a row reporting the code must pin. *)
Carried(presence, languages) ==
  IF presence.languages = {} THEN presence.required ELSE languages \subseteq presence.languages
PinnableDetails(code, languages) ==
  IF ~Live(code) THEN {}
  ELSE {m \in DOMAIN Kinds[code].details \cap Admitted :
          /\ Carried(Kinds[code].details[m], languages)
          /\ Cardinality(languages) > 1 => m \notin PerLanguageDetails}
PinnedErrs(expect) ==
  {<<"not pinned", row.symbol>> : row \in {row \in RowsOf(expect) :
     row.report # "none" /\ ~(PinnableDetails(row.report, Range(expect.languages)) \subseteq row.details)}}

(* checkLivenessRelation *)
LivenessErrs(expect) ==
  {<<"liveness relation", row.symbol>> : row \in {row \in RowsOf(expect) :
     /\ "liveness_relation" \in DOMAIN row.values
     /\ \/ Live(row.report) /\ Kinds[row.report].holdsLive
        \/ /\ "symbol_kind" \in DOMAIN row.values /\ row.values["symbol_kind"] \in DOMAIN Subjects
           /\ Subjects[row.values["symbol_kind"]] # "declaration"}}

(* checkExpectation *)
ExpectationErrs(expect) ==
  SetupErrs(expect) \cup VocabularyErrs(expect) \cup ScopeErrs(expect) \cup DetailsScopeErrs(expect)
  \cup PinnedErrs(expect) \cup ComponentScopeErrs(expect) \cup LivenessErrs(expect)

---------------------------------------------------------------------------
IndexIn(matrix, id) == IF Contains(matrix, id) THEN CHOOSE i \in DOMAIN matrix : matrix[i] = id /\ \A j \in 1 .. i - 1 : matrix[j] # id
                       ELSE 0

(* Bug: each configuration is looked for, and their order is not. *)
MatrixOrderAny(row, matrix) ==
  {<<"unknown configuration", row.symbol>> : id \in Range(row.configurations) \ Range(matrix)}

(* matrixOrder: each after every one before it that the matrix holds. *)
MatrixOrder(row, matrix) ==
  LET index == [i \in DOMAIN row.configurations |-> IndexIn(matrix, row.configurations[i])]
      held == {i \in DOMAIN index : index[i] # 0}
  IN  {<<"unknown configuration", row.symbol>> : i \in DOMAIN index \ held}
      \cup {<<"configurations order", row.symbol>> : i \in {i \in held : \E j \in held : j < i /\ index[i] <= index[j]}}

(* checkConfigurations: identifiers are their ranks in bytewise order. *)
ConfigurationErrs(expect, matrix) ==
  LET named == {row \in RowsOf(expect) : row.configurations # << >>}
      complete == "matrix" \in expect.closedWorld
  IN  When(\E i \in 2 .. Len(matrix) : matrix[i - 1] > matrix[i], "matrix order", None)
      \cup (UNION {IF matrix = << >> THEN Defect("no matrix", row.symbol) ELSE MatrixOrder(row, matrix) : row \in named})
      \cup When(matrix # << >> /\ named = {} /\ ~complete, "matrix unused", None)
      \cup When(matrix = << >> /\ complete, "matrix undeclared", None)

(* checkConfigurationsNotBuilt *)
NotBuiltErrs(expect, built, dropped) ==
  When(\E i \in 2 .. Len(dropped) : dropped[i - 1] >= dropped[i], "not built order", None)
  \cup {<<"not built built", id>> : id \in Range(dropped) \cap Range(built)}
  \cup When(dropped # << >> /\ "matrix" \in expect.closedWorld, "not built declared", None)

(* checkEdgeEvaluations: every side the edges document gives the language  *)
(* is named once, and no other.                                            *)
Side(record) == <<record.edge, record.side>>
EdgeErrs(expect, language, edges) ==
  LET named == expect.evaluations
      sides == {Side(e) : e \in {e \in edges.sides : e.language = language}}
  IN  CASE edges = None -> When(named # << >>, "no edges document", None)
        [] edges # None /\ named = << >> -> Defect("no edge evaluation", None)
        [] edges # None /\ named # << >> /\ Len(expect.languages) # 1 -> Defect("evaluations scope", None)
        [] edges # None /\ named # << >> /\ Len(expect.languages) = 1 /\ edges.malformed -> Defect("edges malformed", None)
        [] OTHER ->
             {<<"evaluation twice", Side(named[i])>> : i \in {i \in DOMAIN named : \E j \in 1 .. i - 1 : Side(named[j]) = Side(named[i])}}
             \cup {<<"no such side", s>> : s \in {Side(named[i]) : i \in DOMAIN named} \ sides}
             \cup {<<"side unnamed", s>> : s \in sides \ {Side(named[i]) : i \in DOMAIN named}}

(* checkInstalledPackages: a manifest names the package its path gives it. *)
InstalledErrs(language, installed) ==
  IF language # "ts" THEN {<<"installed", f.path>> : f \in installed}
  ELSE {<<"installed manifest", f.path>> : f \in {f \in installed : f.isManifest /\ ~(f.names = f.path /\ f.private)}}

(* checkDirectories *)
DirsOf(files) == {f[1] : f \in DOMAIN files} \ {""}
DirectoryErrs(expect, language, rendering) ==
  LET dirs == DirsOf(rendering.files)
      present == expect.consumers \ AbsentConsumers(expect)
  IN  {<<"no directory", d>> : d \in ({Target} \cup present) \ dirs}
      \cup {<<"absent consumer present", d>> : d \in AbsentConsumers(expect) \cap dirs}
      \cup (IF language # "go" THEN {}
            ELSE (IF present = {} THEN {} ELSE GoConsumerErrs(present, rendering.modules))
                 \cup GoDependencyErrs(expect.consumers, dirs, rendering.modules, rendering.uses))

SiteErrs(sites, files) ==
  {<<"no such file", name>> : name \in {name \in DOMAIN sites : sites[name][1] \notin DOMAIN files}}
  \cup {<<"no such line", name>> : name \in {name \in DOMAIN sites : /\ sites[name][1] \in DOMAIN files
                                                                    /\ sites[name][2] > files[sites[name][1]]}}

(* checkRendering: a manifest that does not resolve hides every other defect. *)
RenderingErrs(expect, language, rendering) ==
  LET manifest == rendering.manifest
      resolved == Resolve(expect, language, manifest.symbols)
  IN  IF manifest = None THEN Defect("no manifest", language)
      ELSE IF manifest.malformed THEN Defect("manifest malformed", language)
      ELSE IF ~manifest.meetsSchema THEN Defect("manifest schema", language)
      ELSE IF resolved.errs # {} THEN resolved.errs
      ELSE ConfigurationErrs(expect, manifest.built) \cup NotBuiltErrs(expect, manifest.built, manifest.dropped)
           \cup EdgeErrs(expect, language, rendering.edges) \cup InstalledErrs(language, rendering.installed)
           \cup SiteErrs(resolved.sites, rendering.files) \cup DirectoryErrs(expect, language, rendering)

(* checkFixture: every rendering of a listed language and no other. *)
FixtureErrs(entry) ==
  LET expect == entry.expect
      listed == Range(expect.languages)
      reads(l) == entry.renderings[l] # None
  IN  ExpectationErrs(expect)
      \cup When(~expect.meetsSchema, "expectation schema", None)
      \cup When(expect.name # entry.name, "name", expect.name)
      \cup {<<"listed but unreadable", l>> : l \in {l \in Forms \cap listed : ~reads(l)}}
      \cup {<<"present but not listed", l>> : l \in {l \in Forms \ listed : reads(l)}}
      \cup (UNION {RenderingErrs(expect, l, entry.renderings[l]) : l \in {l \in Forms \cap listed : reads(l)}})
      \cup {<<"no form", l>> : l \in listed \ Forms}
=============================================================================
