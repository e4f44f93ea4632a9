--------------------------- MODULE CorpusCheckProofs ---------------------------
(***************************************************************************)
(* Proofs about CorpusCheck, for every corpus and every set of rules: what *)
(* Check has named once it has ended, that a rule's parity is then pinned, *)
(* that the names of a rendering resolve as their one use says, whichever  *)
(* pass meets them, and that whatever has no defect runs, is placed, is    *)
(* handed over as stated and is read by Load.                              *)
(***************************************************************************)
EXTENDS CorpusCheck, FiniteSetTheorems, FunctionTheorems, SequenceTheorems, WellFoundedInduction, TLAPS

(* The defects of one entry, and the expectation files of the first n.     *)
EntryErrs(entry) ==
  IF ~entry.isDir \/ entry.expect = None THEN {<<entry.name, <<"unread", None>>>>}
  ELSE Named(entry, FixtureErrs(entry))

(* Check has named every defect of the entries behind it, and of the rules *)
(* once it has ended.                                                      *)
Accounted ==
  /\ corpus \in Corpora
  /\ checking \in 1 .. Len(corpus) + 2
  /\ \A i \in DOMAIN corpus : i < checking => EntryErrs(corpus[i]) \subseteq errs
  /\ Checked => CoverageErrs(Range(kept)) \subseteq errs

(* Load has read the fixtures behind it, and stands at the one it refuses. *)
ReadSoFar ==
  /\ loading \in 1 .. Len(corpus) + 1
  /\ load \in {"reading", "loaded", "refused"}
  /\ (\A i \in DOMAIN corpus : corpus[i].isDir) => loaded = [i \in 1 .. loading - 1 |-> corpus[i].name]
  /\ load = "loaded" => loading = Len(corpus) + 1
  /\ load = "refused" => loading \in DOMAIN corpus /\ corpus[loading].isDir /\ ~Reads(corpus[loading])

CheckInv == Accounted /\ ReadSoFar

(* The corpora are lists. *)
LEMMA CorpusIsAList ==
  ASSUME corpus \in Corpora
  PROVE  /\ Len(corpus) \in Nat /\ DOMAIN corpus = 1 .. Len(corpus)
         /\ \A i \in DOMAIN corpus : corpus[i] \in Range(corpus)
<1>1. corpus \in Seq(Range(corpus))
  BY CorporaAreLists
<1> QED BY <1>1 DEF Range

(* Nothing is named before the first entry. *)
LEMMA CheckInvInit == Init => CheckInv
<1> SUFFICES ASSUME Init PROVE CheckInv
  OBVIOUS
<1>1. Len(corpus) \in Nat /\ DOMAIN corpus = 1 .. Len(corpus)
  BY CorpusIsAList DEF Init
<1>2. Accounted
  BY <1>1 DEF Init, Accounted, Checked
<1>3. loaded = [i \in 1 .. loading - 1 |-> corpus[i].name]
  BY DEF Init
<1> QED BY <1>1, <1>2, <1>3 DEF Init, CheckInv, ReadSoFar

(* Check goes on by one entry at a time. *)
LEMMA AccountedKept ==
  ASSUME CheckInv, CheckEntry \/ CheckCoverage
  PROVE  Accounted'
<1>1. corpus \in Corpora /\ corpus' = corpus /\ checking \in 1 .. Len(corpus) + 2 /\ checking' = checking + 1
  BY DEF CheckInv, Accounted, CheckEntry, CheckCoverage
<1>2. Len(corpus) \in Nat /\ DOMAIN corpus = 1 .. Len(corpus)
  BY <1>1, CorpusIsAList
<1>3. \A i \in DOMAIN corpus : i < checking => EntryErrs(corpus[i]) \subseteq errs
  BY DEF CheckInv, Accounted
<1>4. CASE CheckEntry
  <2>1. checking \in DOMAIN corpus /\ checking + 1 \in 1 .. Len(corpus) + 1
    BY <1>1, <1>2, <1>4 DEF CheckEntry
  <2>2. errs' = errs \cup EntryErrs(corpus[checking])
    BY <1>4 DEF CheckEntry, EntryErrs
  <2>3. \A i \in DOMAIN corpus : i < checking + 1 => EntryErrs(corpus[i]) \subseteq errs'
    BY <1>2, <1>3, <2>1, <2>2
  <2>4. ~ Checked'
    BY <1>1, <1>2, <2>1 DEF Checked
  <2> QED BY <1>1, <1>2, <2>1, <2>3, <2>4 DEF Accounted, EntryErrs, Named
<1>5. CASE CheckCoverage
  <2>1. checking = Len(corpus) + 1 /\ errs' = errs \cup CoverageErrs(Range(kept)) /\ kept' = kept
    BY <1>5 DEF CheckCoverage
  <2>2. \A i \in DOMAIN corpus : EntryErrs(corpus[i]) \subseteq errs'
    BY <1>2, <1>3, <2>1
  <2>3. CoverageErrs(Range(kept))' \subseteq errs'
    BY <2>1
  <2> QED BY <1>1, <1>2, <2>1, <2>2, <2>3 DEF Accounted, EntryErrs, Named
<1> QED BY <1>4, <1>5

(* Load goes on by one directory at a time. *)
LEMMA ReadKept ==
  ASSUME CheckInv, LoadEntry \/ LoadEnds
  PROVE  ReadSoFar'
<1>1. corpus \in Corpora /\ corpus' = corpus /\ loading \in 1 .. Len(corpus) + 1 /\ load = "reading"
  BY DEF CheckInv, Accounted, ReadSoFar, LoadEntry, LoadEnds
<1>2. Len(corpus) \in Nat /\ DOMAIN corpus = 1 .. Len(corpus)
  BY <1>1, CorpusIsAList
<1> DEFINE NamesTo(n) == [i \in 1 .. n |-> corpus[i].name]
           AllDirs == \A i \in DOMAIN corpus : corpus[i].isDir
<1>3. AllDirs => loaded = NamesTo(loading - 1)
  BY DEF CheckInv, ReadSoFar
<1>4. CASE LoadEnds
  BY <1>1, <1>2, <1>3, <1>4 DEF LoadEnds, ReadSoFar
<1>5. CASE LoadEntry /\ load' = "refused"
  BY <1>1, <1>2, <1>3, <1>5 DEF LoadEntry, ReadSoFar, Reads
<1>6. CASE LoadEntry /\ load' # "refused"
  <2>1. loading \in DOMAIN corpus /\ loading' = loading + 1 /\ load' = "reading"
    BY <1>1, <1>2, <1>6 DEF LoadEntry
  <2>2. AllDirs => loaded' = Append(loaded, corpus[loading].name)
    BY <1>6, <2>1 DEF LoadEntry
  <2>3. ASSUME AllDirs PROVE loaded' = NamesTo(loading)
    <3>1. Append(NamesTo(loading - 1), corpus[loading].name) = NamesTo(loading)
      BY <1>1, <1>2, <2>1
    <3> QED BY <1>3, <2>2, <2>3, <3>1
  <2> QED BY <1>1, <1>2, <2>1, <2>3 DEF ReadSoFar
<1> QED BY <1>4, <1>5, <1>6

(* Every step keeps the invariant. *)
LEMMA CheckInvNext == CheckInv /\ [Next]_vars => CheckInv'
<1> SUFFICES ASSUME CheckInv, [Next]_vars PROVE CheckInv'
  OBVIOUS
<1>1. CASE CheckEntry \/ CheckCoverage
  <2>1. ReadSoFar'
    BY <1>1 DEF CheckEntry, CheckCoverage, CheckInv, ReadSoFar, Reads
  <2> QED BY <1>1, <2>1, AccountedKept DEF CheckInv
<1>2. CASE LoadEntry \/ LoadEnds
  <2>1. Accounted'
    BY <1>2 DEF LoadEntry, LoadEnds, CheckInv, Accounted, Checked, EntryErrs, Named
  <2> QED BY <1>2, <2>1, ReadKept DEF CheckInv
<1>3. CASE UNCHANGED vars
  BY <1>3 DEF vars, CheckInv, Accounted, ReadSoFar, Checked, EntryErrs, Named, Reads
<1> QED BY <1>1, <1>2, <1>3 DEF Next

(* Once Check has ended it has named every defect of every fixture and of  *)
(* the citations, and Load has read what it has passed, in the corpus's    *)
(* order: check.go:46, fixture.go:62.                                      *)
THEOREM ChecksAccountForAll == CorpusSpec => []CheckInv
<1> QED BY CheckInvInit, CheckInvNext, PTL DEF CorpusSpec

-----------------------------------------------------------------------------
(* A rule several languages follow is pinned by a fixture of all of them,  *)
(* outside pending, once one cites it and nothing is named: rules.go:67.   *)
LEMMA PinnedByCoverage ==
  ASSUME NEW expects, CoverageErrs(expects) = {}, NEW e \in expects, NEW rule \in DOMAIN Rules,
         Cites(e, rule), ~e.pending, Cardinality(Rules[rule]) > 1
  PROVE  \E pin \in expects : Cites(pin, rule) /\ ~pin.pending /\ Rules[rule] = Range(pin.languages)
<1>1. RuleErrs(expects, rule) = {}
  BY DEF CoverageErrs
<1>2. e \in Counted(expects, rule)
  BY DEF Counted
<1>3. PICK pin \in Counted(expects, rule) : ListsEvery(pin, rule)
  BY <1>1, <1>2 DEF RuleErrs
<1>4. pin \in expects /\ Cites(pin, rule) /\ ~pin.pending
  BY DEF Counted
<1>5. LanguageErrs(expects, rule) = {}
  BY <1>1 DEF RuleErrs
<1>6. ASSUME NEW l \in Range(pin.languages), l \notin Rules[rule] PROVE FALSE
  <2>1. <<pin.name, <<"rule language", l>>>> \in LanguageErrs(expects, rule)
    BY <1>4, <1>6 DEF LanguageErrs
  <2> QED BY <1>5, <2>1
<1>7. Rules[rule] = Range(pin.languages)
  BY <1>3, <1>6 DEF ListsEvery
<1> QED BY <1>4, <1>7

(* A rule several languages follow stays pinned by one fixture of them all: *)
(* rules.go:67.                                                            *)
THEOREM ParityStaysPinned == CorpusSpec => []ParityIsPinned
<1>1. CheckInv => ParityIsPinned
  <2> SUFFICES ASSUME CheckInv, Checked, errs = {} PROVE ParityIsPinned
    BY DEF ParityIsPinned
  <2>1. CoverageErrs(Range(kept)) = {}
    BY DEF CheckInv, Accounted
  <2> QED BY <2>1, PinnedByCoverage DEF ParityIsPinned
<1> QED BY <1>1, ChecksAccountForAll, PTL

-----------------------------------------------------------------------------
(* What a fixture Check names no defect of is held to.                     *)
LEMMA UnnamedHasNone ==
  ASSUME CheckInv, Checked, NEW i \in DOMAIN corpus, Unnamed(corpus[i])
  PROVE  corpus[i].isDir /\ corpus[i].expect # None /\ FixtureErrs(corpus[i]) = {}
<1> DEFINE entry == corpus[i]
<1>1. EntryErrs(entry) \subseteq errs
  BY CorpusIsAList DEF CheckInv, Accounted, Checked
<1>2. entry.isDir /\ entry.expect # None
  <2> SUFFICES ASSUME ~ (entry.isDir /\ entry.expect # None) PROVE FALSE
    OBVIOUS
  <2>1. <<entry.name, <<"unread", None>>>> \in errs
    BY <1>1 DEF EntryErrs
  <2> QED BY <2>1 DEF Unnamed
<1>3. ASSUME NEW d \in FixtureErrs(entry) PROVE FALSE
  <2>1. <<entry.name, d>> \in errs
    BY <1>1, <1>2, <1>3 DEF EntryErrs, Named
  <2> QED BY <2>1 DEF Unnamed
<1> QED BY <1>2, <1>3

(* Without a defect every listed rendering reads and has none. *)
LEMMA NoneHasReadings ==
  ASSUME NEW entry, FixtureErrs(entry) = {}, entry.expect # None
  PROVE  /\ Reads(entry)
         /\ ExpectationErrs(entry.expect) = {}
         /\ \A l \in Range(entry.expect.languages) : RenderingErrs(entry.expect, l, entry.renderings[l]) = {}
<1> DEFINE listed == Range(entry.expect.languages)
<1>1. ASSUME NEW l \in listed, l \notin Forms PROVE FALSE
  <2>1. <<"no form", l>> \in FixtureErrs(entry)
    BY <1>1 DEF FixtureErrs
  <2> QED BY <2>1
<1>2. ASSUME NEW l \in listed, entry.renderings[l] = None PROVE FALSE
  <2>1. <<"listed but unreadable", l>> \in FixtureErrs(entry)
    BY <1>1, <1>2 DEF FixtureErrs
  <2> QED BY <2>1
<1>3. \A l \in listed : RenderingErrs(entry.expect, l, entry.renderings[l]) = {}
  <2> SUFFICES ASSUME NEW l \in listed, NEW d \in RenderingErrs(entry.expect, l, entry.renderings[l])
               PROVE FALSE
    OBVIOUS
  <2>1. l \in Forms /\ entry.renderings[l] # None
    BY <1>1, <1>2
  <2>2. d \in FixtureErrs(entry)
    BY <2>1 DEF FixtureErrs
  <2> QED BY <2>2
<1>4. \A l \in listed : entry.renderings[l].manifest # None /\ ~entry.renderings[l].manifest.malformed
  BY <1>3 DEF RenderingErrs, Defect
<1>5. ExpectationErrs(entry.expect) = {}
  BY DEF FixtureErrs
<1> QED BY <1>1, <1>2, <1>3, <1>4, <1>5 DEF Reads

(* Load reads every corpus nothing is named of, and stops only at a        *)
(* fixture Check names: fixture.go:62.                                     *)
THEOREM LoadReadsTheChecked == CorpusSpec => [](Checked => LoadsWhatIsChecked)
<1>1. CheckInv /\ Checked => LoadsWhatIsChecked
  <2> SUFFICES ASSUME CheckInv, Checked PROVE LoadsWhatIsChecked
    OBVIOUS
  <2>1. corpus \in Corpora
    BY DEF CheckInv, Accounted
  <2>2. Len(corpus) \in Nat /\ DOMAIN corpus = 1 .. Len(corpus)
    BY <2>1, CorpusIsAList
  <2>3. ASSUME errs = {}, load = "loaded" PROVE loaded = [i \in DOMAIN corpus |-> corpus[i].name]
    <3>1. \A i \in DOMAIN corpus : corpus[i].isDir
      BY <2>3, UnnamedHasNone DEF Unnamed
    <3>2. loading - 1 = Len(corpus) /\ loaded = [i \in 1 .. loading - 1 |-> corpus[i].name]
      BY <2>2, <2>3, <3>1 DEF CheckInv, ReadSoFar
    <3> QED BY <2>2, <3>2
  <2>4. ASSUME load = "refused" PROVE ~ Unnamed(corpus[loading])
    <3>1. loading \in DOMAIN corpus /\ ~Reads(corpus[loading])
      BY <2>4 DEF CheckInv, ReadSoFar
    <3> QED BY <3>1, UnnamedHasNone, NoneHasReadings
  <2> QED BY <2>3, <2>4 DEF LoadsWhatIsChecked, Unnamed
<1> QED BY <1>1, ChecksAccountForAll, PTL

-----------------------------------------------------------------------------
(* A go command finds every module a rendering of no wiring defect needs.  *)
LEMMA DependencyIsReached ==
  ASSUME NEW consumers, NEW dirs, NEW modules, NEW uses, None \notin dirs,
         GoDependencyErrs(consumers, dirs, modules, uses) = {},
         DirectoriesApart(consumers, dirs, modules), NEW d \in Dependencies(dirs, consumers)
  PROVE  /\ d \in DOMAIN modules /\ modules[d].path \in modules[Target].requires
         /\ d \in Loads(Target, modules[d].path, modules, uses)
<1> DEFINE dependencies == Dependencies(dirs, consumers)
           workspace == Workspace(uses, dependencies)
<1>1. DependencyErrs(d, modules, workspace) = {}
  BY DEF GoDependencyErrs
<1>2. ModuleOf(modules, d).path # None
  BY <1>1 DEF DependencyErrs, Defect
<1>3. d \in DOMAIN modules /\ ModuleOf(modules, d) = modules[d]
  BY <1>2 DEF ModuleOf, NoModule
<1>4. modules[d].path \in ModuleOf(modules, Target).requires
  BY <1>1, <1>2, <1>3 DEF DependencyErrs, When, Defect
<1>5. Target \in DOMAIN modules /\ ModuleOf(modules, Target) = modules[Target]
  BY <1>4 DEF ModuleOf, NoModule
<1>6. d # Target /\ d # None
  BY DEF Dependencies
<1> DEFINE listed == {e \in Workspace(uses, DOMAIN modules) : modules[e].path = modules[d].path}
<1>7. CASE d \in workspace
  <2>1. uses # None /\ Contains(uses, Target) /\ d \in Range(uses)
    BY <1>7 DEF Workspace
  <2>2. d \in listed
    BY <1>3, <2>1 DEF Workspace, UseIsWrong
  <2> QED BY <1>3, <1>4, <1>5, <2>1, <2>2 DEF Loads
<1>8. CASE d \notin workspace
  <2>1. ReplacedBy(modules[Target], modules[d].path) = d
    BY <1>1, <1>2, <1>3, <1>5, <1>8 DEF DependencyErrs, When, Defect
  <2>2. uses # None => listed = {}
    <3> SUFFICES ASSUME uses # None, NEW e \in listed PROVE FALSE
      OBVIOUS
    <3>1. Contains(uses, Target) /\ e \in Range(uses)
      BY DEF Workspace
    <3>2. \E i \in DOMAIN uses : uses[i] = e
      BY <3>1 DEF Range
    <3>3. e \in dependencies \cup {Target}
      <4>1. WorkspaceErrs(uses, dependencies) = {}
        BY DEF GoDependencyErrs
      <4>2. {<<"workspace use", uses[i]>> : i \in {i \in DOMAIN uses : UseIsWrong(uses[i], dependencies)}} = {}
        BY <4>1 DEF WorkspaceErrs
      <4> QED BY <3>2, <4>2 DEF UseIsWrong
    <3>4. e \in workspace
      BY <3>1, <3>3 DEF Workspace, UseIsWrong
    <3>5. e # d
      BY <1>8, <3>4
    <3>6. ModuleOf(modules, d).path # ModuleOf(modules, e).path
      BY <3>3, <3>5 DEF DirectoriesApart
    <3>7. e \in DOMAIN modules
      BY <1>5 DEF Workspace, UseIsWrong
    <3> QED BY <1>3, <3>6, <3>7 DEF ModuleOf
  <2> QED BY <1>3, <1>4, <1>5, <1>6, <2>1, <2>2 DEF Loads
<1> QED BY <1>7, <1>8

(* A consumer's modules are in reach. *)
LEMMA ConsumerIsWired ==
  ASSUME NEW present, NEW modules, NEW uses, None # Target,
         GoConsumerErrs(present, modules) = {}, NEW c \in present, c # Target
  PROVE  /\ modules[Target].path \in modules[c].requires
         /\ Target \in Loads(c, modules[Target].path, modules, uses)
<1> DEFINE target == ModuleOf(modules, Target).path
<1>1. target # None /\ ConsumerErrs(c, target, modules) = {}
  BY DEF GoConsumerErrs, Defect
<1>2. Target \in DOMAIN modules /\ target = modules[Target].path
  BY <1>1 DEF ModuleOf, NoModule
<1>3. c \in DOMAIN modules /\ target \in modules[c].requires /\ ReplacedBy(modules[c], target) = Target
  BY <1>1 DEF ConsumerErrs, When, Defect
<1> QED BY <1>2, <1>3 DEF Loads

(* A workspace that passes uses no consumer. *)
LEMMA MembersAreNoConsumers ==
  ASSUME NEW consumers, NEW dirs, NEW modules, NEW uses, uses # None, Target \notin consumers,
         GoDependencyErrs(consumers, dirs, modules, uses) = {}
  PROVE  Range(uses) \cap consumers = {}
<1>1. WorkspaceErrs(uses, Dependencies(dirs, consumers)) = {}
  BY DEF GoDependencyErrs
<1>2. {<<"workspace use", uses[i]>> : i \in {i \in DOMAIN uses : UseIsWrong(uses[i], Dependencies(dirs, consumers))}} = {}
  BY <1>1 DEF WorkspaceErrs
<1> SUFFICES ASSUME NEW u \in Range(uses), u \in consumers PROVE FALSE
  OBVIOUS
<1>3. PICK i \in DOMAIN uses : uses[i] = u
  BY DEF Range
<1>4. u \in Dependencies(dirs, consumers) \cup {Target}
  BY <1>2, <1>3 DEF UseIsWrong
<1> QED BY <1>4 DEF Dependencies

(* What a rendering of no defect is, wherever its names resolve to.        *)
LEMMA NoDefectIsWired ==
  ASSUME NEW expect, NEW rendering, RenderingErrs(expect, "go", rendering) = {},
         None # Target, None \notin DirsOf(rendering.files)
  PROVE  IsWired(expect.consumers, rendering)
<1> DEFINE dirs == DirsOf(rendering.files)
           present == expect.consumers \ AbsentConsumers(expect)
<1>1. rendering.manifest # None /\ ~rendering.manifest.malformed /\ rendering.manifest.meetsSchema
  BY DEF RenderingErrs, Defect
<1>2. DirectoryErrs(expect, "go", rendering) = {}
  BY <1>1 DEF RenderingErrs
<1>3. {<<"absent consumer present", d>> : d \in AbsentConsumers(expect) \cap dirs} = {}
  BY <1>2 DEF DirectoryErrs
<1>4. present # {} => GoConsumerErrs(present, rendering.modules) = {}
  BY <1>2 DEF DirectoryErrs
<1>5. GoDependencyErrs(expect.consumers, dirs, rendering.modules, rendering.uses) = {}
  BY <1>2 DEF DirectoryErrs
<1>6. expect.consumers \cap dirs \subseteq present
  BY <1>3
<1> SUFFICES ASSUME DirectoriesApart(expect.consumers, dirs, rendering.modules)
             PROVE  WiredWithin(expect.consumers, dirs, rendering.modules, rendering.uses)
  BY DEF IsWired
<1>7. Target \notin expect.consumers
  BY DEF DirectoriesApart
<1> HIDE DEF dirs, present
<1>8. \A c \in expect.consumers \cap dirs : c \in present /\ c # Target
  BY <1>6, <1>7
<1> QED BY <1>4, <1>5, <1>7, <1>8, DependencyIsReached, ConsumerIsWired, MembersAreNoConsumers DEF WiredWithin, dirs

(* An entry of no defect is runnable. *)
LEMMA NoDefectIsRunnable ==
  ASSUME NEW entry, entry.expect # None, FixtureErrs(entry) = {}, None # Target,
         \A held \in Held(entry) : None \notin DirsOf(held[2].files)
  PROVE  IsRunnable(entry)
<1> DEFINE expect == entry.expect
<1>1. Reads(entry) /\ ExpectationErrs(expect) = {}
  BY NoneHasReadings
<1>2. ASSUME NEW held \in Held(entry)
      PROVE  LET manifest == held[2].manifest
             IN  /\ Resolves(expect, held[1], manifest.symbols)
                 /\ Range(manifest.built) \cap Range(manifest.dropped) = {}
                 /\ held[1] = "go" => IsWired(expect.consumers, held[2])
  <2>1. PICK l \in Range(expect.languages) : held = <<l, entry.renderings[l]>>
    BY <1>2 DEF Held
  <2> DEFINE rendering == entry.renderings[l]
             manifest == rendering.manifest
  <2>2. RenderingErrs(expect, l, rendering) = {} /\ None \notin DirsOf(rendering.files)
    BY <2>1, NoneHasReadings
  <2>3. manifest # None /\ ~manifest.malformed /\ manifest.meetsSchema
    BY <2>2 DEF RenderingErrs, Defect
  <2>4. Resolves(expect, l, manifest.symbols)
    BY <2>2, <2>3 DEF RenderingErrs, Resolves
  <2>5. NotBuiltErrs(expect, manifest.built, manifest.dropped) = {}
    BY <2>2, <2>3, <2>4 DEF RenderingErrs, Resolves
  <2>6. Range(manifest.built) \cap Range(manifest.dropped) = {}
    BY <2>5 DEF NotBuiltErrs
  <2>7. l = "go" => IsWired(expect.consumers, rendering)
    BY <2>2, NoDefectIsWired
  <2> QED BY <2>1, <2>4, <2>6, <2>7
<1>3. ASSUME expect.setup # None
      PROVE  expect.rows = << >> /\ expect.evaluations = << >> /\ expect.facts = << >>
  <2>1. SetupErrs(expect) = {}
    BY <1>1 DEF ExpectationErrs
  <2>2. When(expect.rows # << >>, "setup and expectations", None) = {}
    BY <1>3, <2>1 DEF SetupErrs
  <2>3. expect.evaluations # << >> => <<"setup and member", "edge_evaluations">> \in SetupErrs(expect)
    BY <1>3 DEF SetupErrs
  <2>4. expect.facts # << >> => <<"setup and member", "facts">> \in SetupErrs(expect)
    BY <1>3 DEF SetupErrs
  <2> QED BY <2>1, <2>2, <2>3, <2>4 DEF When, Defect
<1> QED BY <1>1, <1>2, <1>3 DEF IsRunnable

(* A fixture Check names no defect of can be run: its renderings read, its *)
(* names resolve, a Go rendering finds its modules in its own directories, *)
(* and a setup failure stands alone: check.go:46, gomod.go:66 and 130.     *)
THEOREM UnnamedFixturesRun ==
  CorpusSpec => [](Checked => \A i \in Decoded : Unnamed(corpus[i]) => IsRunnable(corpus[i]))
<1>1. CheckInv /\ Checked => \A i \in Decoded : Unnamed(corpus[i]) => IsRunnable(corpus[i])
  <2> SUFFICES ASSUME CheckInv, Checked, NEW i \in Decoded, Unnamed(corpus[i])
               PROVE  IsRunnable(corpus[i])
    OBVIOUS
  <2>1. i \in DOMAIN corpus /\ corpus \in Corpora /\ corpus[i] \in Range(corpus)
    BY CorpusIsAList DEF Decoded, CheckInv, Accounted
  <2>2. corpus[i].expect # None /\ FixtureErrs(corpus[i]) = {}
    BY <2>1, UnnamedHasNone
  <2> QED BY <2>1, <2>2, NoDefectIsRunnable, CorporaAreLists
<1> QED BY <1>1, ChecksAccountForAll, PTL

-----------------------------------------------------------------------------
(* The passes, each by what it leaves: the record of the fields, a site of  *)
(* the manifest for each name bound.                                       *)
IsResolver(r, manifest) ==
  /\ DOMAIN r = {"used", "sites", "facts", "errs"}
  /\ r.sites = [name \in DOMAIN r.sites |-> Site(manifest[name])]

(* Defects named of a pass are added to those before it, and change nothing *)
(* else.                                                                   *)
LEMMA FailEachLeaves ==
  ASSUME NEW r, NEW manifest, IsResolver(r, manifest), NEW defect, NEW names
  PROVE  /\ IsResolver(FailEach(r, defect, names), manifest)
         /\ FailEach(r, defect, names).used = r.used /\ FailEach(r, defect, names).sites = r.sites
         /\ FailEach(r, defect, names).facts = r.facts
         /\ FailEach(r, defect, names).errs = {} <=> r.errs = {} /\ names = {}
<1> DEFINE failed == FailEach(r, defect, names)
<1>1. /\ DOMAIN failed = DOMAIN r
      /\ failed.used = r.used /\ failed.sites = r.sites /\ failed.facts = r.facts
      /\ failed.errs = r.errs \cup {<<defect, name>> : name \in names}
  BY DEF FailEach, IsResolver
<1> HIDE DEF failed
<1>2. failed.errs = {} <=> r.errs = {} /\ names = {}
  <2>1. {<<defect, name>> : name \in names} = {} <=> names = {}
    OBVIOUS
  <2> QED BY <1>1, <2>1
<1>3. IsResolver(failed, manifest)
  BY <1>1 DEF IsResolver
<1> QED BY <1>1, <1>2, <1>3 DEF failed

(* What a pass binds is used and gets the manifest's site, whatever is     *)
(* unbound.                                                                *)
LEMMA BindEachLeaves ==
  ASSUME NEW r, NEW manifest, IsResolver(r, manifest), NEW names
  PROVE  LET bind == BindEach(r, manifest, names)
             bound == {name \in names : Binds(manifest, name)}
         IN  /\ IsResolver(bind, manifest)
             /\ bind.used = r.used \cup bound /\ DOMAIN bind.sites = DOMAIN r.sites \cup bound
             /\ bind.facts = r.facts
             /\ bind.errs = {} <=> r.errs = {} /\ bound = names
<1> DEFINE bind == BindEach(r, manifest, names)
           bound == {name \in names : Binds(manifest, name)}
           absent == names \ DOMAIN manifest
           unfiled == {name \in names : Unfiled(manifest, name)}
           unlined == {name \in names : Unlined(manifest, name)}
           noName == "unbound"
           noFile == "no file"
           noLine == "no line"
           first == FailEach(r, noName, absent)
           second == FailEach(first, noFile, unfiled)
           f == FailEach(second, noLine, unlined)
<1>4. absent = {} /\ unfiled = {} /\ unlined = {} <=> bound = names
  BY DEF Binds
<1>5. bind = [f EXCEPT !.used = @ \cup bound,
                       !.sites = [name \in DOMAIN @ \cup bound |->
                                    IF name \in bound THEN Site(manifest[name]) ELSE @[name]]]
  BY DEF BindEach
<1> HIDE DEF noName, noFile, noLine, absent, unfiled, unlined, bound, bind
<1>1. /\ IsResolver(first, manifest) /\ first.used = r.used /\ first.sites = r.sites /\ first.facts = r.facts
      /\ first.errs = {} <=> r.errs = {} /\ absent = {}
  BY FailEachLeaves
<1> HIDE DEF first
<1>2. /\ IsResolver(second, manifest) /\ second.used = r.used /\ second.sites = r.sites /\ second.facts = r.facts
      /\ second.errs = {} <=> first.errs = {} /\ unfiled = {}
  BY <1>1, FailEachLeaves
<1> HIDE DEF second
<1>3. /\ IsResolver(f, manifest) /\ f.used = r.used /\ f.sites = r.sites /\ f.facts = r.facts
      /\ f.errs = {} <=> r.errs = {} /\ absent = {} /\ unfiled = {} /\ unlined = {}
  <2>1. /\ IsResolver(f, manifest) /\ f.used = second.used /\ f.sites = second.sites /\ f.facts = second.facts
        /\ f.errs = {} <=> second.errs = {} /\ unlined = {}
    BY <1>2, FailEachLeaves
  <2> QED BY <1>1, <1>2, <2>1
<1> HIDE DEF f
<1>6. /\ DOMAIN bind = {"used", "sites", "facts", "errs"}
      /\ bind.used = f.used \cup bound /\ bind.facts = f.facts /\ bind.errs = f.errs
      /\ bind.sites = [name \in DOMAIN f.sites \cup bound |->
                         IF name \in bound THEN Site(manifest[name]) ELSE f.sites[name]]
  BY <1>3, <1>5 DEF IsResolver
<1>7. \A name \in DOMAIN f.sites : f.sites[name] = Site(manifest[name])
  BY <1>3 DEF IsResolver
<1>8. bind.sites = [name \in DOMAIN r.sites \cup bound |-> Site(manifest[name])]
  BY <1>3, <1>6, <1>7
<1>9. DOMAIN bind.sites = DOMAIN r.sites \cup bound
  BY <1>8
<1>10. IsResolver(bind, manifest)
  BY <1>6, <1>8, <1>9 DEF IsResolver
<1> QED BY <1>3, <1>4, <1>6, <1>9, <1>10 DEF bind, bound

(* Names used without a site. *)
LEMMA UsedLeaves ==
  ASSUME NEW r, NEW manifest, IsResolver(r, manifest), NEW names
  PROVE  LET s == [r EXCEPT !.used = r.used \cup names]
         IN  /\ IsResolver(s, manifest) /\ s.used = r.used \cup names
             /\ s.sites = r.sites /\ s.facts = r.facts /\ s.errs = r.errs
BY DEF IsResolver

(* Names of facts. *)
LEMMA FactsLeave ==
  ASSUME NEW r, NEW manifest, IsResolver(r, manifest), NEW names
  PROVE  LET s == [r EXCEPT !.facts = r.facts \cup names]
         IN  /\ IsResolver(s, manifest) /\ s.facts = r.facts \cup names
             /\ s.sites = r.sites /\ s.used = r.used /\ s.errs = r.errs
BY DEF IsResolver

(* Every name of a pass binds. *)
AllBind(manifest, names) == \A name \in names : Binds(manifest, name)

(* bind, where every name of the pass binds. *)
LEMMA BindEachDecides ==
  ASSUME NEW r, NEW manifest, IsResolver(r, manifest), NEW names
  PROVE  LET bind == BindEach(r, manifest, names)
         IN  /\ IsResolver(bind, manifest) /\ bind.facts = r.facts
             /\ bind.errs = {} <=> r.errs = {} /\ AllBind(manifest, names)
             /\ bind.errs = {} => bind.used = r.used \cup names /\ DOMAIN bind.sites = DOMAIN r.sites \cup names
<1> DEFINE bind == BindEach(r, manifest, names)
           bound == {name \in names : Binds(manifest, name)}
<1>1. /\ IsResolver(bind, manifest)
      /\ bind.used = r.used \cup bound /\ DOMAIN bind.sites = DOMAIN r.sites \cup bound
      /\ bind.facts = r.facts
      /\ bind.errs = {} <=> r.errs = {} /\ bound = names
  BY BindEachLeaves
<1>2. bound = names <=> AllBind(manifest, names)
  BY DEF AllBind
<1> HIDE DEF bind, bound
<1> QED BY <1>1, <1>2 DEF bind

(* edge_evaluations: every name has an entry. *)
LEMMA EvaluationsDecide ==
  ASSUME NEW r, NEW manifest, NEW expect, IsResolver(r, manifest)
  PROVE  LET s == EvaluationSymbols(r, expect, manifest)
         IN  /\ IsResolver(s, manifest) /\ s.used = r.used /\ s.sites = r.sites /\ s.facts = r.facts
             /\ s.errs = {} <=> r.errs = {} /\ EvaluatedBy(expect) \subseteq DOMAIN manifest
<1> DEFINE noName == "unbound"
           absent == EvaluatedBy(expect) \ DOMAIN manifest
           s == FailEach(r, noName, absent)
<1>1. s = EvaluationSymbols(r, expect, manifest)
  BY DEF EvaluationSymbols
<1>2. absent = {} <=> EvaluatedBy(expect) \subseteq DOMAIN manifest
  OBVIOUS
<1> HIDE DEF noName, absent
<1>3. /\ IsResolver(s, manifest) /\ s.used = r.used /\ s.sites = r.sites /\ s.facts = r.facts
      /\ s.errs = {} <=> r.errs = {} /\ absent = {}
  BY FailEachLeaves
<1> HIDE DEF s
<1> QED BY <1>1, <1>2, <1>3

(* type_error_skips: no row's symbol, and every name binds. *)
LEMMA SkipsDecide ==
  ASSUME NEW r, NEW manifest, NEW expect, IsResolver(r, manifest)
  PROVE  LET s == Skips(r, expect, manifest)
             names == Range(expect.skips)
         IN  /\ IsResolver(s, manifest) /\ s.facts = r.facts
             /\ s.errs = {} <=> r.errs = {} /\ RowSymbols(expect) \cap names = {} /\ AllBind(manifest, names)
             /\ s.errs = {} => s.used = r.used \cup names /\ DOMAIN s.sites = DOMAIN r.sites \cup names
<1> DEFINE twice == "twice"
           rows == RowSymbols(expect) \cap Range(expect.skips)
           names == Range(expect.skips) \ rows
           f == FailEach(r, twice, rows)
           s == BindEach(f, manifest, names)
<1>1. s = Skips(r, expect, manifest)
  BY DEF Skips
<1> HIDE DEF twice, rows
<1>2. /\ IsResolver(f, manifest) /\ f.used = r.used /\ f.sites = r.sites /\ f.facts = r.facts
      /\ f.errs = {} <=> r.errs = {} /\ rows = {}
  BY FailEachLeaves
<1> HIDE DEF f, names
<1>3. /\ IsResolver(s, manifest) /\ s.facts = f.facts
      /\ s.errs = {} <=> f.errs = {} /\ AllBind(manifest, names)
      /\ s.errs = {} => s.used = f.used \cup names /\ DOMAIN s.sites = DOMAIN f.sites \cup names
  BY <1>2, BindEachDecides
<1>4. rows = {} => names = Range(expect.skips)
  BY DEF names
<1> HIDE DEF s
<1> QED BY <1>1, <1>2, <1>3, <1>4 DEF rows

(* literals: none used before, and every one binds. *)
LEMMA LiteralsDecide ==
  ASSUME NEW r, NEW manifest, NEW expect, IsResolver(r, manifest)
  PROVE  LET s == Literals(r, expect, manifest)
             names == LiteralsOf(expect)
         IN  /\ IsResolver(s, manifest) /\ s.facts = r.facts
             /\ s.errs = {} <=> r.errs = {} /\ names \cap r.used = {} /\ AllBind(manifest, names)
             /\ s.errs = {} => /\ s.used = r.used \cup names \cup (EvaluatedBy(expect) \ RowSymbols(expect))
                               /\ DOMAIN s.sites = DOMAIN r.sites \cup names
<1> DEFINE twice == "twice"
           again == LiteralsOf(expect) \cap r.used
           names == LiteralsOf(expect) \ again
           evaluated == EvaluatedBy(expect) \ RowSymbols(expect)
           f == FailEach(r, twice, again)
           b == BindEach(f, manifest, names)
           s == [b EXCEPT !.used = b.used \cup evaluated]
<1>1. s = Literals(r, expect, manifest)
  BY DEF Literals, UseEvaluations
<1> HIDE DEF twice, again
<1>2. /\ IsResolver(f, manifest) /\ f.used = r.used /\ f.sites = r.sites /\ f.facts = r.facts
      /\ f.errs = {} <=> r.errs = {} /\ again = {}
  BY FailEachLeaves
<1> HIDE DEF f, names
<1>3. /\ IsResolver(b, manifest) /\ b.facts = f.facts
      /\ b.errs = {} <=> f.errs = {} /\ AllBind(manifest, names)
      /\ b.errs = {} => b.used = f.used \cup names /\ DOMAIN b.sites = DOMAIN f.sites \cup names
  BY <1>2, BindEachDecides
<1>4. again = {} => names = LiteralsOf(expect)
  BY DEF names
<1> HIDE DEF b, evaluated
<1>5. /\ IsResolver(s, manifest) /\ s.used = b.used \cup evaluated
      /\ s.sites = b.sites /\ s.facts = b.facts /\ s.errs = b.errs
  BY <1>3, UsedLeaves
<1> HIDE DEF s
<1> QED BY <1>1, <1>2, <1>3, <1>4, <1>5 DEF again, evaluated

(* The rows: each symbol once, and the configured ones without a manifest  *)
(* entry.                                                                  *)
LEMMA RowsDecide ==
  ASSUME NEW r, NEW manifest, NEW expect, IsResolver(r, manifest), NEW s, s = DeclaredRows(r, expect, manifest),
         NEW own, own = RowSymbols(expect) \ Configured(expect)
  PROVE  /\ IsResolver(s, manifest) /\ s.facts = r.facts
         /\ s.errs = {} <=> /\ r.errs = {} /\ RowSymbols(expect) \cap r.used = {} /\ SharedSymbols(expect) = {}
                            /\ RowSymbols(expect) \cap expect.declarations \cap expect.roots = {}
                            /\ RowSymbols(expect) \cap Configured(expect) \cap DOMAIN manifest = {}
                            /\ AllBind(manifest, own)
         /\ s.errs = {} => s.used = r.used \cup RowSymbols(expect) /\ DOMAIN s.sites = DOMAIN r.sites \cup own
<1> DEFINE twice == "twice"
           alsoEntry == "entry also bound"
           alsoRoot == "root also bound"
           met == RowSymbols(expect) \cap r.used
           fresh == RowSymbols(expect) \ met
           declared == fresh \cap expect.declarations
           roots == (fresh \cap expect.roots) \ declared
           names == fresh \ (declared \cup roots)
           again == met \cup SharedSymbols(expect)
           entries == declared \cap (DOMAIN manifest \cup expect.roots)
           patterns == roots \cap DOMAIN manifest
           u == [r EXCEPT !.used = r.used \cup fresh]
           f == FailEach(u, twice, again)
           g == FailEach(f, alsoEntry, entries)
           h == FailEach(g, alsoRoot, patterns)
           bind == BindEach(h, manifest, names)
<1>1. s = bind
  BY DEF DeclaredRows
<1>2. /\ met = {} => fresh = RowSymbols(expect) /\ names = own
      /\ again = {} <=> RowSymbols(expect) \cap r.used = {} /\ SharedSymbols(expect) = {}
      /\ again = {} => met = {}
      /\ met = {} => (entries = {} /\ patterns = {} <=>
                         /\ RowSymbols(expect) \cap expect.declarations \cap expect.roots = {}
                         /\ RowSymbols(expect) \cap Configured(expect) \cap DOMAIN manifest = {})
      /\ names \subseteq fresh
  BY DEF Configured
<1> HIDE DEF twice, alsoEntry, alsoRoot, met, fresh, names, again, entries, patterns
<1>3. /\ IsResolver(u, manifest) /\ u.used = r.used \cup fresh
      /\ u.sites = r.sites /\ u.facts = r.facts /\ u.errs = r.errs
  BY UsedLeaves
<1> HIDE DEF u
<1>4. /\ IsResolver(f, manifest) /\ f.used = u.used /\ f.sites = u.sites /\ f.facts = u.facts
      /\ f.errs = {} <=> u.errs = {} /\ again = {}
  BY <1>3, FailEachLeaves
<1> HIDE DEF f
<1>5. /\ IsResolver(g, manifest) /\ g.used = f.used /\ g.sites = f.sites /\ g.facts = f.facts
      /\ g.errs = {} <=> f.errs = {} /\ entries = {}
  BY <1>4, FailEachLeaves
<1> HIDE DEF g
<1>6. /\ IsResolver(h, manifest) /\ h.used = g.used /\ h.sites = g.sites /\ h.facts = g.facts
      /\ h.errs = {} <=> g.errs = {} /\ patterns = {}
  BY <1>5, FailEachLeaves
<1> HIDE DEF h
<1>7. /\ IsResolver(bind, manifest) /\ bind.facts = h.facts
      /\ bind.errs = {} <=> h.errs = {} /\ AllBind(manifest, names)
      /\ bind.errs = {} => bind.used = h.used \cup names /\ DOMAIN bind.sites = DOMAIN h.sites \cup names
  BY <1>6, BindEachDecides
<1> HIDE DEF bind
<1>8. /\ h.used = r.used \cup fresh /\ h.sites = r.sites /\ h.facts = r.facts
      /\ h.errs = {} <=> r.errs = {} /\ again = {} /\ entries = {} /\ patterns = {}
  BY <1>3, <1>4, <1>5, <1>6
<1> QED BY <1>1, <1>2, <1>7, <1>8

(* The facts: none twice, and what no pass has bound binds. *)
LEMMA FactsDecide ==
  ASSUME NEW r, NEW manifest, NEW expect, NEW language, IsResolver(r, manifest)
  PROVE  LET s == FactNames(r, expect, language, manifest)
             names == FactsNamed(expect, language)
         IN  /\ IsResolver(s, manifest)
             /\ s.errs = {} <=> /\ r.errs = {} /\ FactsTwice(expect) = {}
                                /\ AllBind(manifest, names \ DOMAIN r.sites)
                                /\ \A name \in names \cap DOMAIN manifest : manifest[name].ref
             /\ s.errs = {} => /\ s.used = r.used \cup (names \ DOMAIN r.sites)
                               /\ s.facts = r.facts \cup names
                               /\ DOMAIN s.sites = DOMAIN r.sites \cup names
<1> DEFINE twice == "twice"
           noRef == "no ref"
           names == FactsNamed(expect, language)
           again == FactsTwice(expect)
           fresh == names \ DOMAIN r.sites
           unspelled == {name \in names \cap DOMAIN manifest : ~manifest[name].ref}
           f == FailEach(r, twice, again)
           b == BindEach(f, manifest, fresh)
           u == [b EXCEPT !.facts = b.facts \cup names]
           s == FailEach(u, noRef, unspelled)
<1>1. s = FactNames(r, expect, language, manifest)
  BY DEF FactNames
<1>2. /\ DOMAIN r.sites \cup fresh = DOMAIN r.sites \cup names
      /\ unspelled = {} <=> \A name \in names \cap DOMAIN manifest : manifest[name].ref
  OBVIOUS
<1> HIDE DEF twice, noRef, again, fresh, unspelled, names
<1>3. /\ IsResolver(f, manifest) /\ f.used = r.used /\ f.sites = r.sites /\ f.facts = r.facts
      /\ f.errs = {} <=> r.errs = {} /\ again = {}
  BY FailEachLeaves
<1> HIDE DEF f
<1>4. /\ IsResolver(b, manifest) /\ b.facts = f.facts
      /\ b.errs = {} <=> f.errs = {} /\ AllBind(manifest, fresh)
      /\ b.errs = {} => b.used = f.used \cup fresh /\ DOMAIN b.sites = DOMAIN f.sites \cup fresh
  BY <1>3, BindEachDecides
<1> HIDE DEF b
<1>5. /\ IsResolver(u, manifest) /\ u.facts = b.facts \cup names
      /\ u.sites = b.sites /\ u.used = b.used /\ u.errs = b.errs
  BY <1>4, FactsLeave
<1> HIDE DEF u
<1>6. /\ IsResolver(s, manifest) /\ s.used = u.used /\ s.sites = u.sites /\ s.facts = u.facts
      /\ s.errs = {} <=> u.errs = {} /\ unspelled = {}
  BY <1>5, FailEachLeaves
<1> HIDE DEF s
<1>7. s.errs = {} <=> r.errs = {} /\ again = {} /\ AllBind(manifest, fresh) /\ unspelled = {}
  BY <1>3, <1>4, <1>5, <1>6
<1>8. s.errs = {} => s.used = r.used \cup fresh /\ s.facts = r.facts \cup names /\ DOMAIN s.sites = DOMAIN r.sites \cup fresh
  BY <1>3, <1>4, <1>5, <1>6
<1>9. IsResolver(s, manifest)
  BY <1>6
<1> QED BY <1>1, <1>2, <1>7, <1>8, <1>9 DEF again, fresh, names

(* The manifest: every entry used, a ref for facts alone, no site twice. *)
LEMMA ManifestDecides ==
  ASSUME NEW r, NEW manifest, IsResolver(r, manifest)
  PROVE  LET s == ManifestNames(r, manifest)
         IN  /\ IsResolver(s, manifest) /\ s.used = r.used /\ s.sites = r.sites
             /\ s.errs = {} <=> /\ r.errs = {} /\ DOMAIN manifest \subseteq r.used
                                /\ \A n \in DOMAIN manifest \ r.facts : ~manifest[n].ref
                                /\ \A n, m \in DOMAIN manifest : n # m /\ Placed(manifest[n]) /\ Placed(manifest[m])
                                     => Site(manifest[n]) # Site(manifest[m])
<1> DEFINE orphan == "orphan"
           stray == "stray ref"
           shared == "shared"
           placed == {n \in DOMAIN manifest : Placed(manifest[n])}
           unused == DOMAIN manifest \ r.used
           spelled == {n \in DOMAIN manifest \ r.facts : manifest[n].ref}
           together == {n \in placed : \E m \in placed \ {n} : Site(manifest[n]) = Site(manifest[m])}
           f == FailEach(r, orphan, unused)
           g == FailEach(f, stray, spelled)
           s == FailEach(g, shared, together)
<1>1. s = ManifestNames(r, manifest)
  BY DEF ManifestNames
<1>2. /\ unused = {} <=> DOMAIN manifest \subseteq r.used
      /\ spelled = {} <=> \A n \in DOMAIN manifest \ r.facts : ~manifest[n].ref
      /\ together = {} <=> \A n, m \in DOMAIN manifest : n # m /\ Placed(manifest[n]) /\ Placed(manifest[m])
                                     => Site(manifest[n]) # Site(manifest[m])
  OBVIOUS
<1> HIDE DEF orphan, stray, shared, unused, spelled, together
<1>3. /\ IsResolver(f, manifest) /\ f.used = r.used /\ f.sites = r.sites /\ f.facts = r.facts
      /\ f.errs = {} <=> r.errs = {} /\ unused = {}
  BY FailEachLeaves
<1> HIDE DEF f
<1>4. /\ IsResolver(g, manifest) /\ g.used = f.used /\ g.sites = f.sites /\ g.facts = f.facts
      /\ g.errs = {} <=> f.errs = {} /\ spelled = {}
  BY <1>3, FailEachLeaves
<1> HIDE DEF g
<1>5. /\ IsResolver(s, manifest) /\ s.used = g.used /\ s.sites = g.sites /\ s.facts = g.facts
      /\ s.errs = {} <=> g.errs = {} /\ together = {}
  BY <1>4, FailEachLeaves
<1> HIDE DEF s
<1>6. s.errs = {} <=> r.errs = {} /\ unused = {} /\ spelled = {} /\ together = {}
  BY <1>3, <1>4, <1>5
<1> QED BY <1>1, <1>2, <1>3, <1>4, <1>5, <1>6

(* The configured names: each used. *)
LEMMA ConfiguredDecide ==
  ASSUME NEW r, NEW manifest, NEW expect, IsResolver(r, manifest)
  PROVE  LET s == ConfiguredEntries(r, expect)
         IN  /\ IsResolver(s, manifest) /\ s.sites = r.sites
             /\ s.errs = {} <=> r.errs = {} /\ Configured(expect) \subseteq r.used
<1> DEFINE noRoot == "orphan root"
           noEntry == "orphan entry"
           roots == expect.roots \ r.used
           entries == expect.declarations \ r.used
           f == FailEach(r, noRoot, roots)
           s == FailEach(f, noEntry, entries)
<1>1. s = ConfiguredEntries(r, expect)
  BY DEF ConfiguredEntries
<1>2. roots = {} /\ entries = {} <=> Configured(expect) \subseteq r.used
  BY DEF Configured
<1> HIDE DEF noRoot, noEntry, roots, entries
<1>3. /\ IsResolver(f, manifest) /\ f.used = r.used /\ f.sites = r.sites /\ f.facts = r.facts
      /\ f.errs = {} <=> r.errs = {} /\ roots = {}
  BY FailEachLeaves
<1> HIDE DEF f
<1>4. /\ IsResolver(s, manifest) /\ s.used = f.used /\ s.sites = f.sites /\ s.facts = f.facts
      /\ s.errs = {} <=> f.errs = {} /\ entries = {}
  BY <1>3, FailEachLeaves
<1> HIDE DEF s
<1> QED BY <1>1, <1>2, <1>3, <1>4

(* Nothing is used before the first pass. *)
LEMMA StartsEmpty ==
  ASSUME NEW manifest
  PROVE  /\ IsResolver(Resolver, manifest)
         /\ Resolver.used = {} /\ DOMAIN Resolver.sites = {} /\ Resolver.facts = {} /\ Resolver.errs = {}
<1>1. /\ DOMAIN Resolver = {"used", "sites", "facts", "errs"}
      /\ Resolver.used = {} /\ Resolver.sites = [name \in {} |-> None] /\ Resolver.facts = {} /\ Resolver.errs = {}
  BY DEF Resolver
<1>2. DOMAIN Resolver.sites = {}
  BY <1>1
<1>3. Resolver.sites = [name \in DOMAIN Resolver.sites |-> Site(manifest[name])]
  BY <1>1, <1>2
<1> HIDE DEF Resolver
<1> QED BY <1>1, <1>2, <1>3 DEF IsResolver

(* What the passes ask between them, each of the names the ones before it  *)
(* have used.                                                              *)
PassesHold(expect, language, manifest) ==
  LET rows == RowSymbols(expect)
      skips == Range(expect.skips)
      literals == LiteralsOf(expect)
      named == FactsNamed(expect, language)
      own == rows \ Configured(expect)
      evaluated == EvaluatedBy(expect) \ rows
      beforeRows == skips \cup literals \cup evaluated
      used == beforeRows \cup rows \cup (named \ (skips \cup literals \cup own))
  IN  /\ EvaluatedBy(expect) \subseteq DOMAIN manifest
      /\ rows \cap skips = {} /\ AllBind(manifest, skips)
      /\ literals \cap skips = {} /\ AllBind(manifest, literals)
      /\ rows \cap beforeRows = {} /\ SharedSymbols(expect) = {}
      /\ rows \cap expect.declarations \cap expect.roots = {}
      /\ rows \cap Configured(expect) \cap DOMAIN manifest = {}
      /\ AllBind(manifest, own)
      /\ FactsTwice(expect) = {} /\ AllBind(manifest, named \ (skips \cup literals \cup own))
      /\ \A name \in named \cap DOMAIN manifest : manifest[name].ref
      /\ DOMAIN manifest \subseteq used
      /\ \A n \in DOMAIN manifest \ named : ~manifest[n].ref
      /\ \A n, m \in DOMAIN manifest : n # m /\ Placed(manifest[n]) /\ Placed(manifest[m])
           => Site(manifest[n]) # Site(manifest[m])
      /\ Configured(expect) \subseteq used

(* The sites of the names it asks to bind. *)
SitesOf(expect, language, manifest) == [name \in BoundNames(expect, language) |-> Site(manifest[name])]

(* The passes after one another: no defect exactly where each one's        *)
(* question holds, and then the sites are the bound names'.                *)
LEMMA PassesDecide ==
  ASSUME NEW expect, NEW language, NEW manifest
  PROVE  /\ Resolve(expect, language, manifest).errs = {} <=> PassesHold(expect, language, manifest)
         /\ Resolve(expect, language, manifest).errs = {}
              => Resolve(expect, language, manifest).sites = SitesOf(expect, language, manifest)
<1> DEFINE rows == RowSymbols(expect)
           skips == Range(expect.skips)
           literals == LiteralsOf(expect)
           named == FactsNamed(expect, language)
           own == rows \ Configured(expect)
           evaluated == EvaluatedBy(expect) \ rows
           a == EvaluationSymbols(Resolver, expect, manifest)
           b == Skips(a, expect, manifest)
           c == Literals(b, expect, manifest)
           d == DeclaredRows(c, expect, manifest)
           e == FactNames(d, expect, language, manifest)
           f == ManifestNames(e, manifest)
           g == ConfiguredEntries(f, expect)
<1>1. g = Resolve(expect, language, manifest)
  BY DEF Resolve
<1>2. /\ IsResolver(a, manifest) /\ a.used = {} /\ DOMAIN a.sites = {} /\ a.facts = {}
      /\ a.errs = {} <=> EvaluatedBy(expect) \subseteq DOMAIN manifest
  BY StartsEmpty, EvaluationsDecide
<1> HIDE DEF a
<1>3. /\ IsResolver(b, manifest) /\ b.facts = a.facts
      /\ b.errs = {} <=> a.errs = {} /\ rows \cap skips = {} /\ AllBind(manifest, skips)
      /\ b.errs = {} => b.used = a.used \cup skips /\ DOMAIN b.sites = DOMAIN a.sites \cup skips
  BY <1>2, SkipsDecide
<1> HIDE DEF b
<1>4. /\ IsResolver(c, manifest) /\ c.facts = b.facts
      /\ c.errs = {} <=> b.errs = {} /\ literals \cap b.used = {} /\ AllBind(manifest, literals)
      /\ c.errs = {} => /\ c.used = b.used \cup literals \cup evaluated
                        /\ DOMAIN c.sites = DOMAIN b.sites \cup literals
  BY <1>3, LiteralsDecide
<1> HIDE DEF c
<1>5. /\ IsResolver(d, manifest) /\ d.facts = c.facts
      /\ d.errs = {} <=> /\ c.errs = {} /\ rows \cap c.used = {} /\ SharedSymbols(expect) = {}
                         /\ rows \cap expect.declarations \cap expect.roots = {}
                         /\ rows \cap Configured(expect) \cap DOMAIN manifest = {}
                         /\ AllBind(manifest, own)
      /\ d.errs = {} => d.used = c.used \cup rows /\ DOMAIN d.sites = DOMAIN c.sites \cup own
  <2>1. IsResolver(c, manifest)
    BY <1>4
  <2> HIDE DEF d, own
  <2>2. d = DeclaredRows(c, expect, manifest) /\ own = RowSymbols(expect) \ Configured(expect)
    BY DEF d, own
  <2> QED BY <2>1, <2>2, RowsDecide
<1> HIDE DEF d
<1>6. /\ IsResolver(e, manifest)
      /\ e.errs = {} <=> /\ d.errs = {} /\ FactsTwice(expect) = {}
                         /\ AllBind(manifest, named \ DOMAIN d.sites)
                         /\ \A name \in named \cap DOMAIN manifest : manifest[name].ref
      /\ e.errs = {} => /\ e.used = d.used \cup (named \ DOMAIN d.sites)
                        /\ e.facts = d.facts \cup named
                        /\ DOMAIN e.sites = DOMAIN d.sites \cup named
  BY <1>5, FactsDecide
<1> HIDE DEF e
<1>7. /\ IsResolver(f, manifest) /\ f.used = e.used /\ f.sites = e.sites
      /\ f.errs = {} <=> /\ e.errs = {} /\ DOMAIN manifest \subseteq e.used
                         /\ \A n \in DOMAIN manifest \ e.facts : ~manifest[n].ref
                         /\ \A n, m \in DOMAIN manifest : n # m /\ Placed(manifest[n]) /\ Placed(manifest[m])
                              => Site(manifest[n]) # Site(manifest[m])
  BY <1>6, ManifestDecides
<1> HIDE DEF f
<1>8. /\ IsResolver(g, manifest) /\ g.sites = f.sites
      /\ g.errs = {} <=> f.errs = {} /\ Configured(expect) \subseteq f.used
  BY <1>7, ConfiguredDecide
<1> HIDE DEF g, rows, skips, literals, named, own, evaluated
<1> DEFINE beforeRows == skips \cup literals \cup evaluated
           used == beforeRows \cup rows \cup (named \ (skips \cup literals \cup own))
           A == EvaluatedBy(expect) \subseteq DOMAIN manifest
           B == A /\ rows \cap skips = {} /\ AllBind(manifest, skips)
           C == B /\ literals \cap skips = {} /\ AllBind(manifest, literals)
           D == /\ C /\ rows \cap beforeRows = {} /\ SharedSymbols(expect) = {}
                /\ rows \cap expect.declarations \cap expect.roots = {}
                /\ rows \cap Configured(expect) \cap DOMAIN manifest = {}
                /\ AllBind(manifest, own)
           E == /\ D /\ FactsTwice(expect) = {} /\ AllBind(manifest, named \ (skips \cup literals \cup own))
                /\ \A name \in named \cap DOMAIN manifest : manifest[name].ref
           F == /\ E /\ DOMAIN manifest \subseteq used
                /\ \A n \in DOMAIN manifest \ named : ~manifest[n].ref
                /\ \A n, m \in DOMAIN manifest : n # m /\ Placed(manifest[n]) /\ Placed(manifest[m])
                     => Site(manifest[n]) # Site(manifest[m])
<1>9. a.errs = {} <=> A
  BY <1>2
<1>10. /\ b.errs = {} <=> B
       /\ b.errs = {} => b.used = skips /\ DOMAIN b.sites = skips /\ b.facts = {}
  BY <1>2, <1>3, <1>9
<1>11. /\ c.errs = {} <=> C
       /\ c.errs = {} => c.used = beforeRows /\ DOMAIN c.sites = skips \cup literals /\ c.facts = {}
  BY <1>4, <1>10
<1>12. /\ d.errs = {} <=> D
       /\ d.errs = {} => /\ d.used = beforeRows \cup rows /\ d.facts = {}
                         /\ DOMAIN d.sites = skips \cup literals \cup own
  <2> HIDE DEF C, beforeRows
  <2> QED BY <1>5, <1>11
<1>13. /\ e.errs = {} <=> E
       /\ e.errs = {} => /\ e.used = used /\ e.facts = named
                         /\ DOMAIN e.sites = skips \cup literals \cup own \cup named
  <2> HIDE DEF D, beforeRows
  <2> QED BY <1>6, <1>12
<1>14. f.errs = {} <=> F
  <2> HIDE DEF E, used
  <2> QED BY <1>7, <1>13
<1>15. g.errs = {} <=> F /\ Configured(expect) \subseteq used
  <2> HIDE DEF E, used
  <2> QED BY <1>7, <1>8, <1>13, <1>14
<1>16. F /\ Configured(expect) \subseteq used <=> PassesHold(expect, language, manifest)
  <2> HIDE DEF beforeRows, used
  <2> QED BY Zenon DEF PassesHold, rows, skips, literals, named, own, evaluated, beforeRows, used
<1>17. ASSUME g.errs = {} PROVE g.sites = SitesOf(expect, language, manifest)
  <2>1. g.sites = e.sites /\ DOMAIN e.sites = skips \cup literals \cup own \cup named
    BY <1>7, <1>8, <1>13, <1>17
  <2>2. BoundNames(expect, language) = skips \cup literals \cup own \cup named
    BY DEF BoundNames, rows, skips, literals, named, own
  <2>3. e.sites = [name \in DOMAIN e.sites |-> Site(manifest[name])]
    BY <1>6 DEF IsResolver
  <2> QED BY <2>1, <2>2, <2>3 DEF SitesOf
<1> QED BY <1>1, <1>15, <1>16, <1>17

(* A symbol shared is one of two rows. *)
LEMMA SharedAreTwice ==
  ASSUME NEW expect, expect.rows \in Seq(Range(expect.rows))
  PROVE  SharedSymbols(expect) = {}
           <=> \A i, j \in DOMAIN expect.rows : i # j => expect.rows[i].symbol # expect.rows[j].symbol
<1>1. Len(expect.rows) \in Nat /\ DOMAIN expect.rows = 1 .. Len(expect.rows)
  OBVIOUS
<1>2. SharedSymbols(expect) = {}
        <=> \A i \in DOMAIN expect.rows : \A j \in 1 .. i - 1 : expect.rows[j].symbol # expect.rows[i].symbol
  BY DEF SharedSymbols
<1>3. ASSUME \A i \in DOMAIN expect.rows : \A j \in 1 .. i - 1 : expect.rows[j].symbol # expect.rows[i].symbol,
             NEW i \in DOMAIN expect.rows, NEW j \in DOMAIN expect.rows, i # j
      PROVE  expect.rows[i].symbol # expect.rows[j].symbol
  <2>1. i \in 1 .. j - 1 \/ j \in 1 .. i - 1
    BY <1>1, <1>3
  <2> QED BY <1>3, <2>1
<1>4. ASSUME NEW i \in DOMAIN expect.rows, NEW j \in 1 .. i - 1
      PROVE  j \in DOMAIN expect.rows /\ i # j
  BY <1>1
<1> QED BY <1>2, <1>3, <1>4

(* A fact stated twice is one of two that a language has both of. *)
LEMMA FactsAreTwice ==
  ASSUME NEW expect, expect.facts \in Seq(Range(expect.facts))
  PROVE  FactsTwice(expect) = {}
           <=> \A i, j \in DOMAIN expect.facts :
                 LET a == expect.facts[i]
                     b == expect.facts[j]
                 IN  i # j /\ a.role = b.role /\ a.symbol = b.symbol
                     => \A language \in Range(expect.languages) : ~ (Applies(a, language) /\ Applies(b, language))
<1> DEFINE Alike(i, j) ==
             /\ expect.facts[i].role = expect.facts[j].role /\ expect.facts[i].symbol = expect.facts[j].symbol
             /\ \E language \in Range(expect.languages) : /\ Applies(expect.facts[i], language)
                                                          /\ Applies(expect.facts[j], language)
<1>1. Len(expect.facts) \in Nat /\ DOMAIN expect.facts = 1 .. Len(expect.facts)
  OBVIOUS
<1>2. FactsTwice(expect) = {} <=> \A i \in DOMAIN expect.facts : \A j \in 1 .. i - 1 : ~ Alike(i, j)
  <2>1. \A a, b : (\E k \in DOMAIN expect.languages : /\ Applies(a, expect.languages[k])
                                                      /\ Applies(b, expect.languages[k]))
                    <=> \E language \in Range(expect.languages) : Applies(a, language) /\ Applies(b, language)
    BY DEF Range
  <2>2. FactsTwice(expect) = {expect.facts[i].symbol : i \in {i \in DOMAIN expect.facts : \E j \in 1 .. i - 1 : Alike(i, j)}}
    <3>1. \A i \in DOMAIN expect.facts : \A j \in 1 .. i - 1 :
             Alike(i, j) <=> /\ expect.facts[i].role = expect.facts[j].role /\ expect.facts[i].symbol = expect.facts[j].symbol
                             /\ \E k \in DOMAIN expect.languages : /\ Applies(expect.facts[i], expect.languages[k])
                                                                   /\ Applies(expect.facts[j], expect.languages[k])
      BY <2>1
    <3> HIDE DEF Alike
    <3> QED BY <3>1 DEF FactsTwice
  <2> HIDE DEF Alike
  <2> QED BY <2>2
<1>3. \A i, j : Alike(i, j) <=> Alike(j, i)
  OBVIOUS
<1>4. (\A i, j \in DOMAIN expect.facts : i # j => ~ Alike(i, j))
        <=> \A i, j \in DOMAIN expect.facts :
                 LET a == expect.facts[i]
                     b == expect.facts[j]
                 IN  i # j /\ a.role = b.role /\ a.symbol = b.symbol
                     => \A language \in Range(expect.languages) : ~ (Applies(a, language) /\ Applies(b, language))
  OBVIOUS
<1> HIDE DEF Alike
<1>5. ASSUME \A i \in DOMAIN expect.facts : \A j \in 1 .. i - 1 : ~ Alike(i, j),
             NEW i \in DOMAIN expect.facts, NEW j \in DOMAIN expect.facts, i # j
      PROVE  ~ Alike(i, j)
  <2>1. i \in 1 .. j - 1 \/ j \in 1 .. i - 1
    BY <1>1, <1>5
  <2> QED BY <1>3, <1>5, <2>1
<1>6. ASSUME NEW i \in DOMAIN expect.facts, NEW j \in 1 .. i - 1
      PROVE  j \in DOMAIN expect.facts /\ i # j
  BY <1>1
<1> QED BY <1>2, <1>4, <1>5, <1>6

(* A site read twice is placed both times. *)
LEMMA SitesAreOwn ==
  ASSUME NEW manifest
  PROVE  (\A n, m \in DOMAIN manifest : n # m /\ Placed(manifest[n]) => Site(manifest[n]) # Site(manifest[m]))
           <=> \A n, m \in DOMAIN manifest : n # m /\ Placed(manifest[n]) /\ Placed(manifest[m])
                 => Site(manifest[n]) # Site(manifest[m])
<1>1. \A a, b : Placed(a) /\ Site(a) = Site(b) => Placed(b)
  BY DEF Placed, Site
<1> QED BY <1>1

(* A name binds by a complete manifest entry. *)
LEMMA CompleteBinds ==
  ASSUME NEW manifest, NEW name, name \in DOMAIN manifest => manifest[name].line \in Int \cup {None}
  PROVE  Binds(manifest, name) <=> name \in DOMAIN manifest /\ Complete(manifest[name])
BY DEF Binds, Unfiled, Unlined, Complete, Placed

(* The passes ask what the names' one use and the manifest's entries do,   *)
(* whatever their order: resolve.go:34.                                    *)
LEMMA PassesAskWhatIsStated ==
  ASSUME NEW expect, NEW language, NEW manifest,
         expect.rows \in Seq(Range(expect.rows)), expect.facts \in Seq(Range(expect.facts)),
         \A name \in DOMAIN manifest : manifest[name].ref \in BOOLEAN /\ manifest[name].line \in Int \cup {None}
  PROVE  PassesHold(expect, language, manifest) <=> NamedOnce(expect) /\ WellManifested(expect, language, manifest)
<1> DEFINE rows == RowSymbols(expect)
           skips == Range(expect.skips)
           literals == LiteralsOf(expect)
           named == FactsNamed(expect, language)
           configured == Configured(expect)
           evaluated == EvaluatedBy(expect)
           own == rows \ configured
           beforeRows == skips \cup literals \cup (evaluated \ rows)
           used == beforeRows \cup rows \cup (named \ (skips \cup literals \cup own))
           bound == own \cup literals \cup skips \cup named
           names == DOMAIN manifest
           ReadTwice == \A n, m \in names : n # m /\ Placed(manifest[n]) /\ Placed(manifest[m])
                          => Site(manifest[n]) # Site(manifest[m])
           Spelled == (\A name \in named \cap names : manifest[name].ref) /\ (\A n \in names \ named : ~manifest[n].ref)
           Bind(set) == \A name \in set : name \in names /\ Complete(manifest[name])
           FactsOnce == FactsTwice(expect) = {}
           RowsOnce == SharedSymbols(expect) = {}
           Both == rows \cap expect.declarations \cap expect.roots = {}
<1>1. \A set : AllBind(manifest, set) <=> Bind(set)
  BY CompleteBinds DEF AllBind
<1>2. NamedOnce(expect) <=> RowsOnce /\ rows \cap (skips \cup literals) = {} /\ literals \cap skips = {} /\ Both /\ FactsOnce
  BY SharedAreTwice, FactsAreTwice DEF NamedOnce
<1>3. Spelled <=> \A name \in names : manifest[name].ref = (name \in named)
  OBVIOUS
<1>4. WellManifested(expect, language, manifest) <=>
        /\ bound \cup evaluated = names /\ \A name \in bound : Complete(manifest[name])
        /\ Spelled /\ ReadTwice /\ configured \subseteq rows \cup names /\ configured \cap rows \cap names = {}
  <2>1. BoundNames(expect, language) = bound
    BY DEF BoundNames
  <2> HIDE DEF Spelled, bound, rows, named, configured, evaluated
  <2> QED BY <1>3, <2>1, SitesAreOwn DEF WellManifested, rows, named, configured, evaluated
<1>5. PassesHold(expect, language, manifest) <=>
        /\ evaluated \subseteq names /\ rows \cap skips = {} /\ Bind(skips)
        /\ literals \cap skips = {} /\ Bind(literals) /\ rows \cap beforeRows = {}
        /\ RowsOnce /\ Both /\ rows \cap configured \cap names = {} /\ Bind(own)
        /\ FactsOnce /\ Bind(named \ (skips \cup literals \cup own))
        /\ Spelled /\ ReadTwice /\ names \subseteq used /\ configured \subseteq used
  <2>1. PassesHold(expect, language, manifest) <=>
          /\ evaluated \subseteq names /\ rows \cap skips = {} /\ AllBind(manifest, skips)
          /\ literals \cap skips = {} /\ AllBind(manifest, literals) /\ rows \cap beforeRows = {}
          /\ RowsOnce /\ Both /\ rows \cap configured \cap names = {} /\ AllBind(manifest, own)
          /\ FactsOnce /\ AllBind(manifest, named \ (skips \cup literals \cup own))
          /\ Spelled /\ ReadTwice /\ names \subseteq used /\ configured \subseteq used
    BY Zenon DEF PassesHold
  <2> HIDE DEF Spelled, ReadTwice, Bind, FactsOnce, RowsOnce, Both, used, beforeRows, own, skips, literals, named,
               rows, configured, evaluated, names
  <2> QED BY <1>1, <2>1
<1>6. (Bind(skips) /\ Bind(literals) /\ Bind(own) /\ Bind(named \ (skips \cup literals \cup own))) <=> Bind(bound)
  OBVIOUS
<1>7. Bind(bound) <=> bound \subseteq names /\ \A name \in bound : Complete(manifest[name])
  OBVIOUS
<1> DEFINE Full == \A name \in bound : Complete(manifest[name])
<1> HIDE DEF Spelled, ReadTwice, FactsOnce, RowsOnce, Both, Bind, Full, skips, literals, named, rows, configured, evaluated, names
<1>8. rows \cap skips = {} /\ literals \cap skips = {} /\ rows \cap beforeRows = {}
        <=> rows \cap (skips \cup literals) = {} /\ literals \cap skips = {}
  OBVIOUS
<1>9. ASSUME bound \subseteq names, evaluated \subseteq names, rows \cap configured \cap names = {}
      PROVE  (names \subseteq used <=> bound \cup evaluated = names) /\ (configured \subseteq used => configured \subseteq rows \cup names)
  BY <1>9
<1>10. ASSUME bound \cup evaluated = names, configured \subseteq rows \cup names PROVE configured \subseteq used
  BY <1>10
<1>11. configured \cap rows \cap names = rows \cap configured \cap names
  OBVIOUS
<1> HIDE DEF used, bound, beforeRows, own
<1>12. WellManifested(expect, language, manifest) <=>
        /\ bound \cup evaluated = names /\ Full
        /\ Spelled /\ ReadTwice /\ configured \subseteq rows \cup names /\ rows \cap configured \cap names = {}
  BY <1>4, <1>11 DEF Full
<1>13. PassesHold(expect, language, manifest) <=>
        /\ evaluated \subseteq names /\ rows \cap (skips \cup literals) = {} /\ literals \cap skips = {}
        /\ bound \subseteq names /\ Full
        /\ RowsOnce /\ Both /\ rows \cap configured \cap names = {} /\ FactsOnce
        /\ Spelled /\ ReadTwice /\ names \subseteq used /\ configured \subseteq used
  BY <1>5, <1>6, <1>7, <1>8 DEF Full
<1>14. bound \cup evaluated = names => bound \subseteq names /\ evaluated \subseteq names
  OBVIOUS
<1> QED BY <1>2, <1>9, <1>10, <1>12, <1>13, <1>14

-----------------------------------------------------------------------------
(* What the types leave of a rendering that reads. *)
LEMMA HeldIsTyped ==
  ASSUME corpus \in Corpora, NEW i \in DOMAIN corpus, corpus[i].expect # None, NEW held \in Held(corpus[i])
  PROVE  /\ corpus[i].expect.rows \in Seq(Range(corpus[i].expect.rows))
         /\ corpus[i].expect.facts \in Seq(Range(corpus[i].expect.facts))
         /\ \A row \in RowsOf(corpus[i].expect) : row.configurations \in Seq(Range(row.configurations))
         /\ LET manifest == held[2].manifest
            IN  /\ \A name \in DOMAIN manifest.symbols : /\ manifest.symbols[name].ref \in BOOLEAN
                                                         /\ manifest.symbols[name].line \in Int \cup {None}
                /\ manifest.built \in Seq(Range(manifest.built))
                /\ \A file \in DOMAIN held[2].files : held[2].files[file] \in Nat
<1>1. corpus[i] \in Range(corpus)
  BY CorpusIsAList
<1>2. \A name \in DOMAIN held[2].manifest.symbols : held[2].manifest.symbols[name] \in Range(held[2].manifest.symbols)
  BY DEF Range
<1>3. \A bound \in Range(held[2].manifest.symbols) : bound.ref \in BOOLEAN /\ bound.line \in Int \cup {None}
  BY <1>1, FixturesAreTyped
<1> QED BY <1>1, <1>2, <1>3, FixturesAreTyped DEF RowsOf

(* Resolve of one rendering, for every expectation and manifest of the     *)
(* types.                                                                  *)
LEMMA NamesDecide ==
  ASSUME NEW expect, NEW language, NEW manifest,
         expect.rows \in Seq(Range(expect.rows)), expect.facts \in Seq(Range(expect.facts)),
         \A name \in DOMAIN manifest : manifest[name].ref \in BOOLEAN /\ manifest[name].line \in Int \cup {None}
  PROVE  ResolvesExactly(expect, language, manifest)
<1>1. /\ Resolve(expect, language, manifest).errs = {} <=> PassesHold(expect, language, manifest)
      /\ Resolve(expect, language, manifest).errs = {}
           => Resolve(expect, language, manifest).sites = SitesOf(expect, language, manifest)
  BY PassesDecide
<1>2. PassesHold(expect, language, manifest) <=> NamedOnce(expect) /\ WellManifested(expect, language, manifest)
  BY PassesAskWhatIsStated
<1> QED BY <1>1, <1>2 DEF ResolvesExactly, SitesOf

(* The names of every rendering that reads resolve as their one use, their *)
(* manifest and their positions say, in whatever order the passes meet     *)
(* them: resolve.go:34.                                                    *)
THEOREM NamesResolve == CorpusSpec => []NamesResolveAsUsed
<1>1. CheckInv => NamesResolveAsUsed
  <2> SUFFICES ASSUME CheckInv, NEW i \in Decoded, NEW held \in Held(corpus[i])
               PROVE  ResolvesExactly(corpus[i].expect, held[1], held[2].manifest.symbols)
    BY DEF NamesResolveAsUsed
  <2>1. corpus \in Corpora /\ i \in DOMAIN corpus /\ corpus[i].expect # None
    BY DEF CheckInv, Accounted, Decoded
  <2> QED BY <2>1, HeldIsTyped, NamesDecide
<1> QED BY <1>1, ChecksAccountForAll, PTL

(* A set of naturals has a least member. *)
LEMMA LeastMember ==
  ASSUME NEW T, T \subseteq Nat, T # {}
  PROVE  \E x \in T : \A y \in T : x <= y
<1> DEFINE Up == {1 .. n : n \in T}
<1>1. Up \subseteq FiniteSubsetsOf(Nat) /\ Up # {}
  <2> SUFFICES ASSUME NEW n \in T PROVE 1 .. n \in FiniteSubsetsOf(Nat)
    OBVIOUS
  <2>1. IsFiniteSet(1 .. n) /\ 1 .. n \subseteq Nat
    BY FS_Interval
  <2> QED BY <2>1, SMT DEF FiniteSubsetsOf
<1>2. IsWellFoundedOn(StrictSubsetOrdering(Nat), FiniteSubsetsOf(Nat))
  BY FS_StrictSubsetOrderingWellFounded
<1>3. PICK U \in Up : \A V \in Up : ~ (<<V, U>> \in StrictSubsetOrdering(Nat))
  <2> HIDE DEF Up
  <2> QED BY <1>1, <1>2, WFMin
<1>4. PICK x \in T : U = 1 .. x
  OBVIOUS
<1>5. ASSUME NEW y \in T, y < x PROVE FALSE
  <2>1. (1 .. y) \subseteq (1 .. x) /\ x \in 1 .. x /\ x \notin 1 .. y
    BY <1>5, T \subseteq Nat
  <2>2. <<1 .. y, 1 .. x>> \in StrictSubsetOrdering(Nat)
    BY <2>1 DEF StrictSubsetOrdering
  <2> QED BY <1>3, <1>4, <2>2
<1> QED BY <1>5, T \subseteq Nat

(* slices.Index: where an identifier comes first, and 0 where it does not. *)
LEMMA IndexFinds ==
  ASSUME NEW matrix, matrix \in Seq(Range(matrix)), NEW id, IndexIn(matrix, id) # 0
  PROVE  IndexIn(matrix, id) \in DOMAIN matrix /\ matrix[IndexIn(matrix, id)] = id
<1>1. Len(matrix) \in Nat /\ DOMAIN matrix = 1 .. Len(matrix)
  OBVIOUS
<1>2. \E i \in DOMAIN matrix : matrix[i] = id
  BY <1>1 DEF IndexIn, Contains
<1> DEFINE At == {j \in DOMAIN matrix : matrix[j] = id}
<1>3. PICK i \in At : \A j \in At : i <= j
  <2>1. At \subseteq Nat /\ At # {}
    BY <1>1, <1>2
  <2> HIDE DEF At
  <2> QED BY <2>1, LeastMember
<1>4. \A j \in 1 .. i - 1 : matrix[j] # id
  BY <1>1, <1>3
<1>5. \E k \in DOMAIN matrix : matrix[k] = id /\ \A j \in 1 .. k - 1 : matrix[j] # id
  BY <1>3, <1>4
<1>6. IndexIn(matrix, id) = CHOOSE k \in DOMAIN matrix : matrix[k] = id /\ \A j \in 1 .. k - 1 : matrix[j] # id
  BY <1>1, <1>2 DEF IndexIn, Contains
<1> QED BY <1>5, <1>6

(* A row of no order defect names a part of the matrix, in its order. *)
LEMMA OrderedIsPart ==
  ASSUME NEW row, NEW matrix, matrix \in Seq(Range(matrix)), row.configurations \in Seq(Range(row.configurations)),
         MatrixOrder(row, matrix) = {}
  PROVE  IsPartOf(row.configurations, matrix)
<1> DEFINE named == row.configurations
           at == [i \in DOMAIN named |-> IndexIn(matrix, named[i])]
           held == {i \in DOMAIN at : at[i] # 0}
<1>1. Len(matrix) \in Nat /\ DOMAIN matrix = 1 .. Len(matrix) /\ DOMAIN named \subseteq Nat
  OBVIOUS
<1>2. MatrixOrder(row, matrix) =
        {<<"unknown configuration", row.symbol>> : i \in DOMAIN at \ held}
        \cup {<<"configurations order", row.symbol>> : i \in {i \in held : \E j \in held : j < i /\ at[i] <= at[j]}}
  BY DEF MatrixOrder
<1>3. DOMAIN at = DOMAIN named
  OBVIOUS
<1>4. \A i \in DOMAIN named : at[i] # 0
  <2> HIDE DEF at
  <2> QED BY <1>2, <1>3
<1>5. \A i \in DOMAIN named : at[i] \in DOMAIN matrix /\ named[i] = matrix[at[i]]
  BY <1>4, IndexFinds
<1>6. \A i, j \in DOMAIN named : j < i => ~ (at[i] <= at[j])
  <2> HIDE DEF at
  <2> QED BY <1>2, <1>3, <1>4
<1>7. at \in [DOMAIN named -> DOMAIN matrix]
  BY <1>5
<1> HIDE DEF at
<1>8. \A i, j \in DOMAIN named : i < j => at[i] < at[j]
  BY <1>1, <1>5, <1>6
<1> QED BY <1>5, <1>7, <1>8 DEF IsPartOf

(* A row that names no configuration names a part of any matrix. *)
LEMMA NothingIsPart ==
  ASSUME NEW whole
  PROVE  IsPartOf(<< >>, whole)
<1>1. DOMAIN << >> = {} /\ << >> \in [DOMAIN << >> -> DOMAIN whole]
  OBVIOUS
<1> QED BY <1>1 DEF IsPartOf

(* A rendering of no defect: names have lines of its files and rows have   *)
(* parts of the matrix.                                                    *)
LEMMA NoDefectIsPlaced ==
  ASSUME NEW expect, NEW l, NEW rendering, RenderingErrs(expect, l, rendering) = {},
         expect.rows \in Seq(Range(expect.rows)), expect.facts \in Seq(Range(expect.facts)),
         \A row \in RowsOf(expect) : row.configurations \in Seq(Range(row.configurations)),
         \A name \in DOMAIN rendering.manifest.symbols :
           /\ rendering.manifest.symbols[name].ref \in BOOLEAN
           /\ rendering.manifest.symbols[name].line \in Int \cup {None},
         rendering.manifest.built \in Seq(Range(rendering.manifest.built)),
         \A file \in DOMAIN rendering.files : rendering.files[file] \in Nat
  PROVE  LET sites == Resolve(expect, l, rendering.manifest.symbols).sites
         IN  /\ \A n \in DOMAIN sites : sites[n][2] \in 1 .. rendering.files[sites[n][1]]
             /\ \A row \in RowsOf(expect) : IsPartOf(row.configurations, rendering.manifest.built)
<1> DEFINE manifest == rendering.manifest
           resolved == Resolve(expect, l, manifest.symbols)
           sites == resolved.sites
           bound == BoundNames(expect, l)
<1>1. manifest # None /\ ~manifest.malformed /\ manifest.meetsSchema
  BY DEF RenderingErrs, Defect
<1>2. resolved.errs = {}
  BY <1>1 DEF RenderingErrs
<1>3. ConfigurationErrs(expect, manifest.built) = {} /\ SiteErrs(sites, rendering.files) = {}
  BY <1>1, <1>2 DEF RenderingErrs
<1>4. ResolvesExactly(expect, l, manifest.symbols)
  BY NamesDecide
<1>5. WellManifested(expect, l, manifest.symbols) /\ sites = [name \in bound |-> Site(manifest.symbols[name])]
  BY <1>2, <1>4 DEF ResolvesExactly
<1>6. bound \subseteq DOMAIN manifest.symbols /\ \A name \in bound : Complete(manifest.symbols[name])
  BY <1>5 DEF WellManifested
<1>7. ASSUME NEW n \in DOMAIN sites PROVE sites[n][2] \in 1 .. rendering.files[sites[n][1]]
  <2> HIDE DEF bound, resolved
  <2>1. n \in bound /\ sites[n][1] = manifest.symbols[n].file /\ sites[n][2] = manifest.symbols[n].line
    BY <1>5 DEF Site
  <2>2. sites[n][2] \in Int /\ sites[n][2] >= 1
    BY <1>6, <2>1 DEF Complete, Placed
  <2>3. sites[n][1] \in DOMAIN rendering.files
    <3>1. sites[n][1] \notin DOMAIN rendering.files => <<"no such file", n>> \in SiteErrs(sites, rendering.files)
      BY DEF SiteErrs
    <3> QED BY <1>3, <3>1
  <2>4. ~ (sites[n][2] > rendering.files[sites[n][1]])
    <3>1. sites[n][2] > rendering.files[sites[n][1]] => <<"no such line", n>> \in SiteErrs(sites, rendering.files)
      BY <2>3 DEF SiteErrs
    <3> QED BY <1>3, <3>1
  <2> QED BY <2>2, <2>3, <2>4
<1>8. ASSUME NEW row \in RowsOf(expect) PROVE IsPartOf(row.configurations, manifest.built)
  <2>1. CASE row.configurations = << >>
    BY <2>1, NothingIsPart
  <2>2. CASE row.configurations # << >>
    <3> DEFINE named == {r \in RowsOf(expect) : r.configurations # << >>}
               Each(r) == IF manifest.built = << >> THEN Defect("no matrix", r.symbol) ELSE MatrixOrder(r, manifest.built)
    <3>1. UNION {Each(r) : r \in named} = {}
      BY <1>3 DEF ConfigurationErrs
    <3>2. row \in named
      BY <2>2
    <3>3. Each(row) = {}
      <4> HIDE DEF Each, named
      <4> QED BY <3>1, <3>2
    <3>4. MatrixOrder(row, manifest.built) = {}
      BY <3>3 DEF Defect
    <3> QED BY <3>4, OrderedIsPart
  <2> QED BY <2>1, <2>2
<1> QED BY <1>7, <1>8

-----------------------------------------------------------------------------
(* Selected: the places of a list in their own order, each once.           *)
LEMMA PlacesArranged ==
  ASSUME NEW places, places \subseteq Nat, IsFiniteSet(places)
  PROVE  Arranged(places, [i \in places |-> << >>]) \in Bijection(1 .. Cardinality(places), places)
<1> DEFINE keys == [i \in places |-> << >>]
           n == Cardinality(places)
           Before(i) == {j \in places : j < i}
           ahead == [i \in places |-> Cardinality({j \in places : Ahead(keys, j, i)})]
           rank == [i \in places |-> Cardinality(Before(i)) + 1]
           order == Arranged(places, keys)
<1>1. \A i, j \in places : Ahead(keys, i, j) <=> i < j
  BY DEF Ahead, Precedes
<1>2. \A i \in places : {j \in places : Ahead(keys, j, i)} = Before(i)
  <2> HIDE DEF keys
  <2> QED BY <1>1
<1>3. n \in Nat
  BY FS_CardinalityType
<1>4. ASSUME NEW i \in places
      PROVE  IsFiniteSet(Before(i)) /\ Cardinality(Before(i)) \in Nat /\ rank[i] \in 1 .. n
  <2>1. Before(i) \in SUBSET places /\ i \notin Before(i)
    OBVIOUS
  <2>2. IsFiniteSet(Before(i)) /\ Cardinality(Before(i)) <= n /\ Cardinality(Before(i)) # n
    BY <2>1, FS_Subset
  <2>3. Cardinality(Before(i)) \in Nat
    BY <2>2, FS_CardinalityType
  <2> HIDE DEF Before
  <2> QED BY <1>3, <2>2, <2>3
<1>5. ASSUME NEW i \in places, NEW j \in places, i < j PROVE rank[i] < rank[j]
  <2>1. Before(i) \in SUBSET Before(j) /\ i \in Before(j) /\ i \notin Before(i)
    <3>1. i \in Nat /\ j \in Nat /\ \A k \in places : k \in Nat
      OBVIOUS
    <3>2. \A k \in places : k < i => k < j
      BY <1>5, <3>1
    <3>3. \A k \in Before(i) : k \in Before(j)
      BY <3>2
    <3>4. i \in Before(j)
      BY <1>5
    <3>5. i \notin Before(i)
      BY <3>1
    <3> HIDE DEF Before
    <3> QED BY <3>3, <3>4, <3>5
  <2>2. IsFiniteSet(Before(i)) /\ IsFiniteSet(Before(j)) /\ Cardinality(Before(i)) \in Nat /\ Cardinality(Before(j)) \in Nat
    BY <1>4
  <2>3. rank[i] = Cardinality(Before(i)) + 1 /\ rank[j] = Cardinality(Before(j)) + 1
    OBVIOUS
  <2> HIDE DEF Before, rank
  <2>4. Cardinality(Before(i)) <= Cardinality(Before(j)) /\ (Cardinality(Before(i)) = Cardinality(Before(j)) => Before(i) = Before(j))
    BY <2>1, <2>2, FS_Subset
  <2>5. Before(i) # Before(j)
    BY <2>1
  <2> QED BY <2>2, <2>3, <2>4, <2>5
<1>6. rank \in Injection(places, 1 .. n)
  <2>1. rank \in [places -> 1 .. n]
    BY <1>4
  <2>2. \A i, j \in places : rank[i] = rank[j] => i = j
    <3> HIDE DEF rank
    <3>1. \A i \in places : rank[i] \in Int
      BY <2>1
    <3> QED BY <1>5, <3>1
  <2> QED BY <2>1, <2>2 DEF Injection, IsInjective
<1>7. rank \in Surjection(places, 1 .. n)
  <2>1. IsFiniteSet(1 .. n) /\ Cardinality(1 .. n) = n
    BY <1>3, FS_Interval
  <2> QED BY <1>6, <2>1, FS_Injection
<1>8. ASSUME NEW k \in 1 .. n PROVE order[k] \in places /\ rank[order[k]] = k
  <2>1. \A i \in places : ahead[i] \in Int /\ rank[i] = ahead[i] + 1
    <3> TAKE i \in places
    <3>1. {j \in places : Ahead(keys, j, i)} = Before(i)
      BY <1>2
    <3>2. ahead[i] = Cardinality(Before(i)) /\ rank[i] = Cardinality(Before(i)) + 1 /\ Cardinality(Before(i)) \in Nat
      BY <1>4, <3>1
    <3> QED BY <3>2
  <2>2. order = [l \in 1 .. n |-> CHOOSE i \in places : ahead[i] = l - 1]
    BY DEF Arranged
  <2> HIDE DEF ahead, rank, order
  <2>3. PICK i \in places : rank[i] = k
    BY <1>7 DEF Surjection
  <2>4. ahead[i] = k - 1
    BY <2>1, <2>3
  <2>5. order[k] \in places /\ ahead[order[k]] = k - 1
    BY <2>2, <2>4
  <2>6. rank[order[k]] = (k - 1) + 1
    BY <2>1, <2>5
  <2>7. (k - 1) + 1 = k
    BY <1>3
  <2> QED BY <2>5, <2>6, <2>7
<1>9. order \in [1 .. n -> places]
  <2>1. order = [l \in 1 .. n |-> CHOOSE i \in places : ahead[i] = l - 1]
    BY DEF Arranged
  <2> HIDE DEF ahead, order, rank, n
  <2> QED BY <1>8, <2>1
<1>10. \A a, b \in 1 .. n : order[a] = order[b] => a = b
  <2> HIDE DEF order, rank
  <2> QED BY <1>8
<1>11. \A i \in places : \E k \in 1 .. n : order[k] = i
  <2> SUFFICES ASSUME NEW i \in places PROVE order[rank[i]] = i
    BY <1>4
  <2> HIDE DEF order
  <2>1. rank[i] \in 1 .. n /\ order[rank[i]] \in places /\ rank[order[rank[i]]] = rank[i]
    BY <1>4, <1>8
  <2> QED BY <1>6, <2>1 DEF Injection, IsInjective
<1> HIDE DEF order
<1>12. order \in Bijection(1 .. n, places)
  BY <1>9, <1>10, <1>11 DEF Bijection, Injection, Surjection, IsInjective
<1> QED BY <1>12 DEF order

(* The names of a set are in order each once. *)
LEMMA SortedOnce ==
  ASSUME NEW names, names \subseteq Range(Names)
  PROVE  /\ Range(Sorted(names)) = names /\ DOMAIN Sorted(names) = 1 .. Cardinality(names)
         /\ IsFiniteSet(names) /\ Sorted(names) \in Seq(names)
<1> DEFINE places == {i \in DOMAIN Names : Names[i] \in names}
           order == Arranged(places, [i \in places |-> << >>])
           place == [i \in places |-> Names[i]]
<1>1. Len(Names) \in Nat /\ DOMAIN Names = 1 .. Len(Names)
  BY NamesListedOnce
<1>2. IsFiniteSet(1 .. Len(Names)) /\ places \in SUBSET (1 .. Len(Names))
  BY <1>1, FS_Interval
<1>3. IsFiniteSet(places) /\ places \subseteq Nat
  BY <1>2, FS_Subset
<1>4. order \in Bijection(1 .. Cardinality(places), places)
  <2> HIDE DEF places
  <2> QED BY <1>3, PlacesArranged
<1>5. place \in Bijection(places, names)
  <2>1. place \in [places -> names]
    OBVIOUS
  <2>2. \A i, j \in places : place[i] = place[j] => i = j
    BY NamesListedOnce
  <2>3. \A name \in names : \E i \in places : place[i] = name
    <3> TAKE name \in names
    <3>1. PICK i \in DOMAIN Names : Names[i] = name
      BY DEF Range
    <3> QED BY <3>1
  <2> HIDE DEF place, places
  <2> QED BY <2>1, <2>2, <2>3 DEF Bijection, Injection, Surjection, IsInjective
<1>6. IsFiniteSet(names) /\ Cardinality(names) = Cardinality(places) /\ Cardinality(names) \in Nat
  <2>1. place \in Injection(places, names) /\ place \in Surjection(places, names)
    BY <1>5 DEF Bijection
  <2> HIDE DEF place, places
  <2>2. IsFiniteSet(names) /\ Cardinality(names) <= Cardinality(places)
    BY <1>3, <2>1, FS_Surjection
  <2>3. Cardinality(places) <= Cardinality(names)
    BY <2>1, <2>2, FS_Injection
  <2>4. Cardinality(places) \in Nat /\ Cardinality(names) \in Nat
    BY <1>3, <2>2, FS_CardinalityType
  <2> QED BY <2>2, <2>3, <2>4
<1>7. Sorted(names) = [k \in 1 .. Cardinality(places) |-> Names[order[k]]]
  <2>1. DOMAIN order = 1 .. Cardinality(places)
    BY <1>4 DEF Bijection, Injection
  <2> QED BY <2>1 DEF Sorted, Selected, Picked, Rising
<1> HIDE DEF order, place
<1>8. \A k \in 1 .. Cardinality(places) : order[k] \in places
  BY <1>4 DEF Bijection, Injection
<1>9. \A i \in places : \E k \in 1 .. Cardinality(places) : order[k] = i
  BY <1>4 DEF Bijection, Surjection
<1>10. Range(Sorted(names)) \subseteq names
  BY <1>7, <1>8 DEF Range
<1>11. names \subseteq Range(Sorted(names))
  <2> SUFFICES ASSUME NEW name \in names PROVE name \in Range(Sorted(names))
    OBVIOUS
  <2>1. PICK i \in DOMAIN Names : Names[i] = name
    BY DEF Range
  <2>2. PICK k \in 1 .. Cardinality(places) : order[k] = i
    BY <1>9, <2>1
  <2>3. k \in DOMAIN Sorted(names) /\ Sorted(names)[k] = name
    BY <1>7, <2>1, <2>2
  <2> QED BY <2>3 DEF Range
<1>12. Sorted(names) \in Seq(names)
  <2>1. \A k \in 1 .. Cardinality(names) : Names[order[k]] \in names
    BY <1>6, <1>8
  <2> QED BY <1>6, <1>7, <2>1
<1> QED BY <1>6, <1>7, <1>10, <1>11, <1>12

(* What the scope and the vocabulary of the members leave. *)
LEMMA ScopeLeaves ==
  ASSUME NEW expect, NEW language \in Range(expect.languages), ExpectationErrs(expect) = {},
         expect.languages \in Seq(Range(expect.languages))
  PROVE  /\ \A name \in expect.roots \cup expect.declarations : expect.entryLanguage[name] = language
         /\ expect.members \cap {"entry_files", "disabled_conventions"} # {} => language = "ts"
         /\ expect.severity \subseteq Vocabulary["severity"]
<1>1. ScopeErrs(expect) = {} /\ VocabularyErrs(expect) = {}
  BY DEF ExpectationErrs
<1>2. Len(expect.languages) = 1 => expect.languages[1] = language
  <2> SUFFICES ASSUME Len(expect.languages) = 1 PROVE expect.languages[1] = language
    OBVIOUS
  <2>1. DOMAIN expect.languages = {1}
    OBVIOUS
  <2> QED BY <2>1 DEF Range
<1>3. ASSUME NEW name \in expect.roots PROVE expect.entryLanguage[name] = language
  <2>1. Len(expect.languages) = 1
    <3>1. When(expect.roots # {} /\ Len(expect.languages) # 1, "roots scope", None) = {}
      BY <1>1 DEF ScopeErrs
    <3> QED BY <1>3, <3>1 DEF When, Defect
  <2>2. expect.entryLanguage[name] # expect.languages[1] => <<"root prefix", name>> \in ScopeErrs(expect)
    BY <1>3, <2>1 DEF ScopeErrs
  <2> QED BY <1>1, <1>2, <2>1, <2>2
<1>4. ASSUME NEW name \in expect.declarations PROVE expect.entryLanguage[name] = language
  <2>1. Len(expect.languages) = 1
    <3>1. Len(expect.languages) # 1 => <<"declaration scope", name>> \in ScopeErrs(expect)
      BY <1>4 DEF ScopeErrs
    <3> QED BY <1>1, <3>1
  <2>2. expect.entryLanguage[name] # expect.languages[1] => <<"declaration scope", name>> \in ScopeErrs(expect)
    BY <1>4, <2>1 DEF ScopeErrs
  <2> QED BY <1>1, <1>2, <2>1, <2>2
<1>5. ASSUME NEW m \in expect.members \cap {"entry_files", "disabled_conventions"} PROVE language = "ts"
  <2>1. expect.languages # <<"ts">> => <<"ts alone", m>> \in ScopeErrs(expect)
    BY <1>5 DEF ScopeErrs
  <2>2. expect.languages = <<"ts">>
    BY <1>1, <2>1
  <2> QED BY <2>2 DEF Range
<1>6. ASSUME NEW code \in expect.severity PROVE code \in Vocabulary["severity"]
  <2>1. Outside("severity", expect.severity) = {}
    BY <1>1 DEF VocabularyErrs
  <2> QED BY <1>6, <2>1 DEF Outside
<1> QED BY <1>3, <1>4, <1>5, <1>6

(* A document written over another holds its own keys and then the other's. *)
LEMMA OverHolds ==
  ASSUME NEW one, NEW other
  PROVE  /\ DOMAIN Over(one, other) = DOMAIN one \cup DOMAIN other
         /\ \A key \in DOMAIN one : Over(one, other)[key] = one[key]
         /\ \A key \in DOMAIN other \ DOMAIN one : Over(one, other)[key] = other[key]
BY DEF Over

(* The keys of the members written as they stand. *)
Member(expect, language) == DOMAIN WrittenAsTheyStand(expect, language)
(* The keys written as they stand, the analysis's and the language's own. *)
LEMMA MembersWritten ==
  ASSUME NEW expect, NEW language
  PROVE  Member(expect, language) =
           ({"analysis"} \X (expect.members \cap {"min_confidence", "consumer_tests"}))
           \cup ({language} \X (expect.members \cap {"entry_files", "import_paths", "disabled_conventions"}))
<1> DEFINE section == [min_confidence |-> "analysis", consumer_tests |-> "analysis", entry_files |-> language,
                       import_paths |-> language, disabled_conventions |-> language]
           members == expect.members \cap DOMAIN section
<1>1. Member(expect, language) = {<<section[m], m>> : m \in members}
  BY DEF Member, WrittenAsTheyStand
<1>2. /\ DOMAIN section = {"min_confidence", "consumer_tests", "entry_files", "import_paths", "disabled_conventions"}
      /\ section["min_confidence"] = "analysis" /\ section["consumer_tests"] = "analysis"
      /\ section["entry_files"] = language /\ section["import_paths"] = language
      /\ section["disabled_conventions"] = language
  OBVIOUS
<1> HIDE DEF section
<1>3. \A m \in members \cap {"min_confidence", "consumer_tests"} : section[m] = "analysis"
  BY <1>2
<1>4. \A m \in members \cap {"entry_files", "import_paths", "disabled_conventions"} : section[m] = language
  BY <1>2
<1>5. members = (expect.members \cap {"min_confidence", "consumer_tests"})
                \cup (expect.members \cap {"entry_files", "import_paths", "disabled_conventions"})
  BY <1>2
<1> DEFINE both == expect.members \cap {"min_confidence", "consumer_tests"}
           own == expect.members \cap {"entry_files", "import_paths", "disabled_conventions"}
<1>6. /\ \A m \in both : m \in members /\ section[m] = "analysis"
      /\ \A m \in own : m \in members /\ section[m] = language
      /\ \A m \in members : m \in both \/ m \in own
  BY <1>3, <1>4, <1>5
<1> HIDE DEF both, own, members
<1>7. {<<section[m], m>> : m \in members} = ({"analysis"} \X both) \cup ({language} \X own)
  BY <1>6
<1> QED BY <1>1, <1>7 DEF both, own

(* The keys of the closed world, all of them the key list's. *)
LEMMA WorldWritten ==
  ASSUME NEW expect, NEW built, NEW language, expect.closedWorld \subseteq {"consumers", "matrix", "roots"}
  PROVE  LET world == ClosedWorldKeys(expect, built, language)
         IN  /\ DOMAIN world \subseteq {<<"consumers", "complete">>, <<"analysis", "matrix">>, <<"analysis", "configurations">>}
                                       \cup (ConfigKeys \cap {<<language, "roots_complete">>})
             /\ "matrix" \in expect.closedWorld => /\ <<"analysis", "configurations">> \in DOMAIN world
                                                   /\ world[<<"analysis", "configurations">>] = DeclaredMatrix(built)
<1> DEFINE sets == [consumers |-> {<<"consumers", "complete">>},
                    matrix |-> {<<"analysis", "matrix">>, <<"analysis", "configurations">>},
                    roots |-> IF HasRootsComplete(language) THEN {<<language, "roots_complete">>} ELSE {}]
           keys == UNION {sets[fact] : fact \in expect.closedWorld}
           world == ClosedWorldKeys(expect, built, language)
<1>1. world = [key \in keys |-> IF key[2] = "configurations" THEN DeclaredMatrix(built) ELSE TRUE]
  BY DEF ClosedWorldKeys
<1>2. /\ sets["consumers"] = {<<"consumers", "complete">>}
      /\ sets["matrix"] = {<<"analysis", "matrix">>, <<"analysis", "configurations">>}
      /\ sets["roots"] \subseteq ConfigKeys \cap {<<language, "roots_complete">>}
  BY DEF HasRootsComplete
<1> HIDE DEF sets
<1>3. \A fact \in expect.closedWorld : fact = "consumers" \/ fact = "matrix" \/ fact = "roots"
  OBVIOUS
<1>4. keys \subseteq {<<"consumers", "complete">>, <<"analysis", "matrix">>, <<"analysis", "configurations">>}
                                       \cup (ConfigKeys \cap {<<language, "roots_complete">>})
  BY <1>2, <1>3
<1>5. ASSUME "matrix" \in expect.closedWorld PROVE <<"analysis", "configurations">> \in keys
  BY <1>2, <1>5
<1> HIDE DEF keys, world
<1>6. DOMAIN world = keys
  BY <1>1
<1>7. ASSUME <<"analysis", "configurations">> \in keys PROVE world[<<"analysis", "configurations">>] = DeclaredMatrix(built)
  <2>1. <<"analysis", "configurations">>[2] = "configurations"
    OBVIOUS
  <2> QED BY <1>1, <1>7, <2>1
<1> QED BY <1>4, <1>5, <1>6, <1>7 DEF world

(* The six documents of a configuration, each under those before it.       *)
Layered(config, kind, written, declared, roots, severities, world) ==
  /\ DOMAIN config = DOMAIN kind \cup DOMAIN written \cup DOMAIN declared \cup DOMAIN roots
                      \cup DOMAIN severities \cup DOMAIN world
  /\ \A key \in DOMAIN declared : key \notin DOMAIN kind \cup DOMAIN written => config[key] = declared[key]
  /\ \A key \in DOMAIN roots :
       key \notin DOMAIN kind \cup DOMAIN written \cup DOMAIN declared => config[key] = roots[key]
  /\ \A key \in DOMAIN world :
       key \notin DOMAIN kind \cup DOMAIN written \cup DOMAIN declared \cup DOMAIN roots \cup DOMAIN severities
         => config[key] = world[key]

(* Six documents over one another, as the operator says. *)
LEMMA LayersHold ==
  ASSUME NEW kind, NEW written, NEW declared, NEW roots, NEW severities, NEW world
  PROVE  Layered(Over(kind, Over(written, Over(declared, Over(roots, Over(severities, world))))),
                 kind, written, declared, roots, severities, world)
<1> DEFINE a == Over(severities, world)
           b == Over(roots, a)
           c == Over(declared, b)
           d == Over(written, c)
           e == Over(kind, d)
<1>2. /\ DOMAIN a = DOMAIN severities \cup DOMAIN world
      /\ \A key \in DOMAIN world \ DOMAIN severities : a[key] = world[key]
  BY OverHolds
<1> HIDE DEF a
<1>3. /\ DOMAIN b = DOMAIN roots \cup DOMAIN a
      /\ \A key \in DOMAIN roots : b[key] = roots[key]
      /\ \A key \in DOMAIN a \ DOMAIN roots : b[key] = a[key]
  BY OverHolds
<1> HIDE DEF b
<1>4. /\ DOMAIN c = DOMAIN declared \cup DOMAIN b
      /\ \A key \in DOMAIN declared : c[key] = declared[key]
      /\ \A key \in DOMAIN b \ DOMAIN declared : c[key] = b[key]
  BY OverHolds
<1> HIDE DEF c
<1>5. /\ DOMAIN d = DOMAIN written \cup DOMAIN c
      /\ \A key \in DOMAIN c \ DOMAIN written : d[key] = c[key]
  BY OverHolds
<1> HIDE DEF d
<1>6. /\ DOMAIN e = DOMAIN kind \cup DOMAIN d
      /\ \A key \in DOMAIN d \ DOMAIN kind : e[key] = d[key]
  BY OverHolds
<1> HIDE DEF e
<1>7. Layered(e, kind, written, declared, roots, severities, world)
  BY <1>2, <1>3, <1>4, <1>5, <1>6 DEF Layered
<1> QED BY <1>7 DEF a, b, c, d, e

(* configOf is six documents over one another. *)
LEMMA ConfigLayers ==
  ASSUME NEW expect, NEW built, NEW language
  PROVE  ConfigOf(expect, built, language) =
           Over([key \in {<<"target", "kind">>} |-> expect.targetKind],
                Over(WrittenAsTheyStand(expect, language),
                     Over(ConfiguredDeclarations(expect, language),
                          Over(RootPatterns(expect),
                               Over(Severities(expect), ClosedWorldKeys(expect, built, language))))))
BY DEF ConfigOf

(* Every declaration is an entry of its key's list. *)
LEMMA DeclarationsWritten ==
  ASSUME NEW expect, NEW language, NEW name \in expect.declarations, expect.declarations \subseteq Range(Names)
  PROVE  LET documents == ConfiguredDeclarations(expect, language)
             key == <<language, expect.declared[name].key>>
         IN  /\ key \in DOMAIN documents
             /\ \E i \in DOMAIN documents[key] : documents[key][i] = EntryOf(expect.declared[name])
<1> DEFINE documents == ConfiguredDeclarations(expect, language)
           key == <<language, expect.declared[name].key>>
           keys == {<<language, expect.declared[n].key>> : n \in expect.declarations}
           Values(k) == LET names == Under(expect, k[2])
                        IN  [i \in DOMAIN names |-> EntryOf(expect.declared[names[i]])]
           under == Under(expect, expect.declared[name].key)
<1>1. documents = [k \in keys |-> Values(k)]
  BY DEF ConfiguredDeclarations
<1>2. key \in keys /\ key[2] = expect.declared[name].key
  OBVIOUS
<1>3. Range(under) = {n \in expect.declarations : expect.declared[n].key = expect.declared[name].key}
  BY SortedOnce DEF Under
<1>4. PICK i \in DOMAIN under : under[i] = name
  BY <1>3 DEF Range
<1>5. Values(key) = [j \in DOMAIN under |-> EntryOf(expect.declared[under[j]])]
  BY <1>2
<1> HIDE DEF Values, under, keys
<1>6. documents[key] = Values(key) /\ key \in DOMAIN documents
  BY <1>1, <1>2
<1>7. i \in DOMAIN documents[key] /\ documents[key][i] = EntryOf(expect.declared[name])
  BY <1>4, <1>5, <1>6
<1> HIDE DEF key, documents
<1> QED BY <1>6, <1>7 DEF key, documents

(* The patterns are those of the roots, one each. *)
LEMMA RootsWritten ==
  ASSUME NEW expect, expect.roots # {}, expect.roots \subseteq Range(Names)
  PROVE  LET patterns == RootPatterns(expect)[<<"roots", "patterns">>]
         IN  /\ DOMAIN RootPatterns(expect) = {<<"roots", "patterns">>}
             /\ Range(patterns) = {expect.patterns[n] : n \in expect.roots}
             /\ Len(patterns) = Cardinality(expect.roots)
<1> DEFINE names == Sorted(expect.roots)
           patterns == [i \in DOMAIN names |-> expect.patterns[names[i]]]
<1>1. /\ Range(names) = expect.roots /\ DOMAIN names = 1 .. Cardinality(expect.roots)
      /\ IsFiniteSet(expect.roots)
  BY SortedOnce
<1>2. Cardinality(expect.roots) \in Nat
  BY <1>1, FS_CardinalityType
<1>3. /\ DOMAIN RootPatterns(expect) = {<<"roots", "patterns">>}
      /\ RootPatterns(expect)[<<"roots", "patterns">>] = patterns
  <2>1. {<<"roots", "patterns">> : name \in expect.roots} = {<<"roots", "patterns">>}
    OBVIOUS
  <2> HIDE DEF names
  <2>2. RootPatterns(expect) = [key \in {<<"roots", "patterns">> : name \in expect.roots} |-> patterns]
    BY DEF RootPatterns, names
  <2> HIDE DEF patterns
  <2> QED BY <2>1, <2>2
<1> HIDE DEF names
<1>4. Len(patterns) = Cardinality(expect.roots)
  BY <1>1, <1>2
<1>5. Range(patterns) = {expect.patterns[n] : n \in expect.roots}
  <2>1. Range(patterns) = {expect.patterns[names[i]] : i \in DOMAIN names}
    BY DEF Range
  <2>2. \A i \in DOMAIN names : names[i] \in expect.roots
    BY <1>1 DEF Range
  <2>3. \A n \in expect.roots : \E i \in DOMAIN names : names[i] = n
    BY <1>1 DEF Range
  <2> QED BY <2>1, <2>2, <2>3
<1> QED BY <1>3, <1>4, <1>5

(* What a part has, the whole has. *)
LEMMA SomewhereInside ==
  ASSUME NEW part, NEW whole, IsPartOf(part, whole), NEW id \in Range(part)
  PROVE  \E i \in DOMAIN whole : whole[i] = id
<1>1. PICK k \in DOMAIN part : part[k] = id
  BY DEF Range
<1>2. PICK at \in [DOMAIN part -> DOMAIN whole] : \A i \in DOMAIN part : part[i] = whole[at[i]]
  BY DEF IsPartOf
<1> QED BY <1>1, <1>2

(* A rendering of no defect, in an expectation of none: run.go:432. *)
LEMMA NoDefectIsHanded ==
  ASSUME NEW expect, NEW language \in Range(expect.languages), NEW rendering,
         ExpectationErrs(expect) = {}, RenderingErrs(expect, language, rendering) = {},
         expect.languages \in Seq(Range(expect.languages)), Configured(expect) \subseteq Range(Names),
         expect.closedWorld \subseteq {"consumers", "matrix", "roots"},
         \A name \in expect.declarations : <<expect.entryLanguage[name], expect.declared[name].key>> \in DeclarationKeys,
         \A row \in RowsOf(expect) : IsPartOf(row.configurations, rendering.manifest.built),
         SpelledAsStated(expect, rendering.manifest.built)
  PROVE  HandedAsStated(expect, language, rendering)
<1> DEFINE built == rendering.manifest.built
           config == ConfigOf(expect, built, language)
           written == Member(expect, language)
           declared == ConfiguredDeclarations(expect, language)
           roots == RootPatterns(expect)
           severities == Severities(expect)
           world == ClosedWorldKeys(expect, built, language)
           kind == {<<"target", "kind">>}
           patterns == <<"roots", "patterns">>
           matrix == <<"analysis", "configurations">>
<1>1. /\ \A name \in expect.roots \cup expect.declarations : expect.entryLanguage[name] = language
      /\ expect.members \cap {"entry_files", "disabled_conventions"} # {} => language = "ts"
      /\ expect.severity \subseteq Vocabulary["severity"]
  BY ScopeLeaves
<1>2. /\ DOMAIN config = kind \cup written \cup DOMAIN declared \cup DOMAIN roots \cup DOMAIN severities \cup DOMAIN world
      /\ \A key \in DOMAIN declared : key \notin kind \cup written => config[key] = declared[key]
      /\ \A key \in DOMAIN roots : key \notin kind \cup written \cup DOMAIN declared => config[key] = roots[key]
      /\ \A key \in DOMAIN world :
           key \notin kind \cup written \cup DOMAIN declared \cup DOMAIN roots \cup DOMAIN severities
             => config[key] = world[key]
  <2> DEFINE first == [key \in kind |-> expect.targetKind]
             second == WrittenAsTheyStand(expect, language)
  <2>1. config = Over(first, Over(second, Over(declared, Over(roots, Over(severities, world)))))
    BY ConfigLayers
  <2>2. DOMAIN first = kind /\ DOMAIN second = written
    BY DEF Member
  <2> HIDE DEF first, second, config, written, declared, roots, severities, world, kind
  <2>3. Layered(config, first, second, declared, roots, severities, world)
    BY <2>1, LayersHold
  <2> QED BY <2>2, <2>3 DEF Layered
<1>3. written = ({"analysis"} \X (expect.members \cap {"min_confidence", "consumer_tests"}))
                \cup ({language} \X (expect.members \cap {"entry_files", "import_paths", "disabled_conventions"}))
  BY MembersWritten
<1>4. DOMAIN declared = {<<language, expect.declared[n].key>> : n \in expect.declarations}
  BY DEF ConfiguredDeclarations
<1>5. DOMAIN declared \subseteq DeclarationKeys
  <2> SUFFICES ASSUME NEW n \in expect.declarations PROVE <<language, expect.declared[n].key>> \in DeclarationKeys
    BY <1>4
  <2> QED BY <1>1
<1>6. DOMAIN roots \subseteq {patterns}
  BY DEF RootPatterns
<1>7. DOMAIN severities = {"severity"} \X expect.severity
  BY DEF Severities
<1>8. /\ DOMAIN world \subseteq {<<"consumers", "complete">>, <<"analysis", "matrix">>, matrix}
                                \cup (ConfigKeys \cap {<<language, "roots_complete">>})
      /\ "matrix" \in expect.closedWorld => matrix \in DOMAIN world /\ world[matrix] = DeclaredMatrix(built)
  BY WorldWritten
<1>9. expect.roots \subseteq Range(Names) /\ expect.declarations \subseteq Range(Names)
  BY DEF Configured
<1>10. /\ "matrix" \in expect.closedWorld => Range(built) \subseteq DOMAIN Platforms
       /\ "import_paths" \in expect.members => \A l \in Range(expect.languages) : <<l, "import_paths">> \in ConfigKeys
  BY DEF SpelledAsStated
<1>11. ~ ConfigRefused(expect, built)
  BY <1>10 DEF ConfigRefused
<1>12. DirectoryErrs(expect, language, rendering) = {}
  <2>1. rendering.manifest # None /\ ~rendering.manifest.malformed /\ rendering.manifest.meetsSchema
    BY DEF RenderingErrs, Defect
  <2>2. Resolve(expect, language, rendering.manifest.symbols).errs = {}
    BY <2>1 DEF RenderingErrs
  <2> QED BY <2>1, <2>2 DEF RenderingErrs
<1>13. {place[1] : place \in ScopeOf(expect)} \ AbsentConsumers(expect) \subseteq DirsOf(rendering.files)
  <2>1. {Target} \cup (expect.consumers \ AbsentConsumers(expect)) \subseteq DirsOf(rendering.files)
    <3> SUFFICES ASSUME NEW d \in {Target} \cup (expect.consumers \ AbsentConsumers(expect)),
                        d \notin DirsOf(rendering.files)
                 PROVE  FALSE
      OBVIOUS
    <3>1. <<"no directory", d>> \in DirectoryErrs(expect, language, rendering)
      BY DEF DirectoryErrs
    <3> QED BY <1>12, <3>1
  <2>2. {place[1] : place \in ScopeOf(expect)} \subseteq {Target} \cup expect.consumers
    BY DEF ScopeOf
  <2> QED BY <2>1, <2>2
<1> HIDE DEF config, written, declared, roots, severities, world, built
<1>14. patterns \notin kind \cup written \cup DeclarationKeys /\ matrix \notin kind \cup written \cup DeclarationKeys
  <2>1. patterns \notin kind /\ matrix \notin kind /\ patterns \notin DeclarationKeys /\ matrix \notin DeclarationKeys
    BY DEF DeclarationKeys
  <2>2. patterns \notin written /\ matrix \notin written
    BY <1>3
  <2> QED BY <2>1, <2>2
<1>15. DOMAIN config \subseteq ConfigKeys
  <2>1. kind \subseteq ConfigKeys /\ {patterns} \subseteq ConfigKeys /\ DeclarationKeys \subseteq ConfigKeys
    BY KeysListed
  <2>2. written \subseteq ConfigKeys
    <3> SUFFICES ASSUME NEW key \in written PROVE key \in ConfigKeys
      OBVIOUS
    <3>1. CASE key \in {"analysis"} \X (expect.members \cap {"min_confidence", "consumer_tests"})
      BY <3>1, KeysListed
    <3>2. CASE key = <<language, "import_paths">> /\ "import_paths" \in expect.members
      BY <1>10, <3>2
    <3>3. CASE key \in {language} \X (expect.members \cap {"entry_files", "disabled_conventions"})
      <4>1. language = "ts"
        BY <1>1, <3>3
      <4> QED BY <3>3, <4>1, KeysListed
    <3> QED BY <1>3, <3>1, <3>2, <3>3
  <2>3. DOMAIN severities \subseteq ConfigKeys
    BY <1>1, <1>7, KeysListed
  <2>4. DOMAIN world \subseteq ConfigKeys
    BY <1>8, KeysListed
  <2> QED BY <1>2, <1>5, <1>6, <2>1, <2>2, <2>3, <2>4
<1>16. ASSUME expect.roots # {}
       PROVE  /\ Range(config[patterns]) = {expect.patterns[n] : n \in expect.roots}
              /\ Len(config[patterns]) = Cardinality(expect.roots)
              /\ \A n \in expect.roots : expect.entryLanguage[n] = language
  <2>1. /\ DOMAIN roots = {patterns}
        /\ Range(roots[patterns]) = {expect.patterns[n] : n \in expect.roots}
        /\ Len(roots[patterns]) = Cardinality(expect.roots)
    BY <1>9, <1>16, RootsWritten DEF roots
  <2>2. config[patterns] = roots[patterns]
    BY <1>2, <1>5, <1>14, <2>1
  <2> QED BY <1>1, <2>1, <2>2
<1>17. ASSUME NEW name \in expect.declarations
       PROVE  LET key == <<expect.entryLanguage[name], expect.declared[name].key>>
              IN  key \in DOMAIN config /\ \E i \in DOMAIN config[key] : config[key][i] = EntryOf(expect.declared[name])
  <2> DEFINE key == <<language, expect.declared[name].key>>
  <2>1. expect.entryLanguage[name] = language
    BY <1>1
  <2>2. key \in DOMAIN declared /\ \E i \in DOMAIN declared[key] : declared[key][i] = EntryOf(expect.declared[name])
    BY <1>9, DeclarationsWritten DEF declared
  <2>3. key \notin kind \cup written
    <3>1. key \in DeclarationKeys
      BY <1>5, <2>2
    <3>2. DeclarationKeys \cap (kind \cup written) = {}
      BY <1>3 DEF DeclarationKeys
    <3> QED BY <3>1, <3>2
  <2> HIDE DEF key
  <2>4. key \in DOMAIN config /\ config[key] = declared[key]
    BY <1>2, <2>2, <2>3
  <2> QED BY <2>1, <2>2, <2>4 DEF key
<1>18. ASSUME "matrix" \in expect.closedWorld, NEW row \in RowsOf(expect), NEW id \in Range(row.configurations)
       PROVE  \E i \in DOMAIN config[matrix] : config[matrix][i] = Platforms[id]
  <2>1. PICK i \in DOMAIN built : built[i] = id
    BY <1>18, SomewhereInside DEF built
  <2>2. matrix \notin DOMAIN roots \cup DOMAIN severities \cup DOMAIN declared
    BY <1>5, <1>6, <1>7, <1>14
  <2>3. config[matrix] = DeclaredMatrix(built)
    BY <1>2, <1>8, <1>14, <1>18, <2>2
  <2>4. DeclaredMatrix(built) = [j \in DOMAIN built |-> Platforms[built[j]]]
    BY DEF DeclaredMatrix
  <2>5. i \in DOMAIN config[matrix] /\ config[matrix][i] = Platforms[id]
    BY <2>1, <2>3, <2>4
  <2> QED BY <2>5
<1> QED BY <1>11, <1>13, <1>15, <1>16, <1>17, <1>18 DEF HandedAsStated, config, built

(* What the types and the expectation schema leave of a fixture checked.   *)
LEMMA DecodedIsTyped ==
  ASSUME corpus \in Corpora, NEW i \in DOMAIN corpus, corpus[i].expect # None
  PROVE  LET expect == corpus[i].expect
         IN  /\ expect.languages \in Seq(Range(expect.languages)) /\ Configured(expect) \subseteq Range(Names)
             /\ expect.meetsSchema =>
                  /\ expect.closedWorld \subseteq {"consumers", "matrix", "roots"}
                  /\ \A name \in expect.declarations :
                       <<expect.entryLanguage[name], expect.declared[name].key>> \in DeclarationKeys
<1>1. corpus[i] \in Range(corpus)
  BY CorpusIsAList
<1>2. corpus[i].expect.languages \in Seq(Range(corpus[i].expect.languages)) /\ Configured(corpus[i].expect) \subseteq Range(Names)
  BY <1>1, FixturesAreTyped
<1>3. corpus[i].expect.meetsSchema =>
        /\ corpus[i].expect.closedWorld \subseteq {"consumers", "matrix", "roots"}
        /\ \A name \in corpus[i].expect.declarations :
             <<corpus[i].expect.entryLanguage[name], corpus[i].expect.declared[name].key>> \in DeclarationKeys
  BY <1>1, SchemaEnumerates
<1> QED BY <1>2, <1>3

(* No defect is named of an expectation only where it meets its schema. *)
LEMMA SchemaIsMet ==
  ASSUME NEW entry, FixtureErrs(entry) = {}
  PROVE  entry.expect.meetsSchema
<1>1. When(~entry.expect.meetsSchema, "expectation schema", None) = {}
  BY DEF FixtureErrs
<1> QED BY <1>1 DEF When, Defect

(* Placed: each rendering held is one of no defect. *)
LEMMA UnnamedArePlaced ==
  ASSUME corpus \in Corpora, NEW i \in DOMAIN corpus, corpus[i].expect # None, FixtureErrs(corpus[i]) = {}
  PROVE  IsPlaced(corpus[i])
<1> DEFINE entry == corpus[i]
           expect == entry.expect
<1> SUFFICES ASSUME NEW held \in Held(entry)
             PROVE  LET sites == Resolve(expect, held[1], held[2].manifest.symbols).sites
                    IN  /\ \A n \in DOMAIN sites : sites[n][2] \in 1 .. held[2].files[sites[n][1]]
                        /\ \A row \in RowsOf(expect) : IsPartOf(row.configurations, held[2].manifest.built)
  BY DEF IsPlaced
<1>1. PICK l \in Range(expect.languages) : held = <<l, entry.renderings[l]>>
  BY DEF Held
<1>2. RenderingErrs(expect, held[1], held[2]) = {}
  BY <1>1, NoneHasReadings
<1>3. /\ expect.rows \in Seq(Range(expect.rows)) /\ expect.facts \in Seq(Range(expect.facts))
      /\ \A row \in RowsOf(expect) : row.configurations \in Seq(Range(row.configurations))
      /\ \A name \in DOMAIN held[2].manifest.symbols :
           /\ held[2].manifest.symbols[name].ref \in BOOLEAN
           /\ held[2].manifest.symbols[name].line \in Int \cup {None}
      /\ held[2].manifest.built \in Seq(Range(held[2].manifest.built))
      /\ \A file \in DOMAIN held[2].files : held[2].files[file] \in Nat
  BY HeldIsTyped
<1> HIDE DEF entry, expect
<1> QED BY <1>2, <1>3, NoDefectIsPlaced

(* Handed over: each rendering held is one of no defect. *)
LEMMA UnnamedAreHanded ==
  ASSUME corpus \in Corpora, NEW i \in DOMAIN corpus, corpus[i].expect # None, FixtureErrs(corpus[i]) = {}
  PROVE  IsHandedOver(corpus[i])
<1> DEFINE entry == corpus[i]
           expect == entry.expect
<1> SUFFICES ASSUME NEW held \in Held(entry), SpelledAsStated(expect, held[2].manifest.built)
             PROVE  HandedAsStated(expect, held[1], held[2])
  BY DEF IsHandedOver
<1>1. PICK l \in Range(expect.languages) : held = <<l, entry.renderings[l]>>
  BY DEF Held
<1>2. ExpectationErrs(expect) = {} /\ held[1] \in Range(expect.languages) /\ RenderingErrs(expect, held[1], held[2]) = {}
  BY <1>1, NoneHasReadings
<1>3. /\ expect.languages \in Seq(Range(expect.languages)) /\ Configured(expect) \subseteq Range(Names)
      /\ expect.closedWorld \subseteq {"consumers", "matrix", "roots"}
      /\ \A name \in expect.declarations :
           <<expect.entryLanguage[name], expect.declared[name].key>> \in DeclarationKeys
  BY DecodedIsTyped, SchemaIsMet
<1>4. \A row \in RowsOf(expect) : IsPartOf(row.configurations, held[2].manifest.built)
  BY UnnamedArePlaced DEF IsPlaced
<1> HIDE DEF entry, expect
<1> QED BY <1>2, <1>3, <1>4, NoDefectIsHanded

(* Whatever Check names no defect of runs, is placed and is handed over as *)
(* stated, and Load reads it: check.go:46, run.go:432, fixture.go:62.      *)
THEOREM CheckedCorporaRun == CorpusSpec => []CheckedCorpusRuns
<1>1. CheckInv /\ Checked =>
        \A i \in Decoded : Unnamed(corpus[i]) => IsPlaced(corpus[i]) /\ IsHandedOver(corpus[i])
  <2> SUFFICES ASSUME CheckInv, Checked, NEW i \in Decoded, Unnamed(corpus[i])
               PROVE  IsPlaced(corpus[i]) /\ IsHandedOver(corpus[i])
    OBVIOUS
  <2>1. i \in DOMAIN corpus /\ corpus \in Corpora
    BY DEF Decoded, CheckInv, Accounted
  <2>2. corpus[i].expect # None /\ FixtureErrs(corpus[i]) = {}
    BY <2>1, UnnamedHasNone
  <2> QED BY <2>1, <2>2, UnnamedArePlaced, UnnamedAreHanded
<1>2. /\ CheckInv
      /\ Checked => \A i \in Decoded : Unnamed(corpus[i]) => IsRunnable(corpus[i])
      /\ Checked => LoadsWhatIsChecked
      => CheckedCorpusRuns
  BY <1>1 DEF CheckedCorpusRuns
<1> QED BY <1>2, ChecksAccountForAll, UnnamedFixturesRun, LoadReadsTheChecked, PTL
=============================================================================
