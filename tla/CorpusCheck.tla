----------------------------- MODULE CorpusCheck -----------------------------
(***************************************************************************)
(* Check and Load over one corpus: src/corpus/check.go, rules.go and       *)
(* fixture.go.  Check names every defect of every fixture and then those   *)
(* of the rule citations; Load reads the same directories and stops at the *)
(* first that does not read.  The two only read the corpus.                *)
(*                                                                         *)
(* A corpus is its entries in name order, each the directory's name,       *)
(* whether it is one, its expectation file (None where it does not decode) *)
(* and its renderings by language.                                         *)
(***************************************************************************)
EXTENDS FixtureDocuments

CONSTANTS
  Corpora,    \* the corpora checked
  Rules       \* the languages that follow each rule the analysis pages state

(* The renderings listed that read.                                        *)
Held(entry) ==
  {<<l, entry.renderings[l]>> : l \in {l \in Range(entry.expect.languages) \cap Forms :
     /\ entry.renderings[l] # None /\ entry.renderings[l].manifest # None
     /\ ~entry.renderings[l].manifest.malformed}}

(* A corpus is a list, and None names nothing.                             *)
ASSUME CorporaAreLists ==
  /\ None # Target
  /\ \A listed \in Corpora :
       /\ listed \in Seq(Range(listed))
       /\ \A entry \in Range(listed) : entry.expect # None =>
            \A held \in Held(entry) : None \notin DirsOf(held[2].files)

(* What the Go types leave of a fixture: lists, and in a manifest a line   *)
(* that is a number where it is there and a file that counts its lines.    *)
ASSUME FixturesAreTyped ==
  \A listed \in Corpora : \A entry \in Range(listed) : entry.expect # None =>
    /\ entry.expect.rows \in Seq(Range(entry.expect.rows)) /\ entry.expect.facts \in Seq(Range(entry.expect.facts))
    /\ entry.expect.languages \in Seq(Range(entry.expect.languages))
    /\ Configured(entry.expect) \subseteq Range(Names)
    /\ \A row \in Range(entry.expect.rows) : row.configurations \in Seq(Range(row.configurations))
    /\ \A held \in Held(entry) :
         LET manifest == held[2].manifest
         IN  /\ \A bound \in Range(manifest.symbols) : bound.ref \in BOOLEAN /\ bound.line \in Int \cup {None}
             /\ manifest.built \in Seq(Range(manifest.built))
             /\ \A file \in DOMAIN held[2].files : held[2].files[file] \in Nat

(* What expect.schema.json leaves of a file that meets it: the facts of the *)
(* closed world and the keys of declarations are its enumerations.         *)
ASSUME SchemaEnumerates ==
  \A listed \in Corpora : \A entry \in Range(listed) : entry.expect # None /\ entry.expect.meetsSchema =>
    /\ entry.expect.closedWorld \subseteq {"consumers", "matrix", "roots"}
    /\ \A name \in entry.expect.declarations :
         <<entry.expect.entryLanguage[name], entry.expect.declared[name].key>> \in DeclarationKeys

VARIABLES
  corpus,     \* its entries
  checking,   \* the entry Check is at; two past the last once it has ended
  errs,       \* the defects named: the fixture, or the rule, and the defect
  kept,       \* the expectation files that decoded
  loading,    \* the entry Load is at
  load,       \* "reading", "loaded" or "refused"
  loaded      \* the names of the fixtures loaded so far

vars == <<corpus, checking, errs, kept, loading, load, loaded>>

Init ==
  /\ corpus \in Corpora
  /\ checking = 1 /\ errs = {} /\ kept = << >>
  /\ loading = 1 /\ load = "reading" /\ loaded = << >>

(***************************************************************************)
(* checkCoverage: every rule cited exists and is followed by each language *)
(* of the fixture; one that several languages follow, and a fixture outside *)
(* pending cites, is cited by one such fixture that lists them all.        *)
(***************************************************************************)
Cites(expect, rule) == rule \in expect.rules
Counted(expects, rule) ==
  {e \in expects : Cites(e, rule) /\ ~e.pending /\ Cardinality(Rules[rule]) > 1}

LanguageErrs(expects, rule) ==
  (UNION {{<<e.name, <<"rule language", l>>>> : l \in Range(e.languages) \ Rules[rule]} :
          e \in {e \in expects : Cites(e, rule)}})
ListsEvery(expect, rule) == Rules[rule] \subseteq Range(expect.languages)

(* Bug: a pending fixture pins the parity of a rule. *)
RuleErrsPending(expects, rule) ==
  LET citing == Counted(expects, rule)
      pinned == \E e \in expects : Cites(e, rule) /\ ListsEvery(e, rule)
  IN  LanguageErrs(expects, rule)
      \cup IF citing # {} /\ ~pinned THEN {<<rule, <<"one language", None>>>>} ELSE {}

RuleErrs(expects, rule) ==
  LET citing == Counted(expects, rule)
      pinned == \E e \in citing : ListsEvery(e, rule)
  IN  LanguageErrs(expects, rule)
      \cup IF citing # {} /\ ~pinned THEN {<<rule, <<"one language", None>>>>} ELSE {}
CoverageErrs(expects) ==
  (UNION {{<<e.name, <<"unknown rule", r>>>> : r \in e.rules \ DOMAIN Rules} : e \in expects})
  \cup UNION {RuleErrs(expects, rule) : rule \in DOMAIN Rules}

Named(entry, defects) == {<<entry.name, d>> : d \in defects}

(* Check: the next entry: a file, a fixture that does not decode, or one     *)
(* checked and kept for its citations.                                     *)
CheckEntry ==
  /\ checking <= Len(corpus)
  /\ LET entry == corpus[checking]
     IN  IF ~entry.isDir \/ entry.expect = None
         THEN errs' = errs \cup {<<entry.name, <<"unread", None>>>>} /\ UNCHANGED kept
         ELSE /\ errs' = errs \cup Named(entry, FixtureErrs(entry))
              /\ kept' = Append(kept, entry.expect)
  /\ checking' = checking + 1
  /\ UNCHANGED <<corpus, loading, load, loaded>>

CheckCoverage ==
  /\ checking = Len(corpus) + 1
  /\ errs' = errs \cup CoverageErrs(Range(kept))
  /\ checking' = checking + 1
  /\ UNCHANGED <<corpus, kept, loading, load, loaded>>

(* LoadFixture, readRendering: the rendering of every listed language reads. *)
Reads(entry) ==
  /\ entry.expect # None
  /\ \A l \in Range(entry.expect.languages) :
       /\ l \in Forms /\ entry.renderings[l] # None
       /\ entry.renderings[l].manifest # None /\ ~entry.renderings[l].manifest.malformed

(* Load: the next fixture directory, up to the first that does not read. *)
LoadEntry ==
  /\ load = "reading" /\ loading <= Len(corpus)
  /\ LET entry == corpus[loading]
     IN  \/ ~entry.isDir /\ loading' = loading + 1 /\ UNCHANGED <<load, loaded>>
         \/ entry.isDir /\ ~Reads(entry) /\ load' = "refused" /\ UNCHANGED <<loading, loaded>>
         \/ /\ entry.isDir /\ Reads(entry)
            /\ loading' = loading + 1 /\ loaded' = Append(loaded, entry.name) /\ UNCHANGED load
  /\ UNCHANGED <<corpus, checking, errs, kept>>

LoadEnds ==
  /\ load = "reading" /\ loading = Len(corpus) + 1
  /\ load' = "loaded"
  /\ UNCHANGED <<corpus, checking, errs, kept, loading, loaded>>

Next == CheckEntry \/ CheckCoverage \/ LoadEntry \/ LoadEnds
CorpusSpec == Init /\ [][Next]_vars

---------------------------------------------------------------------------
Checked == checking = Len(corpus) + 2
Decoded == {i \in DOMAIN corpus : corpus[i].isDir /\ corpus[i].expect # None}
(* The logical names of every rendering that reads are bound as their one   *)
(* use, their manifest and their positions say, whichever pass meets them  *)
(* first: ResolvesExactly, at src/corpus/resolve.go:34.                    *)
NamesResolveAsUsed ==
  Checked => \A i \in Decoded : \A held \in Held(corpus[i]) :
    ResolvesExactly(corpus[i].expect, held[1], held[2].manifest.symbols)

(* What the runner and the analyzers rely on in a fixture Check names no    *)
(* defect of.  Every listed rendering reads and its names resolve; no      *)
(* dropped configuration is built; a Go rendering loads from its own       *)
(* directories; and no setup failure comes with a report to answer.        *)
IsWired(consumers, rendering) ==
  DirectoriesApart(consumers, DirsOf(rendering.files), rendering.modules) =>
    WiredWithin(consumers, DirsOf(rendering.files), rendering.modules, rendering.uses)
IsRunnable(entry) ==
  LET expect == entry.expect
  IN  /\ Reads(entry)
      /\ \A held \in Held(entry) :
           LET manifest == held[2].manifest
           IN  /\ Resolves(expect, held[1], manifest.symbols)
               /\ Range(manifest.built) \cap Range(manifest.dropped) = {}
               /\ held[1] = "go" => IsWired(expect.consumers, held[2])
      /\ expect.setup # None => expect.rows = << >> /\ expect.evaluations = << >> /\ expect.facts = << >>

(* Names resolve to lines of the rendering's own files, and each row's      *)
(* configurations are some of the built ones, in the order they are built. *)
IsPartOf(part, whole) ==
  \E at \in [DOMAIN part -> DOMAIN whole] :
    /\ \A i \in DOMAIN part : part[i] = whole[at[i]]
    /\ \A i, j \in DOMAIN part : i < j => at[i] < at[j]
IsPlaced(entry) ==
  \A held \in Held(entry) :
    LET sites == Resolve(entry.expect, held[1], held[2].manifest.symbols).sites
        built == held[2].manifest.built
    IN  /\ \A n \in DOMAIN sites : sites[n][2] \in 1 .. held[2].files[sites[n][1]]
        /\ \A row \in RowsOf(entry.expect) : IsPartOf(row.configurations, built)

(* Check does not ask that an identifier spells its platform, that the      *)
(* entries of two roots differ or that a language has import paths.        *)
SpelledAsStated(expect, built) ==
  /\ "matrix" \in expect.closedWorld => Range(built) \subseteq DOMAIN Platforms
  /\ \A a, b \in expect.roots : a # b => expect.patterns[a] # expect.patterns[b]
  /\ "import_paths" \in expect.members => \A l \in Range(expect.languages) : <<l, "import_paths">> \in ConfigKeys

(* What an analyzer is handed for it: a configuration of declared keys     *)
(* alone, each configured root and declaration written once, the latter    *)
(* under its own language's key and the entries of a lifecycle contract    *)
(* each alone in one; a complete matrix holds what the rows may name; and  *)
(* the scope document names the directories the rendering has, but for the *)
(* consumers a setup failure names.                                        *)
HandedAsStated(expect, language, rendering) ==
  LET built == rendering.manifest.built
      config == ConfigOf(expect, built, language)
      written(name) ==
        LET declared == expect.declared[name]
            key == <<expect.entryLanguage[name], declared.key>>
        IN  key \in DOMAIN config
            /\ \E i \in DOMAIN config[key] : config[key][i] = EntryOf(declared)
  IN  /\ ~ ConfigRefused(expect, built)
      /\ DOMAIN config \subseteq ConfigKeys
      /\ expect.roots # {} => /\ Range(config[<<"roots", "patterns">>]) = {expect.patterns[n] : n \in expect.roots}
                              /\ Len(config[<<"roots", "patterns">>]) = Cardinality(expect.roots)
                              /\ \A n \in expect.roots : expect.entryLanguage[n] = language
      /\ \A name \in expect.declarations : written(name)
      /\ "matrix" \in expect.closedWorld =>
           \A row \in RowsOf(expect) : \A id \in Range(row.configurations) :
             \E i \in DOMAIN config[<<"analysis", "configurations">>] : config[<<"analysis", "configurations">>][i] = Platforms[id]
      /\ {place[1] : place \in ScopeOf(expect)} \ AbsentConsumers(expect) \subseteq DirsOf(rendering.files)

IsHandedOver(entry) ==
  \A held \in Held(entry) :
    SpelledAsStated(entry.expect, held[2].manifest.built) => HandedAsStated(entry.expect, held[1], held[2])

(* A fixture no defect is named of can be run and is handed over as stated, *)
(* and Load reads every corpus Check names none of and stops only at one   *)
(* Check names: check.go:46, run.go:432, fixture.go:62 "Check names every  *)
(* defect instead".                                                        *)
Unnamed(entry) == \A e \in errs : e[1] # entry.name
LoadsWhatIsChecked ==
  /\ errs = {} /\ load = "loaded" => loaded = [i \in DOMAIN corpus |-> corpus[i].name]
  /\ load = "refused" => \E e \in errs : e[1] = corpus[loading].name
CheckedCorpusRuns ==
  Checked => /\ \A i \in Decoded : Unnamed(corpus[i]) =>
                  IsRunnable(corpus[i]) /\ IsPlaced(corpus[i]) /\ IsHandedOver(corpus[i])
             /\ LoadsWhatIsChecked

(* A rule several languages follow is pinned by a fixture an analyzer of    *)
(* every one of them answers, as soon as any fixture outside pending cites  *)
(* it in a corpus Check passes: rules.go:67.                               *)
ParityIsPinned ==
  Checked /\ errs = {} =>
    \A e \in Range(kept), rule \in DOMAIN Rules :
      Cites(e, rule) /\ ~e.pending /\ Cardinality(Rules[rule]) > 1 =>
        \E pin \in Range(kept) : Cites(pin, rule) /\ ~pin.pending /\ Rules[rule] = Range(pin.languages)
=============================================================================
