----------------------------- MODULE FixtureSites -----------------------------
(***************************************************************************)
(* Resolve, src/corpus/resolve.go: the sites of the logical names an       *)
(* expectation file uses, through the manifest of one rendering.  Six      *)
(* passes read and write the names used so far, so their order decides     *)
(* what counts as a name expected twice.                                   *)
(*                                                                         *)
(* A manifest is a function of its names; file and line may be None, and   *)
(* ref says whether the entry spells a reference.  Defects are pairs of    *)
(* the defect and the name it caught; Go joins their texts.                *)
(***************************************************************************)
EXTENDS Ordering

Applies(entry, language) == entry.languages = << >> \/ Contains(entry.languages, language)
NamesOf(entry) == <<entry.symbol>> \o entry.via \o entry.carried
Site(entry) == <<entry.file, entry.line>>
Placed(entry) == entry.file # None /\ entry.line # None

RowSymbols(expect) == {expect.rows[i].symbol : i \in DOMAIN expect.rows}
LiteralsOf(expect) == {expect.rows[i].literal : i \in DOMAIN expect.rows} \ {None}
EvaluatedBy(expect) == {expect.evaluations[i].symbol : i \in DOMAIN expect.evaluations} \ {None}

(* The resolver: the names used, the sites bound and the defects so far.   *)
Resolver == [used |-> {}, sites |-> [name \in {} |-> None], facts |-> {}, errs |-> {}]
FailEach(r, defect, names) == [r EXCEPT !.errs = @ \cup {<<defect, name>> : name \in names}]

Unfiled(manifest, name) == name \in DOMAIN manifest /\ manifest[name].file = None
Unlined(manifest, name) ==
  /\ name \in DOMAIN manifest /\ manifest[name].file # None
  /\ manifest[name].line = None \/ manifest[name].line < 1
Binds(manifest, name) ==
  name \in DOMAIN manifest /\ ~Unfiled(manifest, name) /\ ~Unlined(manifest, name)

(* bind, of each of the names: none of a pass reads what another binds. *)
BindEach(r, manifest, names) ==
  LET bound == {name \in names : Binds(manifest, name)}
      failed == FailEach(FailEach(FailEach(r, "unbound", names \ DOMAIN manifest),
                                  "no file", {name \in names : Unfiled(manifest, name)}),
                         "no line", {name \in names : Unlined(manifest, name)})
  IN  [failed EXCEPT !.used = @ \cup bound,
                     !.sites = [name \in DOMAIN @ \cup bound |->
                                  IF name \in bound THEN Site(manifest[name]) ELSE @[name]]]

EvaluationSymbols(r, expect, manifest) ==
  FailEach(r, "unbound", EvaluatedBy(expect) \ DOMAIN manifest)

Skips(r, expect, manifest) ==
  LET rows == RowSymbols(expect) \cap Range(expect.skips)
  IN  BindEach(FailEach(r, "twice", rows), manifest, Range(expect.skips) \ rows)

(* Then the symbols of the evaluations that are no row's count as used. *)
UseEvaluations(r, expect) == [r EXCEPT !.used = @ \cup (EvaluatedBy(expect) \ RowSymbols(expect))]

(* Bug: a name_literal is bound for each row that names it. *)
LiteralsEach(r, expect, manifest) ==
  LET twice == LiteralsOf(expect) \cap
                 (r.used \cup {name \in DOMAIN manifest : \E i, j \in DOMAIN expect.rows :
                                 i < j /\ expect.rows[i].literal = name /\ expect.rows[j].literal = name})
  IN  UseEvaluations(BindEach(FailEach(r, "twice", twice), manifest, LiteralsOf(expect) \ r.used), expect)

(* literals: each once, however many rows share it. *)
Literals(r, expect, manifest) ==
  LET twice == LiteralsOf(expect) \cap r.used
  IN  UseEvaluations(BindEach(FailEach(r, "twice", twice), manifest, LiteralsOf(expect) \ twice), expect)

(* declaredRows: a row whose symbol was met before, by a pass or a row, is  *)
(* one too many; and a configured entry's symbol resolves to no site.      *)
SharedSymbols(expect) ==
  {expect.rows[i].symbol : i \in {i \in DOMAIN expect.rows :
     \E j \in 1 .. i - 1 : expect.rows[j].symbol = expect.rows[i].symbol}}
DeclaredRows(r, expect, manifest) ==
  LET met == RowSymbols(expect) \cap r.used
      fresh == RowSymbols(expect) \ met
      twice == FailEach([r EXCEPT !.used = @ \cup fresh], "twice", met \cup SharedSymbols(expect))
      declared == fresh \cap expect.declarations
      roots == (fresh \cap expect.roots) \ declared
      bound == DOMAIN manifest
  IN  BindEach(FailEach(FailEach(twice, "entry also bound", declared \cap (bound \cup expect.roots)),
                        "root also bound", roots \cap bound),
               manifest, fresh \ (declared \cup roots))

(* factNames: entries that apply to one rendering differ by role or symbol. *)
FactsTwice(expect) ==
  {expect.facts[i].symbol : i \in {i \in DOMAIN expect.facts : \E j \in 1 .. i - 1 :
     /\ expect.facts[i].role = expect.facts[j].role /\ expect.facts[i].symbol = expect.facts[j].symbol
     /\ \E k \in DOMAIN expect.languages : /\ Applies(expect.facts[i], expect.languages[k])
                                           /\ Applies(expect.facts[j], expect.languages[k])}}

FactsNamed(expect, language) ==
  UNION {Range(NamesOf(expect.facts[i])) : i \in {i \in DOMAIN expect.facts : Applies(expect.facts[i], language)}}

(* factName: each name once, and bound unless a pass before has its site. *)
FactNames(r, expect, language, manifest) ==
  LET names == FactsNamed(expect, language)
      bound == BindEach(FailEach(r, "twice", FactsTwice(expect)), manifest, names \ DOMAIN r.sites)
  IN  FailEach([bound EXCEPT !.facts = @ \cup names],
               "no ref", {name \in names \cap DOMAIN manifest : ~manifest[name].ref})

(* Bug: only the names that resolved are compared for a shared position. *)
ManifestNamesResolved(r, manifest) ==
  LET names == DOMAIN manifest
  IN  FailEach(FailEach(FailEach(r, "orphan", names \ r.used),
                        "stray ref", {n \in names \ r.facts : manifest[n].ref}),
               "shared", {n \in DOMAIN r.sites : \E m \in DOMAIN r.sites \ {n} : r.sites[n] = r.sites[m]})

ManifestNames(r, manifest) ==
  LET names == DOMAIN manifest
      placed == {n \in names : Placed(manifest[n])}
  IN  FailEach(FailEach(FailEach(r, "orphan", names \ r.used),
                        "stray ref", {n \in names \ r.facts : manifest[n].ref}),
               "shared", {n \in placed : \E m \in placed \ {n} : Site(manifest[n]) = Site(manifest[m])})

ConfiguredEntries(r, expect) ==
  FailEach(FailEach(r, "orphan root", expect.roots \ r.used), "orphan entry", expect.declarations \ r.used)

Resolve(expect, language, manifest) ==
  LET skips == Skips(EvaluationSymbols(Resolver, expect, manifest), expect, manifest)
      rows == DeclaredRows(Literals(skips, expect, manifest), expect, manifest)
      facts == FactNames(rows, expect, language, manifest)
  IN  ConfiguredEntries(ManifestNames(facts, manifest), expect)
Resolves(expect, language, manifest) == Resolve(expect, language, manifest).errs = {}

---------------------------------------------------------------------------
(* What the passes decide, whatever their order. *)
Configured(expect) == expect.roots \cup expect.declarations
BoundNames(expect, language) ==
  (RowSymbols(expect) \ Configured(expect)) \cup LiteralsOf(expect) \cup Range(expect.skips) \cup FactsNamed(expect, language)

NamedOnce(expect) ==
  /\ \A i, j \in DOMAIN expect.rows : i # j => expect.rows[i].symbol # expect.rows[j].symbol
  /\ {} = RowSymbols(expect) \cap (Range(expect.skips) \cup LiteralsOf(expect))
  /\ {} = LiteralsOf(expect) \cap Range(expect.skips)
  /\ {} = RowSymbols(expect) \cap expect.roots \cap expect.declarations
  /\ \A i, j \in DOMAIN expect.facts :
       LET a == expect.facts[i]
           b == expect.facts[j]
       IN  i # j /\ a.role = b.role /\ a.symbol = b.symbol
           => \A language \in Range(expect.languages) : ~ (Applies(a, language) /\ Applies(b, language))

Complete(entry) == Placed(entry) /\ entry.line >= 1
WellManifested(expect, language, manifest) ==
  LET bound == BoundNames(expect, language)
      rows == RowSymbols(expect)
  IN  /\ bound \cup EvaluatedBy(expect) = DOMAIN manifest
      /\ \A name \in bound : Complete(manifest[name])
      /\ \A name \in DOMAIN manifest : manifest[name].ref = (name \in FactsNamed(expect, language))
      /\ \A n, m \in DOMAIN manifest :
           n # m /\ Placed(manifest[n]) => Site(manifest[n]) # Site(manifest[m])
      /\ Configured(expect) \subseteq rows \cup DOMAIN manifest
      /\ {} = Configured(expect) \cap rows \cap DOMAIN manifest

(* A rendering resolves when each name it uses is used once and its         *)
(* manifest places the names it uses and no other, and then every bound     *)
(* name has its own site: resolve.go:27.                                   *)
ResolvesExactly(expect, language, manifest) ==
  LET r == Resolve(expect, language, manifest)
  IN  /\ r.errs = {} <=> NamedOnce(expect) /\ WellManifested(expect, language, manifest)
      /\ r.errs = {} => r.sites = [name \in BoundNames(expect, language) |-> Site(manifest[name])]
=============================================================================
