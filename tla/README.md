# Verification of deadset-spec

deadset-spec is the contract several dead-code analyzers keep: vocabularies,
schemas and grammars (`contract/`), a corpus of fixtures every analyzer answers
(`corpus/`), command line vectors (`vectors/`), and Go packages that read, write
and check what the contract names. This directory holds TLA+ models of the parts
of that code that decide something over several steps, what TLC finds about them
on small instances, and what TLAPS proves about them for any instance.

Run `tlc -config X.cfg M` for a run of the table below and `tlapm M.tla` for a
module of proofs. `PROJECT.json` lists the runs, the source lines every
definition stands for, a plausible bug for every property, and the hazards.

## The system

Each part below is listed with the state it keeps, its operations, and what makes
it correct.

### Suppressions (`suppress/`)

An analyzer's findings are withheld by three mechanisms: inline directives,
entries of the ignore file, and rows of a baseline document.

- **Readers** (`read.go`, `grammar.go`): a document to entries with their site, or a
  `MalformedError` that ends the run. A document is read twice, as tokens and by the
  decoder, and the two readings meet only in an entry's number. Correct when what
  is written is what is read, and nothing else is.
- **Binder** (`suppress.go`): one entry to one record per declaration its
  reference names, to none for another analyzer's scheme, or to a refusal with a
  finding of its own. Correct when nothing malformed decides anything.
- **Ledger** (`ledger.go`): the records in reading order, each claiming the
  findings it names and no earlier record claimed. State: the claims and a verdict
  per record. Correct when each finding belongs to the first suppression that
  names it *as written*, although one entry may have become several records, and
  when a suppression reported stale can be deleted without effect.
- **Baseline rounds** (`baseline.go`): `Fixpoint` calls the analysis until a round
  neither records a row nor finds one stale. State: the rows held and every row
  ever removed. Recording a row changes what the next round finds stale, so the
  hard behaviours are oscillation, duplicates and the order of the document.
  Correct when it ends, and on rows the last analysis confirmed.
- **Baseline document** (`baseline.go`): `WriteBaseline` writes the rows of one
  analyzer's scheme and keeps every other scheme's, so that analyzers of several
  languages share one file. Correct when the file does not depend on who wrote last.

### The corpus runner (`corpus/`, `cmd/deadset-corpus`)

- **Run** (`run.go`): a pool of goroutines, one unbuffered channel, one slice of
  rows, one context that an interrupt cancels. Each fixture is answered in a
  scratch copy of its own through up to four invocations of the analyzer (or the one
  of a fixture whose run must fail), with digests of the rendering compared at the end. Hard: interleaving,
  cancellation at any point, an error at any step. Correct when a document
  returned is whole, made by nothing a cancellation cut, and no scratch
  directory survives.
- **Answers** (`answer.go`, `run.go`, `results.go`): each row of an expectation
  file is held against the finding at its position, then suppressed and looked
  for again in a second analysis; a declared gap turns a failure into a gap.
  Correct when a pass means exactly what was expected and nothing else, and a gap
  hides one row's difference only.
- **Agree** (`agree.go`): two products' documents, row by row.
- **RunCases** (`cases.go`): the command line vectors, some repeated, some
  interrupted once the product has put a file at a marker. State: the case, the
  run, its tree, a watching goroutine nobody waits for.
- **Resolve** (`resolve.go`): a fixture's names to sites, in seven passes over one map
  of names used so far. Correct when each name resolves for the use it was bound
  for, and a name used twice is refused.
- **Check, Load** (`check.go`, `gomod.go`, `rules.go`, `fixture.go`): the corpus's own
  rules, fixture by fixture and then over all of them. Correct when what passes can be run: built,
  loaded and pinned in every language.

### Reports, facts, documents (`report/`, `facts/`, `document/`, `render/`, `vocab/`)

- **Report** (`build.go`, `order.go`, `codec.go`): `Build` puts an analyzer's findings
  in canonical order with their totals and components, `Decode` reads a document and
  `Cap` shortens the listing and keeps the totals. Correct when no order of arrival
  shows and the totals describe the run, listed or not.
- **Facts** (`facts.go`): `Build` and `Validate`, a canonical document and its rules.
- **Documents** (`schema.go`, `check.go`, `first.go`, `key.go`): a JSON schema compiler
  with a memo, a checker, the one refusal a reader is shown and its key, a single string.
- **Renderers** (`sarif.go`, `text.go`, `formats.go`): a report to text, annotations
  or SARIF. No state, but records of several analyzers have to find their runs.
- `vocab` holds generated tables.

The **merge** of several analyzers' reports is written as a reference
implementation in `merge_reference_test.go` and
`merge_reference_bindings_test.go`: two rule sets that drop components until
neither can, then promotions and unions. State: the components dropped, the
findings that blocks, the promotions, the components joined. Hard: what one relation
drops revives something in the other, several passes later and against the order
visited; components join over several edges, and several of them may carry one finding.
Correct when the outcome is independent of that order, when nothing that stays live
holds what is reported, when a lower minimum shows all a higher one showed, and when
joined components are one deletion, its findings and lines counted once.

### How the parts interact

The runner calls the analyzer (external: a command, or a function linked in) and
reads its report and facts. A suppression phase of the runner writes an ignore
file that the analyzer reads through `suppress`, so the runner's second analysis
depends on the ledger's rule. An analyzer's `--write-baseline` reads the document,
runs `Fixpoint` around an analysis that binds and decides the rows held so far
through `Bind` and `Decide`, and writes the document with the other schemes' rows.
A report is built, capped and rendered by the analyzer, decoded by the merge and the
runner. `Agree` reads what two runs wrote; `Check` and `Load` stand before `Run`.

## Modules

| Module | Models | State |
|---|---|---|
| `RowLifecycle` | what a baseline write promises of one row (abstract) | a status per row |
| `BaselineFixpoint` | `suppress.Fixpoint`, a row at a time | the rows, the removed set, the loop's place |
| `BaselineFixpointProofs` | theorems about it | |
| `SuppressionReader` | the two readings of an entries document | none |
| `BaselineWrites` | a write from document to document, by two analyzers in turn, over `BaselineFixpoint` | the document, the entries read, who writes |
| `Suppressions` | findings, records, entries and when one names another | none |
| `SuppressionWorld` | a run in the words of `suppression.md`, and its translation to what the ledger reads | none |
| `Ledger` | `Bind`, then `Decide` record by record | records, refusals, claims, verdicts |
| `LedgerProofs` | theorems about it | |
| `CorpusRun` | `corpus.Run` and `runner.answer` | pool, channel place, one local state per goroutine, directories, rows |
| `CorpusRunProofs` | theorems about it | |
| `FixtureMembers` | the members of a fixture that are no rows: edges, facts, configurations, setup failures | none |
| `Conformance` | what an answer decides: rows, gaps, suppression phase, result; `Agree` | per product: phase, two reports, a result |
| `ConformanceProofs` | theorems about it | |
| `CaseRun` | `RunCases`, the runs it makes and the watchers beside them | the case, every run, the tree, results |
| `CaseRunProofs` | theorems about it | |
| `FixtureSites` | `Resolve`, pass by pass | none |
| `GoWiring` | the module wiring of a Go rendering, and what the go command loads (external) | none |
| `FixtureChecks` | what one fixture and its renderings are held to | none |
| `FixtureDocuments` | the configuration and scope documents the runner writes for a fixture | none |
| `CorpusCheck` | `Check` and `Load` over a corpus | the entry each is at, defects, what was loaded |
| `CorpusCheckProofs` | theorems about it | |
| `Ordering` | stable sorting, an element's place being how many come ahead of it, and bytewise comparison | none |
| `ReportRecords` | order, repeats, components, totals, caps, refusals | none |
| `ReportAssembly` | a report's life: built or decoded, ordered, capped, encoded, rendered | the report, its phase, the caps |
| `Rendering` | text, annotations, SARIF, the verdict | none |
| `FactsDocument` | `facts.Build` and `Validate` | the document, what became of it |
| `ReportProofs` | theorems about `ReportAssembly` and `FactsDocument` | |
| `JsonValues` | JSON values, texts and pointers | none |
| `SchemaCompile` | the compiler: a stack of calls over the memo | documents read, nodes built, the stack |
| `SchemaCheck` | the checker, `FirstRefusal` and `Key`, beside the keywords' meaning | the last document and its refusals |
| `MergeRules` | the merge's rules, over a working set and what is dropped | none |
| `MergeClosure` | what step 4 promises whatever the rules are (abstract) | minimum, dropped, settled |
| `MergeResolve` | `resolveStep` and `withheldBelow`, a record visited at a time | the pass and its place, dropped, blocked, promoted, shown, counts |
| `MergeResolveProofs` | theorems about it | |
| `MergeUnion` | `unionComponents` and `unpromoted`, over `MergeResolve`: a promoted finding's joins at a time | what is left to join, the identifier each component goes by, findings rewritten |
| `MCBaselineWrites`, `MCLedger`, `MCCorpusRun`, `MCConformance`, `MCCaseRun`, `MCCorpusCheck`, `MCReport`, `MCDocuments`, `MCMergeResolve` | values for TLC | |

**BaselineFixpoint.** One iteration of the Go loop is `Answer` (the round
returned; the stale rows join `removed`), `Keep` for each row of
`slices.DeleteFunc`, `AppendRow` for each row recorded, and `Finish`. What a round answers is
open: any list of rows, with duplicates, and any of the rows it read. `rounds` is
a history variable, held at one past its bound. `RowLifecycle` is the abstract
specification and `ImplementsLifecycle` the refinement, a row being `dropped`
from the moment a round found it stale.

**BaselineWrites.** `Open` reads the document through `SuppressionReader` or refuses
it, the steps of `BaselineFixpoint` are the rounds, `Write` is `WriteBaseline` with
the rows `OtherRows` kept, and `OtherWrites` the other language's analyzer, whose
whole write is one step. When an analyzer opens the document is its own code's: the
writes follow one another. A text is a tree whose objects list
their members as written, so that a name twice and a name in another case exist.

**Ledger.** `Bind` over each suppression in reading order (`RefuseMalformed`,
`SkipOther`, `Refuse`, `Bind`, by the order of the early returns), then
`DecideNext` per record. `Suppressions` translates `pairs`, `owners`, `Lookup`
and the rest; `SuppressionWorld!WorldNames` states independently, in the words of
the grammar, which findings a suppression names. `AgreesWithTheWorld` and `StaleAsWritten` hold the
first against the second: what is being checked is that splitting an entry into
records and claiming through `bound` neither loses a finding nor gives it twice.

**CorpusRun.** `StartPool`, `HandOver` (send and receive are one step: the channel
holds nothing), `Close`, `Join` are `Run`; the other actions are the steps of
`answer` in one goroutine, each with its error path, ending in `Remove`, the
deferred `os.RemoveAll` with the row written at its index. The file system is
two digests per rendering, the ignore file's and another's, as those are the
ones the code treats differently. An invocation may change either, put back one that
had changed and, once the context is cancelled, be killed; a command then exits with no admitted code, a
linked-in analyzer returns what it likes. The digests are compared once, after the last
analysis, so a change that was put back by then is not an error; `changed`, a history
variable, counts the analyses that changed a file since the runner last wrote it, and
`ChangeIsCaught` claims an error only where one of the files has a single change.

**Conformance.** One fixture, one or more products. `Analyze` and `AnalyzeAgain`
take any report of a small set; `RunToFail` any outcome of a run that must fail; `Decide` is
`fixtureResult`; `Break` is an error; `Compare` is `Agree`. A position is a site, a
code a value, the messages are left out. `FixtureMembers` holds the comparisons of
what is no row (`edgeDifferences`, `factsDifferences`, `notBuiltDifference`,
`inEffectDifference`, `setupFailureDifference`), which every report of the members meets.

**CaseRun.** `RunCases` is the sequential loop; `Beside(r)` is the goroutine of
`interruptOnce`, which may take a tick although its stop channel is closed, and
may outlive its run. The product may put its file, wait, and end in any way.

**CorpusCheck.** `CheckEntry` is one turn of `Check`'s loop, `CheckCoverage` what
follows it, `LoadEntry` one directory of `Load`: the two read the same corpus and
share nothing else. What a fixture is held to is `FixtureChecks`, as sets of
defects; `FixtureSites` threads the map of used names through the passes, since their
order is the point, each pass at once, since none of its names reads what another binds; `GoWiring` holds the wiring checks and, apart from
them, `Loads`: what the go command needs to find every module. `FixtureDocuments` is
what `Run` later makes of the same fixture, `configOf` and `scopeOf`: a
configuration is a function of the keys set, and `CheckedCorpusRuns` holds it to the
keys the contract declares.

**ReportAssembly.** Every path of a product: `Assemble` or `Decode`, then
`OrderAgain`, `CapFindings`, `Encode` and `RenderAs` in any sequence. A string is its rank in bytewise
order and a record's compact encoding one too, so that records that compare equal
and differ exist. `FactsDocument` runs beside it in the same module of values.

**SchemaCompile, SchemaCheck.** The recursion `at` → `fill` → `keyword` → `at` is a
stack with one frame per schema being filled: `CallNew` enters a place in the memo
before its keywords are compiled, `CallBuilt` finds it there. `Unmarshal` then holds
a text to the compiled root, and `SchemaCheck` states what a keyword means from
the schema documents alone, with no node or memo, for the properties to compare. A key
is one sequence of characters, concatenated as `key.go` does (the constant `Letters` spells
each name), so a member `a.b` and the member `b` of `a` share a key, and so do a member `a[0]`
and the element 0 of `a`. `KeysTellPlacesApart` compares the places `Legible` admits, those
whose names hold no full stop and no bracket, over all documents; the member named "" of a
whole document, which spells nothing, is told apart only where another name follows.

**MergeResolve.** `Withhold` and `Check` come first, as `withhold` and rule 1 do;
then one pass is a visit to every dead evaluation in canonical order
(`VisitEvaluation`), and to every dead schema record and implementer in reading
order (`drop`); `EndPass` runs another while one grew. `Block`,
`PromoteEvaluation` and `PromoteBindings` are what follows the fixpoint, `Count`
and `Lower` the loop of `withheldBelow`, which runs everything again. A finding is
its canonical key, a confidence its rank; the trace points, and with them which
rule dropped a component, are left out, as is the order of equal promotions. The
rules themselves are in `MergeRules`, as operators of the working set and the
dropped set, so that the theorems can speak of any dropped set. `MergeClosure`
takes the rules as parameters: components are dropped one at a time, each by a rule
that decides it, until none is; `ImplementsClosure` is the refinement.
`OutcomeIsLeast` then says where that ends, without reference to any order.
`NothingReportedIsHeld` is about what is reported: no paired side, use, member, binding or
implemented declaration that reads live keeps it. Each dead one is reported as well or, its own
component staying, is kept out because a dropped component carries the same finding. In
the last case the report names a symbol and not its pair, which is finding 3.

**MergeUnion.** What ends the step, each time it runs: after `PromoteBindings` and
before `Count`, `Join` takes the promoted findings in canonical order and joins the
component of each to those its edges, bindings and carriers name; `RewriteFindings`
gives each finding of a joined component the surviving identifier, its counts and
its confidence. The forest of parents is the identifier that `find` would return. What
one finding joins is joined in any order, since `JoinedAsOne` says the order does not
matter: the partition it compares with is a closure that has none.
What an analyzer counted under a component is each of its findings once, as its
report's totals are; the envelope's list of components is left out.

## Runs

| Run | Question | Bounds | States |
|---|---|---|---|
| `baseline_writes` | is the document the same whoever wrote last, does it read as written, does a write end, and is it a row life? | 2 rows, answers of at most 2, 2 schemes in turn, every defect in documents of 1 or 2 elements | 278,608 |
| `ledger` | does each finding belong to the first suppression that names it as written, are staleness and totals right, and does a recorded row read back? | every placement of 2 declarations (3 with an assertion), 2 suppressions; 3 over shared references, every dial setting and every refused form | 163,741 |
| `corpus_pool` | are returned rows uncut, is a change noticed that nothing put back, and does the run end? | 2 goroutines, 3 fixtures that take every step between them | 1,009,791 |
| `conformance_rows` | does a pass mean exactly what the fixture expects, silenced, does the right answer pass, and is a divergence always somebody's failure? | 1 product: 2 rows, at most 2 findings and 2 stale records, every member; 2 products: 1 fixture, 3 gap lists | 958,612 |
| `case_runs` | is a case decided by all of its runs, interrupted only at its marker, and does everything end? | at most 3 cases, 3 runs a case | 19,014 |
| `merge_resolve` | is the outcome the least closed set, does nothing that reads live hold what is reported, is each finding promoted once and counted once, is a joined component one deletion? | 2,927 working sets of at most 6 evaluations or 6 records, each from every minimum | 337,856 |
| `report_assembly` | do the totals describe the run under any caps, does no order of arrival show, has each record one place in SARIF? | 3 findings of 3 components, documents of 2 analyzers, 2 caps; facts documents of 2 entries and 3 records, in every order of entries, records and names | 101,360 |
| `schema_documents` | is each place compiled once and whole, does the checker refuse exactly what is no instance, and is the refusal shown the outermost under a key no other legible place has? | every pair of 26 keyword groups, 14 that do not compile, nested alternatives, 2 files with cycles; 28 texts | 29,906 |
| `corpus_fixtures` | can a corpus that passes be run and under the configuration it states, does each name resolve for its use, is each rule pinned? | 6,738 corpora of 1 or 2 fixtures | 67,244 |
| `ledger_other_scheme`, `conformance_silent`, `merge_pairs` | violations, see Findings | | |

Why the bounds suffice. *baseline_writes*: a row's fate depends on itself and on
whether anything else moved, and the write is proved for every finite set of rows; two
schemes are the least that share a document, a third one in the documents found is
nobody's who writes. *ledger*: the pairing rule
relates a record, the other records of its suppression and a finding; two
declarations sharing a reference are the least that make one entry several
records, a third suppression the least for which a claim is contested while
another stands by. `pairing_test.go` has the same placements. *corpus_pool*: two
goroutines are the least that race, a third fixture the least that one of them
takes while the other is busy; no symmetry is used, as `RunEnds` is liveness. *conformance*:
a row meets the findings at its own position and
the rest only through "unexpected", so two rows and two findings give the row
right, the row wrong, one too many and one elsewhere; a member is held against one
value at a time, and each is given right, missing, different and in excess. *case_runs*: two repeats
are the least with an
orphaned watcher and a later run; three cases add a skipped and a pending one.
*merge_resolve*: seven families of working sets, each with every state a side or a
record may carry. Three edges in a chain need three passes, one more than the least
that distinguishes `for grew` from `if`; two analyzers on one side of an edge
disagree; a message, its field and an RPC that uses it, each live, dead, bound or
not; two implementers, one embedding the other, that carry one helper; every
confidence with caps, libraries, fallbacks and a file that matches by its last
segments; a helper that is an implementer's and a side of an edge at once; and two
implementers in two components that carry one helper or one each, on a line of their own or a shared one,
with a finding that fell with a component. The
theorems hold for any working set. *report_assembly*: two findings of one component
with shared lines are the least that can be counted twice, a third of another
component the least a cap can leave out whole; two caps are the least whose order matters.
*schema_documents*: two keywords on one value are the least that interfere, and the
definitions hold a schema that contains itself. *corpus_fixtures*: three names over the seven
passes, one dependency and one consumer beside the target (each with every require,
replace and workspace) and two dependencies of one path, two configurations built and two dropped, two configured entries under
one key or several, two languages and
two fixtures for a rule's citations.

`CHECK_DEADLOCK FALSE` is given where the modelled function returns.

## Fairness

- `BaselineWrites`: weak fairness of one analyzer's write, a sequential call, so it
  always runs; a round that never returns is the analyzer's and is assumed away. None for
  the other analyzer. `BaselineFixpoint` alone: the same of its loop.
- `CorpusRun`: weak fairness of `Run`, of the hand-over, and of each goroutine's
  own steps, which the Go scheduler gives. That includes the end of an invocation:
  the runner puts no time limit on one, so without it nothing ends. None
  for `Cancel`.
- `CaseRun`: weak fairness of the loop and of each watcher; a run ends unless its
  case interrupts it and it waits at its marker, uninterrupted and uncancelled.
  That is exactly the dependency `CasesEnd` is about. `RunCap` (8) is only the range of
  the quantifier over runs and is above the most runs the vectors ask for.
- `SchemaCompile`: weak fairness of the compiler, a sequential recursion.
- `MergeResolve`, `MergeUnion`: weak fairness of the step, a sequential function with
  no call out of it.
- `Ledger`, `Conformance`, `CorpusCheck` and `ReportAssembly` state no liveness: they are
  loops over lists, or calls a product makes or does not.

## Proofs

**BaselineFixpointProofs**, for every finite `Row` and every `MaxAnswer`.
`TypeCorrect` is proved conjunct by conjunct. `HeldOnce` and `RemovedStaysOut`
are not inductive: they speak of the end of a round, and a round builds `kept`
from `rows` and from what it recorded. `RoundInv` adds what each phase keeps true:
while keeping, `kept` and `todo` are injective and disjoint, and what stays of
them is disjoint from `removed`; while appending, `kept` is injective and disjoint
from `removed`. The bound of `2N + 1` rounds comes from `CountInv`: the rounds
that answered are at most the rows held plus twice the rows removed, and one more
until the round now open has moved a row, since every round that does not end the
write records a row or removes one for good. `LifeInv` ties the list being built
to the list read (`kept \o todo = rows` while nothing is gone, `kept = rows` once
settled); the refinement `FixpointImplementsLifecycle` needs it to show that no
row changes its status but by a move of `RowLifecycle`.
`AnswerIsAFixpoint` is the action property that the last round read what is
returned.

**LedgerProofs**, for every set of worlds that satisfies `LookupAnswersDeclarations`: a
lookup in the inventory answers a list of the run's declarations. `FirstNamerAlways`
and `VerdictsAreFinal` rest on one observation, that `DecideNext` claims
only what nobody claimed. `StaleMayGo` adds `ClaimantsStand`, that a record which claimed
is not stale. `TotalsAreAsWritten` has two halves: `InEffectClaims`, a record is in effect exactly when
it claimed a finding the dials let through; and `RecordsAreOfTheBinding`, the records
bound so far carry exactly the mechanisms and sites of the suppressions read so far that
bind, since each of these leaves one record at least, however many
declarations its reference answered (`MarksWritten`).
`WithholdsAsWritten` and `StaleIsAsWritten` compare the ledger with the words of the grammar,
case by case: an assertion, a part, a declaration or a row, against a directive, an entry or a
row. They need `RecordsHaveOrigins`: the records bound so far are those of the suppressions read
so far, in reading order and each beside the others of its own, so that claiming through
`bound` is claiming for the suppression. `StaleVerdicts` adds what a stale record's allowance
was. `RecordedRowsName` is about no state: the row of a finding, bound alone, names exactly
that finding. These three also assume `FindingsAreWhole`, what a finding of the vocabulary
can be about, and `LookupAnswersRows`.

**CaseRunProofs**, for every list of vectors. `Inv` adds to the types what is known
of one run (`SoundRun`: a watcher that has not gone has sent nothing, and only one
that saw the file interrupts), where RunCases is (`TreeOf`: the one run that may be
running is the last and holds the tree), and what a comparison has behind it
(`WantedSoFar`: the last `repeated` runs are this case's and ended as it wants). The
product and the watchers, which may outlive their runs, meet it through one lemma:
`RunStepKept`, that they change one run and nothing a passed case rests on.

**CorpusRunProofs**, for every finite non-empty `Worker` and every finite sequence
`Fixtures`. The invariant is one conjunction: types, `EachFixtureOnce`,
`ScratchIsHeld`, `BusyHolds` (a goroutine has a fixture exactly while it is at
work), `ReturnsResult`, `CutMeansCancelled`, `Progress` (what `main` implies of
`sent` and the goroutines), `ChangesSeen` (a file changed once since the runner last
wrote it is still in `differs`, since only a later change can put it back) and the two
properties about rows. `NoCutRow` needs `CutMeansCancelled` together with the fact that `Join`
reads the context after every row is written and the context is never uncancelled.

**MergeResolveProofs**, for every set of working sets that satisfies
`WorldsAssumption`: what `facts.schema.json` admits of the states and confidences of
records, natural positions, integer keys, finitely many findings. The argument is
monotonicity. Every rule that reads a state asks whether it is live, and dropping
more makes more read live (`ReadsMonotone`, `EvaluationsMonotone` and the lemmas
about each rule); so a component decided under `dropped` is decided under every
closed set that contains it, and `DropsAreNeeded`, that `dropped` is within every
closed set, is kept by each visit. `FixInv` adds what the passes need: the withheld
components come first, and a pass that has not grown has visited nothing it would
drop (`PassQuiet`), so that the pass that ends the loop leaves `dropped` closed.
Together they give `OutcomeIsTheLeast`, and `WhatIsReportedIsNotHeld` by reading the
rules backwards at a closed set: a reported symbol's component is not dropped, so no rule
decides it, and each dead symbol it hangs on, its component not dropped either, is promoted
unless its key is blocked. `PromotionInv` describes the promotions part of the
way through the walk, and needs the canonical order: equal keys are adjacent, so
looking at the last promotion alone is enough. `ShownInv` keeps a closed set under
the minimum at hand that blocks nothing shown; lowering the minimum withholds less,
so the set stays closed, and the least one blocks no more than it. `CountInv` says how many
of the findings shown so far each minimum was the first to show, so that `CountsAreExact`
follows once the loop has reached the least: what is shown at the caller's minimum and the
counts add up to what the least shows.
`PassesImplementClosure` is the refinement.

**ConformanceProofs**, for every set of scenarios and products that satisfies `ListsAreLists` and
`FixturesResolve`, what `Check` and `Resolve` leave of a fixture: no two rows of one symbol,
no two declarations at one position, no row beside a setup failure. `Inv` says where a row
comes from: an error, `FixtureResult` of a report and, wherever an entry was written, of
a second one, or `SetupResult` of a run that had to fail. The rest reads that rule backwards:
a row is matched only by the finding at its position (`PassesAreExact`), a finding nobody names
fails or is named by a result (`WorldStaysClosed`), what was covered is gone from the second report
(`PassesAreSilenced`), and two rows that pass were decided by the same expectation
(`PassingProductsAgree`). `RightAnswersPass` is the other direction, rule by rule: a report that
names what the fixture names differs in no member.

**ReportProofs**, for every set of inputs and documents that satisfies `ReportAssumption`,
`InputsAreWhole` and `DocumentsAreCanonical`. The first is a bound. The second says what the Go types
and the analyzers' schema leave: every array is a list whose records compare by strings and numbers, and
two that compare equal, encodings included, are the same record. The third is that a document read lists its arrays in the
order every writer of this code puts them in, and its totals say how many findings it leaves out.
`RootsAreMeasured`, for the totals alone, is the contract's word for a root's lines. The module starts with what sorting is: places in the order of their keys are
a rearrangement (`Arrangement`, by counting what is ahead), a list in order is its own sort, and two
rearrangements of one list sort to one list where equal keys mean equal elements
(`SortingAnyArrival`, by the pigeonhole: no rearrangement brings the first `k` elements before place
`k`). The provers have no definition of a library sort, which is why `Ordering` has its own.
`ReportInv` says that a report held is in canonical order with the listing of the components it
names, and that what a cap left out ranks no higher than anything it kept; each step keeps it, a
cap since it keeps a prefix of a sort by size and a second one cuts a prefix of that.
`ArrivalsDoNotMatter` compares `Build` of any two arrivals.

`TotalsStayTrue` goes beside it: `TotalsInv` says that the totals are those `Build` counted or the
document had, but for what is left out. `Build` counts a rearrangement of the answer, so each count is
the answer's (`RearrangedCounts`, by the bijection), and the finding it takes a root's lines from need not be the
one first in the answer: that the two have the same lines is where `RootsAreMeasured` is used
(`RootsCountedOnce`). The severities named by the totals are apart, so that failing on one reads
the counts from it up (`FailsAsFound`).

`RecordsStayPlacedOnce` is about the log. `Attributed` says that the records of a held report name the
reports it was merged from, whose names differ, or none: the two last clauses of the assumptions on
inputs and documents, kept by every step. A log then has one run for each driver (`RunsAre`; a finding that names
no analyzer has the merge's own run), and the results of a run are the records its driver carried, one
for one (`ResultsAreRecords`). Over all runs that is a bijection between results and records
(`EachResultHasItsRecord`), and one more where the findings are shown by size, so that each mention is
counted alike (`CountedThrough`). `RuleIndexed` and `LinesCounted` say when a result can be written, hence when
there is no log (`LogIs`). The fingerprints are about numbering: a file has one more line than line ends
(`LinesCounted`), two lines of one hash differ in how many had it before (`FingerprintsApart`),
and a carriage return put before each line feed takes the places of the units kept to places in the same order, so that
they are the same list (`RisingMapped`, since a set of numbers can be listed from the least up in one way
only; `LineEndingsAside`). What `LineHash` computes is a fold and stays open: nothing here depends on it.

The last part is `FactsStayCanonical`, for every set of facts documents of the declared types
(`FactsAreTyped`, `NoneIsNoRule`). `FactsInv` is that an admitted document breaks no rule. An
admitted document climbs: each entry comes strictly after the one before it, hence after all
before it (by the least counterexample), so that sorting leaves it alone and each key is there
once. Where no path and no tuple is listed twice the keys tell entries and records apart, in
whatever order they and their names came (`EntriesArrive`, `RecordsArrive`), and
`SortingAnyArrival` gives one ordered document, hence one answer of the rules. Where one is
listed twice every order is refused, but for a reason that may follow the arrival: of two
entries of one path, one with a generator that does not fit, the one sorted first, hence the one
that came first, decides between `generator` and `order`.

**CorpusCheckProofs**, for every set of rules and of corpora that satisfies `CorporaAreLists`; from
the names on also `FixturesAreTyped`, what the Go types leave of a fixture, `NamesListedOnce`, and what
the schema and the key list enumerate (`SchemaEnumerates`, `KeysListed`). `CheckInv` is `Accounted`, that `Check` has named every defect of the entries behind it, and
`ReadSoFar`, that `Load` has read, in order, what it has passed. From the first, a fixture nothing
is named of has no defect, and `ParityStaysPinned` and `UnnamedFixturesRun` are readings of
`CoverageErrs` and `FixtureErrs`: of the wiring rules against what the go command loads, of the
manifest against the names, of a setup failure against the members. `LoadReadsTheChecked` needs both
halves: the two loops share the readers and nothing else, and what stops one is named by the other.
The proof of the wiring failed at first: it needs `DirectoriesApart`, which `Check` does not ask
(see Findings).

The second part is about what the names resolve to. Each of the seven passes of `Resolve` has a
lemma (`SkipsDecide` to `ConfiguredDecide`) that says when it adds no defect and what it then
leaves of names used, sites and facts; `PassesDecide` follows a resolver through all seven, so that
no defect is named exactly where `PassesHold`, each pass asking of the names the ones before it used.
`PassesAskWhatIsStated` rids this of the order: it is `NamedOnce` and `WellManifested`, the first
about the expectation alone. That is `NamesResolve`. `CheckedCorporaRun` then reads the other
defects. A row's configurations are a part of the built ones since each is where it comes first and
those places ascend (`OrderedIsPart`). The configuration is six documents, each under those before it
(`LayersHold`), and no two of them that must both be read share a key: that needs the scope rules
(`ScopeLeaves`), since a declaration's key spelled in another section would collide, and that the
schema lists the keys of declarations. Roots and declarations are written once since `Selected`
arranges the places of `Names` in order (`PlacesArranged`, a bijection by counting what is before).

Assumed: `RowIsFinite`, `MaxAnswerIsNat`, `LookupAnswersDeclarations`, `LookupAnswersRows`,
`FindingsAreWhole`, `WorkerAssumption`, `FixturesAssumption`, `CasesAssumption`,
`WorldsAssumption`, `ListsAreLists`, `FixturesResolve`, `ReportAssumption`, `InputsAreWhole`,
`DocumentsAreCanonical`, `RootsAreMeasured`, `RenderingAssumption`, `FilesAreUnits`, `FactsAreTyped`, `NoneIsNoRule`, `CorporaAreLists`, `FixturesAreTyped`,
`SchemaEnumerates`, `NamesListedOnce`, `KeysListed`. The runs of these modules evaluate all of them.

Proved and not run, for every value of the constants: the types, `HeldOnce`,
`RemovedStaysOut`, `RoundBound` and `EndsOnAFixpoint`; `FirstNamerClaims`, `VerdictsStand` and
`StaleIsRemovable`; `EachFixtureOnce`, `RowsStand`, `ScratchIsHeld`, `ResultsAreWhole` and
`PendingIsNeverJudged`; `TreeIsHeld`; `NothingShownIsLost`; the invariants `Inv` of
`ConformanceProofs`, `ReportInv` and `CheckInv`.

Only model-checked, and why:

- `JoinedAsOne`, which compares with a closure that is `RECURSIVE`; everything about `BaselineWrites` beyond
  its rounds, and the schema documents: their readers and checker are `RECURSIVE` over trees.
- Liveness everywhere (`WriteEnds`, `RunEnds`, `CasesEnd`, `CompileEnds`), which is beyond the prover.

Induction is not out of reach where it is over numbers: a least counterexample exists
(`LeastMember`, from the well-foundedness of finite sets), and several proofs use it. What a fold or a
recursive operator computes is.

## Findings

Three places where the code does something other than what a document or a comment
says. Each is a run TLC ends with a counterexample.

1. `ledger_other_scheme`: a reference of another scheme that no form admits ends
   no run (`suppress.go:177`), where `suppression.md` says it does.
2. `conformance_silent`: another code at a suppressed position goes unseen,
   where `corpus.json` wants no finding there.
3. `merge_pairs`: `strongestOther` (`merge_reference_test.go:922`) looks at the evaluation's own
   component only, so a symbol is reported although the dead symbol it is paired with stays
   as a member of a component dropped in the other relation; `merge.md` says it is not.

Noted while modelling, without a run of their own:

- A member whose name differs from a declared key only in case is read as that key
  (`read.go:178`), where the reader's comment calls the key list closed; the model's reader
  matches names the same way (`Field`).
- A fixture whose run must fail passes although its run changed a file of the rendering
  (`run.go:288` comes before any digest), where `corpus.json` has the analyzer leave every file
  byte-identical.
- An ignore file the first analysis changed takes the digest of what the suppression phase then
  writes (`run.go:306`), and a file one analysis changed and a later one put back is no
  difference (`run.go:309`): both are answered.
- Two places share a configuration key where a member's name holds a full stop or a bracket
  (`key.go:36`); names of such a form are not refused.
- A declared gap for a note is not looked at (`run.go:358`), while a gap for a setup
  failure's class covers its whole run, findings included (`run.go:725`).
- `Compared` (`agree.go:130`) does not count what was excluded, though its comment says it
  counts what both answered.
- RunCases does not look at the context after a run (`cases.go:83`): a command an interrupt
  killed ends as a difference, and where it was the last case results are returned.
- A finding that an edge side of one component and a record of another both carry is
  counted in both, as `unionComponents` looks for what is shared among records only
  (`merge_reference_test.go:1022`), where `merge.md` says each finding and line is counted
  once. `CountedOnce` leaves those joins out.
- SARIF of a report that is not merged skips a finding that names an analyzer
  (`sarif.go:60`); the model's documents name one only where the report is merged.
- `canonical` (`document/check.go:391`) compares numbers as spelled, so 1.0 is not 1. A
  schema that is a reference to itself at one place compiles, and its check does not end.
- Resolve accepts a configured name that is otherwise only a skip, literal, fact or
  evaluation symbol the manifest binds (`resolve.go:27`), counts an evaluation's symbol as used
  only, and lets a name stand twice in `type_error_skips`.
- Check passes a complete matrix whose identifier names no architecture, which `declaredMatrix`
  refuses (`run.go:538`) and `fixture.schema.json` spells out; two configured roots of one entry,
  which `roots.patterns` may not repeat; and `import_paths` in a fixture of any language
  (`check.go:650` holds two other members to theirs), where proto alone has the key.
  `SpelledAsStated` leaves the three out.
- Two dependency directories of one module path pass (`gomod.go:72`): where `go.work` lists both
  the go command refuses them, and where it lists one while the target's replace names the other
  it loads the listed one for both. A consumer named `target` passes where the target's module
  requires and replaces itself, and `expect.schema.json` admits the name; listed in `go.work`, it is a
  consumer and a member of the workspace. `DirectoriesApart` leaves these out.
- A report whose findings also hold an object of the stale code, at the position of a row whose
  stale record it has, passes.
- Configurations of one identifier keep the order they arrived in, though `order.go:11` says
  each tie is broken by encodings.
- The entries' reader accepts null for a path, a reason and a description, where
  its comment refuses a value of the wrong type, and names, for an element that is no object, the next
  object's brace as the site (`read.go:121` takes the i-th brace for the i-th element).
  `ReadsAsWritten` holds the reader to just that: an object that is refused is named by its own
  brace, and anything else by the brace of an object after it or by the document.
- In a fixture, a fact entry that names no report is not compared for a pending finding, and
  facts records no entry names are no difference.

## Not modelled, and the plan

Not modelled, since nothing in them is state that several steps share: regular expressions, wording, templates and encodings;
generated tables (`vocab`); the generator, which writes text from the contract and is
compared with what is committed; the command's flags and exit codes. Where a model
needs a table it takes it as a constant.

Partly modelled: directives are bound by the analyzer, whose code is not here; the second
analysis of a suppression phase is any report, where it could be the ledger's; of the merge
the resolving step is modelled, and the admission of reports, the stale edges, the
list of components and the merged envelope are not.

Planned, in this order:

1. `SuppressionPhase`: `ignoreEntries` over `Ledger`, so that the second
   analysis is the contract's and not any report.
2. Proofs: `WriterDoesNotMatter` for every document, over the sort of `Ordering`.
3. Configuration vectors: what the generator derives for a settings document
   (`internal/gen/vectors.go`) against the resolution the contract describes.

New models share runs by scenario where they can, as the worlds of `MCLedger` and the
scenarios of `MCConformance` do, so that a run stays one question.
