------------------------------ MODULE MCReport ------------------------------
(***************************************************************************)
(* ReportAssembly over analyses of at most three findings of three         *)
(* components and merged documents of two analyzers, and FactsDocument     *)
(* over documents of two generated entries and three records.              *)
(***************************************************************************)
EXTENDS ReportAssembly, FactsDocument

At(path, line, end) == [path |-> path, line |-> line, end |-> end]
ComponentLines ==
  <<<<At(1, 3, 4), At(1, 1, 3)>>, <<At(2, 1, 3), At(2, 2, 2), At(1, 3, 3)>>, <<At(2, 1, 1)>>>>

Member(component, i) ==
  [ref |-> 10 * component + i, path |-> ComponentLines[component][i].path]
MembersOfEach(components) ==
  [c \in components |-> [i \in DOMAIN ComponentLines[c] |-> Member(c, i)]]

Found(component, i, code, size, severity, root, enc) ==
  [path |-> ComponentLines[component][i].path, line |-> ComponentLines[component][i].line, code |-> code,
   ref |-> 10 * component + i, analyzer |-> 0, size |-> size, severity |-> severity, component |-> component,
   root |-> root, lines |-> DistinctLines(ComponentLines[component]), enc |-> enc, confidence |-> "certain",
   positions |-> IF size = 1 THEN << >> ELSE <<[label |-> "write", path |-> 1], [label |-> "name", path |-> 2]>>]

FirstOfOne == Found(1, 1, 1, 2, "warn", TRUE, 1)
SecondOfOne == Found(1, 2, 1, 3, "deny", TRUE, 1)
OneOfTwo == Found(2, 1, 1, 3, "warn", TRUE, 2)
SameKey == Found(2, 1, 1, 1, "deny", FALSE, 1)
OneOfThree == Found(3, 1, 2, 4, "allow", TRUE, 1)

Stale(analyzer) == [path |-> 1, line |-> 2, code |-> 9, ref |-> 11, analyzer |-> analyzer, enc |-> 1]
Evaluation(edge, state, component) ==
  [edge |-> edge, side |-> 1, analyzer |-> 0, state |-> state, component |-> component, enc |-> 1]
Entry(key, enc) == [key |-> key, enc |-> enc]
Configuration(id, enc) == [id |-> id, enc |-> enc]
Uncounted(probable) ==
  [inEffect |-> 1, reasons |-> 1, withheld |-> [certain |-> 0, probable |-> probable, possible |-> 1]]

Answer(findings, evaluations, members, configurations, notBuilt, stale, notes) ==
  [findings |-> findings, evaluations |-> evaluations, members |-> members,
   configurations |-> configurations, notBuilt |-> notBuilt, stale |-> stale, notes |-> notes,
   languages |-> <<2, 1>>, loaded |-> << >>, unavailable |-> <<Configuration(1, 1)>>, gaps |-> <<[analyzer |-> 0, enc |-> 1]>>,
   excluded |-> << >>, testRules |-> << >>, skips |-> <<Entry(2, 1), Entry(1, 1)>>, questions |-> << >>,
   conventions |-> << >>, uncounted |-> Uncounted(Len(notes))]

ManyFindings == {SetToSeq(S) : S \in UNION {kSubset(n, {FirstOfOne, SecondOfOne, OneOfTwo, SameKey, OneOfThree}) : n \in 0 .. 3}}
Evaluations == {<< >>, <<Evaluation(2, "dead", 3), Evaluation(1, "dead", 1)>>, <<Evaluation(1, "live", 0)>>}
AnalysisInputs ==
  {Answer(findings, evaluations, members, <<Configuration(2, 1), Configuration(1, 1)>>, rest[1], rest[2], notes) :
     findings \in ManyFindings, evaluations \in Evaluations,
     members \in {None, MembersOfEach(1 .. 3), MembersOfEach({1, 3})},
     rest \in {<<<< >>, << >>>>, <<<< >>, <<Stale(0)>>>>, <<<<Configuration(2, 2)>>, << >>>>},
     notes \in {<<Entry(1, 2), Entry(1, 1), Entry(1, 2)>>}}

(* Documents of a merge, canonical and counted as it leaves them. *)
Input(name, languages) == [id |-> name, languages |-> languages, totals |-> 0]
Merged(findings, stale, from, members) ==
  LET built == Build(Answer(findings, << >>, members, << >>, << >>, stale, << >>))
  IN  [built EXCEPT !.mergedFrom = from]
Carried(f, analyzer) == [f EXCEPT !.analyzer = analyzer]
MergedDocuments ==
  {Merged(<<Carried(FirstOfOne, a), Carried(OneOfThree, b)>>, stale, from, MembersOfEach(1 .. 3)) :
     a \in 0 .. 2, b \in 0 .. 2, stale \in {<< >>, <<Stale(0)>>, <<Stale(2)>>, <<[Stale(0) EXCEPT !.line = 6]>>, <<[Stale(0) EXCEPT !.path = 3]>>},
     from \in {<< >>, <<Input(2, <<2>>), Input(1, <<1>>)>>, <<Input(1, <<1, 2>>)>>}}
  \union {[Merged(<<FirstOfOne>>, << >>, << >>, MembersOfEach(1 .. 3)) EXCEPT !.components = listed] :
            listed \in {<< >>, <<[id |-> 1, members |-> << >>], [id |-> 1, members |-> << >>]>>,
                        <<[id |-> 1, members |-> << >>], [id |-> 2, members |-> << >>]>>}}
CanonicalDocuments == {Order(document) : document \in {d \in MergedDocuments : ListsEveryComponent(d)}}
                      \union {d \in MergedDocuments : ~ ListsEveryComponent(d)}

TargetFiles ==
  (1 :> <<65, CR, LF, 32, 65, LF, 66, CR, 32, LF, 65>>) @@ (2 :> <<65, LF, 65, LF>>)
IssueKinds == {[code |-> 1, languages |-> {1, 2}], [code |-> 2, languages |-> {2}], [code |-> 9, languages |-> {1, 2}]}

(* The facts documents. *)
Binding(role, symbol, schema, via) ==
  [file |-> 1, schema |-> schema, role |-> role, symbol |-> symbol, scheme |-> 1, via |-> via, uses |-> << >>,
   members |-> << >>, generatedFile |-> 0, finding |-> None, carried |-> << >>]
Minted(minter, ref, family, component) ==
  [minter |-> minter, ref |-> ref, family |-> family, component |-> component, inFile |-> TRUE]
Document(generated, bindings) ==
  [language |-> 1, analyzer |-> 1, generated |-> generated, bindings |-> bindings]
Generated(path, schemas, version) ==
  [path |-> path, schemas |-> schemas,
   generator |-> IF version = None THEN None ELSE [row |-> 1, version |-> version]]

ImplementerRecord == Binding(Implementer, 5, 1, << >>)
ManyBindings ==
  {Binding(Schema, 4, 4, << >>), [Binding(Schema, 4, 4, << >>) EXCEPT !.symbol = 5],
   ImplementerRecord, Binding(Implementer, 6, 1, <<6, 5>>),
   [ImplementerRecord EXCEPT !.schema = 2, !.generatedFile = 2],
   [ImplementerRecord EXCEPT !.finding = Minted(1, 5, "10", 7), !.carried = <<7, 7>>],
   [ImplementerRecord EXCEPT !.finding = Minted(1, 5, "10", 7), !.carried = <<8>>],
   [ImplementerRecord EXCEPT !.finding = Minted(2, 5, "10", 7)],
   [Binding(Schema, 4, 4, << >>) EXCEPT !.finding = Minted(1, 4, "10", 7)],
   [Binding(0, 7, 4, <<6, 5>>) EXCEPT !.uses = <<2, 1>>, !.members = <<3, 2, 1>>], Binding(0, 7, 4, <<5, 5>>), [Binding(1, 8, 4, << >>) EXCEPT !.scheme = 2]}
ManyGenerated ==
  {<< >>, <<Generated(2, <<2, 1>>, 3)>>, <<Generated(2, <<1>>, None), Generated(1, << >>, 0)>>,
   <<Generated(1, <<1>>, 5)>>, <<Generated(1, <<1>>, -1)>>, <<Generated(2, <<1>>, 3), Generated(2, <<1>>, 3)>>,
   <<Generated(2, <<2, 1>>, 3), Generated(2, <<1>>, 5)>>}
ManyFacts == {Document(g, b) : g \in ManyGenerated, b \in BoundedSeq(ManyBindings, 2)}
             \union {Document(<< >>, b) : b \in {c \in [1 .. 3 -> ManyBindings] : c[3] = ImplementerRecord}}
Rows == {[id |-> 1, language |-> 1, min |-> 2, max |-> 4]}

(* One document at a time. *)
NoFacts == Document(<< >>, << >>)
IdleReport == /\ input = NoFacts /\ report = None /\ phase = "refused" /\ caps = NoCaps /\ rendering = None
IdleFacts == facts = NoFacts /\ admitted = "read"
DocumentsInit == (Init /\ IdleFacts) \/ (FactsInit /\ IdleReport)
DocumentsNext == (Next /\ UNCHANGED factsVars) \/ (FactsNext /\ UNCHANGED vars)
DocumentsSpec == DocumentsInit /\ [][DocumentsNext]_<<vars, factsVars>>
=============================================================================
