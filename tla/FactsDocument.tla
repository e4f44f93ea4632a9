--------------------------- MODULE FactsDocument ---------------------------
(***************************************************************************)
(* A facts document as an analyzer builds it and a reader admits it        *)
(* (src/facts/facts.go).  Strings are their ranks; a record's scheme is    *)
(* the language its symbol is spelled in; an embedded finding is what the  *)
(* rules read of it: its component, who minted that, its subject, its      *)
(* code's family and whether it is in the record's schema file.            *)
(***************************************************************************)
EXTENDS Ordering

CONSTANTS
  FactsDocuments,  \* what an analyzer may hand to Build
  GeneratorRows    \* the generators of the vocabulary, versions 0 where open

ASSUME FactsAssumption == \A r, s \in GeneratorRows : r.id = s.id => r = s

(* The types of a document.                                                *)
Generator == [row : Int, version : Int]
GeneratedEntry == [path : Int, schemas : Seq(Int), generator : {None} \union Generator]
Embedded == [minter : Int, ref : Int, family : STRING, component : Int, inFile : BOOLEAN]
BindingRecord ==
  [file : Int, schema : Int, role : Int, symbol : Int, scheme : Int, via : Seq(Int), uses : Seq(Int),
   members : Seq(Int), generatedFile : Int, finding : {None} \union Embedded, carried : Seq(Int)]
FactsRecord ==
  [language : Int, analyzer : Int, generated : Seq(GeneratedEntry), bindings : Seq(BindingRecord)]
ASSUME FactsAreTyped == FactsDocuments \subseteq FactsRecord

RuleNames == {"order", "generator", "finding", "carried", "generated_file", "scheme", "schema", "via"}
ASSUME NoneIsNoRule == None \notin RuleNames

VARIABLES
  facts,           \* the document, put in order in place
  admitted         \* "handed", "built", or the rule that refused it

factsVars == <<facts, admitted>>

SchemaFamily == "18"

(* The first check that fails, as its keyword. *)
FirstFailing(checks) ==
  LET i == SelectInSeq(checks, LAMBDA check : ~ check[1]) IN IF i = 0 THEN None ELSE checks[i][2]

ComparePath(g) == <<g.path>>
CompareTuple(b) == <<b.file, b.schema, b.role, b.symbol>>
Implementer == 2       \* the roles in bytewise order: consumer, fallback, implementer, schema
Schema == 3

AscendingNames(s) == Ascending(s, Unary)

-----------------------------------------------------------------------------
(* The document's canonical order. *)
NamesInOrder(g) == [g EXCEPT !.schemas = SortOn(@, Unary)]
ListsInOrder(b) ==
  [b EXCEPT !.via = SortOn(@, Unary), !.uses = SortOn(@, Unary), !.members = SortOn(@, Unary)]
InOrder(d) ==
  LET generated == [i \in DOMAIN d.generated |-> NamesInOrder(d.generated[i])]
      bindings == [i \in DOMAIN d.bindings |-> ListsInOrder(d.bindings[i])]
  IN  [d EXCEPT !.generated = SortOn(generated, ComparePath), !.bindings = SortOn(bindings, CompareTuple)]

-----------------------------------------------------------------------------
(* The rules no schema keyword states, in the order they are read. *)
GeneratorFits(d, g) ==
  \E row \in GeneratorRows :
    /\ row.id = g.row /\ row.language = d.language
    /\ \/ g.version = 0 \/ (row.min = 0 /\ row.max = 0)
       \/ g.version > 0 /\ (row.min = 0 \/ row.min <= g.version) /\ (row.max = 0 \/ g.version <= row.max)

(* Bug: an entry that repeats the path before it admitted. *)
GeneratedRefusalOrdered(d, i) ==
  LET g == d.generated[i]
  IN  FirstFailing(<<
        <<i = 1 \/ ~ Precedes(<<g.path>>, <<d.generated[i - 1].path>>), "order">>,
        <<AscendingNames(g.schemas), "order">>,
        <<g.generator = None \/ GeneratorFits(d, g.generator), "generator">> >>)

GeneratedRefusal(d, i) ==
  LET g == d.generated[i]
  IN  FirstFailing(<<
        <<i = 1 \/ d.generated[i - 1].path < g.path, "order">>,
        <<AscendingNames(g.schemas), "order">>,
        <<g.generator = None \/ GeneratorFits(d, g.generator), "generator">> >>)

WithGenerator(d) == {g.path : g \in {h \in ToSet(d.generated) : h.generator # None}}
Implementers(d) == {b.symbol : b \in {c \in ToSet(d.bindings) : c.role = Implementer}}

FindingRefusal(d, b) ==
  LET f == b.finding
  IN  IF f = None THEN None
      ELSE FirstFailing(<<
             <<f.minter = d.analyzer, "finding">>, <<f.ref = b.symbol, "finding">>,
             <<b.role = Schema => f.family = SchemaFamily /\ f.inFile, "finding">>,
             <<b.role = Implementer => f.family # SchemaFamily, "finding">>,
             <<\A c \in ToSet(b.carried) : c = f.component, "carried">> >>)

BindingRefusal(d, i) ==
  LET b == d.bindings[i]
  IN  FirstFailing(<<
        <<i = 1 \/ Precedes(CompareTuple(d.bindings[i - 1]), CompareTuple(b)), "order">>,
        <<AscendingNames(b.via), "order">>, <<AscendingNames(b.uses), "order">>,
        <<AscendingNames(b.members), "order">>,
        <<b.generatedFile \in WithGenerator(d) \union {0}, "generated_file">>,
        <<b.scheme = d.language, "scheme">>,
        <<b.role = Schema => b.symbol = b.schema, "schema">>,
        <<\A v \in ToSet(b.via) : v # b.symbol /\ v \in Implementers(d), "via">>,
        <<FindingRefusal(d, b) = None, FindingRefusal(d, b)>> >>)

(* Validate: the first rule the document breaks, None where it is admitted. *)
Rules(d) ==
  FirstFailing([i \in DOMAIN d.generated |-> <<GeneratedRefusal(d, i) = None, GeneratedRefusal(d, i)>>]
               \o [i \in DOMAIN d.bindings |-> <<BindingRefusal(d, i) = None, BindingRefusal(d, i)>>])

-----------------------------------------------------------------------------
FactsInit == facts \in FactsDocuments /\ admitted = "handed"

(* Build puts the document in order before it validates it, so a document  *)
(* it refuses has been put in order too.                                   *)
BuildFacts ==
  /\ admitted = "handed"
  /\ facts' = InOrder(facts)
  /\ admitted' = LET broken == Rules(InOrder(facts)) IN IF broken = None THEN "built" ELSE broken

(* Decode and Encode hold the document, as it is, to the same rules. *)
ValidateFacts ==
  /\ admitted = "handed"
  /\ admitted' = LET broken == Rules(facts) IN IF broken = None THEN "read" ELSE broken
  /\ UNCHANGED facts

FactsNext == BuildFacts \/ ValidateFacts
FactsSpec == FactsInit /\ [][FactsNext]_factsVars

-----------------------------------------------------------------------------
(* Every order one document may arrive in: of its entries and records, and  *)
(* of the names each of them lists.                                        *)
Reordered(s) == {[i \in DOMAIN s |-> s[p[i]]] : p \in {q \in [DOMAIN s -> DOMAIN s] : IsInjective(q)}}
EntryForms(g) == {[g EXCEPT !.schemas = names] : names \in Reordered(g.schemas)}
RecordWith(b, via, uses, members) == [b EXCEPT !.via = via, !.uses = uses, !.members = members]
RecordForms(b) ==
  {RecordWith(b, via, uses, members) :
     via \in Reordered(b.via), uses \in Reordered(b.uses), members \in Reordered(b.members)}
OneOfEach(forms) == {f \in [DOMAIN forms -> UNION ToSet(forms)] : \A i \in DOMAIN forms : f[i] \in forms[i]}
EntryArrivals(d) == UNION {OneOfEach([i \in DOMAIN G |-> EntryForms(G[i])]) : G \in Reordered(d.generated)}
RecordArrivals(d) == UNION {OneOfEach([i \in DOMAIN B |-> RecordForms(B[i])]) : B \in Reordered(d.bindings)}
RewrittenAs(d, generated, bindings) == [d EXCEPT !.generated = generated, !.bindings = bindings]
Rewritten(d) == {RewrittenAs(d, generated, bindings) : generated \in EntryArrivals(d), bindings \in RecordArrivals(d)}

(* No path and no tuple is listed twice. *)
ListedOnce(d) ==
  /\ \A i, j \in DOMAIN d.generated : d.generated[i].path = d.generated[j].path => i = j
  /\ \A i, j \in DOMAIN d.bindings : CompareTuple(d.bindings[i]) = CompareTuple(d.bindings[j]) => i = j

(* A document has one canonical form: whatever order its entries, records   *)
(* and names came in, Build gives the same document, or refuses all those  *)
(* orders.  Where no path and no tuple is listed twice it orders them all  *)
(* alike, and so refuses them for the same reason; where one is, the entry *)
(* or record that came first decides the reason.  A document is read as it *)
(* stands exactly when it is that form and Build admits it; and an         *)
(* admitted one lists every path and tuple once, and a record implementing *)
(* each symbol another is used through: facts.go:97.                       *)
FactsCanonical ==
  /\ admitted # "handed" => \A other \in Rewritten(facts) :
       /\ admitted = "built" => InOrder(other) = facts
       /\ ListedOnce(facts) => InOrder(other) = InOrder(facts)
       /\ ~ ListedOnce(facts) => Rules(InOrder(other)) # None
       /\ Rules(InOrder(other)) = None <=> Rules(InOrder(facts)) = None
       /\ Rules(other) = None <=> (other = InOrder(other) /\ Rules(InOrder(other)) = None)
  /\ admitted \in {"built", "read"} =>
       /\ ListedOnce(facts)
       /\ \A b \in ToSet(facts.bindings) : \A v \in ToSet(b.via) :
            \E i \in DOMAIN facts.bindings :
              facts.bindings[i].role = Implementer /\ facts.bindings[i].symbol = v /\ v # b.symbol
=============================================================================
