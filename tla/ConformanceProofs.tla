------------------------- MODULE ConformanceProofs -------------------------
(***************************************************************************)
(* What a product's row says of what the product did, for every fixture,   *)
(* gap list and document: Conformance's properties as theorems.            *)
(***************************************************************************)
EXTENDS Conformance, FiniteSetTheorems, SequenceTheorems, WellFoundedInduction, TLAPS

Phases == {"first", "second", "deciding", "answered"}

Typed ==
  /\ scenario \in Scenarios
  /\ gaps \in [Product -> scenario.gaps]
  /\ phase \in [Product -> Phases]
  /\ DOMAIN first = Product /\ DOMAIN second = Product /\ DOMAIN result = Product

(* The analyses behind a decision: a report, and a second one wherever an  *)
(* entry was written.                                                      *)
Reported(p) == expect.setup = {} /\ first[p] \in scenario.analyses
SecondToo(p) == Covered(first[p]) # {} => second[p] # Absent

(* Where a product is, and where its row came from.                        *)
Underway ==
  \A p \in Product :
    /\ phase[p] \in {"second", "deciding"} => Reported(p)
    /\ phase[p] = "deciding" => SecondToo(p)

Decided(p) == Reported(p) /\ SecondToo(p) /\ result[p] = RowOf(FixtureResult(p))
RanToFail(p) ==
  \E want \in expect.setup :
    first[p] \in scenario.analyses /\ result[p] = RowOf(SetupResult(want, p, first[p]))
EachByRule == \A p \in Answered : result[p] = RowOf(Broken) \/ Decided(p) \/ RanToFail(p)

ComparedAnswers ==
  agreement = Absent
    \/ \E p, q \in Answered : p # q /\ agreement = Agree(result[p], result[q])

Inv == Typed /\ Underway /\ EachByRule /\ ComparedAnswers

-----------------------------------------------------------------------------
(* A product's decision reads the fixture, its gaps and its two analyses,  *)
(* and nothing another product does.                                       *)
LEMMA DecisionIsItsOwn ==
  ASSUME NEW p, scenario' = scenario, gaps'[p] = gaps[p],
         first'[p] = first[p], second'[p] = second[p]
  PROVE  /\ Reported(p)' = Reported(p) /\ SecondToo(p)' = SecondToo(p)
         /\ FixtureResult(p)' = FixtureResult(p)
         /\ \A want, run : SetupResult(want, p, run)' = SetupResult(want, p, run)
         /\ \A answer : RowOf(answer)' = RowOf(answer)
<1>1. expect' = expect /\ Rows' = Rows
  BY DEF expect, Rows
<1>2. Covered(first[p])' = Covered(first[p])
  BY <1>1 DEF Covered
<1>3. \A i : SuppressionOf(i, p)' = SuppressionOf(i, p)
  BY <1>1, <1>2 DEF SuppressionOf
<1>4. \A i : DecideRow(i, p)' = DecideRow(i, p)
  BY <1>1, <1>3 DEF DecideRow
<1>5. Unexpected(first[p])' = Unexpected(first[p])
  BY <1>1 DEF Unexpected
<1>6. /\ SkipsDiffer(gaps[p], first[p])' = SkipsDiffer(gaps[p], first[p])
      /\ ConventionsDiffer(gaps[p], first[p])' = ConventionsDiffer(gaps[p], first[p])
      /\ RowsDeclined(gaps[p])' = RowsDeclined(gaps[p])
  BY <1>1 DEF SkipsDiffer, ConventionsDiffer, RowsDeclined
<1>7. /\ NotesDiffer(first[p])' = NotesDiffer(first[p])
      /\ OthersDiffer(first[p])' = OthersDiffer(first[p])
  BY <1>1 DEF NotesDiffer, OthersDiffer
<1>8. FixtureResult(p)' = FixtureResult(p)
  BY <1>1, <1>4, <1>5, <1>6, <1>7 DEF FixtureResult
<1>9. \A want, run : SetupResult(want, p, run)' = SetupResult(want, p, run)
  BY DEF SetupResult
<1>10. \A answer : RowOf(answer)' = RowOf(answer)
  BY <1>1 DEF RowOf
<1> QED BY <1>1, <1>2, <1>8, <1>9, <1>10 DEF Reported, SecondToo

(* A step of one product leaves what is known of another as it was.        *)
LEMMA OthersStay ==
  ASSUME Inv, NEW p \in Product, scenario' = scenario, gaps' = gaps,
         agreement' = agreement, phase[p] # "answered",
         phase' \in [Product -> Phases], DOMAIN first' = Product,
         DOMAIN second' = Product, DOMAIN result' = Product,
         \A q \in Product \ {p} :
           /\ phase'[q] = phase[q] /\ first'[q] = first[q]
           /\ second'[q] = second[q] /\ result'[q] = result[q],
         phase'[p] \in {"second", "deciding"} => Reported(p)',
         phase'[p] = "deciding" => SecondToo(p)',
         phase'[p] = "answered" => (result[p] = RowOf(Broken) \/ Decided(p) \/ RanToFail(p))'
  PROVE  Inv'
<1>1. Product' = Product /\ expect' = expect
  BY DEF Product, expect
<1>2. Typed'
  BY <1>1 DEF Inv, Typed
<1>3. Underway'
  <2> SUFFICES ASSUME NEW q \in Product
               PROVE  /\ phase'[q] \in {"second", "deciding"} => Reported(q)'
                      /\ phase'[q] = "deciding" => SecondToo(q)'
    BY <1>1 DEF Underway
  <2>1. CASE q = p
    BY <2>1
  <2>2. CASE q # p
    <3>1. Reported(q)' = Reported(q) /\ SecondToo(q)' = SecondToo(q)
      BY <2>2, DecisionIsItsOwn
    <3> QED BY <2>2, <3>1 DEF Inv, Underway
  <2> QED BY <2>1, <2>2
<1>4. EachByRule'
  <2> SUFFICES ASSUME NEW q \in Product, phase'[q] = "answered"
               PROVE  (result[q] = RowOf(Broken) \/ Decided(q) \/ RanToFail(q))'
    BY <1>1 DEF EachByRule, Answered
  <2>1. CASE q = p
    BY <2>1
  <2>2. CASE q # p
    <3>1. /\ Reported(q)' = Reported(q) /\ SecondToo(q)' = SecondToo(q)
          /\ FixtureResult(q)' = FixtureResult(q)
          /\ \A want, run : SetupResult(want, q, run)' = SetupResult(want, q, run)
          /\ \A answer : RowOf(answer)' = RowOf(answer)
      BY <2>2, DecisionIsItsOwn
    <3>2. result[q] = RowOf(Broken) \/ Decided(q) \/ RanToFail(q)
      BY <2>2 DEF Inv, EachByRule, Answered
    <3>3. CASE result[q] = RowOf(Broken)
      BY <2>2, <3>1, <3>3
    <3>4. CASE Decided(q)
      BY <2>2, <3>1, <3>4 DEF Decided
    <3>5. CASE RanToFail(q)
      BY <1>1, <2>2, <3>1, <3>5 DEF RanToFail
    <3> QED BY <3>2, <3>3, <3>4, <3>5
  <2> QED BY <2>1, <2>2
<1>5. ComparedAnswers'
  <2>1. CASE agreement = Absent
    BY <2>1 DEF ComparedAnswers
  <2>2. CASE agreement # Absent
    <3>1. PICK q, r \in Answered : q # r /\ agreement = Agree(result[q], result[r])
      BY <2>2 DEF Inv, ComparedAnswers
    <3>2. q \in Answered' /\ r \in Answered' /\ result'[q] = result[q] /\ result'[r] = result[r]
      BY <1>1 DEF Answered
    <3>3. (agreement = Agree(result[q], result[r]))'
      BY <3>1, <3>2
    <3> QED BY <3>1, <3>2, <3>3 DEF ComparedAnswers
  <2> QED BY <2>1, <2>2
<1> QED BY <1>2, <1>3, <1>4, <1>5 DEF Inv

LEMMA Initially == Init => Inv
<1> SUFFICES ASSUME Init PROVE Inv
  OBVIOUS
<1>1. Typed
  BY DEF Init, Typed, Phases
<1>2. Underway /\ EachByRule
  BY DEF Init, Underway, EachByRule, Answered
<1>3. ComparedAnswers
  BY DEF Init, ComparedAnswers
<1> QED BY <1>1, <1>2, <1>3 DEF Inv

(* So does a step that only compares.                                      *)
LEMMA RowsStay ==
  ASSUME Inv, UNCHANGED <<scenario, gaps, phase, first, second, result>>
  PROVE  Typed' /\ Underway' /\ EachByRule' /\ Answered' = Answered
<1>1. Product' = Product /\ expect' = expect /\ Answered' = Answered
  BY DEF Product, expect, Answered
<1>2. Typed'
  BY <1>1 DEF Inv, Typed
<1>3. \A r \in Product :
        /\ Reported(r)' = Reported(r) /\ SecondToo(r)' = SecondToo(r)
        /\ FixtureResult(r)' = FixtureResult(r)
        /\ \A want, run : SetupResult(want, r, run)' = SetupResult(want, r, run)
        /\ \A answer : RowOf(answer)' = RowOf(answer)
  BY DecisionIsItsOwn
<1>4. Underway'
  BY <1>1, <1>3 DEF Inv, Underway
<1>5. EachByRule'
  <2> SUFFICES ASSUME NEW r \in Answered
               PROVE  (result[r] = RowOf(Broken) \/ Decided(r) \/ RanToFail(r))'
    BY <1>1 DEF EachByRule
  <2>1. r \in Product
    BY DEF Answered
  <2>2. result[r] = RowOf(Broken) \/ Decided(r) \/ RanToFail(r)
    BY DEF Inv, EachByRule
  <2>3. CASE result[r] = RowOf(Broken)
    BY <1>3, <2>1, <2>3
  <2>4. CASE Decided(r)
    BY <1>3, <2>1, <2>4 DEF Decided
  <2>5. CASE RanToFail(r)
    BY <1>1, <1>3, <2>1, <2>5 DEF RanToFail
  <2> QED BY <2>2, <2>3, <2>4, <2>5
<1> QED BY <1>1, <1>2, <1>4, <1>5

(* No step leaves the invariant. *)
LEMMA Inductive == Inv /\ [Next]_vars => Inv'
<1> SUFFICES ASSUME Inv, [Next]_vars PROVE Inv'
  OBVIOUS
<1>1. CASE Compare
  <2>1. PICK p, q \in Product : p # q /\ agreement' = Agree(result[p], result[q])
    BY <1>1 DEF Compare
  <2>2. p \in Answered /\ q \in Answered
    BY <1>1 DEF Compare, Answered
  <2>3. UNCHANGED <<scenario, gaps, phase, first, second, result>>
    BY <1>1 DEF Compare
  <2>4. Typed' /\ Underway' /\ EachByRule' /\ Answered' = Answered
    BY <2>3, RowsStay
  <2>5. (agreement = Agree(result[p], result[q]))'
    BY <2>1, <2>3
  <2> QED BY <2>1, <2>2, <2>4, <2>5 DEF Inv, ComparedAnswers
<1>2. CASE \E p \in Product : Analyze(p)
  <2>1. PICK p \in Product : Analyze(p)
    BY <1>2
  <2>2. PICK report \in scenario.analyses :
          /\ first' = [first EXCEPT ![p] = report]
          /\ phase' = [phase EXCEPT ![p] = IF Covered(report) = {} THEN "deciding" ELSE "second"]
    BY <2>1 DEF Analyze
  <2>3. /\ phase[p] = "first" /\ expect.setup = {}
        /\ UNCHANGED <<scenario, gaps, second, result, agreement>>
    BY <2>1 DEF Analyze
  <2>4. expect' = expect /\ first'[p] = report
    BY <2>2, <2>3 DEF expect, Inv, Typed
  <2>5. Reported(p)'
    BY <2>3, <2>4 DEF Reported
  <2>6. Covered(first[p])' = Covered(report)
    BY <2>4 DEF Covered, Rows
  <2>7. phase'[p] = "deciding" => SecondToo(p)'
    BY <2>2, <2>6 DEF SecondToo, Inv, Typed
  <2> QED BY <2>2, <2>3, <2>5, <2>7, OthersStay DEF Inv, Typed, Phases
<1>3. CASE \E p \in Product : AnalyzeAgain(p)
  <2>1. PICK p \in Product : AnalyzeAgain(p)
    BY <1>3
  <2>2. PICK findings \in SUBSET SecondFindings, stale \in SUBSET Entries(first[p]) :
          second' = [second EXCEPT ![p] = [findings |-> findings, stale |-> stale]]
    BY <2>1 DEF AnalyzeAgain
  <2>3. /\ phase[p] = "second" /\ phase' = [phase EXCEPT ![p] = "deciding"]
        /\ UNCHANGED <<scenario, gaps, first, result, agreement>>
    BY <2>1 DEF AnalyzeAgain
  <2>4. Reported(p)'
    BY <2>3 DEF Reported, expect, Inv, Underway
  <2>5. second'[p] # Absent
    BY <2>2 DEF Inv, Typed, Absent
  <2>6. SecondToo(p)'
    BY <2>5 DEF SecondToo
  <2> QED BY <2>2, <2>3, <2>4, <2>6, OthersStay DEF Inv, Typed, Phases
<1>4. CASE \E p \in Product : Decide(p)
  <2>1. PICK p \in Product : Decide(p)
    BY <1>4
  <2>2. /\ phase[p] = "deciding" /\ phase' = [phase EXCEPT ![p] = "answered"]
        /\ result' = [result EXCEPT ![p] = RowOf(FixtureResult(p))]
        /\ UNCHANGED <<scenario, gaps, first, second, agreement>>
    BY <2>1 DEF Decide, Answer
  <2>3. Reported(p) /\ SecondToo(p)
    BY <2>2 DEF Inv, Underway
  <2>4. Decided(p)'
    BY <2>2, <2>3, DecisionIsItsOwn DEF Decided, Inv, Typed
  <2> QED BY <2>2, <2>4, OthersStay DEF Inv, Typed, Phases
<1>5. CASE \E p \in Product : RunToFail(p)
  <2>1. PICK p \in Product : RunToFail(p)
    BY <1>5
  <2>2. PICK want \in expect.setup, run \in scenario.analyses :
          /\ first' = [first EXCEPT ![p] = run]
          /\ result' = [result EXCEPT ![p] = RowOf(SetupResult(want, p, run))]
    BY <2>1 DEF RunToFail
  <2>3. /\ phase[p] = "first" /\ phase' = [phase EXCEPT ![p] = "answered"]
        /\ UNCHANGED <<scenario, gaps, second, agreement>>
    BY <2>1 DEF RunToFail
  <2>4. SetupResult(want, p, run)' = SetupResult(want, p, run)
    BY <2>3 DEF SetupResult
  <2>5. \A answer : RowOf(answer)' = RowOf(answer)
    BY <2>3 DEF RowOf, expect
  <2>6. expect' = expect /\ first'[p] = run /\ result'[p] = RowOf(SetupResult(want, p, run))
    BY <2>2, <2>3 DEF expect, Inv, Typed
  <2>7. RanToFail(p)'
    BY <2>2, <2>3, <2>4, <2>5, <2>6 DEF RanToFail
  <2> QED BY <2>2, <2>3, <2>7, OthersStay DEF Inv, Typed, Phases
<1>6. CASE \E p \in Product : Break(p)
  <2>1. PICK p \in Product : Break(p)
    BY <1>6
  <2>2. /\ phase[p] # "answered" /\ phase' = [phase EXCEPT ![p] = "answered"]
        /\ result' = [result EXCEPT ![p] = RowOf(Broken)]
        /\ UNCHANGED <<scenario, gaps, first, second, agreement>>
    BY <2>1 DEF Break, Answer
  <2>3. (result[p] = RowOf(Broken))'
    BY <2>2 DEF Inv, Typed, RowOf, expect
  <2> QED BY <2>2, <2>3, OthersStay DEF Inv, Typed, Phases
<1>7. CASE UNCHANGED vars
  <2>1. UNCHANGED <<scenario, gaps, phase, first, second, result>> /\ agreement' = agreement
    BY <1>7 DEF vars
  <2>2. Typed' /\ Underway' /\ EachByRule' /\ Answered' = Answered
    BY <2>1, RowsStay
  <2>3. ComparedAnswers'
    BY <2>1, <2>2 DEF Inv, ComparedAnswers
  <2> QED BY <2>2, <2>3 DEF Inv
<1> QED BY <1>1, <1>2, <1>3, <1>4, <1>5, <1>6, <1>7 DEF Next

(* Every row is broken, decided by the rule from documents that were       *)
(* written, or a run's that had to fail; and what was compared is two rows.*)
THEOREM RowsComeByTheRule == Spec => []Inv
BY Initially, Inductive, PTL DEF Spec

-----------------------------------------------------------------------------
(* A row of a pending fixture is pending, and any other is the answer.     *)
LEMMA RowOfAnswer ==
  ASSUME NEW held, NEW value
  PROVE  LET row == RowOf([expectations |-> held, result |-> value])
         IN  /\ row.expectations = held
             /\ row.result = IF expect.pending THEN "pending" ELSE value
<1> DEFINE answer == [expectations |-> held, result |-> value]
<1>1. CASE expect.pending
  <2>1. RowOf(answer) = [answer EXCEPT !.result = "pending"]
    BY <1>1 DEF RowOf
  <2>2. [answer EXCEPT !.result = "pending"] = [expectations |-> held, result |-> "pending"]
    OBVIOUS
  <2> QED BY <1>1, <2>1, <2>2
<1>2. CASE ~ expect.pending
  BY <1>2 DEF RowOf
<1> QED BY <1>1, <1>2

(* What a decided row's result says. *)
LEMMA DecidedRow ==
  ASSUME NEW i, NEW p
  PROVE  LET row == expect.rows[i]
             held == DecideRow(i, p)
             gap == Covering(gaps[p], row)
         IN  /\ held.symbol = row.symbol /\ held.actual = Actual(row, first[p])
             /\ held.capability = gap
             /\ held.result \in {"pass", "gap", "fail"}
             /\ held.result = "gap" <=> gap # None
             /\ held.result = "pass" <=>
                  /\ gap = None /\ Matches(row, first[p])
                  /\ SuppressionOf(i, p) \in {Absent, [suppressed |-> TRUE, stale |-> FALSE]}
BY DEF DecideRow

(* And a decided fixture's. *)
Comparisons(p) ==
  /\ Unexpected(first[p]) = {}
  /\ ~ SkipsDiffer(gaps[p], first[p]) /\ ~ NotesDiffer(first[p])
  /\ ~ ConventionsDiffer(gaps[p], first[p]) /\ ~ OthersDiffer(first[p])

LEMMA DecidedFixture ==
  ASSUME NEW p
  PROVE  LET answer == FixtureResult(p)
         IN  /\ answer = [expectations |-> [i \in Rows |-> DecideRow(i, p)], result |-> answer.result]
             /\ answer.result \in {"pass", "gap", "fail"}
             /\ answer.result # "fail" <=>
                  Comparisons(p) /\ \A i \in Rows : DecideRow(i, p).result # "fail"
             /\ answer.result = "pass" =>
                  \A i \in Rows : DecideRow(i, p).result = "pass"
             /\ Comparisons(p) /\ ~ RowsDeclined(gaps[p])
                  /\ (\A i \in Rows : DecideRow(i, p).result = "pass") => answer.result = "pass"
<1> DEFINE held == [i \in Rows |-> DecideRow(i, p)]
           fails == ~ (Comparisons(p) /\ \A i \in Rows : DecideRow(i, p).result # "fail")
           gapped == RowsDeclined(gaps[p]) \/ \E i \in Rows : DecideRow(i, p).result = "gap"
           value == CASE fails -> "fail" [] ~ fails /\ gapped -> "gap" [] OTHER -> "pass"
<1>1. FixtureResult(p) = [expectations |-> held, result |-> value]
  BY DEF FixtureResult, Comparisons
<1>2. \A i \in Rows : DecideRow(i, p).result \in {"pass", "gap", "fail"}
  BY DecidedRow
<1> QED BY <1>1, <1>2

-----------------------------------------------------------------------------
(* Sets of positions of a list. *)

(* A set of naturals that is not empty has a least member. *)
LEMMA LeastIsAMember ==
  ASSUME NEW T, T \subseteq Nat, T # {}
  PROVE  Min(T) \in T /\ \A y \in T : Min(T) <= y
<1> DEFINE Up == {1 .. n : n \in T}
<1>1. Up \subseteq FiniteSubsetsOf(Nat) /\ Up # {}
  <2> SUFFICES ASSUME NEW n \in T PROVE 1 .. n \in FiniteSubsetsOf(Nat)
    OBVIOUS
  <2>1. IsFiniteSet(1 .. n) /\ 1 .. n \subseteq Nat
    BY FS_Interval
  <2> QED BY <2>1, SMT DEF FiniteSubsetsOf
<1>2. IsWellFoundedOn(StrictSubsetOrdering(Nat), FiniteSubsetsOf(Nat))
  BY FS_StrictSubsetOrderingWellFounded
<1>3. PICK U \in Up : \A V \in Up : ~ (<<V, U>> \in StrictSubsetOrdering(Nat))
  <2> HIDE DEF Up
  <2> QED BY <1>1, <1>2, WFMin
<1>4. PICK x \in T : U = 1 .. x
  OBVIOUS
<1>5. ASSUME NEW y \in T, y < x PROVE FALSE
  <2>1. (1 .. y) \subseteq (1 .. x) /\ x \in 1 .. x /\ x \notin 1 .. y
    BY <1>5, T \subseteq Nat
  <2>2. <<1 .. y, 1 .. x>> \in StrictSubsetOrdering(Nat)
    BY <2>1 DEF StrictSubsetOrdering
  <2> QED BY <1>3, <1>4, <2>2
<1>6. \E z \in T : \A y \in T : z <= y
  BY <1>5, T \subseteq Nat
<1> QED BY <1>6 DEF Min

LEMMA Positions ==
  ASSUME NEW list, IsList(list)
  PROVE  /\ DOMAIN list \subseteq Nat /\ IsFiniteSet(DOMAIN list)
         /\ \A S \in SUBSET DOMAIN list :
              /\ IsFiniteSet(S) /\ Cardinality(S) \in Nat
              /\ Cardinality(S) = 0 <=> S = {}
              /\ Cardinality(S) = 1 <=> \E i \in S : S = {i}
<1>1. DOMAIN list = 1 .. Len(list) /\ Len(list) \in Nat
  BY LenProperties DEF IsList
<1>2. IsFiniteSet(DOMAIN list)
  BY <1>1, FS_Interval
<1>3. ASSUME NEW S \in SUBSET DOMAIN list
      PROVE  /\ IsFiniteSet(S) /\ Cardinality(S) \in Nat
             /\ Cardinality(S) = 0 <=> S = {}
             /\ Cardinality(S) = 1 <=> \E i \in S : S = {i}
  <2>1. IsFiniteSet(S)
    BY <1>2, FS_Subset
  <2>2. Cardinality(S) = 1 <=> \E i : S = {i}
    BY <2>1, FS_Singleton
  <2> QED BY <2>1, <2>2, FS_EmptySet, FS_CardinalityType
<1> QED BY <1>1, <1>2, <1>3

(* The documents a decision reads are lists. *)
LEMMA DocumentsAreLists ==
  ASSUME Inv, NEW p, Reported(p)
  PROVE  /\ IsList(first[p].findings) /\ IsList(first[p].stale)
         /\ IsList(first[p].evaluations) /\ IsList(first[p].notes)
         /\ \A doc \in first[p].facts : IsList(doc.bindings)
         /\ IsList(expect.rows)
BY ListsAreLists DEF Inv, Typed, Reported, expect

LEMMA ReadFromIsAList ==
  ASSUME Inv, NEW p, Reported(p), NEW row
  PROVE  IsList(ReadFrom(row, first[p]))
BY DocumentsAreLists DEF ReadFrom

(* What a row that reports and matches has: one record, as it names it. *)
LEMMA OneRecordMatches ==
  ASSUME NEW row, NEW report, IsList(ReadFrom(row, report)),
         Matches(row, report), row.report # None
  PROVE  LET list == ReadFrom(row, report)
         IN  \E i \in DOMAIN list :
               /\ Candidates(row, report) = {i}
               /\ list[i].code = row.report /\ list[i].confidence = row.confidence
<1> DEFINE list == ReadFrom(row, report)
<1>1. /\ Cardinality(Candidates(row, report)) = 1
      /\ \A i \in Candidates(row, report) : Differences(row, list[i]) = {}
  BY DEF Matches
<1>2. Candidates(row, report) \subseteq DOMAIN list
  BY DEF Candidates
<1>3. PICK i \in DOMAIN list : Candidates(row, report) = {i}
  BY <1>1, <1>2, Positions
<1>4. Differences(row, list[i]) = {}
  BY <1>1, <1>3
<1>5. list[i].code = row.report /\ list[i].confidence = row.confidence
  BY <1>4 DEF Differences
<1> QED BY <1>3, <1>5

-----------------------------------------------------------------------------
(* How a fixture that does not fail came by its result: decided with every *)
(* member as named and no row failed, or by the run it wants.              *)
DecidedWell(p) ==
  /\ Decided(p) /\ Comparisons(p)
  /\ result[p].expectations = [i \in Rows |-> DecideRow(i, p)]
  /\ result[p].result = "pass" => \A i \in Rows : DecideRow(i, p).result = "pass"

LEMMA ResultValues ==
  ASSUME Inv, NEW p \in Answered
  PROVE  result[p].result \in {"pass", "gap", "fail", "pending"}
<1>1. CASE result[p] = RowOf(Broken)
  BY <1>1, RowOfAnswer DEF Broken
<1>2. CASE Decided(p)
  <2> DEFINE answer == FixtureResult(p)
  <2>1. /\ answer = [expectations |-> [i \in Rows |-> DecideRow(i, p)], result |-> answer.result]
        /\ answer.result \in {"pass", "gap", "fail"}
    BY DecidedFixture
  <2>2. result[p] = RowOf(answer)
    BY <1>2 DEF Decided
  <2> HIDE DEF answer
  <2> QED BY <2>1, <2>2, RowOfAnswer
<1>3. CASE RanToFail(p)
  <2>1. PICK want \in expect.setup : result[p] = RowOf(SetupResult(want, p, first[p]))
    BY <1>3 DEF RanToFail
  <2> DEFINE value == SetupResult(want, p, first[p]).result
  <2>2. /\ SetupResult(want, p, first[p]) = [expectations |-> << >>, result |-> value]
        /\ value \in {"pass", "gap", "fail"}
    BY DEF SetupResult
  <2> HIDE DEF value
  <2> QED BY <2>1, <2>2, RowOfAnswer
<1> QED BY <1>1, <1>2, <1>3 DEF Inv, EachByRule

LEMMA NotFailed ==
  ASSUME Inv, NEW p \in Answered, result[p].result \in {"pass", "gap"}
  PROVE  \/ expect.setup = {} /\ DecidedWell(p)
         \/ /\ \E want \in expect.setup :
                  result[p].result = "pass" => ~ SetupDiffers(want, first[p])
            /\ result[p].expectations = << >> /\ first[p] \in scenario.analyses
<1>1. CASE result[p] = RowOf(Broken)
  <2>1. result[p].result \in {"pending", "fail"}
    BY <1>1, RowOfAnswer DEF Broken
  <2> QED BY <2>1
<1>2. CASE Decided(p)
  <2> DEFINE answer == FixtureResult(p)
             held == [i \in Rows |-> DecideRow(i, p)]
  <2>1. /\ answer = [expectations |-> held, result |-> answer.result]
        /\ answer.result # "fail" <=>
             Comparisons(p) /\ \A i \in Rows : DecideRow(i, p).result # "fail"
        /\ answer.result = "pass" => \A i \in Rows : DecideRow(i, p).result = "pass"
    BY DecidedFixture
  <2>2. result[p] = RowOf(answer)
    BY <1>2 DEF Decided
  <2> HIDE DEF answer, held
  <2>3. /\ RowOf([expectations |-> held, result |-> answer.result]).expectations = held
        /\ RowOf([expectations |-> held, result |-> answer.result]).result
             = IF expect.pending THEN "pending" ELSE answer.result
    BY RowOfAnswer
  <2>4. result[p].expectations = held /\ result[p].result = answer.result
    BY <2>1, <2>2, <2>3
  <2> QED BY <1>2, <2>1, <2>4 DEF DecidedWell, Decided, Reported, held
<1>3. CASE RanToFail(p)
  <2>1. PICK want \in expect.setup :
          first[p] \in scenario.analyses /\ result[p] = RowOf(SetupResult(want, p, first[p]))
    BY <1>3 DEF RanToFail
  <2> DEFINE value == CASE ~ SetupDiffers(want, first[p]) -> "pass"
                        [] SetupDiffers(want, first[p]) /\ CoversFixture(gaps[p], want.class) -> "gap"
                        [] OTHER -> "fail"
  <2>2. SetupResult(want, p, first[p]) = [expectations |-> << >>, result |-> value]
    BY DEF SetupResult
  <2>3. value = "pass" => ~ SetupDiffers(want, first[p])
    OBVIOUS
  <2> HIDE DEF value
  <2>4. /\ RowOf([expectations |-> << >>, result |-> value]).expectations = << >>
        /\ RowOf([expectations |-> << >>, result |-> value]).result
             = IF expect.pending THEN "pending" ELSE value
    BY RowOfAnswer
  <2>5. result[p].expectations = << >> /\ result[p].result = value
    BY <2>1, <2>2, <2>4
  <2> QED BY <2>1, <2>3, <2>5
<1> QED BY <1>1, <1>2, <1>3 DEF Inv, EachByRule

-----------------------------------------------------------------------------
(* The closed world, and a pass exactly what the fixture names. *)

LEMMA ToldIsNamed ==
  ASSUME NEW p, Comparisons(p), NEW f \in Told(p)
  PROVE  \E row \in Reporting : IsFor(f, row)
<1>1. PICK i \in Rows : NamesFinding(expect.rows[i], f)
  BY DEF Comparisons, Unexpected, Told
<1>2. expect.rows[i] \in ToSet(expect.rows)
  BY DEF Rows, ToSet
<1> QED BY <1>1, <1>2 DEF NamesFinding, Reporting, IsFor, IsConfigured, RootCode, None

LEMMA ClosedWorldHolds == Inv => ClosedWorld
<1> SUFFICES ASSUME Inv, NEW p \in Answered, result[p].result \in {"pass", "gap"}, expect.setup = {},
                    NEW f \in Told(p)
             PROVE  \E row \in ToSet(expect.rows) : IsFor(f, row)
  BY DEF ClosedWorld
<1>1. Comparisons(p)
  BY NotFailed DEF DecidedWell
<1> QED BY <1>1, ToldIsNamed DEF Reporting

LEMMA RowsReportExactly ==
  ASSUME Inv, NEW p, DecidedWell(p), \A i \in Rows : DecideRow(i, p).result = "pass"
  PROVE  ReportsExactly(p)
<1>1. \A f \in Told(p) : \E row \in Reporting : IsFor(f, row)
  BY ToldIsNamed DEF DecidedWell
<1>2. ASSUME NEW row \in Reporting
      PROVE  LET list == ReadFrom(row, first[p])
             IN  \E i \in DOMAIN list :
                   /\ list[i].confidence = row.confidence
                   /\ {j \in DOMAIN list : IsFor(list[j], row)} = {i}
  <2> DEFINE list == ReadFrom(row, first[p])
  <2>1. PICK k \in Rows : row = expect.rows[k]
    BY DEF Reporting, Rows, ToSet
  <2>2. Matches(row, first[p]) /\ row.report # None
    BY <2>1, DecidedRow DEF Reporting
  <2>3. IsList(list)
    BY ReadFromIsAList DEF DecidedWell, Decided
  <2>4. PICK i \in DOMAIN list :
          /\ Candidates(row, first[p]) = {i}
          /\ list[i].code = row.report /\ list[i].confidence = row.confidence
    BY <2>2, <2>3, OneRecordMatches
  <2>5. IsFor(list[i], row)
    BY <2>4 DEF Candidates, IsFor
  <2>6. ASSUME NEW j \in DOMAIN list, IsFor(list[j], row) PROVE j = i
    BY <2>4, <2>6 DEF Candidates, IsFor
  <2> QED BY <2>4, <2>5, <2>6
<1> QED BY <1>1, <1>2 DEF ReportsExactly

(* An edge compared has one record of each side an entry names, as named.  *)
LEMMA SideAsNamed ==
  ASSUME NEW want, NEW report, IsList(report.evaluations), ~ EvaluationDiffers(want, report)
  PROVE  \E i \in DOMAIN report.evaluations :
           LET one == report.evaluations[i]
           IN  /\ \A j \in DOMAIN report.evaluations : OfSide(report.evaluations[j], want) <=> j = i
               /\ one.state = want.state
               /\ want.state = "dead" =>
                    \E f \in one.finding : f.code = want.report /\ f.site \in want.site
<1> DEFINE list == report.evaluations
           records == {i \in DOMAIN list : OfSide(list[i], want)}
<1>1. Cardinality(records) = 1
  BY DEF EvaluationDiffers
<1>2. \E i \in DOMAIN list : records = {i}
  <2>1. records \in SUBSET DOMAIN list
    OBVIOUS
  <2> HIDE DEF records
  <2> QED BY <1>1, <2>1, Positions
<1> PICK i \in DOMAIN list : records = {i}
  BY <1>2
<1>3. \A j \in DOMAIN list : OfSide(list[j], want) <=> j = i
  OBVIOUS
<1>4. /\ list[i].state = want.state
      /\ want.state = "dead" => \E f \in list[i].finding : f.code = want.report /\ f.site \in want.site
  BY DEF EvaluationDiffers
<1> QED BY <1>3, <1>4

LEMMA EdgesEvaluateExactly ==
  ASSUME Inv, NEW p, DecidedWell(p)
  PROVE  EvaluatesExactly(p)
<1> DEFINE records == first[p].evaluations
<1>1. IsList(records)
  BY DocumentsAreLists DEF DecidedWell, Decided
<1>2. /\ \A want \in expect.evaluations : ~ EvaluationDiffers(want, first[p])
      /\ \A one \in ToSet(records) : \E want \in expect.evaluations : OfSide(one, want)
  BY DEF DecidedWell, Comparisons, OthersDiffer, EdgesDiffer
<1>3. ASSUME NEW want \in expect.evaluations
      PROVE  \E i \in DOMAIN records :
               /\ \A j \in DOMAIN records : OfSide(records[j], want) <=> j = i
               /\ records[i].state = want.state
               /\ want.state = "dead" =>
                    \E f \in records[i].finding : f.code = want.report /\ f.site \in want.site
  BY <1>1, <1>2, SideAsNamed
<1>4. ToSet(records) = {records[i] : i \in DOMAIN records}
  BY DEF ToSet
<1>5. ASSUME NEW i \in DOMAIN records
      PROVE  \E want \in expect.evaluations : OfSide(records[i], want) /\ records[i].state = want.state
  BY <1>2, <1>3, <1>4
<1>6. ASSUME NEW want \in expect.evaluations
      PROVE  \E i \in DOMAIN records : OfSide(records[i], want) /\ records[i].state = want.state
  BY <1>3
<1>7. {<<e.edge, e.side, e.state>> : e \in ToSet(records)}
        = {<<e.edge, e.side, e.state>> : e \in expect.evaluations}
  BY <1>4, <1>5, <1>6 DEF OfSide
<1>8. ASSUME NEW i \in DOMAIN records, NEW j \in DOMAIN records, OfSide(records[i], records[j])
      PROVE  i = j
  <2>1. PICK want \in expect.evaluations : OfSide(records[j], want)
    BY <1>5
  <2>2. OfSide(records[i], want)
    BY <1>8, <2>1 DEF OfSide
  <2> QED BY <1>3, <2>1, <2>2
<1>9. ASSUME NEW want \in expect.evaluations, want.state = "dead"
      PROVE  \E e \in ToSet(records) : \E f \in e.finding :
               OfSide(e, want) /\ f.code = want.report /\ f.site \in want.site
  BY <1>3, <1>4, <1>9
<1> QED BY <1>7, <1>8, <1>9 DEF EvaluatesExactly

(* A run that does not differ failed as named, on its one class line. *)
LEMMA RunFailedExactly ==
  ASSUME NEW p, NEW want, IsList(first[p].lines), ~ SetupDiffers(want, first[p])
  PROVE  FailsExactly(p, want)
<1> DEFINE lines == first[p].lines
<1>1. first[p].exit = "failure" /\ first[p].findings = << >> /\ Cardinality(ClassLines(first[p])) = 1
  BY DEF SetupDiffers
<1>2. PICK i \in DOMAIN lines :
        lines[i].group = "setup" /\ lines[i].class = want.class /\ want.names \subseteq lines[i].names
  BY DEF SetupDiffers, ToSet
<1>3. i \in ClassLines(first[p])
  BY <1>2 DEF ClassLines, Unnamed
<1>4. ClassLines(first[p]) \in SUBSET DOMAIN lines
  BY DEF ClassLines
<1>5. ClassLines(first[p]) = {i}
  BY <1>1, <1>3, <1>4, Positions
<1> QED BY <1>1, <1>2, <1>5 DEF FailsExactly

LEMMA PassIsExactHolds == Inv => PassIsExact
<1> SUFFICES ASSUME Inv, NEW p \in Answered, result[p].result = "pass"
             PROVE  IF expect.setup = {} THEN ReportsExactly(p) /\ EvaluatesExactly(p)
                    ELSE \A want \in expect.setup : FailsExactly(p, want)
  BY DEF PassIsExact
<1>1. CASE expect.setup = {} /\ DecidedWell(p)
  BY <1>1, RowsReportExactly, EdgesEvaluateExactly DEF DecidedWell
<1>2. CASE \E want \in expect.setup : ~ SetupDiffers(want, first[p]) /\ first[p] \in scenario.analyses
  <2>1. PICK want \in expect.setup : ~ SetupDiffers(want, first[p])
    BY <1>2
  <2>2. \A other \in expect.setup : other = want
    BY FixturesResolve DEF Inv, Typed, expect
  <2>3. IsList(first[p].lines)
    BY <1>2, ListsAreLists DEF Inv, Typed, expect
  <2>4. FailsExactly(p, want)
    BY <2>1, <2>3, RunFailedExactly
  <2> QED BY <2>1, <2>2, <2>4
<1> QED BY <1>1, <1>2, NotFailed

-----------------------------------------------------------------------------
(* A pass is silenced: the row a finding is for has an entry in the ignore *)
(* file wherever a record can bind to it, and the second analysis held to  *)
(* it.                                                                     *)
LEMMA PassIsSilencedHolds == Inv => PassIsSilenced
<1> SUFFICES ASSUME Inv, NEW p \in Answered, result[p].result = "pass",
                    NEW f \in ToSet(first[p].findings),
                    f.shape # "row", f.code \notin {RootCode, StaleCode}
             PROVE  /\ second[p] # Absent
                    /\ <<f.site, f.code>> \notin second[p].findings
                    /\ <<f.code, f.ref, f.path>> \notin second[p].stale
  BY DEF PassIsSilenced
<1>1. CASE expect.setup = {} /\ DecidedWell(p)
  <2> DEFINE findings == first[p].findings
  <2>1. \A i \in Rows : DecideRow(i, p).result = "pass"
    BY <1>1 DEF DecidedWell
  <2>2. PICK i \in Rows : NamesFinding(expect.rows[i], f)
    BY <1>1 DEF DecidedWell, Comparisons, Unexpected, Told
  <2> DEFINE row == expect.rows[i]
  <2>3. /\ ~ IsConfigured(row) /\ ~ IsStale(row)
        /\ row.report = f.code /\ row.site = f.site /\ row.report \notin {None, StaleCode}
    BY <2>2 DEF NamesFinding, IsStale
  <2>4. /\ Matches(row, first[p])
        /\ SuppressionOf(i, p) \in {Absent, [suppressed |-> TRUE, stale |-> FALSE]}
    BY <2>1, DecidedRow
  <2>5. ReadFrom(row, first[p]) = findings /\ IsList(findings)
    BY <1>1, <2>3, DocumentsAreLists DEF ReadFrom, DecidedWell, Decided
  <2>6. PICK k \in DOMAIN findings : Candidates(row, first[p]) = {k}
    BY <2>3, <2>4, <2>5, OneRecordMatches
  <2>7. Candidates(row, first[p]) = FindingsAt(first[p], row.site)
    BY <2>3, <2>5 DEF Candidates, FindingsAt
  <2>8. f = findings[k]
    <3>1. PICK j \in DOMAIN findings : f = findings[j]
      BY DEF ToSet
    <3>2. j \in FindingsAt(first[p], row.site)
      BY <2>3, <3>1 DEF FindingsAt
    <3> QED BY <2>6, <2>7, <3>1, <3>2
  <2>9. FirstAt(row, first[p]) = f
    <3>1. {k} \subseteq Nat
      BY <2>5, Positions
    <3>2. Min({k}) = k
      BY <3>1, LeastIsAMember
    <3> QED BY <2>6, <2>7, <2>8, <3>2 DEF FirstAt
  <2>10. i \in Covered(first[p]) /\ EntryOf(row, first[p]) = <<f.code, f.ref, f.path>>
    BY <2>3, <2>6, <2>7, <2>9 DEF Covered, HasEntry, EntryOf
  <2>11. second[p] # Absent
    BY <1>1, <2>10 DEF DecidedWell, Decided, SecondToo
  <2> DEFINE phased == [suppressed |-> <<f.site, f.code>> \notin second[p].findings,
                        stale |-> <<f.code, f.ref, f.path>> \in second[p].stale]
  <2>12. SuppressionOf(i, p) = phased
    BY <2>3, <2>10, <2>11 DEF SuppressionOf
  <2>13. phased # Absent
    BY DEF Absent
  <2>14. phased.suppressed = TRUE /\ phased.stale = FALSE
    BY <2>4, <2>12, <2>13
  <2> QED BY <2>11, <2>14
<1>2. CASE \E want \in expect.setup : ~ SetupDiffers(want, first[p])
  <2>1. first[p].findings = << >>
    BY <1>2 DEF SetupDiffers
  <2>2. ToSet(<< >>) = {}
    BY DEF ToSet
  <2> QED BY <2>1, <2>2
<1> QED BY <1>1, <1>2, NotFailed

-----------------------------------------------------------------------------
(* The rows of a decided fixture, told by their symbols. *)
LEMMA RowsByName ==
  ASSUME Inv, NEW held, NEW p, held.expectations = [i \in Rows |-> DecideRow(i, p)]
  PROVE  /\ SymbolsOf(held) = {expect.rows[i].symbol : i \in Rows}
         /\ \A i \in Rows : RowNamed(held, expect.rows[i].symbol) = DecideRow(i, p)
<1>1. ToSet(held.expectations) = {DecideRow(i, p) : i \in Rows}
  BY DEF ToSet
<1>2. \A i \in Rows : DecideRow(i, p).symbol = expect.rows[i].symbol
  BY DecidedRow
<1>3. SymbolsOf(held) = {expect.rows[i].symbol : i \in Rows}
  BY <1>1, <1>2 DEF SymbolsOf
<1>4. ASSUME NEW i \in Rows
      PROVE  RowNamed(held, expect.rows[i].symbol) = DecideRow(i, p)
  <2>1. \A j \in Rows : expect.rows[j].symbol = expect.rows[i].symbol => j = i
    BY FixturesResolve DEF Inv, Typed, expect, Rows
  <2>2. \A row \in ToSet(held.expectations) :
          row.symbol = expect.rows[i].symbol <=> row = DecideRow(i, p)
    BY <1>1, <1>2, <2>1
  <2>3. DecideRow(i, p) \in ToSet(held.expectations)
    BY <1>1
  <2> QED BY <2>2, <2>3 DEF RowNamed
<1> QED BY <1>3, <1>4

(* What every answered fixture's rows are: none, or each as decided. *)
LEMMA RowsOfAnswer ==
  ASSUME Inv, NEW p \in Answered
  PROVE  \/ /\ result[p].expectations = << >>
            /\ result[p].result \in {"pass", "gap"} => expect.setup # {}
         \/ Decided(p) /\ result[p].expectations = [i \in Rows |-> DecideRow(i, p)]
<1>1. CASE result[p] = RowOf(Broken)
  BY <1>1, RowOfAnswer DEF Broken
<1>2. CASE Decided(p)
  <2> DEFINE answer == FixtureResult(p)
  <2>1. answer = [expectations |-> [i \in Rows |-> DecideRow(i, p)], result |-> answer.result]
    BY DecidedFixture
  <2>2. result[p] = RowOf(answer)
    BY <1>2 DEF Decided
  <2> HIDE DEF answer
  <2> QED BY <1>2, <2>1, <2>2, RowOfAnswer
<1>3. CASE RanToFail(p)
  <2>1. PICK want \in expect.setup : result[p] = RowOf(SetupResult(want, p, first[p]))
    BY <1>3 DEF RanToFail
  <2> DEFINE value == SetupResult(want, p, first[p]).result
  <2>2. SetupResult(want, p, first[p]) = [expectations |-> << >>, result |-> value]
    BY DEF SetupResult
  <2> HIDE DEF value
  <2>3. RowOf([expectations |-> << >>, result |-> value]).expectations = << >>
    BY RowOfAnswer
  <2> QED BY <2>1, <2>2, <2>3
<1> QED BY <1>1, <1>2, <1>3 DEF Inv, EachByRule

(* A gap that excuses a row is one that was declared for it. *)
LEMMA CoveringIsDeclared ==
  ASSUME NEW list, IsList(list), NEW row, Covering(list, row) # None
  PROVE  Covering(list, row) \in DeclaredCapabilities(list, row)
<1> DEFINE covering == {i \in DOMAIN list : Covers(list[i], row)}
<1>1. covering # {} /\ Covering(list, row) = list[Min(covering)].capability
  BY DEF Covering
<1>2. covering \subseteq Nat
  BY Positions
<1>3. Min(covering) \in covering
  <2> HIDE DEF covering
  <2> QED BY <1>1, <1>2, LeastIsAMember
<1> QED BY <1>1, <1>3 DEF Covers, DeclaredCapabilities, ToSet

LEMMA NoneUnanswered ==
  ASSUME Inv, NEW p \in Answered, result[p].expectations = [i \in Rows |-> DecideRow(i, p)]
  PROVE  Unanswered(p) = {}
<1> SUFFICES ASSUME NEW row \in ToSet(expect.rows), row \in Unanswered(p) PROVE FALSE
  BY DEF Unanswered
<1>1. PICK i \in Rows : row = expect.rows[i]
  BY DEF Rows, ToSet
<1>2. /\ row.symbol \in SymbolsOf(result[p])
      /\ RowNamed(result[p], row.symbol) = DecideRow(i, p)
  BY <1>1, RowsByName
<1>3. /\ DecideRow(i, p).result = "gap"
      /\ DecideRow(i, p).capability \notin DeclaredCapabilities(gaps[p], row)
  BY <1>2 DEF Unanswered
<1>4. /\ Covering(gaps[p], row) # None
      /\ Covering(gaps[p], row) \notin DeclaredCapabilities(gaps[p], row)
  BY <1>1, <1>3, DecidedRow
<1>5. IsList(gaps[p])
  BY ListsAreLists DEF Inv, Typed, Answered
<1> QED BY <1>4, <1>5, CoveringIsDeclared

LEMMA NeverASilenceHolds == Inv => NeverASilence
<1> SUFFICES ASSUME Inv, NEW p \in Answered
             PROVE  /\ Unanswered(p) # {} => result[p].result \in {"fail", "pending"}
                    /\ result[p].expectations # << >> => Unanswered(p) = {}
  BY DEF NeverASilence
<1>1. CASE result[p].expectations = [i \in Rows |-> DecideRow(i, p)]
  BY <1>1, NoneUnanswered
<1>2. CASE /\ result[p].expectations = << >>
           /\ result[p].result \in {"pass", "gap"} => expect.setup # {}
  <2>1. result[p].result \in {"pass", "gap", "fail", "pending"}
    BY ResultValues
  <2>2. expect.setup # {} => Unanswered(p) = {}
    <3>1. expect.setup # {} => expect.rows = << >>
      BY FixturesResolve DEF Inv, Typed, expect
    <3>2. ToSet(<< >>) = {}
      BY DEF ToSet
    <3> QED BY <3>1, <3>2 DEF Unanswered
  <2> QED BY <1>2, <2>1, <2>2
<1> QED BY <1>1, <1>2, RowsOfAnswer

-----------------------------------------------------------------------------
(* Two rows that match have the finding the row names, and so the same.    *)
LEMMA MatchingAnswers ==
  ASSUME NEW row, NEW report, IsList(ReadFrom(row, report)), Matches(row, report)
  PROVE  LET actual == Actual(row, report)
         IN  /\ actual.report = row.report
             /\ actual.confidence = IF row.report = None THEN None ELSE row.confidence
<1>1. CASE row.report = None
  <2>1. Candidates(row, report) = {}
    BY <1>1 DEF Matches
  <2> QED BY <1>1, <2>1 DEF Actual
<1>2. CASE row.report # None
  <2> DEFINE list == ReadFrom(row, report)
  <2>1. PICK i \in DOMAIN list :
          /\ Candidates(row, report) = {i}
          /\ list[i].code = row.report /\ list[i].confidence = row.confidence
    BY <1>2, OneRecordMatches
  <2>2. {i} \subseteq Nat
    BY Positions
  <2>3. Min({i}) = i
    BY <2>2, LeastIsAMember
  <2> QED BY <1>2, <2>1, <2>3 DEF Actual
<1> QED BY <1>1, <1>2

LEMMA PassingRowsAgreeHolds == Inv => PassingRowsAgree
<1> SUFFICES ASSUME Inv, agreement # Absent, NEW divergence \in agreement.divergences,
                    divergence[2] \in {"report", "confidence"},
                    \A p \in Product : RowNamed(result[p], divergence[1]).result # "fail"
             PROVE  FALSE
  BY DEF PassingRowsAgree
<1>1. PICK a, b \in Answered : agreement = Agree(result[a], result[b])
  BY DEF Inv, ComparedAnswers
<1>2. PICK s \in BothAnswered(result[a], result[b]) :
        /\ ~ Excluded(result[a], result[b], s)
        /\ divergence \in {<<s, f>> : f \in Fields(RowNamed(result[a], s), RowNamed(result[b], s))}
  BY <1>1 DEF Agree
<1>3. /\ divergence[1] = s
      /\ divergence[2] \in Fields(RowNamed(result[a], s), RowNamed(result[b], s))
  BY <1>2
<1>4. ASSUME NEW p \in {a, b}
      PROVE  Decided(p) /\ result[p].expectations = [i \in Rows |-> DecideRow(i, p)]
  <2>1. s \in SymbolsOf(result[p])
    BY <1>2, <1>4 DEF BothAnswered
  <2>2. result[p].expectations # << >>
    BY <2>1 DEF SymbolsOf, ToSet
  <2> QED BY <1>4, <2>2, RowsOfAnswer
<1>5. PICK i \in Rows : s = expect.rows[i].symbol
  BY <1>2, <1>4, RowsByName DEF BothAnswered
<1> DEFINE row == expect.rows[i]
<1>6. \A p \in {a, b} : RowNamed(result[p], s) = DecideRow(i, p)
  BY <1>4, <1>5, RowsByName
<1>7. ASSUME NEW p \in {a, b}
      PROVE  /\ DecideRow(i, p).actual.report = row.report
             /\ DecideRow(i, p).actual.confidence
                  = IF row.report = None THEN None ELSE row.confidence
  <2>1. p \in Product
    BY <1>7 DEF Answered
  <2>2. DecideRow(i, p).result \notin {"fail", "gap"}
    BY <1>2, <1>3, <1>6, <2>1 DEF Excluded
  <2>3. Matches(row, first[p]) /\ DecideRow(i, p).actual = Actual(row, first[p])
    BY <2>2, DecidedRow
  <2>4. IsList(ReadFrom(row, first[p]))
    BY <1>4, ReadFromIsAList DEF Decided
  <2> QED BY <2>3, <2>4, MatchingAnswers
<1>8. Fields(DecideRow(i, a), DecideRow(i, b)) \subseteq {"suppression"}
  BY <1>7 DEF Fields
<1> QED BY <1>3, <1>6, <1>8

-----------------------------------------------------------------------------
(* A right answer passes: no comparison finds a difference in it, each row *)
(* matches its one record, and no entry written for it repeats another.    *)

LEMMA RightEdges ==
  ASSUME NEW p, IsList(first[p].evaluations), EvaluatesExactly(p)
  PROVE  ~ EdgesDiffer(expect, first[p])
<1> DEFINE records == first[p].evaluations
<1>1. ToSet(records) = {records[i] : i \in DOMAIN records}
  BY DEF ToSet
<1>2. ASSUME NEW want \in expect.evaluations
      PROVE  ~ EvaluationDiffers(want, first[p])
  <2>1. <<want.edge, want.side, want.state>> \in {<<e.edge, e.side, e.state>> : e \in ToSet(records)}
    BY DEF EvaluatesExactly
  <2>2. PICK i \in DOMAIN records : OfSide(records[i], want) /\ records[i].state = want.state
    BY <1>1, <2>1 DEF OfSide
  <2>3. \A j \in DOMAIN records : OfSide(records[j], want) => j = i
    BY <2>2 DEF EvaluatesExactly, OfSide
  <2>4. {j \in DOMAIN records : OfSide(records[j], want)} = {i}
    BY <2>2, <2>3
  <2>5. want.state = "dead" =>
          \E f \in records[i].finding : f.code = want.report /\ f.site \in want.site
    BY <1>1, <2>3 DEF EvaluatesExactly
  <2>6. Cardinality({i}) = 1
    BY FS_Singleton
  <2> QED BY <2>2, <2>4, <2>5, <2>6 DEF EvaluationDiffers
<1>3. ASSUME NEW one \in ToSet(records)
      PROVE  \E want \in expect.evaluations : OfSide(one, want)
  <2>1. <<one.edge, one.side, one.state>> \in {<<e.edge, e.side, e.state>> : e \in expect.evaluations}
    BY DEF EvaluatesExactly
  <2> QED BY <2>1 DEF OfSide
<1> QED BY <1>2, <1>3 DEF EdgesDiffer

LEMMA RightFacts ==
  ASSUME NEW p, FactsAsNamed(p), \A doc \in first[p].facts : IsList(doc.bindings)
  PROVE  ~ FactsDiffer(expect, scenario.language, first[p])
<1> SUFFICES ASSUME NEW doc \in first[p].facts
             PROVE  /\ ~ GeneratedDiffers(expect, doc)
                    /\ \A want \in expect.facts :
                         AppliesTo(want, scenario.language) => ~ FactDiffers(want, doc)
  BY DEF FactsDiffer
<1>1. ~ GeneratedDiffers(expect, doc)
  BY DEF FactsAsNamed, GeneratedDiffers
<1>2. ASSUME NEW want \in expect.facts, AppliesTo(want, scenario.language)
      PROVE  ~ FactDiffers(want, doc)
  <2> DEFINE records == RecordsOf(doc, want)
  <2>1. /\ Cardinality(records) = IF want.absent THEN 0 ELSE 1
        /\ \A i \in records :
             /\ doc.bindings[i].members = want.members
             /\ want.generated # Unnamed => doc.bindings[i].generated = want.generated
             /\ want.generated = Unnamed =>
                  doc.bindings[i].generated =
                    IF want.role \in {"consumer", "fallback"} THEN want.file ELSE Unnamed
             /\ \A code \in want.report :
                  [code |-> code, site |-> want.site] \in doc.bindings[i].finding
    BY <1>2 DEF FactsAsNamed, RecordsOf, AppliesTo
  <2>2. records \in SUBSET DOMAIN doc.bindings
    BY DEF RecordsOf
  <2>3. Cardinality(records) = 0 => records = {}
    <3> HIDE DEF records
    <3> QED BY <2>2, Positions
  <2>4. \A i \in records : doc.bindings[i].generated = WantGenerated(want)
    BY <2>1 DEF WantGenerated
  <2> QED BY <2>1, <2>3, <2>4 DEF FactDiffers
<1> QED BY <1>1, <1>2

LEMMA RightNotes ==
  ASSUME NEW p, ToSet(first[p].notes) = expect.notes, IsInjective(first[p].notes)
  PROVE  ~ NotesDiffer(first[p])
<1> DEFINE notes == first[p].notes
<1>1. ASSUME NEW kind \in expect.notes
      PROVE  Cardinality({i \in DOMAIN notes : notes[i] = kind}) = 1
  <2>1. PICK i \in DOMAIN notes : notes[i] = kind
    BY DEF ToSet
  <2>2. {j \in DOMAIN notes : notes[j] = kind} = {i}
    BY <2>1 DEF IsInjective
  <2> QED BY <2>2, FS_Singleton
<1> QED BY <1>1 DEF NotesDiffer

LEMMA RightRow ==
  ASSUME Inv, NEW p, FirstIsRight(p), NEW i \in Rows
  PROVE  Matches(expect.rows[i], first[p])
<1> DEFINE row == expect.rows[i]
           list == ReadFrom(row, first[p])
<1>1. row \in ToSet(expect.rows)
  BY DEF Rows, ToSet
<1>2. \A j \in DOMAIN list : list[j] \in Told(p)
  BY DEF ReadFrom, Told, ToSet
<1>3. ASSUME NEW j \in DOMAIN list, ~ IsConfigured(row), list[j].site = row.site
      PROVE  IsFor(list[j], row) /\ row.report # None
  <2>1. PICK other \in Reporting : IsFor(list[j], other)
    BY <1>2 DEF FirstIsRight, ReportsExactly
  <2>2. list[j].code # RootCode
    BY <1>1, <1>2, <1>3 DEF FirstIsRight
  <2>3. ~ IsConfigured(other) /\ other.site = row.site
    BY <1>3, <2>1, <2>2 DEF IsFor
  <2>4. PICK k \in Rows : other = expect.rows[k]
    BY DEF Reporting, Rows, ToSet
  <2>5. k = i
    BY <1>3, <2>3, <2>4, FixturesResolve DEF Inv, Typed, expect, Rows, IsConfigured
  <2> QED BY <2>1, <2>4, <2>5 DEF Reporting
<1>4. CASE row.report = None
  <2>1. Candidates(row, first[p]) = {}
    BY <1>1, <1>2, <1>3, <1>4 DEF Candidates, FirstIsRight
  <2>2. IsConfigured(row) \/ row.retained \in {{}, ClassesAt(row, first[p])}
    BY <1>1 DEF FirstIsRight, ClassesAt
  <2> QED BY <1>4, <2>1, <2>2 DEF Matches
<1>5. CASE row.report # None
  <2>1. row \in Reporting
    BY <1>1, <1>5 DEF Reporting
  <2>2. PICK k \in DOMAIN list :
          /\ list[k].confidence = row.confidence
          /\ {j \in DOMAIN list : IsFor(list[j], row)} = {k}
    BY <2>1 DEF FirstIsRight, ReportsExactly
  <2>3. IsFor(list[k], row)
    BY <2>2
  <2>4. Candidates(row, first[p]) = {k}
    <3>1. \A j \in DOMAIN list :
            IsFor(list[j], row) <=>
              IF IsConfigured(row) THEN list[j].code = RootCode /\ list[j].ref = row.entry
              ELSE list[j].site = row.site
      BY <1>3, <2>3 DEF IsFor
    <3> QED BY <2>2, <3>1 DEF Candidates
  <2>5. list[k].code = row.report
    BY <2>3 DEF IsFor
  <2>6. Differences(row, list[k]) = {}
    BY <2>2, <2>5 DEF Differences
  <2> QED BY <1>5, <2>4, <2>6, FS_Singleton DEF Matches
<1> QED BY <1>4, <1>5

(* No entry of the ignore file repeats an earlier one, and so a second     *)
(* analysis that answers right finds none of them stale.                   *)
LEMMA NoEntryRepeats ==
  ASSUME NEW report, NEW j \in IgnoreEntries(report)
  PROVE  ~ Repeats(j, IgnoreEntries(report), report)
BY DEF IgnoreEntries, Repeats

LEMMA RightSuppression ==
  ASSUME NEW p, SecondIsRight(p), NEW i
  PROVE  SuppressionOf(i, p) \in {Absent, [suppressed |-> TRUE, stale |-> FALSE]}
<1> SUFFICES ASSUME second[p] # Absent, i \in Covered(first[p])
             PROVE  SuppressionOf(i, p) = [suppressed |-> TRUE, stale |-> FALSE]
  BY DEF SuppressionOf
<1>1. second[p].findings = {} /\ second[p].stale = {}
  BY NoEntryRepeats DEF SecondIsRight
<1> DEFINE entry == EntryOf(expect.rows[i], first[p])
           phased == [suppressed |-> <<expect.rows[i].site, entry[1]>> \notin second[p].findings,
                      stale |-> entry \in second[p].stale]
<1>2. SuppressionOf(i, p) = phased
  BY DEF SuppressionOf
<1>3. /\ (<<expect.rows[i].site, entry[1]>> \notin second[p].findings) = TRUE
      /\ (entry \in second[p].stale) = FALSE
  BY <1>1
<1> QED BY <1>2, <1>3

LEMMA RightAnswerPassesHolds == Inv => RightAnswerPasses
<1> SUFFICES ASSUME Inv, NEW p \in Answered, gaps[p] = << >>, ~ expect.pending, result[p] # Broken,
                    IF expect.setup = {} THEN FirstIsRight(p) /\ SecondIsRight(p)
                    ELSE \A want \in expect.setup : FailsExactly(p, want)
             PROVE  result[p].result = "pass"
  BY DEF RightAnswerPasses
<1>1. \A answer : RowOf(answer) = answer
  BY DEF RowOf
<1>2. CASE Decided(p)
  <2>1. expect.setup = {} /\ FirstIsRight(p) /\ SecondIsRight(p)
    BY <1>2 DEF Decided, Reported
  <2>2. \A capability : ~ CoversFixture(<< >>, capability)
    BY DEF CoversFixture, ToSet
  <2>3. ~ RowsDeclined(gaps[p])
    BY <2>2 DEF RowsDeclined
  <2>4. Unexpected(first[p]) = {}
    <3> SUFFICES ASSUME NEW f \in Told(p)
                 PROVE  \E i \in Rows : NamesFinding(expect.rows[i], f)
      BY DEF Unexpected, Told
    <3>1. PICK row \in Reporting : IsFor(f, row)
      BY <2>1 DEF FirstIsRight, ReportsExactly
    <3>2. PICK i \in Rows : row = expect.rows[i]
      BY DEF Reporting, Rows, ToSet
    <3>3. f.code = RootCode => f.site # row.site
      BY <2>1 DEF FirstIsRight, Reporting
    <3> QED BY <3>1, <3>2, <3>3 DEF NamesFinding, IsFor, Reporting
  <2>5. ~ SkipsDiffer(gaps[p], first[p]) /\ ~ ConventionsDiffer(gaps[p], first[p])
    BY <2>1 DEF FirstIsRight, SkipsDiffer, ConventionsDiffer
  <2>6. ~ NotesDiffer(first[p])
    BY <2>1, RightNotes DEF FirstIsRight
  <2>7. ~ OthersDiffer(first[p])
    <3>1. ~ EdgesDiffer(expect, first[p])
      BY <1>2, <2>1, DocumentsAreLists, RightEdges DEF Decided, FirstIsRight
    <3>2. ~ FactsDiffer(expect, scenario.language, first[p])
      BY <1>2, <2>1, DocumentsAreLists, RightFacts DEF Decided, FirstIsRight
    <3>3. ~ NotBuiltDiffers(expect, first[p]) /\ ~ InEffectDiffers(expect, first[p])
      BY <2>1 DEF FirstIsRight, NotBuiltDiffers, InEffectDiffers
    <3> QED BY <3>1, <3>2, <3>3 DEF OthersDiffer
  <2>8. \A i \in Rows : DecideRow(i, p).result = "pass"
    <3> SUFFICES ASSUME NEW i \in Rows PROVE DecideRow(i, p).result = "pass"
      OBVIOUS
    <3>1. Covering(gaps[p], expect.rows[i]) = None
      BY DEF Covering
    <3>2. Matches(expect.rows[i], first[p])
      BY <2>1, RightRow
    <3>3. SuppressionOf(i, p) \in {Absent, [suppressed |-> TRUE, stale |-> FALSE]}
      BY <2>1, RightSuppression
    <3> QED BY <3>1, <3>2, <3>3, DecidedRow
  <2>9. FixtureResult(p).result = "pass"
    BY <2>3, <2>4, <2>5, <2>6, <2>7, <2>8, DecidedFixture DEF Comparisons
  <2> QED BY <1>1, <1>2, <2>9 DEF Decided
<1>3. CASE RanToFail(p)
  <2>1. PICK want \in expect.setup : result[p] = SetupResult(want, p, first[p])
    BY <1>1, <1>3 DEF RanToFail
  <2>2. FailsExactly(p, want)
    BY <2>1
  <2>3. ~ SetupDiffers(want, first[p])
    <3>1. PICK i \in DOMAIN first[p].lines :
            /\ ClassLines(first[p]) = {i}
            /\ first[p].lines[i].group = "setup" /\ first[p].lines[i].class = want.class
            /\ want.names \subseteq first[p].lines[i].names
      BY <2>2 DEF FailsExactly
    <3>2. Cardinality(ClassLines(first[p])) = 1
      BY <3>1, FS_Singleton
    <3>3. first[p].lines[i] \in ToSet(first[p].lines)
      BY <3>1 DEF ToSet
    <3>4. first[p].exit = "failure" /\ first[p].findings = << >>
      BY <2>2 DEF FailsExactly
    <3> QED BY <3>1, <3>2, <3>3, <3>4 DEF SetupDiffers
  <2> QED BY <2>1, <2>3 DEF SetupResult
<1> QED BY <1>1, <1>2, <1>3 DEF Inv, EachByRule

-----------------------------------------------------------------------------
(* A fixture passes only when its analysis reported exactly what its rows  *)
(* name and evaluated exactly the sides it names, or failed as it names.   *)
THEOREM PassesAreExact == Spec => []PassIsExact
BY RowsComeByTheRule, PassIsExactHolds, PTL

(* A declared gap takes rows out of a fixture's result and never a finding *)
(* out of its closed world: one that does not fail names all it was told.  *)
THEOREM WorldStaysClosed == Spec => []ClosedWorld
BY RowsComeByTheRule, ClosedWorldHolds, PTL

(* A pass means the suppressions work: each finding a record can bind to   *)
(* had its entry written, is gone from the second analysis, and its entry  *)
(* is not stale there.                                                     *)
THEOREM PassesAreSilenced == Spec => []PassIsSilenced
BY RowsComeByTheRule, PassIsSilencedHolds, PTL

(* Nothing the corpus expects goes unanswered without a declared gap in a  *)
(* fixture that is not reported failed or pending, and the run writes no   *)
(* row excused by a gap that was not declared.                             *)
THEOREM NothingIsSilent == Spec => []NeverASilence
BY RowsComeByTheRule, NeverASilenceHolds, PTL

(* A divergence of two products about a finding has a failed row behind    *)
(* it: those that pass, or are left out of the comparison, never cause one.*)
THEOREM PassingProductsAgree == Spec => []PassingRowsAgree
BY RowsComeByTheRule, PassingRowsAgreeHolds, PTL

(* A product that answers as the fixture names, and needs no gap, is not   *)
(* failed by the entries the runner itself writes, nor by any comparison.  *)
THEOREM RightAnswersPass == Spec => []RightAnswerPasses
BY RowsComeByTheRule, RightAnswerPassesHolds, PTL
=============================================================================
