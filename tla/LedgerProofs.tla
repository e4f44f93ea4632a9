---------------------------- MODULE LedgerProofs ----------------------------
(***************************************************************************)
(* For every run: the ledger withholds what the suppressions' words name,  *)
(* each finding for the first that names it, takes no claim or verdict     *)
(* back, reports stale exactly the suppressions that name nothing first,   *)
(* which can be deleted without changing what is withheld, and the row     *)
(* recorded for a finding reads back as a row that names it.               *)
(***************************************************************************)
EXTENDS Ledger, FiniteSetTheorems, SequenceTheorems, WellFoundedInduction, TLAPS

(* The verdicts are those of the records before the cursor. *)
Progress ==
  /\ phase \in {"binding", "malformed"} => verdicts = << >>
  /\ phase = "deciding" => cursor = Len(verdicts) + 1 /\ Len(verdicts) <= Len(records)
  /\ phase = "decided" => Len(verdicts) = Len(records)

(* A record that claimed a finding is not stale. *)
ClaimantsStand == \A f \in Found : claims[f] # 0 => verdicts[claims[f]] # "stale"

Inv == TypeOK /\ Progress /\ FirstNamerClaims /\ ClaimantsStand

-----------------------------------------------------------------------------
(* Lists. *)
LEMMA ListDomain ==
  ASSUME NEW s, s \in Seq(ToSet(s))
  PROVE  Len(s) \in Nat /\ DOMAIN s = 1 .. Len(s)
BY LenProperties

LEMMA ListElements ==
  ASSUME NEW s, NEW S, s \in Seq(S)
  PROVE  s \in Seq(ToSet(s))
<1>1. Len(s) \in Nat /\ DOMAIN s = 1 .. Len(s) /\ s \in [1 .. Len(s) -> S]
  BY LenProperties
<1>2. s \in [1 .. Len(s) -> ToSet(s)]
  BY <1>1 DEF ToSet
<1> QED
  BY <1>1, <1>2, SeqDef

LEMMA ListConcat ==
  ASSUME NEW s, NEW t, s \in Seq(ToSet(s)), t \in Seq(ToSet(t))
  PROVE  (s \o t) \in Seq(ToSet(s \o t))
<1> DEFINE S == ToSet(s) \union ToSet(t)
<1>1. s \in Seq(S) /\ t \in Seq(S)
  <2>1. /\ Len(s) \in Nat /\ s \in [1 .. Len(s) -> ToSet(s)]
        /\ Len(t) \in Nat /\ t \in [1 .. Len(t) -> ToSet(t)]
    BY LenProperties
  <2>2. s \in [1 .. Len(s) -> S] /\ t \in [1 .. Len(t) -> S]
    BY <2>1
  <2> QED
    BY <2>1, <2>2, SeqDef
<1> HIDE DEF S
<1>2. (s \o t) \in Seq(S)
  BY <1>1, ConcatProperties
<1> QED
  BY <1>2, ListElements

-----------------------------------------------------------------------------
(* What a suppression resolves to is a list of records. *)
LEMMA RecordsAreAList ==
  ASSUME TypeOK, NEW k \in DOMAIN written
  PROVE  RecordsWritten(k) \in Seq(ToSet(RecordsWritten(k)))
<1>1. written[k] \in world.candidates
  <2>1. written \in [1 .. Len(written) -> world.candidates]
    BY LenProperties DEF TypeOK
  <2> QED
    BY <2>1
<1>2. BoundTo(world.decls, written[k]) \in Seq(ToSet(world.decls.order))
  BY <1>1, LookupAnswersDeclarations DEF TypeOK
<1>3. ASSUME NEW x PROVE <<x>> \in Seq(ToSet(<<x>>))
  <2>1. <<x>> \in Seq({x})
    OBVIOUS
  <2> QED
    BY <2>1, ListElements
<1>4. RecordsOf(world.decls, written[k], SiteOf(k))
        \in Seq(ToSet(RecordsOf(world.decls, written[k], SiteOf(k))))
  <2> DEFINE bound == BoundTo(world.decls, written[k])
             one == [code |-> written[k].code, symbol |-> written[k].symbol, path |-> written[k].path,
                     bound |-> None, mechanism |-> written[k].mechanism, site |-> SiteOf(k),
                     file |-> None]
             each == [i \in DOMAIN bound |-> [one EXCEPT !.bound = bound[i]]]
  <2>1. RecordsOf(world.decls, written[k], SiteOf(k)) = IF bound = << >> THEN <<one>> ELSE each
    BY DEF RecordsOf
  <2>2. Len(bound) \in Nat /\ DOMAIN bound = 1 .. Len(bound)
    BY <1>2, LenProperties
  <2> HIDE DEF one
  <2>3. each \in Seq(ToSet(each))
    <3>1. each \in [1 .. Len(bound) -> {[one EXCEPT !.bound = bound[i]] : i \in DOMAIN bound}]
      BY <2>2
    <3>2. each \in Seq({[one EXCEPT !.bound = bound[i]] : i \in DOMAIN bound})
      BY <2>2, <3>1, SeqDef
    <3> HIDE DEF each
    <3> QED
      BY <3>2, ListElements
  <2> HIDE DEF bound, each
  <2> QED
    BY <1>3, <2>1, <2>3
<1> QED
  BY <1>3, <1>4 DEF RecordsWritten

-----------------------------------------------------------------------------
LEMMA TypeInit == Init => TypeOK
<1> SUFFICES ASSUME Init PROVE TypeOK
  OBVIOUS
<1>1. written \in Seq(world.candidates)
  <2>1. written \in BoundedSeq(world.candidates, MaxWritten(world))
    BY DEF Init
  <2>2. PICK m \in 0 .. MaxWritten(world) : written \in [1 .. m -> world.candidates]
    BY <2>1 DEF BoundedSeq, SeqOf
  <2> QED
    BY <2>2, SeqDef
<1>2. << >> \in Seq(ToSet(<< >>)) /\ Len(<< >>) = 0
  OBVIOUS
<1>3. claims \in [Found -> 0 .. Len(verdicts)]
  BY <1>2 DEF Init
<1>4. verdicts \in Seq({"in-effect", "dormant", "stale"})
  BY DEF Init
<1>5. world \in Worlds /\ phase = "binding" /\ cursor = 1 /\ refusals = {} /\ records = << >>
  BY DEF Init
<1> QED
  BY <1>1, <1>2, <1>3, <1>4, <1>5 DEF TypeOK

(* The findings are the run's, which no step changes. *)
LEMMA FoundStays == [Next]_vars => world' = world /\ written' = written /\ Found' = Found
BY DEF Next, RefuseMalformed, SkipOther, Refuse, Bind, StartDeciding, DecideNext, Decided, Found, vars

LEMMA DecideNextTypes ==
  ASSUME TypeOK, Progress, DecideNext
  PROVE  /\ verdicts' \in Seq({"in-effect", "dormant", "stale"})
         /\ Len(verdicts') = cursor /\ cursor = Len(verdicts) + 1
         /\ verdicts' = Append(verdicts, Verdict(records[cursor], ClaimedBy(records[cursor])))
         /\ claims' = [f \in Found |-> IF f \in ClaimedBy(records[cursor]) THEN cursor ELSE claims[f]]
<1> DEFINE verdict == Verdict(records[cursor], ClaimedBy(records[cursor]))
<1>1. verdict \in {"in-effect", "dormant", "stale"}
  BY DEF Verdict
<1>2. /\ verdicts' = Append(verdicts, verdict)
      /\ claims' = [f \in Found |-> IF f \in ClaimedBy(records[cursor]) THEN cursor ELSE claims[f]]
      /\ cursor = Len(verdicts) + 1
  BY DEF DecideNext, Progress
<1>3. verdicts \in Seq({"in-effect", "dormant", "stale"})
  BY DEF TypeOK
<1> HIDE DEF verdict
<1>4. verdicts' \in Seq({"in-effect", "dormant", "stale"}) /\ Len(verdicts') = Len(verdicts) + 1
  BY <1>1, <1>2, <1>3, AppendProperties
<1> QED
  BY <1>2, <1>4 DEF verdict

LEMMA TypeStep == TypeOK /\ Progress /\ [Next]_vars => TypeOK'
<1> SUFFICES ASSUME TypeOK, Progress, [Next]_vars PROVE TypeOK'
  OBVIOUS
<1>0. cursor \in Nat \ {0} /\ Len(verdicts) \in Nat
  BY LenProperties DEF TypeOK
<1>1. world' = world /\ written' = written /\ Found' = Found
  BY FoundStays
<1>2. phase' \in {"binding", "deciding", "decided", "malformed"} /\ cursor' \in Nat \ {0}
  BY <1>0 DEF TypeOK, Next, RefuseMalformed, SkipOther, Refuse, Bind, StartDeciding, DecideNext,
              Decided, vars
<1>3. records' \in Seq(ToSet(records'))
  <2>1. CASE Bind
    <3>1. Len(written) \in Nat /\ DOMAIN written = 1 .. Len(written)
      BY LenProperties DEF TypeOK
    <3>2. cursor \in DOMAIN written
      BY <1>0, <2>1, <3>1 DEF Bind, Reading
    <3>3. RecordsWritten(cursor) \in Seq(ToSet(RecordsWritten(cursor)))
      BY <3>2, RecordsAreAList
    <3>4. records' = records \o RecordsWritten(cursor)
      BY <2>1 DEF Bind
    <3> QED
      BY <3>3, <3>4, ListConcat DEF TypeOK
  <2>2. CASE RefuseMalformed
    <3>1. records' = << >>
      BY <2>2 DEF RefuseMalformed
    <3>2. << >> \in Seq(ToSet(<< >>))
      OBVIOUS
    <3> QED
      BY <3>1, <3>2
  <2>3. ASSUME ~ Bind, ~ RefuseMalformed PROVE records' = records
    BY <2>3 DEF Next, SkipOther, Refuse, StartDeciding, DecideNext, Decided, vars
  <2> QED
    BY <2>1, <2>2, <2>3 DEF TypeOK
<1>4. refusals' \in SUBSET (Nat \X {"suppression-without-reason", "unscoped-ignore-entry"})
  <2>1. CASE Refuse
    <3>1. RefusalsOf(written[cursor]) \subseteq {"suppression-without-reason", "unscoped-ignore-entry"}
      BY DEF RefusalsOf
    <3> QED
      BY <1>0, <2>1, <3>1 DEF Refuse, TypeOK
  <2>2. ASSUME ~ Refuse PROVE refusals' \in {refusals, {}}
    BY <2>2 DEF Next, RefuseMalformed, SkipOther, Bind, StartDeciding, DecideNext, Decided, vars
  <2> QED
    BY <2>1, <2>2 DEF TypeOK
<1>5. /\ claims' \in [Found' -> 0 .. Len(verdicts')]
      /\ verdicts' \in Seq({"in-effect", "dormant", "stale"})
  <2>1. CASE DecideNext
    BY <1>0, <1>1, <2>1, DecideNextTypes DEF TypeOK
  <2>2. ASSUME ~ DecideNext PROVE claims' = claims /\ verdicts' = verdicts
    BY <2>2 DEF Next, RefuseMalformed, SkipOther, Refuse, Bind, StartDeciding, Decided, vars
  <2> QED
    BY <1>1, <2>1, <2>2 DEF TypeOK
<1> QED
  BY <1>1, <1>2, <1>3, <1>4, <1>5 DEF TypeOK

LEMMA ProgressStep == TypeOK /\ Progress /\ [Next]_vars => Progress'
<1> SUFFICES ASSUME TypeOK, Progress, [Next]_vars PROVE Progress'
  OBVIOUS
<1>0. cursor \in Nat \ {0} /\ Len(verdicts) \in Nat /\ Len(records) \in Nat
  BY LenProperties DEF TypeOK
<1>1. CASE DecideNext
  BY <1>0, <1>1, DecideNextTypes DEF DecideNext, Progress
<1>2. CASE StartDeciding
  <2>1. verdicts' = << >> /\ records' = records /\ phase' = "deciding" /\ cursor' = 1
    BY <1>2 DEF StartDeciding, Progress
  <2>2. Len(<< >>) = 0
    OBVIOUS
  <2> QED
    BY <1>0, <2>1, <2>2 DEF Progress
<1>3. CASE Decided
  BY <1>0, <1>3 DEF Decided, Progress
<1>4. CASE RefuseMalformed \/ SkipOther \/ Refuse \/ Bind
  BY <1>4 DEF RefuseMalformed, SkipOther, Refuse, Bind, Reading, Progress
<1>5. CASE UNCHANGED vars
  BY <1>5 DEF vars, Progress
<1> QED
  BY <1>1, <1>2, <1>3, <1>4, <1>5 DEF Next

-----------------------------------------------------------------------------
(* The records decided that name a finding. *)
Namers(f) == {i \in 1 .. Len(verdicts) : NamesHere(records[i], f)}

LEMMA NamesStay ==
  ASSUME records' = records, NEW i, NEW f
  PROVE  NamesHere(records[i], f)' <=> NamesHere(records[i], f)
BY DEF NamesHere

LEMMA Initially == Init => Inv
<1> SUFFICES ASSUME Init PROVE Inv
  OBVIOUS
<1>1. phase = "binding" /\ verdicts = << >> /\ Len(<< >>) = 0
  BY DEF Init
<1>2. \A f \in Found : claims[f] = 0
  BY DEF Init
<1>3. FirstNamerClaims
  BY <1>1, <1>2 DEF FirstNamerClaims
<1>4. Progress /\ ClaimantsStand
  BY <1>1, <1>2 DEF Progress, ClaimantsStand
<1> QED
  BY <1>3, <1>4, TypeInit DEF Inv

(* Where no record is decided there is no claim, and the records may       *)
(* change.                                                                 *)
LEMMA NothingClaimed ==
  ASSUME FirstNamerClaims, TypeOK, verdicts = << >>
  PROVE  \A f \in Found : claims[f] = 0
<1>1. Len(verdicts) = 0 /\ 1 .. 0 = {}
  OBVIOUS
<1> QED
  BY <1>1 DEF FirstNamerClaims

LEMMA FirstNamerStep == Inv /\ [Next]_vars => FirstNamerClaims'
<1> SUFFICES ASSUME Inv, [Next]_vars PROVE FirstNamerClaims'
  OBVIOUS
<1>0. Len(verdicts) \in Nat /\ claims \in [Found -> 0 .. Len(verdicts)]
  BY LenProperties DEF Inv, TypeOK
<1>1. world' = world /\ Found' = Found
  BY FoundStays
<1>2. CASE DecideNext
  <2>1. /\ Len(verdicts') = cursor /\ cursor = Len(verdicts) + 1
        /\ claims' = [f \in Found |-> IF f \in ClaimedBy(records[cursor]) THEN cursor ELSE claims[f]]
    BY <1>2, DecideNextTypes DEF Inv
  <2>2. records' = records
    BY <1>2 DEF DecideNext
  <2> SUFFICES ASSUME NEW f \in Found
               PROVE  IF Namers(f)' = {} THEN claims'[f] = 0
                      ELSE claims'[f] \in Namers(f)' /\ \A i \in Namers(f)' : claims'[f] <= i
    BY <1>1 DEF FirstNamerClaims, Namers
  <2>3. Namers(f)' = {i \in 1 .. cursor : NamesHere(records[i], f)}
    <3>1. \A i : NamesHere(records[i], f)' <=> NamesHere(records[i], f)
      BY <2>2, NamesStay
    <3> QED
      BY <2>1, <3>1 DEF Namers
  <2>4. IF Namers(f) = {} THEN claims[f] = 0
        ELSE claims[f] \in Namers(f) /\ \A i \in Namers(f) : claims[f] <= i
    BY DEF Inv, FirstNamerClaims, Namers
  <2>5. CASE claims[f] # 0
    <3>1. claims'[f] = claims[f]
      BY <2>1, <2>5 DEF ClaimedBy
    <3>2. claims[f] \in Namers(f) /\ \A i \in Namers(f) : claims[f] <= i
      BY <2>4, <2>5
    <3> QED
      BY <1>0, <2>1, <2>3, <3>1, <3>2 DEF Namers
  <2>6. CASE claims[f] = 0
    <3>1. Namers(f) = {}
      BY <1>0, <2>4, <2>6 DEF Namers
    <3>2. claims'[f] = IF NamesHere(records[cursor], f) THEN cursor ELSE 0
      BY <2>1, <2>6 DEF ClaimedBy
    <3>3. Namers(f)' = IF NamesHere(records[cursor], f) THEN {cursor} ELSE {}
      BY <1>0, <2>1, <2>3, <3>1 DEF Namers
    <3> QED
      BY <1>0, <2>1, <3>2, <3>3
  <2> QED
    BY <2>5, <2>6
<1>3. CASE StartDeciding \/ Decided \/ UNCHANGED vars
  <2>1. verdicts' = verdicts /\ records' = records /\ claims' = claims
    BY <1>3 DEF StartDeciding, Decided, vars
  <2>2. \A i, f : NamesHere(records[i], f)' <=> NamesHere(records[i], f)
    BY <2>1, NamesStay
  <2> QED
    BY <1>1, <2>1, <2>2 DEF Inv, FirstNamerClaims
<1>4. CASE RefuseMalformed \/ SkipOther \/ Refuse \/ Bind
  <2>1. verdicts' = << >> /\ verdicts = << >> /\ claims' = claims
    BY <1>4 DEF RefuseMalformed, SkipOther, Refuse, Bind, Reading, Inv, Progress
  <2>2. \A f \in Found' : claims'[f] = 0
    BY <1>1, <2>1, NothingClaimed DEF Inv
  <2>3. Len(verdicts') = 0
    BY <2>1
  <2> QED
    BY <2>2, <2>3 DEF FirstNamerClaims
<1> QED
  BY <1>2, <1>3, <1>4 DEF Next

LEMMA ClaimantsStep == Inv /\ [Next]_vars => ClaimantsStand'
<1> SUFFICES ASSUME Inv, [Next]_vars PROVE ClaimantsStand'
  OBVIOUS
<1>0. Len(verdicts) \in Nat /\ claims \in [Found -> 0 .. Len(verdicts)]
  BY LenProperties DEF Inv, TypeOK
<1>1. Found' = Found
  BY FoundStays
<1>2. CASE DecideNext
  <2> DEFINE claimed == ClaimedBy(records[cursor])
  <2>1. /\ cursor = Len(verdicts) + 1
        /\ verdicts' = Append(verdicts, Verdict(records[cursor], claimed))
        /\ claims' = [f \in Found |-> IF f \in claimed THEN cursor ELSE claims[f]]
    BY <1>2, DecideNextTypes DEF Inv
  <2>2. verdicts \in Seq({"in-effect", "dormant", "stale"})
    BY DEF Inv, TypeOK
  <2> SUFFICES ASSUME NEW f \in Found, claims'[f] # 0 PROVE verdicts'[claims'[f]] # "stale"
    BY <1>1 DEF ClaimantsStand
  <2>3. CASE f \in claimed
    <3>1. Verdict(records[cursor], claimed) # "stale"
      BY <2>3 DEF Verdict
    <3>2. claims'[f] = cursor
      BY <2>1, <2>3
    <3> HIDE DEF claimed
    <3> QED
      BY <1>0, <2>1, <2>2, <3>1, <3>2, AppendProperties
  <2>4. CASE f \notin claimed
    <3>1. claims'[f] = claims[f] /\ claims[f] \in 1 .. Len(verdicts)
      BY <1>0, <2>1, <2>4
    <3>2. verdicts[claims[f]] # "stale"
      BY <3>1 DEF Inv, ClaimantsStand
    <3> HIDE DEF claimed
    <3> QED
      BY <1>0, <2>1, <2>2, <3>1, <3>2, AppendProperties
  <2> QED
    BY <2>3, <2>4
<1>3. CASE ~ DecideNext
  <2>1. verdicts' = verdicts /\ claims' = claims
    BY <1>3 DEF Next, RefuseMalformed, SkipOther, Refuse, Bind, StartDeciding, Decided, vars
  <2> QED
    BY <1>1, <2>1 DEF Inv, ClaimantsStand
<1> QED
  BY <1>2, <1>3

LEMMA Step == Inv /\ [Next]_vars => Inv'
BY TypeStep, ProgressStep, FirstNamerStep, ClaimantsStep DEF Inv

LEMMA Invariance == Spec => []Inv
BY Initially, Step, PTL DEF Spec

-----------------------------------------------------------------------------
(* The ledger keeps its variables' types. *)
THEOREM TypeCorrect == Spec => []TypeOK
<1>1. Inv => TypeOK
  BY DEF Inv
<1> QED
  BY <1>1, Invariance, PTL

(* A finding belongs to the first record in reading order that names it.   *)
THEOREM FirstNamerAlways == Spec => []FirstNamerClaims
<1>1. Inv => FirstNamerClaims
  BY DEF Inv
<1> QED
  BY <1>1, Invariance, PTL

(* Deciding a later record takes back no claim and no verdict. *)
THEOREM VerdictsAreFinal == Spec => VerdictsStand
<1> DEFINE Stand == /\ \A i \in DOMAIN verdicts : i \in DOMAIN verdicts' /\ verdicts'[i] = verdicts[i]
                    /\ \A f \in Found : claims[f] # 0 => claims'[f] = claims[f]
<1>1. Inv /\ [Next]_vars => [Stand]_vars
  <2> SUFFICES ASSUME Inv, [Next]_vars PROVE Stand
    OBVIOUS
  <2>1. CASE DecideNext
    <3>1. /\ verdicts' = Append(verdicts, Verdict(records[cursor], ClaimedBy(records[cursor])))
          /\ claims' = [f \in Found |-> IF f \in ClaimedBy(records[cursor]) THEN cursor ELSE claims[f]]
      BY <2>1, DecideNextTypes DEF Inv
    <3>2. verdicts \in Seq({"in-effect", "dormant", "stale"})
      BY DEF Inv, TypeOK
    <3>3. \A i \in DOMAIN verdicts : i \in DOMAIN verdicts' /\ verdicts'[i] = verdicts[i]
      BY <3>1, <3>2, AppendProperties, LenProperties
    <3>4. \A f \in Found : claims[f] # 0 => claims'[f] = claims[f]
      BY <3>1 DEF ClaimedBy
    <3> QED
      BY <3>3, <3>4
  <2>2. CASE ~ DecideNext
    BY <2>2 DEF Next, RefuseMalformed, SkipOther, Refuse, Bind, StartDeciding, Decided, vars
  <2> QED
    BY <2>1, <2>2
<1> QED
  BY <1>1, Invariance, PTL DEF Spec, VerdictsStand

(* Deleting a suppression the run reports stale changes no finding's fate: *)
(* each finding withheld is named by a suppression that stays.             *)
THEOREM StaleMayGo == Spec => []StaleIsRemovable
<1>1. Inv => StaleIsRemovable
  <2> SUFFICES ASSUME Inv, phase = "decided", NEW s \in StaleRecords, NEW f \in Found
               PROVE  claims[f] # 0 <=>
                        \E i \in {j \in DOMAIN records :
                                    SuppressionOf(records[j]) # SuppressionOf(records[s])} :
                          NamesHere(records[i], f)
    BY DEF StaleIsRemovable
  <2>1. /\ Len(verdicts) \in Nat /\ claims \in [Found -> 0 .. Len(verdicts)]
        /\ DOMAIN records = 1 .. Len(verdicts)
    BY LenProperties, ListDomain DEF Inv, TypeOK, Progress
  <2>2. IF Namers(f) = {} THEN claims[f] = 0
        ELSE claims[f] \in Namers(f) /\ \A i \in Namers(f) : claims[f] <= i
    BY DEF Inv, FirstNamerClaims, Namers
  <2>3. ASSUME claims[f] # 0
        PROVE  /\ claims[f] \in DOMAIN records /\ NamesHere(records[claims[f]], f)
               /\ SuppressionOf(records[claims[f]]) # SuppressionOf(records[s])
    <3>1. claims[f] \in DOMAIN records /\ NamesHere(records[claims[f]], f)
      BY <2>1, <2>2, <2>3 DEF Namers
    <3>2. verdicts[claims[f]] # "stale"
      BY <2>3 DEF Inv, ClaimantsStand
    <3>3. IsStale(s)
      BY DEF StaleRecords
    <3> QED
      BY <3>1, <3>2, <3>3 DEF IsStale
  <2>4. ASSUME NEW i \in DOMAIN records, NamesHere(records[i], f)
        PROVE  claims[f] # 0
    <3>1. i \in Namers(f)
      BY <2>1, <2>4 DEF Namers
    <3>2. claims[f] \in Namers(f)
      BY <2>2, <3>1
    <3> QED
      BY <2>1, <3>2 DEF Namers
  <2> QED
    BY <2>3, <2>4
<1> QED
  BY <1>1, Invariance, PTL

-----------------------------------------------------------------------------
(* The totals.  A record is in effect exactly when it claimed a finding    *)
(* the dials let through, and the records come from the suppressions that  *)
(* bind, each with its own mechanism and site.                             *)
InEffectClaims ==
  \A i \in 1 .. Len(verdicts) :
    verdicts[i] = "in-effect" <=> \E f \in Found : claims[f] = i /\ f.id \notin world.withheld

Marks(list) == {<<list[i].mechanism, list[i].site>> : i \in DOMAIN list}
MarkOf(k) == <<written[k].mechanism, SiteOf(k)>>

RecordsAreOfTheBinding ==
  /\ phase = "binding" => Marks(records) = {MarkOf(k) : k \in {l \in Binding : l < cursor}}
  /\ phase \in {"deciding", "decided"} => Marks(records) = {MarkOf(k) : k \in Binding}

(* Two lists, one after the other. *)
LEMMA ConcatPlaces ==
  ASSUME NEW s, NEW t, s \in Seq(ToSet(s)), t \in Seq(ToSet(t))
  PROVE  /\ Len(s) \in Nat /\ DOMAIN s = 1 .. Len(s)
         /\ Len(t) \in Nat /\ DOMAIN t = 1 .. Len(t)
         /\ DOMAIN (s \o t) = 1 .. Len(s) + Len(t)
         /\ \A i \in 1 .. Len(s) + Len(t) :
              (s \o t)[i] = IF i <= Len(s) THEN s[i] ELSE t[i - Len(s)]
<1> DEFINE S == ToSet(s) \union ToSet(t)
<1>1. s \in Seq(S) /\ t \in Seq(S)
  <2>1. /\ Len(s) \in Nat /\ s \in [1 .. Len(s) -> ToSet(s)]
        /\ Len(t) \in Nat /\ t \in [1 .. Len(t) -> ToSet(t)]
    BY LenProperties
  <2>2. s \in [1 .. Len(s) -> S] /\ t \in [1 .. Len(t) -> S]
    BY <2>1
  <2> QED
    BY <2>1, <2>2, SeqDef
<1> HIDE DEF S
<1> QED
  BY <1>1, LenProperties, ConcatProperties

LEMMA MarksConcat ==
  ASSUME NEW s, NEW t, s \in Seq(ToSet(s)), t \in Seq(ToSet(t))
  PROVE  Marks(s \o t) = Marks(s) \union Marks(t)
<1> DEFINE both == s \o t
<1>2. /\ Len(s) \in Nat /\ DOMAIN s = 1 .. Len(s)
      /\ Len(t) \in Nat /\ DOMAIN t = 1 .. Len(t)
      /\ DOMAIN both = 1 .. Len(s) + Len(t)
      /\ \A i \in 1 .. Len(s) + Len(t) : both[i] = IF i <= Len(s) THEN s[i] ELSE t[i - Len(s)]
  BY ConcatPlaces
<1>3. \A i \in DOMAIN s : i \in DOMAIN both /\ both[i] = s[i]
  BY <1>2
<1>4. \A i \in DOMAIN t : i + Len(s) \in DOMAIN both /\ both[i + Len(s)] = t[i]
  BY <1>2
<1>5. \A i \in DOMAIN both : \/ i \in DOMAIN s /\ both[i] = s[i]
                             \/ i - Len(s) \in DOMAIN t /\ both[i] = t[i - Len(s)]
  BY <1>2
<1> HIDE DEF both
<1>6. Marks(both) \subseteq Marks(s) \union Marks(t)
  BY <1>5 DEF Marks
<1>7. Marks(s) \subseteq Marks(both) /\ Marks(t) \subseteq Marks(both)
  BY <1>3, <1>4 DEF Marks
<1> QED
  BY <1>6, <1>7 DEF both

(* A sequence that is not empty has a place. *)
LEMMA FilledHasAPlace ==
  ASSUME NEW S, NEW s \in Seq(S), s # << >>
  PROVE  DOMAIN s # {}
<1>1. Len(s) \in Nat /\ DOMAIN s = 1 .. Len(s)
  BY LenProperties
<1>2. Len(s) # 0
  BY EmptySeq
<1>3. 1 \in DOMAIN s
  BY <1>1, <1>2
<1> QED
  BY <1>3

(* Every record of a suppression has its mechanism and site, and there is  *)
(* one at least.                                                           *)
LEMMA MarksWritten ==
  ASSUME TypeOK, NEW k \in DOMAIN written
  PROVE  Marks(RecordsWritten(k)) = {MarkOf(k)}
<1>1. ASSUME NEW x PROVE Marks(<<x>>) = {<<x.mechanism, x.site>>}
  <2>1. DOMAIN <<x>> = {1} /\ <<x>>[1] = x
    OBVIOUS
  <2> QED
    BY <2>1, Zenon DEF Marks
<1>2. CASE written[k].mechanism = "inline"
  <2> DEFINE one == DirectiveRecord(world.decls, written[k], SiteOf(k))
  <2>1. one.mechanism = "inline" /\ one.site = SiteOf(k)
    BY DEF DirectiveRecord
  <2>2. RecordsWritten(k) = <<one>>
    BY <1>2 DEF RecordsWritten
  <2> HIDE DEF one
  <2> QED
    BY <1>1, <1>2, <2>1, <2>2 DEF MarkOf
<1>3. CASE written[k].mechanism # "inline"
  <2> DEFINE bound == BoundTo(world.decls, written[k])
             one == [code |-> written[k].code, symbol |-> written[k].symbol, path |-> written[k].path,
                     bound |-> None, mechanism |-> written[k].mechanism, site |-> SiteOf(k),
                     file |-> None]
             each == [i \in DOMAIN bound |-> [one EXCEPT !.bound = bound[i]]]
  <2>1. RecordsWritten(k) = IF bound = << >> THEN <<one>> ELSE each
    BY <1>3 DEF RecordsWritten, RecordsOf
  <2>2. written[k] \in world.candidates
    <3>1. written \in [1 .. Len(written) -> world.candidates]
      BY LenProperties DEF TypeOK
    <3> QED
      BY <3>1
  <2>3. bound \in Seq(ToSet(world.decls.order))
    BY <2>2, LookupAnswersDeclarations DEF TypeOK
  <2>4. one.mechanism = written[k].mechanism /\ one.site = SiteOf(k)
    OBVIOUS
  <2>5. \A i \in DOMAIN bound : /\ each[i].mechanism = written[k].mechanism
                                /\ each[i].site = SiteOf(k)
    <3> TAKE i \in DOMAIN bound
    <3>1. each[i] = [one EXCEPT !.bound = bound[i]]
      OBVIOUS
    <3>2. [one EXCEPT !.bound = bound[i]].mechanism = one.mechanism
      OBVIOUS
    <3>3. [one EXCEPT !.bound = bound[i]].site = one.site
      OBVIOUS
    <3> HIDE DEF one, each
    <3> QED
      BY <2>4, <3>1, <3>2, <3>3
  <2>6. bound # << >> => DOMAIN bound # {}
    <3> HIDE DEF bound, one, each
    <3> QED
      BY <2>3, FilledHasAPlace
  <2>7. DOMAIN each = DOMAIN bound
    OBVIOUS
  <2> HIDE DEF bound, one, each
  <2>8. CASE bound = << >>
    BY <1>1, <2>1, <2>4, <2>8 DEF MarkOf
  <2>9. CASE bound # << >>
    BY <2>1, <2>5, <2>6, <2>7, <2>9 DEF MarkOf, Marks
  <2> QED
    BY <2>8, <2>9
<1> QED
  BY <1>2, <1>3

LEMMA InEffectStep == Inv /\ InEffectClaims /\ [Next]_vars => InEffectClaims'
<1> SUFFICES ASSUME Inv, InEffectClaims, [Next]_vars PROVE InEffectClaims'
  OBVIOUS
<1>0. Len(verdicts) \in Nat /\ claims \in [Found -> 0 .. Len(verdicts)]
  BY LenProperties DEF Inv, TypeOK
<1>1. Found' = Found /\ world' = world
  BY FoundStays
<1>2. CASE DecideNext
  <2> DEFINE claimed == ClaimedBy(records[cursor])
  <2>1. /\ Len(verdicts') = cursor /\ cursor = Len(verdicts) + 1
        /\ verdicts' = Append(verdicts, Verdict(records[cursor], claimed))
        /\ claims' = [f \in Found |-> IF f \in claimed THEN cursor ELSE claims[f]]
    BY <1>2, DecideNextTypes DEF Inv
  <2>2. verdicts \in Seq({"in-effect", "dormant", "stale"})
    BY DEF Inv, TypeOK
  <2>3. claimed \subseteq Found /\ \A f \in claimed : claims[f] = 0
    BY DEF ClaimedBy
  <2>4. Verdict(records[cursor], claimed) = "in-effect"
          <=> \E f \in claimed : f.id \notin world.withheld
    BY DEF Verdict
  <2> HIDE DEF claimed
  <2>5. /\ verdicts'[cursor] = Verdict(records[cursor], claimed)
        /\ \A i \in 1 .. Len(verdicts) : verdicts'[i] = verdicts[i]
    BY <1>0, <2>1, <2>2, AppendProperties
  <2>6. \A f \in Found : claims'[f] = cursor <=> f \in claimed
    BY <1>0, <2>1, <2>3
  <2>7. \A i \in 1 .. Len(verdicts) : \A f \in Found : claims'[f] = i <=> claims[f] = i
    BY <1>0, <2>1, <2>3
  <2> SUFFICES ASSUME NEW i \in 1 .. cursor
               PROVE  verdicts'[i] = "in-effect"
                        <=> \E f \in Found : claims'[f] = i /\ f.id \notin world.withheld
    BY <1>1, <2>1 DEF InEffectClaims
  <2>8. CASE i = cursor
    BY <2>3, <2>4, <2>5, <2>6, <2>8
  <2>9. CASE i \in 1 .. Len(verdicts)
    BY <2>5, <2>7, <2>9 DEF InEffectClaims
  <2> QED
    BY <1>0, <2>1, <2>8, <2>9
<1>3. CASE ~ DecideNext
  <2>1. verdicts' = verdicts /\ claims' = claims
    BY <1>3 DEF Next, RefuseMalformed, SkipOther, Refuse, Bind, StartDeciding, Decided, vars
  <2> QED
    BY <1>1, <2>1 DEF InEffectClaims
<1> QED
  BY <1>2, <1>3

LEMMA BindingStep == Inv /\ RecordsAreOfTheBinding /\ [Next]_vars => RecordsAreOfTheBinding'
<1> SUFFICES ASSUME Inv, RecordsAreOfTheBinding, [Next]_vars PROVE RecordsAreOfTheBinding'
  OBVIOUS
<1>0. /\ Len(written) \in Nat /\ DOMAIN written = 1 .. Len(written) /\ cursor \in Nat \ {0}
      /\ records \in Seq(ToSet(records))
  BY LenProperties DEF Inv, TypeOK
<1>1. written' = written
  BY FoundStays
<1>2. Binding' = Binding /\ (\A k : MarkOf(k)' = MarkOf(k)) /\ Binding \subseteq DOMAIN written
  BY <1>1 DEF Binding, Own, MarkOf, SiteOf
<1> DEFINE Before(n) == {MarkOf(k) : k \in {l \in Binding : l < n}}
<1>3. ASSUME Reading, cursor' = cursor + 1, cursor \notin Binding
      PROVE  Before(cursor') = Before(cursor)
  <2>1. \A l \in Binding : l < cursor + 1 <=> l < cursor
    BY <1>0, <1>2, <1>3
  <2> QED
    BY <1>3, <2>1
<1>4. CASE Bind
  <2>1. /\ Reading /\ cursor \in Binding /\ cursor' = cursor + 1 /\ phase' = phase
        /\ phase = "binding" /\ records' = records \o RecordsWritten(cursor)
    BY <1>0, <1>4 DEF Bind, Reading, Binding
  <2>2. Marks(records') = Marks(records) \union {MarkOf(cursor)}
    <3>1. RecordsWritten(cursor) \in Seq(ToSet(RecordsWritten(cursor)))
      BY <1>2, <2>1, RecordsAreAList DEF Inv
    <3>2. Marks(RecordsWritten(cursor)) = {MarkOf(cursor)}
      BY <1>2, <2>1, MarksWritten DEF Inv
    <3> QED
      BY <1>0, <2>1, <3>1, <3>2, MarksConcat
  <2>3. {l \in Binding : l < cursor + 1} = {l \in Binding : l < cursor} \union {cursor}
    BY <1>0, <1>2, <2>1
  <2>4. Before(cursor + 1) = Before(cursor) \union {MarkOf(cursor)}
    BY <2>3
  <2>5. Marks(records') = Before(cursor')
    BY <2>1, <2>2, <2>4 DEF RecordsAreOfTheBinding
  <2> QED
    BY <1>2, <2>1, <2>5 DEF RecordsAreOfTheBinding, Marks
<1>5. CASE SkipOther \/ Refuse
  <2>1. /\ Reading /\ cursor' = cursor + 1 /\ cursor \notin Binding
        /\ phase' = phase /\ phase = "binding" /\ records' = records
    BY <1>5 DEF SkipOther, Refuse, Reading, Binding, Own
  <2>2. Marks(records') = Before(cursor')
    BY <1>3, <2>1 DEF RecordsAreOfTheBinding
  <2> QED
    BY <1>2, <2>1, <2>2 DEF RecordsAreOfTheBinding, Marks
<1>6. CASE StartDeciding
  <2>1. phase = "binding" /\ cursor > Len(written) /\ phase' = "deciding" /\ records' = records
    BY <1>6 DEF StartDeciding
  <2>2. {l \in Binding : l < cursor} = Binding
    BY <1>0, <1>2, <2>1
  <2>3. Marks(records) = {MarkOf(k) : k \in Binding}
    BY <2>1, <2>2 DEF RecordsAreOfTheBinding
  <2> QED
    BY <1>2, <2>1, <2>3 DEF RecordsAreOfTheBinding, Marks
<1>7. CASE DecideNext \/ Decided \/ UNCHANGED vars
  <2>1. /\ records' = records
        /\ \/ phase' = phase /\ cursor' = cursor
           \/ phase = "deciding" /\ phase' \in {"deciding", "decided"}
    BY <1>7 DEF DecideNext, Decided, vars
  <2> QED
    BY <1>2, <2>1 DEF RecordsAreOfTheBinding, Marks
<1>8. CASE RefuseMalformed
  BY <1>8 DEF RefuseMalformed, RecordsAreOfTheBinding
<1> QED
  BY <1>4, <1>5, <1>6, <1>7, <1>8 DEF Next

LEMMA TotalsInvariance == Spec => [](InEffectClaims /\ RecordsAreOfTheBinding)
<1>1. Init => InEffectClaims /\ RecordsAreOfTheBinding
  <2> SUFFICES ASSUME Init PROVE InEffectClaims /\ RecordsAreOfTheBinding
    OBVIOUS
  <2>1. verdicts = << >> /\ Len(<< >>) = 0 /\ phase = "binding" /\ cursor = 1 /\ records = << >>
    BY DEF Init
  <2>2. InEffectClaims
    BY <2>1 DEF InEffectClaims
  <2>3. Marks(records) = {}
    BY <2>1 DEF Marks
  <2>4. {l \in Binding : l < cursor} = {}
    <3>1. Len(written) \in Nat /\ DOMAIN written = 1 .. Len(written)
      BY TypeInit, LenProperties DEF TypeOK
    <3> QED
      BY <2>1, <3>1 DEF Binding
  <2> QED
    BY <2>1, <2>2, <2>3, <2>4 DEF RecordsAreOfTheBinding
<1> QED
  BY <1>1, Invariance, InEffectStep, BindingStep, PTL DEF Spec

(* The totals of a report count what was written once: the records in      *)
(* effect are the claimants of findings the dials let through, and each    *)
(* suppression that binds has one reason.                                  *)
THEOREM TotalsAreAsWritten == Spec => []TotalsAsWritten
<1>1. Inv /\ InEffectClaims /\ RecordsAreOfTheBinding => TotalsAsWritten
  <2> SUFFICES ASSUME Inv, InEffectClaims, RecordsAreOfTheBinding, phase = "decided"
               PROVE  /\ InEffectCount = Cardinality({claims[f] : f \in
                           {g \in Found : claims[g] # 0 /\ g.id \notin world.withheld}})
                      /\ ReasonsRecorded
                           = Cardinality({<<written[k].mechanism, SiteOf(k)>> : k \in Binding})
    BY DEF TotalsAsWritten
  <2>1. /\ Len(verdicts) \in Nat /\ claims \in [Found -> 0 .. Len(verdicts)]
        /\ DOMAIN records = 1 .. Len(verdicts)
    BY LenProperties, ListDomain DEF Inv, TypeOK, Progress
  <2>2. {i \in DOMAIN records : verdicts[i] = "in-effect"}
          = {claims[f] : f \in {g \in Found : claims[g] # 0 /\ g.id \notin world.withheld}}
    BY <2>1 DEF InEffectClaims
  <2>3. {<<records[i].mechanism, records[i].site>> : i \in DOMAIN records}
          = {<<written[k].mechanism, SiteOf(k)>> : k \in Binding}
    BY DEF RecordsAreOfTheBinding, Marks, MarkOf
  <2> QED
    BY <2>2, <2>3 DEF InEffectCount, ReasonsRecorded
<1> QED
  BY <1>1, Invariance, TotalsInvariance, PTL

-----------------------------------------------------------------------------
(* What one suppression names: some record of it pairs with a finding      *)
(* exactly when its words name the finding.                                *)

(* The records of an entry: one at least, each with what the entry says.   *)
LEMMA EntryRecords ==
  ASSUME NEW decls, NEW entry, NEW site, NEW D, BoundTo(decls, entry) \in Seq(D)
  PROVE  LET alone == RecordsOf(decls, entry, site)
         IN  /\ DOMAIN alone # {}
             /\ \A i \in DOMAIN alone :
                  /\ alone[i].code = entry.code /\ alone[i].symbol = entry.symbol
                  /\ alone[i].path = entry.path /\ alone[i].mechanism = entry.mechanism
                  /\ alone[i].site = site
<1> DEFINE bound == BoundTo(decls, entry)
           one == [code |-> entry.code, symbol |-> entry.symbol, path |-> entry.path,
                   bound |-> None, mechanism |-> entry.mechanism, site |-> site, file |-> None]
           each == [i \in DOMAIN bound |-> [one EXCEPT !.bound = bound[i]]]
           Said(r) == /\ r.code = entry.code /\ r.symbol = entry.symbol
                      /\ r.path = entry.path /\ r.mechanism = entry.mechanism
                      /\ r.site = site
<1>1. RecordsOf(decls, entry, site) = IF bound = << >> THEN <<one>> ELSE each
  BY DEF RecordsOf
<1>2. Said(one)
  OBVIOUS
<1>3. ASSUME NEW i \in DOMAIN bound PROVE Said(each[i])
  <2>1. each[i] = [one EXCEPT !.bound = bound[i]]
    OBVIOUS
  <2>2. [one EXCEPT !.bound = bound[i]].code = one.code
    OBVIOUS
  <2>3. [one EXCEPT !.bound = bound[i]].symbol = one.symbol
    OBVIOUS
  <2>4. [one EXCEPT !.bound = bound[i]].path = one.path
    OBVIOUS
  <2>5. [one EXCEPT !.bound = bound[i]].mechanism = one.mechanism
    OBVIOUS
  <2>6. [one EXCEPT !.bound = bound[i]].site = one.site
    OBVIOUS
  <2> HIDE DEF one, each
  <2> QED
    BY <1>2, <2>1, <2>2, <2>3, <2>4, <2>5, <2>6
<1>4. bound # << >> => DOMAIN bound # {}
  <2>1. bound \in Seq(D)
    OBVIOUS
  <2> HIDE DEF bound, one, each
  <2> QED
    BY <2>1, FilledHasAPlace
<1>5. DOMAIN each = DOMAIN bound
  OBVIOUS
<1>6. DOMAIN <<one>> = {1} /\ <<one>>[1] = one
  OBVIOUS
<1> HIDE DEF bound, one, each, Said
<1>7. CASE bound = << >>
  BY <1>1, <1>2, <1>6, <1>7 DEF Said
<1>8. CASE bound # << >>
  BY <1>1, <1>3, <1>4, <1>5, <1>8 DEF Said
<1> QED
  BY <1>7, <1>8

(* Read back alone, the row of a finding names it wherever a baseline can. *)
LEMMA RowReadsBack ==
  ASSUME TypeOK, NEW f \in Found
  PROVE  LET alone == RecordsOf(world.decls, RowFor(f), <<0, 0>>)
         IN  Recordable(f) <=> \E i \in DOMAIN alone : Pairs(alone[i], BoundWith(alone, alone[i]), f)
<1> DEFINE alone == RecordsOf(world.decls, RowFor(f), <<0, 0>>)
<1>1. BoundTo(world.decls, RowFor(f)) \in Seq(ToSet(world.decls.order))
  BY LookupAnswersRows DEF TypeOK, Found
<1>2. /\ DOMAIN alone # {}
      /\ \A i \in DOMAIN alone :
           /\ alone[i].code = f.code /\ alone[i].symbol = f.ref /\ alone[i].path = f.path
           /\ alone[i].mechanism = "baseline" /\ alone[i].site = <<0, 0>>
  BY <1>1, EntryRecords DEF RowFor
<1> HIDE DEF alone
<1>3. ASSUME NEW i \in DOMAIN alone
      PROVE  Pairs(alone[i], BoundWith(alone, alone[i]), f) <=>
               /\ Recordable(f)
               /\ Owners(f) \cap BoundWith(alone, alone[i]) # {} => alone[i].bound \in Owners(f)
  BY <1>2 DEF Pairs, EntryPairs, Recordable
<1>4. ASSUME NEW i \in DOMAIN alone, NEW j \in DOMAIN alone
      PROVE  BoundWith(alone, alone[i]) = BoundWith(alone, alone[j])
  BY <1>2 DEF BoundWith, SuppressionOf
<1>5. \E i \in DOMAIN alone :
        Owners(f) \cap BoundWith(alone, alone[i]) # {} => alone[i].bound \in Owners(f)
  <2>1. PICK k \in DOMAIN alone : TRUE
    BY <1>2
  <2> DEFINE B == BoundWith(alone, alone[k])
  <2>2. \A b \in B : \E i \in DOMAIN alone : alone[i].bound = b
    BY DEF BoundWith, ToSet
  <2>3. \A i \in DOMAIN alone : BoundWith(alone, alone[i]) = B
    BY <1>4
  <2> HIDE DEF B
  <2> QED
    BY <1>2, <2>2, <2>3
<1> QED
  BY <1>3, <1>5 DEF alone

(* A row is recorded for exactly the findings it names when it is read     *)
(* back: no row is stale on its first read, and no finding a baseline can  *)
(* hold is left to fail the next run.                                      *)
THEOREM RecordedRowsName == Spec => []RecordedRowsReadBack
<1>1. Inv => RecordedRowsReadBack
  BY RowReadsBack DEF Inv, RecordedRowsReadBack
<1> QED
  BY <1>1, Invariance, PTL

-----------------------------------------------------------------------------
(* Where each record comes from: in the order of the suppressions that     *)
(* bind, all the records of each.                                          *)
IsOne(record, k) == \E j \in DOMAIN RecordsWritten(k) : record = RecordsWritten(k)[j]

InOrder(origin) ==
  /\ \A i, j \in DOMAIN records : i < j => origin[i] <= origin[j]
  /\ \A i \in DOMAIN records : IsOne(records[i], origin[i])

Whole(origin, k) ==
  \A j \in DOMAIN RecordsWritten(k) :
    \E i \in DOMAIN records : origin[i] = k /\ records[i] = RecordsWritten(k)[j]

OriginsAre(Bound) ==
  \E origin \in [DOMAIN records -> Bound] : InOrder(origin) /\ \A k \in Bound : Whole(origin, k)

Before(n) == {k \in Binding : k < n}

RecordsHaveOrigins ==
  /\ phase = "binding" => OriginsAre(Before(cursor))
  /\ phase \in {"deciding", "decided"} => OriginsAre(Binding)

(* What a suppression resolves to depends on the run's world alone. *)
LEMMA WorldStays ==
  ASSUME world' = world, written' = written
  PROVE  /\ Binding' = Binding
         /\ \A k : RecordsWritten(k)' = RecordsWritten(k)
<1>1. \A k : SiteOf(k)' = SiteOf(k)
  BY DEF SiteOf
<1> QED
  BY <1>1 DEF Binding, RecordsWritten

LEMMA OriginsStay ==
  ASSUME world' = world, written' = written, records' = records, NEW Bound
  PROVE  OriginsAre(Bound)' <=> OriginsAre(Bound)
<1>1. \A k : RecordsWritten(k)' = RecordsWritten(k)
  BY WorldStays
<1>2. \A record, k : IsOne(record, k)' <=> IsOne(record, k)
  BY <1>1 DEF IsOne
<1>3. \A origin : InOrder(origin)' <=> InOrder(origin)
  BY <1>2 DEF InOrder
<1>4. \A origin, k : Whole(origin, k)' <=> Whole(origin, k)
  BY <1>1 DEF Whole
<1> QED
  BY <1>3, <1>4 DEF OriginsAre

LEMMA BindKeepsOrigins ==
  ASSUME TypeOK, NEW n, n = cursor, n \in Binding, OriginsAre(Before(n)),
         world' = world, written' = written, records' = records \o RecordsWritten(n)
  PROVE  OriginsAre(Before(n) \union {n})'
<1> DEFINE s == records
           t == RecordsWritten(n)
           m == Len(s)
           Bound == Before(n) \union {n}
<1>1. s \in Seq(ToSet(s)) /\ t \in Seq(ToSet(t))
  BY RecordsAreAList DEF TypeOK, Binding
<1>2. /\ m \in Nat /\ DOMAIN s = 1 .. m
      /\ Len(t) \in Nat /\ DOMAIN t = 1 .. Len(t)
      /\ DOMAIN records' = 1 .. m + Len(t)
      /\ \A i \in 1 .. m + Len(t) : records'[i] = IF i <= m THEN s[i] ELSE t[i - m]
  BY <1>1, ConcatPlaces
<1>3. Binding' = Binding /\ \A k : RecordsWritten(k)' = RecordsWritten(k)
  BY WorldStays
<1>4. Binding \subseteq Nat /\ n \in Nat
  BY LenProperties DEF Binding, TypeOK
<1>5. Before(n)' = Before(n)
  BY <1>3 DEF Before
<1>6. PICK origin \in [DOMAIN s -> Before(n)] :
        InOrder(origin) /\ \A k \in Before(n) : Whole(origin, k)
  BY DEF OriginsAre
<1> PICK longer : longer = [i \in 1 .. m + Len(t) |-> IF i <= m THEN origin[i] ELSE n]
  OBVIOUS
<1>7. \A i \in 1 .. m : origin[i] \in Before(n) /\ origin[i] < n /\ origin[i] \in Nat
  BY <1>2, <1>4, <1>6 DEF Before
<1>8. \A i \in DOMAIN records' :
        /\ i \in Nat
        /\ i <= m => i \in DOMAIN s /\ records'[i] = s[i] /\ longer[i] = origin[i]
        /\ ~ (i <= m) => i - m \in DOMAIN t /\ records'[i] = t[i - m] /\ longer[i] = n
  BY <1>2
<1>9. longer \in [DOMAIN records' -> Bound]
  BY <1>2, <1>7
<1>10. (\A i \in DOMAIN s : i \in DOMAIN records' /\ records'[i] = s[i] /\ longer[i] = origin[i])
       /\ \A j \in DOMAIN t : /\ m + j \in DOMAIN records' /\ records'[m + j] = t[j]
                              /\ longer[m + j] = n
  BY <1>2
<1> HIDE DEF s, t, m
<1>11. InOrder(longer)'
  <2>1. ASSUME NEW i \in DOMAIN records', NEW j \in DOMAIN records', i < j
        PROVE  longer[i] <= longer[j]
    <3>1. CASE j <= m
      <4>1. i <= m
        BY <1>2, <1>8, <2>1, <3>1
      <4>2. origin[i] <= origin[j]
        BY <1>6, <1>8, <2>1, <3>1, <4>1 DEF InOrder, s
      <4> QED
        BY <1>8, <3>1, <4>1, <4>2
    <3>2. CASE ~ (j <= m)
      <4>1. longer[j] = n
        BY <1>8, <3>2
      <4>2. longer[i] \in Nat /\ longer[i] <= n
        BY <1>2, <1>4, <1>7, <1>8
      <4> QED
        BY <4>1, <4>2
    <3> QED
      BY <3>1, <3>2
  <2>2. ASSUME NEW i \in DOMAIN records'
        PROVE  IsOne(records'[i], longer[i])
    <3>1. CASE i <= m
      BY <1>6, <1>8, <3>1 DEF InOrder, s
    <3>2. CASE ~ (i <= m)
      BY <1>8, <3>2 DEF IsOne, t
    <3> QED
      BY <3>1, <3>2
  <2>3. \A record, k : IsOne(record, k)' <=> IsOne(record, k)
    BY <1>3 DEF IsOne
  <2> QED
    BY <2>1, <2>2, <2>3 DEF InOrder
<1>12. ASSUME NEW k \in Bound
       PROVE  Whole(longer, k)'
  <2> SUFFICES ASSUME NEW j \in DOMAIN RecordsWritten(k)
               PROVE  \E i \in DOMAIN records' : longer[i] = k /\ records'[i] = RecordsWritten(k)[j]
    BY <1>3 DEF Whole
  <2>1. CASE k \in Before(n)
    <3>1. PICK i \in DOMAIN s : origin[i] = k /\ s[i] = RecordsWritten(k)[j]
      BY <1>6, <2>1 DEF Whole, s
    <3> QED
      BY <1>10, <3>1
  <2>2. CASE k = n
    BY <1>10, <2>2 DEF t
  <2> QED
    BY <2>1, <2>2
<1> QED
  BY <1>5, <1>9, <1>11, <1>12 DEF OriginsAre

LEMMA OriginsStep == Inv /\ RecordsHaveOrigins /\ [Next]_vars => RecordsHaveOrigins'
<1> SUFFICES ASSUME Inv, RecordsHaveOrigins, [Next]_vars PROVE RecordsHaveOrigins'
  OBVIOUS
<1>0. /\ Len(written) \in Nat /\ DOMAIN written = 1 .. Len(written) /\ cursor \in Nat \ {0}
      /\ Binding \subseteq DOMAIN written
  BY LenProperties DEF Inv, TypeOK, Binding
<1>1. world' = world /\ written' = written
  BY FoundStays
<1>2. Binding' = Binding
  BY <1>1, WorldStays
<1>3. CASE Bind
  <2>1. /\ cursor \in Binding /\ cursor' = cursor + 1 /\ phase' = "binding"
        /\ phase = "binding" /\ records' = records \o RecordsWritten(cursor)
    BY <1>0, <1>3 DEF Bind, Reading, Binding
  <2>2. Before(cursor)' = Before(cursor) \union {cursor}
    BY <1>0, <1>2, <2>1 DEF Before
  <2>3. ASSUME NEW n, n = cursor PROVE OriginsAre(Before(n) \union {n})'
    BY <1>1, <2>1, <2>3, BindKeepsOrigins DEF Inv, RecordsHaveOrigins
  <2>4. ASSUME NEW Bound, Bound = Before(cursor)' PROVE OriginsAre(Bound)'
    <3>1. PICK n : n = cursor
      OBVIOUS
    <3>2. (Before(n) \union {n})' = Bound
      BY <1>2, <2>2, <2>4, <3>1 DEF Before
    <3> QED
      BY <2>3, <3>1, <3>2
  <2> QED
    BY <2>1, <2>4 DEF RecordsHaveOrigins
<1>4. CASE SkipOther \/ Refuse
  <2>1. /\ cursor' = cursor + 1 /\ cursor \notin Binding
        /\ phase' = "binding" /\ phase = "binding" /\ records' = records
    BY <1>4 DEF SkipOther, Refuse, Reading, Binding, Own
  <2>2. Before(cursor)' = Before(cursor)
    BY <1>0, <1>2, <2>1 DEF Before
  <2>3. ASSUME NEW Bound, Bound = Before(cursor) PROVE OriginsAre(Bound)'
    BY <1>1, <2>1, <2>3, OriginsStay DEF RecordsHaveOrigins
  <2> QED
    BY <2>1, <2>2, <2>3 DEF RecordsHaveOrigins
<1>5. CASE StartDeciding
  <2>1. phase = "binding" /\ cursor > Len(written) /\ phase' = "deciding" /\ records' = records
    BY <1>5 DEF StartDeciding
  <2>2. Before(cursor) = Binding
    BY <1>0, <2>1 DEF Before
  <2>3. ASSUME NEW Bound, Bound = Binding PROVE OriginsAre(Bound)'
    BY <1>1, <2>1, <2>2, <2>3, OriginsStay DEF RecordsHaveOrigins
  <2> QED
    BY <1>2, <2>1, <2>3 DEF RecordsHaveOrigins
<1>6. CASE DecideNext \/ Decided \/ UNCHANGED vars
  <2>1. /\ records' = records
        /\ \/ phase' = phase /\ cursor' = cursor
           \/ phase = "deciding" /\ phase' \in {"deciding", "decided"}
    BY <1>6 DEF DecideNext, Decided, vars
  <2>2. \A Bound : OriginsAre(Bound)' <=> OriginsAre(Bound)
    BY <1>1, <2>1, OriginsStay
  <2>3. cursor' = cursor => Before(cursor)' = Before(cursor)
    BY <1>2 DEF Before
  <2> QED
    BY <1>2, <2>1, <2>2, <2>3 DEF RecordsHaveOrigins
<1>7. CASE RefuseMalformed
  BY <1>7 DEF RefuseMalformed, RecordsHaveOrigins
<1> QED
  BY <1>3, <1>4, <1>5, <1>6, <1>7 DEF Next

-----------------------------------------------------------------------------
(* The records of one suppression say what it was written as, and one of   *)
(* them names a finding exactly when its words do.                         *)
LEMMA RecordsSay ==
  ASSUME TypeOK, NEW k \in Binding
  PROVE  /\ DOMAIN RecordsWritten(k) # {}
         /\ \A j \in DOMAIN RecordsWritten(k) :
              /\ SuppressionOf(RecordsWritten(k)[j]) = WrittenAs(k)
              /\ RecordsWritten(k)[j].code = written[k].code
              /\ RecordsWritten(k)[j].mechanism = written[k].mechanism
              /\ written[k].mechanism # "inline" =>
                   /\ RecordsWritten(k)[j].symbol = written[k].symbol
                   /\ RecordsWritten(k)[j].path = written[k].path
<1>1. CASE written[k].mechanism = "inline"
  <2> DEFINE one == DirectiveRecord(world.decls, written[k], SiteOf(k))
  <2>1. one.mechanism = "inline" /\ one.site = SiteOf(k) /\ one.code = written[k].code
    BY DEF DirectiveRecord
  <2>2. RecordsWritten(k) = <<one>>
    BY <1>1 DEF RecordsWritten
  <2> HIDE DEF one
  <2> QED
    BY <1>1, <2>1, <2>2 DEF WrittenAs, SuppressionOf
<1>2. CASE written[k].mechanism # "inline"
  <2>1. written[k] \in world.candidates
    <3>1. written \in [1 .. Len(written) -> world.candidates]
      BY LenProperties DEF TypeOK
    <3> QED
      BY <3>1 DEF Binding
  <2>2. BoundTo(world.decls, written[k]) \in Seq(ToSet(world.decls.order))
    BY <2>1, LookupAnswersDeclarations DEF TypeOK
  <2>3. RecordsWritten(k) = RecordsOf(world.decls, written[k], SiteOf(k))
    BY <1>2 DEF RecordsWritten
  <2> QED
    BY <2>2, <2>3, EntryRecords DEF WrittenAs, SuppressionOf
<1> QED
  BY <1>1, <1>2

LEMMA DirectiveNames ==
  ASSUME TypeOK, NEW k \in Binding, written[k].mechanism = "inline", NEW f \in world.findings, NEW B
  PROVE  /\ DOMAIN RecordsWritten(k) = {1}
         /\ Pairs(RecordsWritten(k)[1], B, FindingOf(world.decls, f))
              <=> WorldNames(world.decls, written[k], f)
<1> DEFINE one == DirectiveRecord(world.decls, written[k], SiteOf(k))
           above == written[k].above
           F == FindingOf(world.decls, f)
<1>1. RecordsWritten(k) = <<one>>
  BY DEF RecordsWritten
<1>2. /\ one.mechanism = "inline" /\ one.code = written[k].code /\ one.bound = above
      /\ above # None => one.file = world.decls.file[above]
  BY DEF DirectiveRecord
<1>3. /\ F.code = f.code
      /\ Owners(F) = (({f.iface} \ {None}) \union f.twins) \union ({f.about} \ {None})
      /\ f.about # None => F.file = world.decls.file[f.about]
  BY DEF FindingOf, Owners
<1>4. /\ f.iface = None => f.twins = {}
      /\ f.about = None => f.iface = None /\ f.param = None
  BY FindingsAreWhole DEF TypeOK
<1> HIDE DEF one, F
<1>5. Pairs(one, B, F) <=> /\ written[k].code = f.code
                           /\ Names(SubjectOfCode(written[k].code), "inline")
                           /\ above # None /\ above \in Owners(F) /\ one.file = F.file
  BY <1>2, <1>3 DEF Pairs, DirectivePairs
<1>6. above # None /\ above \in Owners(F) /\ one.file = F.file
        <=> /\ above # None
            /\ \/ f.about = above
               \/ /\ f.iface # None
                  /\ above \in {f.iface} \union f.twins
                  /\ world.decls.file[f.about] = world.decls.file[above]
  BY <1>2, <1>3, <1>4
<1>7. Pairs(one, B, F) <=> WorldNames(world.decls, written[k], f)
  BY <1>5, <1>6 DEF WorldNames
<1>8. DOMAIN <<one>> = {1} /\ <<one>>[1] = one
  OBVIOUS
<1> QED
  BY <1>1, <1>7, <1>8 DEF F

LEMMA EntryNames ==
  ASSUME TypeOK, NEW k \in Binding, written[k].mechanism # "inline", NEW f \in world.findings, NEW B,
         NEW j \in DOMAIN RecordsWritten(k)
  PROVE  LET one == RecordsWritten(k)[j]
             F == FindingOf(world.decls, f)
         IN  Pairs(one, B, F) <=>
               /\ WorldNames(world.decls, written[k], f)
               /\ Owners(F) \cap B # {} => one.bound \in Owners(F)
<1> DEFINE one == RecordsWritten(k)[j]
           F == FindingOf(world.decls, f)
<1>1. /\ one.code = written[k].code /\ one.mechanism = written[k].mechanism
      /\ one.symbol = written[k].symbol /\ one.path = written[k].path
  BY RecordsSay
<1>2. /\ F.code = f.code /\ F.path = ReportedPath(world.decls.path, f)
      /\ F.ref = ReportedRef(world.decls.ref, f)
      /\ F.holder = IF f.param = None THEN NoRef ELSE world.decls.ref[f.about]
  BY DEF FindingOf
<1>3. f.param # None => world.decls.ref[f.about] # NoRef
  BY FindingsAreWhole DEF TypeOK
<1> HIDE DEF one, F
<1>4. F.holder # NoRef /\ written[k].symbol = F.holder
        <=> f.param # None /\ written[k].symbol = world.decls.ref[f.about]
  BY <1>2, <1>3
<1>5. Pairs(one, B, F) <=>
        /\ WorldNames(world.decls, written[k], f)
        /\ Owners(F) \cap B # {} => one.bound \in Owners(F)
  BY <1>1, <1>2, <1>4 DEF Pairs, EntryPairs, WorldNames
<1> QED
  BY <1>5 DEF one, F

(* Every record bound with one of a suppression's is the suppression's.    *)
LEMMA SuppressionNames ==
  ASSUME TypeOK, NEW origin \in [DOMAIN records -> Binding], InOrder(origin),
         NEW k \in Binding, Whole(origin, k), NEW f \in world.findings
  PROVE  (\E i \in DOMAIN records : origin[i] = k /\ NamesHere(records[i], FindingOf(world.decls, f)))
           <=> WorldNames(world.decls, written[k], f)
<1> DEFINE F == FindingOf(world.decls, f)
           wrote == RecordsWritten(k)
<1>1. ASSUME NEW i \in DOMAIN records, origin[i] = k, NamesHere(records[i], F)
      PROVE  WorldNames(world.decls, written[k], f)
  <2>1. PICK j \in DOMAIN wrote : records[i] = wrote[j]
    BY <1>1 DEF InOrder, IsOne
  <2>2. Pairs(wrote[j], BoundWith(records, records[i]), F)
    BY <1>1, <2>1 DEF NamesHere
  <2>3. CASE written[k].mechanism = "inline"
    <3>1. j = 1
      BY <2>1, <2>3, DirectiveNames
    <3> QED
      BY <2>2, <2>3, <3>1, DirectiveNames
  <2>4. CASE written[k].mechanism # "inline"
    BY <2>2, <2>4, EntryNames
  <2> QED
    BY <2>3, <2>4
<1>2. ASSUME WorldNames(world.decls, written[k], f)
      PROVE  \E i \in DOMAIN records : origin[i] = k /\ NamesHere(records[i], F)
  <2>1. CASE written[k].mechanism = "inline"
    <3>1. PICK i \in DOMAIN records : origin[i] = k /\ records[i] = wrote[1]
      BY <2>1, DirectiveNames DEF Whole
    <3>2. Pairs(records[i], BoundWith(records, records[i]), F)
      BY <1>2, <2>1, <3>1, DirectiveNames
    <3> QED
      BY <3>1, <3>2 DEF NamesHere
  <2>2. CASE written[k].mechanism # "inline"
    <3> DEFINE B == {r.bound : r \in {q \in ToSet(records) :
                                        q.bound # None /\ SuppressionOf(q) = WrittenAs(k)}}
    <3>1. \A j \in DOMAIN wrote : SuppressionOf(wrote[j]) = WrittenAs(k)
      BY RecordsSay
    <3>2. \A r : SuppressionOf(r) = WrittenAs(k) => BoundWith(records, r) = B
      BY DEF BoundWith
    <3>3. ASSUME NEW b \in B
          PROVE  \E j \in DOMAIN wrote : wrote[j].bound = b
      <4>1. PICK i \in DOMAIN records : records[i].bound = b /\ SuppressionOf(records[i]) = WrittenAs(k)
        BY DEF ToSet
      <4>2. PICK j \in DOMAIN RecordsWritten(origin[i]) : records[i] = RecordsWritten(origin[i])[j]
        BY DEF InOrder, IsOne
      <4>3. WrittenAs(origin[i]) = WrittenAs(k)
        BY <4>1, <4>2, RecordsSay
      <4>4. origin[i] = k
        BY <2>2, <4>3 DEF WrittenAs, SiteOf
      <4> QED
        BY <4>1, <4>2, <4>4
    <3>4. DOMAIN wrote # {}
      BY RecordsSay
    <3> HIDE DEF B
    <3>5. PICK j \in DOMAIN wrote : Owners(F) \cap B # {} => wrote[j].bound \in Owners(F)
      <4>1. CASE Owners(F) \cap B = {}
        BY <3>4, <4>1
      <4>2. CASE Owners(F) \cap B # {}
        <5>1. PICK b \in B : b \in Owners(F)
          BY <4>2
        <5> QED
          BY <3>3, <5>1
      <4> QED
        BY <4>1, <4>2
    <3>6. PICK i \in DOMAIN records : origin[i] = k /\ records[i] = wrote[j]
      BY DEF Whole
    <3>7. BoundWith(records, records[i]) = B
      BY <3>1, <3>2, <3>6
    <3>8. Pairs(wrote[j], B, F)
      BY <1>2, <2>2, <3>5, EntryNames
    <3> QED
      BY <3>6, <3>7, <3>8 DEF NamesHere
  <2> QED
    BY <2>1, <2>2
<1> QED
  BY <1>1, <1>2

-----------------------------------------------------------------------------
(* A verdict of stale says the record claimed nothing and its code is not  *)
(* allowed.                                                                *)
StaleVerdicts ==
  \A i \in 1 .. Len(verdicts) :
    verdicts[i] = "stale" <=> (\A f \in Found : claims[f] # i) /\ ~ Allowed(records[i])

LEMMA StaleVerdictStep == Inv /\ StaleVerdicts /\ [Next]_vars => StaleVerdicts'
<1> SUFFICES ASSUME Inv, StaleVerdicts, [Next]_vars PROVE StaleVerdicts'
  OBVIOUS
<1>0. Len(verdicts) \in Nat /\ claims \in [Found -> 0 .. Len(verdicts)]
  BY LenProperties DEF Inv, TypeOK
<1>1. Found' = Found /\ world' = world
  BY FoundStays
<1>2. CASE DecideNext
  <2> DEFINE claimed == ClaimedBy(records[cursor])
  <2>1. /\ Len(verdicts') = cursor /\ cursor = Len(verdicts) + 1
        /\ verdicts' = Append(verdicts, Verdict(records[cursor], claimed))
        /\ claims' = [f \in Found |-> IF f \in claimed THEN cursor ELSE claims[f]]
    BY <1>2, DecideNextTypes DEF Inv
  <2>2. verdicts \in Seq({"in-effect", "dormant", "stale"}) /\ records' = records
    BY <1>2 DEF Inv, TypeOK, DecideNext
  <2>3. claimed \subseteq Found /\ \A f \in claimed : claims[f] = 0
    BY DEF ClaimedBy
  <2>4. Verdict(records[cursor], claimed) = "stale" <=> claimed = {} /\ ~ Allowed(records[cursor])
    BY DEF Verdict
  <2> HIDE DEF claimed
  <2>5. /\ verdicts'[cursor] = Verdict(records[cursor], claimed)
        /\ \A i \in 1 .. Len(verdicts) : verdicts'[i] = verdicts[i]
    BY <1>0, <2>1, <2>2, AppendProperties
  <2>6. \A f \in Found : claims'[f] = cursor <=> f \in claimed
    BY <1>0, <2>1, <2>3
  <2>7. \A i \in 1 .. Len(verdicts) : \A f \in Found : claims'[f] = i <=> claims[f] = i
    BY <1>0, <2>1, <2>3
  <2>8. \A i : Allowed(records[i])' = Allowed(records[i])
    BY <1>1, <2>2 DEF Allowed
  <2> SUFFICES ASSUME NEW i \in 1 .. cursor
               PROVE  verdicts'[i] = "stale"
                        <=> (\A f \in Found : claims'[f] # i) /\ ~ Allowed(records[i])
    BY <1>1, <2>1, <2>8 DEF StaleVerdicts
  <2>9. CASE i = cursor
    BY <2>3, <2>4, <2>5, <2>6, <2>9
  <2>10. CASE i \in 1 .. Len(verdicts)
    BY <2>5, <2>7, <2>10 DEF StaleVerdicts
  <2> QED
    BY <1>0, <2>1, <2>9, <2>10
<1>3. CASE verdicts = << >> /\ verdicts' = << >>
  <2>1. 1 .. Len(verdicts') = {}
    BY <1>3
  <2> QED
    BY <2>1 DEF StaleVerdicts
<1>4. CASE ~ DecideNext /\ records' = records
  <2>1. verdicts' = verdicts /\ claims' = claims
    BY <1>4 DEF Next, RefuseMalformed, SkipOther, Refuse, Bind, StartDeciding, Decided, vars
  <2>2. \A i : Allowed(records[i])' = Allowed(records[i])
    BY <1>1, <1>4 DEF Allowed
  <2> QED
    BY <1>1, <2>1, <2>2 DEF StaleVerdicts
<1>5. CASE RefuseMalformed \/ Bind
  BY <1>3, <1>5 DEF RefuseMalformed, Bind, Reading, Inv, Progress
<1> QED
  BY <1>2, <1>4, <1>5 DEF Next, SkipOther, Refuse, StartDeciding, Decided, vars

LEMMA OriginsInvariance == Spec => [](RecordsHaveOrigins /\ StaleVerdicts)
<1>1. Init => RecordsHaveOrigins /\ StaleVerdicts
  <2> SUFFICES ASSUME Init PROVE RecordsHaveOrigins /\ StaleVerdicts
    OBVIOUS
  <2>1. verdicts = << >> /\ Len(<< >>) = 0 /\ phase = "binding" /\ cursor = 1 /\ records = << >>
    BY DEF Init
  <2>2. StaleVerdicts
    BY <2>1 DEF StaleVerdicts
  <2>3. Before(cursor) = {}
    <3>1. Len(written) \in Nat /\ DOMAIN written = 1 .. Len(written)
      BY TypeInit, LenProperties DEF TypeOK
    <3> QED
      BY <2>1, <3>1 DEF Before, Binding
  <2>4. DOMAIN records = {}
    BY <2>1
  <2>5. [x \in {} |-> x] \in [{} -> {}]
    OBVIOUS
  <2>6. OriginsAre({})
    BY <2>4, <2>5 DEF OriginsAre, InOrder
  <2> QED
    BY <2>1, <2>2, <2>3, <2>6 DEF RecordsHaveOrigins
<1> QED
  BY <1>1, Invariance, OriginsStep, StaleVerdictStep, PTL DEF Spec

LEMMA AgreesHolds == Inv /\ RecordsHaveOrigins => AgreesWithTheWorld
<1> SUFFICES ASSUME Inv, RecordsHaveOrigins, phase = "decided", NEW f \in world.findings
             PROVE  LET claimer == claims[FindingOf(world.decls, f)]
                    IN  IF NamersOf(f) = {} THEN claimer = 0
                        ELSE \E k \in Binding : NamesFirst(k, f) /\ claimer \in RecordsFrom(k)
  BY DEF AgreesWithTheWorld
<1> DEFINE F == FindingOf(world.decls, f)
<1>1. /\ Len(verdicts) \in Nat /\ DOMAIN records = 1 .. Len(verdicts) /\ F \in Found
      /\ Binding \subseteq Nat
  BY LenProperties, ListDomain DEF Inv, TypeOK, Progress, Found, Binding
<1>2. IF Namers(F) = {} THEN claims[F] = 0
      ELSE claims[F] \in Namers(F) /\ \A i \in Namers(F) : claims[F] <= i
  BY <1>1 DEF Inv, FirstNamerClaims, Namers
<1>3. PICK origin \in [DOMAIN records -> Binding] :
        InOrder(origin) /\ \A k \in Binding : Whole(origin, k)
  BY DEF RecordsHaveOrigins, OriginsAre
<1> HIDE DEF F
<1>4. ASSUME NEW k \in Binding
      PROVE  (\E i \in Namers(F) : origin[i] = k) <=> WorldNames(world.decls, written[k], f)
  BY <1>1, <1>3, SuppressionNames DEF Inv, Namers, F
<1>5. \A i \in Namers(F) : i \in DOMAIN records /\ origin[i] \in Binding
  BY <1>1, <1>3 DEF Namers
<1>6. CASE NamersOf(f) = {}
  <2>1. Namers(F) = {}
    BY <1>4, <1>5, <1>6 DEF NamersOf
  <2> QED
    BY <1>2, <1>6, <2>1 DEF F
<1>7. CASE NamersOf(f) # {}
  <2>1. Namers(F) # {}
    BY <1>4, <1>7 DEF NamersOf
  <2> DEFINE c == claims[F]
  <2>2. c \in Namers(F) /\ \A i \in Namers(F) : c <= i
    BY <1>2, <2>1
  <2> HIDE DEF c
  <2>3. c \in DOMAIN records /\ origin[c] \in Binding
    BY <1>5, <2>2
  <2>4. origin[c] \in NamersOf(f)
    BY <1>4, <2>2, <2>3 DEF NamersOf
  <2>5. ASSUME NEW l \in NamersOf(f) PROVE origin[c] <= l
    <3>1. l \in Binding
      BY DEF NamersOf
    <3>2. PICK i \in Namers(F) : origin[i] = l
      BY <1>4, <3>1 DEF NamersOf
    <3>3. c < i \/ c = i
      BY <1>1, <1>5, <2>2, <2>3
    <3>4. CASE c < i
      BY <1>3, <1>5, <2>3, <3>2, <3>4 DEF InOrder
    <3>5. CASE c = i
      <4>1. origin[c] = l
        BY <3>2, <3>5, Zenon
      <4>2. l \in Nat
        BY <1>1, <3>1
      <4> QED
        BY <4>1, <4>2
    <3> QED
      BY <3>3, <3>4, <3>5
  <2>6. SuppressionOf(records[c]) = WrittenAs(origin[c])
    BY <1>3, <2>3, RecordsSay DEF InOrder, IsOne, Inv
  <2>7. NamesFirst(origin[c], f) /\ c \in RecordsFrom(origin[c])
    BY <2>3, <2>4, <2>5, <2>6 DEF NamesFirst, RecordsFrom
  <2> QED
    BY <1>7, <2>3, <2>7 DEF c, F
<1> QED
  BY <1>6, <1>7

(* The ledger withholds what the suppressions name in the world's own      *)
(* words and nothing else, each finding for the first suppression that     *)
(* names it, however many declarations it bound.                           *)
THEOREM WithholdsAsWritten == Spec => []AgreesWithTheWorld
BY Invariance, OriginsInvariance, AgreesHolds, PTL

-----------------------------------------------------------------------------
(* A set of positions has a first one. *)
LEMMA FirstPlace ==
  ASSUME NEW n \in Nat, NEW T, T \subseteq 1 .. n, T # {}
  PROVE  \E i \in T : \A j \in T : i <= j
<1> DEFINE Up == {1 .. i : i \in T}
<1>1. Up \subseteq FiniteSubsetsOf(Nat) /\ Up # {}
  <2> SUFFICES ASSUME NEW i \in T PROVE 1 .. i \in FiniteSubsetsOf(Nat)
    OBVIOUS
  <2>1. IsFiniteSet(1 .. i) /\ 1 .. i \subseteq Nat
    BY FS_Interval
  <2> QED
    BY <2>1, SMT DEF FiniteSubsetsOf
<1>2. IsWellFoundedOn(StrictSubsetOrdering(Nat), FiniteSubsetsOf(Nat))
  BY FS_StrictSubsetOrderingWellFounded
<1>3. PICK U \in Up : \A V \in Up : ~ (<<V, U>> \in StrictSubsetOrdering(Nat))
  <2> HIDE DEF Up
  <2> QED
    BY <1>1, <1>2, WFMin
<1>4. PICK i \in T : U = 1 .. i
  OBVIOUS
<1>5. ASSUME NEW j \in T, j < i PROVE FALSE
  <2>1. (1 .. j) \subseteq (1 .. i) /\ i \in 1 .. i /\ i \notin 1 .. j
    BY <1>5
  <2>2. <<1 .. j, 1 .. i>> \in StrictSubsetOrdering(Nat)
    BY <2>1 DEF StrictSubsetOrdering
  <2> QED
    BY <1>3, <1>4, <2>2
<1> QED
  BY <1>5

LEMMA StaleHolds == Inv /\ RecordsHaveOrigins /\ StaleVerdicts => StaleAsWritten
<1> SUFFICES ASSUME Inv, RecordsHaveOrigins, StaleVerdicts, phase = "decided", NEW k \in Binding
             PROVE  (RecordsFrom(k) \cap StaleRecords # {})
                      <=> /\ \A l \in Binding : \A f \in world.findings :
                               WrittenAs(l) = WrittenAs(k) => ~ NamesFirst(l, f)
                          /\ \A i \in RecordsFrom(k) : ~ Allowed(records[i])
  BY DEF StaleAsWritten
<1>1. /\ Len(verdicts) \in Nat /\ DOMAIN records = 1 .. Len(verdicts) /\ Binding \subseteq Nat
  BY LenProperties, ListDomain DEF Inv, TypeOK, Progress, Binding
<1>2. RecordsFrom(k) # {}
  <2>1. PICK origin \in [DOMAIN records -> Binding] : Whole(origin, k)
    BY DEF RecordsHaveOrigins, OriginsAre
  <2>2. PICK j \in DOMAIN RecordsWritten(k) : SuppressionOf(RecordsWritten(k)[j]) = WrittenAs(k)
    BY RecordsSay DEF Inv
  <2> QED
    BY <2>1, <2>2 DEF Whole, RecordsFrom
<1>3. ASSUME NEW i \in RecordsFrom(k)
      PROVE  IsStale(i) <=> \A j \in RecordsFrom(k) : verdicts[j] = "stale"
  BY DEF IsStale, RecordsFrom
<1>4. RecordsFrom(k) \cap StaleRecords # {} <=> \A j \in RecordsFrom(k) : verdicts[j] = "stale"
  <2>1. PICK i \in RecordsFrom(k) : \A j \in RecordsFrom(k) : i <= j
    BY <1>1, <1>2, FirstPlace DEF RecordsFrom
  <2>2. ASSUME \A j \in RecordsFrom(k) : verdicts[j] = "stale"
        PROVE  i \in StaleRecords
    <3>1. IsStale(i) /\ i \in DOMAIN records
      BY <1>3, <2>2 DEF RecordsFrom
    <3>2. ASSUME NEW j \in 1 .. i - 1 PROVE SuppressionOf(records[j]) # SuppressionOf(records[i])
      <4>1. j \in DOMAIN records /\ ~ (i <= j)
        BY <1>1, <3>1
      <4>2. j \notin RecordsFrom(k)
        BY <2>1, <4>1
      <4> QED
        BY <4>1, <4>2 DEF RecordsFrom
    <3> QED
      BY <3>1, <3>2 DEF StaleRecords
  <2> QED
    BY <1>3, <2>2 DEF StaleRecords
<1>5. (\A j \in RecordsFrom(k) : verdicts[j] = "stale")
        <=> /\ \A j \in RecordsFrom(k) : \A F \in Found : claims[F] # j
            /\ \A j \in RecordsFrom(k) : ~ Allowed(records[j])
  BY <1>1 DEF StaleVerdicts, RecordsFrom
<1>6. AgreesWithTheWorld
  BY AgreesHolds
<1>7. (\A j \in RecordsFrom(k) : \A F \in Found : claims[F] # j)
        <=> \A l \in Binding : \A f \in world.findings :
              WrittenAs(l) = WrittenAs(k) => ~ NamesFirst(l, f)
  <2>1. ASSUME NEW l \in Binding, NEW f \in world.findings,
               WrittenAs(l) = WrittenAs(k), NamesFirst(l, f)
        PROVE  FindingOf(world.decls, f) \in Found
                 /\ claims[FindingOf(world.decls, f)] \in RecordsFrom(k)
    <3>1. PICK m \in Binding :
            NamesFirst(m, f) /\ claims[FindingOf(world.decls, f)] \in RecordsFrom(m)
      BY <1>6, <2>1 DEF AgreesWithTheWorld, NamesFirst
    <3>2. m = l
      BY <1>1, <2>1, <3>1 DEF NamesFirst
    <3> QED
      BY <2>1, <3>1, <3>2 DEF RecordsFrom, Found
  <2>2. ASSUME NEW j \in RecordsFrom(k), NEW F \in Found, claims[F] = j
        PROVE  \E l \in Binding : \E f \in world.findings :
                 WrittenAs(l) = WrittenAs(k) /\ NamesFirst(l, f)
    <3>1. PICK f \in world.findings : F = FindingOf(world.decls, f)
      BY DEF Found
    <3>2. claims[F] # 0
      BY <1>1, <2>2 DEF RecordsFrom
    <3>3. PICK l \in Binding : NamesFirst(l, f) /\ claims[F] \in RecordsFrom(l)
      BY <1>6, <3>1, <3>2 DEF AgreesWithTheWorld
    <3>4. WrittenAs(l) = WrittenAs(k)
      BY <2>2, <3>3 DEF RecordsFrom
    <3> QED
      BY <3>3, <3>4
  <2> QED
    BY <2>1, <2>2
<1> QED
  BY <1>4, <1>5, <1>7

(* A suppression is reported stale exactly when it is the first to name no *)
(* finding and none of its records' codes is allowed.                      *)
THEOREM StaleIsAsWritten == Spec => []StaleAsWritten
BY Invariance, OriginsInvariance, StaleHolds, PTL
=============================================================================
