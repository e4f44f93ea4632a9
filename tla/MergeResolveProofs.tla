------------------------- MODULE MergeResolveProofs -------------------------
(***************************************************************************)
(* Proofs about MergeResolve, for every set of working sets that satisfies *)
(* WorldsAssumption: the outcome of the fixpoint, what is promoted, and    *)
(* that the passes implement MergeClosure.                                 *)
(***************************************************************************)
EXTENDS MergeResolve, FiniteSetTheorems, TLAPS

-----------------------------------------------------------------------------
(* The rules are monotone: dropping more keeps what was decided decided.   *)

(* An evaluation is decided unless its pair reads dead and none live. *)
LEMMA UndecidedIsDead ==
  ASSUME NEW w, NEW e, NEW D
  PROVE  DecideEvaluation(w, e, D) <=>
           ("live" \in OtherStates(w, e, D) \/ "dead" \notin OtherStates(w, e, D))
  BY Zenon DEF DecideEvaluation, StrongestOther, None

LEMMA EvaluationsMonotone ==
  ASSUME NEW w, NEW e, NEW D, NEW E, D \subseteq E, DecideEvaluation(w, e, D)
  PROVE  DecideEvaluation(w, e, E)
<1>1. "live" \in OtherStates(w, e, D) => "live" \in OtherStates(w, e, E)
  BY DEF OtherStates
<1>2. "dead" \notin OtherStates(w, e, D) => "dead" \notin OtherStates(w, e, E)
  BY DEF OtherStates
<1>3. QED
  BY <1>1, <1>2, UndecidedIsDead

LEMMA ReadsMonotone ==
  ASSUME NEW w, NEW r, NEW D, NEW E, D \subseteq E, ReadsLive(w, r, D)
  PROVE  ReadsLive(w, r, E)
  BY DEF ReadsLive, HeldLive, NameIsLive

LEMMA SchemasMonotone ==
  ASSUME NEW w, NEW s, NEW D, NEW E, D \subseteq E, DecideSchema(w, s, D)
  PROVE  DecideSchema(w, s, E)
  BY ReadsMonotone DEF DecideSchema

LEMMA ImplementersMonotone ==
  ASSUME NEW w, NEW r, NEW D, NEW E, D \subseteq E, DecideImplementer(w, r, D)
  PROVE  DecideImplementer(w, r, E)
  BY ReadsMonotone DEF DecideImplementer, HeldLive

LEMMA DecidedMonotone ==
  ASSUME NEW w, NEW D, NEW E, D \subseteq E
  PROVE  Decided(w, D) \subseteq Decided(w, E)
  BY EvaluationsMonotone, SchemasMonotone, ImplementersMonotone DEF Decided

(* A lower minimum withholds less, so what is closed stays closed. *)
LEMMA LowerWithholdsLess ==
  ASSUME NEW w \in Worlds, NEW m \in Minima, m < 2
  PROVE  Withheld(w, m + 1) \subseteq Withheld(w, m)
<1>1. ASSUME NEW i \in Dead(w, "schema")
      PROVE  PromotedClass(w, w.records[i]) \in Minima
  BY WorldsAssumption DEF PromotedClass, Minima, Dead, WithRole
<1>2. QED
  BY <1>1 DEF Withheld, Minima

LEMMA BlockedMonotone ==
  ASSUME NEW w, NEW D, NEW E, D \subseteq E
  PROVE  BlockedKeys(w, D) \subseteq BlockedKeys(w, E)
  BY DEF BlockedKeys

(* The components that can be dropped at all. *)
LEMMA DecidedAreComponents ==
  ASSUME NEW D
  PROVE  Decided(world, D) \subseteq Components
  BY DEF Decided, Components, Carrying

LEMMA WithheldAreComponents ==
  ASSUME NEW m
  PROVE  Withheld(world, m) \subseteq Components
  BY DEF Withheld, Components, Carrying

-----------------------------------------------------------------------------
(* Types. *)
WorldInv == world \in Worlds

(* DropWhere leaves the components in what it is given and one more.       *)
LEMMA DropWhereTypes ==
  ASSUME NEW decided, NEW c, c \in Components, dropped \subseteq Components, grew \in BOOLEAN,
         DropWhere(decided, c)
  PROVE  dropped' \subseteq Components /\ grew' \in BOOLEAN
<1>1. CASE decided /\ c \notin dropped
  <2>1. dropped' = dropped \union {c} /\ grew' = TRUE
    BY <1>1 DEF DropWhere
  <2>2. QED
    BY <2>1
<1>2. CASE ~ (decided /\ c \notin dropped)
  <2>1. dropped' = dropped /\ grew' = grew
    BY <1>2, Zenon DEF DropWhere
  <2>2. QED
    BY <2>1, Zenon
<1>3. QED
  BY <1>1, <1>2, Zenon

LEMMA PromotedAreCarried ==
  ASSUME TypeOK
  PROVE  PromotedKeys \subseteq CarriedKeys(world)
  BY DEF TypeOK, PromotedKeys, Promotion

(* What an action that moves only the phase and the list to visit keeps.   *)
LEMMA InitTypes == Init => WorldInv /\ TypeOK
<1> SUFFICES ASSUME Init PROVE WorldInv /\ TypeOK
  OBVIOUS
<1>1. WorldInv /\ caller \in Minima /\ minimum \in caller .. 2
  BY DEF Init, WorldInv, Minima
<1>2. phase \in Phases /\ grew \in BOOLEAN
  BY Zenon DEF Init, Phases, Resolving
<1>3. todo \subseteq ToVisit /\ dropped \subseteq Components
  BY DEF Init
<1>4. blocked \subseteq CarriedKeys(world) /\ shown \subseteq CarriedKeys(world) /\ promoted \subseteq Promotion
  BY DEF Init
<1>5. counts \in [Minima -> Nat]
  BY DEF Init
<1>6. QED
  BY <1>1, <1>2, <1>3, <1>4, <1>5 DEF TypeOK

LEMMA StepTypes ==
  ASSUME WorldInv, TypeOK, [Next]_vars
  PROVE  WorldInv' /\ TypeOK'
<1>1. world' = world
  BY DEF Next, vars, Withhold, Check, VisitEvaluation, VisitSchema, VisitImplementer, ToSchemas,
     ToImplementers, EndPass, Block, PromoteEvaluation, ToBindings, PromoteBindings, Count, Lower
<1>2. /\ Components' = Components /\ CarriedKeys(world') = CarriedKeys(world) /\ Promotion' = Promotion
  BY <1>1 DEF Components, Promotion
<1>3. WorldInv'
  BY <1>1 DEF WorldInv
<1>4. (caller \in Minima /\ minimum \in caller .. 2)'
  <2>1. CASE Lower
    BY <2>1 DEF Lower, TypeOK, Minima
  <2>2. CASE ~ Lower
    BY <2>2 DEF TypeOK, Next, vars, counting, Withhold, Check, VisitEvaluation, VisitSchema, VisitImplementer,
       ToSchemas, ToImplementers, EndPass, Block, PromoteEvaluation, ToBindings, PromoteBindings, Count
  <2>3. QED
    BY <2>1, <2>2
<1>5. phase' \in Phases
  BY DEF TypeOK, Phases, Resolving, PassPhases, Next, vars, Withhold, Check, StartPass, VisitEvaluation,
     VisitSchema, VisitImplementer, ToSchemas, ToImplementers, EndPass, Block, PromoteEvaluation,
     ToBindings, PromoteBindings, Count, Lower
<1>6. dropped' \subseteq Components /\ grew' \in BOOLEAN
  <2>1. ASSUME NEW i \in todo, VisitEvaluation(i) PROVE dropped' \subseteq Components /\ grew' \in BOOLEAN
    <3>1. world.evaluations[i].component \in Components
      BY <2>1 DEF VisitEvaluation, TypeOK, ToVisit, Components
    <3>2. QED
      BY <2>1, <3>1, DropWhereTypes DEF VisitEvaluation, TypeOK
  <2>2. ASSUME NEW i \in todo, VisitSchema(i) PROVE dropped' \subseteq Components /\ grew' \in BOOLEAN
    <3>1. world.records[i].component \in Components
      BY <2>2 DEF VisitSchema, TypeOK, ToVisit, Components, Carrying
    <3>2. QED
      BY <2>2, <3>1, DropWhereTypes DEF VisitSchema, TypeOK
  <2>3. ASSUME NEW i \in todo, VisitImplementer(i) PROVE dropped' \subseteq Components /\ grew' \in BOOLEAN
    <3>1. world.records[i].component \in Components
      BY <2>3 DEF VisitImplementer, TypeOK, ToVisit, Components, Carrying
    <3>2. QED
      BY <2>3, <3>1, DropWhereTypes DEF VisitImplementer, TypeOK
  <2>4. CASE Withhold \/ Lower
    <3>1. grew' = grew
      BY <2>4, Zenon DEF Withhold, Lower
    <3>2. dropped' \subseteq Components
      BY <2>4, WithheldAreComponents DEF Withhold, Lower
    <3>3. QED
      BY <3>1, <3>2, Zenon DEF TypeOK
  <2>5. CASE Check \/ EndPass
    <3>1. dropped' = dropped
      BY <2>5 DEF Check, EndPass
    <3>2. grew' = grew \/ grew' = FALSE
      BY <2>5, Zenon DEF Check, EndPass, StartPass
    <3>3. QED
      BY <3>1, <3>2, Zenon DEF TypeOK
  <2>6. CASE dropped' = dropped /\ grew' = grew
    BY <2>6, Zenon DEF TypeOK
  <2>7. QED
    <3>1. ToSchemas \/ ToImplementers \/ Block \/ (\E i \in todo : PromoteEvaluation(i)) \/ ToBindings
          \/ PromoteBindings \/ Count \/ UNCHANGED vars => dropped' = dropped /\ grew' = grew
      BY Zenon DEF ToSchemas, ToImplementers, Block, PromoteEvaluation, ToBindings, PromoteBindings, Count, vars
    <3>2. QED
      BY <2>1, <2>2, <2>3, <2>4, <2>5, <2>6, <3>1, Zenon DEF Next
<1>7. (todo \subseteq ToVisit)'
  BY <1>1 DEF TypeOK, ToVisit, Next, vars, Withhold, Check, StartPass, VisitEvaluation,
     VisitSchema, VisitImplementer, ToSchemas, ToImplementers, EndPass, Block, PromoteEvaluation,
     ToBindings, PromoteBindings, Count, Lower
<1>8. blocked' \subseteq CarriedKeys(world)
  <2>1. BlockedKeys(world, dropped) \subseteq CarriedKeys(world)
    BY DEF BlockedKeys, CarriedKeys
  <2>2. blocked' = blocked \/ blocked' = {} \/ blocked' = BlockedKeys(world, dropped)
    BY DEF Next, vars, Withhold, Check, VisitEvaluation, VisitSchema, VisitImplementer, ToSchemas,
       ToImplementers, EndPass, Block, PromoteEvaluation, ToBindings, PromoteBindings, Count, Lower
  <2>3. QED
    BY <2>1, <2>2 DEF TypeOK
<1>9. promoted' \subseteq Promotion
  <2>1. ASSUME NEW i \in todo, PromoteEvaluation(i) PROVE promoted' \subseteq Promotion
    <3>1. i \in DeadEvaluations(world) /\ Key(i) \in CarriedKeys(world)
      BY <2>1 DEF PromoteEvaluation, TypeOK, ToVisit, Key, CarriedKeys
    <3>2. UNION {p.evaluations : p \in Latest(Key(i))} \subseteq DeadEvaluations(world)
      BY DEF Latest, TypeOK, Promotion
    <3>3. Promote(i) => promoted' \subseteq Promotion
      BY <3>1, <3>2 DEF Promote, TypeOK, Promotion
    <3>4. QED
      BY <2>1, <3>3 DEF PromoteEvaluation, TypeOK
  <2>2. CASE PromoteBindings
    <3>1. BoundKeys \subseteq CarriedKeys(world) /\ \A k : Carriers(k) \subseteq Carrying(world)
      BY DEF BoundKeys, CarriedKeys, Carriers
    <3>2. QED
      BY <2>2, <3>1 DEF PromoteBindings, TypeOK, Promotion
  <2>3. CASE promoted' = promoted \/ promoted' = {}
    BY <2>3 DEF TypeOK
  <2>4. QED
    BY <2>1, <2>2, <2>3 DEF Next, vars, Withhold, Check, VisitEvaluation, VisitSchema, VisitImplementer,
       ToSchemas, ToImplementers, EndPass, Block, ToBindings, Count, Lower
<1>10. shown' \subseteq CarriedKeys(world) /\ counts' \in [Minima -> Nat]
  <2>1. CASE Count
    <3>1. Cardinality(PromotedKeys \ shown) \in Nat
      BY PromotedAreCarried, WorldsAssumption, FS_Subset, FS_CardinalityType DEF WorldInv
    <3>2. QED
      BY <2>1, <3>1, PromotedAreCarried DEF Count, TypeOK
  <2>2. CASE shown' = shown /\ counts' = counts
    BY <2>2 DEF TypeOK
  <2>3. QED
    BY <2>1, <2>2 DEF Next, vars, counting, Withhold, Check, VisitEvaluation, VisitSchema, VisitImplementer,
       ToSchemas, ToImplementers, EndPass, Block, PromoteEvaluation, ToBindings, PromoteBindings, Lower
<1>11. QED
  BY <1>1, <1>2, <1>3, <1>4, <1>5, <1>6, <1>7, <1>8, <1>9, <1>10 DEF TypeOK

(* Type correctness, for every set of working sets. *)
THEOREM TypeCorrect == Spec => []TypeOK
<1>1. Spec => [](WorldInv /\ TypeOK)
  BY InitTypes, StepTypes, PTL DEF Spec
<1>2. QED
  BY <1>1, PTL

-----------------------------------------------------------------------------
(* The fixpoint.                                                           *)

(* What the pass at hand has visited decides nothing more, unless it grew. *)
VisitedEvaluations == IF phase = "evaluations" THEN DeadEvaluations(world) \ todo ELSE DeadEvaluations(world)
VisitedSchemas ==
  CASE phase = "evaluations" -> {} [] phase = "schemas" -> Dead(world, "schema") \ todo [] OTHER -> Dead(world, "schema")
VisitedImplementers == IF phase = "implementers" THEN Dead(world, "implementer") \ todo ELSE {}

PassQuiet ==
  /\ \A i \in VisitedEvaluations :
       DecideEvaluation(world, world.evaluations[i], dropped) => world.evaluations[i].component \in dropped
  /\ \A i \in VisitedSchemas :
       DecideSchema(world, world.records[i], dropped) => world.records[i].component \in dropped
  /\ \A i \in VisitedImplementers :
       DecideImplementer(world, world.records[i], dropped) => world.records[i].component \in dropped

(* The drops are needed: whatever set is closed holds them. *)
DropsAreNeeded == \A D \in SUBSET Components : Closed(world, minimum, D) => dropped \subseteq D

WithheldFirst == IF phase = "withhold" THEN dropped = {} ELSE Withheld(world, minimum) \subseteq dropped

FixInv ==
  /\ DropsAreNeeded /\ WithheldFirst
  /\ phase \in PassPhases /\ grew = FALSE => PassQuiet
  /\ Settled => Closed(world, minimum, dropped)

(* A visit that drops a component drops one of every closed set. *)
LEMMA VisitNeeded ==
  ASSUME NEW c, DropsAreNeeded, dropped' \subseteq dropped \union {c}, world' = world, minimum' = minimum,
         c \in Decided(world, dropped) \/ dropped' = dropped
  PROVE  DropsAreNeeded'
<1> SUFFICES ASSUME NEW D \in SUBSET Components, Closed(world, minimum, D)
             PROVE  dropped' \subseteq D
  BY DEF DropsAreNeeded, Components
<1>1. dropped \subseteq D
  BY DEF DropsAreNeeded
<1>2. Decided(world, dropped) \subseteq D
  BY <1>1, DecidedMonotone DEF Closed
<1>3. QED
  BY <1>1, <1>2

LEMMA InitFix == Init => FixInv
  BY DEF Init, FixInv, DropsAreNeeded, WithheldFirst, PassPhases, Settled, Resolving

(* The three visits. *)
LEMMA VisitEvaluationFix ==
  ASSUME WorldInv, TypeOK, FixInv, NEW i \in todo, VisitEvaluation(i)
  PROVE  FixInv'
<1> DEFINE e == world.evaluations[i]
           decided == DecideEvaluation(world, e, dropped)
<1>1. /\ i \in DeadEvaluations(world) /\ phase = "evaluations" /\ phase' = "evaluations"
      /\ world' = world /\ minimum' = minimum /\ todo' = todo \ {i}
  BY DEF VisitEvaluation, counting, TypeOK, ToVisit
<1>3. DropWhere(decided, e.component)
  BY DEF VisitEvaluation
<1>4. CASE decided /\ e.component \notin dropped
  <2>1. dropped' = dropped \union {e.component} /\ grew' = TRUE
    BY <1>3, <1>4 DEF DropWhere
  <2>2. grew' # FALSE
    BY <2>1, Zenon
  <2>3. DropsAreNeeded'
    BY <1>1, <1>4, <2>1, VisitNeeded DEF FixInv, Decided
  <2>4. QED
    BY <1>1, <2>1, <2>2, <2>3 DEF FixInv, WithheldFirst, Settled, Resolving, PassPhases
<1>5. CASE ~ (decided /\ e.component \notin dropped)
  <2>1. dropped' = dropped /\ grew' = grew
    BY <1>3, <1>5, Zenon DEF DropWhere
  <2>2. DropsAreNeeded' /\ WithheldFirst'
    BY <1>1, <2>1, VisitNeeded DEF FixInv, WithheldFirst
  <2>3. PassQuiet => PassQuiet'
    BY <1>1, <1>5, <2>1 DEF PassQuiet, VisitedEvaluations, VisitedSchemas, VisitedImplementers
  <2>4. grew' = FALSE => PassQuiet'
    BY <1>1, <2>1, <2>3, Zenon DEF FixInv, PassPhases
  <2>5. QED
    BY <1>1, <2>2, <2>4 DEF FixInv, Settled, Resolving, PassPhases
<1>6. QED
  BY <1>4, <1>5

LEMMA VisitSchemaFix ==
  ASSUME WorldInv, TypeOK, FixInv, NEW i \in todo, VisitSchema(i)
  PROVE  FixInv'
<1> DEFINE s == world.records[i]
           decided == DecideSchema(world, s, dropped)
<1>1. /\ i \in Dead(world, "schema") /\ phase = "schemas" /\ phase' = "schemas"
      /\ world' = world /\ minimum' = minimum /\ todo' = todo \ {i}
  BY DEF VisitSchema, counting, TypeOK, ToVisit
<1>3. DropWhere(decided, s.component)
  BY DEF VisitSchema
<1>4. CASE decided /\ s.component \notin dropped
  <2>1. dropped' = dropped \union {s.component} /\ grew' = TRUE
    BY <1>3, <1>4 DEF DropWhere
  <2>2. grew' # FALSE
    BY <2>1, Zenon
  <2>3. DropsAreNeeded'
    BY <1>1, <1>4, <2>1, VisitNeeded DEF FixInv, Decided
  <2>4. QED
    BY <1>1, <2>1, <2>2, <2>3 DEF FixInv, WithheldFirst, Settled, Resolving, PassPhases
<1>5. CASE ~ (decided /\ s.component \notin dropped)
  <2>1. dropped' = dropped /\ grew' = grew
    BY <1>3, <1>5, Zenon DEF DropWhere
  <2>2. DropsAreNeeded' /\ WithheldFirst'
    BY <1>1, <2>1, VisitNeeded DEF FixInv, WithheldFirst
  <2>3. PassQuiet => PassQuiet'
    BY <1>1, <1>5, <2>1 DEF PassQuiet, VisitedEvaluations, VisitedSchemas, VisitedImplementers
  <2>4. grew' = FALSE => PassQuiet'
    BY <1>1, <2>1, <2>3, Zenon DEF FixInv, PassPhases
  <2>5. QED
    BY <1>1, <2>2, <2>4 DEF FixInv, Settled, Resolving, PassPhases
<1>6. QED
  BY <1>4, <1>5

LEMMA VisitImplementerFix ==
  ASSUME WorldInv, TypeOK, FixInv, NEW i \in todo, VisitImplementer(i)
  PROVE  FixInv'
<1> DEFINE r == world.records[i]
           decided == DecideImplementer(world, r, dropped)
<1>1. /\ i \in Dead(world, "implementer") /\ phase = "implementers" /\ phase' = "implementers"
      /\ world' = world /\ minimum' = minimum /\ todo' = todo \ {i}
  BY DEF VisitImplementer, counting, TypeOK, ToVisit
<1>3. DropWhere(decided, r.component)
  BY DEF VisitImplementer
<1>4. CASE decided /\ r.component \notin dropped
  <2>1. dropped' = dropped \union {r.component} /\ grew' = TRUE
    BY <1>3, <1>4 DEF DropWhere
  <2>2. grew' # FALSE
    BY <2>1, Zenon
  <2>3. DropsAreNeeded'
    BY <1>1, <1>4, <2>1, VisitNeeded DEF FixInv, Decided
  <2>4. QED
    BY <1>1, <2>1, <2>2, <2>3 DEF FixInv, WithheldFirst, Settled, Resolving, PassPhases
<1>5. CASE ~ (decided /\ r.component \notin dropped)
  <2>1. dropped' = dropped /\ grew' = grew
    BY <1>3, <1>5, Zenon DEF DropWhere
  <2>2. DropsAreNeeded' /\ WithheldFirst'
    BY <1>1, <2>1, VisitNeeded DEF FixInv, WithheldFirst
  <2>3. PassQuiet => PassQuiet'
    BY <1>1, <1>5, <2>1 DEF PassQuiet, VisitedEvaluations, VisitedSchemas, VisitedImplementers
  <2>4. grew' = FALSE => PassQuiet'
    BY <1>1, <2>1, <2>3, Zenon DEF FixInv, PassPhases
  <2>5. QED
    BY <1>1, <2>2, <2>4 DEF FixInv, Settled, Resolving, PassPhases
<1>6. QED
  BY <1>4, <1>5

(* A pass that ends without growth has visited everything. *)
LEMMA QuietIsClosed ==
  ASSUME TypeOK, FixInv, phase = "implementers", todo = {}, grew = FALSE
  PROVE  Closed(world, minimum, dropped)
<1>1. PassQuiet /\ Withheld(world, minimum) \subseteq dropped
  BY DEF FixInv, PassPhases, WithheldFirst
<1>2. Decided(world, dropped) \subseteq dropped
  BY <1>1 DEF PassQuiet, VisitedEvaluations, VisitedSchemas, VisitedImplementers, Decided
<1>3. QED
  BY <1>1, <1>2 DEF Closed

LEMMA StepFix ==
  ASSUME WorldInv, TypeOK, FixInv, [Next]_vars
  PROVE  FixInv'
<1>1. CASE Withhold
  <2>1. /\ phase' = "check" /\ dropped' = Withheld(world, minimum) /\ world' = world /\ minimum' = minimum
    BY <1>1 DEF Withhold, counting
  <2>2. DropsAreNeeded'
    BY <2>1 DEF DropsAreNeeded, Closed, Components
  <2>3. QED
    BY <2>1, <2>2 DEF FixInv, WithheldFirst, PassPhases, Settled, Resolving
<1>2. CASE Check
  <2>1. /\ dropped' = dropped /\ world' = world /\ minimum' = minimum /\ phase = "check"
        /\ phase' = "refused" \/ (phase' = "evaluations" /\ todo' = DeadEvaluations(world))
    BY <1>2 DEF Check, StartPass, counting
  <2>2. DropsAreNeeded' /\ WithheldFirst'
    BY <2>1 DEF FixInv, DropsAreNeeded, WithheldFirst, Components
  <2>3. phase' \in PassPhases => PassQuiet'
    BY <2>1 DEF PassPhases, PassQuiet, VisitedEvaluations, VisitedSchemas, VisitedImplementers
  <2>4. QED
    BY <2>1, <2>2, <2>3 DEF FixInv, PassPhases, Settled, Resolving
<1>3. ASSUME NEW i \in todo, VisitEvaluation(i) \/ VisitSchema(i) \/ VisitImplementer(i) PROVE FixInv'
  BY <1>3, VisitEvaluationFix, VisitSchemaFix, VisitImplementerFix
<1>4. CASE ToSchemas \/ ToImplementers
  <2>1. /\ dropped' = dropped /\ world' = world /\ minimum' = minimum
        /\ phase \in PassPhases /\ phase' \in PassPhases
    BY <1>4 DEF ToSchemas, ToImplementers, counting, PassPhases
  <2>2. grew' = grew
    BY <1>4, Zenon DEF ToSchemas, ToImplementers
  <2>3. DropsAreNeeded' /\ WithheldFirst'
    BY <2>1 DEF FixInv, DropsAreNeeded, WithheldFirst, Components, PassPhases
  <2>4. PassQuiet => PassQuiet'
    BY <1>4, <2>1 DEF ToSchemas, ToImplementers, PassQuiet, VisitedEvaluations, VisitedSchemas, VisitedImplementers
  <2>5. grew' = FALSE => PassQuiet'
    BY <2>1, <2>2, <2>4, Zenon DEF FixInv
  <2>6. QED
    BY <2>1, <2>3, <2>5 DEF FixInv, PassPhases, Settled, Resolving
<1>5. CASE EndPass
  <2>1. /\ dropped' = dropped /\ world' = world /\ minimum' = minimum /\ phase = "implementers" /\ todo = {}
    BY <1>5 DEF EndPass, counting
  <2>2. DropsAreNeeded'
    BY <2>1 DEF FixInv, DropsAreNeeded, Components
  <2>3. CASE phase' = "evaluations" /\ todo' = DeadEvaluations(world)
    <3>1. PassQuiet'
      BY <2>1, <2>3 DEF PassQuiet, VisitedEvaluations, VisitedSchemas, VisitedImplementers
    <3>2. QED
      BY <2>1, <2>2, <2>3, <3>1 DEF FixInv, WithheldFirst, PassPhases, Settled, Resolving
  <2>4. CASE ~ grew /\ phase' = "block"
    <3>1. grew = FALSE
      BY <2>4, Zenon DEF TypeOK
    <3>2. Closed(world, minimum, dropped)
      BY <2>1, <3>1, QuietIsClosed
    <3>3. QED
      BY <2>1, <2>2, <2>4, <3>2 DEF FixInv, WithheldFirst, PassPhases
  <2>5. QED
    BY <1>5, <2>3, <2>4, Zenon DEF EndPass, StartPass
<1>6. CASE Block \/ (\E i \in todo : PromoteEvaluation(i)) \/ ToBindings \/ PromoteBindings \/ Count
  <2>1. /\ dropped' = dropped /\ world' = world /\ minimum' = minimum
        /\ phase \in {"block", "promote", "bind", "count"} /\ phase' \in {"promote", "bind", "count", "counted"}
    BY <1>6 DEF Block, PromoteEvaluation, ToBindings, PromoteBindings, Count, counting
  <2>2. DropsAreNeeded' /\ WithheldFirst'
    BY <2>1 DEF FixInv, DropsAreNeeded, WithheldFirst, Components
  <2>3. QED
    BY <2>1, <2>2 DEF FixInv, PassPhases, Settled, Resolving
<1>7. CASE Lower
  BY <1>7 DEF Lower, FixInv, DropsAreNeeded, WithheldFirst, PassPhases, Settled, Resolving
<1>8. CASE UNCHANGED vars
  <2>1. /\ world' = world /\ minimum' = minimum /\ phase' = phase /\ todo' = todo /\ dropped' = dropped
    BY <1>8 DEF vars
  <2>2. grew' = grew
    BY <1>8, Zenon DEF vars
  <2>3. DropsAreNeeded' /\ WithheldFirst'
    BY <2>1 DEF FixInv, DropsAreNeeded, WithheldFirst, Components
  <2>4. PassQuiet => PassQuiet'
    BY <2>1 DEF PassQuiet, VisitedEvaluations, VisitedSchemas, VisitedImplementers
  <2>5. phase' \in PassPhases /\ grew' = FALSE => PassQuiet'
    BY <2>1, <2>2, <2>4, Zenon DEF FixInv
  <2>6. QED
    BY <2>1, <2>3, <2>5 DEF FixInv, Settled
<1>9. QED
  BY <1>1, <1>2, <1>3, <1>4, <1>5, <1>6, <1>7, <1>8, Zenon DEF Next

(* The passes end with the least closed set, whatever their order. *)
THEOREM OutcomeIsTheLeast == Spec => []OutcomeIsLeast
<1>1. Spec => [](WorldInv /\ TypeOK /\ FixInv)
  BY InitTypes, InitFix, StepTypes, StepFix, PTL DEF Spec
<1>2. FixInv => OutcomeIsLeast
  BY DEF FixInv, DropsAreNeeded, OutcomeIsLeast
<1>3. QED
  BY <1>1, <1>2, PTL

-----------------------------------------------------------------------------
(* No live symbol keeps what stays reported, which is what closed means in *)
(* the words of the report.  A dead symbol of a component that stays is    *)
(* reported or kept for another's sake, and a reported one's stays.        *)
LEMMA DeadAndStaying ==
  ASSUME NEW r, r.state = "dead", r.component \notin dropped
  PROVE  ReportedOrKept(r)
BY DEF ReportedOrKept, Reported, KeptElsewhere

LEMMA ReportedStays ==
  /\ \A i \in DeadEvaluations(world) :
       Reported(world.evaluations[i]) => world.evaluations[i].component \notin dropped
  /\ \A i \in Carrying(world) : Reported(Record(i)) => Record(i).component \notin dropped
BY DEF Reported, BlockedKeys, KeysOf, Record

LEMMA ClosedEvaluations ==
  ASSUME Closed(world, minimum, dropped)
  PROVE  EvaluationsNotHeld
<1> SUFFICES ASSUME NEW i \in DeadEvaluations(world), Reported(world.evaluations[i])
             PROVE  /\ \A e \in OtherSideOf(i) : e.state # "live" /\ (e.state = "dead" => ReportedOrKept(e))
                    /\ \E e \in OtherSideOf(i) : ReportedOrKept(e)
  BY DEF EvaluationsNotHeld
<1> DEFINE states == OtherStates(world, world.evaluations[i], dropped)
<1>1. ~ DecideEvaluation(world, world.evaluations[i], dropped)
  BY ReportedStays DEF Closed, Decided
<1>2. "live" \notin states /\ "dead" \in states
  BY <1>1, UndecidedIsDead
<1>3. \A e \in OtherSideOf(i) : e.state # "live" /\ (e.state = "dead" => e.component \notin dropped)
  BY <1>2 DEF OtherStates, OtherSideOf
<1>4. \E e \in OtherSideOf(i) : e.state = "dead" /\ e.component \notin dropped
  BY <1>2 DEF OtherStates, OtherSideOf
<1>5. QED
  BY <1>3, <1>4, DeadAndStaying

(* A record that does not read live is dead, where its state can be.       *)
LEMMA ViaIsDead ==
  ASSUME NEW r, r.role = "consumer", ~ ReadsLive(world, r, dropped),
         r.state \in {"live", "unreferenced", None},
         \A j \in WithRole(world, "implementer") : world.records[j].state \in {"live", "dead", None}
  PROVE  IF r.via = {} THEN r.state = "unreferenced" ELSE HangsOnTheDead(r)
<1>1. r.state # None
  <2>1. r.state = None => HeldLive(r, dropped) /\ ~ IsViaConsumer(r)
    BY DEF HeldLive, IsViaConsumer
  <2>2. QED
    BY <2>1 DEF ReadsLive
<1>2. CASE r.via = {}
  BY <1>1, <1>2 DEF ReadsLive, IsViaConsumer, HeldLive
<1>3. CASE r.via # {}
  <2>1. \A name \in r.via : ~ NameIsLive(world, r.analyzer, name, dropped)
    BY <1>1, <1>3 DEF ReadsLive, IsViaConsumer
  <2>2. QED
    BY <1>3, <2>1, DeadAndStaying DEF NameIsLive, HeldLive, HangsOnTheDead, Record, Implementer, WithRole
<1>4. QED
  BY <1>2, <1>3

LEMMA SchemaIsDead ==
  ASSUME WorldInv, NEW j \in WithRole(world, "schema"), ~ ReadsLive(world, Record(j), dropped)
  PROVE  ReportedOrKept(Record(j))
<1>1. Record(j).state \in {"live", "dead"} /\ Record(j).role = "schema"
  BY WorldsAssumption DEF WorldInv, WithRole, Record, StatesOf
<1>2. QED
  BY <1>1, DeadAndStaying DEF ReadsLive, IsViaConsumer, HeldLive

LEMMA ClosedSchemas ==
  ASSUME WorldInv, Closed(world, minimum, dropped)
  PROVE  SchemasNotHeld
<1> SUFFICES ASSUME NEW i \in Dead(world, "schema"), Reported(Record(i))
             PROVE  /\ \E j \in WithRole(world, "consumer") : Matching(Record(j), Record(i))
                    /\ \A j \in WithRole(world, "consumer") : Matching(Record(j), Record(i)) =>
                         IF Record(j).via = {} THEN Record(j).state = "unreferenced"
                         ELSE HangsOnTheDead(Record(j))
                    /\ \A j \in WithRole(world, "schema") :
                         \/ Record(i).schema \in Record(j).uses
                         \/ /\ Record(j).schema \in Record(i).members
                            /\ SameSchemaFile(Record(j).file, Record(i).file)
                         => ReportedOrKept(Record(j))
  BY DEF SchemasNotHeld
<1>1. ~ DecideSchema(world, Record(i), dropped)
  BY ReportedStays DEF Closed, Decided, Carrying, Record
<1>2. /\ Bindings(world, Record(i)) # {}
      /\ \A j \in Bindings(world, Record(i)) : ~ ReadsLive(world, Record(j), dropped)
  BY <1>1 DEF DecideSchema, Record
<1>3. \A j \in Bindings(world, Record(i)) : Record(j).role # "fallback"
  BY <1>2 DEF ReadsLive, IsViaConsumer, HeldLive
<1>4. \A j : j \in Bindings(world, Record(i)) /\ Record(j).role # "fallback" <=>
              j \in WithRole(world, "consumer") /\ Matching(Record(j), Record(i))
  BY DEF Bindings, WithRole, Matching, Record
<1>5. \E j \in WithRole(world, "consumer") : Matching(Record(j), Record(i))
  BY <1>2, <1>3, <1>4
<1>6. ASSUME NEW j \in WithRole(world, "consumer"), Matching(Record(j), Record(i))
      PROVE  IF Record(j).via = {} THEN Record(j).state = "unreferenced" ELSE HangsOnTheDead(Record(j))
  <2>1. Record(j).role = "consumer" /\ ~ ReadsLive(world, Record(j), dropped)
    BY <1>2, <1>4, <1>6 DEF WithRole, Record
  <2>2. Record(j).state \in {"live", "unreferenced", None}
    BY <2>1, WorldsAssumption DEF WorldInv, WithRole, Record, StatesOf
  <2>3. \A k \in WithRole(world, "implementer") : world.records[k].state \in {"live", "dead", None}
    BY WorldsAssumption DEF WorldInv, WithRole, StatesOf
  <2>4. QED
    BY <2>1, <2>2, <2>3, ViaIsDead
<1>7. ASSUME NEW j \in WithRole(world, "schema"),
             \/ Record(i).schema \in Record(j).uses
             \/ /\ Record(j).schema \in Record(i).members
                /\ SameSchemaFile(Record(j).file, Record(i).file)
      PROVE  ReportedOrKept(Record(j))
  <2>1. ~ ReadsLive(world, Record(j), dropped)
    BY <1>1, <1>7 DEF DecideSchema, SchemaRecords, WithRole, Record
  <2>2. QED
    BY <2>1, SchemaIsDead
<1>8. QED
  BY <1>5, <1>6, <1>7

LEMMA ClosedImplementers ==
  ASSUME WorldInv, Closed(world, minimum, dropped)
  PROVE  ImplementersNotHeld
<1> SUFFICES ASSUME NEW i \in Dead(world, "implementer"), Reported(Record(i))
             PROVE  /\ \E j \in WithRole(world, "schema") : Matching(Record(j), Record(i))
                    /\ \A j \in WithRole(world, "schema") :
                         Matching(Record(j), Record(i)) => ReportedOrKept(Record(j))
                    /\ \A name \in Record(i).via :
                         \A j \in Implementer(world, Record(i).analyzer, name) : ReportedOrKept(Record(j))
  BY DEF ImplementersNotHeld
<1>1. ~ DecideImplementer(world, Record(i), dropped)
  BY ReportedStays DEF Closed, Decided, Carrying, Record
<1>2. SchemaRecords(world, Record(i).schema, Record(i).file) =
        {j \in WithRole(world, "schema") : Matching(Record(j), Record(i))}
  BY DEF SchemaRecords, Matching, Record
<1>3. \A j \in WithRole(world, "schema") : Matching(Record(j), Record(i)) => ReportedOrKept(Record(j))
  BY <1>1, <1>2, SchemaIsDead DEF DecideImplementer, Record
<1>4. ASSUME NEW name \in Record(i).via, NEW j \in Implementer(world, Record(i).analyzer, name)
      PROVE  ReportedOrKept(Record(j))
  <2>1. Record(j).state \in {"live", "dead", None}
    BY WorldsAssumption DEF WorldInv, Implementer, WithRole, Record, StatesOf
  <2>2. ~ HeldLive(Record(j), dropped)
    BY <1>1 DEF DecideImplementer, Record
  <2>3. QED
    BY <2>1, <2>2, DeadAndStaying DEF HeldLive
<1>5. QED
  BY <1>1, <1>2, <1>3, <1>4 DEF DecideImplementer

(* Nothing read as live keeps what is reported: the dead symbols it hangs   *)
(* on are reported too, or kept out for another component that carries the *)
(* same finding (merge_reference_test.go:874 and 888).                     *)
THEOREM WhatIsReportedIsNotHeld == Spec => []NothingReportedIsHeld
<1>1. Spec => [](WorldInv /\ TypeOK /\ FixInv)
  BY InitTypes, InitFix, StepTypes, StepFix, PTL DEF Spec
<1>2. WorldInv /\ FixInv => NothingReportedIsHeld
  BY ClosedEvaluations, ClosedSchemas, ClosedImplementers DEF FixInv, NothingReportedIsHeld
<1>3. QED
  BY <1>1, <1>2, PTL

-----------------------------------------------------------------------------
(* What is promoted.                                                       *)
OncePromoted == \A p, q \in promoted : p.key = q.key => p = q

PromotionInv ==
  /\ OncePromoted
  /\ phase \in Resolving \union {"block", "refused"} => promoted = {}
  /\ phase \in {"promote", "bind", "count", "counted"} => blocked = BlockedKeys(world, dropped)
  /\ phase \in {"promote", "bind"} => PromotedKeys = {Key(i) : i \in DeadEvaluations(world) \ todo} \ blocked
  /\ phase = "promote" => \A p \in promoted, i \in todo : p.key <= Key(i)
  /\ phase \in {"count", "counted"} => PromotedKeys = CarriedKeys(world) \ blocked

LEMMA KeysAreInts ==
  ASSUME WorldInv
  PROVE  \A i \in DeadEvaluations(world) : Key(i) \in Int
  BY WorldsAssumption DEF WorldInv, CarriedKeys, Key

LEMMA InitPromotion == Init => PromotionInv
  BY DEF Init, PromotionInv, OncePromoted, Resolving

(* The evaluation visited next is joined to the promotion of its finding,  *)
(* which is the last one, as the order is that of the keys.                *)
LEMMA PromoteEvaluationPromotes ==
  ASSUME WorldInv, TypeOK, PromotionInv, NEW i \in todo, PromoteEvaluation(i)
  PROVE  PromotionInv'
<1>1. /\ phase = "promote" /\ phase' = "promote" /\ world' = world /\ dropped' = dropped
      /\ blocked' = blocked /\ todo' = todo \ {i} /\ i \in DeadEvaluations(world)
      /\ todo \subseteq DeadEvaluations(world)
  BY DEF PromoteEvaluation, TypeOK, ToVisit
<1>2. blocked = BlockedKeys(world, dropped)
  BY <1>1 DEF PromotionInv
<1>3. MayPromote(i) <=> Key(i) \notin blocked
  BY <1>1, <1>2 DEF MayPromote, BlockedKeys, Key
<1>4. /\ Key(i) \in Int /\ \A j \in todo : Key(j) \in Int /\ Key(i) <= Key(j)
      /\ \A p \in promoted : p.key \in Int /\ p.key <= Key(i)
  <2>1. Key(i) \in Int /\ \A j \in todo : Key(j) \in Int
    BY <1>1, KeysAreInts
  <2>2. \A j \in todo : Key(i) <= Key(j)
    BY <2>1 DEF PromoteEvaluation, CanonicalFirst
  <2>3. \A p \in promoted : p.key \in Int
    BY WorldsAssumption DEF WorldInv, TypeOK, Promotion
  <2>4. QED
    BY <1>1, <2>1, <2>2, <2>3 DEF PromotionInv
<1>5. CASE MayPromote(i)
  <2>1. Latest(Key(i)) = {p \in promoted : p.key = Key(i)}
    BY <1>4 DEF Latest
  <2> DEFINE entry == [key |-> Key(i), records |-> {},
                       evaluations |-> {i} \union UNION {p.evaluations : p \in Latest(Key(i))}]
  <2>2. promoted' = {p \in promoted : p.key # Key(i)} \union {entry} /\ entry.key = Key(i)
    BY <1>5, <2>1 DEF PromoteEvaluation, Promote
  <2> HIDE DEF entry
  <2>3. OncePromoted'
    BY <2>2 DEF OncePromoted, PromotionInv
  <2>4. PromotedKeys' = PromotedKeys \union {Key(i)}
    BY <2>2 DEF PromotedKeys
  <2>5. \A j \in DeadEvaluations(world) : Key(j)' = Key(j)
    BY <1>1 DEF Key
  <2>6. PromotedKeys' = {Key(j)' : j \in DeadEvaluations(world') \ todo'} \ blocked'
    BY <1>1, <1>3, <1>5, <2>4, <2>5 DEF PromotionInv
  <2>7. \A p \in promoted', j \in todo' : p.key <= Key(j)'
    BY <1>1, <1>4, <2>2, <2>5
  <2>8. QED
    BY <1>1, <1>2, <2>3, <2>6, <2>7 DEF PromotionInv, Resolving, PassPhases
<1>6. CASE ~ MayPromote(i)
  <2>1. promoted' = promoted
    BY <1>6 DEF PromoteEvaluation
  <2>2. OncePromoted' /\ PromotedKeys' = PromotedKeys
    BY <2>1 DEF OncePromoted, PromotionInv, PromotedKeys
  <2>3. \A j \in DeadEvaluations(world) : Key(j)' = Key(j)
    BY <1>1 DEF Key
  <2>4. PromotedKeys' = {Key(j)' : j \in DeadEvaluations(world') \ todo'} \ blocked'
    BY <1>1, <1>3, <1>6, <2>2, <2>3 DEF PromotionInv
  <2>5. \A p \in promoted', j \in todo' : p.key <= Key(j)'
    BY <1>1, <2>1, <2>3 DEF PromotionInv
  <2>6. QED
    BY <1>1, <1>2, <2>2, <2>4, <2>5 DEF PromotionInv, Resolving, PassPhases
<1>7. QED
  BY <1>5, <1>6

(* The records' findings are joined to the evaluations'.                   *)
LEMMA PromoteBindingsPromotes ==
  ASSUME WorldInv, TypeOK, PromotionInv, PromoteBindings
  PROVE  PromotionInv'
<1>1. /\ phase = "bind" /\ phase' = "count" /\ world' = world /\ dropped' = dropped
      /\ blocked' = blocked /\ todo = {}
  BY DEF PromoteBindings, TypeOK, ToVisit
<1> DEFINE joined(p) == [p EXCEPT !.records = IF p.key \in BoundKeys THEN Carriers(p.key) ELSE {}]
           fresh(k) == [key |-> k, evaluations |-> {}, records |-> Carriers(k)]
<1>2. promoted' = {joined(p) : p \in promoted} \union {fresh(k) : k \in BoundKeys \ PromotedKeys}
  BY DEF PromoteBindings
<1>3. (\A p \in promoted : joined(p).key = p.key) /\ \A k : fresh(k).key = k
  BY DEF TypeOK, Promotion
<1> HIDE DEF joined, fresh
<1>4. OncePromoted'
  BY <1>2, <1>3 DEF OncePromoted, PromotionInv, PromotedKeys
<1>5. PromotedKeys' = PromotedKeys \union BoundKeys
  BY <1>2, <1>3 DEF PromotedKeys
<1>6. PromotedKeys = {Key(i) : i \in DeadEvaluations(world)} \ blocked
  BY <1>1 DEF PromotionInv
<1>7. PromotedKeys' = CarriedKeys(world) \ blocked
  <2> DEFINE edges == {Key(i) : i \in DeadEvaluations(world)}
             bound == UNION {KeysOf(world, i) : i \in Carrying(world)}
  <2>1. CarriedKeys(world) = edges \union bound
    BY Zenon DEF CarriedKeys, Key
  <2>2. BoundKeys = bound \ blocked
    BY Zenon DEF BoundKeys
  <2>3. PromotedKeys = edges \ blocked
    BY <1>6
  <2> HIDE DEF edges, bound
  <2>4. QED
    BY <1>5, <2>1, <2>2, <2>3
<1>8. QED
  BY <1>1, <1>4, <1>7 DEF PromotionInv, Resolving, PassPhases

LEMMA StepPromotion ==
  ASSUME WorldInv, TypeOK, PromotionInv, [Next]_vars
  PROVE  PromotionInv'
<1>1. CASE \E i \in todo : PromoteEvaluation(i)
  BY <1>1, PromoteEvaluationPromotes
<1>2. CASE PromoteBindings
  BY <1>2, PromoteBindingsPromotes
<1>3. CASE \/ Withhold \/ Check \/ ToSchemas \/ ToImplementers \/ EndPass
           \/ \E i \in todo : VisitEvaluation(i) \/ VisitSchema(i) \/ VisitImplementer(i)
  <2>1. /\ phase \in Resolving /\ promoted' = promoted
        /\ phase' \in Resolving \union {"block", "refused"}
    BY <1>3 DEF Withhold, Check, StartPass, ToSchemas, ToImplementers, EndPass, VisitEvaluation, VisitSchema,
       VisitImplementer, Resolving, PassPhases
  <2>2. QED
    BY <2>1 DEF PromotionInv, OncePromoted, Resolving, PassPhases
<1>4. CASE Block
  <2>1. /\ phase = "block" /\ phase' = "promote" /\ promoted = {} /\ promoted' = {} /\ world' = world
        /\ dropped' = dropped /\ blocked' = BlockedKeys(world, dropped) /\ todo' = DeadEvaluations(world)
    BY <1>4 DEF Block, PromotionInv
  <2>2. QED
    BY <2>1 DEF PromotionInv, OncePromoted, PromotedKeys, Resolving, PassPhases
<1>5. CASE ToBindings
  <2>1. /\ phase = "promote" /\ phase' = "bind" /\ UNCHANGED <<world, todo, dropped, blocked, promoted>>
    BY <1>5 DEF ToBindings
  <2>2. QED
    BY <2>1 DEF PromotionInv, OncePromoted, PromotedKeys, Key, Resolving, PassPhases
<1>6. CASE Count
  <2>1. /\ phase = "count" /\ phase' = "counted" /\ UNCHANGED <<world, dropped, blocked, promoted>>
    BY <1>6 DEF Count
  <2>2. QED
    BY <2>1 DEF PromotionInv, OncePromoted, PromotedKeys, Resolving, PassPhases
<1>7. CASE Lower
  BY <1>7 DEF Lower, PromotionInv, OncePromoted, Resolving
<1>8. CASE UNCHANGED vars
  BY <1>8 DEF vars, PromotionInv, OncePromoted, PromotedKeys, Key, Resolving, PassPhases
<1>9. QED
  BY <1>1, <1>2, <1>3, <1>4, <1>5, <1>6, <1>7, <1>8 DEF Next

LEMMA BlockedAreCarriedByDropped ==
  ASSUME NEW key
  PROVE  key \in BlockedKeys(world, dropped) <=> ComponentsCarrying(key) \cap dropped # {}
  BY DEF BlockedKeys, ComponentsCarrying, Carriers, Key, Record

(* A finding is promoted once, where no dropped component carries it.      *)
THEOREM PromotesExactly == Spec => []PromotedExactly
<1>1. Spec => [](WorldInv /\ TypeOK /\ PromotionInv)
  BY InitTypes, InitPromotion, StepTypes, StepPromotion, PTL DEF Spec
<1>2. PromotionInv => PromotedExactly
  BY BlockedAreCarriedByDropped DEF PromotionInv, OncePromoted, PromotedExactly
<1>3. QED
  BY <1>1, <1>2, PTL

-----------------------------------------------------------------------------
(* Lowering the minimum.  What was shown before is blocked by some closed  *)
(* set under the minimum at hand only where the least one blocks it too.   *)
ShownInv ==
  \E D \in SUBSET Components :
    Closed(world, minimum, D) /\ shown \subseteq CarriedKeys(world) \ BlockedKeys(world, D)

LEMMA InitShown == Init => ShownInv
<1> SUFFICES ASSUME Init PROVE ShownInv
  OBVIOUS
<1>1. Closed(world, minimum, Components)
  BY DecidedAreComponents, WithheldAreComponents DEF Closed
<1>2. shown = {}
  BY DEF Init
<1>3. QED
  BY <1>1, <1>2 DEF ShownInv

LEMMA StepShown ==
  ASSUME WorldInv, TypeOK, FixInv, PromotionInv, ShownInv, [Next]_vars
  PROVE  ShownInv'
<1>1. CASE Count
  <2>1. /\ phase = "count" /\ world' = world /\ minimum' = minimum /\ shown' = shown \union PromotedKeys
    BY <1>1 DEF Count
  <2>2. /\ Closed(world, minimum, dropped)
        /\ PromotedKeys = CarriedKeys(world) \ BlockedKeys(world, dropped)
    BY <2>1 DEF FixInv, Settled, Resolving, PassPhases, PromotionInv
  <2>3. PICK D \in SUBSET Components :
          Closed(world, minimum, D) /\ shown \subseteq CarriedKeys(world) \ BlockedKeys(world, D)
    BY DEF ShownInv
  <2>4. BlockedKeys(world, dropped) \subseteq BlockedKeys(world, D)
    BY <2>3, BlockedMonotone DEF FixInv, DropsAreNeeded
  <2>5. shown' \subseteq CarriedKeys(world) \ BlockedKeys(world, dropped)
    BY <2>1, <2>2, <2>3, <2>4
  <2>6. dropped \in SUBSET Components /\ Components' = Components
    BY <2>1 DEF TypeOK, Components
  <2>7. QED
    BY <2>1, <2>2, <2>5, <2>6 DEF ShownInv
<1>2. CASE Lower
  <2>1. /\ world' = world /\ minimum' = minimum + 1 /\ minimum < 2 /\ shown' = shown
        /\ Components' = Components
    BY <1>2 DEF Lower, Components
  <2>2. PICK D \in SUBSET Components :
          Closed(world, minimum, D) /\ shown \subseteq CarriedKeys(world) \ BlockedKeys(world, D)
    BY DEF ShownInv
  <2>3. Withheld(world, minimum + 1) \subseteq Withheld(world, minimum)
    BY <2>1, LowerWithholdsLess DEF WorldInv, TypeOK, Minima
  <2>4. Closed(world, minimum + 1, D)
    BY <2>2, <2>3 DEF Closed
  <2>5. QED
    BY <2>1, <2>2, <2>4 DEF ShownInv
<1>3. CASE world' = world /\ minimum' = minimum /\ shown' = shown
  <2>1. Components' = Components
    BY <1>3 DEF Components
  <2>2. QED
    BY <1>3, <2>1 DEF ShownInv
<1>4. QED
  BY <1>1, <1>2, <1>3 DEF Next, vars, counting, Withhold, Check, VisitEvaluation, VisitSchema, VisitImplementer,
     ToSchemas, ToImplementers, EndPass, Block, PromoteEvaluation, ToBindings, PromoteBindings

(* Nothing a merge reports is lost under a lower minimum.                  *)
THEOREM LoweringLosesNothing == Spec => []NothingShownIsLost
<1>1. Spec => [](WorldInv /\ TypeOK /\ FixInv /\ PromotionInv /\ ShownInv)
  BY InitTypes, InitFix, InitPromotion, InitShown, StepTypes, StepFix, StepPromotion, StepShown, PTL DEF Spec
<1>2. ASSUME FixInv, PromotionInv, ShownInv PROVE NothingShownIsLost
  <2> SUFFICES ASSUME phase \in {"count", "counted"} PROVE shown \subseteq PromotedKeys
    BY DEF NothingShownIsLost
  <2>1. PromotedKeys = CarriedKeys(world) \ BlockedKeys(world, dropped)
    BY <1>2 DEF PromotionInv
  <2>2. PICK D \in SUBSET Components :
          Closed(world, minimum, D) /\ shown \subseteq CarriedKeys(world) \ BlockedKeys(world, D)
    BY <1>2 DEF ShownInv
  <2>3. BlockedKeys(world, dropped) \subseteq BlockedKeys(world, D)
    BY <1>2, <2>2, BlockedMonotone DEF FixInv, DropsAreNeeded
  <2>4. QED
    BY <2>1, <2>2, <2>3
<1>3. QED
  BY <1>1, <1>2, PTL

-----------------------------------------------------------------------------
(* The counts.  Once the caller's minimum is counted, what is shown is its *)
(* own promotions and what the counts hold, each finding counted once.     *)
Own == CarriedKeys(world) \ BlockedKeys(world, LeastDropped(caller))
Counted == minimum # caller \/ phase = "counted"

CountInv ==
  /\ \A m \in Minima : m <= caller \/ m > minimum \/ (m = minimum /\ phase # "counted") => counts[m] = 0
  /\ ~ Counted => shown = {}
  /\ Counted => Cardinality(shown) = Cardinality(Own) + counts[0] + counts[1] + counts[2]
  /\ phase = "counted" => shown = PromotedKeys

(* What the settled fixpoint has dropped is what every closed set holds.   *)
LEMMA SettledIsLeast ==
  ASSUME TypeOK, FixInv, Settled
  PROVE  dropped = LeastDropped(minimum)
<1>1. dropped \subseteq LeastDropped(minimum)
  BY DEF TypeOK, FixInv, DropsAreNeeded, LeastDropped
<1>2. dropped \in SUBSET Components /\ Closed(world, minimum, dropped)
  BY DEF TypeOK, FixInv
<1>3. LeastDropped(minimum) \subseteq dropped
  BY <1>2 DEF LeastDropped
<1>4. QED
  BY <1>1, <1>3

LEMMA InitCount == Init => CountInv
  BY DEF Init, CountInv, Counted, Minima

(* The count adds what the minimum at hand is the first to show.           *)
LEMMA CountCounts ==
  ASSUME WorldInv, TypeOK, FixInv, PromotionInv, CountInv, NothingShownIsLost, Count
  PROVE  CountInv'
<1>1. /\ phase = "count" /\ phase' = "counted" /\ world' = world /\ caller' = caller /\ minimum' = minimum
      /\ promoted' = promoted /\ shown' = shown \union PromotedKeys
      /\ counts' = IF minimum = caller THEN counts
                   ELSE [counts EXCEPT ![minimum] = Cardinality(PromotedKeys \ shown)]
  BY DEF Count
<1>2. shown \subseteq PromotedKeys
  BY <1>1 DEF NothingShownIsLost
<1>3. shown' = PromotedKeys /\ PromotedKeys' = PromotedKeys
  BY <1>1, <1>2 DEF PromotedKeys
<1>4. Own' = Own
  BY <1>1 DEF Own, LeastDropped, Components
<1>5. counts \in [Minima -> Nat] /\ caller \in Minima /\ minimum \in Minima /\ caller <= minimum
  BY DEF TypeOK, Minima
<1>6. IsFiniteSet(PromotedKeys) /\ IsFiniteSet(shown) /\ IsFiniteSet(Own)
  <2>1. IsFiniteSet(CarriedKeys(world))
    BY WorldsAssumption DEF WorldInv
  <2>2. PromotedKeys \subseteq CarriedKeys(world) /\ shown \subseteq CarriedKeys(world) /\ Own \subseteq CarriedKeys(world)
    BY PromotedAreCarried DEF TypeOK, Own
  <2>3. QED
    BY <2>1, <2>2, FS_Subset
<1>7. CASE minimum = caller
  <2>1. counts' = counts /\ shown = {}
    BY <1>1, <1>7 DEF CountInv, Counted
  <2>2. \A m \in Minima : counts[m] = 0
    BY <1>1, <1>5, <1>7 DEF CountInv, Minima
  <2>3. PromotedKeys = Own
    <3>1. dropped = LeastDropped(caller)
      BY <1>1, <1>7, SettledIsLeast DEF Settled, Resolving, PassPhases
    <3>2. QED
      BY <1>1, <3>1 DEF PromotionInv, Own
  <2>4. Cardinality(shown') = Cardinality(Own) + counts[0] + counts[1] + counts[2]
    BY <1>3, <1>6, <2>2, <2>3, FS_CardinalityType DEF Minima
  <2>5. QED
    BY <1>1, <1>3, <1>4, <2>1, <2>2, <2>4 DEF CountInv, Counted
<1>8. CASE minimum # caller
  <2> DEFINE more == Cardinality(PromotedKeys \ shown)
  <2>1. counts' = [counts EXCEPT ![minimum] = more]
    BY <1>1, <1>8
  <2>2. counts[minimum] = 0 /\ Cardinality(shown) = Cardinality(Own) + counts[0] + counts[1] + counts[2]
    BY <1>1, <1>5, <1>8 DEF CountInv, Counted
  <2>3. Cardinality(PromotedKeys) = Cardinality(shown) + more
    <3>1. PromotedKeys \intersect shown = shown
      BY <1>2
    <3>2. more = Cardinality(PromotedKeys) - Cardinality(shown)
      BY <1>6, <3>1, FS_Difference
    <3>3. Cardinality(PromotedKeys) \in Nat /\ Cardinality(shown) \in Nat
      BY <1>6, FS_CardinalityType
    <3>4. QED
      BY <3>2, <3>3
  <2>4. more \in Nat /\ Cardinality(Own) \in Nat
    <3>1. IsFiniteSet(PromotedKeys \ shown)
      BY <1>6, FS_Difference
    <3>2. QED
      BY <1>6, <3>1, FS_CardinalityType
  <2> HIDE DEF more
  <2>5. counts'[0] + counts'[1] + counts'[2] = counts[0] + counts[1] + counts[2] + more
    BY <1>5, <2>1, <2>2, <2>4 DEF Minima
  <2>6. Cardinality(shown') = Cardinality(Own) + counts'[0] + counts'[1] + counts'[2]
    <3>1. \A m \in Minima : counts[m] \in Nat /\ counts'[m] \in Nat
      BY <1>5, <2>1, <2>4
    <3>2. {0, 1, 2} \subseteq Minima
      BY DEF Minima
    <3>3. QED
      BY <1>3, <2>2, <2>3, <2>4, <2>5, <3>1, <3>2
  <2>7. \A m \in Minima : m <= caller \/ m > minimum => counts'[m] = 0
    BY <1>5, <1>8, <2>1 DEF CountInv, Minima
  <2>8. QED
    BY <1>1, <1>3, <1>4, <2>6, <2>7 DEF CountInv, Counted
<1>9. QED
  BY <1>7, <1>8

LEMMA StepCount ==
  ASSUME WorldInv, TypeOK, FixInv, PromotionInv, CountInv, NothingShownIsLost, [Next]_vars
  PROVE  CountInv'
<1>1. CASE Count
  BY <1>1, CountCounts
<1>2. CASE Lower
  <2>1. /\ phase = "counted" /\ phase' = "withhold" /\ world' = world /\ caller' = caller
        /\ minimum' = minimum + 1 /\ shown' = shown /\ counts' = counts
    BY <1>2 DEF Lower
  <2>2. Own' = Own
    BY <2>1 DEF Own, LeastDropped, Components
  <2>3. minimum' # caller /\ Counted
    BY <2>1 DEF TypeOK, Minima, Counted
  <2>4. \A m \in Minima : m <= caller \/ m > minimum' \/ m = minimum' => counts'[m] = 0
    BY <2>1 DEF CountInv, TypeOK, Minima
  <2>5. QED
    BY <2>1, <2>2, <2>3, <2>4 DEF CountInv, Counted
<1>3. CASE UNCHANGED <<world, counting>> /\ phase # "counted" /\ phase' # "counted"
  <2>1. Own' = Own
    BY <1>3 DEF Own, LeastDropped, Components, counting
  <2>2. QED
    BY <1>3, <2>1 DEF CountInv, Counted, counting
<1>4. CASE UNCHANGED vars
  <2>1. Own' = Own /\ PromotedKeys' = PromotedKeys
    BY <1>4 DEF Own, LeastDropped, Components, PromotedKeys, vars
  <2>2. QED
    BY <1>4, <2>1 DEF CountInv, Counted, vars
<1>5. QED
  BY <1>1, <1>2, <1>3, <1>4 DEF Next, Withhold, Check, StartPass, VisitEvaluation, VisitSchema, VisitImplementer,
     ToSchemas, ToImplementers, EndPass, Block, PromoteEvaluation, ToBindings, PromoteBindings

(* The merge's own promotions and its counts together are what the same    *)
(* merge promotes under the lower minimum (withheldBelow).                 *)
THEOREM CountsAreExact == Spec => []CountsShowTheWithheld
<1>1. Spec => []NothingShownIsLost
  BY LoweringLosesNothing
<1>2. Spec => [](WorldInv /\ TypeOK /\ FixInv /\ PromotionInv)
  BY InitTypes, InitFix, InitPromotion, StepTypes, StepFix, StepPromotion, PTL DEF Spec
<1>3. Spec => []CountInv
  BY <1>1, <1>2, InitCount, StepCount, PTL DEF Spec
<1>4. CountInv => CountsShowTheWithheld
  BY DEF CountInv, Counted, CountsShowTheWithheld, Own
<1>5. QED
  BY <1>3, <1>4, PTL

-----------------------------------------------------------------------------
(* The passes implement the abstract fixpoint.                             *)
LEMMA VisitIsADrop ==
  ASSUME FixInv, ~ Settled, ~ Settled', phase # "withhold", world' = world, minimum' = minimum,
         NEW c \in Decided(world, dropped),
         dropped' = dropped \/ (c \notin dropped /\ dropped' = dropped \union {c})
  PROVE  [Closure!Next]_<<world, minimum, dropped, Settled>>
<1>1. Settled' = Settled
  BY DEF Settled
<1>2. CASE dropped' = dropped
  BY <1>1, <1>2
<1>3. CASE c \notin dropped /\ dropped' = dropped \union {c}
  <2>1. Withheld(world, minimum) \subseteq dropped
    BY DEF FixInv, WithheldFirst
  <2>2. Closure!Drop(c)
    BY <1>1, <1>3, <2>1 DEF Closure!Drop
  <2>3. QED
    BY <2>2 DEF Closure!Next
<1>4. QED
  BY <1>2, <1>3

LEMMA StepImplements ==
  ASSUME WorldInv, TypeOK, FixInv, [Next]_vars
  PROVE  [Closure!Next]_<<world, minimum, dropped, Settled>>
<1>1. CASE Withhold
  <2>1. /\ phase = "withhold" /\ phase' = "check" /\ world' = world /\ minimum' = minimum
        /\ dropped = {} /\ dropped' = Withheld(world, minimum)
    BY <1>1 DEF Withhold, counting, FixInv, WithheldFirst
  <2>2. Settled = FALSE /\ Settled' = FALSE
    BY <2>1 DEF Settled, Resolving
  <2>3. Closure!Withhold
    BY <2>1, <2>2 DEF Closure!Withhold
  <2>4. QED
    BY <2>1, <2>3 DEF Closure!Next
<1>2. CASE Check \/ ToSchemas \/ ToImplementers
  <2>1. /\ world' = world /\ minimum' = minimum /\ dropped' = dropped
        /\ phase \in Resolving /\ phase' \in Resolving \union {"refused"}
    BY <1>2 DEF Check, StartPass, ToSchemas, ToImplementers, counting, Resolving, PassPhases
  <2>2. Settled = FALSE /\ Settled' = FALSE
    BY <2>1 DEF Settled
  <2>3. QED
    BY <2>1, <2>2
<1>3. ASSUME NEW i \in todo, VisitEvaluation(i)
      PROVE  [Closure!Next]_<<world, minimum, dropped, Settled>>
  <2> DEFINE e == world.evaluations[i]
             decided == DecideEvaluation(world, e, dropped)
  <2>1. /\ world' = world /\ minimum' = minimum /\ phase = "evaluations" /\ phase' = "evaluations"
        /\ i \in DeadEvaluations(world)
    BY <1>3 DEF VisitEvaluation, counting, TypeOK, ToVisit
  <2>2. Settled = FALSE /\ Settled' = FALSE
    BY <2>1 DEF Settled, Resolving, PassPhases
  <2>3. CASE decided /\ e.component \notin dropped
    <3>1. e.component \in Decided(world, dropped) /\ dropped' = dropped \union {e.component}
      BY <1>3, <2>1, <2>3 DEF VisitEvaluation, DropWhere, Decided
    <3>2. QED
      BY <2>1, <2>2, <2>3, <3>1, VisitIsADrop
  <2>4. CASE ~ (decided /\ e.component \notin dropped)
    <3>1. dropped' = dropped
      BY <1>3, <2>4, Zenon DEF VisitEvaluation, DropWhere
    <3>2. QED
      BY <2>1, <2>2, <3>1
  <2>5. QED
    BY <2>3, <2>4
<1>4. ASSUME NEW i \in todo, VisitSchema(i)
      PROVE  [Closure!Next]_<<world, minimum, dropped, Settled>>
  <2> DEFINE s == world.records[i]
             decided == DecideSchema(world, s, dropped)
  <2>1. /\ world' = world /\ minimum' = minimum /\ phase = "schemas" /\ phase' = "schemas"
        /\ i \in Dead(world, "schema")
    BY <1>4 DEF VisitSchema, counting, TypeOK, ToVisit
  <2>2. Settled = FALSE /\ Settled' = FALSE
    BY <2>1 DEF Settled, Resolving, PassPhases
  <2>3. CASE decided /\ s.component \notin dropped
    <3>1. s.component \in Decided(world, dropped) /\ dropped' = dropped \union {s.component}
      BY <1>4, <2>1, <2>3 DEF VisitSchema, DropWhere, Decided
    <3>2. QED
      BY <2>1, <2>2, <2>3, <3>1, VisitIsADrop
  <2>4. CASE ~ (decided /\ s.component \notin dropped)
    <3>1. dropped' = dropped
      BY <1>4, <2>4, Zenon DEF VisitSchema, DropWhere
    <3>2. QED
      BY <2>1, <2>2, <3>1
  <2>5. QED
    BY <2>3, <2>4
<1>5. ASSUME NEW i \in todo, VisitImplementer(i)
      PROVE  [Closure!Next]_<<world, minimum, dropped, Settled>>
  <2> DEFINE r == world.records[i]
             decided == DecideImplementer(world, r, dropped)
  <2>1. /\ world' = world /\ minimum' = minimum /\ phase = "implementers" /\ phase' = "implementers"
        /\ i \in Dead(world, "implementer")
    BY <1>5 DEF VisitImplementer, counting, TypeOK, ToVisit
  <2>2. Settled = FALSE /\ Settled' = FALSE
    BY <2>1 DEF Settled, Resolving, PassPhases
  <2>3. CASE decided /\ r.component \notin dropped
    <3>1. r.component \in Decided(world, dropped) /\ dropped' = dropped \union {r.component}
      BY <1>5, <2>1, <2>3 DEF VisitImplementer, DropWhere, Decided
    <3>2. QED
      BY <2>1, <2>2, <2>3, <3>1, VisitIsADrop
  <2>4. CASE ~ (decided /\ r.component \notin dropped)
    <3>1. dropped' = dropped
      BY <1>5, <2>4, Zenon DEF VisitImplementer, DropWhere
    <3>2. QED
      BY <2>1, <2>2, <3>1
  <2>5. QED
    BY <2>3, <2>4
<1>6. CASE EndPass
  <2>1. /\ world' = world /\ minimum' = minimum /\ dropped' = dropped /\ phase = "implementers" /\ todo = {}
    BY <1>6 DEF EndPass, counting
  <2>2. Settled = FALSE
    BY <2>1 DEF Settled, Resolving, PassPhases
  <2>3. CASE phase' = "evaluations"
    <3>1. Settled' = FALSE
      BY <2>3 DEF Settled, Resolving, PassPhases
    <3>2. QED
      BY <2>1, <2>2, <3>1
  <2>4. CASE ~ grew /\ phase' = "block"
    <3>1. grew = FALSE
      BY <2>4, Zenon DEF TypeOK
    <3>2. Closed(world, minimum, dropped)
      BY <2>1, <3>1, QuietIsClosed
    <3>3. Settled' = TRUE
      BY <2>4 DEF Settled, Resolving, PassPhases
    <3>4. Closure!Settle
      BY <2>1, <2>2, <3>2, <3>3 DEF Closure!Settle, Closed
    <3>5. QED
      BY <2>1, <3>4 DEF Closure!Next
  <2>5. QED
    BY <1>6, <2>3, <2>4, Zenon DEF EndPass, StartPass
<1>7. CASE Block \/ (\E i \in todo : PromoteEvaluation(i)) \/ ToBindings \/ PromoteBindings \/ Count
  <2>1. /\ dropped' = dropped /\ world' = world /\ minimum' = minimum
        /\ phase \in {"block", "promote", "bind", "count"} /\ phase' \in {"promote", "bind", "count", "counted"}
    BY <1>7 DEF Block, PromoteEvaluation, ToBindings, PromoteBindings, Count, counting
  <2>2. Settled = TRUE /\ Settled' = TRUE
    BY <2>1 DEF Settled, Resolving, PassPhases
  <2>3. QED
    BY <2>1, <2>2
<1>8. CASE Lower
  <2>1. /\ phase = "counted" /\ phase' = "withhold" /\ world' = world /\ dropped' = {}
        /\ minimum \in Minima /\ minimum < 2 /\ minimum' = minimum + 1
    BY <1>8 DEF Lower, TypeOK, Minima
  <2>2. Settled = TRUE /\ Settled' = FALSE
    BY <2>1 DEF Settled, Resolving, PassPhases
  <2>3. minimum' \in {m \in Minima : m > minimum}
    BY <2>1 DEF Minima
  <2>4. Closure!Again
    BY <2>1, <2>2, <2>3 DEF Closure!Again
  <2>5. QED
    BY <2>1, <2>4 DEF Closure!Next
<1>9. CASE UNCHANGED vars
  BY <1>9 DEF vars, Settled
<1>10. QED
  BY <1>1, <1>2, <1>3, <1>4, <1>5, <1>6, <1>7, <1>8, <1>9 DEF Next

(* The passes implement the abstract fixpoint.                             *)
THEOREM PassesImplementClosure == Spec => ImplementsClosure
<1>1. Init => Closure!Init
  BY DEF Init, Closure!Init, Settled, Resolving
<1>2. Spec => [](WorldInv /\ TypeOK /\ FixInv)
  BY InitTypes, InitFix, StepTypes, StepFix, PTL DEF Spec
<1>3. QED
  BY <1>1, <1>2, StepImplements, PTL DEF Spec, ImplementsClosure, Closure!Spec
=============================================================================
