---------------------------- MODULE MergeResolve ----------------------------
(***************************************************************************)
(* Step 4 of the merge as the reference merger runs it: resolveStep,       *)
(* resolveEvaluations, the binding pass and promoteBindings, and           *)
(* withheldBelow, which runs the step again under each confidence below    *)
(* the caller's minimum.  The passes visit the dead evaluations in         *)
(* canonical order and the dead records in reading order, one action each. *)
(*                                                                         *)
(* A promotion is a finding with the evaluations and records that carry    *)
(* it.  The list of them is sorted by key, so it is a set here: two        *)
(* promotions of one finding are two elements.                             *)
(***************************************************************************)
EXTENDS MergeRules, FiniteSets

CONSTANT Worlds    \* the working sets of one merge

(* What the contract's schemas leave of the input documents: lists, keys   *)
(* that are ordered, finitely many findings, a confidence on each, and the *)
(* states a role may carry (facts.schema.json).                            *)
StatesOf(role) ==
  CASE role = "schema" -> {"live", "dead"}
    [] role = "consumer" -> {"live", "unreferenced", None}
    [] role = "implementer" -> {"live", "dead", None}
    [] role = "fallback" -> {"live"}

ASSUME WorldsAssumption ==
  \A w \in Worlds :
    /\ DOMAIN w.evaluations \subseteq Nat
    /\ CarriedKeys(w) \subseteq Int /\ IsFiniteSet(CarriedKeys(w))
    /\ \A i \in DOMAIN w.records :
         w.records[i].class \in Minima /\ w.records[i].state \in StatesOf(w.records[i].role)

VARIABLES
  world,     \* the working set
  caller,    \* the caller's minimum
  minimum,   \* the one being resolved under
  phase,     \* where the step is, and where the fixpoint is in its pass
  todo,      \* the evaluations or records the phase has still to visit
  grew,      \* the pass dropped a component
  dropped,   \* the components dropped
  blocked,   \* the findings a dropped component carries
  promoted,  \* the promotions
  shown,     \* the findings promoted under this minimum's predecessors, and it once counted
  counts     \* the findings counted as withheld at each confidence

vars == <<world, caller, minimum, phase, todo, grew, dropped, blocked, promoted, shown, counts>>
counting == <<caller, minimum, shown, counts>>

PassPhases == {"evaluations", "schemas", "implementers"}
Resolving == {"withhold", "check"} \union PassPhases
Phases == Resolving \union {"block", "promote", "bind", "count", "counted", "refused"}

Init ==
  /\ world \in Worlds
  /\ caller \in Minima /\ minimum = caller
  /\ phase = "withhold"
  /\ todo = {} /\ grew = FALSE /\ dropped = {} /\ blocked = {} /\ promoted = {}
  /\ shown = {} /\ counts = [m \in Minima |-> 0]

-----------------------------------------------------------------------------
(* withhold, and rule 1 over the whole collection. *)
Withhold ==
  /\ phase = "withhold" /\ phase' = "check"
  /\ dropped' = Withheld(world, minimum)
  /\ UNCHANGED <<world, counting, todo, grew, blocked, promoted>>

Unresolved == {i \in DeadEvaluations(world) : OtherSides(world, world.evaluations[i]) = {}}

StartPass ==
  /\ phase' = "evaluations" /\ todo' = DeadEvaluations(world) /\ grew' = FALSE

Check ==
  /\ phase = "check"
  /\ \/ Unresolved # {} /\ phase' = "refused" /\ UNCHANGED <<todo, grew>>
     \/ Unresolved = {} /\ StartPass
  /\ UNCHANGED <<world, counting, dropped, blocked, promoted>>

-----------------------------------------------------------------------------
(* One pass of the fixpoint. *)
Key(i) == world.evaluations[i].key
CanonicalFirst(i) == \A j \in todo : Key(i) < Key(j) \/ (Key(i) = Key(j) /\ i <= j)
ReadingFirst(i) == \A j \in todo : i <= j

(* The component is dropped where the rules decide the record. *)
DropWhere(decided, component) ==
  IF decided /\ component \notin dropped
    THEN dropped' = dropped \union {component} /\ grew' = TRUE
    ELSE UNCHANGED <<dropped, grew>>

VisitEvaluation(i) ==
  /\ phase = "evaluations" /\ CanonicalFirst(i)
  /\ DropWhere(DecideEvaluation(world, world.evaluations[i], dropped), world.evaluations[i].component)
  /\ todo' = todo \ {i}
  /\ UNCHANGED <<world, counting, phase, blocked, promoted>>

VisitSchema(i) ==
  /\ phase = "schemas" /\ ReadingFirst(i)
  /\ DropWhere(DecideSchema(world, world.records[i], dropped), world.records[i].component)
  /\ todo' = todo \ {i}
  /\ UNCHANGED <<world, counting, phase, blocked, promoted>>

VisitImplementer(i) ==
  /\ phase = "implementers" /\ ReadingFirst(i)
  /\ DropWhere(DecideImplementer(world, world.records[i], dropped), world.records[i].component)
  /\ todo' = todo \ {i}
  /\ UNCHANGED <<world, counting, phase, blocked, promoted>>

(* Bug: the growth of the binding pass taken for the growth of the pass. *)
ToSchemasForgetting ==
  /\ phase = "evaluations" /\ todo = {}
  /\ phase' = "schemas" /\ todo' = Dead(world, "schema") /\ grew' = FALSE
  /\ UNCHANGED <<world, counting, dropped, blocked, promoted>>

ToSchemas ==
  /\ phase = "evaluations" /\ todo = {}
  /\ phase' = "schemas" /\ todo' = Dead(world, "schema")
  /\ UNCHANGED <<world, counting, grew, dropped, blocked, promoted>>

ToImplementers ==
  /\ phase = "schemas" /\ todo = {}
  /\ phase' = "implementers" /\ todo' = Dead(world, "implementer")
  /\ UNCHANGED <<world, counting, grew, dropped, blocked, promoted>>

EndPass ==
  /\ phase = "implementers" /\ todo = {}
  /\ \/ grew /\ StartPass
     \/ ~ grew /\ phase' = "block" /\ UNCHANGED <<todo, grew>>
  /\ UNCHANGED <<world, counting, dropped, blocked, promoted>>

-----------------------------------------------------------------------------
(* Rule 3, once the fixpoint is reached. *)
Block ==
  /\ phase = "block" /\ phase' = "promote"
  /\ blocked' = BlockedKeys(world, dropped)
  /\ todo' = DeadEvaluations(world)
  /\ UNCHANGED <<world, counting, grew, dropped, promoted>>

(* The last promotion, where it is of this finding. *)
Latest(key) == {p \in promoted : p.key = key /\ \A q \in promoted : q.key <= key}

Promote(i) ==
  promoted' = (promoted \ Latest(Key(i)))
    \union {[key |-> Key(i), records |-> {},
             evaluations |-> {i} \union UNION {p.evaluations : p \in Latest(Key(i))}]}

MayPromote(i) == world.evaluations[i].component \notin dropped /\ Key(i) \notin blocked

PromoteEvaluation(i) ==
  /\ phase = "promote" /\ CanonicalFirst(i)
  /\ IF MayPromote(i) THEN Promote(i) ELSE UNCHANGED promoted
  /\ todo' = todo \ {i}
  /\ UNCHANGED <<world, counting, phase, grew, dropped, blocked>>

ToBindings ==
  /\ phase = "promote" /\ todo = {} /\ phase' = "bind"
  /\ UNCHANGED <<world, counting, todo, grew, dropped, blocked, promoted>>

Carriers(key) == {i \in Carrying(world) : key \in KeysOf(world, i)}
BoundKeys == (UNION {KeysOf(world, i) : i \in Carrying(world)}) \ blocked
PromotedKeys == {p.key : p \in promoted}

(* promoteBindings: every unblocked finding of the records, joined to the  *)
(* edge promotion of it or promoted on its own.                            *)
PromoteBindings ==
  /\ phase = "bind" /\ phase' = "count"
  /\ promoted' = {[p EXCEPT !.records = IF p.key \in BoundKeys THEN Carriers(p.key) ELSE {}] : p \in promoted}
       \union {[key |-> k, evaluations |-> {}, records |-> Carriers(k)] : k \in BoundKeys \ PromotedKeys}
  /\ UNCHANGED <<world, counting, todo, grew, dropped, blocked>>

-----------------------------------------------------------------------------
(* withheldBelow. *)
(* Bug: a finding counted again at every confidence that shows it. *)
CountAgain ==
  /\ phase = "count" /\ phase' = "counted"
  /\ counts' = IF minimum = caller THEN counts
               ELSE [counts EXCEPT ![minimum] = Cardinality(PromotedKeys \ shown)]
  /\ shown' = IF minimum = caller THEN PromotedKeys ELSE shown
  /\ UNCHANGED <<world, caller, minimum, todo, grew, dropped, blocked, promoted>>

Count ==
  /\ phase = "count" /\ phase' = "counted"
  /\ counts' = IF minimum = caller THEN counts
               ELSE [counts EXCEPT ![minimum] = Cardinality(PromotedKeys \ shown)]
  /\ shown' = shown \union PromotedKeys
  /\ UNCHANGED <<world, caller, minimum, todo, grew, dropped, blocked, promoted>>

(* Bug: the components dropped before kept. *)
LowerKeeping ==
  /\ phase = "counted" /\ minimum < 2
  /\ minimum' = minimum + 1 /\ phase' = "check"
  /\ blocked' = {} /\ promoted' = {}
  /\ UNCHANGED <<world, caller, todo, grew, dropped, shown, counts>>

Lower ==
  /\ phase = "counted" /\ minimum < 2
  /\ minimum' = minimum + 1 /\ phase' = "withhold"
  /\ dropped' = {} /\ blocked' = {} /\ promoted' = {}
  /\ UNCHANGED <<world, caller, todo, grew, shown, counts>>

Next ==
  \/ Withhold \/ Check
  \/ \E i \in todo : VisitEvaluation(i) \/ VisitSchema(i) \/ VisitImplementer(i)
  \/ ToSchemas \/ ToImplementers \/ EndPass
  \/ Block \/ (\E i \in todo : PromoteEvaluation(i)) \/ ToBindings \/ PromoteBindings
  \/ Count \/ Lower

(* The step is a sequential program. *)
Spec == Init /\ [][Next]_vars /\ WF_vars(Next)

-----------------------------------------------------------------------------
Components ==
  {world.evaluations[i].component : i \in DeadEvaluations(world)}
  \union {world.records[i].component : i \in Carrying(world)}
Promotion ==
  [key : CarriedKeys(world), evaluations : SUBSET DeadEvaluations(world), records : SUBSET Carrying(world)]

ToVisit ==
  CASE phase \in {"evaluations", "promote"} -> DeadEvaluations(world)
    [] phase = "schemas" -> Dead(world, "schema")
    [] phase = "implementers" -> Dead(world, "implementer")
    [] OTHER -> {}

(* Every variable has a value the code may leave it with: what is dropped, *)
(* blocked and promoted comes from the working set, and what is left to    *)
(* visit from the list the phase goes over.                                *)
TypeOK ==
  /\ caller \in Minima /\ minimum \in caller .. 2
  /\ phase \in Phases /\ grew \in BOOLEAN
  /\ todo \subseteq ToVisit
  /\ dropped \subseteq Components
  /\ blocked \subseteq CarriedKeys(world) /\ shown \subseteq CarriedKeys(world)
  /\ promoted \subseteq Promotion
  /\ counts \in [Minima -> Nat]

Settled == phase \notin Resolving \union {"refused"}

(* The fixpoint is the abstract one: components are dropped one at a time, *)
(* each decided, until none is left.                                       *)
Closure == INSTANCE MergeClosure WITH settled <- Settled
ImplementsClosure == Closure!Spec

(* "The outcome does not depend on the order in which the rules visit the  *)
(* evaluations" (merge.md, step 4): whatever the order, the passes end     *)
(* with the least set of components that withholds what must be withheld   *)
(* and leaves nothing decided outside it.                                  *)
OutcomeIsLeast ==
  Settled => /\ Closed(world, minimum, dropped)
             /\ \A D \in SUBSET Components : Closed(world, minimum, D) => dropped \subseteq D

(* What the report names for deletion, and the dead symbols it leaves out  *)
(* although their own component stays: another component carries the same  *)
(* finding, by an edge or a record, and that one is dropped.               *)
Reported(r) == r.state = "dead" /\ r.key \notin BlockedKeys(world, dropped)
KeptElsewhere(r) ==
  r.state = "dead" /\ r.component \notin dropped /\ r.key \in BlockedKeys(world, dropped)
ReportedOrKept(r) == Reported(r) \/ KeptElsewhere(r)
Record(i) == world.records[i]
Matching(r, s) == r.schema = s.schema /\ SameSchemaFile(r.file, s.file)
HangsOnTheDead(r) ==
  \A name \in r.via : \E j \in Implementer(world, r.analyzer, name) : ReportedOrKept(Record(j))

OtherSideOf(i) == {world.evaluations[j] : j \in OtherSides(world, world.evaluations[i])}
EvaluationsNotHeld ==
  \A i \in DeadEvaluations(world) : Reported(world.evaluations[i]) =>
    /\ \A e \in OtherSideOf(i) : e.state # "live" /\ (e.state = "dead" => ReportedOrKept(e))
    /\ \E e \in OtherSideOf(i) : ReportedOrKept(e)

SchemasNotHeld ==
  \A i \in Dead(world, "schema") : Reported(Record(i)) =>
    /\ \E j \in WithRole(world, "consumer") : Matching(Record(j), Record(i))
    /\ \A j \in WithRole(world, "consumer") : Matching(Record(j), Record(i)) =>
         IF Record(j).via = {} THEN Record(j).state = "unreferenced" ELSE HangsOnTheDead(Record(j))
    /\ \A j \in WithRole(world, "schema") :
         \/ Record(i).schema \in Record(j).uses
         \/ Record(j).schema \in Record(i).members /\ SameSchemaFile(Record(j).file, Record(i).file)
         => ReportedOrKept(Record(j))

ImplementersNotHeld ==
  \A i \in Dead(world, "implementer") : Reported(Record(i)) =>
    /\ \E j \in WithRole(world, "schema") : Matching(Record(j), Record(i))
    /\ \A j \in WithRole(world, "schema") : Matching(Record(j), Record(i)) => ReportedOrKept(Record(j))
    /\ \A name \in Record(i).via : \A j \in Implementer(world, Record(i).analyzer, name) : ReportedOrKept(Record(j))

(* Nothing that the rules read as live keeps a symbol the report names for  *)
(* deletion (merge.md, step 4).  Beside a reported evaluation no paired    *)
(* side lives; a reported schema declaration is bound, and every consumer  *)
(* of it is unreferenced or hangs on implementers; what uses it or is a    *)
(* member of it is dead; and a reported implementer implements dead        *)
(* declarations and hangs on dead implementers alone.  Each of the dead    *)
(* ones is reported too, or its own component stays and its finding is     *)
(* kept out of the report for another component that carries it.  In that  *)
(* case the report names a symbol whose pair it keeps: PairsFallTogether.  *)
NothingReportedIsHeld == Settled => EvaluationsNotHeld /\ SchemasNotHeld /\ ImplementersNotHeld

(* "A symbol paired with a member that stays is not reported for deletion  *)
(* either" (merge.md:85): of two dead sides of an edge the report names    *)
(* both or neither.                                                        *)
PairsFallTogether ==
  phase \in {"count", "counted"} =>
    \A i \in DeadEvaluations(world) : Key(i) \in PromotedKeys =>
      \A e \in OtherSideOf(i) : e.state = "dead" => e.key \in PromotedKeys

(* A finding is promoted once, and it is promoted exactly where a dead     *)
(* evaluation or record carries it and no component that carries it is     *)
(* dropped, in either relation (merge.md, step 4, "The promotion").        *)
ComponentsCarrying(key) ==
  {world.evaluations[i].component : i \in {j \in DeadEvaluations(world) : Key(j) = key}}
  \union {Record(i).component : i \in Carriers(key)}

PromotedExactly ==
  phase \in {"count", "counted"} =>
    /\ \A key \in CarriedKeys(world) : key \in PromotedKeys <=> ComponentsCarrying(key) \cap dropped = {}
    /\ \A p, q \in promoted : p.key = q.key => p = q

(* Lowering the minimum hides nothing: what a merge promotes under one     *)
(* minimum, the same merge promotes under every lower one (withheldBelow   *)
(* counts a finding once, at the first confidence that shows it).          *)
NothingShownIsLost == phase \in {"count", "counted"} => shown \subseteq PromotedKeys

(* Lowering the minimum to a confidence shows exactly the findings counted *)
(* at it and above it (merge.md, step 4, binding rule 3): the report's own *)
(* promotions and the counts together are what the lower merge promotes.   *)
LeastDropped(m) ==
  {c \in Components : \A D \in SUBSET Components : Closed(world, m, D) => c \in D}

CountsShowTheWithheld ==
  phase = "counted" =>
    Cardinality(PromotedKeys) =
      Cardinality(CarriedKeys(world) \ BlockedKeys(world, LeastDropped(caller)))
      + counts[0] + counts[1] + counts[2]
=============================================================================
