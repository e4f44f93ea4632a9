---------------------------- MODULE FixtureMembers ----------------------------
(***************************************************************************)
(* How a first analysis answers the members of a fixture that are not its  *)
(* rows: its edge evaluations, the facts and generated entries of its      *)
(* facts document, the configurations it dropped and the suppressions it   *)
(* counts in effect (src/corpus/answer.go).  No state.                     *)
(*                                                                         *)
(* What may be left out is a set of at most one value.  A binding record's *)
(* members stand for its schema, state, cap, scope, via, uses, members and *)
(* carried findings, each compared for equality.                           *)
(***************************************************************************)
EXTENDS Integers, Sequences, SequencesExt, FiniteSets

Unnamed == "none"     \* no generated file

-----------------------------------------------------------------------------
(* Edge evaluations: exactly one record of each side an entry names, in    *)
(* its state, with the pending finding of a dead one at its symbol's site, *)
(* and no record of a side no entry names.                                 *)
OfSide(one, other) == one.edge = other.edge /\ one.side = other.side

EvaluationDiffers(want, report) ==
  LET list == report.evaluations
      records == {i \in DOMAIN list : OfSide(list[i], want)}
  IN  \/ Cardinality(records) # 1
      \/ \E i \in records :
           \/ list[i].state # want.state
           \/ /\ want.state = "dead"
              /\ \A found \in list[i].finding : found.code # want.report \/ found.site \notin want.site

(* Bug: a record of a side no entry names let through. *)
EdgesDifferNamed(expect, report) ==
  \E want \in expect.evaluations : EvaluationDiffers(want, report)

EdgesDiffer(expect, report) ==
  \/ \E want \in expect.evaluations : EvaluationDiffers(want, report)
  \/ \E one \in ToSet(report.evaluations) : \A want \in expect.evaluations : ~ OfSide(one, want)

-----------------------------------------------------------------------------
(* A list the manifest names is compared in its order; none compares       *)
(* nothing.                                                                *)
NotBuiltDiffers(expect, report) == \E list \in expect.notBuilt : report.notBuilt # list

InEffectDiffers(expect, report) == \E count \in expect.inEffect : report.inEffect # count

-----------------------------------------------------------------------------
(* Facts: one record of each entry's role and subject, none of an absent   *)
(* one's; a record no entry names is not looked at.                        *)
AppliesTo(want, language) == want.languages = {} \/ language \in want.languages

RecordsOf(doc, want) ==
  {i \in DOMAIN doc.bindings : doc.bindings[i].role = want.role /\ doc.bindings[i].ref = want.ref}

(* The generated entry a record must name: the entry's, or, for a consumer *)
(* or a fallback, the file its subject is declared in.                     *)
WantGenerated(want) ==
  IF want.generated = Unnamed /\ want.role \in {"consumer", "fallback"}
    THEN want.file ELSE want.generated

FactDiffers(want, doc) ==
  LET records == RecordsOf(doc, want)
  IN  IF want.absent THEN records # {}
      ELSE \/ Cardinality(records) # 1
           \/ \E i \in records :
                \/ doc.bindings[i].members # want.members
                \/ doc.bindings[i].generated # WantGenerated(want)
                \/ \E code \in want.report :
                     [code |-> code, site |-> want.site] \notin doc.bindings[i].finding

(* Sets of whole entries, compared where the fixture names any. *)
GeneratedDiffers(expect, doc) ==
  expect.generated # {} /\ ToSet(doc.generated) # expect.generated

FactsDiffer(expect, language, report) ==
  \E doc \in report.facts :
    \/ \E want \in expect.facts : AppliesTo(want, language) /\ FactDiffers(want, doc)
    \/ GeneratedDiffers(expect, doc)

-----------------------------------------------------------------------------
(* A run that must end with a setup failure.  Its lines are those of its   *)
(* standard error, each with the failure group its prefix names, or none,  *)
(* and what it says; its findings those of a report that reads.            *)
ClassLines(run) == {i \in DOMAIN run.lines : run.lines[i].group # Unnamed}

(* Bug: the class lines not counted. *)
SetupDiffersUncounted(want, run) ==
  \/ run.exit # "failure" \/ run.findings # << >>
  \/ \A line \in ToSet(run.lines) :
       ~ (line.group = "setup" /\ line.class = want.class /\ want.names \subseteq line.names)

SetupDiffers(want, run) ==
  \/ run.exit # "failure" \/ run.findings # << >>
  \/ Cardinality(ClassLines(run)) # 1
  \/ \A line \in ToSet(run.lines) :
       ~ (line.group = "setup" /\ line.class = want.class /\ want.names \subseteq line.names)
=============================================================================
