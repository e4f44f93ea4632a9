----------------------------- MODULE MergeRules -----------------------------
(***************************************************************************)
(* The rules of step 4 of the merge (merge_reference_test.go and           *)
(* merge_reference_bindings_test.go), as operators over the working set w  *)
(* of one merge and the set D of the components dropped so far.            *)
(*                                                                         *)
(* The working set is a sequence of edge evaluations and one of binding    *)
(* records, in the order of the inputs.  A finding is its canonical key, a *)
(* number in canonical order; a component is its identifier; a confidence  *)
(* its rank, 0 for certain and 2 for possible; a file its path segments.   *)
(***************************************************************************)
EXTENDS Integers, Sequences, SequencesExt

None == "none"      \* the state of a record that carries none, and no state at all

-----------------------------------------------------------------------------
(* The edge evaluations. *)
DeadEvaluations(w) == {i \in DOMAIN w.evaluations : w.evaluations[i].state = "dead"}

OtherSides(w, e) ==
  {i \in DOMAIN w.evaluations : w.evaluations[i].edge = e.edge /\ w.evaluations[i].side # e.side}

(* The states the other sides of e's edge read as: a dead evaluation of a  *)
(* dropped component reads as live.                                        *)
OtherStates(w, e, D) ==
  {IF w.evaluations[i].state = "dead" /\ w.evaluations[i].component \in D
     THEN "live" ELSE w.evaluations[i].state : i \in OtherSides(w, e)}

StrongestOther(w, e, D) ==
  LET states == OtherStates(w, e, D)
  IN  CASE "live" \in states -> "live"
        [] "live" \notin states /\ "dead" \in states -> "dead"
        [] states = {"absent"} -> "absent"
        [] OTHER -> None

(* Rules 2 and 4. *)
DecideEvaluation(w, e, D) == StrongestOther(w, e, D) # "dead"

-----------------------------------------------------------------------------
(* The binding records. *)
WithRole(w, role) == {i \in DOMAIN w.records : w.records[i].role = role}
Dead(w, role) == {i \in WithRole(w, role) : w.records[i].state = "dead"}

(* Equal, or one the other preceded by whole segments.  Not transitive.    *)
SameSchemaFile(a, b) == IsSuffix(a, b) \/ IsSuffix(b, a)

(* The first implementer record of that analyzer and symbol, where one is. *)
Implementer(w, analyzer, symbol) ==
  LET named == {i \in WithRole(w, "implementer") :
                  w.records[i].analyzer = analyzer /\ w.records[i].symbol = symbol}
  IN  {i \in named : \A j \in named : i <= j}

(* A record other than a consumer that names implementers reads as live.   *)
HeldLive(r, D) ==
  \/ r.role = "fallback" \/ r.state \in {None, "live"}
  \/ r.state = "dead" /\ r.component \in D

(* The name of an implementer that reads as live, or of none.              *)
NameIsLive(w, analyzer, name, D) ==
  \A i \in Implementer(w, analyzer, name) : HeldLive(w.records[i], D)

IsViaConsumer(r) == r.role = "consumer" /\ r.state # None /\ r.via # {}

(* The record reads as live.  Any other state it may read as promotes.     *)
ReadsLive(w, r, D) ==
  IF IsViaConsumer(r)
    THEN \/ r.state = "dead" /\ r.component \in D
         \/ \E name \in r.via : NameIsLive(w, r.analyzer, name, D)
    ELSE HeldLive(r, D)

(* The consumers that match a schema record, and the fallbacks whose file  *)
(* matches and whose scope covers its kind.                                *)
Bindings(w, s) ==
  {i \in DOMAIN w.records :
     LET b == w.records[i]
     IN  /\ SameSchemaFile(b.file, s.file)
         /\ \/ b.role = "consumer" /\ b.schema = s.schema
            \/ b.role = "fallback" /\ (b.scope = "all" \/ s.kind \notin {"service", "rpc"})}

SchemaRecords(w, schema, file) ==
  {i \in WithRole(w, "schema") :
     w.records[i].schema = schema /\ SameSchemaFile(w.records[i].file, file)}

(* Bug: a container dropped for a live member, and not for a live user. *)
DecideSchemaByMembers(w, s, D) ==
  \/ Bindings(w, s) = {}
  \/ \E i \in Bindings(w, s) : ReadsLive(w, w.records[i], D)
  \/ \E name \in s.members : \E i \in SchemaRecords(w, name, s.file) : ReadsLive(w, w.records[i], D)

DecideSchema(w, s, D) ==
  \/ Bindings(w, s) = {}
  \/ \E i \in Bindings(w, s) : ReadsLive(w, w.records[i], D)
  \/ \E i \in WithRole(w, "schema") : s.schema \in w.records[i].uses /\ ReadsLive(w, w.records[i], D)
  \/ \E name \in s.members : \E i \in SchemaRecords(w, name, s.file) : ReadsLive(w, w.records[i], D)

(* An implementer's via, unlike a consumer's, may name no implementer.     *)
DecideImplementer(w, r, D) ==
  \/ SchemaRecords(w, r.schema, r.file) = {}
  \/ \E i \in SchemaRecords(w, r.schema, r.file) : ReadsLive(w, w.records[i], D)
  \/ \E name \in r.via : \E i \in Implementer(w, r.analyzer, name) : HeldLive(w.records[i], D)

-----------------------------------------------------------------------------
(* The confidence rule 3 promotes a dead schema record at. *)
PromotedClass(w, s) ==
  LET bindings == {w.records[i] : i \in Bindings(w, s)}
      lower == \/ \E b \in bindings : b.cap /\ s.class # 0
               \/ \E b \in bindings : b.library
  IN  IF lower THEN 2 ELSE s.class

(* The components withheld under a minimum confidence. *)
Withheld(w, minimum) ==
  {w.records[i].component :
     i \in {j \in Dead(w, "schema") : PromotedClass(w, w.records[j]) > minimum}}

-----------------------------------------------------------------------------
(* The outcome, as a set of components. *)
Minima == 0 .. 2   \* the ranks of a minimum; 2 withholds nothing, as no minimum does

(* The components the rules decide, some of them dropped already. *)
Decided(w, D) ==
  {w.evaluations[i].component :
     i \in {j \in DeadEvaluations(w) : DecideEvaluation(w, w.evaluations[j], D)}}
  \union {w.records[i].component :
            i \in {j \in Dead(w, "schema") : DecideSchema(w, w.records[j], D)}}
  \union {w.records[i].component :
            i \in {j \in Dead(w, "implementer") : DecideImplementer(w, w.records[j], D)}}

(* Nothing withheld or decided is missing. *)
Closed(w, m, D) == Withheld(w, m) \union Decided(w, D) \subseteq D

-----------------------------------------------------------------------------
(* What the records carry: the finding of a dead evaluation or of a dead   *)
(* schema or implementer record, and an implementer's carried findings.    *)
Carrying(w) == Dead(w, "schema") \union Dead(w, "implementer")
KeysOf(w, i) == {w.records[i].key} \union w.records[i].carried

(* Bug: the carried findings of a dropped implementer left out. *)
BlockedKeysOfFindings(w, D) ==
  {w.evaluations[i].key : i \in {j \in DeadEvaluations(w) : w.evaluations[j].component \in D}}
  \union {w.records[i].key : i \in {j \in Carrying(w) : w.records[j].component \in D}}

(* The findings a dropped component carries, in either relation. *)
BlockedKeys(w, D) ==
  {w.evaluations[i].key : i \in {j \in DeadEvaluations(w) : w.evaluations[j].component \in D}}
  \union UNION {KeysOf(w, i) : i \in {j \in Carrying(w) : w.records[j].component \in D}}

CarriedKeys(w) ==
  {w.evaluations[i].key : i \in DeadEvaluations(w)} \union UNION {KeysOf(w, i) : i \in Carrying(w)}
=============================================================================
