-------------------------- MODULE BaselineFixpoint --------------------------
(***************************************************************************)
(* suppress.Fixpoint (src/suppress/baseline.go): the rounds of a baseline  *)
(* write.  Each round runs the analysis over the rows held so far and      *)
(* answers the rows it records and the rows it found stale; the loop       *)
(* removes, appends row by row, and stops on the first round that does     *)
(* neither.                                                                *)
(*                                                                         *)
(* The analysis is a function value the caller passes in.  All the loop    *)
(* knows of it is its signature, so a round's answer is any list of rows,  *)
(* duplicates included, and any of the rows it read, or an error.  That    *)
(* the stale rows are rows it read is what suppress.StaleRecords answers   *)
(* over the records bound from them (module Ledger).                       *)
(***************************************************************************)
EXTENDS Integers, Sequences, FiniteSets, SequencesExt

CONSTANTS
  Row,        \* the rows an analysis can record: code, symbol and path
  MaxAnswer   \* the longest list of rows one round answers

ASSUME RowIsFinite == IsFiniteSet(Row)
ASSUME MaxAnswerIsNat == MaxAnswer \in Nat

VARIABLES
  phase,     \* "calling" a round, "keeping" rows, "appending" rows, "ended", "failed"
  rows,      \* the rows held, in the order recorded
  removed,   \* every row a round found stale
  recorded,  \* what this round recorded
  gone,      \* what this round found stale
  todo,      \* what the loop of this phase has left to look at
  kept,      \* the rows the next round reads, as far as built
  added,     \* this round appended a row
  rounds     \* history: how many rounds have answered or failed, up to RoundCap

vars == <<phase, rows, removed, recorded, gone, todo, kept, added, rounds>>

(* The loop counts nothing: rounds is there to state its bound, and stops  *)
(* one past it, so that a loop without one has finitely many states.       *)
RoundCap == 2 * Cardinality(Row) + 2
CountRound == rounds' = IF rounds = RoundCap THEN rounds ELSE rounds + 1

Init ==
  /\ phase = "calling"
  /\ rows = << >> /\ removed = {}
  /\ recorded = << >> /\ gone = {}
  /\ todo = << >> /\ kept = << >> /\ added = FALSE
  /\ rounds = 0

(* One round answered: its stale rows are gone from this round on, for good. *)
Answer(rec, stale) ==
  /\ phase = "calling"
  /\ phase' = "keeping"
  /\ CountRound
  /\ recorded' = rec
  /\ gone' = stale
  /\ removed' = removed \union stale
  /\ todo' = rows /\ kept' = << >> /\ added' = FALSE
  /\ UNCHANGED rows

(* A round that failed ends the write with its error. *)
Fail ==
  /\ phase = "calling"
  /\ phase' = "failed"
  /\ CountRound
  /\ UNCHANGED <<rows, removed, recorded, gone, todo, kept, added>>

(* One row of slices.DeleteFunc over the rows. *)
Keep ==
  /\ phase = "keeping" /\ todo # << >>
  /\ todo' = Tail(todo)
  /\ kept' = IF Head(todo) \in gone THEN kept ELSE Append(kept, Head(todo))
  /\ UNCHANGED <<phase, rows, removed, recorded, gone, added, rounds>>

KeptAll ==
  /\ phase = "keeping" /\ todo = << >>
  /\ phase' = "appending"
  /\ todo' = recorded
  /\ UNCHANGED <<rows, removed, recorded, gone, kept, added, rounds>>

(* Bug: whether a round removed the row forgotten. *)
AppendsRemovedAgain(row) == row \notin ToSet(kept)

(* A recorded row is appended when no round removed it and none holds it. *)
Appends(row) == row \notin removed /\ row \notin ToSet(kept)

AppendRow ==
  /\ phase = "appending" /\ todo # << >>
  /\ todo' = Tail(todo)
  /\ IF Appends(Head(todo))
       THEN kept' = Append(kept, Head(todo)) /\ added' = TRUE
       ELSE UNCHANGED <<kept, added>>
  /\ UNCHANGED <<phase, rows, removed, recorded, gone, rounds>>

(* Bugs: stale rows not asked about; the report asked to be              *)
(* empty where only new rows count.                                       *)
SettledOnNoAddition == ~ added
SettledOnNoFinding == recorded = << >> /\ gone = {}

(* The write ends with the first round that records and removes nothing. *)
Settled == ~ added /\ gone = {}

Finish ==
  /\ phase = "appending" /\ todo = << >>
  /\ phase' = IF Settled THEN "ended" ELSE "calling"
  /\ rows' = kept
  /\ UNCHANGED <<removed, recorded, gone, todo, kept, added, rounds>>

Next ==
  \/ \E rec \in BoundedSeq(Row, MaxAnswer), stale \in SUBSET ToSet(rows) : Answer(rec, stale)
  \/ Fail
  \/ Keep
  \/ KeptAll
  \/ AppendRow
  \/ Finish

(* The loop is sequential: a step of it always runs.  A round that never   *)
(* returns is the analyzer's, and outside this function.                   *)
Spec == Init /\ [][Next]_vars /\ WF_vars(Next)

-----------------------------------------------------------------------------
TypeOK ==
  /\ phase \in {"calling", "keeping", "appending", "ended", "failed"}
  /\ rows \in Seq(Row) /\ kept \in Seq(Row)
  /\ recorded \in Seq(Row) /\ todo \in Seq(Row)
  /\ removed \in SUBSET Row /\ gone \in SUBSET Row
  /\ added \in BOOLEAN /\ (added => kept # << >>)
  /\ rounds \in Nat

(* No row is held twice, though a round may record it twice or record a    *)
(* row it holds: the second would be stale the next time it is read, since *)
(* a finding is matched by one record, and the write would then remove it. *)
HeldOnce == IsInjective(rows)

(* A removed row is never recorded again: what stops two rounds from       *)
(* recording and removing one row for ever.                                *)
RemovedStaysOut == phase = "calling" => ToSet(rows) \cap removed = {}

(* N distinct rows end within 2N + 1 rounds: every round but the last      *)
(* records a row that was never held or removes one for good.              *)
RoundBound == rounds <= 2 * Cardinality(Row) + 1

(* The round that ends the write read exactly the rows it answers, found   *)
(* none of them stale, and recorded nothing the document should hold.      *)
EndsOnAFixpoint ==
  [][phase' = "ended" =>
       rows' = rows /\ ToSet(recorded) \subseteq ToSet(rows) \union removed]_vars

(* Row by row, the loop implements the life a baseline row may have.  A    *)
(* row is dropped from the moment a round finds it stale.                  *)
StatusOf(row) ==
  CASE row \in ToSet(rows) \ gone               -> "held"
    [] row \in removed \ (ToSet(rows) \ gone)   -> "dropped"
    [] OTHER                                    -> "unrecorded"

Lifecycle == INSTANCE RowLifecycle
  WITH status <- [r \in Row |-> StatusOf(r)], ended <- phase \in {"ended", "failed"}

ImplementsLifecycle == Lifecycle!LSpec

=============================================================================
