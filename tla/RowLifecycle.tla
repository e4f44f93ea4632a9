---------------------------- MODULE RowLifecycle ----------------------------
(***************************************************************************)
(* What a baseline write promises, row by row, whatever the rounds answer: *)
(* a row starts unrecorded, may be held, may be dropped once held, and is  *)
(* never held again.  suppress.Fixpoint is shown to implement it in        *)
(* BaselineFixpoint.                                                       *)
(***************************************************************************)

CONSTANT Row

VARIABLES
  status,   \* where each row is in its life
  ended     \* the write has answered

lvars == <<status, ended>>

RowStatus == {"unrecorded", "held", "dropped"}

(* The moves one step of a round may make with one row. *)
Moves == {<<s, s>> : s \in RowStatus}
           \union {<<"unrecorded", "held">>, <<"held", "dropped">>}

LInit ==
  /\ status = [r \in Row |-> "unrecorded"]
  /\ ended = FALSE

Advance ==
  /\ ~ ended
  /\ status' \in [Row -> RowStatus]
  /\ \A r \in Row : <<status[r], status'[r]>> \in Moves
  /\ UNCHANGED ended

(* The write ends on a step that moves no row. *)
End ==
  /\ ~ ended
  /\ ended' = TRUE
  /\ UNCHANGED status

LNext == Advance \/ End

LSpec == LInit /\ [][LNext]_lvars
=============================================================================
