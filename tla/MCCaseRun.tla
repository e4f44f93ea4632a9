------------------------------ MODULE MCCaseRun ------------------------------
(***************************************************************************)
(* CaseRun over vectors of at most two cases and three runs.               *)
(***************************************************************************)
EXTENDS CaseRun

Vector(named, pending, interrupt, repeat) ==
  [named |-> named, pending |-> pending, interrupt |-> interrupt, repeat |-> repeat]

Interrupted(repeat) == Vector(TRUE, FALSE, TRUE, repeat)

Lists ==
  {<<Interrupted(2), Interrupted(0)>>, <<Vector(TRUE, FALSE, FALSE, 3)>>,
   <<Vector(TRUE, TRUE, TRUE, 0), Vector(FALSE, FALSE, FALSE, 0), Vector(TRUE, FALSE, FALSE, 2)>>}
=============================================================================
