---------------------------- MODULE MergeClosure ----------------------------
(***************************************************************************)
(* What the fixpoint of step 4 promises (contract/grammar/merge.md): the   *)
(* components dropped only grow, each by a rule that decides it, in any    *)
(* order whatever, until no rule decides one more.  What the rules are is  *)
(* the business of the module that instantiates this one.                  *)
(***************************************************************************)
EXTENDS Integers

CONSTANTS
  Minima,           \* the ranks of a least confidence to report
  Withheld(_, _),   \* the components of a working set withheld under one
  Decided(_, _)     \* the components the rules decide beside those dropped

VARIABLES
  world,    \* the working set, any
  minimum,  \* the rank of the least confidence to report
  dropped,  \* the components dropped
  settled   \* no rule decides one more

Init ==
  /\ minimum \in Minima
  /\ dropped = {}
  /\ settled = FALSE

Withhold == dropped = {} /\ ~ settled /\ dropped' = Withheld(world, minimum) /\ UNCHANGED settled

Drop(c) ==
  /\ ~ settled
  /\ Withheld(world, minimum) \subseteq dropped
  /\ c \in Decided(world, dropped) \ dropped
  /\ dropped' = dropped \union {c} /\ UNCHANGED settled

Settle ==
  /\ ~ settled
  /\ Withheld(world, minimum) \union Decided(world, dropped) \subseteq dropped
  /\ settled' = TRUE /\ UNCHANGED dropped

(* The merge is resolved again under a lower confidence, to count what the *)
(* minimum withheld.                                                       *)
Again ==
  /\ settled /\ minimum' \in {m \in Minima : m > minimum}
  /\ dropped' = {} /\ settled' = FALSE

Next ==
  /\ UNCHANGED world
  /\ \/ UNCHANGED minimum /\ (Withhold \/ Settle \/ \E c \in Decided(world, dropped) : Drop(c))
     \/ Again

Spec == Init /\ [][Next]_<<world, minimum, dropped, settled>>
=============================================================================
