---------------------------- MODULE MCCorpusRun ----------------------------
(* Two goroutines over three fixtures that between them take every step of *)
(* an answer: one whose run must fail, one answered through all four       *)
(* analyses, and one whose run must fail and is pending.                   *)
EXTENDS CorpusRun

Plain == [setup |-> FALSE, facts |-> FALSE, retained |-> FALSE, pending |-> FALSE]
ThreeFixtures ==
  <<[Plain EXCEPT !.setup = TRUE], [Plain EXCEPT !.facts = TRUE, !.retained = TRUE],
    [Plain EXCEPT !.setup = TRUE, !.pending = TRUE]>>
=============================================================================
