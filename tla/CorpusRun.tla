----------------------------- MODULE CorpusRun -----------------------------
(***************************************************************************)
(* corpus.Run (src/corpus/run.go): a pool of goroutines answers the        *)
(* selected fixtures, handed over an unbuffered channel, each in a scratch *)
(* copy of its own and through the steps of runner.answer, while the run   *)
(* may be cancelled at any moment.                                         *)
(*                                                                         *)
(* What an analysis answers is left open: it ends well or badly, and the   *)
(* fixture's row is then any the answers could make it.  The analyzer may  *)
(* also change files of the rendering it is run over, which the runner     *)
(* looks for with digests.                                                 *)
(***************************************************************************)
EXTENDS Integers, Sequences, FiniteSets

CONSTANTS
  Worker,      \* the goroutines: max(Jobs, 1) of them
  Fixtures     \* the selected fixtures in order, each with what its expectation file names

ASSUME WorkerAssumption == IsFiniteSet(Worker) /\ Worker # {}
ASSUME FixturesAssumption ==
  Fixtures \in Seq([setup : BOOLEAN, facts : BOOLEAN, retained : BOOLEAN, pending : BOOLEAN])

Index == DOMAIN Fixtures

VARIABLES
  inProcess,   \* the analyzer is linked in, not a command
  cancelled,   \* the run's context is
  main,        \* Run itself: "starting", "sending", "waiting", "ended"
  sent,        \* the fixture to hand over next
  worker,      \* each goroutine: where it is and the local state of its answer
  scratch,     \* the fixtures whose scratch directory exists
  rows,        \* the rows written, None where none is
  outcome      \* what Run returned

vars == <<inProcess, cancelled, main, sent, worker, scratch, rows, outcome>>

None == [result |-> "none"]

(* The files of a rendering a digest tells apart: the ignore file the      *)
(* runner may rewrite, and every other one.                                *)
File == {"ignore", "other"}

(* The steps that run the analyzer. *)
Analyses == {"setup", "first", "without-facts", "retained", "second"}

Untouched == [f \in File |-> 0]

(* A goroutine with no fixture.  running: a process is; differs: the files *)
(* that differ from their recorded digest; changed (history): how many     *)
(* analyses changed each file since the runner last wrote it, 2 for two or *)
(* more; cut: a cancelled invocation had a part in the row.                *)
Idle == [at |-> "idle", fixture |-> 0, running |-> FALSE,
         differs |-> {}, changed |-> Untouched, cut |-> FALSE, result |-> "none"]

Init ==
  /\ inProcess \in BOOLEAN /\ cancelled = FALSE
  /\ main = "starting" /\ sent = 1
  /\ worker = [w \in Worker |-> Idle]
  /\ scratch = {} /\ rows = [i \in Index |-> None]
  /\ outcome = "none"

-----------------------------------------------------------------------------
(* The corpus was read, the product described and the fixtures selected. *)
StartPool ==
  /\ main = "starting" /\ main' = "sending"
  /\ UNCHANGED <<inProcess, cancelled, sent, worker, scratch, rows, outcome>>

(* Or one of them failed. *)
CannotStart ==
  /\ main = "starting" /\ main' = "ended" /\ outcome' = "error"
  /\ UNCHANGED <<inProcess, cancelled, sent, worker, scratch, rows>>

(* The channel holds nothing: a send is an idle goroutine's receive. *)
HandOver(w) ==
  /\ main = "sending" /\ sent \in Index /\ worker[w] = Idle
  /\ sent' = sent + 1
  /\ worker' = [worker EXCEPT ![w] = [Idle EXCEPT !.at = "making", !.fixture = sent]]
  /\ UNCHANGED <<inProcess, cancelled, main, scratch, rows, outcome>>

Close ==
  /\ main = "sending" /\ sent > Len(Fixtures) /\ main' = "waiting"
  /\ UNCHANGED <<inProcess, cancelled, sent, worker, scratch, rows, outcome>>

(* Bug: a goroutine that outlives its channel. *)
LeaveAfterTheRun(w) ==
  /\ main = "ended" /\ worker[w] = Idle
  /\ worker' = [worker EXCEPT ![w].at = "gone"]
  /\ UNCHANGED <<inProcess, cancelled, main, sent, scratch, rows, outcome>>

(* The closed channel ends an idle goroutine. *)
Leave(w) ==
  /\ main = "waiting" /\ worker[w] = Idle
  /\ worker' = [worker EXCEPT ![w].at = "gone"]
  /\ UNCHANGED <<inProcess, cancelled, main, sent, scratch, rows, outcome>>

(* Bug: a run that was cancelled, answered. *)
JoinAnyway ==
  /\ main = "waiting" /\ \A w \in Worker : worker[w].at = "gone"
  /\ main' = "ended" /\ outcome' = "results"
  /\ UNCHANGED <<inProcess, cancelled, sent, worker, scratch, rows>>

(* Every goroutine is gone: the results, unless the run was cancelled. *)
Join ==
  /\ main = "waiting" /\ \A w \in Worker : worker[w].at = "gone"
  /\ main' = "ended"
  /\ outcome' = IF cancelled THEN "error" ELSE "results"
  /\ UNCHANGED <<inProcess, cancelled, sent, worker, scratch, rows>>

(* The caller's signal, at any moment. *)
Cancel ==
  /\ ~ cancelled /\ cancelled' = TRUE
  /\ UNCHANGED <<inProcess, main, sent, worker, scratch, rows, outcome>>

-----------------------------------------------------------------------------
Of(w) == Fixtures[worker[w].fixture]

(* A goroutine's own step: nothing of the run's changes. *)
Local(w, next) ==
  /\ worker' = [worker EXCEPT ![w] = next]
  /\ UNCHANGED <<inProcess, cancelled, main, sent, scratch, rows, outcome>>

(* The answer is made, or could not be: its directory is removed next. *)
Return(held, result) == [held EXCEPT !.at = "removing", !.running = FALSE, !.result = result]
Break(held) == Return(held, "broken")

Make(w) ==
  /\ worker[w].at = "making"
  /\ worker' = [worker EXCEPT ![w].at = "preparing"]
  /\ scratch' = scratch \union {worker[w].fixture}
  /\ UNCHANGED <<inProcess, cancelled, main, sent, rows, outcome>>

CannotMake(w) == worker[w].at = "making" /\ Local(w, Break(worker[w]))

(* The sites resolve, the rendering and the documents are written, and the *)
(* digests of the rendering's files recorded.                              *)
Prepare(w) ==
  /\ worker[w].at = "preparing"
  /\ Local(w, [worker[w] EXCEPT !.at = IF Of(w).setup THEN "setup" ELSE "first"])

CannotPrepare(w) == worker[w].at = "preparing" /\ Local(w, Break(worker[w]))

(* A cancelled context refuses a command its start; a linked-in analyzer   *)
(* is called all the same.                                                 *)
StartAnalysis(w) ==
  /\ worker[w].at \in Analyses /\ ~ worker[w].running
  /\ inProcess \/ ~ cancelled
  /\ Local(w, [worker[w] EXCEPT !.running = TRUE])

CannotStartAnalysis(w) ==
  /\ worker[w].at \in Analyses /\ ~ worker[w].running /\ ~ inProcess
  /\ Local(w, Break([worker[w] EXCEPT !.cut = @ \/ cancelled]))

(* A cancelled context may cut an invocation short. *)
Killed == IF cancelled THEN BOOLEAN ELSE {FALSE}

(* What one invocation leaves: the files it changed, and those of them     *)
(* that are back to the bytes their digest is of.  Only a file that was no *)
(* longer as the runner wrote it can come back.                            *)
Restorable(held, files) == SUBSET (files \cap held.differs)

After(held, killed, files, back) ==
  [held EXCEPT !.running = FALSE, !.cut = @ \/ killed,
               !.changed = [f \in File |-> IF f \in files /\ held.changed[f] < 2
                                           THEN held.changed[f] + 1 ELSE held.changed[f]],
               !.differs = (@ \union files) \ back]

(* The step after an analysis that ended well. *)
Following(step, fixture) ==
  IF step = "second" THEN "checking"
  ELSE IF step = "first" /\ fixture.facts THEN "without-facts"
  ELSE IF step # "retained" /\ fixture.retained THEN "retained"
  ELSE "covering"

(* A killed command exits with no code the runner admits; a linked-in      *)
(* analyzer answers what it likes.                                         *)
EndAnalysis(w) ==
  /\ worker[w].at \in Analyses \ {"setup"} /\ worker[w].running
  /\ \E killed \in Killed, files \in SUBSET File :
       /\ killed => inProcess
       /\ \E back \in Restorable(worker[w], files) :
            Local(w, [After(worker[w], killed, files, back) EXCEPT !.at = Following(@, Of(w))])

(* It exits with another code, or writes no document that decodes. *)
EndBadly(w) ==
  /\ worker[w].at \in Analyses \ {"setup"} /\ worker[w].running
  /\ \E killed \in Killed, files \in SUBSET File :
       \E back \in Restorable(worker[w], files) :
         Local(w, Break(After(worker[w], killed, files, back)))

(* A fixture whose run must fail is answered by the run's end, whatever    *)
(* ended it; a gap may cover the class.                                    *)
EndSetup(w) ==
  /\ worker[w].at = "setup" /\ worker[w].running
  /\ \E killed \in Killed, files \in SUBSET File, result \in {"pass", "gap", "fail"} :
       /\ killed /\ ~ inProcess => result # "pass"
       /\ Local(w, Return(After(worker[w], killed, files, {}), result))

(* No finding of the first analysis can be suppressed. *)
NothingCovered(w) ==
  /\ worker[w].at = "covering" /\ Local(w, [worker[w] EXCEPT !.at = "checking"])

(* Bug: the digests taken again after the first analysis. *)
WriteIgnoreForgets(w) ==
  /\ worker[w].at = "covering"
  /\ Local(w, [worker[w] EXCEPT !.at = "second", !.differs = {}, !.changed["ignore"] = 0])

(* The entries are added to the ignore file the rendering holds now, and   *)
(* its digest becomes that of what was written.                            *)
WriteIgnore(w) ==
  /\ worker[w].at = "covering"
  /\ Local(w, [worker[w] EXCEPT !.at = "second", !.differs = @ \ {"ignore"},
                                !.changed["ignore"] = 0])

CannotWriteIgnore(w) == worker[w].at = "covering" /\ Local(w, Break(worker[w]))

(* After the last analysis every file has its digest again, whatever it    *)
(* held in between, or the answer is an error; the rows decided make it    *)
(* any result.                                                             *)
Decide(w) ==
  /\ worker[w].at = "checking" /\ worker[w].differs = {}
  /\ \E result \in {"pass", "gap", "fail"} : Local(w, Return(worker[w], result))

(* A file changed, or the rendering cannot be read. *)
FindChange(w) == worker[w].at = "checking" /\ Local(w, Break(worker[w]))

(* A fixture the runner could not complete is a failed row, and a pending  *)
(* one pending whatever it answered.  touched (history): whether analyses  *)
(* changed files of its rendering, and if so whether some file only once.  *)
RowOf(held) ==
  [result  |-> CASE Fixtures[held.fixture].pending -> "pending"
                 [] ~ Fixtures[held.fixture].pending /\ held.result = "broken" -> "fail"
                 [] OTHER -> held.result,
   broken  |-> held.result = "broken", cut |-> held.cut,
   touched |-> CASE held.changed = Untouched -> "never"
                 [] \E f \in File : held.changed[f] = 1 -> "once"
                 [] OTHER -> "again"]

(* The scratch directory goes on every way out, and the row is written at  *)
(* the fixture's own place.                                                *)
Remove(w) ==
  /\ worker[w].at = "removing"
  /\ scratch' = scratch \ {worker[w].fixture}
  /\ rows' = [rows EXCEPT ![worker[w].fixture] = RowOf(worker[w])]
  /\ worker' = [worker EXCEPT ![w] = Idle]
  /\ UNCHANGED <<inProcess, cancelled, main, sent, outcome>>

Answer(w) ==
  \/ Make(w) \/ CannotMake(w) \/ Prepare(w) \/ CannotPrepare(w)
  \/ StartAnalysis(w) \/ CannotStartAnalysis(w)
  \/ EndAnalysis(w) \/ EndBadly(w) \/ EndSetup(w)
  \/ NothingCovered(w) \/ WriteIgnore(w) \/ CannotWriteIgnore(w)
  \/ Decide(w) \/ FindChange(w) \/ Remove(w)

Run == StartPool \/ CannotStart \/ Close \/ Join

Next == Run \/ Cancel \/ \E w \in Worker : HandOver(w) \/ Leave(w) \/ Answer(w)

(* Each goroutine is scheduled and each invocation ends: nothing bounds an *)
(* analyzer's time but its own end.  No one need cancel.                   *)
Fairness ==
  /\ WF_vars(Run)
  /\ WF_vars(\E w \in Worker : HandOver(w))
  /\ \A w \in Worker : WF_vars(Leave(w)) /\ WF_vars(Answer(w))

Spec == Init /\ [][Next]_vars /\ Fairness

-----------------------------------------------------------------------------
Result == {"pass", "gap", "fail", "pending"}

Goroutine ==
  [at : {"idle", "making", "preparing", "covering", "checking", "removing", "gone"}
          \union Analyses,
   fixture : Index \union {0}, running : BOOLEAN,
   differs : SUBSET File, changed : [File -> 0 .. 2], cut : BOOLEAN,
   result : {"none", "pass", "gap", "fail", "broken"}]

Row == [result : Result, broken : BOOLEAN, cut : BOOLEAN,
        touched : {"never", "once", "again"}]

(* The variables' types. *)
TypeOK ==
  /\ inProcess \in BOOLEAN /\ cancelled \in BOOLEAN
  /\ main \in {"starting", "sending", "waiting", "ended"}
  /\ sent \in 1 .. Len(Fixtures) + 1
  /\ worker \in [Worker -> Goroutine]
  /\ scratch \subseteq Index
  /\ rows \in [Index -> {None} \union Row]
  /\ outcome \in {"none", "results", "error"}

HeldBy(w) == {worker[w].fixture} \ {0}
Held == UNION {HeldBy(w) : w \in Worker}
Answered == {i \in Index : rows[i] # None}

(* Every fixture handed over is either one goroutine's or answered, never  *)
(* both and never two goroutines', and none is answered that was not.      *)
EachFixtureOnce ==
  /\ Held \union Answered = 1 .. sent - 1
  /\ Held \cap Answered = {}
  /\ \A v, w \in Worker : v # w => HeldBy(v) \cap HeldBy(w) = {}

(* A scratch directory exists only while a goroutine answers its fixture,  *)
(* so that no more exist than there are jobs and none outlives the run,    *)
(* whichever error ended the answer.                                       *)
ScratchIsHeld == scratch \subseteq Held

(* Results returned are whole: a row for every selected fixture, and no    *)
(* goroutine still to write one.                                           *)
ResultsAreWhole ==
  outcome = "results" =>
    Answered = Index /\ Held = {} /\ \A w \in Worker : worker[w].at = "gone"

(* A run that returns results returns no row a cancellation had a part in: *)
(* an analysis killed half way is never read as the analyzer's own answer. *)
NoCutRowReturned == outcome = "results" => \A i \in Index : ~ rows[i].cut

(* A pending fixture is never judged, whatever happened to its answer, and *)
(* no other one escapes judgement.                                         *)
PendingIsNeverJudged ==
  \A i \in Answered : rows[i].result = "pending" <=> Fixtures[i].pending

(* A file of the rendering that one analysis changed since the runner last *)
(* wrote it makes the answer an error, whichever of the analyses it was    *)
(* and whatever ran between it and the one comparison.  A second analysis  *)
(* can put such a file back, and the comparison then finds nothing         *)
(* (run.go:309); a fixture whose run must fail is answered without it.     *)
ChangeIsCaught ==
  \A i \in Answered : rows[i].touched = "once" /\ ~ Fixtures[i].setup => rows[i].broken

(* A row once written stays as written. *)
RowsStand == [][\A i \in Answered : rows'[i] = rows[i]]_vars

(* The run ends, cancelled or not. *)
RunEnds == <>(outcome # "none")
=============================================================================
