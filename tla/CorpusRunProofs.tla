-------------------------- MODULE CorpusRunProofs --------------------------
(***************************************************************************)
(* For any number of goroutines and any list of fixtures: each fixture is  *)
(* answered once, no scratch directory is left behind, and a run that was  *)
(* cancelled never returns a row the cancellation had a part in.           *)
(***************************************************************************)
EXTENDS CorpusRun, SequenceTheorems, TLAPS

(* A goroutine is busy while it holds a fixture. *)
Busy(held) == held.at \notin {"idle", "gone"}
BusyHolds == \A w \in Worker : worker[w].fixture # 0 <=> Busy(worker[w])

(* An answer returned has a result. *)
Resulted(held) == held.at = "removing" => held.result # "none"
ReturnsResult == \A w \in Worker : Resulted(worker[w])

(* A file differs from its digest only after a change, and does after just *)
(* one: such a change stays seen until the answer is an error.  Only a     *)
(* fixture whose run must fail goes without the digests.                   *)
OneChange(held) == \E f \in File : held.changed[f] = 1
Traced(held) ==
  \A f \in File : /\ f \in held.differs => held.changed[f] # 0
                  /\ held.changed[f] = 1 => f \in held.differs
Seen(held) ==
  /\ held.at = "setup" => Fixtures[held.fixture].setup
  /\ Traced(held)
  /\ held.at = "removing" /\ OneChange(held) /\ ~ Fixtures[held.fixture].setup =>
       held.result = "broken"
ChangesSeen == \A w \in Worker : Seen(worker[w])

(* A cut answer or row says that the run was cancelled. *)
CutMeansCancelled ==
  /\ \A w \in Worker : worker[w].cut => cancelled
  /\ \A i \in Index : rows[i] # None /\ rows[i].cut => cancelled

(* How far Run itself has come. *)
Progress ==
  /\ outcome # "none" <=> main = "ended"
  /\ main = "waiting" => sent = Len(Fixtures) + 1
  /\ outcome = "results" =>
       /\ sent = Len(Fixtures) + 1
       /\ \A w \in Worker : worker[w].at = "gone"
       /\ \A i \in Index : rows[i] # None => ~ rows[i].cut

Inv ==
  /\ TypeOK /\ EachFixtureOnce /\ ScratchIsHeld
  /\ BusyHolds /\ ReturnsResult /\ CutMeansCancelled /\ Progress
  /\ ChangesSeen /\ ChangeIsCaught /\ PendingIsNeverJudged

LEMMA Facts == Len(Fixtures) \in Nat /\ Index = 1 .. Len(Fixtures)
BY FixturesAssumption DEF Index

LEMMA FixtureType ==
  ASSUME NEW i \in Index
  PROVE  /\ Fixtures[i].setup \in BOOLEAN /\ Fixtures[i].facts \in BOOLEAN
         /\ Fixtures[i].retained \in BOOLEAN /\ Fixtures[i].pending \in BOOLEAN
<1>1. Fixtures[i] \in [setup : BOOLEAN, facts : BOOLEAN, retained : BOOLEAN, pending : BOOLEAN]
  <2>1. i \in 1 .. Len(Fixtures)
    BY Facts
  <2> QED BY <2>1, FixturesAssumption, ElementOfSeq, Zenon
<1> QED BY <1>1, Zenon

LEMMA UntouchedType == Untouched \in [File -> 0 .. 2] /\ \A f \in File : Untouched[f] = 0
BY DEF Untouched

(* A goroutine that runs no analysis yet, or no more, has nothing to trace. *)
LEMMA Taken ==
  ASSUME NEW i \in Index, NEW held, held = [Idle EXCEPT !.at = "making", !.fixture = i]
  PROVE  /\ held \in Goroutine /\ held.at = "making" /\ held.fixture = i /\ held.cut = FALSE
         /\ Seen(held)
<1>1. held \in Goroutine
  BY UntouchedType DEF Idle, Goroutine
<1>2. /\ held.at = "making" /\ held.fixture = i /\ held.cut = FALSE
      /\ held.differs = {} /\ held.changed = Untouched
  BY DEF Idle
<1> QED BY <1>1, <1>2, UntouchedType DEF Seen, Traced

LEMMA Gone ==
  ASSUME NEW held, held = [Idle EXCEPT !.at = "gone"]
  PROVE  /\ held \in Goroutine /\ held.at = "gone" /\ held.fixture = 0 /\ held.cut = FALSE
         /\ Seen(held)
<1>1. held \in Goroutine
  BY UntouchedType DEF Idle, Goroutine
<1>2. /\ held.at = "gone" /\ held.fixture = 0 /\ held.cut = FALSE
      /\ held.differs = {} /\ held.changed = Untouched
  BY DEF Idle
<1> QED BY <1>1, <1>2, UntouchedType DEF Seen, Traced

LEMMA Initially == Init => Inv
<1> SUFFICES ASSUME Init PROVE Inv
  OBVIOUS
<1> USE Facts
<1>1. Idle \in Goroutine
  BY UntouchedType DEF Idle, Goroutine, File
<1>2. TypeOK
  <2>1. inProcess \in BOOLEAN /\ cancelled \in BOOLEAN
    BY Zenon DEF Init
  <2>2. /\ main \in {"starting", "sending", "waiting", "ended"}
        /\ sent \in 1 .. Len(Fixtures) + 1
        /\ scratch \subseteq Index
        /\ outcome \in {"none", "results", "error"}
    BY DEF Init
  <2>3. worker \in [Worker -> Goroutine]
    BY <1>1 DEF Init
  <2>4. rows \in [Index -> {None} \union Row]
    BY DEF Init
  <2> QED BY <2>1, <2>2, <2>3, <2>4 DEF TypeOK
<1>3. EachFixtureOnce /\ ScratchIsHeld
  BY DEF Init, EachFixtureOnce, ScratchIsHeld, Held, HeldBy, Answered, Idle
<1>4. BusyHolds /\ ReturnsResult /\ CutMeansCancelled /\ Progress
  BY DEF Init, BusyHolds, Busy, ReturnsResult, Resulted, CutMeansCancelled, Progress, Idle
<1>5. ChangesSeen /\ ChangeIsCaught /\ PendingIsNeverJudged
  BY UntouchedType DEF Init, ChangesSeen, Seen, Traced, OneChange, ChangeIsCaught, PendingIsNeverJudged, Answered, Idle
<1> QED BY <1>2, <1>3, <1>4, <1>5 DEF Inv

-----------------------------------------------------------------------------
(* A step of an answer that keeps its fixture keeps the invariant. *)
LEMMA LocalStep ==
  ASSUME Inv, NEW w \in Worker, NEW next \in Goroutine, Local(w, next),
         Busy(worker[w]), Busy(next), Resulted(next), Seen(next),
         next.fixture = worker[w].fixture,
         next.cut => worker[w].cut \/ cancelled
  PROVE  Inv'
<1>1. /\ worker' = [worker EXCEPT ![w] = next]
      /\ UNCHANGED <<inProcess, cancelled, main, sent, scratch, rows, outcome>>
  BY DEF Local
<1>2. TypeOK'
  BY <1>1 DEF Inv, TypeOK
<1>3. \A v \in Worker : worker'[v].fixture = worker[v].fixture
  BY <1>1 DEF Inv, TypeOK
<1>4. (\A v \in Worker : HeldBy(v)' = HeldBy(v)) /\ Held' = Held /\ Answered' = Answered
  BY <1>1, <1>3 DEF HeldBy, Held, Answered
<1>5. EachFixtureOnce' /\ ScratchIsHeld'
  BY <1>1, <1>4 DEF Inv, EachFixtureOnce, ScratchIsHeld
<1>6. BusyHolds'
  BY <1>1, <1>3 DEF Inv, BusyHolds, TypeOK, Busy
<1>7. CutMeansCancelled' /\ ReturnsResult'
  BY <1>1 DEF Inv, CutMeansCancelled, ReturnsResult, Resulted, TypeOK
<1>8. Progress'
  BY <1>1 DEF Inv, Progress, TypeOK, Busy
<1>9. ChangesSeen'
  <2> SUFFICES ASSUME NEW v \in Worker PROVE Seen(worker'[v])
    BY DEF ChangesSeen, Seen
  <2>1. worker'[v] = next \/ worker'[v] = worker[v]
    BY <1>1 DEF Inv, TypeOK
  <2> QED BY <2>1 DEF Inv, ChangesSeen
<1>10. ChangeIsCaught' /\ PendingIsNeverJudged'
  BY <1>1, <1>4 DEF Inv, ChangeIsCaught, PendingIsNeverJudged
<1> QED BY <1>2, <1>5, <1>6, <1>7, <1>8, <1>9, <1>10 DEF Inv

LEMMA Broken ==
  ASSUME NEW held \in Goroutine, Busy(held), Seen(held)
  PROVE  /\ Break(held) \in Goroutine /\ Busy(Break(held)) /\ Resulted(Break(held))
         /\ Seen(Break(held))
         /\ Break(held).fixture = held.fixture /\ Break(held).cut = held.cut
BY DEF Break, Return, Goroutine, Busy, Resulted, Seen, Traced, OneChange

LEMMA Returned ==
  ASSUME NEW held \in Goroutine, NEW result \in {"pass", "gap", "fail"}, Seen(held),
         held.differs = {} \/ Fixtures[held.fixture].setup
  PROVE  /\ Return(held, result) \in Goroutine /\ Busy(Return(held, result))
         /\ Resulted(Return(held, result)) /\ Seen(Return(held, result))
         /\ Return(held, result).fixture = held.fixture /\ Return(held, result).cut = held.cut
BY DEF Return, Goroutine, Busy, Resulted, Seen, Traced, OneChange

LEMMA Stepped ==
  ASSUME NEW held \in Goroutine, Seen(held),
         NEW step \in {"preparing", "covering", "checking"} \union Analyses,
         step = "setup" => Fixtures[held.fixture].setup
  PROVE  /\ [held EXCEPT !.at = step] \in Goroutine
         /\ Busy([held EXCEPT !.at = step]) /\ Resulted([held EXCEPT !.at = step])
         /\ Seen([held EXCEPT !.at = step])
         /\ [held EXCEPT !.at = step].fixture = held.fixture
         /\ [held EXCEPT !.at = step].cut = held.cut
BY DEF Goroutine, Busy, Resulted, Seen, Traced, OneChange, Analyses

(* What an invocation leaves keeps the step and the fixture. *)
LEMMA AfterKeeps ==
  ASSUME Inv, NEW held \in Goroutine, NEW killed \in Killed, NEW files \in SUBSET File,
         NEW back \in Restorable(held, files), Seen(held), held.at # "removing"
  PROVE  /\ After(held, killed, files, back) \in Goroutine
         /\ After(held, killed, files, back).at = held.at
         /\ After(held, killed, files, back).fixture = held.fixture
         /\ After(held, killed, files, back).cut => held.cut \/ cancelled
         /\ Seen(After(held, killed, files, back))
<1>1. killed \in BOOLEAN /\ (killed => cancelled)
  BY DEF Killed
<1>2. (held.cut \/ killed) \in BOOLEAN
  BY Zenon
<1>3. /\ held.changed \in [File -> 0 .. 2] /\ held.differs \in SUBSET File
      /\ back \subseteq files /\ back \subseteq held.differs
  BY DEF Goroutine, Restorable
<1> DEFINE after == After(held, killed, files, back)
           c == held.cut \/ killed
           d == [f \in File |-> IF f \in files /\ held.changed[f] < 2
                               THEN held.changed[f] + 1 ELSE held.changed[f]]
           e == (held.differs \union files) \ back
<1>4. after = [held EXCEPT !.running = FALSE, !.cut = c, !.changed = d, !.differs = e]
  BY DEF After
<1>5. c \in BOOLEAN /\ e \in SUBSET File
  BY <1>2, <1>3
<1>6. d \in [File -> 0 .. 2]
  BY <1>3
<1>7. c => held.cut \/ cancelled
  BY <1>1
<1>8. ASSUME NEW f \in File
      PROVE  (f \in e => d[f] # 0) /\ (d[f] = 1 => f \in e)
  <2>1. held.changed[f] \in 0 .. 2
    BY <1>3
  <2>2. (f \in held.differs => held.changed[f] # 0) /\ (held.changed[f] = 1 => f \in held.differs)
    BY DEF Seen, Traced
  <2>3. CASE f \in files
    <3>1. d[f] = IF held.changed[f] < 2 THEN held.changed[f] + 1 ELSE held.changed[f]
      BY <2>3
    <3> HIDE DEF d
    <3>2. d[f] # 0 /\ (d[f] = 1 => held.changed[f] = 0)
      BY <2>1, <3>1
    <3>3. held.changed[f] = 0 => f \in e
      BY <1>3, <2>2, <2>3
    <3> QED BY <3>2, <3>3
  <2>4. CASE f \notin files
    <3>1. d[f] = held.changed[f] /\ (f \in e <=> f \in held.differs)
      BY <1>3, <2>4
    <3> QED BY <2>2, <3>1
  <2> QED BY <2>3, <2>4
<1> HIDE DEF c, d, e
<1>9. /\ after \in Goroutine /\ after.at = held.at /\ after.fixture = held.fixture
      /\ after.cut = c /\ after.changed = d /\ after.differs = e
  BY <1>4, <1>5, <1>6 DEF Goroutine
<1>10. Seen(after)
  BY <1>8, <1>9 DEF Seen, Traced
<1> QED BY <1>7, <1>9, <1>10

LEMMA WorkerType == Inv => \A w \in Worker : worker[w] \in Goroutine /\ Seen(worker[w])
BY DEF Inv, TypeOK, ChangesSeen

(* The steps of an answer between its scratch directory and its return. *)
LEMMA LocalSteps ==
  ASSUME Inv, NEW w \in Worker,
         \/ CannotMake(w) \/ Prepare(w) \/ CannotPrepare(w)
         \/ StartAnalysis(w) \/ CannotStartAnalysis(w)
         \/ EndAnalysis(w) \/ EndBadly(w) \/ EndSetup(w)
         \/ NothingCovered(w) \/ WriteIgnore(w) \/ CannotWriteIgnore(w)
         \/ Decide(w) \/ FindChange(w)
  PROVE  Inv'
<1> DEFINE held == worker[w]
<1>1. held \in Goroutine /\ Seen(held)
  BY WorkerType
<1>2. CASE CannotMake(w) \/ CannotPrepare(w) \/ CannotWriteIgnore(w) \/ FindChange(w)
  <2>1. Busy(held) /\ Local(w, Break(held))
    BY <1>2 DEF CannotMake, CannotPrepare, CannotWriteIgnore, FindChange, Busy
  <2> QED BY <1>1, <2>1, Broken, LocalStep
<1>3. CASE Prepare(w)
  <2>1. PICK step \in {"setup", "first"} :
          /\ Local(w, [held EXCEPT !.at = step])
          /\ step = "setup" => Fixtures[held.fixture].setup
    BY <1>3 DEF Prepare, Of
  <2>2. Busy(held) /\ step \in Analyses
    BY <1>3, <2>1 DEF Prepare, Busy, Analyses
  <2> QED BY <1>1, <2>1, <2>2, Stepped, LocalStep
<1>4. CASE StartAnalysis(w)
  <2>1. Local(w, [held EXCEPT !.running = TRUE]) /\ held.at \in Analyses
    BY <1>4 DEF StartAnalysis
  <2>2. /\ [held EXCEPT !.running = TRUE] \in Goroutine
        /\ [held EXCEPT !.running = TRUE].at = held.at
        /\ [held EXCEPT !.running = TRUE].fixture = held.fixture
        /\ [held EXCEPT !.running = TRUE].cut = held.cut
    BY <1>1 DEF Goroutine
  <2>3. /\ Busy(held) /\ Busy([held EXCEPT !.running = TRUE])
        /\ Resulted([held EXCEPT !.running = TRUE])
    BY <2>1, <2>2 DEF Busy, Resulted, Analyses
  <2>4. Seen([held EXCEPT !.running = TRUE])
    BY <1>1 DEF Seen, Traced, OneChange, Goroutine
  <2> QED BY <2>1, <2>2, <2>3, <2>4, LocalStep
<1>5. CASE CannotStartAnalysis(w)
  <2> DEFINE cut == held.cut \/ cancelled
             refused == [held EXCEPT !.cut = cut]
  <2>1. Local(w, Break(refused)) /\ held.at \in Analyses
    BY <1>5 DEF CannotStartAnalysis
  <2>2. cut \in BOOLEAN /\ (cut => held.cut \/ cancelled)
    BY Zenon
  <2> HIDE DEF cut
  <2>3. /\ refused \in Goroutine /\ refused.at = held.at
        /\ refused.fixture = held.fixture /\ refused.cut = cut
        /\ Seen(refused)
    BY <1>1, <2>2 DEF Goroutine, Seen, Traced, OneChange
  <2>4. Busy(held) /\ Busy(refused)
    BY <2>1, <2>3 DEF Busy, Analyses
  <2> HIDE DEF refused
  <2> QED BY <2>1, <2>2, <2>3, <2>4, Broken, LocalStep
<1>6. CASE EndAnalysis(w)
  <2>0. PICK killed \in Killed, files \in SUBSET File :
          \E back \in Restorable(held, files) :
            Local(w, [After(held, killed, files, back) EXCEPT
                        !.at = Following(After(held, killed, files, back).at, Of(w))])
    BY <1>6 DEF EndAnalysis
  <2>1. PICK back \in Restorable(held, files) :
          Local(w, [After(held, killed, files, back) EXCEPT
                      !.at = Following(After(held, killed, files, back).at, Of(w))])
    BY <2>0
  <2> DEFINE after == After(held, killed, files, back)
             step  == Following(after.at, Of(w))
  <2>2. step \in {"covering", "checking"} \union Analyses /\ step # "setup"
    BY DEF Following, Analyses
  <2>3. /\ after \in Goroutine /\ after.at = held.at /\ after.fixture = held.fixture
        /\ after.cut => held.cut \/ cancelled
        /\ Seen(after)
    BY <1>1, <1>6, AfterKeeps DEF EndAnalysis, Analyses
  <2>4. Busy(held) /\ Local(w, [after EXCEPT !.at = step])
    BY <1>6, <2>1 DEF EndAnalysis, Busy, Analyses
  <2> HIDE DEF after, step
  <2> QED BY <2>2, <2>3, <2>4, Stepped, LocalStep
<1>7. CASE EndBadly(w)
  <2>0. PICK killed \in Killed, files \in SUBSET File :
          \E back \in Restorable(held, files) :
            Local(w, Break(After(held, killed, files, back)))
    BY <1>7 DEF EndBadly
  <2>1. PICK back \in Restorable(held, files) :
          Local(w, Break(After(held, killed, files, back)))
    BY <2>0
  <2> DEFINE after == After(held, killed, files, back)
  <2>2. /\ after \in Goroutine /\ after.at = held.at /\ after.fixture = held.fixture
        /\ after.cut => held.cut \/ cancelled
        /\ Seen(after)
    BY <1>1, <1>7, AfterKeeps DEF EndBadly, Analyses
  <2>3. Busy(held) /\ Busy(after) /\ Local(w, Break(after))
    BY <1>7, <2>1, <2>2 DEF EndBadly, Busy, Analyses
  <2> HIDE DEF after
  <2> QED BY <2>2, <2>3, Broken, LocalStep
<1>8. CASE EndSetup(w)
  <2>1. PICK killed \in Killed, files \in SUBSET File, result \in {"pass", "gap", "fail"} :
          Local(w, Return(After(held, killed, files, {}), result))
    BY <1>8 DEF EndSetup
  <2> DEFINE after == After(held, killed, files, {})
  <2>2. /\ after \in Goroutine /\ after.fixture = held.fixture
        /\ after.cut => held.cut \/ cancelled
        /\ Seen(after) /\ Fixtures[after.fixture].setup
    <3>1. {} \in Restorable(held, files)
      BY DEF Restorable
    <3> QED BY <1>1, <1>8, <3>1, AfterKeeps DEF EndSetup, Seen
  <2>3. Busy(held) /\ Local(w, Return(after, result))
    BY <1>8, <2>1 DEF EndSetup, Busy
  <2> HIDE DEF after
  <2> QED BY <2>2, <2>3, Returned, LocalStep
<1>9. CASE NothingCovered(w)
  <2>1. Busy(held) /\ Local(w, [held EXCEPT !.at = "checking"])
    BY <1>9 DEF NothingCovered, Busy
  <2> QED BY <1>1, <2>1, Stepped, LocalStep
<1>10. CASE WriteIgnore(w)
  <2> DEFINE rest == held.differs \ {"ignore"}
             since == [held.changed EXCEPT !["ignore"] = 0]
             next == [held EXCEPT !.at = "second", !.differs = rest, !.changed = since]
  <2>1. held.at = "covering" /\ Local(w, next)
    BY <1>10 DEF WriteIgnore
  <2>2. /\ rest \in SUBSET File /\ since \in [File -> 0 .. 2]
        /\ since["ignore"] = 0 /\ since["other"] = held.changed["other"]
        /\ "ignore" \notin rest /\ ("other" \in rest <=> "other" \in held.differs)
    BY <1>1 DEF Goroutine, File
  <2> HIDE DEF rest, since
  <2>3. /\ next \in Goroutine /\ next.fixture = held.fixture
        /\ next.cut = held.cut /\ Busy(next) /\ Busy(held) /\ Resulted(next)
        /\ next.changed = since /\ next.differs = rest /\ next.at = "second"
    BY <1>1, <2>1, <2>2 DEF Goroutine, Busy, Resulted, Analyses
  <2>4. Seen(next)
    BY <1>1, <2>2, <2>3 DEF Seen, Traced, File
  <2> HIDE DEF next
  <2> QED BY <2>1, <2>3, <2>4, LocalStep
<1>11. CASE Decide(w)
  <2>1. PICK result \in {"pass", "gap", "fail"} : Local(w, Return(held, result))
    BY <1>11 DEF Decide
  <2>2. Busy(held) /\ held.differs = {}
    BY <1>11 DEF Decide, Busy
  <2> QED BY <1>1, <2>1, <2>2, Returned, LocalStep
<1> QED
  BY <1>2, <1>3, <1>4, <1>5, <1>6, <1>7, <1>8, <1>9, <1>10, <1>11

-----------------------------------------------------------------------------
(* Run's own steps, and a goroutine's that ends. *)
LEMMA RunSteps ==
  ASSUME Inv, Run \/ Cancel
  PROVE  Inv'
<1>1. UNCHANGED <<sent, worker, scratch, rows>>
  BY DEF Run, StartPool, CannotStart, Close, Join, Cancel
<1>2. TypeOK'
  <2>1. inProcess' \in BOOLEAN /\ cancelled' \in BOOLEAN
    BY Zenon DEF Run, StartPool, CannotStart, Close, Join, Cancel, Inv, TypeOK
  <2>2. /\ main' \in {"starting", "sending", "waiting", "ended"}
        /\ outcome' \in {"none", "results", "error"}
    BY DEF Run, StartPool, CannotStart, Close, Join, Cancel, Inv, TypeOK
  <2> QED BY <1>1, <2>1, <2>2 DEF Inv, TypeOK
<1>3. /\ EachFixtureOnce' /\ ScratchIsHeld' /\ BusyHolds' /\ ReturnsResult'
  BY <1>1 DEF Inv, EachFixtureOnce, ScratchIsHeld, BusyHolds, ReturnsResult,
              Held, HeldBy, Answered
<1>4. CutMeansCancelled'
  <2>1. cancelled => cancelled'
    BY DEF Run, StartPool, CannotStart, Close, Join, Cancel
  <2> QED BY <1>1, <2>1 DEF Inv, CutMeansCancelled
<1>5. ChangesSeen' /\ ChangeIsCaught' /\ PendingIsNeverJudged'
  BY <1>1 DEF Inv, ChangesSeen, Seen, ChangeIsCaught, PendingIsNeverJudged, Answered
<1>6. Progress'
  <2>1. CASE StartPool \/ Cancel
    BY <2>1 DEF StartPool, Cancel, Inv, Progress
  <2>2. CASE CannotStart
    BY <2>2 DEF CannotStart, Inv, Progress
  <2>3. CASE Close
    <3>1. sent = Len(Fixtures) + 1
      BY <2>3, Facts DEF Close, Inv, TypeOK
    <3> QED BY <2>3, <3>1 DEF Close, Inv, Progress
  <2>4. CASE Join
    <3>1. /\ main = "waiting" /\ main' = "ended"
          /\ outcome' \in {"results", "error"}
          /\ outcome' = "results" => ~ cancelled
          /\ \A w \in Worker : worker[w].at = "gone"
      BY <2>4 DEF Join
    <3> QED BY <1>1, <3>1 DEF Inv, Progress, CutMeansCancelled
  <2> QED BY <2>1, <2>2, <2>3, <2>4 DEF Run
<1> QED BY <1>2, <1>3, <1>4, <1>5, <1>6 DEF Inv

(* A goroutine's answer starts or ends, and no row is written. *)
LEMMA RowlessStep ==
  ASSUME Inv, NEW w \in Worker, NEW next, worker' = [worker EXCEPT ![w] = next], rows' = rows,
         Seen(next)
  PROVE  ChangesSeen' /\ ChangeIsCaught' /\ PendingIsNeverJudged'
<1>1. \A v \in Worker : worker'[v] = next \/ worker'[v] = worker[v]
  BY DEF Inv, TypeOK
<1>2. ChangesSeen'
  <2> SUFFICES ASSUME NEW v \in Worker PROVE Seen(worker'[v])
    BY DEF ChangesSeen, Seen
  <2> QED BY <1>1 DEF Inv, ChangesSeen
<1>3. ChangeIsCaught' /\ PendingIsNeverJudged'
  BY DEF Inv, ChangeIsCaught, PendingIsNeverJudged, Answered
<1> QED BY <1>2, <1>3

LEMMA LeaveStep ==
  ASSUME Inv, NEW w \in Worker, Leave(w)
  PROVE  Inv'
<1> DEFINE gone == [worker[w] EXCEPT !.at = "gone"]
<1>1. /\ main = "waiting" /\ worker[w] = Idle
      /\ worker' = [worker EXCEPT ![w] = gone]
      /\ UNCHANGED <<inProcess, cancelled, main, sent, scratch, rows, outcome>>
  BY DEF Leave
<1>2. gone \in Goroutine /\ gone.at = "gone" /\ gone.fixture = 0 /\ gone.cut = FALSE
      /\ Seen(gone)
  <2>1. gone = [Idle EXCEPT !.at = "gone"]
    BY <1>1, Zenon
  <2> QED BY <2>1, Gone, Zenon
<1> HIDE DEF gone
<1>3. TypeOK'
  BY <1>1, <1>2 DEF Inv, TypeOK
<1>4. \A v \in Worker : worker'[v].fixture = worker[v].fixture
  BY <1>1, <1>2 DEF Inv, TypeOK, Idle
<1>5. (\A v \in Worker : HeldBy(v)' = HeldBy(v)) /\ Held' = Held /\ Answered' = Answered
  BY <1>1, <1>4 DEF HeldBy, Held, Answered
<1>6. EachFixtureOnce' /\ ScratchIsHeld'
  BY <1>1, <1>5 DEF Inv, EachFixtureOnce, ScratchIsHeld
<1>7. BusyHolds' /\ ReturnsResult' /\ CutMeansCancelled'
  BY <1>1, <1>2 DEF Inv, TypeOK, BusyHolds, Busy, ReturnsResult, Resulted, CutMeansCancelled
<1>8. Progress'
  BY <1>1, <1>2 DEF Inv, Progress, TypeOK
<1>9. ChangesSeen' /\ ChangeIsCaught' /\ PendingIsNeverJudged'
  BY <1>1, <1>2, RowlessStep
<1> QED BY <1>3, <1>6, <1>7, <1>8, <1>9 DEF Inv

(* The fixture handed over is a new one, and its goroutine held none. *)
LEMMA HandOverStep ==
  ASSUME Inv, NEW w \in Worker, HandOver(w)
  PROVE  Inv'
<1> USE Facts
<1> DEFINE taken == [Idle EXCEPT !.at = "making", !.fixture = sent]
<1>1. /\ main = "sending" /\ sent \in Index /\ worker[w] = Idle
      /\ sent' = sent + 1
      /\ worker' = [worker EXCEPT ![w] = taken]
      /\ UNCHANGED <<inProcess, cancelled, main, scratch, rows, outcome>>
  BY DEF HandOver
<1>2. taken \in Goroutine /\ taken.at = "making" /\ taken.fixture = sent /\ taken.cut = FALSE
      /\ Seen(taken)
  BY <1>1, Taken, Zenon
<1> HIDE DEF taken
<1>3. TypeOK'
  <2>1. sent' \in 1 .. Len(Fixtures) + 1
    BY <1>1
  <2> QED BY <1>1, <1>2, <2>1 DEF Inv, TypeOK
<1>4. /\ HeldBy(w) = {} /\ HeldBy(w)' = {sent}
      /\ \A v \in Worker \ {w} : HeldBy(v)' = HeldBy(v)
  BY <1>1, <1>2 DEF HeldBy, Idle, Inv, TypeOK
<1>5. Held' = Held \union {sent}
  BY <1>4 DEF Held
<1>6. Answered' = Answered
  BY <1>1 DEF Answered
<1>7. EachFixtureOnce'
  <2>1. Held \union Answered = 1 .. sent - 1 /\ Held \cap Answered = {}
    BY DEF Inv, EachFixtureOnce
  <2>2. (Held \union Answered)' = 1 .. sent' - 1
    BY <1>1, <1>5, <1>6, <2>1
  <2>3. sent \notin Held \union Answered
    BY <1>1, <2>1
  <2>4. (Held \cap Answered)' = {}
    BY <1>5, <1>6, <2>1, <2>3
  <2>5. \A v \in Worker : sent \notin HeldBy(v)
    BY <2>3 DEF Held
  <2>6. \A u, v \in Worker : u # v => HeldBy(u)' \cap HeldBy(v)' = {}
    BY <1>4, <2>5 DEF Inv, EachFixtureOnce
  <2> QED BY <2>2, <2>4, <2>6 DEF EachFixtureOnce
<1>8. ScratchIsHeld'
  BY <1>1, <1>5 DEF Inv, ScratchIsHeld
<1>9. BusyHolds' /\ ReturnsResult' /\ CutMeansCancelled'
  BY <1>1, <1>2 DEF Inv, TypeOK, BusyHolds, Busy, ReturnsResult, Resulted, CutMeansCancelled
<1>10. Progress'
  BY <1>1 DEF Inv, Progress
<1>11. ChangesSeen' /\ ChangeIsCaught' /\ PendingIsNeverJudged'
  BY <1>1, <1>2, RowlessStep
<1> QED BY <1>3, <1>7, <1>8, <1>9, <1>10, <1>11 DEF Inv

LEMMA MakeStep ==
  ASSUME Inv, NEW w \in Worker, Make(w)
  PROVE  Inv'
<1> DEFINE made == [worker[w] EXCEPT !.at = "preparing"]
<1>1. /\ worker[w].at = "making"
      /\ worker' = [worker EXCEPT ![w] = made]
      /\ scratch' = scratch \union {worker[w].fixture}
      /\ UNCHANGED <<inProcess, cancelled, main, sent, rows, outcome>>
  BY DEF Make
<1>2. /\ made \in Goroutine /\ made.at = "preparing" /\ made.fixture = worker[w].fixture
      /\ made.cut = worker[w].cut /\ Seen(made)
  BY <1>1, WorkerType DEF Goroutine, Seen, Traced
<1> HIDE DEF made
<1>3. worker[w].fixture \in Index /\ worker[w].fixture # 0
  BY <1>1, WorkerType DEF Goroutine, Inv, BusyHolds, Busy
<1>4. TypeOK'
  BY <1>1, <1>2, <1>3 DEF Inv, TypeOK
<1>5. \A v \in Worker : worker'[v].fixture = worker[v].fixture
  BY <1>1, <1>2 DEF Inv, TypeOK
<1>6. (\A v \in Worker : HeldBy(v)' = HeldBy(v)) /\ Held' = Held /\ Answered' = Answered
  BY <1>1, <1>5 DEF HeldBy, Held, Answered
<1>7. worker[w].fixture \in Held
  BY <1>3 DEF Held, HeldBy
<1>8. EachFixtureOnce' /\ ScratchIsHeld'
  BY <1>1, <1>6, <1>7 DEF Inv, EachFixtureOnce, ScratchIsHeld
<1>9. BusyHolds' /\ ReturnsResult' /\ CutMeansCancelled'
  BY <1>1, <1>2 DEF Inv, TypeOK, BusyHolds, Busy, ReturnsResult, Resulted, CutMeansCancelled
<1>10. Progress'
  BY <1>1, <1>2 DEF Inv, Progress, TypeOK
<1>11. ChangesSeen' /\ ChangeIsCaught' /\ PendingIsNeverJudged'
  BY <1>1, <1>2, RowlessStep
<1> QED BY <1>4, <1>8, <1>9, <1>10, <1>11 DEF Inv

(* The row of an answer that has a result is a row. *)
LEMMA RowType ==
  ASSUME NEW held \in Goroutine, held.fixture \in Index, held.result # "none"
  PROVE  /\ RowOf(held) \in Row /\ RowOf(held) # None
         /\ RowOf(held).cut = held.cut
         /\ RowOf(held).touched = "once" => OneChange(held)
         /\ RowOf(held).broken <=> held.result = "broken"
         /\ RowOf(held).result = "pending" <=> Fixtures[held.fixture].pending
<1> DEFINE pending == Fixtures[held.fixture].pending
           result  == CASE pending -> "pending"
                        [] ~ pending /\ held.result = "broken" -> "fail"
                        [] OTHER -> held.result
           broken  == held.result = "broken"
           untouched == held.changed = Untouched
           touched == CASE untouched -> "never"
                        [] \E f \in File : held.changed[f] = 1 -> "once"
                        [] OTHER -> "again"
<1>1. pending \in BOOLEAN
  BY FixtureType, Zenon
<1>2. held.result \in {"pass", "gap", "fail", "broken"}
  BY DEF Goroutine
<1> HIDE DEF pending
<1>3. result \in Result /\ (result = "pending" <=> pending)
  BY <1>1, <1>2 DEF Result
<1>4. RowOf(held) = [result |-> result, broken |-> broken,
                     cut |-> held.cut, touched |-> touched]
  BY Zenon DEF RowOf, pending
<1>5. broken \in BOOLEAN /\ held.cut \in BOOLEAN
  BY Zenon DEF Goroutine
<1>9. /\ touched \in {"never", "once", "again"}
      /\ touched = "once" => OneChange(held)
  <2>1. untouched => ~ OneChange(held)
    BY UntouchedType DEF OneChange
  <2> HIDE DEF untouched
  <2> QED BY <2>1 DEF OneChange
<1> HIDE DEF result, broken, touched
<1>6. RowOf(held) \in Row
  <2>1. result \in Result
    BY <1>3
  <2>2. [result |-> result, broken |-> broken, cut |-> held.cut, touched |-> touched] \in Row
    BY <1>5, <1>9, <2>1 DEF Row
  <2> QED BY <1>4, <2>2, Zenon
<1>7. /\ RowOf(held).result = result /\ RowOf(held).cut = held.cut
      /\ RowOf(held).touched = touched /\ RowOf(held).broken = broken
  BY <1>4
<1>8. RowOf(held) # None
  BY <1>3, <1>7 DEF None, Result
<1> QED BY <1>3, <1>6, <1>7, <1>8, <1>9, Zenon DEF pending, broken

(* The row is written once, where none was. *)
LEMMA RemoveFacts ==
  ASSUME Inv, NEW w \in Worker, Remove(w)
  PROVE  LET i == worker[w].fixture
         IN /\ i \in Index /\ i \in Held /\ i \notin Answered
            /\ worker[w] \in Goroutine /\ worker[w].result # "none"
            /\ worker[w].at = "removing"
            /\ scratch' = scratch \ {i}
            /\ rows' = [rows EXCEPT ![i] = RowOf(worker[w])]
            /\ worker' = [worker EXCEPT ![w] = Idle]
            /\ UNCHANGED <<inProcess, cancelled, main, sent, outcome>>
<1> DEFINE i == worker[w].fixture
<1>1. worker[w].at = "removing"
  BY DEF Remove
<1>2. worker[w] \in Goroutine
  BY WorkerType
<1>3. i \in Index /\ i # 0
  BY <1>1, <1>2 DEF Goroutine, Inv, BusyHolds, Busy
<1>4. i \in Held
  BY <1>3 DEF Held, HeldBy
<1>5. i \notin Answered
  BY <1>4 DEF Inv, EachFixtureOnce
<1>6. worker[w].result # "none"
  BY <1>1 DEF Inv, ReturnsResult, Resulted
<1> QED BY <1>1, <1>2, <1>3, <1>4, <1>5, <1>6 DEF Remove

LEMMA RemoveStep ==
  ASSUME Inv, NEW w \in Worker, Remove(w)
  PROVE  Inv'
<1> USE Facts
<1> DEFINE i   == worker[w].fixture
           row == RowOf(worker[w])
<1>1. /\ i \in Index /\ i \in Held /\ i \notin Answered
      /\ worker[w] \in Goroutine /\ worker[w].result # "none" /\ worker[w].at = "removing"
      /\ scratch' = scratch \ {i}
      /\ rows' = [rows EXCEPT ![i] = row]
      /\ worker' = [worker EXCEPT ![w] = Idle]
      /\ UNCHANGED <<inProcess, cancelled, main, sent, outcome>>
  BY RemoveFacts, Zenon
<1>2. /\ row \in Row /\ row # None
      /\ row.cut = worker[w].cut /\ (row.touched = "once" => OneChange(worker[w]))
      /\ row.broken <=> worker[w].result = "broken"
      /\ row.result = "pending" <=> Fixtures[i].pending
  BY <1>1, RowType, Zenon
<1>3. Idle \in Goroutine /\ Idle.fixture = 0 /\ Idle.at = "idle" /\ Idle.cut = FALSE
  BY UntouchedType DEF Idle, Goroutine, File
<1>4. worker[w].fixture = i
  OBVIOUS
<1> HIDE DEF row, i
<1>5. TypeOK'
  <2>1. rows' \in [Index -> {None} \union Row]
    BY <1>1, <1>2 DEF Inv, TypeOK
  <2>2. worker' \in [Worker -> Goroutine]
    BY <1>1, <1>3 DEF Inv, TypeOK
  <2> QED BY <1>1, <2>1, <2>2 DEF Inv, TypeOK
<1>6. /\ HeldBy(w) = {i} /\ HeldBy(w)' = {}
      /\ \A v \in Worker \ {w} : HeldBy(v)' = HeldBy(v)
  BY <1>1, <1>3, <1>4 DEF HeldBy, Inv, TypeOK
<1>7. \A v \in Worker \ {w} : i \notin HeldBy(v)
  BY <1>6 DEF Inv, EachFixtureOnce
<1>8. Held' = Held \ {i}
  BY <1>6, <1>7 DEF Held
<1>9. Answered' = Answered \union {i}
  BY <1>1, <1>2 DEF Answered, Inv, TypeOK
<1>10. EachFixtureOnce'
  <2>1. Held \union Answered = 1 .. sent - 1 /\ Held \cap Answered = {}
    BY DEF Inv, EachFixtureOnce
  <2>2. (Held \union Answered)' = Held \union Answered
    BY <1>1, <1>8, <1>9
  <2>3. (Held \cap Answered)' = {}
    BY <1>8, <1>9, <2>1
  <2>4. \A u, v \in Worker : u # v => HeldBy(u)' \cap HeldBy(v)' = {}
    BY <1>6 DEF Inv, EachFixtureOnce
  <2>5. (1 .. sent - 1)' = 1 .. sent - 1
    BY <1>1
  <2> QED BY <2>1, <2>2, <2>3, <2>4, <2>5 DEF EachFixtureOnce
<1>11. ScratchIsHeld'
  BY <1>1, <1>8 DEF Inv, ScratchIsHeld
<1>12. BusyHolds' /\ ReturnsResult'
  BY <1>1, <1>3 DEF Inv, TypeOK, BusyHolds, Busy, ReturnsResult, Resulted
<1>13. CutMeansCancelled'
  BY <1>1, <1>2, <1>3 DEF Inv, TypeOK, CutMeansCancelled
<1>14. Progress'
  <2>1. outcome # "results"
    BY <1>1 DEF Inv, Progress
  <2> QED BY <1>1, <2>1 DEF Inv, Progress
<1>15. ChangesSeen'
  BY <1>1, <1>3, UntouchedType DEF Inv, TypeOK, ChangesSeen, Seen, Traced, OneChange, Idle
<1>16. rows'[i] = row /\ \A j \in Index \ {i} : rows'[j] = rows[j]
  BY <1>1 DEF Inv, TypeOK
<1>17. ChangeIsCaught'
  <2> SUFFICES ASSUME NEW j \in Answered', rows'[j].touched = "once",
                      ~ Fixtures[j].setup
               PROVE  rows'[j].broken
    BY DEF ChangeIsCaught
  <2>1. CASE j = i
    <3>1. worker[w].result = "broken"
      BY <1>1, <1>2, <1>4, <1>16, <2>1 DEF Inv, ChangesSeen, Seen
    <3> QED BY <1>2, <1>16, <2>1, <3>1, Zenon
  <2>2. CASE j # i
    BY <1>9, <1>16, <2>2 DEF Inv, ChangeIsCaught, Answered
  <2> QED BY <2>1, <2>2
<1>18. PendingIsNeverJudged'
  <2> SUFFICES ASSUME NEW j \in Answered'
               PROVE  rows'[j].result = "pending" <=> Fixtures[j].pending
    BY DEF PendingIsNeverJudged
  <2>1. CASE j = i
    BY <1>2, <1>16, <2>1, Zenon
  <2>2. CASE j # i
    BY <1>9, <1>16, <2>2 DEF Inv, PendingIsNeverJudged, Answered
  <2> QED BY <2>1, <2>2
<1> QED BY <1>5, <1>10, <1>11, <1>12, <1>13, <1>14, <1>15, <1>17, <1>18 DEF Inv

LEMMA Consecution == Inv /\ [Next]_vars => Inv'
<1> SUFFICES ASSUME Inv, [Next]_vars PROVE Inv'
  OBVIOUS
<1>1. CASE Run \/ Cancel
  BY <1>1, RunSteps
<1>2. ASSUME NEW w \in Worker, HandOver(w) \/ Leave(w)
      PROVE  Inv'
  BY <1>2, HandOverStep, LeaveStep
<1>3. ASSUME NEW w \in Worker, Answer(w)
      PROVE  Inv'
  BY <1>3, MakeStep, RemoveStep, LocalSteps DEF Answer
<1>4. CASE UNCHANGED vars
  BY <1>4 DEF vars, Inv, TypeOK, EachFixtureOnce, ScratchIsHeld, BusyHolds, ReturnsResult,
              CutMeansCancelled, Progress, Held, HeldBy, Answered,
              ChangesSeen, Seen, ChangeIsCaught, PendingIsNeverJudged
<1> QED BY <1>1, <1>2, <1>3, <1>4 DEF Next

(* Every reachable state of a run satisfies the inductive invariant. *)
THEOREM Invariant == Spec => []Inv
<1>1. Init => Inv
  BY Initially
<1>2. Inv /\ [Next]_vars => Inv'
  BY Consecution
<1> QED BY <1>1, <1>2, PTL DEF Spec

(* For any pool and any selection, the variables keep their types: in      *)
(* particular no goroutine writes a row outside the results.               *)
THEOREM TypeCorrect == Spec => []TypeOK
<1>1. Inv => TypeOK
  BY DEF Inv
<1> QED BY <1>1, Invariant, PTL

(* The hand-over through the channel (run.go:110-127) answers each fixture *)
(* once, however many goroutines take from it.                             *)
THEOREM EveryFixtureOnce == Spec => []EachFixtureOnce
<1>1. Inv => EachFixtureOnce
  BY DEF Inv
<1> QED BY <1>1, Invariant, PTL

(* The deferred removal (run.go:278) leaves no scratch directory without   *)
(* a goroutine that answers its fixture, whichever step failed.            *)
THEOREM NoScratchLeftBehind == Spec => []ScratchIsHeld
<1>1. Inv => ScratchIsHeld
  BY DEF Inv
<1> QED BY <1>1, Invariant, PTL

(* Results are returned whole, and with every goroutine gone. *)
THEOREM WholeResults == Spec => []ResultsAreWhole
<1>1. Inv => ResultsAreWhole
  <2> SUFFICES ASSUME Inv, outcome = "results"
               PROVE  /\ Answered = Index /\ Held = {}
                      /\ \A w \in Worker : worker[w].at = "gone"
    BY DEF ResultsAreWhole
  <2>1. sent = Len(Fixtures) + 1 /\ \A w \in Worker : worker[w].at = "gone"
    BY DEF Inv, Progress
  <2>2. \A w \in Worker : worker[w].fixture = 0
    BY <2>1 DEF Inv, BusyHolds, Busy
  <2>3. Held = {}
    BY <2>2 DEF Held, HeldBy
  <2>4. Answered = Index
    BY <2>1, <2>3, Facts DEF Inv, EachFixtureOnce
  <2> QED BY <2>1, <2>3, <2>4
<1> QED BY <1>1, Invariant, PTL

(* The context is read after the last goroutine is gone (run.go:119), so   *)
(* no results hold an answer that a cancellation cut short.                *)
THEOREM NoCutRow == Spec => []NoCutRowReturned
<1>1. Inv => NoCutRowReturned
  <2> SUFFICES ASSUME Inv, outcome = "results", NEW i \in Index PROVE ~ rows[i].cut
    BY DEF NoCutRowReturned
  <2>1. rows[i] # None => ~ rows[i].cut
    BY DEF Inv, Progress
  <2>2. Answered = Index
    <3>1. sent = Len(Fixtures) + 1 /\ \A w \in Worker : worker[w].fixture = 0
      BY DEF Inv, Progress, BusyHolds, Busy
    <3>2. Held = {}
      BY <3>1 DEF Held, HeldBy
    <3> QED BY <3>1, <3>2, Facts DEF Inv, EachFixtureOnce
  <2> QED BY <2>1, <2>2 DEF Answered
<1> QED BY <1>1, Invariant, PTL

(* The rule for a pending fixture (run.go:265) comes after the answer's   *)
(* error became a failed row, so one whose answer broke is not judged.     *)
THEOREM PendingStaysOut == Spec => []PendingIsNeverJudged
<1>1. Inv => PendingIsNeverJudged
  BY DEF Inv
<1> QED BY <1>1, Invariant, PTL

(* Digests recorded before the first analysis, the ignore file's again     *)
(* with what the runner wrote into it, and compared once, after the last,  *)
(* find every change a later analysis did not make again.                  *)
THEOREM NoChangeMissed == Spec => []ChangeIsCaught
<1>1. Inv => ChangeIsCaught
  BY DEF Inv
<1> QED BY <1>1, Invariant, PTL

(* No step overwrites or loses a row that was written (run.go:114). *)
THEOREM RowsAreFinal == Spec => RowsStand
<1>1. Inv /\ [Next]_vars => [\A i \in Answered : rows'[i] = rows[i]]_vars
  <2> SUFFICES ASSUME Inv, Next, NEW i \in Answered PROVE rows'[i] = rows[i]
    OBVIOUS
  <2>1. CASE Run \/ Cancel
    BY <2>1 DEF Run, StartPool, CannotStart, Close, Join, Cancel
  <2>2. ASSUME NEW w \in Worker, HandOver(w) \/ Leave(w) PROVE rows' = rows
    BY <2>2 DEF HandOver, Leave
  <2>3. ASSUME NEW w \in Worker, Answer(w) PROVE rows'[i] = rows[i]
    <3>1. CASE Remove(w)
      <4>1. worker[w].fixture # i /\ rows' = [rows EXCEPT ![worker[w].fixture] = RowOf(worker[w])]
        BY <3>1, RemoveFacts
      <4> QED BY <4>1 DEF Inv, TypeOK, Answered
    <3>2. CASE ~ Remove(w)
      BY <2>3, <3>2 DEF Answer, Make, CannotMake, Prepare, CannotPrepare, StartAnalysis,
         CannotStartAnalysis, EndAnalysis, EndBadly, EndSetup, NothingCovered, WriteIgnore,
         CannotWriteIgnore, Decide, FindChange, Local
    <3> QED BY <3>1, <3>2
  <2> QED BY <2>1, <2>2, <2>3 DEF Next
<1> QED BY <1>1, Invariant, PTL DEF Spec, RowsStand
=============================================================================
