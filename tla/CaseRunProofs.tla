--------------------------- MODULE CaseRunProofs ---------------------------
(***************************************************************************)
(* What every run of CaseRun's vectors does, however many they are, repeat *)
(* and leave watchers behind: its types, whose tree exists, which runs are *)
(* interrupted, and what a passing case has behind it.                     *)
(***************************************************************************)
EXTENDS CaseRun, SequenceTheorems, TLAPS

RunType ==
  [case : 1 .. Len(cases), running : BOOLEAN, marker : BOOLEAN, sent : 0 .. 1,
   stop : BOOLEAN, ending : Ending, beside : {"watching", "interrupting", "gone"}]

Typed == TypeOK /\ runs \in Seq(RunType)

(* What is known of one run: a watcher that has not gone has sent nothing, *)
(* and none sends before it saw the file.                                  *)
MarkedRun(run) ==
  /\ run.beside # "gone" => run.sent = 0 /\ cases[run.case].interrupt
  /\ run.beside = "interrupting" => run.marker
  /\ run.sent = 1 => run.marker /\ cases[run.case].interrupt
SoundRun(run) == MarkedRun(run) /\ (run.running => run.ending = "none")
EachIsSound == \A r \in DOMAIN runs : SoundRun(runs[r])

(* Where RunCases is, and the one run that may be running. *)
AtNamed ==
  at \in {"made", "running"} \/ repeated > 0 => case <= Len(cases) /\ cases[case].named
TreeOf ==
  /\ at \in {"cases", "ended"} => tree = 0
  /\ at = "made" => tree = Last + 1
  /\ at = "running" => Last \in DOMAIN runs /\ runs[Last].case = case /\ tree = Last
  /\ \A r \in DOMAIN runs : runs[r].running => at = "running" /\ r = Last

(* The n runs that end with the last one are case c's, and ended as it     *)
(* wants.                                                                  *)
WantedIn(started, c, n, last) ==
  \A k \in last - n + 1 .. last :
    k \in DOMAIN started /\ started[k].case = c /\ started[k].ending = "wanted"
Compared == IF at = "running" THEN Last - 1 ELSE Last
WantedSoFar == at # "ended" => repeated <= Compared /\ WantedIn(runs, case, repeated, Compared)
PassedRuns ==
  \A i \in DOMAIN results :
    results[i].result = "pass" =>
      \E last \in DOMAIN runs : WantedIn(runs, results[i].case, Times(cases[results[i].case]), last)

Inv == Typed /\ EachIsSound /\ AtNamed /\ TreeOf /\ WantedSoFar /\ PassedRuns

-----------------------------------------------------------------------------
(* What a step that starts no run does to the ones there are. *)
KeepsRun(old, new) ==
  /\ new.case = old.case
  /\ new.running => old.running
  /\ old.ending = "wanted" => new.ending = "wanted"
  /\ SoundRun(new)
RunsKept ==
  /\ cases' = cases
  /\ runs' \in Seq(RunType)
  /\ Len(runs') = Len(runs) /\ DOMAIN runs' = DOMAIN runs
  /\ \A r \in DOMAIN runs : KeepsRun(runs[r], runs'[r])

(* One run changed within what KeepsRun allows leaves the others alone.    *)
LEMMA OneRunKept ==
  ASSUME Typed, EachIsSound, NEW r \in DOMAIN runs, NEW e \in RunType, KeepsRun(runs[r], e),
         runs' = [runs EXCEPT ![r] = e], cases' = cases
  PROVE  RunsKept
<1>1. runs' \in Seq(RunType) /\ Len(runs') = Len(runs) /\ DOMAIN runs' = DOMAIN runs
  BY ExceptSeq DEF Typed
<1>2. runs'[r] = e /\ \A s \in DOMAIN runs \ {r} : runs'[s] = runs[s]
  OBVIOUS
<1>3. ASSUME NEW s \in DOMAIN runs PROVE KeepsRun(runs[s], runs'[s])
  <2>1. CASE s = r
    BY <2>1, <1>2
  <2>2. CASE s # r
    <3>1. runs'[s] = runs[s]
      BY <1>2, <2>2
    <3>2. SoundRun(runs[s])
      BY DEF EachIsSound
    <3> QED
      BY <3>1, <3>2 DEF KeepsRun
  <2> QED
    BY <2>1, <2>2
<1> QED
  BY <1>1, <1>3 DEF RunsKept

LEMMA RunsUntouched ==
  ASSUME Typed, EachIsSound, runs' = runs, cases' = cases
  PROVE  RunsKept
BY DEF RunsKept, KeepsRun, Typed, EachIsSound

(* A run is over: its watcher is told to stop. *)
LEMMA StoppedKept ==
  ASSUME Typed, EachIsSound, Last \in DOMAIN runs, runs' = Stopped, cases' = cases
  PROVE  RunsKept
<1> DEFINE e == [runs[Last] EXCEPT !.stop = TRUE]
<1>1. runs[Last] \in RunType
  BY DEF Typed
<1>2. e \in RunType /\ e.case = runs[Last].case /\ e.running = runs[Last].running
      /\ e.ending = runs[Last].ending /\ e.marker = runs[Last].marker
      /\ e.sent = runs[Last].sent /\ e.beside = runs[Last].beside
  BY <1>1 DEF RunType
<1>3. runs' = [runs EXCEPT ![Last] = e]
  BY DEF Stopped
<1>4. SoundRun(runs[Last])
  BY DEF EachIsSound
<1> HIDE DEF e
<1>5. KeepsRun(runs[Last], e)
  BY <1>2, <1>4 DEF KeepsRun, SoundRun, MarkedRun
<1> QED
  BY <1>2, <1>3, <1>5, OneRunKept

(* The product and the goroutine beside it change one run, and nothing     *)
(* RunCases keeps.                                                         *)
RunStep(r) == Beside(r) \/ PutMarker(r) \/ End(r)
LEMMA RunStepKept ==
  ASSUME Typed, EachIsSound, NEW r \in DOMAIN runs, RunStep(r)
  PROVE  RunsKept /\ UNCHANGED <<Fixed, cancelled, Ours>>
<1> DEFINE old == runs[r]
<1>1. old \in RunType /\ SoundRun(old)
  BY DEF Typed, EachIsSound
<1>2. cases' = cases
  BY DEF RunStep, Beside, SeeMarker, Interrupt, SeeStop, PutMarker, End, Fixed
<1>3. CASE SeeMarker(r)
  <2> DEFINE e == [old EXCEPT !.beside = "interrupting"]
  <2>1. runs' = [runs EXCEPT ![r] = e] /\ old.beside = "watching" /\ old.marker
    BY <1>3 DEF SeeMarker, MarkerIsThere
  <2>2. e \in RunType /\ e.case = old.case /\ e.running = old.running /\ e.ending = old.ending
        /\ e.marker = old.marker /\ e.sent = old.sent /\ e.beside = "interrupting"
    BY <1>1 DEF RunType
  <2> HIDE DEF e, old
  <2>3. KeepsRun(old, e)
    BY <1>1, <2>1, <2>2 DEF KeepsRun, SoundRun, MarkedRun
  <2>4. RunsKept
    BY <1>2, <2>1, <2>2, <2>3, OneRunKept DEF old
  <2> QED
    BY <1>3, <2>4 DEF SeeMarker
<1>4. CASE Interrupt(r)
  <2> DEFINE n == IF old.running THEN old.sent + 1 ELSE old.sent
  <2> DEFINE e == [old EXCEPT !.beside = "gone", !.sent = n]
  <2>1. runs' = [runs EXCEPT ![r] = e] /\ old.beside = "interrupting"
    BY <1>4 DEF Interrupt
  <2>2. old.sent = 0 /\ old.marker /\ cases[old.case].interrupt
    BY <1>1, <2>1 DEF SoundRun, MarkedRun
  <2>3. e \in RunType /\ e.case = old.case /\ e.running = old.running /\ e.ending = old.ending
        /\ e.marker = old.marker /\ e.beside = "gone"
    <3>1. n \in 0 .. 1
      <4>1. CASE old.running
        BY <2>2, <4>1
      <4>2. CASE ~ old.running
        BY <2>2, <4>2
      <4> QED
        BY <4>1, <4>2
    <3> HIDE DEF n
    <3> QED
      BY <1>1, <3>1 DEF RunType
  <2> HIDE DEF e, old
  <2>4. KeepsRun(old, e)
    BY <1>1, <2>2, <2>3 DEF KeepsRun, SoundRun, MarkedRun
  <2>5. RunsKept
    BY <1>2, <2>1, <2>3, <2>4, OneRunKept DEF old
  <2> QED
    BY <1>4, <2>5 DEF Interrupt
<1>5. CASE SeeStop(r)
  <2> DEFINE e == [old EXCEPT !.beside = "gone"]
  <2>1. runs' = [runs EXCEPT ![r] = e]
    BY <1>5 DEF SeeStop
  <2>2. e \in RunType /\ e.case = old.case /\ e.running = old.running /\ e.ending = old.ending
        /\ e.marker = old.marker /\ e.sent = old.sent /\ e.beside = "gone"
    BY <1>1 DEF RunType
  <2> HIDE DEF e, old
  <2>3. KeepsRun(old, e)
    BY <1>1, <2>2 DEF KeepsRun, SoundRun, MarkedRun
  <2>4. RunsKept
    BY <1>2, <2>1, <2>2, <2>3, OneRunKept DEF old
  <2> QED
    BY <1>5, <2>4 DEF SeeStop
<1>6. CASE PutMarker(r)
  <2> DEFINE e == [old EXCEPT !.marker = TRUE]
  <2>1. runs' = [runs EXCEPT ![r] = e]
    BY <1>6 DEF PutMarker
  <2>2. e \in RunType /\ e.case = old.case /\ e.running = old.running /\ e.ending = old.ending
        /\ e.marker /\ e.sent = old.sent /\ e.beside = old.beside
    BY <1>1 DEF RunType
  <2> HIDE DEF e, old
  <2>3. KeepsRun(old, e)
    BY <1>1, <2>2 DEF KeepsRun, SoundRun, MarkedRun
  <2>4. RunsKept
    BY <1>2, <2>1, <2>2, <2>3, OneRunKept DEF old
  <2> QED
    BY <1>6, <2>4 DEF PutMarker
<1>7. CASE End(r)
  <2>1. PICK ending \in Endings : runs' = [runs EXCEPT ![r].running = FALSE, ![r].ending = ending]
    BY <1>7 DEF End
  <2> DEFINE e == [old EXCEPT !.running = FALSE, !.ending = ending]
  <2>2. runs' = [runs EXCEPT ![r] = e] /\ old.running
    BY <1>7, <2>1 DEF End
  <2>3. ending \in Ending
    BY DEF Endings, Ending
  <2>4. e \in RunType /\ e.case = old.case /\ ~ e.running /\ e.marker = old.marker
        /\ e.sent = old.sent /\ e.beside = old.beside
    BY <1>1, <2>3 DEF RunType
  <2>5. old.ending = "none"
    BY <1>1, <2>2 DEF SoundRun
  <2> HIDE DEF e, old
  <2>6. KeepsRun(old, e)
    BY <1>1, <2>2, <2>4, <2>5 DEF KeepsRun, SoundRun, MarkedRun
  <2>7. RunsKept
    BY <1>2, <2>2, <2>4, <2>6, OneRunKept DEF old
  <2> QED
    BY <1>7, <2>7 DEF End
<1> QED
  BY <1>3, <1>4, <1>5, <1>6, <1>7 DEF RunStep, Beside

(* The other steps of Next are RunCases's and the context's. *)
LEMMA Steps ==
  ASSUME Typed, EachIsSound, [Next]_vars
  PROVE  \/ Skip \/ Refuse \/ Make \/ Start \/ CannotStart \/ EndInError \/ Compare \/ Finish
         \/ RunsKept /\ UNCHANGED <<Fixed, Ours>>
<1>1. CASE RunCases
  BY <1>1 DEF RunCases
<1>2. CASE Cancel
  BY <1>2, RunsUntouched DEF Cancel, Fixed
<1>3. CASE \E r \in DOMAIN runs : Beside(r) \/ PutMarker(r) \/ End(r)
  BY <1>3, RunStepKept DEF RunStep
<1>4. CASE UNCHANGED vars
  BY <1>4, RunsUntouched DEF vars, Fixed, Ours
<1> QED
  BY <1>1, <1>2, <1>3, <1>4 DEF Next

(* All but Start keep the runs there are. *)
LEMMA OthersKeep ==
  ASSUME Typed, EachIsSound, TreeOf,
         Skip \/ Refuse \/ Make \/ CannotStart \/ EndInError \/ Compare \/ Finish
  PROVE  RunsKept
<1>1. CASE Skip \/ Refuse \/ Make \/ CannotStart \/ Finish
  BY <1>1, RunsUntouched DEF Skip, Refuse, Make, CannotStart, Finish, Return, Fixed
<1>2. CASE EndInError \/ Compare
  BY <1>2, StoppedKept DEF EndInError, Compare, Over, Fixed, TreeOf
<1> QED
  BY <1>1, <1>2

(* Start appends one run of the case RunCases is at. *)
LEMMA StartAppends ==
  ASSUME Typed, EachIsSound, AtNamed, Start
  PROVE  /\ runs' \in Seq(RunType) /\ Len(runs') = Last + 1 /\ DOMAIN runs' = 1 .. Last + 1
         /\ DOMAIN runs = 1 .. Last /\ Last \in Nat
         /\ \A r \in DOMAIN runs : runs'[r] = runs[r]
         /\ runs'[Last + 1].case = case /\ SoundRun(runs'[Last + 1])
         /\ cases' = cases /\ Last + 1 \notin DOMAIN runs
<1> DEFINE e == Run(case)
<1>1. case \in 1 .. Len(cases) /\ Len(cases) \in Nat
  BY LenProperties DEF Typed, TypeOK, AtNamed, Start
<1>2. e.case = case /\ e.ending = "none" /\ e.sent = 0
      /\ e.beside = (IF cases[case].interrupt THEN "watching" ELSE "gone")
  BY DEF Run
<1>3. e.beside \in {"watching", "gone"} /\ (e.beside # "gone" => cases[case].interrupt)
  <2> HIDE DEF e
  <2>1. CASE cases[case].interrupt
    BY <1>2, <2>1
  <2>2. CASE ~ cases[case].interrupt
    BY <1>2, <2>2
  <2> QED
    BY <2>1, <2>2
<1>4. e \in RunType
  <2>1. (IF cases[case].interrupt THEN "watching" ELSE "gone") \in {"watching", "gone"}
    OBVIOUS
  <2> QED
    BY <1>1, <2>1 DEF Run, RunType, Ending
<1>5. SoundRun(e)
  <2> HIDE DEF e
  <2> QED
    BY <1>2, <1>3 DEF SoundRun, MarkedRun
<1>6. runs' = Append(runs, e) /\ cases' = cases
  BY DEF Start, Fixed
<1> HIDE DEF e
<1>7. Last \in Nat /\ DOMAIN runs = 1 .. Last
  BY LenProperties DEF Typed, Last
<1>8. /\ runs' \in Seq(RunType) /\ Len(runs') = Last + 1 /\ runs'[Last + 1] = e
      /\ \A r \in 1 .. Last : runs'[r] = runs[r]
  BY <1>4, <1>6, AppendProperties DEF Typed, Last
<1>9. DOMAIN runs' = 1 .. Last + 1
  BY <1>8, LenProperties
<1> QED
  BY <1>2, <1>5, <1>6, <1>7, <1>8, <1>9

LEMMA VerdictType ==
  ASSUME NEW message PROVE Verdict(message) \in {"pass", "fail", "pending"}
<1>1. CASE Now.pending
  BY <1>1 DEF Verdict
<1>2. CASE ~ Now.pending /\ message
  BY <1>2 DEF Verdict
<1>3. CASE ~ Now.pending /\ ~ message
  BY <1>3 DEF Verdict
<1> QED
  BY <1>1, <1>2, <1>3

(* A comparison either decides its case or leaves it to a further run. *)
Wanted == runs[Last].ending = "wanted"
Decides == ~ Wanted \/ repeated + 1 >= Times(Now)
LEMMA CompareStep ==
  ASSUME Compare
  PROVE  /\ at = "running" /\ at' = "cases" /\ tree' = 0 /\ UNCHANGED <<Fixed, cancelled, outcome>>
         /\ Decides =>
              /\ case' = case + 1 /\ repeated' = 0
              /\ results' = Append(results, [case |-> case, result |-> Verdict(~ Wanted)])
         /\ ~ Decides => repeated' = repeated + 1 /\ UNCHANGED <<case, results>>
BY DEF Compare, Over, Decides, Wanted

(* A case that passed has all its runs behind it. *)
LEMMA PassIsWanted ==
  ASSUME Verdict(~ Wanted) = "pass" PROVE Wanted
BY DEF Verdict

-----------------------------------------------------------------------------
LEMMA TypeInit == Init => Typed
<1> SUFFICES ASSUME Init PROVE Typed
  OBVIOUS
<1>1. cases \in Seq(Case) /\ Len(cases) \in Nat
  BY CasesAssumption, LenProperties DEF Init
<1>2. runs \in Seq(RunType) /\ DOMAIN runs = {} /\ Len(runs) = 0
  BY EmptySeq DEF Init
<1>3. results \in Seq([case : 1 .. Len(cases), result : {"pass", "fail", "pending"}])
  BY EmptySeq DEF Init
<1>4. case \in 1 .. Len(cases) + 1 /\ tree \in 0 .. Last + 1 /\ repeated \in Nat
  BY <1>1, <1>2 DEF Init, Last
<1>5. /\ cases \in CaseLists /\ inProcess \in BOOLEAN /\ cancelled \in BOOLEAN
      /\ at \in {"cases", "made", "running", "ended"} /\ outcome \in {"none", "results", "error"}
  BY DEF Init
<1> QED
  BY <1>2, <1>3, <1>4, <1>5 DEF Typed, TypeOK

LEMMA TypeStep == Inv /\ [Next]_vars => Typed'
<1> SUFFICES ASSUME Inv, [Next]_vars PROVE Typed'
  OBVIOUS
<1> DEFINE Result(cs) == [case : 1 .. Len(cs), result : {"pass", "fail", "pending"}]
<1>0. /\ Len(cases) \in Nat /\ Last \in Nat /\ case \in 1 .. Len(cases) + 1 /\ repeated \in Nat
      /\ cases \in CaseLists /\ inProcess \in BOOLEAN /\ cancelled \in BOOLEAN
      /\ results \in Seq(Result(cases)) /\ tree \in 0 .. Last + 1
      /\ at \in {"cases", "made", "running", "ended"} /\ outcome \in {"none", "results", "error"}
  BY LenProperties, CasesAssumption DEF Inv, Typed, TypeOK, Last
<1>1. cases' = cases /\ inProcess' = inProcess /\ cancelled' \in BOOLEAN
      /\ outcome' \in {"none", "results", "error"}
  <2>1. CASE RunCases
    BY <1>0, <2>1 DEF RunCases, Skip, Refuse, Make, Start, CannotStart, EndInError, Compare, Finish, Return, Fixed
  <2>2. CASE Cancel
    BY <1>0, <2>2 DEF Cancel, Fixed, Ours
  <2>3. CASE \E r \in DOMAIN runs : RunStep(r)
    BY <1>0, <2>3 DEF RunStep, Beside, SeeMarker, Interrupt, SeeStop, PutMarker, End, Fixed, Ours
  <2>4. CASE UNCHANGED vars
    BY <1>0, <2>4 DEF vars
  <2> QED
    BY <2>1, <2>2, <2>3, <2>4 DEF Next, RunStep
<1>2. /\ runs' \in Seq(RunType) /\ Len(runs') \in {Last, Last + 1}
      /\ tree' \in 0 .. Len(runs') + 1
  <2>1. CASE Start
    <3>1. tree' = tree
      BY <2>1 DEF Start
    <3> QED
      BY <1>0, <2>1, <3>1, StartAppends DEF Inv
  <2>2. CASE RunsKept /\ tree' \in {0, tree, Len(runs) + 1}
    BY <1>0, <2>2 DEF RunsKept, Last
  <2>3. CASE Skip \/ Refuse \/ Make \/ CannotStart \/ EndInError \/ Compare \/ Finish
    <3>1. RunsKept
      BY <2>3, OthersKeep DEF Inv
    <3>2. tree' \in {0, tree, Len(runs) + 1}
      BY <2>3 DEF Skip, Refuse, Make, CannotStart, EndInError, Compare, Finish, Return
    <3> QED
      BY <3>1, <3>2, <2>2
  <2>4. CASE RunsKept /\ UNCHANGED <<Fixed, Ours>>
    BY <2>4, <2>2 DEF Ours
  <2> QED
    BY <2>1, <2>3, <2>4, Steps DEF Inv
<1>3. /\ case' \in 1 .. Len(cases) + 1 /\ repeated' \in Nat
      /\ results' \in Seq(Result(cases)) /\ at' \in {"cases", "made", "running", "ended"}
  <2>1. CASE Skip
    BY <1>0, <2>1 DEF Skip, AtCase
  <2>2. CASE Refuse \/ Make \/ Start \/ CannotStart \/ EndInError \/ Finish
    BY <1>0, <2>2 DEF Refuse, Make, Start, CannotStart, EndInError, Finish, Return
  <2>3. CASE Compare
    <3>1. case \in 1 .. Len(cases)
      BY <1>0, <2>3 DEF Inv, AtNamed, Compare, Over
    <3>2. [case |-> case, result |-> Verdict(~ Wanted)] \in Result(cases)
      BY <3>1, VerdictType
    <3>3. Append(results, [case |-> case, result |-> Verdict(~ Wanted)]) \in Seq(Result(cases))
      BY <1>0, <3>2, AppendProperties
    <3>4. CASE Decides
      <4>1. case' = case + 1 /\ repeated' = 0 /\ at' = "cases"
            /\ results' = Append(results, [case |-> case, result |-> Verdict(~ Wanted)])
        BY <2>3, <3>4, CompareStep
      <4>2. results' \in Seq(Result(cases))
        BY <3>3, <4>1
      <4>3. case' \in 1 .. Len(cases) + 1
        BY <1>0, <3>1, <4>1
      <4> QED
        BY <4>1, <4>2, <4>3
    <3>5. CASE ~ Decides
      BY <1>0, <2>3, <3>5, CompareStep
    <3> QED
      BY <3>4, <3>5
  <2>4. CASE RunsKept /\ UNCHANGED <<Fixed, Ours>>
    BY <1>0, <2>4 DEF Ours
  <2> QED
    BY <2>1, <2>2, <2>3, <2>4, Steps DEF Inv
<1>4. \A r \in DOMAIN runs' : runs'[r] \in RunType
  BY <1>2
<1>5. RunType' = RunType
  BY <1>1 DEF RunType, Ending
<1>6. Last' = Len(runs')
  BY DEF Last
<1>7. TypeOK'
  BY <1>0, <1>1, <1>2, <1>3, <1>4, <1>6 DEF TypeOK, RunType, Ending
<1> QED
  BY <1>2, <1>5, <1>7 DEF Typed

(* Every run stays sound. *)
LEMMA SoundStep == Inv /\ [Next]_vars => EachIsSound'
<1> SUFFICES ASSUME Inv, [Next]_vars PROVE EachIsSound'
  OBVIOUS
<1>1. CASE Start
  <2>1. \A r \in DOMAIN runs' : SoundRun(runs'[r])
    BY <1>1, StartAppends DEF Inv, EachIsSound
  <2>2. cases' = cases
    BY <1>1 DEF Start, Fixed
  <2> QED
    BY <2>1, <2>2 DEF EachIsSound, SoundRun, MarkedRun
<1>2. CASE RunsKept
  BY <1>2 DEF RunsKept, KeepsRun, EachIsSound, SoundRun, MarkedRun
<1> QED
  BY <1>1, <1>2, Steps, OthersKeep DEF Inv

LEMMA AtNamedStep == Inv /\ [Next]_vars => AtNamed'
<1> SUFFICES ASSUME Inv, [Next]_vars PROVE AtNamed'
  OBVIOUS
<1>0. cases' = cases
  BY Steps, OthersKeep, StartAppends DEF Inv, RunsKept
<1>1. CASE Skip
  BY <1>0, <1>1 DEF Inv, AtNamed, Skip, AtCase, Now, Fixed
<1>2. CASE Refuse \/ CannotStart \/ Finish \/ EndInError \/ Start
  BY <1>0, <1>2 DEF Inv, AtNamed, Refuse, CannotStart, Finish, Return, EndInError, Over, Start
<1>3. CASE Make
  BY <1>0, <1>3 DEF AtNamed, Make, AtCase, Now
<1>4. CASE Compare
  <2>1. case <= Len(cases) /\ cases[case].named
    BY <1>4, CompareStep DEF Inv, AtNamed
  <2>2. CASE Decides
    BY <1>4, <2>2, CompareStep DEF AtNamed
  <2>3. CASE ~ Decides
    BY <1>0, <1>4, <2>1, <2>3, CompareStep DEF AtNamed
  <2> QED
    BY <2>2, <2>3
<1>5. CASE UNCHANGED Ours
  BY <1>0, <1>5 DEF Inv, AtNamed, Ours
<1> QED
  BY <1>1, <1>2, <1>3, <1>4, <1>5, Steps DEF Inv

LEMMA TreeStep == Inv /\ [Next]_vars => TreeOf'
<1> SUFFICES ASSUME Inv, [Next]_vars PROVE TreeOf'
  OBVIOUS
<1>1. CASE Start
  <2>1. at = "made" /\ at' = "running" /\ tree' = tree /\ case' = case
    BY <1>1 DEF Start
  <2>2. Last' = Last + 1
    BY <1>1, StartAppends DEF Inv, Last
  <2>3. tree' = Last' /\ Last' \in DOMAIN runs' /\ runs'[Last'].case = case'
    BY <1>1, <2>1, <2>2, StartAppends DEF Inv, TreeOf
  <2>4. ASSUME NEW r \in DOMAIN runs', runs'[r].running PROVE r = Last'
    <3>1. CASE r \in DOMAIN runs
      BY <1>1, <2>1, <2>4, <3>1, StartAppends DEF Inv, TreeOf
    <3>2. CASE r \notin DOMAIN runs
      BY <1>1, <2>2, <3>2, StartAppends DEF Inv
    <3> QED
      BY <3>1, <3>2
  <2> QED
    BY <2>1, <2>3, <2>4 DEF TreeOf
<1>2. CASE RunsKept /\ UNCHANGED <<Fixed, Ours>>
  <2>1. Last' = Last /\ at' = at /\ tree' = tree /\ case' = case
    BY <1>2 DEF RunsKept, Last, Ours
  <2>2. \A r \in DOMAIN runs : runs'[r].case = runs[r].case /\ (runs'[r].running => runs[r].running)
    BY <1>2 DEF RunsKept, KeepsRun
  <2>3. DOMAIN runs' = DOMAIN runs
    BY <1>2 DEF RunsKept
  <2> QED
    BY <2>1, <2>2, <2>3 DEF Inv, TreeOf
<1>3. CASE Skip \/ Refuse \/ Make \/ CannotStart \/ EndInError \/ Compare \/ Finish
  <2>1. RunsKept
    BY <1>3, OthersKeep DEF Inv
  <2>2. \A r \in DOMAIN runs : ~ runs[r].running
    <3>1. CASE EndInError \/ Compare
      BY <3>1 DEF EndInError, Compare, Over, Inv, TreeOf
    <3>2. CASE Skip \/ Refuse \/ Make \/ CannotStart \/ Finish
      <4>1. at # "running"
        BY <3>2 DEF Skip, Refuse, Make, CannotStart, Finish, AtCase
      <4> QED
        BY <4>1 DEF Inv, TreeOf
    <3> QED
      BY <1>3, <3>1, <3>2
  <2>3. \A r \in DOMAIN runs' : ~ runs'[r].running
    BY <2>1, <2>2 DEF RunsKept, KeepsRun
  <2>4. Last' = Last
    BY <2>1 DEF RunsKept, Last
  <2>5. /\ at' \in {"cases", "ended"} => tree' = 0
        /\ at' = "made" => tree' = Last + 1
        /\ at' # "running"
    <3>1. CASE Skip
      BY <3>1 DEF Skip, AtCase, Inv, TreeOf
    <3>2. CASE Refuse \/ Make \/ CannotStart \/ EndInError \/ Compare \/ Finish
      BY <3>2 DEF Refuse, Make, CannotStart, EndInError, Compare, Finish, Return, Last
    <3> QED
      BY <1>3, <3>1, <3>2
  <2> QED
    BY <2>3, <2>4, <2>5 DEF TreeOf
<1> QED
  BY <1>1, <1>2, <1>3, Steps DEF Inv

(* A run that ended as its case wants is one for good. *)
LEMMA WantedKept ==
  ASSUME RunsKept, NEW c, NEW n, NEW last, WantedIn(runs, c, n, last)
  PROVE  WantedIn(runs', c, n, last)
BY DEF RunsKept, KeepsRun, WantedIn

LEMMA WantedStarted ==
  ASSUME Inv, Start, NEW c, NEW n, NEW last, WantedIn(runs, c, n, last)
  PROVE  WantedIn(runs', c, n, last)
<1>1. \A k \in DOMAIN runs : k \in DOMAIN runs' /\ runs'[k] = runs[k]
  BY StartAppends DEF Inv
<1> QED
  BY <1>1 DEF WantedIn

(* The run the comparison is at ended as wanted: one more before it. *)
LEMMA WantedOneMore ==
  ASSUME Inv, Compare, Wanted
  PROVE  WantedIn(runs', case, repeated + 1, Last) /\ repeated + 1 <= Last
<1>1. RunsKept
  BY OthersKeep DEF Inv
<1>2. Last \in DOMAIN runs /\ runs[Last].case = case /\ Last \in Nat /\ repeated \in Nat
  BY CompareStep, LenProperties DEF Inv, TreeOf, Typed, TypeOK, Last
<1>3. repeated <= Last - 1 /\ WantedIn(runs, case, repeated, Last - 1)
  BY CompareStep DEF Inv, WantedSoFar, Compared
<1>4. WantedIn(runs, case, repeated + 1, Last)
  <2> SUFFICES ASSUME NEW k \in Last - (repeated + 1) + 1 .. Last
               PROVE  k \in DOMAIN runs /\ runs[k].case = case /\ runs[k].ending = "wanted"
    BY DEF WantedIn
  <2>1. CASE k = Last
    BY <1>2, <2>1 DEF Wanted
  <2>2. CASE k # Last
    <3>1. k \in Last - 1 - repeated + 1 .. Last - 1
      BY <1>2, <2>2
    <3> QED
      BY <1>3, <3>1 DEF WantedIn
  <2> QED
    BY <2>1, <2>2
<1> QED
  BY <1>1, <1>2, <1>3, <1>4, WantedKept

LEMMA WantedSoFarStep == Inv /\ [Next]_vars => WantedSoFar'
<1> SUFFICES ASSUME Inv, [Next]_vars PROVE WantedSoFar'
  OBVIOUS
<1>0. Last \in Nat /\ repeated \in Nat
  BY LenProperties DEF Inv, Typed, TypeOK, Last
<1>1. CASE Start
  <2>1. at = "made" /\ at' = "running" /\ case' = case /\ repeated' = repeated
    BY <1>1 DEF Start
  <2>2. Last' = Last + 1
    BY <1>1, StartAppends DEF Inv, Last
  <2>3. repeated <= Last /\ WantedIn(runs, case, repeated, Last)
    BY <2>1 DEF Inv, WantedSoFar, Compared
  <2>4. Compared' = Last
    BY <1>0, <2>1, <2>2 DEF Compared
  <2>5. WantedIn(runs', case, repeated, Last)
    BY <1>1, <2>3, WantedStarted
  <2> QED
    BY <2>1, <2>3, <2>4, <2>5 DEF WantedSoFar
<1>2. CASE RunsKept /\ UNCHANGED <<Fixed, Ours>>
  <2>1. Last' = Last /\ at' = at /\ case' = case /\ repeated' = repeated /\ Compared' = Compared
    BY <1>2 DEF RunsKept, Last, Ours, Compared
  <2>2. at # "ended" => WantedIn(runs', case, repeated, Compared)
    BY <1>2, WantedKept DEF Inv, WantedSoFar
  <2> QED
    BY <2>1, <2>2 DEF Inv, WantedSoFar
<1>3. CASE Make
  <2>1. RunsKept /\ at = "cases" /\ at' = "made" /\ case' = case /\ repeated' = repeated
    BY <1>3, OthersKeep DEF Inv, Make, AtCase
  <2>2. Compared' = Last /\ Compared = Last
    BY <2>1 DEF RunsKept, Last, Compared
  <2>3. WantedIn(runs', case, repeated, Last)
    BY <2>1, <2>2, WantedKept DEF Inv, WantedSoFar
  <2> QED
    BY <2>1, <2>2, <2>3 DEF Inv, WantedSoFar
<1>4. CASE Skip
  <2>1. at' = "cases" /\ repeated' = 0 /\ Compared' = Last
    BY <1>0, <1>4 DEF Inv, AtNamed, Skip, AtCase, Now, Compared, Last
  <2>2. WantedIn(runs', case', 0, Last)
    BY <1>0 DEF WantedIn
  <2> QED
    BY <1>0, <2>1, <2>2 DEF WantedSoFar
<1>5. CASE Compare
  <2>1. Compared' = Last
    <3>1. at' = "cases" /\ Len(runs') = Len(runs)
      BY <1>5, CompareStep, OthersKeep DEF Inv, RunsKept
    <3> QED
      BY <3>1 DEF Compared, Last
  <2>2. CASE Decides
    <3>1. repeated' = 0
      BY <1>5, <2>2, CompareStep
    <3>2. WantedIn(runs', case', 0, Last)
      BY <1>0 DEF WantedIn
    <3> QED
      BY <1>0, <2>1, <3>1, <3>2 DEF WantedSoFar
  <2>3. CASE ~ Decides
    <3>1. Wanted /\ repeated' = repeated + 1 /\ case' = case
      BY <1>5, <2>3, CompareStep DEF Decides
    <3>2. WantedIn(runs', case, repeated + 1, Last) /\ repeated + 1 <= Last
      BY <1>5, <3>1, WantedOneMore
    <3> QED
      BY <2>1, <3>1, <3>2 DEF WantedSoFar
  <2> QED
    BY <2>2, <2>3
<1>6. CASE Refuse \/ CannotStart \/ Finish \/ EndInError
  BY <1>6 DEF Refuse, CannotStart, Finish, EndInError, Return, WantedSoFar
<1> QED
  BY <1>1, <1>2, <1>3, <1>4, <1>5, <1>6, Steps DEF Inv

(* Behind every result there was before, its runs are still there. *)
LEMMA PassedKept ==
  ASSUME Inv, [Next]_vars, NEW i \in DOMAIN results, results[i].result = "pass"
  PROVE  \E last \in DOMAIN runs' : WantedIn(runs', results[i].case, Times(cases[results[i].case]), last)
<1>1. PICK last \in DOMAIN runs : WantedIn(runs, results[i].case, Times(cases[results[i].case]), last)
  BY DEF Inv, PassedRuns
<1>2. CASE Start
  <2>1. last \in DOMAIN runs'
    BY <1>2, StartAppends DEF Inv
  <2> QED
    BY <1>1, <1>2, <2>1, WantedStarted
<1>3. CASE RunsKept
  <2>1. last \in DOMAIN runs'
    BY <1>3 DEF RunsKept
  <2> QED
    BY <1>1, <1>3, <2>1, WantedKept
<1> QED
  BY <1>2, <1>3, Steps, OthersKeep DEF Inv

(* A case that passes has been run as often as it asks for. *)
LEMMA PassedNow ==
  ASSUME Inv, Compare, Decides, Verdict(~ Wanted) = "pass"
  PROVE  \E last \in DOMAIN runs' : WantedIn(runs', case, Times(cases[case]), last)
<1>1. Wanted
  BY PassIsWanted
<1>2. repeated + 1 >= Times(Now)
  BY <1>1 DEF Decides
<1>3. WantedIn(runs', case, repeated + 1, Last) /\ repeated + 1 <= Last
  BY <1>1, WantedOneMore
<1>4. Last \in DOMAIN runs' /\ Last \in Nat /\ repeated \in Nat
  BY CompareStep, OthersKeep, LenProperties DEF Inv, TreeOf, RunsKept, Typed, TypeOK, Last
<1>5. Times(Now) \in Nat
  <2>1. Now \in Case
    <3>1. case \in 1 .. Len(cases) /\ cases \in Seq(Case)
      BY CompareStep, CasesAssumption DEF Inv, Typed, TypeOK, AtNamed
    <3> QED
      BY <3>1 DEF Now
  <2> QED
    BY <2>1 DEF Times, Case
<1>6. WantedIn(runs', case, Times(Now), Last)
  BY <1>2, <1>3, <1>4, <1>5 DEF WantedIn
<1> QED
  BY <1>4, <1>6 DEF Now

LEMMA PassedStep == Inv /\ [Next]_vars => PassedRuns'
<1> SUFFICES ASSUME Inv, [Next]_vars PROVE PassedRuns'
  OBVIOUS
<1>1. cases' = cases
  BY Steps, OthersKeep, StartAppends DEF Inv, RunsKept
<1>2. CASE results' = results
  BY <1>1, <1>2, PassedKept DEF PassedRuns
<1>3. CASE Compare /\ Decides
  <2> DEFINE new == [case |-> case, result |-> Verdict(~ Wanted)]
  <2>1. results' = Append(results, new)
    BY <1>3, CompareStep
  <2>2. results \in Seq([case : 1 .. Len(cases), result : {"pass", "fail", "pending"}])
    BY DEF Inv, Typed, TypeOK
  <2>3. DOMAIN results = 1 .. Len(results) /\ DOMAIN results' = 1 .. Len(results) + 1 /\ Len(results) \in Nat
    BY <2>1, <2>2, LenProperties
  <2>4. results'[Len(results) + 1] = new /\ \A i \in DOMAIN results : results'[i] = results[i]
    BY <2>1, <2>2, <2>3
  <2> SUFFICES ASSUME NEW i \in DOMAIN results', results'[i].result = "pass"
               PROVE  \E last \in DOMAIN runs' :
                        WantedIn(runs', results'[i].case, Times(cases[results'[i].case]), last)
    BY <1>1 DEF PassedRuns
  <2>5. CASE i \in DOMAIN results
    BY <2>4, <2>5, PassedKept
  <2>6. CASE i = Len(results) + 1
    <3>1. new.case = case /\ new.result = Verdict(~ Wanted)
      OBVIOUS
    <3> HIDE DEF new
    <3> QED
      BY <1>3, <2>4, <2>6, <3>1, PassedNow
  <2> QED
    BY <2>3, <2>5, <2>6
<1>4. results' = results \/ (Compare /\ Decides)
  <2>1. CASE Skip \/ Refuse \/ Make \/ Start \/ CannotStart \/ EndInError \/ Finish
    BY <2>1 DEF Skip, Refuse, Make, Start, CannotStart, EndInError, Finish, Return
  <2>2. CASE Compare
    BY <2>2, CompareStep
  <2>3. CASE UNCHANGED Ours
    BY <2>3 DEF Ours
  <2> QED
    BY <2>1, <2>2, <2>3, Steps DEF Inv
<1> QED
  BY <1>2, <1>3, <1>4

-----------------------------------------------------------------------------
LEMMA InvInit == Init => Inv
<1> SUFFICES ASSUME Init PROVE Inv
  OBVIOUS
<1>1. DOMAIN runs = {} /\ Last = 0 /\ DOMAIN results = {}
  BY DEF Init, Last
<1>2. EachIsSound /\ PassedRuns
  BY <1>1 DEF EachIsSound, PassedRuns
<1>3. AtNamed /\ TreeOf
  BY <1>1 DEF Init, AtNamed, TreeOf
<1>4. WantedSoFar
  BY <1>1 DEF Init, WantedSoFar, Compared, WantedIn
<1> QED
  BY <1>2, <1>3, <1>4, TypeInit DEF Inv

LEMMA InvStep == Inv /\ [Next]_vars => Inv'
BY TypeStep, SoundStep, AtNamedStep, TreeStep, WantedSoFarStep, PassedStep DEF Inv

LEMMA InvAlways == Spec => []Inv
BY InvInit, InvStep, PTL DEF Spec

(* The variables keep their types, whatever a product does to its runs.    *)
THEOREM TypeCorrect == Spec => []TypeOK
<1>1. Inv => TypeOK
  BY DEF Inv, Typed
<1> QED
  BY <1>1, InvAlways, PTL

(* A tree exists only for the run RunCases is at, and no other run is      *)
(* running: none outlives RunCases, whichever error ended it.              *)
THEOREM NoTreeLeftBehind == Spec => []TreeIsHeld
<1>1. Inv => TreeIsHeld
  BY DEF Inv, Typed, TypeOK, TreeOf, TreeIsHeld
<1> QED
  BY <1>1, InvAlways, PTL

(* A run is interrupted at most once, and only at the marker its case      *)
(* names, however many watchers outlive their runs.                        *)
THEOREM InterruptsAtMarkers == Spec => []InterruptedAtItsMarker
<1>1. ASSUME Inv PROVE InterruptedAtItsMarker
  <2> SUFFICES ASSUME NEW r \in DOMAIN runs
               PROVE  runs[r].sent <= 1
                      /\ (runs[r].sent = 1 => runs[r].marker /\ cases[runs[r].case].interrupt)
    BY DEF InterruptedAtItsMarker
  <2>1. runs[r] \in RunType
    BY <1>1 DEF Inv, Typed
  <2>2. runs[r].sent <= 1
    BY <2>1 DEF RunType
  <2>3. SoundRun(runs[r])
    BY <1>1 DEF Inv, EachIsSound
  <2> QED
    BY <2>2, <2>3 DEF SoundRun, MarkedRun
<1> QED
  BY <1>1, InvAlways, PTL

(* A case that passed was run as often as it asks for, each of its runs    *)
(* ended as it wants, and no run is counted twice.                         *)
THEOREM PassesAreWhole == Spec => []PassIsEveryRun
<1>1. ASSUME Inv PROVE PassIsEveryRun
  <2> SUFFICES ASSUME NEW i \in DOMAIN results, results[i].result = "pass"
               PROVE  \E f \in [1 .. Times(cases[results[i].case]) -> RunsOf(results[i].case)] :
                        \A k, l \in DOMAIN f : runs[f[k]].ending = "wanted" /\ (k # l => f[k] # f[l])
    BY DEF PassIsEveryRun
  <2> DEFINE c == results[i].case
             n == Times(cases[c])
  <2>1. PICK last \in DOMAIN runs : WantedIn(runs, c, n, last)
    BY <1>1 DEF Inv, PassedRuns
  <2>2. n \in Nat /\ last \in Nat
    <3>1. cases \in Seq(Case) /\ runs \in Seq(RunType)
          /\ results \in Seq([case : 1 .. Len(cases), result : {"pass", "fail", "pending"}])
      BY <1>1, CasesAssumption DEF Inv, Typed, TypeOK
    <3> DEFINE Result == [case : 1 .. Len(cases), result : {"pass", "fail", "pending"}]
    <3>2. results[i] \in Result
      <4>1. results \in [1 .. Len(results) -> Result]
        BY <3>1, LenProperties
      <4> HIDE DEF Result
      <4> QED
        BY <4>1
    <3>3. c \in 1 .. Len(cases)
      BY <3>2
    <3> HIDE DEF c
    <3>4. cases[c] \in Case
      BY <3>1, <3>3
    <3>5. n \in Nat
      BY <3>4 DEF Times, Case
    <3>6. last \in Nat
      BY <3>1, LenProperties
    <3> QED
      BY <3>5, <3>6
  <2> DEFINE f == [k \in 1 .. n |-> last - n + k]
  <2> HIDE DEF c, n
  <2>3. \A k \in 1 .. n : last - n + k \in last - n + 1 .. last
    BY <2>2
  <2>4. \A k \in 1 .. n : /\ f[k] \in DOMAIN runs /\ runs[f[k]].case = c
                          /\ runs[f[k]].ending = "wanted"
    BY <2>1, <2>3 DEF WantedIn
  <2>5. \A k, l \in 1 .. n : k # l => f[k] # f[l]
    BY <2>2
  <2>6. f \in [1 .. n -> RunsOf(c)] /\ DOMAIN f = 1 .. n
    BY <2>4 DEF RunsOf
  <2> HIDE DEF f
  <2> QED
    BY <2>4, <2>5, <2>6 DEF c, n
<1> QED
  BY <1>1, InvAlways, PTL
=============================================================================
