------------------------------ MODULE CaseRun ------------------------------
(***************************************************************************)
(* corpus.RunCases (src/corpus/cases.go): each command-line vector that    *)
(* names the product is run as often as it repeats, each time over a fresh *)
(* tree, and may name a marker: once the run has put a file there, a       *)
(* goroutine beside the run (run.go, interruptOnce) sends it an interrupt. *)
(* Nothing waits for that goroutine, so one may outlive its run, and the   *)
(* run after it.                                                           *)
(*                                                                         *)
(* The product is external: it may put the file at the marker and wait     *)
(* there, and it ends as the case wants or not.                            *)
(***************************************************************************)
EXTENDS Integers, Sequences

CONSTANT CaseLists   \* the vectors to choose from, each case in directory order

Case == [named : BOOLEAN, pending : BOOLEAN, interrupt : BOOLEAN, repeat : Nat]

ASSUME CasesAssumption == CaseLists \subseteq Seq(Case)

VARIABLES
  cases,       \* the vectors
  inProcess,   \* the product is linked in, not a command
  cancelled,   \* the context is
  at,          \* RunCases: "cases", "made", "running", "ended"
  case,        \* the case it is at
  repeated,    \* how many of its runs have answered as the case wants
  runs,        \* every run started, the last of them the one RunCases is at
  tree,        \* the run whose tree exists, 0 where none does
  results,     \* the case results, in order
  outcome      \* what RunCases returned

vars == <<cases, inProcess, cancelled, at, case, repeated, runs, tree, results, outcome>>

Ours == <<at, case, repeated, tree, results, outcome>>
Fixed == <<cases, inProcess>>

Init ==
  /\ cases \in CaseLists /\ inProcess \in BOOLEAN /\ cancelled = FALSE
  /\ at = "cases" /\ case = 1 /\ repeated = 0
  /\ runs = << >> /\ tree = 0
  /\ results = << >> /\ outcome = "none"

Now == cases[case]
AtCase == at = "cases" /\ case <= Len(cases)

(* The runs a case asks for: once where it names no repeat. *)
Times(c) == IF c.repeat > 1 THEN c.repeat ELSE 1

-----------------------------------------------------------------------------
(* RunCases. *)
Skip ==
  /\ AtCase /\ ~ Now.named
  /\ case' = case + 1
  /\ UNCHANGED <<Fixed, cancelled, at, repeated, runs, tree, results, outcome>>

Return(what) ==
  /\ at' = "ended" /\ outcome' = what /\ tree' = 0
  /\ UNCHANGED <<Fixed, cancelled, case, repeated, runs, results>>

(* The vector does not decode, or its tree cannot be written. *)
Refuse == AtCase /\ Return("error")

Make ==
  /\ AtCase /\ Now.named
  /\ at' = "made" /\ tree' = Len(runs) + 1
  /\ UNCHANGED <<Fixed, cancelled, case, repeated, runs, results, outcome>>

(* Bug: only the first of a case's runs watched. *)
RunFirstWatched(c) ==
  [case |-> c, running |-> TRUE, marker |-> FALSE, sent |-> 0, stop |-> FALSE, ending |-> "none",
   beside |-> IF cases[c].interrupt /\ repeated = 0 THEN "watching" ELSE "gone"]

(* sent counts the interrupts the run received; beside is the goroutine    *)
(* that watches the marker.                                                *)
Run(c) ==
  [case |-> c, running |-> TRUE, marker |-> FALSE, sent |-> 0, stop |-> FALSE, ending |-> "none",
   beside |-> IF cases[c].interrupt THEN "watching" ELSE "gone"]

Start ==
  /\ at = "made" /\ (inProcess \/ ~ cancelled)
  /\ at' = "running" /\ runs' = Append(runs, Run(case))
  /\ UNCHANGED <<Fixed, cancelled, case, repeated, tree, results, outcome>>

(* A command cannot be started, as none can once the context is cancelled. *)
CannotStart == at = "made" /\ ~ inProcess /\ Return("error")

Last == Len(runs)

(* The run is over: the goroutine beside it is told to stop, the run held  *)
(* to the case, and its tree removed.  ending "error" is a run whose end   *)
(* the runner cannot read.                                                 *)
Over == at = "running" /\ ~ runs[Last].running
Stopped == [runs EXCEPT ![Last].stop = TRUE]

EndInError ==
  /\ Over /\ runs[Last].ending = "error"
  /\ runs' = Stopped
  /\ at' = "ended" /\ outcome' = "error" /\ tree' = 0
  /\ UNCHANGED <<Fixed, cancelled, case, repeated, results>>

Verdict(message) ==
  CASE Now.pending -> "pending" [] ~ Now.pending /\ message -> "fail" [] OTHER -> "pass"

(* Bug: a case decided by its first run. *)
CompareOnce ==
  /\ Over /\ runs[Last].ending # "error"
  /\ runs' = Stopped /\ at' = "cases" /\ tree' = 0
  /\ case' = case + 1 /\ repeated' = 0
  /\ results' = Append(results, [case |-> case, result |-> Verdict(runs[Last].ending # "wanted")])
  /\ UNCHANGED <<Fixed, cancelled, outcome>>

(* The case is decided by the first run that differs, or by the last.      *)
Compare ==
  /\ Over /\ runs[Last].ending # "error"
  /\ runs' = Stopped /\ at' = "cases" /\ tree' = 0
  /\ LET message == runs[Last].ending # "wanted"
     IN  IF message \/ repeated + 1 >= Times(Now)
           THEN /\ case' = case + 1 /\ repeated' = 0
                /\ results' = Append(results, [case |-> case, result |-> Verdict(message)])
           ELSE repeated' = repeated + 1 /\ UNCHANGED <<case, results>>
  /\ UNCHANGED <<Fixed, cancelled, outcome>>

Finish == at = "cases" /\ case > Len(cases) /\ Return("results")

RunCases ==
  Skip \/ Refuse \/ Make \/ Start \/ CannotStart \/ EndInError \/ Compare \/ Finish

-----------------------------------------------------------------------------
(* interruptOnce, beside run r.  Its file is in the run's own tree.        *)
MarkerIsThere(r) == tree = r /\ runs[r].marker

(* Bug: an interrupt once the run has started. *)
SeeMarkerEarly(r) ==
  /\ runs[r].beside = "watching" /\ tree = r
  /\ runs' = [runs EXCEPT ![r].beside = "interrupting"]
  /\ UNCHANGED <<Fixed, cancelled, Ours>>

(* A tick that finds the file; another leaves everything as it was.  The   *)
(* select may take a tick although stop is closed.                         *)
SeeMarker(r) ==
  /\ runs[r].beside = "watching" /\ MarkerIsThere(r)
  /\ runs' = [runs EXCEPT ![r].beside = "interrupting"]
  /\ UNCHANGED <<Fixed, cancelled, Ours>>

(* The interrupt reaches a run that is still running, and is lost on one   *)
(* that ended since the file was seen.                                     *)
Interrupt(r) ==
  /\ runs[r].beside = "interrupting"
  /\ runs' = [runs EXCEPT ![r].beside = "gone", ![r].sent = IF runs[r].running THEN @ + 1 ELSE @]
  /\ UNCHANGED <<Fixed, cancelled, Ours>>

SeeStop(r) ==
  /\ runs[r].beside = "watching" /\ runs[r].stop
  /\ runs' = [runs EXCEPT ![r].beside = "gone"]
  /\ UNCHANGED <<Fixed, cancelled, Ours>>

Beside(r) == SeeMarker(r) \/ Interrupt(r) \/ SeeStop(r)

-----------------------------------------------------------------------------
(* The product, and who cancels the context. *)
PutMarker(r) ==
  /\ runs[r].running /\ ~ runs[r].marker
  /\ runs' = [runs EXCEPT ![r].marker = TRUE]
  /\ UNCHANGED <<Fixed, cancelled, Ours>>

(* A cancelled context kills a command, which then differs from any case,  *)
(* or cannot be read where it ended well all the same; one linked in is    *)
(* handed the context.                                                     *)
Endings == {"wanted", "other"} \union (IF cancelled /\ ~ inProcess THEN {"killed", "error"} ELSE {})

End(r) ==
  /\ runs[r].running
  /\ \E ending \in Endings :
       runs' = [runs EXCEPT ![r].running = FALSE, ![r].ending = ending]
  /\ UNCHANGED <<Fixed, cancelled, Ours>>

Cancel ==
  /\ ~ cancelled /\ outcome = "none"
  /\ cancelled' = TRUE
  /\ UNCHANGED <<Fixed, runs, Ours>>

Next == RunCases \/ Cancel \/ \E r \in DOMAIN runs : Beside(r) \/ PutMarker(r) \/ End(r)

(* A run may wait at its marker for ever, unless it is interrupted or      *)
(* cancelled; a run that names none ends.                                  *)
Ends(r) ==
  /\ r <= Last
  /\ IF cases[runs[r].case].interrupt /\ runs[r].sent = 0 /\ ~ cancelled
       THEN ~ runs[r].marker /\ (PutMarker(r) \/ End(r))
       ELSE End(r)

(* The most runs the vectors ask for. *)
RunCap == 8

Fairness ==
  /\ WF_vars(RunCases)
  /\ \A r \in 1 .. RunCap : WF_vars(r <= Last /\ Beside(r)) /\ WF_vars(Ends(r))

Spec == Init /\ [][Next]_vars /\ Fairness

-----------------------------------------------------------------------------
RunsOf(c) == {r \in DOMAIN runs : runs[r].case = c}
Ending == {"none", "wanted", "other", "killed", "error"}

(* The variables' types. *)
TypeOK ==
  /\ cases \in CaseLists /\ inProcess \in BOOLEAN /\ cancelled \in BOOLEAN
  /\ at \in {"cases", "made", "running", "ended"}
  /\ case \in 1 .. Len(cases) + 1 /\ repeated \in Nat
  /\ \A r \in DOMAIN runs :
       runs[r] \in [case : 1 .. Len(cases), running : BOOLEAN, marker : BOOLEAN, sent : 0 .. 1,
                    stop : BOOLEAN, ending : Ending, beside : {"watching", "interrupting", "gone"}]
  /\ tree \in 0 .. Last + 1
  /\ results \in Seq([case : 1 .. Len(cases), result : {"pass", "fail", "pending"}])
  /\ outcome \in {"none", "results", "error"}

(* A case passes only when each of its runs ended as it wants, and it ran  *)
(* as often as it asks for, once where it asks for none.                   *)
PassIsEveryRun ==
  \A i \in DOMAIN results :
    LET mine == RunsOf(results[i].case)
    IN  results[i].result = "pass" =>
          \E f \in [1 .. Times(cases[results[i].case]) -> mine] :
            \A k, l \in DOMAIN f : runs[f[k]].ending = "wanted" /\ (k # l => f[k] # f[l])

(* A run is interrupted at most once, and only one that put a file at the  *)
(* marker its case names.                                                  *)
InterruptedAtItsMarker ==
  \A r \in DOMAIN runs :
    /\ runs[r].sent <= 1
    /\ runs[r].sent = 1 => runs[r].marker /\ cases[runs[r].case].interrupt

(* A tree exists only for the run RunCases is at: none outlives it,        *)
(* whichever error ended RunCases.                                         *)
TreeIsHeld ==
  /\ tree # 0 => at \in {"made", "running"}
  /\ at = "running" => tree = Last
  /\ \A r \in DOMAIN runs : runs[r].running => tree = r

(* RunCases ends, although a run may wait for its interrupt. *)
CasesEnd == <>(outcome # "none")
=============================================================================
