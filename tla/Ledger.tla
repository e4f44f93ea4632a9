------------------------------- MODULE Ledger -------------------------------
(***************************************************************************)
(* What the suppressions of one run do: each is resolved to records in     *)
(* reading order (directives, then the ignore file's entries, then the     *)
(* baseline's rows, src/suppress/suppress.go), and Decide runs the records *)
(* one by one over the findings the run would produce were none of them    *)
(* there (src/suppress/ledger.go).                                         *)
(***************************************************************************)
EXTENDS SuppressionWorld

CONSTANTS
  Worlds,       \* the runs: declarations, findings, dials, suppressions to choose from
  MaxWritten(_) \* the most suppressions a run of one of them is written with

(* An inventory lookup answers a list of the run's declarations. *)
ASSUME LookupAnswersDeclarations ==
  \A w \in Worlds : \A s \in w.candidates : BoundTo(w.decls, s) \in Seq(ToSet(w.decls.order))

(* A finding is an assertion's, about a declaration, a part's, under its   *)
(* holder's reference, a declaration's or a row's.                         *)
ASSUME FindingsAreWhole ==
  \A w \in Worlds : \A f \in w.findings :
    /\ f.iface = None => f.twins = {}
    /\ f.about = None => f.iface = None /\ f.param = None
    /\ f.param # None => w.decls.ref[f.about] # NoRef

VARIABLES
  world,      \* the run
  written,    \* its suppressions, in reading order
  phase,      \* "binding", "deciding", "decided", or "malformed": the run ended
  cursor,     \* the suppression to bind, then the record to decide
  records,    \* the records bound
  refusals,   \* the suppressions refused with a finding of their own, each with its report
  claims,     \* which record claimed each finding, 0 for none
  verdicts    \* what each record decided so far did

vars == <<world, written, phase, cursor, records, refusals, claims, verdicts>>

Found == {FindingOf(world.decls, f) : f \in world.findings}

(* The order the documents are read in. *)
Rank == [inline |-> 1, ignore |-> 2, baseline |-> 3]
InReadingOrder(list) ==
  \A i, j \in DOMAIN list : i < j => Rank[list[i].mechanism] <= Rank[list[j].mechanism]

(* Where a suppression is written: a directive's line, one over each       *)
(* declaration and with each code it names, the same one twice or not, or  *)
(* the brace that opens an entry.                                          *)
SiteOf(k) == IF written[k].mechanism = "inline" THEN <<written[k].above>> ELSE <<k, k>>

Init ==
  /\ world \in Worlds
  /\ written \in {list \in BoundedSeq(world.candidates, MaxWritten(world)) : InReadingOrder(list)}
  /\ phase = "binding" /\ cursor = 1
  /\ records = << >> /\ refusals = {} /\ verdicts = << >>
  /\ claims = [f \in Found |-> 0]

-----------------------------------------------------------------------------
Reading == phase = "binding" /\ cursor <= Len(written)

(* A reader refuses the whole document for one value out of form, whatever *)
(* its scheme; the binder refuses a reference of its own scheme no form    *)
(* admits.                                                                 *)
Malformed(suppression) ==
  \/ suppression.form = "malformed"
  \/ suppression.form = "unparsed" /\ suppression.scheme = "own"

(* A malformed suppression ends the run before any finding exists. *)
RefuseMalformed ==
  /\ Reading /\ Malformed(written[cursor])
  /\ phase' = "malformed"
  /\ records' = << >> /\ refusals' = {}
  /\ UNCHANGED <<world, written, cursor, claims, verdicts>>

(* An entry of another scheme belongs to another analyzer. *)
SkipOther ==
  /\ Reading /\ ~ Malformed(written[cursor])
  /\ written[cursor].scheme = "other"
  /\ cursor' = cursor + 1
  /\ UNCHANGED <<world, written, phase, records, refusals, claims, verdicts>>

Own(suppression) == ~ Malformed(suppression) /\ suppression.scheme = "own"

(* A suppression with no reason, or an entry naming no path, is reported   *)
(* and binds nothing.                                                      *)
Refuse ==
  /\ Reading /\ Own(written[cursor]) /\ RefusalsOf(written[cursor]) # {}
  /\ refusals' = refusals \union ({cursor} \X RefusalsOf(written[cursor]))
  /\ cursor' = cursor + 1
  /\ UNCHANGED <<world, written, phase, records, claims, verdicts>>

RecordsWritten(k) ==
  IF written[k].mechanism = "inline"
    THEN <<DirectiveRecord(world.decls, written[k], SiteOf(k))>>
    ELSE RecordsOf(world.decls, written[k], SiteOf(k))

Bind ==
  /\ Reading /\ Own(written[cursor]) /\ RefusalsOf(written[cursor]) = {}
  /\ records' = records \o RecordsWritten(cursor)
  /\ cursor' = cursor + 1
  /\ UNCHANGED <<world, written, phase, refusals, claims, verdicts>>

StartDeciding ==
  /\ phase = "binding" /\ cursor > Len(written)
  /\ phase' = "deciding" /\ cursor' = 1
  /\ UNCHANGED <<world, written, records, refusals, claims, verdicts>>

-----------------------------------------------------------------------------
(* A record pairs with a finding under what its whole suppression bound. *)
NamesHere(record, f) == Pairs(record, BoundWith(records, record), f)

(* The findings a record claims: those it names that no earlier one took. *)
ClaimedBy(record) == {f \in Found : claims[f] = 0 /\ NamesHere(record, f)}

Allowed(record) == record.bound # None /\ record.code \in world.allows

(* Bug: a record one of whose findings the dials withhold, dormant. *)
VerdictDormantOnAny(record, claimed) ==
  IF claimed = {} THEN IF Allowed(record) THEN "dormant" ELSE "stale"
  ELSE IF \E f \in claimed : f.id \in world.withheld THEN "dormant" ELSE "in-effect"

Verdict(record, claimed) ==
  CASE claimed = {} /\ Allowed(record)                              -> "dormant"
    [] claimed = {} /\ ~ Allowed(record)                            -> "stale"
    [] claimed # {} /\ (\A f \in claimed : f.id \in world.withheld) -> "dormant"
    [] OTHER                                                        -> "in-effect"

DecideNext ==
  /\ phase = "deciding" /\ cursor <= Len(records)
  /\ LET claimed == ClaimedBy(records[cursor])
     IN  /\ claims' = [f \in Found |-> IF f \in claimed THEN cursor ELSE claims[f]]
         /\ verdicts' = Append(verdicts, Verdict(records[cursor], claimed))
  /\ cursor' = cursor + 1
  /\ UNCHANGED <<world, written, phase, records, refusals>>

Decided ==
  /\ phase = "deciding" /\ cursor > Len(records)
  /\ phase' = "decided"
  /\ UNCHANGED <<world, written, cursor, records, refusals, claims, verdicts>>

Next == RefuseMalformed \/ SkipOther \/ Refuse \/ Bind \/ StartDeciding \/ DecideNext \/ Decided

Spec == Init /\ [][Next]_vars

-----------------------------------------------------------------------------
(* Bug: a suppression stale as soon as one of its records is. *)
IsStaleAlone(i) == verdicts[i] = "stale"

(* A suppression is stale when every record it resolved to is. *)
IsStale(i) ==
  \A j \in DOMAIN records :
    SuppressionOf(records[j]) = SuppressionOf(records[i]) => verdicts[j] = "stale"

(* One record per stale suppression: the first. *)
StaleRecords ==
  {i \in DOMAIN records :
     /\ IsStale(i)
     /\ \A j \in 1 .. i - 1 : SuppressionOf(records[j]) # SuppressionOf(records[i])}

(* The two totals a report carries. *)
InEffectCount == Cardinality({i \in DOMAIN records : verdicts[i] = "in-effect"})
ReasonsRecorded ==
  Cardinality({<<records[i].mechanism, records[i].site>> : i \in DOMAIN records})

-----------------------------------------------------------------------------
(* The variables' types: the records are a list, and a claim is that of a  *)
(* record already decided.                                                 *)
TypeOK ==
  /\ world \in Worlds
  /\ written \in Seq(world.candidates)
  /\ phase \in {"binding", "deciding", "decided", "malformed"}
  /\ cursor \in Nat \ {0}
  /\ records \in Seq(ToSet(records))
  /\ refusals \in SUBSET (Nat \X {"suppression-without-reason", "unscoped-ignore-entry"})
  /\ claims \in [Found -> 0 .. Len(verdicts)]
  /\ verdicts \in Seq({"in-effect", "dormant", "stale"})

(* A finding belongs to the first record in reading order that names it,   *)
(* as soon as that record is decided, and to no other one ever.            *)
FirstNamerClaims ==
  \A f \in Found :
    LET namers == {i \in 1 .. Len(verdicts) : NamesHere(records[i], f)}
    IN  IF namers = {} THEN claims[f] = 0
        ELSE claims[f] \in namers /\ \A i \in namers : claims[f] <= i

(* Deciding a later record takes back no claim and no verdict. *)
VerdictsStand ==
  [][/\ \A i \in DOMAIN verdicts : i \in DOMAIN verdicts' /\ verdicts'[i] = verdicts[i]
     /\ \A f \in Found : claims[f] # 0 => claims'[f] = claims[f]]_vars

-----------------------------------------------------------------------------
(* The run in the world's own words: the suppressions that bind, and the   *)
(* first of them to name a finding.                                        *)
Binding == {k \in DOMAIN written : Own(written[k]) /\ RefusalsOf(written[k]) = {}}
NamersOf(f) == {k \in Binding : WorldNames(world.decls, written[k], f)}
NamesFirst(k, f) == k \in NamersOf(f) /\ \A l \in NamersOf(f) : k <= l
WrittenAs(k) == <<written[k].mechanism, SiteOf(k), written[k].code>>
RecordsFrom(k) == {i \in DOMAIN records : SuppressionOf(records[i]) = WrittenAs(k)}

(* The ledger withholds what the suppressions name in the world's words    *)
(* and nothing else, each finding for the first suppression naming it:     *)
(* an entry that resolved to several declarations loses no finding between *)
(* its records, and a directive reaches nothing outside its own file.      *)
AgreesWithTheWorld ==
  phase = "decided" =>
    \A f \in world.findings :
      LET claimer == claims[FindingOf(world.decls, f)]
      IN  IF NamersOf(f) = {} THEN claimer = 0
          ELSE \E k \in Binding : NamesFirst(k, f) /\ claimer \in RecordsFrom(k)

(* A suppression is reported stale exactly when it is the first to name no *)
(* finding and the configuration does not allow its code's findings: one   *)
(* that names two declarations with one of them found is not stale, nor a  *)
(* directive naming a code twice when the second time names nothing more.  *)
StaleAsWritten ==
  phase = "decided" =>
    \A k \in Binding :
      (RecordsFrom(k) \cap StaleRecords # {})
        <=> /\ \A l \in Binding : \A f \in world.findings :
                 WrittenAs(l) = WrittenAs(k) => ~ NamesFirst(l, f)
            /\ \A i \in RecordsFrom(k) : ~ Allowed(records[i])

(* Deleting a stale suppression changes no finding's fate: every finding   *)
(* withheld is named by a suppression that stays, and this is what a       *)
(* baseline write relies on when it removes the stale rows.                *)
StaleIsRemovable ==
  phase = "decided" =>
    \A s \in StaleRecords :
      LET staying == {i \in DOMAIN records :
                        SuppressionOf(records[i]) # SuppressionOf(records[s])}
      IN  \A f \in Found : claims[f] # 0 <=> \E i \in staying : NamesHere(records[i], f)

(* The totals of a report count what was written once.  Every finding a    *)
(* suppression withholds and the dials would have let through is behind    *)
(* exactly one record in effect, and every suppression that binds has one  *)
(* reason, whatever its codes and the declarations it bound.               *)
TotalsAsWritten ==
  phase = "decided" =>
    /\ InEffectCount =
         Cardinality({claims[f] : f \in {g \in Found : claims[g] # 0 /\ g.id \notin world.withheld}})
    /\ ReasonsRecorded = Cardinality({<<written[k].mechanism, SiteOf(k)>> : k \in Binding})

-----------------------------------------------------------------------------
(* Bug: a row recorded for whatever is reported. *)
RecordableAny(found) == TRUE

(* Whether a baseline write records a row for a finding. *)
Recordable(found) == Names(SubjectOfCode(found.code), "baseline")

(* The row it records: the finding's code, reference and path. *)
RowFor(found) ==
  [code |-> found.code, mechanism |-> "baseline", symbol |-> found.ref, path |-> found.path]

ASSUME LookupAnswersRows ==
  \A w \in Worlds : \A f \in w.findings :
    BoundTo(w.decls, RowFor(FindingOf(w.decls, f))) \in Seq(ToSet(w.decls.order))

(* A row is recorded for exactly the findings whose row, read back alone   *)
(* and bound, names them: any other row would be stale on the first read   *)
(* back, and one not recorded would fail the next run although a baseline  *)
(* could hold it (Recordable and a round's rows, against the ledger's      *)
(* pairing).                                                               *)
RecordedRowsReadBack ==
  \A f \in Found :
    LET alone == RecordsOf(world.decls, RowFor(f), <<0, 0>>)
    IN  Recordable(f) <=> \E i \in DOMAIN alone : Pairs(alone[i], BoundWith(alone, alone[i]), f)

-----------------------------------------------------------------------------
(* suppression.md, The reference's scheme: a record of another scheme has  *)
(* its values checked for their form, a malformed one ending the run.      *)
OtherSchemeFormsChecked ==
  phase = "decided" => \A k \in DOMAIN written : written[k].form = "valid"
=============================================================================
