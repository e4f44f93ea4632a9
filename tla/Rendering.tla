----------------------------- MODULE Rendering -----------------------------
(***************************************************************************)
(* What package render makes of a report (src/render): the text lines, the *)
(* workflow annotations, the SARIF log and the verdict.  Wording, escapes  *)
(* and the members a rendering copies unchanged are left out.              *)
(***************************************************************************)
EXTENDS ReportRecords

CONSTANTS
  Kinds,         \* the live issue kinds: a code, the languages it applies to
  MaxRelated,    \* maxRelatedLocations
  Window,        \* fingerprintWindow
  HashModulus    \* 2^64 in the code: what a line's polynomial is taken modulo

ASSUME RenderingAssumption ==
  /\ MaxRelated \in Nat /\ Window \in Nat \ {0} /\ HashModulus \in Nat \ {0}
  /\ IsFiniteSet(Kinds) /\ \A k \in Kinds : k.code \in Nat
  /\ \A k, l \in Kinds : k.code = l.code => k = l

Failed == [failed |-> TRUE]
StaleKind == [token |-> "suppression", confidence |-> "certain"]

-----------------------------------------------------------------------------
(* The line fingerprint.  A file is a sequence of UTF-16 units. *)
LF == 10
CR == 13
Blank == {9, 32}
Sentinel == 65535
Factor == 37

(* Bug: a line feed after a carriage return kept. *)
EveryLineEnd(content) ==
  LET kept == Selected(content, {i \in DOMAIN content : content[i] \notin Blank})
  IN  Append([i \in DOMAIN kept |-> IF kept[i] = CR THEN LF ELSE kept[i]], Sentinel)

AfterReturn(content, i) == i - 1 \in DOMAIN content /\ content[i - 1] = CR

SignificantUnits(content) ==
  LET kept == Selected(content, {i \in DOMAIN content :
                content[i] \notin Blank /\ ~ (content[i] = LF /\ AfterReturn(content, i))})
  IN  Append([i \in DOMAIN kept |-> IF kept[i] = CR THEN LF ELSE kept[i]], Sentinel)

LineStarts(units) == Rising({1} \union {i + 1 : i \in {j \in 1 .. Len(units) - 1 : units[j] = LF}})

LineHash(units, start) ==
  FoldLeft(LAMBDA hash, i : (hash * Factor + IF i \in DOMAIN units THEN units[i] ELSE 0) % HashModulus,
           0, [k \in 1 .. Window |-> start + k - 1])

(* Each line's hash, and how many lines so far have it. *)
LineHashes(content) ==
  LET units == SignificantUnits(content)
      hashes == [n \in DOMAIN LineStarts(units) |-> LineHash(units, LineStarts(units)[n])]
  IN  [n \in DOMAIN hashes |-> <<hashes[n], Cardinality({m \in 1 .. n : hashes[m] = hashes[n]})>>]

-----------------------------------------------------------------------------
(* The text format, and the annotations: what each line is about. *)
StaleLine(s) == [path |-> s.path, line |-> s.line, code |-> s.code] @@ StaleKind

Text(r) ==
  [i \in DOMAIN r.findings |->
     [path |-> r.findings[i].path, line |-> r.findings[i].line, code |-> r.findings[i].code,
      token |-> "symbol", confidence |-> r.findings[i].confidence]]
  \o [i \in DOMAIN r.stale |-> StaleLine(r.stale[i])]
  \o LET line == WithheldLine(r.totals.withheld) IN IF line = None THEN << >> ELSE <<line>>

CommandOf(severity) ==
  CASE severity = "deny" -> "error" [] severity = "warn" -> "warning" [] OTHER -> "notice"

Annotations(r) ==
  [i \in DOMAIN r.findings |->
     [command |-> CommandOf(r.findings[i].severity), path |-> r.findings[i].path, line |-> r.findings[i].line]]
  \o [i \in DOMAIN r.stale |-> [command |-> "error", path |-> r.stale[i].path, line |-> r.stale[i].line]]
  \o [i \in DOMAIN r.skips |-> [command |-> "warning", path |-> r.skips[i].key, line |-> r.skips[i].enc]]
  \o [i \in DOMAIN r.notes |-> [command |-> "warning", path |-> r.notes[i].key, line |-> 0]]

(* The verdict a report's totals give, as the exit code's name. *)
Failing(counts, failOn) ==
  \E i \in SelectInSeq(Severities, LAMBDA s : s = failOn) .. Len(Severities) : counts[Severities[i]] > 0

Verdict(t, failOn) ==
  CASE t.pending > 0 -> "pending"
    [] t.pending = 0 /\ (t.stale > 0 \/ Failing(t.severity, failOn)) -> "findings"
    [] OTHER -> "clean"

-----------------------------------------------------------------------------
(* The SARIF log. *)
Applying(languages) == {k \in Kinds : k.languages \intersect ToSet(languages) # {}}
RulesFor(kinds) == Rising({k.code : k \in kinds})
RuleIndex(rules, code) == SelectInSeq(rules, LAMBDA c : c = code)    \* 0 where the run has none

(* The files a rendering may read: a path's content. *)
Readable(files, path, line) == path \in DOMAIN files /\ line \in DOMAIN LineHashes(files[path])
HashAt(files, path, line) == IF Readable(files, path, line) THEN LineHashes(files[path])[line] ELSE None

OwnDeclaration(f, member) == member.ref = f.ref /\ member.path = f.path

(* The positions a finding names beyond its own, then the other members of *)
(* its component; the first of them all.                                   *)
RelatedLocations(f, members) ==
  LET others == SelectSeq(members, LAMBDA m : ~ OwnDeclaration(f, m))
      all == f.positions \o [i \in DOMAIN others |-> [label |-> "member", path |-> others[i].path]]
  IN  SubSeq(all, 1, IF Len(all) < MaxRelated THEN Len(all) ELSE MaxRelated)

LevelOf(severity) ==
  CASE severity = "deny" -> "error" [] severity = "warn" -> "warning" [] OTHER -> "note"

FindingResult(f, rules, members, files) ==
  [rule |-> RuleIndex(rules, f.code), code |-> f.code, level |-> LevelOf(f.severity),
   path |-> f.path, line |-> f.line, related |-> RelatedLocations(f, members),
   hash |-> HashAt(files, f.path, f.line), symbol |-> <<f.code, f.ref>>]

StaleResult(s, rules, files) ==
  [rule |-> RuleIndex(rules, s.code), code |-> s.code, level |-> "error",
   path |-> s.path, line |-> s.line, related |-> << >>,
   hash |-> HashAt(files, s.path, s.line), symbol |-> <<s.code, s.ref>>]

RecordsCarried(records, analyzer) == Selected(records, {i \in DOMAIN records : records[i].analyzer = analyzer})

(* Bug: a result for every finding, whichever analyzer carried it. *)
AddEvery(r, analyzer, rules, files) ==
  [i \in DOMAIN r.findings |-> FindingResult(r.findings[i], rules, << >>, files)]
  \o LET stale == RecordsCarried(r.stale, analyzer)
     IN  [i \in DOMAIN stale |-> StaleResult(stale[i], rules, files)]

(* The results of the records the named analyzer carried. *)
Add(r, analyzer, rules, files) ==
  LET listed == IF r.components = None THEN << >> ELSE MembersOf(r)
      found == RecordsCarried(r.findings, analyzer)
      stale == RecordsCarried(r.stale, analyzer)
  IN  [i \in DOMAIN found |->
         FindingResult(found[i], rules,
                       IF found[i].component \in DOMAIN listed THEN listed[found[i].component] ELSE << >>, files)]
      \o [i \in DOMAIN stale |-> StaleResult(stale[i], rules, files)]

NewRun(r, driver, automation, kinds, totals, files) ==
  [driver |-> driver, rules |-> RulesFor(kinds), totals |-> totals, automation |-> automation,
   results |-> Add(r, driver, RulesFor(kinds), files)]

(* A merged report's runs: one for each report it was merged from, and the *)
(* merge's own where a record names no analyzer or none was merged.        *)
AutomationOf(languages) == SortOn(languages, Unary)
MergedRuns(r, files) ==
  LET from == SortOn(r.mergedFrom, LAMBDA m : <<m.id>>)
      own == from = << >> \/ \E record \in ToSet(r.findings) \union ToSet(r.stale) : record.analyzer = 0
  IN  [i \in DOMAIN from |->
         NewRun(r, from[i].id, AutomationOf(from[i].languages), Applying(from[i].languages), from[i].totals, files)]
      \o IF own THEN <<NewRun(r, 0, << >>, Kinds, r.totals, files)>> ELSE << >>

EveryRecordPlaced(r) ==
  \A record \in ToSet(r.findings) \union ToSet(r.stale) :
     record.analyzer = 0 \/ \E i \in DOMAIN r.mergedFrom : r.mergedFrom[i].id = record.analyzer

(* The log, or that the rendering fails: a record no run holds, a code the *)
(* run has no rule for, a file or a line that cannot be read.              *)
SARIF(r, files) ==
  LET runs == IF r.mergedFrom = None
                THEN <<NewRun(r, 0, AutomationOf(r.languages), Applying(r.languages), r.totals, files)>>
              ELSE MergedRuns(r, files)
  IN  IF \/ r.mergedFrom # None /\ ~ EveryRecordPlaced(r)
         \/ \E i \in DOMAIN runs : \E result \in ToSet(runs[i].results) : result.rule = 0 \/ ~ Readable(files, result.path, result.line)
      THEN Failed
      ELSE [runs |-> runs]

Rendered(r, bySize) == IF bySize THEN [r EXCEPT !.findings = BySize(r.findings)] ELSE r

(* Every format but JSON is of the order asked for. *)
Render(format, r, bySize, files) ==
  LET shown == Rendered(r, bySize)
  IN  CASE format = "text" -> Text(shown)
        [] format = "github" -> Annotations(shown)
        [] format = "sarif" -> SARIF(shown, files)
        [] format = "template" -> IF ListsEveryComponent(shown) THEN [document |-> shown] ELSE Failed
=============================================================================
