-------------------------- MODULE SuppressionReader --------------------------
(***************************************************************************)
(* The strict reader of the ignore file and the baseline                   *)
(* (src/suppress/read.go).  A document is read twice: as tokens, which     *)
(* refuses a member written twice and finds the brace of every entry, and  *)
(* then decoded, which refuses the keys and values no entry takes.  The    *)
(* two readings meet only in the number of an entry.                       *)
(*                                                                         *)
(* A document is None where the file is absent, or its text, whether       *)
(* anything is written after it and whether it is cut short.  A site is    *)
(* the number of the array element whose brace it names, 0 for the         *)
(* document and for the place in it the token reading stopped at.          *)
(***************************************************************************)
EXTENDS JsonValues, FiniteSets

CONSTANTS
  Member,      \* the member holding the entries: "ignore" or "baseline"
  Folding,     \* a written key to the declared key it equals but for case
  Codes,       \* the texts in the form of a code
  Paths,       \* the texts in the form of a path
  SchemeOf     \* each text in the form of a reference, and its scheme

Fields == {"code", "symbol", "path", "reason"}
Here == 0     \* the document's own site

ASSUME FoldingReachesFields ==
  \A key \in DOMAIN Folding : key \notin Fields /\ Folding[key] \in Fields

-----------------------------------------------------------------------------
(***************************************************************************)
(* walk: the tokens of the document.                                       *)
(***************************************************************************)
Values(text) ==
  CASE text.kind = "object" -> [i \in DOMAIN text.written |-> text.written[i][2]]
    [] text.kind = "array" -> text.items
    [] OTHER -> << >>

WritesTwice(text) ==
  /\ text.kind = "object"
  /\ \E i, j \in DOMAIN text.written : i # j /\ text.written[i][1] = text.written[j][1]

RECURSIVE Repeats(_)
(* Bug: an entry's own members not looked at. *)
RepeatsOutsideEntries(text) ==
  WritesTwice(text)
    \/ \E i \in DOMAIN Values(text) : text.kind = "object" /\ WritesTwice(Values(text)[i])
(* A member written twice, at any depth. *)
Repeats(text) ==
  WritesTwice(text) \/ \E i \in DOMAIN Values(text) : Repeats(Values(text)[i])

WalkRefuses(document) == document.cut \/ document.trailing \/ Repeats(document.text)

(* The elements of the document's array, none where it has no array. *)
ArraysOf(text) ==
  IF text.kind # "object" THEN {}
  ELSE {text.written[i][2] : i \in {j \in DOMAIN text.written :
          text.written[j][1] = Member /\ text.written[j][2].kind = "array"}}
Elements(text) ==
  IF ArraysOf(text) = {} THEN << >> ELSE (CHOOSE a \in ArraysOf(text) : TRUE).items

(* The brace of every entry: an element with none is not counted. *)
EntrySites(document) ==
  LET items == Elements(document.text)
  IN  SelectSeq([i \in DOMAIN items |-> i], LAMBDA i : items[i].kind = "object")

-----------------------------------------------------------------------------
(***************************************************************************)
(* array and entry: the document decoded, into a map whose names are taken *)
(* as written and into a struct whose keys are folded.                     *)
(***************************************************************************)
ArrayRefuses(text) ==
  \/ text.kind # "object"
  \/ \E i \in DOMAIN text.written :
       \/ text.written[i][1] \notin {Member, "description"}
       \/ text.written[i][1] = "description" /\ text.written[i][2].kind \notin {"string", "null"}
  \/ ArraysOf(text) = {}

(* The field a key of an entry sets, None for an undeclared key. *)
Field(key) ==
  IF key \in Fields THEN key ELSE IF key \in DOMAIN Folding THEN Folding[key] ELSE None

(* The value an entry's field holds: the last one written, None where there *)
(* is none or it is null.                                                   *)
Held(element, field) ==
  LET setting == {i \in DOMAIN element.written : Field(element.written[i][1]) = field}
      last == element.written[CHOOSE i \in setting : \A j \in setting : j <= i][2]
  IN  IF element.kind # "object" \/ setting = {} \/ last.kind = "null" THEN None ELSE last.text

DecodeRefuses(element) ==
  \/ element.kind \notin {"object", "null"}
  \/ /\ element.kind = "object"
     /\ \E i \in DOMAIN element.written :
          \/ Field(element.written[i][1]) = None
          \/ element.written[i][2].kind \notin {"string", "null"}

EntryOf(element, site) ==
  [code |-> Held(element, "code"), symbol |-> Held(element, "symbol"),
   path |-> Held(element, "path"), reason |-> Held(element, "reason"), site |-> site]

(* An entry names its code and its symbol, and no value is out of form; an *)
(* empty path is no path, which is a finding's to report.                  *)
InForm(entry) ==
  /\ entry.code \in Codes
  /\ entry.symbol \in DOMAIN SchemeOf
  /\ entry.path \in Paths \union {None, ""}

EntryRefuses(element) ==
  \/ DecodeRefuses(element)
  \/ element.kind = "null"
  \/ ~ InForm(EntryOf(element, Here))

-----------------------------------------------------------------------------
(***************************************************************************)
(* read: the entries in document order, or the site of the first refusal.  *)
(***************************************************************************)
Read(entries) == [entries |-> entries, refused |-> None]
Refused(site) == [entries |-> << >>, refused |-> site]

(* The site of the i-th element is the i-th brace found. *)
SiteAt(sites, i) == IF i \in DOMAIN sites THEN sites[i] ELSE Here

ReadElements(items, sites) ==
  LET bad == {i \in DOMAIN items : EntryRefuses(items[i])}
  IN  IF bad = {} THEN Read([i \in DOMAIN items |-> EntryOf(items[i], SiteAt(sites, i))])
      ELSE Refused(SiteAt(sites, CHOOSE i \in bad : \A j \in bad : i <= j))

ReadDocument(document) ==
  CASE document = None -> Read(<< >>)
    [] document # None /\ WalkRefuses(document) -> Refused(Here)
    [] document # None /\ ~ WalkRefuses(document) /\ ArrayRefuses(document.text) -> Refused(Here)
    [] OTHER -> ReadElements(Elements(document.text), EntrySites(document))
=============================================================================
