---------------------------- MODULE BaselineWrites ----------------------------
(***************************************************************************)
(* A baseline write from the document it finds to the document it leaves:  *)
(* suppress.ReadBaseline, the rounds of suppress.Fixpoint, and             *)
(* suppress.WriteBaseline over the rows of every other scheme              *)
(* (src/suppress/read.go, src/suppress/baseline.go).  One analyzer's write *)
(* is followed step by step; the other language's analyzer writes once,    *)
(* before it or after it, and a write that finds a document it cannot read *)
(* leaves it.                                                              *)
(*                                                                         *)
(* When an analyzer opens the document is its own code's; two writes that  *)
(* overlap are not modelled, since the last would drop what the first      *)
(* wrote and nothing here prevents it.                                     *)
(***************************************************************************)
EXTENDS BaselineFixpoint, SuppressionReader

CONSTANTS
  Documents,   \* the documents a write may find
  Writers,     \* the analyzers writing: its scheme, its identity, what each row spells
  OtherWriters \* the writes of the analyzer of another scheme, each with the rows it records

VARIABLES
  document,    \* the baseline at the target root
  stage,       \* "closed", "recording", "written", or "refused", "failed", "nameless"
  entries,     \* what the write read
  writer,      \* who writes
  original,    \* history: the document first found
  wrote        \* history: the entries each scheme's analyzer last wrote

file == <<document, stage, entries, writer, original, wrote>>
all == <<vars, file>>

(* The identity, its name and version, that every written row's reason is; *)
(* "" where either is missing.                                             *)
Named(w) == w.identity # ""
Whole(row) == row.code # "" /\ row.symbol # "" /\ row.path # ""

WritesInit ==
  /\ Init
  /\ original \in Documents /\ document = original
  /\ writer \in Writers
  /\ stage = "closed" /\ entries = << >>
  /\ wrote = << >>

-----------------------------------------------------------------------------
(***************************************************************************)
(* WriteBaseline: the rows recorded, with the analyzer as their reason,    *)
(* and the rows kept, in the order of their schemes.                       *)
(***************************************************************************)
OfScheme(held, scheme) == SelectSeq(held, LAMBDA entry : SchemeOf[entry.symbol] = scheme)
OtherRows(held, scheme) == SelectSeq(held, LAMBDA entry : SchemeOf[entry.symbol] # scheme)

Reasoned(row, w) ==
  [code |-> row.code, symbol |-> row.symbol, path |-> row.path, reason |-> w.identity]
Spelled(list, w) == [i \in DOMAIN list |-> Reasoned(w.spells[list[i]], w)]

(* Bug: the kept rows follow the recorded ones. *)
BySchemeAsGiven(list) == list

BySchemeFrom(list) ==
  [scheme \in ToSet(Bytewise) |-> SelectSeq(list, LAMBDA row : SchemeOf[row.symbol] = scheme)]
(* Rows of one scheme stay in the order given. *)
ByScheme(list) ==
  FlattenSeq([i \in DOMAIN Bytewise |-> BySchemeFrom(list)[Bytewise[i]]])

MemberOf(field, value) == IF value = None THEN << >> ELSE <<<<field, Str(value)>>>>
RowText(row) ==
  [kind |-> "object",
   written |-> MemberOf("code", row.code) \o MemberOf("symbol", row.symbol)
                 \o MemberOf("path", row.path) \o MemberOf("reason", row.reason)]

DocumentOf(list) ==
  [text |-> [kind |-> "object",
             written |-> <<<<"description", Str("description")>>,
                           <<Member, Arr([i \in DOMAIN list |-> RowText(list[i])])>>>>],
   trailing |-> FALSE, cut |-> FALSE]

Written(list, w, others) == DocumentOf(ByScheme(Spelled(list, w) \o others))

(* No row without a reason, and no row a record could not be read from. *)
Writable(list, w) == Named(w) /\ \A i \in DOMAIN list : Whole(w.spells[list[i]])

-----------------------------------------------------------------------------
Answered == ReadDocument(document)

(* A document that cannot be read ends the write before any round. *)
OpenRefused ==
  /\ stage = "closed" /\ Answered.refused # None
  /\ stage' = "refused"
  /\ UNCHANGED <<vars, document, entries, writer, original, wrote>>

Open ==
  /\ stage = "closed" /\ Answered.refused = None
  /\ entries' = Answered.entries
  /\ stage' = "recording"
  /\ UNCHANGED <<vars, document, writer, original, wrote>>

(* The rounds read the rows of this write alone. *)
Round == stage = "recording" /\ Next /\ UNCHANGED file

RoundsFailed ==
  /\ stage = "recording" /\ phase = "failed"
  /\ stage' = "failed"
  /\ UNCHANGED <<vars, document, entries, writer, original, wrote>>

(* A row no reason can be given to ends the write with the document as it was. *)
WriteNameless ==
  /\ stage = "recording" /\ phase = "ended" /\ ~ Writable(rows, writer)
  /\ stage' = "nameless"
  /\ UNCHANGED <<vars, document, entries, writer, original, wrote>>

Write ==
  /\ stage = "recording" /\ phase = "ended" /\ Writable(rows, writer)
  /\ document' = Written(rows, writer, OtherRows(entries, writer.scheme))
  /\ wrote' = (writer.scheme :> Spelled(rows, writer)) @@ wrote
  /\ stage' = "written"
  /\ UNCHANGED <<vars, entries, writer, original>>

(* The other language's analyzer reads and writes the document whole. *)
OtherWrites ==
  /\ stage \in {"closed", "written"}
  /\ \E other \in OtherWriters :
       /\ other.scheme # writer.scheme /\ other.scheme \notin DOMAIN wrote
       /\ Answered.refused = None
       /\ document' = Written(other.rows, other, OtherRows(Answered.entries, other.scheme))
       /\ wrote' = (other.scheme :> Spelled(other.rows, other)) @@ wrote
  /\ UNCHANGED <<vars, stage, entries, writer, original>>

Step == OpenRefused \/ Open \/ Round \/ RoundsFailed \/ WriteNameless \/ Write

WritesNext == Step \/ OtherWrites

(* The write is one sequential call: a step of it always runs. *)
WritesSpec == WritesInit /\ [][WritesNext]_all /\ WF_all(Step)

-----------------------------------------------------------------------------
(* The scheme, the fields and the reason of an entry, without its site. *)
Unsited(list) ==
  [i \in DOMAIN list |-> [code |-> list[i].code, symbol |-> list[i].symbol,
                          path |-> list[i].path, reason |-> list[i].reason]]

(* What each scheme's rows must be: what its analyzer last wrote, else     *)
(* what the document first found held.                                     *)
RowsDue(scheme) ==
  IF scheme \in DOMAIN wrote THEN wrote[scheme]
  ELSE Unsited(OfScheme(ReadDocument(original).entries, scheme))

(* Whichever analyzer writes last, the document reads back, holding for    *)
(* each scheme what its own analyzer last wrote or what was there before,  *)
(* member for member, scheme after scheme: WriteBaseline over OtherRows    *)
(* loses and reorders nothing of another language.                         *)
WriterDoesNotMatter ==
  DOMAIN wrote # {} =>
    LET schemes == {SchemeOf[symbol] : symbol \in DOMAIN SchemeOf}
        inOrder == SelectSeq(Bytewise, LAMBDA name : name \in schemes)
    IN  /\ Answered.refused = None
        /\ Unsited(Answered.entries) = FlattenSeq([i \in DOMAIN inOrder |-> RowsDue(inOrder[i])])

-----------------------------------------------------------------------------
RECURSIVE Texts(_)
(* Every text of a text, itself included. *)
Texts(text) == {text} \union UNION {Texts(Values(text)[i]) : i \in DOMAIN Values(text)}
Key(element, i) == element.written[i][1]

(* The form suppression.md gives a document: each object names a member    *)
(* once, the array is there, and each entry holds strings in form under    *)
(* the four keys alone, a code and a symbol among them.                    *)
StrictEntry(element) ==
  /\ element.kind = "object"
  /\ LET keys == {Key(element, i) : i \in DOMAIN element.written}
         valuesOf(key) == {element.written[i][2] : i \in {j \in DOMAIN element.written : Key(element, j) = key}}
     IN  /\ {"code", "symbol"} \subseteq keys /\ keys \subseteq Fields
         /\ \A key \in keys : \A v \in valuesOf(key) : v.kind = "string"
         /\ \A v \in valuesOf("code") : v.text \in Codes
         /\ \A v \in valuesOf("symbol") : v.text \in DOMAIN SchemeOf
         /\ \A v \in valuesOf("path") : v.text \in Paths \union {""}

ObjectsNameOnce(text) ==
  \A t \in Texts(text) : t.kind = "object" =>
    \A i, j \in DOMAIN t.written : t.written[i][1] = t.written[j][1] => i = j

StrictOutside(d) ==
  /\ ~ d.cut /\ ~ d.trailing
  /\ ObjectsNameOnce(d.text)
  /\ d.text.kind = "object"
  /\ \E i \in DOMAIN d.text.written :
       /\ Key(d.text, i) = Member /\ d.text.written[i][2].kind = "array"
       /\ \A j \in DOMAIN d.text.written : j # i =>
            Key(d.text, j) = "description" /\ d.text.written[j][2].kind = "string"

StrictDocument(d) ==
  d = None \/ (StrictOutside(d) /\ \A element \in ToSet(Elements(d.text)) : StrictEntry(element))

(* What an element writes for a field: a string, or None for no member of  *)
(* it and for null.                                                        *)
WrittenFor(element, field) ==
  LET values == {element.written[i][2] : i \in {j \in DOMAIN element.written :
                   Field(Key(element, j)) = field}}
  IN  {v.text : v \in {u \in values : u.kind = "string"}}
        \union (IF \A v \in values : v.kind # "null" THEN {} ELSE {None})
        \union (IF values = {} THEN {None} ELSE {})

(* An element refused in a document of its own. *)
Alone(element) ==
  [text |-> [kind |-> "object", written |-> <<<<Member, Arr(<<element>>)>>>>],
   trailing |-> FALSE, cut |-> FALSE]
RefusedAlone(element) == ReadDocument(Alone(element)).refused # None

EntryAsWritten(entry, element) ==
  /\ entry.code \in WrittenFor(element, "code") /\ entry.symbol \in WrittenFor(element, "symbol")
  /\ entry.path \in WrittenFor(element, "path") /\ entry.reason \in WrittenFor(element, "reason")

(* The two readings of a document meet.  None in the form suppression.md   *)
(* gives is refused.  Of one accepted no object anywhere names a member    *)
(* twice, whichever value the decoder would have chosen, and each element  *)
(* is one entry, at its own brace, whose four values the element itself    *)
(* writes.  Of one refused for an element, that element is the first that  *)
(* is refused in a document of its own, and the refusal names its brace;   *)
(* an element that is no object has none, and the refusal names an object  *)
(* after it (read.go:121 takes the i-th brace for the i-th element) or the *)
(* document.                                                               *)
ReadsAsWritten ==
  LET answer == ReadDocument(original)
      items  == Elements(original.text)
  IN  /\ StrictDocument(original) => answer.refused = None
      /\ answer.refused = None /\ original # None =>
           /\ ObjectsNameOnce(original.text)
           /\ DOMAIN answer.entries = DOMAIN items
           /\ \A i \in DOMAIN items :
                /\ items[i].kind = "object" /\ answer.entries[i].site = i
                /\ EntryAsWritten(answer.entries[i], items[i])
      /\ answer.refused # None /\ StrictOutside(original) =>
           \E i \in DOMAIN items :
             /\ RefusedAlone(items[i]) /\ \A j \in 1 .. i - 1 : ~ RefusedAlone(items[j])
             /\ IF items[i].kind = "object" THEN answer.refused = i
                ELSE answer.refused \in {Here} \union
                       {j \in DOMAIN items : j > i /\ items[j].kind = "object"}

(* The write ends, whatever the rounds answer. *)
WriteEnds == <>(stage \in {"written", "refused", "failed", "nameless"})

=============================================================================
