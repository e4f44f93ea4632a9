---------------------------- MODULE SchemaCompile ----------------------------
(***************************************************************************)
(* The compiler of the document package, src/document/schema.go: each      *)
(* schema once by its location, so that a $ref cycle resolves to the node  *)
(* being built.  The recursion at -> fill -> keyword -> at is a stack of   *)
(* calls: one frame per schema being filled, with the keywords it has left *)
(* and the locations the keyword in hand still compiles.                   *)
(*                                                                         *)
(* A location is a document and a pointer in it.  A node is a function of  *)
(* the keywords compiled so far; "false" is the keyword of a node nothing  *)
(* is an instance of.                                                      *)
(***************************************************************************)
EXTENDS JsonValues, FiniteSets

CONSTANTS
  Root,          \* the document Compile or CompileBytes is given
  FileSystems,   \* the file systems of Compile: a value for each name it can read
  Annotations,   \* the keywords a check reads nothing from, x- ones included
  Unparsable,    \* the strings that are no regular expression
  RefTarget      \* the file and pointer of each $ref, the file None inside a document

VARIABLES
  files,     \* the documents there are to read: for CompileBytes, its own alone
  docs,      \* the documents read so far
  built,     \* the node of each location met
  stack,     \* the calls under way, the last one on top
  outcome    \* "compiling", "compiled" or "refused"

compiling == <<files, docs, built, stack, outcome>>

(***************************************************************************)
(* stringList, canonicalList, count and number: a keyword's value as its   *)
(* node holds it, None where the schema cannot be compiled.                *)
(***************************************************************************)
IsString(v) == v.kind = "string"
StringList(v) ==
  CASE IsString(v) -> <<v.text>>
    [] v.kind = "array" /\ \A i \in DOMAIN v.items : IsString(v.items[i]) ->
         [i \in DOMAIN v.items |-> v.items[i].text]
    [] OTHER -> None
CanonicalList(v) ==
  IF v.kind = "array" THEN {Canonical(v.items[i]) : i \in DOMAIN v.items} ELSE None
Number(v) == IF v.kind = "number" THEN v.halves ELSE None
Count(v) ==
  IF HasType(v, "integer") /\ v.halves >= 0 THEN v.halves \div 2 ELSE None
Pattern(v) == IF IsString(v) /\ v.text \notin Unparsable THEN v.text ELSE None

(* keyword: the keywords whose value holds no schema. *)
Plain == {"type", "required", "enum", "const", "pattern", "minLength", "minProperties",
          "minItems", "maxItems", "minimum", "maximum", "uniqueItems"}
Read(keyword, v) ==
  CASE keyword \in {"type", "required"} -> StringList(v)
    [] keyword = "enum" -> CanonicalList(v)
    [] keyword = "const" -> Canonical(v)
    [] keyword = "pattern" -> Pattern(v)
    [] keyword \in {"minLength", "minProperties", "minItems", "maxItems"} -> Count(v)
    [] keyword \in {"minimum", "maximum"} -> Number(v)
    [] keyword = "uniqueItems" -> v = Bool(TRUE)

(***************************************************************************)
(* applicator: the locations a keyword's schemas are compiled at, in an    *)
(* order members leaves open and patternMembers and list fix, and what the *)
(* node holds of them.  A pattern that does not parse is no location.      *)
(***************************************************************************)
Single == {"additionalProperties", "propertyNames", "items", "not", "if", "then", "else"}
Lists == {"allOf", "anyOf", "oneOf"}
Applicators == Single \cup Lists \cup {"properties", "patternProperties", "$ref"}

Under(at, token) == <<at[1], Append(at[2], token)>>
Reference(at, v) ==
  LET target == RefTarget[v.text]
  IN  <<IF target.file = None THEN at[1] ELSE target.file, target.pointer>>

(* The shape each applicator's value must have. *)
Holds(keyword, v) ==
  CASE keyword \in Single -> TRUE
    [] keyword \in Lists -> v.kind = "array" /\ v.items # << >>
    [] keyword = "$ref" -> IsString(v)
    [] OTHER -> v.kind = "object"

(* What the node holds: locations by member name, by pattern, or in a list. *)
Applied(keyword, at, v) ==
  CASE keyword \in Single -> at
    [] keyword \in Lists -> [i \in DOMAIN v.items |-> Under(at, Index(i))]
    [] keyword = "properties" -> [name \in Names(v) |-> Under(at, name)]
    [] keyword = "patternProperties" -> [p \in Names(v) |-> Under(at, p)]
    [] keyword = "$ref" -> Reference(at, v)

(* The orders in which it calls for them. *)
Calls(keyword, at, v) ==
  CASE keyword \in Single -> {<<at>>}
    [] keyword \in Lists -> {Applied(keyword, at, v)}
    [] keyword = "properties" -> SetToSeqs({Under(at, name) : name \in Names(v)})
    [] keyword = "patternProperties" ->
         {[i \in DOMAIN Sorted(Names(v)) |->
             LET p == Sorted(Names(v))[i] IN IF p \in Unparsable THEN None ELSE Under(at, p)]}
    [] keyword = "$ref" -> {<<Reference(at, v)>>}

(* fill: the value must be an object or a boolean; its keywords by name. *)
IsSchema(v) == v.kind \in {"object", "boolean"}
(* Bug: a keyword the package does not evaluate is passed over. *)
KeywordsKnown(v) == Sorted(Names(v) \cap (Plain \cup Applicators))
Keywords(v) == Sorted(Names(v) \ Annotations)
Opened(v) == IF v = Bool(FALSE) THEN [k \in {"false"} |-> TRUE] ELSE << >>

---------------------------------------------------------------------------
Frame(at, keywords, calls) == [at |-> at, keywords |-> keywords, calls |-> calls]
Init ==
  /\ \/ files \in FileSystems /\ docs = {}
     \/ \E fs \in FileSystems : files = [doc \in {Root} |-> fs[doc]] /\ docs = {Root}
  /\ built = << >>
  /\ stack = <<Frame(None, << >>, <<<<Root, << >>>>>>)>>
  /\ outcome = "compiling"

Top == stack[Len(stack)]
Below == SubSeq(stack, 1, Len(stack) - 1)
Called == Head(Top.calls)
Returned == Append(Below, [Top EXCEPT !.calls = Tail(@)])
Calling == outcome = "compiling" /\ Top.calls # << >>

(* What document and resolvePointer give for the location called. *)
Raw(at) == IF at[1] \in DOMAIN files THEN ResolvePointer(files[at[1]], at[2]) ELSE None
IsReadable(at) == at # None /\ Raw(at) # None /\ IsSchema(Raw(at))

(* Bug: a node being built is not returned before it is whole. *)
CallBuiltWhole ==
  /\ Calling /\ Called \in DOMAIN built /\ \A i \in DOMAIN stack : stack[i].at # Called
  /\ stack' = Returned
  /\ UNCHANGED <<files, docs, built, outcome>>

(* at: the location is built, or being built, and the call returns its node. *)
CallBuilt ==
  /\ Calling /\ Called \in DOMAIN built
  /\ stack' = Returned
  /\ UNCHANGED <<files, docs, built, outcome>>

(* at: the location is met first: its node is held before it is filled. *)
CallNew ==
  /\ Calling /\ Called \notin DOMAIN built /\ IsReadable(Called)
  /\ docs' = docs \cup {Called[1]}
  /\ built' = built @@ (Called :> Opened(Raw(Called)))
  /\ stack' = Append(Returned, Frame(Called, Keywords(Raw(Called)), << >>))
  /\ UNCHANGED <<files, outcome>>

(* at, fill: no document, no value there, or one that is no schema. *)
CallRefused ==
  /\ Calling /\ Called \notin DOMAIN built /\ ~IsReadable(Called)
  /\ docs' = IF Called = None THEN docs ELSE docs \cup ({Called[1]} \cap DOMAIN files)
  /\ outcome' = "refused"
  /\ UNCHANGED <<files, built, stack>>

Filling == outcome = "compiling" /\ Top.calls = << >> /\ Top.keywords # << >>
Keyword == Head(Top.keywords)
Location == Under(Top.at, Keyword)
Value == Raw(Top.at).members[Keyword]
Advanced(calls) == Append(Below, Frame(Top.at, Tail(Top.keywords), calls))
Filled(holds) == [built EXCEPT ![Top.at] = (Keyword :> holds) @@ @]

(* keyword: its value is read, or ends the compilation. *)
ReadKeyword ==
  /\ Filling /\ Keyword \in Plain
  /\ IF Read(Keyword, Value) = None
     THEN outcome' = "refused" /\ UNCHANGED <<built, stack>>
     ELSE /\ built' = Filled(Read(Keyword, Value))
          /\ stack' = Advanced(<< >>)
          /\ UNCHANGED outcome
  /\ UNCHANGED <<files, docs>>

(* applicator: its schemas are called for, each before the next keyword. *)
ApplyKeyword ==
  /\ Filling /\ Keyword \in Applicators /\ Holds(Keyword, Value)
  /\ built' = Filled(Applied(Keyword, Location, Value))
  /\ \E calls \in Calls(Keyword, Location, Value) : stack' = Advanced(calls)
  /\ UNCHANGED <<files, docs, outcome>>

(* applicator: a value of another shape, or a keyword it does not evaluate. *)
RefuseKeyword ==
  /\ Filling /\ Keyword \notin Plain
  /\ Keyword \in Applicators => ~Holds(Keyword, Value)
  /\ outcome' = "refused"
  /\ UNCHANGED <<files, docs, built, stack>>

(* fill returns; the call of Compile or CompileBytes ends the compilation. *)
Return ==
  /\ outcome = "compiling" /\ Top.calls = << >> /\ Top.keywords = << >>
  /\ IF Len(stack) > 1 THEN stack' = Below /\ UNCHANGED outcome
                       ELSE outcome' = "compiled" /\ UNCHANGED stack
  /\ UNCHANGED <<files, docs, built>>

Compile ==
  \/ CallBuilt \/ CallNew \/ CallRefused
  \/ ReadKeyword \/ ApplyKeyword \/ RefuseKeyword \/ Return

---------------------------------------------------------------------------
(* The locations one schema names, by its keywords whatever their order. *)
Named(at) ==
  UNION {LET v == Raw(at).members[keyword] IN
         IF Holds(keyword, v) THEN UNION {Range(calls) : calls \in Calls(keyword, Under(at, keyword), v)} ELSE {} :
         keyword \in (Names(Raw(at)) \ Annotations) \cap Applicators}

(* Every location a compilation may meet, from the root on. *)
RECURSIVE Reached(_)
Reached(met) ==
  LET next == met \cup UNION {Named(at) : at \in {m \in met : IsReadable(m)}}
  IN  IF next = met THEN met ELSE Reached(next)
Reachable == Reached({<<Root, << >>>>})

(* One schema compiles alone: each keyword known, each value of its shape. *)
Compiles(at) ==
  /\ IsReadable(at)
  /\ \A keyword \in Names(Raw(at)) \ Annotations :
       LET v == Raw(at).members[keyword]
       IN  \/ keyword \in Plain /\ Read(keyword, v) # None
           \/ keyword \in Applicators /\ Holds(keyword, v)

(* Compiling ends, a $ref cycle included, and never holds one location's  *)
(* schema in two nodes at once; it holds when every schema the root        *)
(* reaches compiles, then with a node for each of them and for no other,  *)
(* each read whole.  This is the memo of compiler.at, schema.go:138.       *)
CompiledWhole ==
  /\ \A i, j \in DOMAIN stack : i # j => stack[i].at # stack[j].at
  /\ outcome = "compiled" => /\ \A at \in Reachable : Compiles(at)
                             /\ DOMAIN built = Reachable
                             /\ \A at \in Reachable : DOMAIN built[at] \ {"false"} = Names(Raw(at)) \ Annotations
                             /\ docs = {at[1] : at \in Reachable}
  /\ outcome = "refused" => \E at \in Reachable : ~Compiles(at)

CompileEnds == <>(outcome # "compiling")
=============================================================================
