----------------------------- MODULE SchemaCheck -----------------------------
(***************************************************************************)
(* What a compiled schema refuses in a value, and the refusal a reader     *)
(* fixes first: src/document/check.go, first.go, key.go and document.go.   *)
(* A refusal is its keyword, its place, the member it is about, and for a  *)
(* oneOf no alternative matches, the alternatives.                         *)
(***************************************************************************)
EXTENDS SchemaCompile

CONSTANTS
  Texts,      \* the documents read, by name: a text and whether data follows it
  Matches,    \* the strings each regular expression matches
  Letters     \* the characters of each string, in order

VARIABLE answer   \* the last document's: its text, value and refusals

vars == <<files, docs, built, stack, outcome, answer>>

Refusal(keyword, at) == [keyword |-> keyword, at |-> at, member |-> None, oneOf |-> << >>]
About(keyword, at, name) == [Refusal(keyword, at) EXCEPT !.member = name]
If(refused, refusal) == IF refused THEN <<refusal>> ELSE << >>
Joined(parts) == FlattenSeq(parts)

Node(n) == built[n]
Has(n, keyword) == keyword \in DOMAIN Node(n)
Types(n) == IF Has(n, "type") THEN Node(n)["type"] ELSE << >>
Branches(n, keyword) == IF Has(n, keyword) THEN Node(n)[keyword] ELSE << >>
Admits(n, v) == Types(n) = << >> \/ HasAnyType(v, Types(n))
MatchesPattern(pattern, text) == text \in Matches[pattern]

---------------------------------------------------------------------------
CheckScalar(n, v, at) ==
  LET over(keyword, kind, Refuses(_)) ==
        If(Has(n, keyword) /\ v.kind = kind /\ Refuses(Node(n)[keyword]), Refusal(keyword, at))
  IN  Joined(<<If(Has(n, "enum") /\ Canonical(v) \notin Node(n)["enum"], Refusal("enum", at)),
               If(Has(n, "const") /\ Canonical(v) # Node(n)["const"], Refusal("const", at)),
               over("pattern", "string", LAMBDA p : ~MatchesPattern(p, v.text)),
               over("minLength", "string", LAMBDA least : Len(Letters[v.text]) < least),
               over("minimum", "number", LAMBDA least : v.halves < least),
               over("maximum", "number", LAMBDA most : v.halves > most)>>)

(* checkCount and uniqueItems, after the items. *)
CheckCount(n, v, at) ==
  Joined(<<If(Has(n, "minItems") /\ Len(v.items) < Node(n)["minItems"], Refusal("minItems", at)),
           If(Has(n, "maxItems") /\ Len(v.items) > Node(n)["maxItems"], Refusal("maxItems", at)),
           If(/\ Has(n, "uniqueItems") /\ Node(n)["uniqueItems"]
              /\ \E i, j \in DOMAIN v.items : i < j /\ Canonical(v.items[i]) = Canonical(v.items[j]),
              Refusal("uniqueItems", at))>>)

RECURSIVE Check(_, _, _)
IsInstance(n, v, at) == Check(n, v, at) = << >>
Matching(list, v, at) == {i \in DOMAIN list : IsInstance(list[i], v, at)}

(* Bug: a member only patternProperties names counts as undeclared. *)
CheckMemberDeclared(n, name, v, at) ==
  IF Has(n, "properties") /\ name \in DOMAIN Node(n)["properties"]
  THEN Check(Node(n)["properties"][name], v, Append(at, name))
  ELSE IF Has(n, "additionalProperties") THEN Check(Node(n)["additionalProperties"], v, Append(at, name))
  ELSE << >>

(* checkMember: the schemas that apply to a member, or the refusal of one   *)
(* the schema does not declare, which is about the object.                 *)
CheckMember(n, name, v, at) ==
  LET declared == IF Has(n, "properties") /\ name \in DOMAIN Node(n)["properties"]
                  THEN <<Node(n)["properties"][name]>> ELSE << >>
      patterns == IF Has(n, "patternProperties")
                  THEN LET by == Node(n)["patternProperties"]
                           held == Sorted({p \in DOMAIN by : MatchesPattern(p, name)})
                       IN  [i \in DOMAIN held |-> by[held[i]]]
                  ELSE << >>
      applied == declared \o patterns
  IN  IF applied = << >> /\ Has(n, "additionalProperties")
      THEN IF Has(Node(n)["additionalProperties"], "false")
           THEN <<About("additionalProperties", at, name)>>
           ELSE Check(Node(n)["additionalProperties"], v, Append(at, name))
      ELSE FlattenSeq([i \in DOMAIN applied |-> Check(applied[i], v, Append(at, name))])

CheckName(n, name, at) ==
  If(Has(n, "propertyNames") /\ ~IsInstance(Node(n)["propertyNames"], Str(name), at),
     About("propertyNames", at, name))

CheckObject(n, v, at) ==
  LET names == Sorted(Names(v))
      absent == IF Has(n, "required")
                THEN SelectSeq(Node(n)["required"], LAMBDA name : name \notin Names(v)) ELSE << >>
  IN  Joined(<<FlattenSeq([i \in DOMAIN names |->
                 CheckName(n, names[i], at) \o CheckMember(n, names[i], v.members[names[i]], at)]),
               [i \in DOMAIN absent |-> About("required", at, absent[i])],
               If(Has(n, "minProperties") /\ Cardinality(Names(v)) < Node(n)["minProperties"],
                  Refusal("minProperties", at))>>)

CheckArray(n, v, at) ==
  (IF Has(n, "items")
   THEN FlattenSeq([i \in DOMAIN v.items |-> Check(Node(n)["items"], v.items[i], Append(at, Index(i)))])
   ELSE << >>)
  \o CheckCount(n, v, at)

(* The branch an if takes, none where it names none. *)
Branch(n, v, at) ==
  IF ~Has(n, "if") THEN << >>
  ELSE LET taken == IF IsInstance(Node(n)["if"], v, at) THEN "then" ELSE "else"
       IN  IF Has(n, taken) THEN <<Node(n)[taken]>> ELSE << >>

(* checkApplicators: a failed anyOf, oneOf or not is one refusal of its own. *)
CheckApplicators(n, v, at) ==
  LET all(list) == FlattenSeq([i \in DOMAIN list |-> Check(list[i], v, at)])
      matched == Matching(Branches(n, "oneOf"), v, at)
      alternatives == IF matched = {} THEN Branches(n, "oneOf") ELSE << >>
  IN  Joined(<<all(Branches(n, "allOf")),
               If(Has(n, "anyOf") /\ Matching(Node(n)["anyOf"], v, at) = {}, Refusal("anyOf", at)),
               If(Has(n, "oneOf") /\ Cardinality(matched) # 1,
                  [Refusal("oneOf", at) EXCEPT !.oneOf = alternatives]),
               If(Has(n, "not") /\ IsInstance(Node(n)["not"], v, at), Refusal("not", at)),
               all(Branch(n, v, at))>>)

Check(n, v, at) ==
  (IF Has(n, "$ref") THEN Check(Node(n)["$ref"], v, at) ELSE << >>)
  \o (IF Has(n, "false") THEN <<Refusal("false", at)>>
      ELSE IF ~Admits(n, v) THEN <<Refusal("type", at)>>
      ELSE Joined(<<CheckScalar(n, v, at),
                    IF v.kind = "object" THEN CheckObject(n, v, at) ELSE << >>,
                    IF v.kind = "array" THEN CheckArray(n, v, at) ELSE << >>,
                    CheckApplicators(n, v, at)>>))

---------------------------------------------------------------------------
(* before and rank: an object's refusal before any inside it, at one place *)
(* an undeclared member, then a missing one, then any other.               *)
Rank(e) == CASE e.keyword \in {"additionalProperties", "propertyNames"} -> 0
             [] e.keyword = "required" -> 1
             [] OTHER -> 2
Before(a, b) ==
  IF a.at = b.at THEN Rank(a) < Rank(b) ELSE IsStrictPrefix(a.at, b.at)

(* applied: the nodes checked with n at one place. *)
RECURSIVE AppliedWith(_, _)
AppliedWith(n, v) ==
  LET nodes(list) == UNION {AppliedWith(list[i], v) : i \in DOMAIN list}
  IN  {n} \cup (IF Has(n, "$ref") THEN AppliedWith(Node(n)["$ref"], v) ELSE {})
          \cup nodes(Branches(n, "allOf")) \cup nodes(Branch(n, v, << >>))

Declared(alternative, v) ==
  UNION {DOMAIN Node(n)["properties"] : n \in {n \in AppliedWith(alternative, v) : Has(n, "properties")}}

(* declares: of the members an alternative declares, those v has, and all. *)
Counted(names, v) == [named |-> Cardinality(names \cap Names(v)), all |-> Cardinality(names)]
Counts(alternatives, v) == [i \in DOMAIN alternatives |-> Counted(Declared(alternatives[i], v), v)]
Better(a, b) == a.named > b.named \/ (a.named = b.named /\ a.all < b.all)

(* Bug: the first of several declaring as much is kept alone. *)
MostDeclaringFirst(alternatives, counts) ==
  LET best == FoldLeft(LAMBDA kept, i : IF kept = << >> \/ counts[i].named > counts[kept[1]].named THEN <<i>> ELSE kept,
                       << >>, [i \in DOMAIN counts |-> i])
  IN  [i \in DOMAIN best |-> alternatives[best[i]]]

(* mostDeclaring: one pass, keeping the best so far. *)
MostDeclaring(alternatives, counts) ==
  LET best == FoldLeft(LAMBDA kept, i :
                         IF kept = << >> \/ Better(counts[i], counts[kept[1]]) THEN <<i>>
                         ELSE IF Better(counts[kept[1]], counts[i]) THEN kept ELSE Append(kept, i),
                       << >>, [i \in DOMAIN counts |-> i])
  IN  [i \in DOMAIN best |-> alternatives[best[i]]]

(* closest: the alternative v was written for, none where two remain. *)
Closest(alternatives, v) ==
  LET typed == SelectSeq(alternatives, LAMBDA a : \A n \in AppliedWith(a, v) : Admits(n, v))
      kept == IF Len(typed) = 1 \/ v.kind # "object" THEN typed ELSE MostDeclaring(typed, Counts(typed, v))
  IN  IF Len(kept) = 1 THEN kept ELSE << >>

RECURSIVE First(_, _, _)
First(n, v, at) ==
  LET found == Check(n, v, at)
      first == FoldLeft(LAMBDA kept, e : IF Before(e, kept) THEN e ELSE kept, found[1], found)
      held == ResolvePointer(v, SubSeq(first.at, Len(at) + 1, Len(first.at)))
      alternative == Closest(first.oneOf, held)
      inner == First(alternative[1], held, first.at)
  IN  IF found = << >> THEN None
      ELSE IF first.oneOf = << >> \/ alternative = << >> THEN first
      ELSE IF inner = None THEN first ELSE inner

(***************************************************************************)
(* Key: the place of a refusal as a reader writes it, one string: an index *)
(* in brackets where the value there is an array, a member after a full    *)
(* stop where anything precedes it.  Names are written as they are spelled,*)
(* whatever characters they hold.                                          *)
(***************************************************************************)
(* Bug: a full stop only after a key that spells something. *)
JoiningWritten(key, started, name) == (IF key # << >> THEN Append(key, ".") ELSE key) \o Letters[name]
Joining(key, started, name) == (IF started THEN Append(key, ".") ELSE key) \o Letters[name]
KeyOf(e, under, v) ==
  LET held(i) == ResolvePointer(v, SubSeq(e.at, 1, i - 1))
      walked ==
        FoldLeft(LAMBDA key, i :
                   IF held(i) # None /\ held(i).kind = "array"
                   THEN key \o <<"[">> \o Letters[e.at[i]] \o <<"]">>
                   ELSE Joining(key, under # << >> \/ i > 1, e.at[i]),
                 under, [i \in DOMAIN e.at |-> i])
  IN  IF e.keyword \in {"required", "additionalProperties", "propertyNames"}
      THEN Joining(walked, under # << >> \/ e.at # << >>, e.member) ELSE walked

---------------------------------------------------------------------------
NoAnswer == [text |-> None, value |-> None, malformed |-> None, found |-> << >>, first |-> None]

SchemaInit == Init /\ answer = NoAnswer
RootNode == <<Root, << >>>>

(* Unmarshal: a text that is no strict value is refused as malformed, one   *)
(* the schema refuses as its first refusal.                                *)
Unmarshal ==
  /\ outcome = "compiled" /\ answer = NoAnswer
  /\ \E name \in DOMAIN Texts :
       LET decoded == Decode(Texts[name])
       IN  answer' = IF decoded.refused # None
                     THEN [NoAnswer EXCEPT !.text = name, !.malformed = decoded.refused]
                     ELSE [text |-> name, value |-> decoded.value, malformed |-> None,
                           found |-> Check(RootNode, decoded.value, << >>),
                           first |-> First(RootNode, decoded.value, << >>)]
  /\ UNCHANGED compiling

SchemaNext == (Compile /\ UNCHANGED answer) \/ Unmarshal
SchemaSpec == SchemaInit /\ [][SchemaNext]_vars /\ WF_compiling(Compile)

---------------------------------------------------------------------------
(***************************************************************************)
(* What the keywords mean, from the schema documents themselves: no node,  *)
(* no order, no early return.                                              *)
(***************************************************************************)
RECURSIVE Satisfies(_, _)
KeywordOf(at, keyword) == Raw(at).members[keyword]
Target(at, keyword) == Under(at, keyword)
Declares(at, name) ==
  \/ "properties" \in Names(Raw(at)) /\ name \in Names(KeywordOf(at, "properties"))
  \/ "patternProperties" \in Names(Raw(at)) /\ \E p \in Names(KeywordOf(at, "patternProperties")) : MatchesPattern(p, name)
Satisfied(at, keyword, v) ==
  {i \in DOMAIN KeywordOf(at, keyword).items : Satisfies(Under(Target(at, keyword), Index(i)), v)}

MeetsObject(at, k, value, v) ==
  CASE k = "required" -> Range(StringList(value)) \subseteq Names(v)
    [] k = "minProperties" -> Cardinality(Names(v)) >= Count(value)
    [] k = "propertyNames" -> \A name \in Names(v) : Satisfies(Target(at, k), Str(name))
    [] k = "properties" ->
         \A name \in Names(v) \cap Names(value) : Satisfies(Under(Target(at, k), name), v.members[name])
    [] k = "patternProperties" ->
         \A p \in Names(value), name \in Names(v) :
           MatchesPattern(p, name) => Satisfies(Under(Target(at, k), p), v.members[name])
    [] k = "additionalProperties" ->
         \A name \in Names(v) : Declares(at, name) \/ Satisfies(Target(at, k), v.members[name])

MeetsArray(at, k, value, v) ==
  CASE k = "items" -> \A i \in DOMAIN v.items : Satisfies(Target(at, k), v.items[i])
    [] k = "minItems" -> Len(v.items) >= Count(value)
    [] k = "maxItems" -> Len(v.items) <= Count(value)
    [] k = "uniqueItems" -> value = Bool(TRUE) => Cardinality(Range(v.items)) = Len(v.items)

Meets(at, k, value, v) ==
  CASE k \in {"required", "minProperties", "propertyNames", "properties", "patternProperties", "additionalProperties"} ->
         v.kind = "object" => MeetsObject(at, k, value, v)
    [] k \in {"items", "minItems", "maxItems", "uniqueItems"} -> v.kind = "array" => MeetsArray(at, k, value, v)
    [] k = "type" -> \E i \in DOMAIN StringList(value) : HasType(v, StringList(value)[i])
    [] k = "enum" -> Contains(value.items, v)
    [] k = "const" -> v = value
    [] k = "pattern" -> v.kind = "string" => MatchesPattern(value.text, v.text)
    [] k = "minLength" -> v.kind = "string" => Len(Letters[v.text]) >= Count(value)
    [] k = "minimum" -> v.kind = "number" => v.halves >= value.halves
    [] k = "maximum" -> v.kind = "number" => v.halves <= value.halves
    [] k = "$ref" -> Satisfies(Reference(at, value), v)
    [] k = "allOf" -> Satisfied(at, k, v) = DOMAIN value.items
    [] k = "anyOf" -> Satisfied(at, k, v) # {}
    [] k = "oneOf" -> Cardinality(Satisfied(at, k, v)) = 1
    [] k = "not" -> ~Satisfies(Target(at, k), v)
    [] k = "if" -> LET taken == IF Satisfies(Target(at, k), v) THEN "then" ELSE "else"
                   IN  taken \in Names(Raw(at)) => Satisfies(Target(at, taken), v)
    [] k \in {"then", "else"} -> TRUE

Satisfies(at, v) ==
  IF Raw(at).kind = "boolean" THEN Raw(at).holds
  ELSE \A k \in Names(Raw(at)) \ Annotations : Meets(at, k, KeywordOf(at, k), v)

---------------------------------------------------------------------------
Answered == answer.text # None /\ answer.malformed = None

(* CheckValue returns nothing, and FirstRefusal nil, exactly for the        *)
(* instances of the schema, however its documents share, order and nest    *)
(* the keywords: "none means v is an instance", document.go:43.            *)
SilentOnInstances ==
  Answered => /\ (answer.found = << >>) = Satisfies(RootNode, answer.value)
              /\ (answer.first = None) = (answer.found = << >>)

(* The alternatives whose every type constraint admits v, and of those no   *)
(* other one declares more of its members, or as many and fewer in all.    *)
MostNamed(typed, declared, held) ==
  {i \in typed : \A j \in typed :
     LET more == Cardinality(declared[i] \cap held) - Cardinality(declared[j] \cap held)
     IN  more > 0 \/ (more = 0 /\ Cardinality(declared[i]) <= Cardinality(declared[j]))}
WrittenFor(alternatives, v) ==
  LET applied == [i \in DOMAIN alternatives |-> AppliedWith(alternatives[i], v)]
      typed == {i \in DOMAIN alternatives : \A n \in applied[i] : Admits(n, v)}
  IN  IF v.kind = "object"
      THEN MostNamed(typed, [i \in typed |-> Declared(alternatives[i], v)], Names(v)) ELSE typed

(* e, one of the refusals found, is one no other has to be fixed before.    *)
Outermost(e, found) ==
  /\ e \in Range(found)
  /\ \A other \in Range(found) : /\ ~IsStrictPrefix(other.at, e.at)
                                 /\ (other.at = e.at => Rank(e) <= Rank(other))

(* The refusal a reader fixes first lies inside no other; where it is that  *)
(* of a oneOf no alternative matches, and one alternative alone is the one  *)
(* the value was written for, it is the first refusal of that alternative, *)
(* and otherwise the oneOf's own: first.go:8.                              *)
RECURSIVE FixedFirst(_, _, _, _)
FixedFirst(e, found, v, at) ==
  \E outer \in {o \in Range(found) : Outermost(o, found)} :
    LET held == ResolvePointer(v, SubSeq(outer.at, Len(at) + 1, Len(outer.at)))
        for == WrittenFor(outer.oneOf, held)
    IN  IF outer.oneOf # << >> /\ Cardinality(for) = 1
        THEN \E i \in for : FixedFirst(e, Check(outer.oneOf[i], held, outer.at), held, outer.at)
        ELSE e = outer
OutermostComesFirst ==
  Answered /\ answer.first # None => FixedFirst(answer.first, answer.found, answer.value, << >>)

(* Every place and every member a refusal can be about, in one value.       *)
RECURSIVE Places(_)
Places(v) ==
  {<< >>} \cup UNION {{<<name>> \o p : p \in Places(v.members[name])} : name \in Names(v)}
         \cup (IF v.kind = "array" THEN UNION {{<<Index(i)>> \o p : p \in Places(v.items[i])} : i \in DOMAIN v.items}
               ELSE {})
Refusable(v) ==
  LET objects == {p \in Places(v) : ResolvePointer(v, p).kind = "object"}
      names == {"", "b"} \cup UNION {Names(ResolvePointer(v, p)) : p \in objects}
  IN  {Refusal("type", at) : at \in Places(v)} \cup {About("required", at, name) : at \in objects, name \in names}

(* The steps to what a refusal is about: each a name, or an index of an     *)
(* array.                                                                  *)
StepsTo(e, v) ==
  [i \in DOMAIN e.at |-> <<e.at[i], ResolvePointer(v, SubSeq(e.at, 1, i - 1)).kind = "array">>]
  \o (IF e.member = None THEN << >> ELSE << <<e.member, FALSE>> >>)

(* A place whose names hold none of the characters the key writes itself.   *)
(* The member named "" of the whole document spells nothing, so only a name *)
(* after it shows that it was there.                                       *)
Legible(steps) ==
  /\ \A i \in DOMAIN steps : Range(Letters[steps[i][1]]) \cap {".", "["} = {}
  /\ steps # << >> /\ steps[1] = <<"", FALSE>> => Len(steps) > 1 /\ ~steps[2][2]
LegibleKeys(v) == {told \in {<<KeyOf(e, << >>, v), StepsTo(e, v)>> : e \in Refusable(v)} : Legible(told[2])}
LegibleAnywhere ==
  UNION {LegibleKeys(d.value) : d \in {d \in {Decode(Texts[name]) : name \in DOMAIN Texts} : d.refused = None}}

(* A key is read without the value it was found in: two refusals of any two *)
(* documents that share a key are about one place, every step of it a name  *)
(* in both or an index in both (key.go:5, "so the member named 1 spells .1  *)
(* and never [1]", "never names the key a.b"), where the names on the way   *)
(* are Legible.  A member named a.b and the member b of a do share a key.   *)
KeysTellPlacesApart ==
  Answered => \A a \in LegibleKeys(answer.value), b \in LegibleAnywhere : a[1] = b[1] => a[2] = b[2]
=============================================================================
