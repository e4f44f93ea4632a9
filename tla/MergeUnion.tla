----------------------------- MODULE MergeUnion -----------------------------
(***************************************************************************)
(* The component union that ends step 4 of the merge (unionComponents and  *)
(* unpromoted of merge_reference_test.go and its bindings file): each time *)
(* MergeResolve has promoted under one minimum, the promoted findings are  *)
(* taken in canonical order, the component of each joined to those of its  *)
(* edges, its bindings and its carriers; and every finding of a joined     *)
(* component takes the identifier that survives, its counts and its        *)
(* confidence.                                                             *)
(*                                                                         *)
(* The parents of the code are the surviving identifier of each component, *)
(* which is what find returns.  The components one finding joins are       *)
(* joined in any order.                                                    *)
(***************************************************************************)
EXTENDS MergeResolve

CONSTANTS
  Fallen,   \* the findings of the reports that name a component, by component
  About     \* of each finding: its lines, and its class, root and test_only as written

VARIABLES
  left,      \* the promotions the union has still to visit
  joined,    \* the components reached, in order, and the identifier each goes by
  rewritten, \* the findings have been rewritten
  written    \* what they were rewritten to, by finding

union == <<left, joined, rewritten, written>>
NoUnion == [reached |-> << >>, survivor |-> [c \in {} |-> c]]

-----------------------------------------------------------------------------
(* A promotion's records in reading order, the schema records first, and   *)
(* whether the record carries the finding beside its own.                  *)
InOrder(records) ==
  SetToSortSeq(records, LAMBDA i, j : IF Record(i).role = Record(j).role THEN i < j ELSE Record(i).role = "schema")
IsCarried(i, key) == key # Record(i).key
CarriedFirst(p) == p.records # {} /\ IsCarried(Head(InOrder(p.records)), p.key)

ComponentOf(p) ==
  IF p.evaluations # {} THEN world.evaluations[Min(p.evaluations)].component
                        ELSE Record(Head(InOrder(p.records))).component
PromotedIds == {ComponentOf(p) : p \in promoted}
ClassOf(p) ==
  IF p.evaluations # {} \/ CarriedFirst(p) THEN About[p.key].class
  ELSE LET r == Record(Head(InOrder(p.records)))
       IN  IF r.role = "schema" THEN PromotedClass(world, r) ELSE r.class

(* joins: what a record's own finding joins beside its edges. *)
Containers(s) ==
  {i \in Dead(world, "schema") :
     s.schema \in Record(i).members /\ SameSchemaFile(Record(i).file, s.file)}
ViaImplementers(s) ==
  LET unread == {i \in Bindings(world, s) : Record(i).via # {} /\ ~ ReadsLive(world, Record(i), dropped)}
  IN  UNION {Implementer(world, Record(i).analyzer, name) :
               <<i, name>> \in {b \in unread \X UNION {Record(i).via : i \in unread} : b[2] \in Record(b[1]).via}}
RecordsJoined(i) ==
  LET r == Record(i)
      found == IF r.role = "implementer" THEN SchemaRecords(world, r.schema, r.file)
               ELSE ViaImplementers(r) \union Containers(r)
  IN  {j \in found : Record(j).state = "dead"}
BindingJoins(p) ==
  {Record(i).component : i \in {i \in p.records : IsCarried(i, p.key)}}
  \union ({Record(j).component : j \in UNION {RecordsJoined(i) : i \in {i \in p.records : ~ IsCarried(i, p.key)}}}
          \intersect PromotedIds)
IsMember(p) ==
  \E i \in p.records : /\ ~ IsCarried(i, p.key) /\ Record(i).role = "schema"
                       /\ \E j \in Containers(Record(i)) : Record(j).component \in PromotedIds

Paired(f, g) ==
  \E i \in f.evaluations, j \in g.evaluations : j \in OtherSides(world, world.evaluations[i])
Others(p) == BindingJoins(p) \union {ComponentOf(g) : g \in {g \in promoted : Paired(p, g)}}

-----------------------------------------------------------------------------
Reach(u, id) ==
  IF id \in DOMAIN u.survivor THEN u
  ELSE [reached |-> Append(u.reached, id), survivor |-> u.survivor @@ (id :> id)]

Earlier(u, a, b) ==
  Head(SelectSeq(u.reached, LAMBDA c : c \in {a, b}))

(* Bug: what the other component was joined to before is left behind.      *)
UniteAlone(u, id, other) ==
  LET r == Reach(u, other)
  IN  [r EXCEPT !.survivor[other] = Earlier(r, r.survivor[id], r.survivor[other])]

Unite(u, id, other) ==
  LET r == Reach(u, other)
      ends == {r.survivor[id], r.survivor[other]}
      first == Earlier(r, r.survivor[id], r.survivor[other])
  IN  [r EXCEPT !.survivor = [c \in DOMAIN @ |-> IF @[c] \in ends THEN first ELSE @[c]]]

(* One promoted finding's turn. *)
Join(p) ==
  /\ phase = "count" /\ \A q \in left : p.key <= q.key
  /\ \E others \in SetToSeqs(Others(p)) :
       joined' = FoldLeft(LAMBDA u, other : Unite(u, ComponentOf(p), other), Reach(joined, ComponentOf(p)), others)
  /\ left' = left \ {p}
  /\ UNCHANGED <<vars, rewritten, written>>

-----------------------------------------------------------------------------
(* What an analyzer counted under a component: each of its findings once.  *)
KeysIn(c) ==
  (IF c \in DOMAIN Fallen THEN Fallen[c] ELSE {})
  \union {Key(i) : i \in {i \in DeadEvaluations(world) : world.evaluations[i].component = c}}
  \union UNION {KeysOf(world, i) : i \in {i \in Carrying(world) : Record(i).component = c}}
Lines(keys) == UNION {About[k].lines : k \in keys}
LineCount(keys) == Cardinality(Lines(keys))

(* The findings the step returns, by component: the reports' and its own.  *)
HeldIn(c) == IF c \in DOMAIN Fallen /\ c \notin dropped THEN Fallen[c] ELSE {}
FindingsIn(c) == HeldIn(c) \union {p.key : p \in {p \in promoted : ComponentOf(p) = c}}
Named == {c \in DOMAIN Fallen \union PromotedIds : FindingsIn(c) # {}}

Class(survivor) == {c \in DOMAIN joined.survivor : joined.survivor[c] = survivor}
Blocked(c) == IF c \in dropped THEN {} ELSE KeysIn(c) \intersect blocked

(* Promotions two of a joined component's records carry from two components. *)
Sharing(p) == {Record(i).component : i \in p.records}
Shared(survivor) ==
  {p \in promoted : CarriedFirst(p) /\ Cardinality(Sharing(p)) > 1
                    /\ joined.survivor[ComponentOf(p)] = survivor}

(* Bug: a finding several components carry is counted in each of them.     *)
SymbolsSummed(survivor) ==
  MapThenSumSet(LAMBDA c : (IF c \in Named THEN Cardinality(KeysIn(c)) ELSE 0) - Cardinality(Blocked(c)), Class(survivor))

Symbols(survivor) ==
  MapThenSumSet(LAMBDA c : (IF c \in Named THEN Cardinality(KeysIn(c)) ELSE 0) - Cardinality(Blocked(c)), Class(survivor))
  - MapThenSumSet(LAMBDA p : Cardinality(Sharing(p)) - 1, Shared(survivor))

DeletableLines(survivor) ==
  LET shares(c) == {p.key : p \in {p \in Shared(survivor) : c \in Sharing(p)}}
      sharing == UNION {Sharing(p) : p \in Shared(survivor)}
  IN  MapThenSumSet(LAMBDA c : (IF c \in Named THEN LineCount(KeysIn(c)) ELSE 0)
                                 - (LineCount(KeysIn(c)) - LineCount(KeysIn(c) \ Blocked(c))), Class(survivor))
      - MapThenSumSet(LAMBDA c : LineCount(shares(c)), sharing)
      + LineCount({p.key : p \in Shared(survivor)})

(* Each finding as the step found it, by key and component. *)
Finding(key, c, class, root) == [key |-> key, component |-> c, class |-> class, root |-> root]
Findings ==
  {Finding(p.key, ComponentOf(p), ClassOf(p),
           ~ IsMember(p) /\ (IF p.evaluations # {} THEN About[p.key].root ELSE ~ CarriedFirst(p))) : p \in promoted}
  \union UNION {{Finding(k, c, About[k].class, About[k].root) : k \in HeldIn(c)} : c \in DOMAIN Fallen}
Roots(survivor) ==
  {f \in Findings : f.component \in Class(survivor) /\ f.root /\ ~ About[f.key].testOnly}

Rewrite(f) ==
  LET survivor == joined.survivor[f.component]
  IN  IF f.component \notin DOMAIN joined.survivor
      THEN f @@ [symbols |-> Cardinality(KeysIn(f.component)), lines |-> LineCount(KeysIn(f.component))]
      ELSE [key |-> f.key, component |-> survivor, root |-> f.root,
            class |-> Max({f.class} \union {r.class : r \in Roots(survivor)}),
            symbols |-> Symbols(survivor), lines |-> DeletableLines(survivor)]

RewriteFindings ==
  /\ phase = "count" /\ left = {} /\ ~ rewritten
  /\ rewritten' = TRUE
  /\ written' = {Rewrite(f) : f \in Findings}
  /\ UNCHANGED <<vars, left, joined>>

-----------------------------------------------------------------------------
UnionInit == Init /\ left = {} /\ joined = NoUnion /\ rewritten = FALSE /\ written = {}

(* The step up to its promotions, then the next minimum after the union.   *)
Resolve ==
  /\ Next /\ (phase = "count" => rewritten)
  /\ left' = IF phase = "bind" THEN promoted' ELSE left
  /\ IF phase = "counted" THEN joined' = NoUnion /\ rewritten' = FALSE /\ written' = {}
                          ELSE UNCHANGED <<joined, rewritten, written>>

UnionNext == Resolve \/ (\E p \in left : Join(p)) \/ RewriteFindings
UnionSpec == UnionInit /\ [][UnionNext]_<<vars, union>> /\ WF_<<vars, union>>(UnionNext)

-----------------------------------------------------------------------------
(* The components one deletion spans, by the edges, the bindings and the   *)
(* carriers of the promoted findings, whatever their order.                *)
Touching == {<<ComponentOf(p), c>> : p \in promoted, c \in PromotedIds \union Components}
Linked == {pair \in Touching : \E p \in promoted : ComponentOf(p) = pair[1] /\ pair[2] \in Others(p) \union {ComponentOf(p)}}
RECURSIVE Spread(_)
Spread(ids) ==
  LET more == ids \union {pair[2] : pair \in {l \in Linked : l[1] \in ids}} \union {pair[1] : pair \in {l \in Linked : l[2] \in ids}}
  IN  IF more = ids THEN ids ELSE Spread(more)

(* The identifier is that of the earliest promoted finding among them.     *)
GoesByTheFirst(p) ==
  LET together == Spread({ComponentOf(p)})
      mine == {q \in promoted : ComponentOf(q) \in together}
  IN  /\ Class(joined.survivor[ComponentOf(p)]) = together
      /\ \E q \in mine : joined.survivor[ComponentOf(p)] = ComponentOf(q) /\ \A r \in mine : q.key <= r.key

(* Each finding that goes with them, and each of their lines, is counted   *)
(* once, and one that stays live not at all.  A finding that an edge side  *)
(* of one component and a record of another both carry is counted in each. *)
CarriedAcross ==
  \E p \in promoted : p.evaluations # {} /\ Sharing(p) \ {ComponentOf(p)} # {}
CountedOnce(p) ==
  LET going == UNION {KeysIn(c) \ blocked : c \in Spread({ComponentOf(p)})}
  IN  \A f \in written : f.key = p.key => f.symbols = Cardinality(going) /\ f.lines = LineCount(going)

(* None of its findings is surer than a root of it production code uses.   *)
AsSureAsItsRoots(f) ==
  \A g \in written :
    g.component = f.component /\ g.root /\ ~ About[g.key].testOnly => f.class >= g.class

(* Components are one in the report exactly when promoted findings join    *)
(* them, over however many edges and in whatever order, and it is one      *)
(* deletion then: one identifier, "so each finding and each of its lines   *)
(* is counted once", one confidence (merge.md, "Component union").         *)
JoinedAsOne ==
  rewritten =>
    /\ \A p \in promoted : GoesByTheFirst(p) /\ (~ CarriedAcross => CountedOnce(p))
    /\ \A f \in written : f.component \in DOMAIN joined.survivor => AsSureAsItsRoots(f)
=============================================================================
