--------------------------- MODULE MCMergeResolve ---------------------------
(***************************************************************************)
(* MergeUnion over working sets of three analyzers with a facts document *)
(* from one of them and from a schema reader.  A component is named for    *)
(* its analyzer: a and b the two sides of an edge, c a third analyzer, p   *)
(* the schema reader.                                                      *)
(***************************************************************************)
EXTENDS MergeUnion

Evaluation(edge, side, state, key, component) ==
  [edge |-> edge, side |-> side, state |-> state, key |-> key, component |-> component]

Found == {"live", "dead", "absent"}

(* Three edges in a chain, through b's symbol and through c's: what is     *)
(* dropped on the last edge reaches the first a pass later each, as the    *)
(* canonical order runs against it.                                        *)
Chain(s, shared) ==
  [records |-> << >>,
   evaluations |->
     <<Evaluation("e1", "provides", s[1], 1, "a1"), Evaluation("e1", "used_by", s[2], 2, "b1"),
       Evaluation("e2", "provides", s[3], IF shared THEN 2 ELSE 3, "b1"),
       Evaluation("e2", "used_by", s[4], 4, "c1"),
       Evaluation("e3", "provides", s[5], 5, "c1"), Evaluation("e3", "used_by", s[6], 6, "a2")>>]
(* One symbol is dead for every edge that names it. *)
Chains ==
  {Chain(s, shared) : s \in [1 .. 6 -> Found], shared \in BOOLEAN}
ChainWorlds ==
  {w \in Chains : w.evaluations[2].key = w.evaluations[3].key => w.evaluations[2].state = w.evaluations[3].state}

(* Two analyzers on the used side of one edge, and a side none looked at.  *)
DisagreementWorlds ==
  {[records |-> << >>,
    evaluations |->
      <<Evaluation("e1", "provides", s[1], 1, "a1"), Evaluation("e1", "used_by", s[2], 2, "b1"),
        Evaluation("e1", "used_by", s[3], 3, "c1"), Evaluation("e2", "provides", s[4], 4, "b1")>>
      \o lone] :
    s \in [1 .. 4 -> Found],
    lone \in {<< >>, <<Evaluation("e2", "used_by", "dead", 5, "a1")>>,
              <<Evaluation("e2", "used_by", "live", 5, "a1")>>}}

-----------------------------------------------------------------------------
Here == <<"api", "x">>      \* the schema file, a copy of it and another
Copy == <<"x">>
Other == <<"b", "x">>

Binding(role, state) ==
  [role |-> role, state |-> state, symbol |-> None, schema |-> None, file |-> Here, analyzer |-> "a",
   key |-> 0, component |-> None, class |-> 1, cap |-> FALSE, library |-> FALSE, scope |-> "all",
   kind |-> "message", uses |-> {}, members |-> {}, via |-> {}, carried |-> {}]
Schema(schema, state, key, component) ==
  [Binding("schema", state) EXCEPT !.schema = schema, !.key = key, !.component = component, !.analyzer = "p"]
Consumer(schema, state) == [Binding("consumer", state) EXCEPT !.schema = schema, !.file = Copy]
Via(schema, via) == [Consumer(schema, "live") EXCEPT !.via = via]
Implementing(symbol, schema, state, key, component) ==
  [Binding("implementer", state) EXCEPT !.symbol = symbol, !.schema = schema, !.file = Copy,
                                       !.key = key, !.component = component]

Records(sequence) == [evaluations |-> << >>, records |-> sequence]

MayBind(schema) == {<< >>} \union {<<Consumer(schema, s)>> : s \in {"live", "unreferenced", None}}

(* A message, its field and an RPC that uses the message. *)
ContainerWorlds ==
  {Records(<<[Schema("M", s[1], 1, "p1") EXCEPT !.members = {"F"}], Schema("F", s[2], 2, IF one THEN "p1" ELSE "p2"),
             [Schema("R", s[3], 3, "p3") EXCEPT !.uses = {"M"}, !.kind = "rpc", !.class = 2]>>
           \o m \o f \o <<Consumer("R", r)>>) :
    s \in [1 .. 3 -> {"live", "dead"}], one \in BOOLEAN,
    m \in MayBind("M"), f \in MayBind("F"), r \in {"live", "unreferenced"}}

(* An RPC, two implementers, one of which may embed the other, and what    *)
(* they carry in common.                                                   *)
ImplementerWorlds ==
  {Records(<<[Schema("R", "dead", 1, "p1") EXCEPT !.class = class, !.kind = "rpc"]>> \o bound
           \o <<[Implementing("I", "R", i, 2, "a1") EXCEPT
                   !.via = IF i = "dead" THEN via ELSE {}, !.carried = IF i = "dead" THEN {4} ELSE {}],
                [Implementing("J", schema, j, 3, "a2") EXCEPT !.carried = IF j = "dead" THEN {4} ELSE {}]>>) :
    class \in {1, 2}, schema \in {"R", "S"}, i \in {"live", "dead", None}, j \in {"dead", None},
    via \in {{}, {"J"}, {"X"}},
    bound \in {<< >>, <<Consumer("R", "live")>>, <<Consumer("R", "unreferenced")>>, <<Via("R", {"I"})>>,
               <<Via("R", {"I", "J"})>>, <<Via("R", {"X"})>>}}

(* Confidences, caps, libraries and files. *)
ClassWorlds ==
  {Records(<<[Schema("M", "dead", 1, "p1") EXCEPT !.class = m, !.members = {"F"}, !.file = file],
             [Schema("F", "dead", 2, "p2") EXCEPT !.class = f],
             [Consumer("M", "unreferenced") EXCEPT !.cap = cap, !.library = library],
             Consumer("F", "unreferenced")>> \o fallback) :
    m \in 0 .. 2, f \in 0 .. 2, cap \in BOOLEAN, library \in BOOLEAN, file \in {Here, Copy, Other},
    fallback \in {<< >>, <<[Binding("fallback", "live") EXCEPT !.file = Other]>>}}
  \union
  {Records(<<[Schema("R", "dead", 1, "p1") EXCEPT !.class = class, !.kind = kind],
             Consumer("R", "unreferenced"), [Binding("fallback", "live") EXCEPT !.scope = scope]>>) :
    class \in 0 .. 2, kind \in {"rpc", "message"}, scope \in {"all", "types"}}

(* An implementer that carries a helper, which is a side of an edge too,   *)
(* under the edge's own component.                                         *)
MixedWorlds ==
  {[evaluations |-> <<Evaluation("e1", "provides", helper, 3, "a2"), Evaluation("e1", "used_by", other, 4, "b1"),
                      Evaluation("e2", "provides", next, 5, "b1"), Evaluation("e2", "used_by", last, 6, component)>>,
    records |-> <<[Schema("R", "dead", 1, "p1") EXCEPT !.class = class, !.kind = "rpc"], Consumer("R", consumer),
                  [Implementing("I", "R", "dead", 2, "a1") EXCEPT !.carried = {3}]>>] :
    helper \in Found, other \in Found, next \in Found, last \in Found, component \in {"a1", "c1"},
    class \in {1, 2}, consumer \in {"live", "unreferenced"}}

(* Two implementers of one RPC that carry helpers of one source line, one  *)
(* of them a side of an edge as well.                                      *)
SharingWorlds ==
  {[evaluations |-> edges,
    records |-> <<[Schema("R", "dead", 1, "p1") EXCEPT !.kind = "rpc"], Consumer("R", "unreferenced"),
                  [Implementing("I", "R", "dead", 2, "a1") EXCEPT !.carried = i],
                  [Implementing("J", "R", "dead", 3, component) EXCEPT !.carried = j]>>] :
    i \in {{21}, {21, 22}, {21, 22, 23}}, j \in {{21}, {21, 22}}, component \in {"a1", "a2"},
    edges \in {<< >>} \union {<<Evaluation("e1", "provides", "dead", 21, own), Evaluation("e1", "used_by", other, 6, "b1")>> :
                              own \in {"a1", "a3"}, other \in Found}}

(* Findings of one component, or that several carry, may share a line.     *)
AboutEach ==
  [k \in 1 .. 23 |->
    [lines |-> CASE k \in {21, 22} -> {<<"helpers", 4>>} [] k = 23 -> {<<"helpers", 4>>, <<"helpers", 5>>}
                 [] k \in {12, 13} -> {<<"fallen", 2>>, <<"fallen", k>>} [] OTHER -> {<<"own", k>>, <<"own", k + 30>>},
     class |-> k % 3, root |-> k \notin {11, 21}, testOnly |-> k \in {5, 12}]]
FallenWith == ("a1" :> {11}) @@ ("b1" :> {12, 13}) @@ ("p1" :> {14})

AllWorlds ==
  SharingWorlds \union ChainWorlds \union DisagreementWorlds \union ContainerWorlds \union ImplementerWorlds
  \union ClassWorlds \union MixedWorlds
=============================================================================
