--------------------------- MODULE MCBaselineWrites ---------------------------
(***************************************************************************)
(* The documents BaselineWrites is checked over: every defect read.go has  *)
(* a refusal for, in a document of one or two elements, and documents of   *)
(* two and three schemes, in and out of order, whose rows leave a path or  *)
(* a reason out.                                                           *)
(***************************************************************************)
EXTENDS BaselineWrites

CONSTANTS r1, r2

SchemeNames == <<"go", "py", "ts">>
References ==
  ("go://a" :> "go") @@ ("go://b" :> "go") @@ ("ts://a" :> "ts") @@ ("ts://b" :> "ts") @@ ("py://a" :> "py")
CodeTexts == {"DS1001"}
PathTexts == {"a", "b"}
OtherCase == ("Code" :> "code") @@ ("PATH" :> "path")

-----------------------------------------------------------------------------
Object(written) == [kind |-> "object", written |-> written]
With(object, name, value) == Object(Append(object.written, <<name, value>>))
One(symbol) == Object(<<<<"code", Str("DS1001")>>, <<"symbol", Str(symbol)>>>>)
Full(symbol, path, reason) ==
  With(With(One(symbol), "path", Str(path)), "reason", Str(reason))

Baseline(items) == Object(<<<<"baseline", Arr(items)>>>>)
Document(text) == [text |-> text, trailing |-> FALSE, cut |-> FALSE]

(* Every defect, and every spelling the decoder lets through. *)
Twice == Object(<<<<"a", Null>>, <<"a", Null>>>>)
Elements1 ==
  {Null, Str("DS1001"), Arr(<< >>), Object(<< >>), Object(<<<<"code", Str("DS1001")>>>>),
   One("a"), One("go://a"), Twice,
   With(One("go://a"), "code", Str("DS1001")), With(One("go://a"), "Code", Str("DS1001")),
   With(One("go://a"), "Code", Null), With(One("go://a"), "line", Str("1")),
   With(One("go://a"), "line", Twice), With(One("go://a"), "path", Num(2, "1")),
   With(One("go://a"), "path", Null), With(One("go://a"), "PATH", Str("..")),
   With(One("go://a"), "path", Str("")), With(One("go://a"), "reason", Arr(<<Twice>>)),
   Object(<<<<"symbol", Str("ts://a")>>, <<"code", Str("ds1")>>>>)}

Malformed ==
  {Document(Baseline(<<e>>)) : e \in Elements1}
  \union {Document(Baseline(<<One("ts://a"), e>>)) : e \in Elements1}
  \union {Document(Baseline(<<e, Full("ts://b", "a", "kept")>>)) : e \in {Null, Str("DS1001"), One("a")}}
  \union {Document(With(Baseline(<< >>), name, v)) :
            name \in {"description", "Baseline", "baseline"}, v \in {Null, Str("text"), Arr(<<Twice>>), Twice}}
  \union {Document(v) : v \in {Null, Arr(<< >>), Object(<< >>), Object(<<<<"baseline", Null>>>>),
                               Object(<<<<"baseline", One("go://a")>>>>)}}
  \union {[Document(Baseline(<<One("go://a")>>)) EXCEPT !.trailing = TRUE],
          [Document(Baseline(<<One("go://a")>>)) EXCEPT !.cut = TRUE]}

Mixed ==
  {None, Document(Baseline(<< >>)),
   Document(Baseline(<<One("ts://b"), Full("go://b", "b", "kept"), Full("ts://a", "a", "kept")>>)),
   Document(Baseline(<<With(One("py://a"), "path", Str("a")), With(One("go://a"), "reason", Str("")),
                       One("ts://a")>>))}

AllDocuments == Malformed \union Mixed

-----------------------------------------------------------------------------
Spells(first, second, path) ==
  (r1 :> [code |-> "DS1001", symbol |-> first, path |-> "a"])
    @@ (r2 :> [code |-> "DS1001", symbol |-> second, path |-> path])

Go == [scheme |-> "go", identity |-> "deadset-go 1", spells |-> Spells("go://b", "go://a", "b")]
Ts == [scheme |-> "ts", identity |-> "deadset-ts 1", spells |-> Spells("ts://a", "ts://b", "a")]

AllWriters == {Go, Ts, [Go EXCEPT !.identity = ""], [Ts EXCEPT !.spells = Spells("ts://a", "ts://b", "")]}

Writing(w, list) ==
  [scheme |-> w.scheme, identity |-> w.identity, spells |-> w.spells, rows |-> list]
AllOthers == {Writing(w, list) : w \in {Go, Ts}, list \in {<< >>, <<r1, r2>>}}
=============================================================================
