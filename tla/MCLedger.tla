------------------------------ MODULE MCLedger ------------------------------
(***************************************************************************)
(* The worlds Ledger is checked over: two declarations in every placement  *)
(* pairing_test.go has a row for (sharing a reference or not, in one file  *)
(* or two, under their own path or one a line directive folds them onto),  *)
(* the findings of one code about them, and every directive, entry and row *)
(* worth writing over them.                                                *)
(***************************************************************************)
EXTENDS Ledger

Export    == [name |-> "UnreachableExport", subject |-> "declaration"]
Assertion == [name |-> "UnusedSatisfactionAssertion", subject |-> "declaration"]
Parameter == [name |-> "UnusedParameter", subject |-> "part"]
Require   == [name |-> "UnusedDependency", subject |-> "dependency"]
Unbuilt   == [name |-> "FileNeverBuilt", subject |-> "file"]

About(code, d) ==
  [code |-> code, about |-> d, param |-> None, at |-> None, iface |-> None, twins |-> {},
   row |-> NoRef]
Row(code, name, path) == [About(code, None) EXCEPT !.row = <<name>>, !.at = path]
Param(d, name, path) == [About(Parameter, d) EXCEPT !.param = name, !.at = path]
Asserts(d, i, others) == [About(Assertion, d) EXCEPT !.iface = i, !.twins = others]

(* Two declarations of one run, the first called f and written in file a. *)
Placements ==
  {[order |-> <<"d1", "d2">>,
    ref   |-> [d1 |-> <<"f">>, d2 |-> r],
    file  |-> [d1 |-> "a", d2 |-> fl],
    path  |-> [d1 |-> p1, d2 |-> IF p2 = "own" THEN fl ELSE p2]] :
     r \in {<<"f">>, <<"g">>}, fl \in {"a", "z"}, p1 \in {"a", "gen"}, p2 \in {"own", "gen"}}

(* An interface with one declaration per platform, and its assertion d3. *)
Twinned ==
  {[order |-> <<"d1", "d2", "d3">>,
    ref   |-> [d1 |-> <<"f">>, d2 |-> <<"f">>, d3 |-> <<"_">>],
    file  |-> [d1 |-> "a", d2 |-> "z", d3 |-> fl],
    path  |-> [d1 |-> p1, d2 |-> p2, d3 |-> p3]] :
     fl \in {"a", "z"}, p1 \in {"a", "gen"}, p2 \in {"z", "gen"}, p3 \in {"a", "gen"}}

Written(code, mechanism) ==
  [code |-> code, mechanism |-> mechanism, scheme |-> "own", form |-> "valid",
   blank |-> FALSE, above |-> None, path |-> "a", symbol |-> NoRef]

(* A directive above each declaration and one above none, and an entry and *)
(* a row for each reference at each path something renders at.             *)
Directives(decls, code) ==
  {[Written(code, "inline") EXCEPT !.above = d] : d \in ToSet(decls.order) \union {None}}
Entries(decls, code, findings) ==
  LET named == {ReportedRef(decls.ref, f) : f \in findings}
                 \union {decls.ref[d] : d \in ToSet(decls.order)}
      paths == {ReportedPath(decls.path, f) : f \in findings}
                 \union {decls.path[d] : d \in ToSet(decls.order)}
  IN  {[Written(code, m) EXCEPT !.symbol = s, !.path = p] :
         m \in {"ignore", "baseline"}, s \in named, p \in paths}

World(decls, code, findings) ==
  [decls |-> decls, findings |-> findings, allows |-> {}, withheld |-> {},
   candidates |-> Directives(decls, code) \union Entries(decls, code, findings)]

PlacedFindings(code) ==
  IF code = Export THEN {{About(code, "d1"), About(code, "d2")}}
  ELSE IF code = Assertion THEN {{Asserts("d2", "d1", {})}}
  ELSE {{Param("d1", "a", at), Param("d2", "a", None)} : at \in {None, "z"}}

PlacementWorlds ==
  (UNION {{World(decls, code, findings) : findings \in PlacedFindings(code)} :
            decls \in Placements, code \in {Export, Assertion, Parameter}})
  \union {World(decls, Assertion, {Asserts("d3", "d1", others)}) :
            decls \in Twinned, others \in {{}, {"d2"}}}
  \union {World(decls, code, {Row(code, "row", "a"), Row(code, "row", "z")}) :
            decls \in {CHOOSE d \in Placements : TRUE}, code \in {Require, Unbuilt}}
  \union {World(decls, Parameter, {Param("d1", "a", None), Param("d1", "b", None)}) :
            decls \in Placements}

-----------------------------------------------------------------------------
(* Three suppressions over two declarations that share a reference, under  *)
(* one path and under two.                                                 *)
SharedWorlds ==
  {World(decls, code, findings) :
     decls \in {d \in Placements : d.ref.d2 = <<"f">> /\ d.file.d2 = "z" /\ d.path.d1 = "gen"},
     code \in {Parameter},
     findings \in {{Param("d1", "a", None), Param("d2", "a", None)}}}

(* Every setting of the two dials over two findings, two codes on one line *)
(* and the forms a suppression is refused for.                             *)
DialDecls == CHOOSE d \in Placements : d.ref.d2 = <<"f">> /\ d.file.d2 = "z" /\ d.path = [d1 |-> "gen", d2 |-> "gen"]
Entry(code) == [Written(code, "ignore") EXCEPT !.symbol = <<"f">>, !.path = "gen"]
DialWorlds ==
  LET found == {About(Export, "d1"), About(Export, "d2"),
                Param("d1", "a", None), Param("d1", "b", None)}
  IN  {[decls |-> DialDecls, findings |-> found, allows |-> codes, withheld |-> out,
        candidates |->
          {[Written(c, "inline") EXCEPT !.above = "d1"] : c \in {Export, Parameter}}
          \union {Entry(Export), Entry(Parameter)}
          \union {[Written(Export, "baseline") EXCEPT !.symbol = s, !.path = "gen"] :
                    s \in {<<"f">>, <<"f", "a">>}}] :
        codes \in SUBSET {Export, Parameter}, out \in SUBSET found}

FormWorlds ==
  LET found == {About(Export, "d1"), About(Export, "d2")}
  IN  {[decls |-> DialDecls, findings |-> found, allows |-> {}, withheld |-> {},
        candidates |->
          {Entry(Export),
           [Entry(Export) EXCEPT !.blank = TRUE],
           [Entry(Export) EXCEPT !.path = None],
           [Entry(Export) EXCEPT !.path = None, !.blank = TRUE],
           [Entry(Export) EXCEPT !.form = "unparsed"],
           [Entry(Export) EXCEPT !.form = "malformed"],
           [Entry(Export) EXCEPT !.scheme = "other"],
           [Entry(Export) EXCEPT !.scheme = "other", !.form = "unparsed"],
           [Written(Export, "inline") EXCEPT !.above = "d1", !.blank = TRUE],
           [Written(Export, "inline") EXCEPT !.above = "d2", !.form = "malformed"]}]}

LedgerWorlds == PlacementWorlds \union SharedWorlds \union DialWorlds \union FormWorlds

(* Two suppressions in every placement, three under every dial. *)
Written2Or3(w) == IF w \in SharedWorlds \union DialWorlds \union FormWorlds THEN 3 ELSE 2
WrittenOne(w) == 1
=============================================================================
