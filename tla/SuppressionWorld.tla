-------------------------- MODULE SuppressionWorld --------------------------
(***************************************************************************)
(* A run in the words of suppression.md, as src/suppress/pairing_test.go   *)
(* describes one: declarations written in a file and rendered under a      *)
(* path, the findings about them, and the suppressions written over them.  *)
(* Names says which findings a suppression names in those words alone; the *)
(* rest is what an analyzer hands the ledger for such a world.             *)
(***************************************************************************)
EXTENDS Suppressions

(* A world finding: its code, the declaration it is about (None for a row  *)
(* of a document), the part it is about (None for the declaration itself), *)
(* the path a line directive moves it to (None for its holder's), the      *)
(* interface an assertion names (None for no assertion) with its other     *)
(* platform alternatives, and the reference and path of a row.       *)
ReportedRef(ref, found) ==
  CASE found.about = None -> found.row
    [] found.about # None /\ found.iface # None -> ref[found.iface]
    [] found.about # None /\ found.iface = None /\ found.param # None ->
         Append(ref[found.about], found.param)
    [] OTHER -> ref[found.about]

ReportedPath(path, found) ==
  CASE found.about = None -> found.at
    [] found.about # None /\ (found.iface # None \/ found.at = None) -> path[found.about]
    [] OTHER -> found.at

(* A directive names what is written in its own file: the declaration      *)
(* below it, a part of it, an assertion of the interface below it.  An     *)
(* entry names what a finding reports, and a part kind's entry the parts   *)
(* of the declaration its symbol names.                                    *)
WorldNames(decls, written, found) ==
  /\ written.code = found.code
  /\ Names(SubjectOfCode(written.code), written.mechanism)
  /\ IF written.mechanism = "inline"
       THEN /\ written.above # None
            /\ \/ found.about = written.above
               \/ /\ found.iface # None
                  /\ written.above \in {found.iface} \union found.twins
                  /\ decls.file[found.about] = decls.file[written.above]
       ELSE /\ written.path = ReportedPath(decls.path, found)
            /\ \/ written.symbol = ReportedRef(decls.ref, found)
               \/ found.param # None /\ written.symbol = decls.ref[found.about]

(* The finding as the ledger reads it. *)
FindingOf(decls, found) ==
  [code |-> found.code, id |-> found,
   ref |-> ReportedRef(decls.ref, found), path |-> ReportedPath(decls.path, found),
   decl |-> found.about,
   file |-> IF found.about = None THEN None ELSE decls.file[found.about],
   holder |-> IF found.param = None THEN NoRef ELSE decls.ref[found.about],
   named |-> ({found.iface} \ {None}) \union found.twins]

(* The record a directive resolves to. *)
DirectiveRecord(decls, written, site) ==
  LET above == written.above
  IN  [code |-> written.code, mechanism |-> "inline", site |-> site, bound |-> above,
       symbol |-> IF above = None THEN NoRef ELSE decls.ref[above],
       path |-> IF above = None THEN written.path ELSE decls.path[above],
       file |-> IF above = None THEN written.path ELSE decls.file[above]]
=============================================================================
