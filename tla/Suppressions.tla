---------------------------- MODULE Suppressions ----------------------------
(***************************************************************************)
(* The values of src/suppress and what they say of each other: findings,   *)
(* records, the entries and rows of the two documents, and when a record   *)
(* names a finding.  No state: Ledger runs the records over the findings.  *)
(*                                                                         *)
(* A reference is the tuple <<name>>, or <<name, part>> for a parameter,   *)
(* which is spelled under its holder's; << >> is the empty reference.      *)
(***************************************************************************)
EXTENDS Integers, Sequences, FiniteSets, SequencesExt

None == "none"     \* the empty identity, path or file
NoRef == << >>

Mechanism == {"inline", "ignore", "baseline"}

(* kinds.json's remedies: the mechanisms that can name a finding about each *)
(* subject.                                                                 *)
Suppresses ==
  [declaration |-> Mechanism, binding |-> Mechanism, part |-> Mechanism,
   dependency |-> {"ignore", "baseline"}, file |-> {}, record |-> {}]

(* A subject with no row is a declaration's. *)
Names(subject, mechanism) ==
  mechanism \in Suppresses[IF subject \in DOMAIN Suppresses THEN subject ELSE "declaration"]

(* A code is a record of its subject and its severity's allow. *)
SubjectOfCode(code) == code.subject

-----------------------------------------------------------------------------
(* What a record was written as, whatever declarations it bound: its       *)
(* mechanism, its site and its code.                                       *)
SuppressionOf(record) == <<record.mechanism, record.site, record.code>>

(* Every declaration an entry or a row resolved to. *)
BoundWith(records, record) ==
  {r.bound : r \in {q \in ToSet(records) :
                      q.bound # None /\ SuppressionOf(q) = SuppressionOf(record)}}

(* Every declaration a finding is about or carries the reference of. *)
Owners(found) == found.named \union ({found.decl} \ {None})

(* A directive names what is written in its own file. *)
DirectivePairs(record, found) ==
  /\ record.bound # None
  /\ record.bound \in Owners(found)
  /\ record.file = found.file

(* Bug: an entry naming a part by its own reference alone. *)
EntryPairsByRef(record, bound, found) ==
  /\ record.path = found.path /\ record.symbol = found.ref
  /\ Owners(found) \cap bound # {} => record.bound \in Owners(found)

(* An entry or a row names what a finding reports, its reference or a      *)
(* part's holder's, at its path; a finding about a declaration the entry   *)
(* resolved to is that declaration's record's alone.                       *)
EntryPairs(record, bound, found) ==
  /\ record.path = found.path
  /\ \/ record.symbol = found.ref
     \/ found.holder # NoRef /\ record.symbol = found.holder
  /\ Owners(found) \cap bound # {} => record.bound \in Owners(found)

Pairs(record, bound, found) ==
  /\ record.code = found.code
  /\ Names(SubjectOfCode(record.code), record.mechanism)
  /\ IF record.mechanism = "inline"
       THEN DirectivePairs(record, found)
       ELSE EntryPairs(record, bound, found)

-----------------------------------------------------------------------------
(* The reports an entry is refused with: it has no reason, it names no     *)
(* path, and neither rule outranks the other.                              *)
RefusalsOf(entry) ==
  (IF entry.blank THEN {"suppression-without-reason"} ELSE {})
    \union (IF entry.path = None THEN {"unscoped-ignore-entry"} ELSE {})

(* The inventory of the analyzer: every declaration under one reference    *)
(* rendered at one path, in a fixed order.                                 *)
Lookup(decls, symbol, path) ==
  SelectSeq(decls.order, LAMBDA d : decls.ref[d] = symbol /\ decls.path[d] = path)

(* The declarations an entry binds: those it names, or under a part kind   *)
(* the holder of a part that no declaration is called.                     *)
BoundTo(decls, entry) ==
  LET named == Lookup(decls, entry.symbol, entry.path)
  IN  IF /\ named = << >>
         /\ Len(entry.symbol) = 2
         /\ SubjectOfCode(entry.code) = "part"
      THEN Lookup(decls, SubSeq(entry.symbol, 1, 1), entry.path)
      ELSE named

(* The records of a well-formed entry: one per declaration it binds, or    *)
(* one bound to nothing.                                                   *)
RecordsOf(decls, entry, site) ==
  LET bound == BoundTo(decls, entry)
      one == [code |-> entry.code, symbol |-> entry.symbol, path |-> entry.path,
              bound |-> None, mechanism |-> entry.mechanism, site |-> site, file |-> None]
  IN  IF bound = << >> THEN <<one>>
      ELSE [i \in DOMAIN bound |-> [one EXCEPT !.bound = bound[i]]]
=============================================================================
