------------------------------ MODULE JsonValues ------------------------------
(***************************************************************************)
(* JSON values as the document package decodes them.  A value is a record  *)
(* of its kind; a number keeps its spelling beside what it counts, in      *)
(* halves.  A document's text is a tree whose objects list their members   *)
(* in the order written, a name twice included.  A JSON Pointer is the     *)
(* sequence of its tokens, unescaped, an index among them spelled.         *)
(***************************************************************************)
EXTENDS Integers, Sequences, SequencesExt, TLC

CONSTANTS
  None,         \* no pointer, no member
  Bytewise      \* every name, in the order of its bytes

Null == [kind |-> "null"]
Bool(b) == [kind |-> "boolean", holds |-> b]
Str(text) == [kind |-> "string", text |-> text]
Num(halves, spelled) == [kind |-> "number", halves |-> halves, spelled |-> spelled]
Obj(members) == [kind |-> "object", members |-> members]
Arr(items) == [kind |-> "array", items |-> items]

Names(v) == IF v.kind = "object" THEN DOMAIN v.members ELSE {}
Sorted(names) == SelectSeq(Bytewise, LAMBDA name : name \in names)
Index(i) == ToString(i - 1)

(***************************************************************************)
(* decode: the one strict value of a text, or the place it is refused at.  *)
(* A member named twice is refused at its object before its second value   *)
(* is read; data after the value is refused last, at the whole document.   *)
(***************************************************************************)
RECURSIVE DecodeValue(_, _)

Decoded(value) == [value |-> value, refused |-> None]
RefusedAt(at) == [value |-> Null, refused |-> at]

DecodeMember(object, member, at) ==
  IF object.refused # None THEN object
  ELSE IF member[1] \in Names(object.value) THEN RefusedAt(at)
  ELSE LET inner == DecodeValue(member[2], Append(at, member[1]))
       IN  IF inner.refused # None THEN inner
           ELSE Decoded(Obj(object.value.members @@ (member[1] :> inner.value)))

DecodeItem(array, i, text, at) ==
  IF array.refused # None THEN array
  ELSE LET inner == DecodeValue(text, Append(at, Index(i)))
       IN  IF inner.refused # None THEN inner ELSE Decoded(Arr(Append(array.value.items, inner.value)))

DecodeObject(members, at) ==
  FoldLeft(LAMBDA object, member : DecodeMember(object, member, at), Decoded(Obj(<< >>)), members)
DecodeArray(items, at) ==
  FoldLeft(LAMBDA array, i : DecodeItem(array, i, items[i], at), Decoded(Arr(<< >>)), [i \in DOMAIN items |-> i])

DecodeValue(text, at) ==
  CASE text.kind = "object" -> DecodeObject(text.written, at)
    [] text.kind = "array" -> DecodeArray(text.items, at)
    [] OTHER -> Decoded(text)

Decode(document) ==
  LET decoded == DecodeValue(document.text, << >>)
  IN  IF decoded.refused = None /\ document.trailing THEN RefusedAt(<< >>) ELSE decoded

(***************************************************************************)
(* valueAt, and the value a pointer names from a document: None where a    *)
(* token names no member and no index.                                     *)
(***************************************************************************)
ValueAt(v, token) ==
  CASE token \in Names(v) -> v.members[token]
    [] v.kind = "array" /\ \E i \in DOMAIN v.items : Index(i) = token ->
         v.items[CHOOSE i \in DOMAIN v.items : Index(i) = token]
    [] OTHER -> None

RECURSIVE ResolvePointer(_, _)
ResolvePointer(v, pointer) ==
  IF pointer = << >> \/ v = None THEN v ELSE ResolvePointer(ValueAt(v, Head(pointer)), Tail(pointer))

(* hasType: an integer is a number that counts no half. *)
HasType(v, name) ==
  \/ v.kind = name
  \/ name = "integer" /\ v.kind = "number" /\ v.halves % 2 = 0

(* canonical: objects encode their members sorted, numbers as they are spelled. *)
Canonical(v) == v
HasAnyType(v, names) == \E i \in DOMAIN names : HasType(v, names[i])
=============================================================================
