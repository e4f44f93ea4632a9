------------------------------ MODULE Ordering ------------------------------
(***************************************************************************)
(* Sorting as Go's slices package does it, over keys that are tuples of    *)
(* naturals: a path, a code, a name or an encoding is its rank in bytewise *)
(* order, and 0 the empty string.                                          *)
(***************************************************************************)
EXTENDS Integers, Sequences, SequencesExt

CONSTANT None            \* a member a document does not carry

(* cmp.Or over the comparisons of two keys of one length. *)
Precedes(a, b) == \E i \in DOMAIN a : a[i] < b[i] /\ \A j \in 1 .. i - 1 : a[j] = b[j]

(* slices.SortStableFunc: the places in the order of their keys, those of  *)
(* one key in their own order, each after as many as are ahead of it.      *)
Ahead(keys, i, j) == Precedes(keys[i], keys[j]) \/ (keys[i] = keys[j] /\ i < j)
Arranged(places, keys) ==
  LET ahead == [i \in places |-> Cardinality({j \in places : Ahead(keys, j, i)})]
  IN  [k \in 1 .. Cardinality(places) |-> CHOOSE i \in places : ahead[i] = k - 1]

Picked(s, order) == [k \in DOMAIN order |-> s[order[k]]]
SortedBy(s, keys) == Picked(s, Arranged(DOMAIN s, keys))
SortOn(s, Key(_)) == SortedBy(s, [i \in DOMAIN s |-> Key(s[i])])

(* Each after the one before it. *)
Ascending(s, Key(_)) == \A i \in 2 .. Len(s) : Precedes(Key(s[i - 1]), Key(s[i]))

(* A set of numbers from the least up; the elements of s at the places, as *)
(* they come in s; and each element of s once, where it comes first.       *)
Rising(numbers) == Arranged(numbers, [n \in numbers |-> << >>])
Selected(s, places) == Picked(s, Rising(places))
Firsts(s) == {i \in DOMAIN s : \A j \in 1 .. i - 1 : s[j] # s[i]}
Once(s) == Selected(s, Firsts(s))

Unary(n) == <<n>>      \* the key of a string
=============================================================================
