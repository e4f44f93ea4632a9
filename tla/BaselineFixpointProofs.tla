----------------------- MODULE BaselineFixpointProofs -----------------------
(***************************************************************************)
(* Theorems about suppress.Fixpoint for every finite set of rows and every *)
(* length of answer: the type invariant, that no row is held twice, that a *)
(* removed row stays out, and that N rows end within 2N + 1 rounds.        *)
(***************************************************************************)
EXTENDS BaselineFixpoint, FiniteSetTheorems, SequenceTheorems, TLAPS

-----------------------------------------------------------------------------
(* Taking the head off a list takes its row out of the set of its rows,    *)
(* and out of what follows where no row is written twice.                  *)
LEMMA TakingTheHead ==
  ASSUME NEW s \in Seq(Row), s # << >>
  PROVE  /\ Head(s) \in Row
         /\ Tail(s) \in Seq(Row)
         /\ ToSet(s) = {Head(s)} \union ToSet(Tail(s))
         /\ IsInjective(s) => IsInjective(Tail(s)) /\ Head(s) \notin ToSet(Tail(s))
<1>1. /\ Head(s) = s[1] /\ Head(s) \in Row
      /\ Tail(s) \in Seq(Row)
      /\ Len(s) \in Nat /\ Len(s) >= 1
      /\ Len(Tail(s)) = Len(s) - 1
      /\ \A i \in 1 .. Len(Tail(s)) : Tail(s)[i] = s[i + 1]
      /\ DOMAIN s = 1 .. Len(s)
      /\ DOMAIN Tail(s) = 1 .. Len(s) - 1
  BY HeadTailProperties, EmptySeq, LenProperties
<1>2. ToSet(s) \subseteq {Head(s)} \union ToSet(Tail(s))
  <2> SUFFICES ASSUME NEW i \in DOMAIN s, i # 1
               PROVE  s[i] \in ToSet(Tail(s))
    BY <1>1 DEF ToSet
  <2>1. i - 1 \in DOMAIN Tail(s) /\ Tail(s)[i - 1] = s[i]
    BY <1>1
  <2> QED
    BY <2>1 DEF ToSet
<1>3. {Head(s)} \union ToSet(Tail(s)) \subseteq ToSet(s)
  BY <1>1 DEF ToSet
<1>4. ASSUME IsInjective(s)
      PROVE  IsInjective(Tail(s)) /\ Head(s) \notin ToSet(Tail(s))
  <2>1. \A i, j \in DOMAIN s : s[i] = s[j] => i = j
    BY <1>4 DEF IsInjective
  <2>2. \A i \in DOMAIN Tail(s) : i + 1 \in DOMAIN s /\ i + 1 # 1 /\ Tail(s)[i] = s[i + 1]
    BY <1>1
  <2>3. Head(s) \notin ToSet(Tail(s))
    BY <1>1, <2>1, <2>2 DEF ToSet
  <2>4. \A i, j \in DOMAIN Tail(s) : Tail(s)[i] = Tail(s)[j] => i = j
    BY <1>1, <2>1, <2>2
  <2> QED
    BY <2>3, <2>4 DEF IsInjective
<1> QED
  BY <1>1, <1>2, <1>3, <1>4

(* Appending a row adds it to the set of the rows, and repeats none where  *)
(* it is new.                                                              *)
LEMMA AppendingARow ==
  ASSUME NEW s \in Seq(Row), NEW row \in Row
  PROVE  /\ Append(s, row) \in Seq(Row)
         /\ ToSet(Append(s, row)) = ToSet(s) \union {row}
         /\ IsInjective(s) /\ row \notin ToSet(s) => IsInjective(Append(s, row))
<1>1. /\ Append(s, row) \in Seq(Row)
      /\ Len(s) \in Nat /\ DOMAIN s = 1 .. Len(s)
      /\ DOMAIN Append(s, row) = 1 .. Len(s) + 1
      /\ \A i \in 1 .. Len(s) : Append(s, row)[i] = s[i]
      /\ Append(s, row)[Len(s) + 1] = row
  BY AppendProperties, LenProperties
<1>2. ToSet(Append(s, row)) = ToSet(s) \union {row}
  <2>1. ToSet(Append(s, row)) \subseteq ToSet(s) \union {row}
    <3> SUFFICES ASSUME NEW i \in 1 .. Len(s) + 1, i # Len(s) + 1
                 PROVE  Append(s, row)[i] \in ToSet(s)
      BY <1>1 DEF ToSet
    <3> QED
      BY <1>1 DEF ToSet
  <2>2. ToSet(s) \subseteq ToSet(Append(s, row)) /\ row \in ToSet(Append(s, row))
    BY <1>1 DEF ToSet
  <2> QED
    BY <2>1, <2>2
<1>3. ASSUME IsInjective(s), row \notin ToSet(s)
      PROVE  IsInjective(Append(s, row))
  <2>1. \A i, j \in DOMAIN s : s[i] = s[j] => i = j
    BY <1>3 DEF IsInjective
  <2>2. \A i \in 1 .. Len(s) : s[i] # row
    BY <1>1, <1>3 DEF ToSet
  <2>3. \A i, j \in 1 .. Len(s) + 1 : Append(s, row)[i] = Append(s, row)[j] => i = j
    <3> SUFFICES ASSUME NEW i \in 1 .. Len(s) + 1, NEW j \in 1 .. Len(s) + 1,
                        Append(s, row)[i] = Append(s, row)[j]
                 PROVE  i = j
      OBVIOUS
    <3>1. CASE i \in 1 .. Len(s) /\ j \in 1 .. Len(s)
      BY <1>1, <2>1, <3>1
    <3>2. CASE i = Len(s) + 1 \/ j = Len(s) + 1
      BY <1>1, <2>2, <3>2
    <3> QED
      BY <1>1, <3>1, <3>2
  <2> QED
    BY <1>1, <2>3 DEF IsInjective
<1> QED
  BY <1>1, <1>2, <1>3

LEMMA EmptyList == << >> \in Seq(Row) /\ ToSet(<< >>) = {} /\ IsInjective(<< >>)
BY EmptySeq DEF ToSet, IsInjective

(* The saturating count of rounds never runs ahead of them. *)
LEMMA CountingARound ==
  ASSUME rounds \in Nat, CountRound
  PROVE  rounds' \in Nat /\ rounds' <= rounds + 1
BY DEF CountRound

-----------------------------------------------------------------------------
(* Every variable keeps to its type, and a round counts a row as added     *)
(* only where the list it builds has one.                                  *)
THEOREM TypeCorrect == Spec => []TypeOK
<1>1. ASSUME Init PROVE TypeOK
  <2>1. added \in BOOLEAN /\ (added => kept # << >>)
    BY <1>1, Zenon DEF Init
  <2> QED
    BY <1>1, <2>1, EmptyList DEF Init, TypeOK
<1>2. TypeOK /\ [Next]_vars => TypeOK'
  <2> SUFFICES ASSUME TypeOK, [Next]_vars PROVE TypeOK'
    OBVIOUS
  <2> USE DEF TypeOK
  <2>1. ASSUME NEW rec \in BoundedSeq(Row, MaxAnswer), NEW stale \in SUBSET ToSet(rows),
               Answer(rec, stale)
        PROVE  TypeOK'
    <3>1. rec \in Seq(Row)
      BY MaxAnswerIsNat DEF BoundedSeq, SeqOf
    <3>2. stale \in SUBSET Row
      BY LenProperties DEF ToSet
    <3>3. (added \in BOOLEAN /\ (added => kept # << >>))'
      BY <2>1, Zenon DEF Answer
    <3> QED
      BY <2>1, <3>1, <3>2, <3>3, EmptyList, CountingARound DEF Answer
  <2>2. CASE Fail
    BY <2>2, CountingARound DEF Fail
  <2>3. CASE Keep
    <3>1. Head(todo) \in Row /\ Tail(todo) \in Seq(Row)
      BY <2>3, TakingTheHead DEF Keep
    <3>2. Append(kept, Head(todo)) \in Seq(Row) /\ Append(kept, Head(todo)) # << >>
      BY <3>1, AppendProperties, EmptySeq
    <3> QED
      BY <2>3, <3>1, <3>2 DEF Keep
  <2>4. CASE KeptAll
    BY <2>4 DEF KeptAll
  <2>5. CASE AppendRow
    <3>1. Head(todo) \in Row /\ Tail(todo) \in Seq(Row)
      BY <2>5, TakingTheHead DEF AppendRow
    <3>2. Append(kept, Head(todo)) \in Seq(Row) /\ Append(kept, Head(todo)) # << >>
      BY <3>1, AppendProperties, EmptySeq
    <3> QED
      BY <2>5, <3>1, <3>2 DEF AppendRow
  <2>6. CASE Finish
    BY <2>6 DEF Finish
  <2>7. CASE UNCHANGED vars
    BY <2>7 DEF vars
  <2> QED
    BY <2>1, <2>2, <2>3, <2>4, <2>5, <2>6, <2>7 DEF Next
<1> QED
  BY <1>1, <1>2, PTL DEF Spec

-----------------------------------------------------------------------------
(* The strengthening: what the two loops of a round keep true of the list  *)
(* they build, of what they have left to look at and of every removed row. *)
Stays == (ToSet(kept) \union ToSet(todo)) \ gone

RoundInv ==
  /\ IsInjective(rows)
  /\ phase = "calling" => ToSet(rows) \cap removed = {}
  /\ phase = "keeping" =>
       /\ IsInjective(kept) /\ IsInjective(todo)
       /\ ToSet(kept) \cap ToSet(todo) = {}
       /\ ToSet(kept) \cap removed = {}
       /\ Stays \cap removed = {}
       /\ ToSet(kept) \cap gone = {}
       /\ ~ added
  /\ phase = "appending" =>
       /\ IsInjective(kept)
       /\ ToSet(kept) \cap removed = {}

(* Which rows a list holds, and which are held by no list: the part of the *)
(* invariant each conjunct of TypeOK and each step of a loop speaks of.    *)
LEMMA RoundStep == TypeOK /\ RoundInv /\ [Next]_vars => RoundInv'
<1> SUFFICES ASSUME TypeOK, RoundInv, [Next]_vars PROVE RoundInv'
  OBVIOUS
<1> USE DEF TypeOK, RoundInv
<1>1. ASSUME NEW rec \in BoundedSeq(Row, MaxAnswer), NEW stale \in SUBSET ToSet(rows),
             Answer(rec, stale)
      PROVE  RoundInv'
  <2>1. ToSet(<< >>) = {} /\ IsInjective(<< >>)
    BY EmptyList
  <2>2. (ToSet(rows) \ stale) \cap (removed \union stale) = {}
    BY <1>1 DEF Answer
  <2>3. Stays' = ToSet(rows) \ stale
    BY <1>1, <2>1 DEF Answer, Stays
  <2> QED
    BY <1>1, <2>1, <2>2, <2>3 DEF Answer
<1>2. CASE Fail
  BY <1>2 DEF Fail
<1>3. CASE Keep
  <2>1. /\ Head(todo) \in Row /\ Tail(todo) \in Seq(Row)
        /\ ToSet(todo) = {Head(todo)} \union ToSet(Tail(todo))
        /\ IsInjective(Tail(todo)) /\ Head(todo) \notin ToSet(Tail(todo))
    BY <1>3, TakingTheHead DEF Keep
  <2>2. CASE Head(todo) \in gone
    <3>1. Stays' \subseteq Stays
      BY <1>3, <2>1, <2>2 DEF Keep, Stays
    <3> QED
      BY <1>3, <2>1, <2>2, <3>1 DEF Keep
  <2>3. CASE Head(todo) \notin gone
    <3>1. /\ ToSet(Append(kept, Head(todo))) = ToSet(kept) \union {Head(todo)}
          /\ IsInjective(Append(kept, Head(todo)))
      BY <1>3, <2>1, AppendingARow DEF Keep
    <3>2. Stays' = Stays
      BY <1>3, <2>1, <2>3, <3>1 DEF Keep, Stays
    <3>3. Head(todo) \in Stays
      BY <2>1, <2>3 DEF Stays
    <3> QED
      BY <1>3, <2>1, <2>3, <3>1, <3>2, <3>3 DEF Keep
  <2> QED
    BY <2>2, <2>3
<1>4. CASE KeptAll
  BY <1>4 DEF KeptAll
<1>5. CASE AppendRow
  <2>1. Head(todo) \in Row
    BY <1>5, TakingTheHead DEF AppendRow
  <2>2. CASE Appends(Head(todo))
    <3>1. /\ ToSet(Append(kept, Head(todo))) = ToSet(kept) \union {Head(todo)}
          /\ IsInjective(Append(kept, Head(todo)))
      BY <1>5, <2>1, <2>2, AppendingARow DEF AppendRow, Appends
    <3> QED
      BY <1>5, <2>2, <3>1 DEF AppendRow, Appends
  <2>3. CASE ~ Appends(Head(todo))
    BY <1>5, <2>3 DEF AppendRow
  <2> QED
    BY <2>2, <2>3
<1>6. CASE Finish
  BY <1>6 DEF Finish
<1>7. CASE UNCHANGED vars
  BY <1>7 DEF vars, Stays
<1> QED
  BY <1>1, <1>2, <1>3, <1>4, <1>5, <1>6, <1>7 DEF Next

LEMMA RoundsKeepRoundInv == Spec => []RoundInv
<1>1. Init => RoundInv
  BY EmptyList DEF Init, RoundInv
<1> QED
  BY <1>1, RoundStep, TypeCorrect, PTL DEF Spec

(* No row is held twice, whatever the rounds record: Fixpoint's look into  *)
(* the list it is appending to (slices.Contains).                          *)
THEOREM NoRowHeldTwice == Spec => []HeldOnce
<1>1. RoundInv => HeldOnce
  BY DEF RoundInv, HeldOnce
<1> QED
  BY <1>1, RoundsKeepRoundInv, PTL

(* A row a round found stale is in no list a later round reads. *)
THEOREM RemovedRowsStayOut == Spec => []RemovedStaysOut
<1>1. RoundInv => RemovedStaysOut
  BY DEF RoundInv, RemovedStaysOut
<1> QED
  BY <1>1, RoundsKeepRoundInv, PTL

-----------------------------------------------------------------------------
(* The moves the rows made: once recorded, once removed.  A removed row    *)
(* counts twice, since nothing is removed that was not recorded.           *)
Moved(held) == Cardinality(held) + 2 * Cardinality(removed)

(* Every round that answered paid for itself with a move, but the one that *)
(* is about to end the write.                                              *)
CountInv ==
  /\ phase = "calling" => rounds <= Moved(ToSet(rows))
  /\ phase = "keeping" =>
       /\ rounds <= 1 + Moved(Stays)
       /\ gone # {} => rounds <= Moved(Stays)
  /\ phase = "appending" =>
       /\ rounds <= 1 + Moved(ToSet(kept))
       /\ ~ Settled => rounds <= Moved(ToSet(kept))
  /\ RoundBound

LEMMA RowsAreFinite ==
  ASSUME NEW S \in SUBSET Row
  PROVE  IsFiniteSet(S) /\ Cardinality(S) \in Nat /\ Cardinality(S) <= Cardinality(Row)
BY RowIsFinite, FS_Subset, FS_CardinalityType

LEMMA SeqInRow == \A s \in Seq(Row) : ToSet(s) \in SUBSET Row
BY LenProperties DEF ToSet

(* Rows held and rows removed are different rows, so no more than two      *)
(* moves a row were made.                                                  *)
LEMMA MovesFit ==
  ASSUME NEW S \in SUBSET Row, removed \in SUBSET Row, S \cap removed = {}
  PROVE  Moved(S) \in Nat /\ Moved(S) <= 2 * Cardinality(Row)
<1>1. /\ IsFiniteSet(S) /\ IsFiniteSet(removed)
      /\ Cardinality(S) \in Nat /\ Cardinality(removed) \in Nat
      /\ Cardinality(removed) <= Cardinality(Row)
  BY RowsAreFinite
<1>2. Cardinality(S \union removed) = Cardinality(S) + Cardinality(removed)
  <2>1. Cardinality(S \cap removed) = 0
    BY FS_EmptySet
  <2>2. Cardinality(S \union removed)
          = Cardinality(S) + Cardinality(removed) - Cardinality(S \cap removed)
    BY <1>1, FS_Union
  <2> QED
    BY <1>1, <2>1, <2>2
<1>3. Cardinality(S \union removed) <= Cardinality(Row) /\ Cardinality(Row) \in Nat
  BY RowsAreFinite
<1> QED
  BY <1>1, <1>2, <1>3 DEF Moved

(* A round's stale rows leave the rows held and join those removed: one    *)
(* more move each.                                                         *)
LEMMA RemovingMoves ==
  ASSUME TypeOK, ToSet(rows) \cap removed = {},
         NEW stale \in SUBSET ToSet(rows), removed' = removed \union stale
  PROVE  /\ Moved(ToSet(rows)) + Cardinality(stale)
              = Cardinality(ToSet(rows) \ stale) + 2 * Cardinality(removed')
         /\ Cardinality(stale) \in Nat
         /\ stale # {} => Cardinality(stale) >= 1
<1> DEFINE H == ToSet(rows)
<1>1. H \in SUBSET Row /\ stale \in SUBSET Row /\ removed \in SUBSET Row
  BY SeqInRow DEF TypeOK
<1>2. /\ IsFiniteSet(H) /\ IsFiniteSet(stale) /\ IsFiniteSet(removed)
      /\ Cardinality(H) \in Nat /\ Cardinality(stale) \in Nat
      /\ Cardinality(removed) \in Nat
  BY <1>1, RowsAreFinite
<1>3. Cardinality(H \ stale) = Cardinality(H) - Cardinality(stale)
  <2>1. H \cap stale = stale
    OBVIOUS
  <2> QED
    BY <1>2, <2>1, FS_Difference
<1>4. Cardinality(removed') = Cardinality(removed) + Cardinality(stale)
  <2>1. removed \cap stale = {}
    OBVIOUS
  <2>2. Cardinality(removed \cap stale) = 0
    BY <2>1, FS_EmptySet
  <2>3. Cardinality(removed \union stale)
          = Cardinality(removed) + Cardinality(stale) - Cardinality(removed \cap stale)
    BY <1>2, FS_Union
  <2> QED
    BY <1>2, <2>2, <2>3
<1>5. stale # {} => Cardinality(stale) >= 1
  BY <1>2, FS_EmptySet
<1> QED
  BY <1>2, <1>3, <1>4, <1>5 DEF Moved

LEMMA CountStep == TypeOK /\ RoundInv /\ CountInv /\ [Next]_vars => CountInv'
<1> SUFFICES ASSUME TypeOK, RoundInv, CountInv, [Next]_vars PROVE CountInv'
  OBVIOUS
<1> USE DEF CountInv
<1>1. rounds \in Nat
  BY DEF TypeOK
<1>2. ASSUME NEW rec \in BoundedSeq(Row, MaxAnswer), NEW stale \in SUBSET ToSet(rows),
             Answer(rec, stale)
      PROVE  CountInv'
  <2> DEFINE Left == ToSet(rows) \ stale
  <2>1. /\ rounds <= Moved(ToSet(rows)) /\ rounds' <= rounds + 1 /\ rounds' \in Nat
        /\ phase' = "keeping" /\ gone' = stale /\ removed' = removed \union stale
        /\ ToSet(rows) \cap removed = {}
    BY <1>1, <1>2, CountingARound DEF Answer, RoundInv
  <2>2. Stays' = Left
    BY <1>2, EmptyList DEF Answer, Stays
  <2>3. /\ Moved(ToSet(rows)) + Cardinality(stale) = Moved(Stays)'
        /\ Cardinality(stale) \in Nat
        /\ stale # {} => Cardinality(stale) >= 1
    BY <2>1, <2>2, RemovingMoves DEF Moved
  <2>4. Moved(ToSet(rows)) \in Nat /\ Moved(ToSet(rows)) <= 2 * Cardinality(Row)
    BY <2>1, MovesFit, SeqInRow DEF TypeOK
  <2>5. Cardinality(Row) \in Nat
    BY RowsAreFinite
  <2> HIDE DEF Left
  <2> QED
    BY <1>1, <2>1, <2>3, <2>4, <2>5 DEF RoundBound
<1>3. CASE Fail
  <2>1. phase' = "failed" /\ rounds' <= rounds + 1 /\ rounds' \in Nat /\ rounds <= Moved(ToSet(rows))
    BY <1>1, <1>3, CountingARound DEF Fail
  <2>2. Moved(ToSet(rows)) \in Nat /\ Moved(ToSet(rows)) <= 2 * Cardinality(Row)
    BY <1>3, MovesFit, SeqInRow DEF TypeOK, RoundInv, Fail
  <2>3. Cardinality(Row) \in Nat
    BY RowsAreFinite
  <2> QED
    BY <1>1, <2>1, <2>2, <2>3 DEF RoundBound
<1>4. CASE Keep
  <2>1. ToSet(todo) = {Head(todo)} \union ToSet(todo')
    BY <1>4, TakingTheHead DEF Keep, TypeOK
  <2>2. ToSet(kept') = IF Head(todo) \in gone THEN ToSet(kept) ELSE ToSet(kept) \union {Head(todo)}
    BY <1>4, TakingTheHead, AppendingARow DEF Keep, TypeOK
  <2>3. Stays' = Stays
    BY <1>4, <2>1, <2>2 DEF Keep, Stays
  <2> QED
    BY <1>4, <2>3 DEF Keep, Moved, RoundBound
<1>5. CASE KeptAll
  <2>1. Stays = ToSet(kept)
    BY <1>5, EmptyList DEF KeptAll, Stays, RoundInv
  <2>2. ToSet(kept)' = ToSet(kept)
    BY <1>5 DEF KeptAll
  <2>3. Moved(ToSet(kept))' = Moved(ToSet(kept))
    BY <1>5, <2>2 DEF KeptAll, Moved
  <2>4. phase = "keeping" /\ phase' = "appending" /\ rounds' = rounds
    BY <1>5 DEF KeptAll
  <2>5. rounds' <= 1 + Moved(ToSet(kept))' /\ (gone # {} => rounds' <= Moved(ToSet(kept))')
    BY <2>1, <2>3, <2>4
  <2>6. ~ added
    BY <1>5 DEF KeptAll, RoundInv
  <2> QED
    BY <1>5, <2>4, <2>5, <2>6 DEF KeptAll, Settled, RoundBound
<1>6. CASE AppendRow
  <2>1. Head(todo) \in Row /\ phase = "appending" /\ phase' = "appending"
    BY <1>6, TakingTheHead DEF AppendRow, TypeOK
  <2>2. CASE Appends(Head(todo))
    <3>1. ToSet(kept') = ToSet(kept) \union {Head(todo)} /\ Head(todo) \notin ToSet(kept)
      BY <1>6, <2>1, <2>2, AppendingARow DEF AppendRow, Appends, TypeOK
    <3>2. Cardinality(ToSet(kept')) = Cardinality(ToSet(kept)) + 1
      <4>1. IsFiniteSet(ToSet(kept))
        BY RowsAreFinite, SeqInRow DEF TypeOK
      <4> QED
        BY <3>1, <4>1, FS_AddElement
    <3>3. /\ Cardinality(ToSet(kept)) \in Nat /\ Cardinality(removed) \in Nat
      BY RowsAreFinite, SeqInRow DEF TypeOK
    <3>4. removed' = removed /\ rounds' = rounds
      BY <1>6 DEF AppendRow
    <3>5. rounds' <= Moved(ToSet(kept))'
      BY <1>1, <2>1, <3>2, <3>3, <3>4 DEF Moved
    <3>6. Moved(ToSet(kept))' \in Nat
      BY <3>2, <3>3, <3>4 DEF Moved
    <3> QED
      BY <1>1, <2>1, <3>4, <3>5, <3>6 DEF RoundBound
  <2>3. CASE ~ Appends(Head(todo))
    BY <1>6, <2>1, <2>3 DEF AppendRow, Moved, Settled, RoundBound
  <2> QED
    BY <2>2, <2>3
<1>7. CASE Finish
  <2>1. ToSet(rows') = ToSet(kept)
    BY <1>7 DEF Finish
  <2>2. Moved(ToSet(rows))' = Moved(ToSet(kept))
    BY <1>7, <2>1 DEF Finish, Moved
  <2> QED
    BY <1>7, <2>2 DEF Finish, RoundBound
<1>8. CASE UNCHANGED vars
  BY <1>8 DEF vars, Moved, Stays, Settled, RoundBound
<1> QED
  BY <1>2, <1>3, <1>4, <1>5, <1>6, <1>7, <1>8 DEF Next

(* N distinct rows end within 2N + 1 rounds, whatever the rounds answer:   *)
(* the doc comment of Fixpoint.                                            *)
THEOREM WriteIsBounded == Spec => []RoundBound
<1>1. ASSUME Init PROVE CountInv
  <2>1. rounds = 0 /\ phase = "calling" /\ ToSet(rows) = {} /\ removed = {}
    BY <1>1, EmptyList DEF Init
  <2>2. Moved(ToSet(rows)) = 0 /\ Cardinality(Row) \in Nat
    BY <2>1, FS_EmptySet, RowsAreFinite DEF Moved
  <2> QED
    BY <2>1, <2>2 DEF CountInv, RoundBound
<1>2. CountInv => RoundBound
  BY DEF CountInv
<1> QED
  BY <1>1, <1>2, CountStep, TypeCorrect, RoundsKeepRoundInv, PTL DEF Spec

-----------------------------------------------------------------------------
(* How the list being built stands to the list read: every row still held  *)
(* is in it or ahead of the loop, and with nothing gone and nothing added  *)
(* it is the list read.                                                    *)
LifeInv ==
  /\ gone \subseteq removed
  /\ ToSet(rows) \ gone = ToSet(rows) \ removed
  /\ phase = "keeping" =>
       /\ ToSet(rows) \ removed = Stays
       /\ gone = {} => kept \o todo = rows
  /\ phase = "appending" =>
       /\ ToSet(rows) \ removed \subseteq ToSet(kept)
       /\ ~ added => ToSet(kept) = ToSet(rows) \ removed
       /\ Settled => kept = rows
       /\ ToSet(recorded) \subseteq ToSet(kept) \union removed \union ToSet(todo)

LEMMA LifeStep == TypeOK /\ RoundInv /\ LifeInv /\ [Next]_vars => LifeInv'
<1> SUFFICES ASSUME TypeOK, RoundInv, LifeInv, [Next]_vars PROVE LifeInv'
  OBVIOUS
<1> USE DEF LifeInv
<1>1. ASSUME NEW rec \in BoundedSeq(Row, MaxAnswer), NEW stale \in SUBSET ToSet(rows),
             Answer(rec, stale)
      PROVE  LifeInv'
  <2>1. Stays' = ToSet(rows) \ stale
    BY <1>1, EmptyList DEF Answer, Stays
  <2>2. ToSet(rows) \ stale = ToSet(rows) \ (removed \union stale)
    BY <1>1 DEF Answer, RoundInv
  <2>3. << >> \o rows = rows
    BY ConcatEmptySeq DEF TypeOK
  <2> QED
    BY <1>1, <2>1, <2>2, <2>3 DEF Answer
<1>2. CASE Fail
  BY <1>2 DEF Fail
<1>3. CASE Keep
  <2>1. /\ Head(todo) \in Row /\ Tail(todo) \in Seq(Row)
        /\ ToSet(todo) = {Head(todo)} \union ToSet(todo')
    BY <1>3, TakingTheHead DEF Keep, TypeOK
  <2>2. ToSet(kept') = IF Head(todo) \in gone THEN ToSet(kept) ELSE ToSet(kept) \union {Head(todo)}
    BY <1>3, TakingTheHead, AppendingARow DEF Keep, TypeOK
  <2>3. Stays' = Stays
    BY <1>3, <2>1, <2>2 DEF Keep, Stays
  <2>4. ASSUME gone = {}
        PROVE  kept' \o todo' = kept \o todo
    <3>1. kept' = kept \o <<Head(todo)>> /\ todo' = Tail(todo)
      BY <1>3, <2>1, <2>4, AppendIsConcat DEF Keep, TypeOK
    <3>2. <<Head(todo)>> \in Seq(Row) /\ <<Head(todo)>> \o Tail(todo) = todo
      BY <1>3, <2>1, ConcatSimplifications, HeadTailProperties DEF Keep, TypeOK
    <3> QED
      BY <2>1, <3>1, <3>2, ConcatAssociative DEF TypeOK
  <2> QED
    BY <1>3, <2>3, <2>4 DEF Keep
<1>4. CASE KeptAll
  <2>1. Stays = ToSet(kept)
    BY <1>4, EmptyList DEF KeptAll, Stays, RoundInv
  <2>2. kept \o << >> = kept
    BY ConcatEmptySeq DEF TypeOK
  <2> QED
    BY <1>4, <2>1, <2>2 DEF KeptAll, Settled, RoundInv
<1>5. CASE AppendRow
  <2>1. /\ Head(todo) \in Row
        /\ ToSet(todo) = {Head(todo)} \union ToSet(todo')
    BY <1>5, TakingTheHead DEF AppendRow, TypeOK
  <2>2. CASE Appends(Head(todo))
    <3>1. ToSet(kept') = ToSet(kept) \union {Head(todo)}
      BY <1>5, <2>1, <2>2, AppendingARow DEF AppendRow, TypeOK
    <3>2. added'
      BY <1>5, <2>2, Zenon DEF AppendRow
    <3> QED
      BY <1>5, <2>1, <3>1, <3>2 DEF AppendRow, Settled
  <2>3. CASE ~ Appends(Head(todo))
    BY <1>5, <2>1, <2>3 DEF AppendRow, Settled, Appends
  <2> QED
    BY <2>2, <2>3
<1>6. CASE Finish
  BY <1>6 DEF Finish, RoundInv
<1>7. CASE UNCHANGED vars
  BY <1>7 DEF vars, Stays, Settled
<1> QED
  BY <1>1, <1>2, <1>3, <1>4, <1>5, <1>6, <1>7 DEF Next

LEMMA RoundsKeepLifeInv == Spec => []LifeInv
<1>1. Init => LifeInv
  BY DEF Init, LifeInv
<1> QED
  BY <1>1, LifeStep, TypeCorrect, RoundsKeepRoundInv, PTL DEF Spec

(* The write answers the rows its last round read, and that round recorded *)
(* nothing that is neither held nor removed.                               *)
THEOREM AnswerIsAFixpoint == Spec => EndsOnAFixpoint
<1>1. ASSUME TypeOK, LifeInv, [Next]_vars
      PROVE  [phase' = "ended" =>
                rows' = rows /\ ToSet(recorded) \subseteq ToSet(rows) \union removed]_vars
  <2> SUFFICES ASSUME Next, phase' = "ended"
               PROVE  rows' = rows /\ ToSet(recorded) \subseteq ToSet(rows) \union removed
    BY <1>1
  <2>1. Finish
    <3>1. phase # "ended"
      BY DEF Next, Answer, Fail, Keep, KeptAll, AppendRow, Finish
    <3> QED
      BY <3>1 DEF Next, Answer, Fail, Keep, KeptAll, AppendRow
  <2>2. phase = "appending" /\ todo = << >> /\ Settled /\ rows' = kept
    BY <2>1 DEF Finish
  <2> QED
    BY <1>1, <2>2, EmptyList DEF LifeInv
<1> QED
  BY <1>1, TypeCorrect, RoundsKeepLifeInv, PTL DEF Spec, EndsOnAFixpoint

(* Row by row, the loop implements the life of a baseline row: recorded    *)
(* once, removed once, never back.                                         *)
THEOREM FixpointImplementsLifecycle == Spec => ImplementsLifecycle
<1> USE DEF StatusOf
<1>1. ASSUME Init PROVE Lifecycle!LInit
  <2>1. ToSet(rows) = {} /\ removed = {} /\ phase = "calling"
    BY <1>1, EmptyList DEF Init
  <2> QED
    BY <2>1 DEF Lifecycle!LInit
<1>2. ASSUME TypeOK, RoundInv, LifeInv, LifeInv', [Next]_vars
      PROVE  [Lifecycle!LNext]_Lifecycle!lvars
  <2> DEFINE S == [r \in Row |-> StatusOf(r)]
             E == phase \in {"ended", "failed"}
  <2>1. ASSUME removed' = removed, ToSet(rows)' \ removed = ToSet(rows) \ removed
        PROVE  S' = S
    BY <1>2, <2>1 DEF LifeInv
  <2>2. ASSUME NEW rec \in BoundedSeq(Row, MaxAnswer), NEW stale \in SUBSET ToSet(rows),
               Answer(rec, stale)
        PROVE  Lifecycle!Advance
    <3>1. \A r \in Row : <<StatusOf(r), StatusOf(r)'>> \in Lifecycle!Moves
      BY <1>2, <2>2 DEF Answer, LifeInv, RoundInv, Lifecycle!Moves, Lifecycle!RowStatus
    <3>2. S' \in [Row -> Lifecycle!RowStatus]
      BY DEF Lifecycle!RowStatus
    <3> QED
      BY <2>2, <3>1, <3>2 DEF Answer, Lifecycle!Advance
  <2>3. CASE Fail
    BY <2>1, <2>3 DEF Fail, Lifecycle!End, Lifecycle!LNext
  <2>4. CASE Keep \/ KeptAll \/ AppendRow
    BY <2>1, <2>4 DEF Keep, KeptAll, AppendRow, Lifecycle!lvars
  <2>5. CASE Finish
    <3>1. phase = "appending" /\ removed' = removed /\ rows' = kept
      BY <2>5 DEF Finish
    <3>2. CASE Settled
      BY <1>2, <2>1, <2>5, <3>1, <3>2 DEF Finish, LifeInv, Lifecycle!End, Lifecycle!LNext
    <3>3. CASE ~ Settled
      <4>1. \A r \in Row : <<StatusOf(r), StatusOf(r)'>> \in Lifecycle!Moves
        BY <1>2, <3>1 DEF LifeInv, Lifecycle!Moves, Lifecycle!RowStatus
      <4>2. S' \in [Row -> Lifecycle!RowStatus]
        BY DEF Lifecycle!RowStatus
      <4> QED
        BY <2>5, <3>1, <3>3, <4>1, <4>2 DEF Finish, Lifecycle!Advance, Lifecycle!LNext
    <3> QED
      BY <3>2, <3>3
  <2>6. CASE UNCHANGED vars
    BY <2>1, <2>6 DEF vars, Lifecycle!lvars
  <2> QED
    BY <1>2, <2>2, <2>3, <2>4, <2>5, <2>6 DEF Next, Lifecycle!LNext
<1> QED
  BY <1>1, <1>2, TypeCorrect, RoundsKeepRoundInv, RoundsKeepLifeInv, PTL
     DEF Spec, ImplementsLifecycle, Lifecycle!LSpec
=============================================================================
