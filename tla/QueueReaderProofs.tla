-------------------------- MODULE QueueReaderProofs --------------------------
(***************************************************************************)
(* Proofs of the safety properties of QueueReader, for any finite set of   *)
(* records, any size of a page and any bound on the moves.                 *)
(***************************************************************************)
EXTENDS QueueReader, SequenceTheorems, FiniteSetTheorems, TLAPS

(* The list: what a departure and an arrival do to the positions.          *)

LEMMA RemoveAtPositions ==
  ASSUME NEW S, NEW s \in Seq(S), NEW i \in 1..Len(s)
  PROVE  /\ RemoveAt(s, i) \in Seq(S) /\ Len(RemoveAt(s, i)) = Len(s) - 1
         /\ \A j \in 1..(Len(s) - 1) :
              RemoveAt(s, i)[j] = IF j < i THEN s[j] ELSE s[j + 1]
<1> DEFINE before == SubSeq(s, 1, i - 1)
           after == SubSeq(s, i + 1, Len(s))
<1>1. Len(s) \in Nat /\ \A j \in 1..Len(s) : s[j] \in S
  BY LenProperties, ElementOfSeq
<1>2. /\ before \in Seq(S) /\ Len(before) = i - 1
      /\ \A j \in 1..(i - 1) : before[j] = s[j]
  <2>1. \A j \in 1..(i - 1) : s[j] \in S
    BY <1>1
  <2>2. /\ before \in Seq(S) /\ Len(before) = IF 1 <= i - 1 THEN (i - 1) - 1 + 1 ELSE 0
        /\ \A j \in 1..((i - 1) - 1 + 1) : before[j] = s[1 + j - 1]
    BY <1>1, <2>1, SubSeqProperties
  <2> QED
    BY <1>1, <2>2
<1>3. /\ after \in Seq(S) /\ Len(after) = Len(s) - i
      /\ \A j \in 1..(Len(s) - i) : after[j] = s[i + j]
  <2>1. \A j \in (i + 1)..Len(s) : s[j] \in S
    BY <1>1
  <2>2. i + 1 \in Int /\ Len(s) \in Int
    BY <1>1
  <2>3. /\ after \in Seq(S)
        /\ Len(after) = IF i + 1 <= Len(s) THEN Len(s) - (i + 1) + 1 ELSE 0
        /\ \A j \in 1..(Len(s) - (i + 1) + 1) : after[j] = s[(i + 1) + j - 1]
    BY <2>1, <2>2, SubSeqProperties
  <2> QED
    BY <1>1, <2>3
<1>4. /\ before \o after \in Seq(S)
      /\ Len(before \o after) = Len(before) + Len(after)
      /\ \A j \in 1..(Len(before) + Len(after)) : (before \o after)[j] =
           IF j <= Len(before) THEN before[j] ELSE after[j - Len(before)]
  BY <1>2, <1>3, ConcatProperties
<1> HIDE DEF before, after
<1>5. RemoveAt(s, i) = before \o after
  BY DEF RemoveAt, before, after
<1>6. ASSUME NEW j \in 1..(Len(s) - 1)
      PROVE  (before \o after)[j] = IF j < i THEN s[j] ELSE s[j + 1]
  <2>1. j \in 1..(Len(before) + Len(after)) /\ (j <= Len(before) <=> j < i)
    BY <1>1, <1>2, <1>3
  <2>2. CASE j < i
    BY <1>2, <1>4, <2>1, <2>2
  <2>3. CASE ~(j < i)
    <3>1. (before \o after)[j] = after[j - Len(before)]
      BY <1>4, <2>1, <2>3
    <3>2. j - Len(before) \in 1..(Len(s) - i) /\ i + (j - Len(before)) = j + 1
      BY <1>1, <1>2, <2>3
    <3> QED
      BY <1>3, <2>3, <3>1, <3>2
  <2> QED
    BY <2>2, <2>3
<1>7. Len(before \o after) = Len(s) - 1
  BY <1>1, <1>2, <1>3, <1>4
<1> QED
  BY <1>4, <1>5, <1>6, <1>7

LEMMA InsertAtPositions ==
  ASSUME NEW S, NEW s \in Seq(S), NEW e \in S, NEW i \in 1..(Len(s) + 1)
  PROVE  /\ InsertAt(s, i, e) \in Seq(S) /\ Len(InsertAt(s, i, e)) = Len(s) + 1
         /\ \A j \in 1..(Len(s) + 1) :
              InsertAt(s, i, e)[j] =
                IF j < i THEN s[j] ELSE IF j = i THEN e ELSE s[j - 1]
<1> DEFINE before == SubSeq(s, 1, i - 1)
           upTo == before \o <<e>>
           after == SubSeq(s, i, Len(s))
<1>1. Len(s) \in Nat /\ \A j \in 1..Len(s) : s[j] \in S
  BY LenProperties, ElementOfSeq
<1>2. /\ before \in Seq(S) /\ Len(before) = i - 1
      /\ \A j \in 1..(i - 1) : before[j] = s[j]
  <2>1. \A j \in 1..(i - 1) : s[j] \in S
    BY <1>1
  <2>2. /\ before \in Seq(S) /\ Len(before) = IF 1 <= i - 1 THEN (i - 1) - 1 + 1 ELSE 0
        /\ \A j \in 1..((i - 1) - 1 + 1) : before[j] = s[1 + j - 1]
    BY <1>1, <2>1, SubSeqProperties
  <2> QED
    BY <1>1, <2>2
<1>3. /\ after \in Seq(S) /\ Len(after) = Len(s) - i + 1
      /\ \A j \in 1..(Len(s) - i + 1) : after[j] = s[i + j - 1]
  <2>1. /\ \A j \in i..Len(s) : s[j] \in S
        /\ i \in Int /\ Len(s) \in Int
    BY <1>1
  <2>2. /\ after \in Seq(S) /\ Len(after) = IF i <= Len(s) THEN Len(s) - i + 1 ELSE 0
        /\ \A j \in 1..(Len(s) - i + 1) : after[j] = s[i + j - 1]
    BY <2>1, SubSeqProperties
  <2> QED
    BY <1>1, <2>2
<1> HIDE DEF before, after
<1>4. /\ upTo \in Seq(S) /\ Len(upTo) = i
      /\ \A j \in 1..i : upTo[j] = IF j < i THEN s[j] ELSE e
  <2>1. <<e>> \in Seq(S) /\ Len(<<e>>) = 1 /\ <<e>>[1] = e
    OBVIOUS
  <2>2. /\ upTo \in Seq(S) /\ Len(upTo) = Len(before) + Len(<<e>>)
        /\ \A j \in 1..(Len(before) + Len(<<e>>)) :
             upTo[j] = IF j <= Len(before) THEN before[j] ELSE <<e>>[j - Len(before)]
    BY <1>2, <2>1, ConcatProperties
  <2>3. \A j \in 1..i : upTo[j] = IF j <= i - 1 THEN before[j] ELSE <<e>>[j - (i - 1)]
    BY <1>2, <2>1, <2>2
  <2> HIDE DEF upTo
  <2>4. ASSUME NEW j \in 1..i PROVE upTo[j] = IF j < i THEN s[j] ELSE e
    <3>1. CASE j < i
      BY <1>2, <2>3, <3>1
    <3>2. CASE j = i
      BY <2>1, <2>3, <3>2
    <3> QED
      BY <3>1, <3>2
  <2>5. Len(upTo) = i
    BY <1>2, <2>1, <2>2
  <2> QED
    BY <2>2, <2>4, <2>5
<1> HIDE DEF upTo
<1>5. /\ upTo \o after \in Seq(S)
      /\ Len(upTo \o after) = Len(upTo) + Len(after)
      /\ \A j \in 1..(Len(upTo) + Len(after)) : (upTo \o after)[j] =
           IF j <= Len(upTo) THEN upTo[j] ELSE after[j - Len(upTo)]
  BY <1>3, <1>4, ConcatProperties
<1>6. InsertAt(s, i, e) = upTo \o after
  BY DEF InsertAt, before, upTo, after
<1>7. Len(upTo \o after) = Len(s) + 1
  BY <1>1, <1>3, <1>4, <1>5
<1>8. ASSUME NEW j \in 1..(Len(s) + 1)
      PROVE  (upTo \o after)[j] = IF j < i THEN s[j] ELSE IF j = i THEN e ELSE s[j - 1]
  <2>1. j \in 1..(Len(upTo) + Len(after)) /\ (j <= Len(upTo) <=> j <= i)
    BY <1>1, <1>3, <1>4
  <2>2. CASE j <= i
    BY <1>4, <1>5, <2>1, <2>2
  <2>3. CASE ~(j <= i)
    <3>1. (upTo \o after)[j] = after[j - Len(upTo)]
      BY <1>5, <2>1, <2>3
    <3>2. j - Len(upTo) \in 1..(Len(s) - i + 1) /\ i + (j - Len(upTo)) - 1 = j - 1
      BY <1>1, <1>4, <2>3
    <3>3. after[j - Len(upTo)] = s[i + (j - Len(upTo)) - 1]
      BY <1>3, <3>2
    <3>4. ~(j < i) /\ j # i
      BY <1>1, <2>3
    <3> QED
      BY <3>1, <3>2, <3>3, <3>4
  <2> QED
    BY <2>2, <2>3
<1> QED
  BY <1>5, <1>6, <1>7, <1>8
-----------------------------------------------------------------------------
(* The invariant.                                                          *)

\* Types of the locals, the result and the history.
LocalsOK ==
  /\ list \in Seq(Records) /\ IsInjective(list)
  /\ reader \in [pc : {"idle", "reading"}, total : Nat, page : Nat,
                 last : SUBSET Records, rows : SUBSET Records, more : BOOLEAN]
  /\ reader.page <= reader.total /\ reader.last \subseteq reader.rows
  /\ result \in [status : PollStatus, rows : SUBSET Records]
  /\ result.status \in {"AUTH_REQUIRED", "FAILED"} => result.rows = {}
  /\ hist \in [whole : SUBSET Records, gone : Nat, moved : BOOLEAN]
  /\ moves \in 0..MaxMoves

Reading == reader.pc = "reading"

\* Of the records that stayed listed, those that are by now on the pages read
\* and were not there when their page was.
Missed == {r \in hist.whole \ reader.rows :
             \E i \in DOMAIN list : i <= reader.page * PageSize /\ list[i] = r}

StillListed == Reading => hist.whole \subseteq ToSet(list)

\* Each of the missed came over the edge of those pages by a departure.
DeparturesHide == Reading => Cardinality(Missed) <= hist.gone

\* Once the end of the list was rendered, nothing but them is unread.
EndIsAll ==
  Reading /\ (~reader.more \/ reader.last = {}) =>
    Cardinality(hist.whole \ reader.rows) <= hist.gone

Quiet ==
  Reading /\ ~hist.moved =>
    hist.gone = 0 /\ hist.whole = ToSet(list) /\ reader.rows \subseteq hist.whole

IndInv ==
  /\ LocalsOK /\ StillListed /\ DeparturesHide /\ EndIsAll /\ Quiet
  /\ ExactWhenQuiet /\ OnlyDeparturesHide

\* Fewer records are no larger a number.
LEMMA FewerRecords ==
  ASSUME NEW A \in SUBSET Records, NEW B \in SUBSET A
  PROVE  /\ Cardinality(A) \in Nat /\ Cardinality(B) \in Nat
         /\ Cardinality(B) <= Cardinality(A)
         /\ Cardinality(A) = 0 => A = {}
<1>1. IsFiniteSet(A)
  BY RecordsAssumption, FS_Subset
<1>2. IsFiniteSet(B) /\ Cardinality(B) <= Cardinality(A)
  BY <1>1, FS_Subset
<1> QED
  BY <1>1, <1>2, FS_CardinalityType, FS_EmptySet

\* Whole pages: the rows of page n are those between the first (n - 1) pages
\* and the first n, all of them if no page follows, none if the list is shorter.
LEMMA Pages ==
  ASSUME NEW n \in Nat, LocalsOK
  PROVE  /\ n * PageSize \in Nat /\ (n + 1) * PageSize = n * PageSize + PageSize
         /\ PageSize >= 1 /\ Len(list) \in Nat /\ DOMAIN list = 1..Len(list)
         /\ Page(n + 1) = {list[i] : i \in DOMAIN list \cap
                             (n * PageSize + 1)..(n * PageSize + PageSize)}
         /\ Page(n + 1) \subseteq Records
         /\ Page(n + 1) = {} => Len(list) <= n * PageSize
<1>1. n * PageSize \in Nat /\ (n + 1) * PageSize = n * PageSize + PageSize /\ PageSize >= 1
      /\ PageSize \in Nat
  BY PageSizeAssumption
<1>2. Len(list) \in Nat /\ DOMAIN list = 1..Len(list) /\ \A i \in 1..Len(list) : list[i] \in Records
  BY LenProperties, ElementOfSeq DEF LocalsOK
<1>3. Page(n + 1) = {list[i] : i \in DOMAIN list \cap
                             (n * PageSize + 1)..(n * PageSize + PageSize)}
  <2>1. (n + 1) - 1 = n
    OBVIOUS
  <2> QED
    BY <1>1, <2>1 DEF Page
<1>4. Page(n + 1) \subseteq Records
  BY <1>2, <1>3
<1>5. ASSUME Len(list) > n * PageSize PROVE Page(n + 1) # {}
  <2>1. n * PageSize + 1 \in DOMAIN list \cap (n * PageSize + 1)..(n * PageSize + PageSize)
    BY <1>1, <1>2, <1>5
  <2> QED
    BY <1>3, <2>1
<1> QED
  BY <1>1, <1>2, <1>3, <1>4, <1>5

LEMMA InitInv == Init => IndInv
<1> SUFFICES ASSUME Init PROVE IndInv
  OBVIOUS
<1>1. list \in Seq(Records) /\ IsInjective(list)
  <2>1. PICK n \in 0..Cardinality(Records) : list \in [1..n -> Records]
    BY DEF Init, Lists, SeqOf
  <2>2. n \in Nat
    BY <2>1, RecordsAssumption, FS_CardinalityType
  <2> QED
    BY <2>1, <2>2, SeqDef DEF Init, Lists
<1>2. LocalsOK
  BY <1>1, MovesAssumption DEF Init, LocalsOK, Resting, NoHistory, PollStatus
<1> QED
  BY <1>2 DEF Init, IndInv, Resting, Reading, StillListed, DeparturesHide, EndIsAll, Quiet,
              ExactWhenQuiet, OnlyDeparturesHide, Completed
-----------------------------------------------------------------------------
(* A read.                                                                 *)

LEMMA ReadFirstPageInv ==
  ASSUME IndInv, ReadFirstPage
  PROVE  IndInv'
<1> USE DEF IndInv
<1>1. /\ reader' = [pc |-> "reading", total |-> PageCount, page |-> 1, last |-> Page(1),
                    rows |-> Page(1), more |-> PagesAfter(1)]
      /\ hist' = [whole |-> ToSet(list), gone |-> 0, moved |-> FALSE]
      /\ UNCHANGED <<list, result, moves>>
  BY DEF ReadFirstPage, NoHistory
<1>2. /\ PageSize \in Nat /\ PageSize >= 1 /\ Len(list) \in Nat
      /\ DOMAIN list = 1..Len(list)
      /\ Page(1) = {list[i] : i \in DOMAIN list \cap 1..PageSize}
      /\ Page(1) \subseteq Records
      /\ Page(1) = {} => Len(list) = 0
      /\ PagesAfter(1) <=> Len(list) > PageSize
  <2>1. 0 * PageSize = 0 /\ 1 * PageSize = PageSize
    BY PageSizeAssumption
  <2>2. 0 + 1 = 1 /\ 0 \in Nat /\ LocalsOK
    OBVIOUS
  <2>3. /\ PageSize >= 1 /\ Len(list) \in Nat /\ DOMAIN list = 1..Len(list)
        /\ Page(0 + 1) = {list[i] : i \in DOMAIN list \cap
                            (0 * PageSize + 1)..(0 * PageSize + PageSize)}
        /\ Page(0 + 1) \subseteq Records
        /\ Page(0 + 1) = {} => Len(list) <= 0 * PageSize
    BY <2>2, Pages
  <2>4. 0 + PageSize = PageSize /\ PageSize \in Nat
    BY PageSizeAssumption
  <2>5. /\ Page(1) = {list[i] : i \in DOMAIN list \cap 1..PageSize}
        /\ Page(1) \subseteq Records
        /\ Page(1) = {} => Len(list) <= 0
    BY <2>1, <2>2, <2>3, <2>4
  <2>6. PagesAfter(1) <=> Len(list) > PageSize
    BY <2>1 DEF PagesAfter
  <2> QED
    BY <2>3, <2>4, <2>5, <2>6
<1>3. ToSet(list) \subseteq Records /\ Page(1) \subseteq ToSet(list)
  BY <1>2, ElementOfSeq DEF ToSet, LocalsOK
<1>4. PageCount \in Nat /\ PageCount >= 1
  BY <1>2, PageSizeAssumption DEF PageCount, LocalsOK
<1>5. LocalsOK'
  BY <1>1, <1>2, <1>3, <1>4 DEF LocalsOK, PagesAfter
<1>6. Missed' = {}
  BY <1>1, <1>2 DEF Missed
<1>7. ~reader'.more \/ reader'.last = {} => hist'.whole \ reader'.rows = {}
  <2>1. ~reader'.more \/ reader'.last = {} => Len(list) <= PageSize
    BY <1>1, <1>2
  <2>2. Len(list) <= PageSize => ToSet(list) \subseteq Page(1)
    BY <1>2 DEF ToSet
  <2> QED
    BY <1>1, <2>1, <2>2
<1>8. StillListed' /\ Quiet'
  BY <1>1, <1>3 DEF StillListed, Quiet
<1>9. DeparturesHide' /\ EndIsAll'
  BY <1>1, <1>6, <1>7, FS_EmptySet DEF DeparturesHide, EndIsAll
<1>10. ExactWhenQuiet' /\ OnlyDeparturesHide'
  BY <1>1 DEF ExactWhenQuiet, OnlyDeparturesHide, Completed
<1> QED
  BY <1>5, <1>8, <1>9, <1>10

\* The next page, or once more the rows of the page before.
LEMMA ReadNextPageInv ==
  ASSUME IndInv, ReadNextPage, reader'.pc = "reading"
  PROVE  IndInv'
<1> USE DEF IndInv
<1> DEFINE n == reader.page + 1
           K == reader.page * PageSize
<1>1. PICK content \in {Page(n), reader.last} :
        /\ reader' = [reader EXCEPT !.page = n, !.last = content,
                        !.rows = Merged(content), !.more = PagesAfter(n)]
        /\ content = reader.last => content = {}
  <2>1. PICK content \in {Page(n), reader.last} :
          IF Stale(content) THEN Ends("PARTIAL", reader.rows)
          ELSE reader' = [reader EXCEPT !.page = n, !.last = content,
                            !.rows = Merged(content), !.more = PagesAfter(n)]
    BY DEF ReadNextPage
  <2>2. ~Stale(content)
    BY <2>1 DEF Ends, Resting
  <2> QED
    BY <2>1, <2>2 DEF Stale
<1>2. /\ Reading /\ reader.page < reader.total
      /\ UNCHANGED <<list, hist, moves, result>>
  BY DEF ReadNextPage, Reading, Ends, Resting
<1>3. /\ reader.page \in Nat /\ n \in Nat
      /\ reader.last \subseteq reader.rows /\ reader.rows \subseteq Records
      /\ hist.whole \subseteq Records /\ hist.gone \in Nat
  BY DEF LocalsOK
<1>4. /\ K \in Nat /\ n * PageSize = K + PageSize /\ PageSize >= 1 /\ PageSize \in Nat
      /\ Len(list) \in Nat /\ DOMAIN list = 1..Len(list)
      /\ Page(n) = {list[i] : i \in DOMAIN list \cap (K + 1)..(K + PageSize)}
      /\ Page(n) \subseteq Records
      /\ Page(n) = {} => Len(list) <= K
      /\ PagesAfter(n) <=> Len(list) > K + PageSize
  BY <1>3, Pages, PageSizeAssumption DEF PagesAfter
<1>5. /\ reader'.pc = "reading" /\ reader'.page = n /\ reader'.last = content
      /\ reader'.rows = reader.rows \cup content
      /\ reader'.more <=> Len(list) > K + PageSize
      /\ reader'.total = reader.total
  BY <1>1, <1>2, <1>4 DEF LocalsOK, Merged, Reading
<1> HIDE DEF n, K
<1>6. LocalsOK'
  <2>1. reader' \in [pc : {"idle", "reading"}, total : Nat, page : Nat,
                     last : SUBSET Records, rows : SUBSET Records, more : BOOLEAN]
    <3>1. Merged(content) \in SUBSET Records /\ content \in SUBSET Records
      BY <1>3, <1>4 DEF Merged
    <3>2. PagesAfter(n) \in BOOLEAN
      BY DEF PagesAfter
    <3> QED
      BY <1>1, <1>3, <3>1, <3>2 DEF LocalsOK
  <2>2. reader'.page <= reader'.total
    BY <1>2, <1>3, <1>5 DEF n, LocalsOK
  <2> QED
    BY <1>2, <1>5, <2>1, <2>2 DEF LocalsOK
<1>7. StillListed' /\ Quiet'
  <2>1. Page(n) \subseteq ToSet(list)
    BY <1>4 DEF ToSet
  <2> QED
    BY <1>2, <1>3, <1>5, <2>1 DEF StillListed, Quiet, Reading, ToSet
<1>8. Missed' = {r \in hist.whole \ (reader.rows \cup content) :
                   \E i \in DOMAIN list : i <= K + PageSize /\ list[i] = r}
  BY <1>2, <1>4, <1>5 DEF Missed
<1>9. \/ Missed' \subseteq Missed /\ content = Page(n)
      \/ Cardinality(hist.whole \ reader.rows) <= hist.gone /\ content = {}
  <2>1. CASE content = Page(n)
    <3>1. ASSUME NEW r \in Missed' PROVE r \in Missed
      <4>1. PICK i \in DOMAIN list : i <= K + PageSize /\ list[i] = r
        BY <1>8
      <4>2. i <= K
        BY <1>4, <1>8, <2>1, <4>1
      <4> QED
        BY <1>8, <4>1, <4>2 DEF Missed, K
    <3> QED
      BY <2>1, <3>1
  <2>2. CASE content = reader.last
    BY <1>1, <1>2, <2>2 DEF EndIsAll
  <2> QED
    BY <1>1, <2>1, <2>2
<1>10. /\ Missed \subseteq hist.whole \ reader.rows /\ Missed' \subseteq hist.whole \ reader'.rows
       /\ hist.whole \ reader'.rows \subseteq hist.whole \ reader.rows
  BY <1>5, <1>8 DEF Missed
<1>11. Cardinality(Missed) <= hist.gone
  BY <1>2 DEF DeparturesHide
<1>12. Cardinality(Missed') <= hist.gone /\ Cardinality(Missed') \in Nat
  <2>1. Cardinality(Missed') \in Nat /\ Cardinality(Missed) \in Nat
    BY <1>3, <1>10, FewerRecords
  <2>2. CASE Missed' \subseteq Missed
    <3>1. Missed \in SUBSET Records
      BY <1>3, <1>10
    <3>2. Cardinality(Missed') <= Cardinality(Missed)
      BY <2>2, <3>1, FewerRecords
    <3> QED
      BY <1>3, <1>11, <2>1, <3>2
  <2>3. CASE Cardinality(hist.whole \ reader.rows) <= hist.gone
    <3>1. hist.whole \ reader.rows \in SUBSET Records
          /\ Missed' \in SUBSET (hist.whole \ reader.rows)
      BY <1>3, <1>10
    <3>2. /\ Cardinality(Missed') <= Cardinality(hist.whole \ reader.rows)
          /\ Cardinality(hist.whole \ reader.rows) \in Nat
      BY <3>1, FewerRecords
    <3> QED
      BY <1>3, <2>1, <2>3, <3>2
  <2> QED
    BY <1>9, <2>2, <2>3
<1>13. DeparturesHide'
  BY <1>2, <1>12 DEF DeparturesHide
<1>14. EndIsAll'
  <2> SUFFICES ASSUME ~reader'.more \/ content = {}
               PROVE  Cardinality(hist.whole \ reader'.rows) <= hist.gone
    BY <1>2, <1>5 DEF EndIsAll
  <2>1. CASE Cardinality(hist.whole \ reader.rows) <= hist.gone /\ content = {}
    BY <1>5, <2>1
  <2>2. CASE Missed' \subseteq Missed /\ content = Page(n)
    <3>1. Len(list) <= K + PageSize
      <4>1. Len(list) <= K \/ ~(Len(list) > K + PageSize)
        BY <1>4, <1>5, <2>2
      <4> QED
        BY <1>4, <4>1
    <3>2. hist.whole \subseteq ToSet(list)
      BY <1>2 DEF StillListed
    <3>3. hist.whole \ reader'.rows \subseteq Missed'
      BY <1>4, <1>5, <1>8, <3>1, <3>2 DEF ToSet
    <3>4. hist.whole \ reader'.rows = Missed'
      BY <1>10, <3>3
    <3> QED
      BY <1>12, <3>4
  <2> QED
    BY <1>9, <2>1, <2>2
<1>15. ExactWhenQuiet' /\ OnlyDeparturesHide'
  BY <1>5 DEF ExactWhenQuiet, OnlyDeparturesHide, Completed
<1> QED
  BY <1>6, <1>7, <1>13, <1>14, <1>15

\* A result that claims the whole queue comes with every record but those that
\* departures hid, and any other claims nothing.
LEMMA EndsInv ==
  ASSUME IndInv, NEW status \in PollStatus, NEW rows \in SUBSET Records,
         Ends(status, rows), UNCHANGED <<list, moves>>,
         status \in {"AUTH_REQUIRED", "FAILED"} => rows = {},
         \/ status # "COMPLETE" /\ hist' \in {hist, NoHistory}
         \/ Reading /\ ~reader.more /\ rows = reader.rows /\ hist' = hist
  PROVE  IndInv'
<1> USE DEF IndInv
<1>1. result' = [status |-> status, rows |-> rows] /\ reader' = Resting
  BY DEF Ends
<1>2. LocalsOK'
  <2>1. hist' \in [whole : SUBSET Records, gone : Nat, moved : BOOLEAN]
    <3>1. CASE hist' = hist
      BY <3>1 DEF LocalsOK
    <3>2. CASE hist' = NoHistory
      BY <3>2 DEF NoHistory
    <3> QED
      BY <3>1, <3>2
  <2> QED
    BY <1>1, <2>1 DEF LocalsOK, Resting
<1>3. StillListed' /\ DeparturesHide' /\ EndIsAll' /\ Quiet'
  BY <1>1 DEF StillListed, DeparturesHide, EndIsAll, Quiet, Reading, Resting
<1>4. CASE status # "COMPLETE"
  BY <1>1, <1>2, <1>3, <1>4 DEF ExactWhenQuiet, OnlyDeparturesHide, Completed
<1>5. CASE Reading /\ ~reader.more /\ rows = reader.rows /\ hist' = hist
  <2>1. Cardinality(hist.whole \ rows) <= hist.gone
    BY <1>5 DEF EndIsAll
  <2>2. ASSUME ~hist.moved PROVE rows = hist.whole
    <3>1. hist.gone = 0 /\ rows \subseteq hist.whole
      BY <1>5, <2>2 DEF Quiet
    <3>2. hist.whole \ rows \in SUBSET Records
      BY DEF LocalsOK
    <3>3. hist.whole \ rows = {}
      BY <2>1, <3>1, <3>2, FewerRecords
    <3> QED
      BY <3>1, <3>3
  <2>3. ExactWhenQuiet' /\ OnlyDeparturesHide'
    BY <1>1, <1>5, <2>1, <2>2 DEF ExactWhenQuiet, OnlyDeparturesHide
  <2> QED
    BY <1>2, <1>3, <2>3
<1> QED
  BY <1>4, <1>5
-----------------------------------------------------------------------------
(* The portal's users.                                                     *)

\* What a change of the list leaves to show: of the missed, those that came
\* over the edge are no more than the departures.
LEMMA MovesInv ==
  ASSUME IndInv, NEW newList \in Seq(Records), NEW departures \in {0, 1},
         IsInjective(newList), Moves(newList, departures),
         Reading => \E most \in SUBSET Records :
           /\ Missed' \subseteq most
           /\ Cardinality(most) <= Cardinality(Missed) + departures
  PROVE  IndInv'
<1> USE DEF IndInv
<1>1. /\ moves < MaxMoves /\ moves' = moves + 1 /\ list' = newList
      /\ UNCHANGED <<reader, result>>
      /\ ~Reading => hist' = hist
      /\ Reading => hist' = [whole |-> hist.whole \cap ToSet(newList), moved |-> TRUE,
                             gone |-> hist.gone + departures]
  BY DEF Moves, Reading
<1>2. LocalsOK'
  <2>1. hist' \in [whole : SUBSET Records, gone : Nat, moved : BOOLEAN]
    <3>1. CASE ~Reading
      BY <1>1, <3>1 DEF LocalsOK
    <3>2. CASE Reading
      <4>1. hist.whole \cap ToSet(newList) \in SUBSET Records /\ hist.gone + departures \in Nat
        BY DEF LocalsOK
      <4>2. hist' = [whole |-> hist.whole \cap ToSet(newList), moved |-> TRUE,
                     gone |-> hist.gone + departures]
        BY <1>1, <3>2
      <4> HIDE DEF IndInv
      <4> QED
        BY <4>1, <4>2
    <3> QED
      BY <3>1, <3>2
  <2>2. moves' \in 0..MaxMoves
    BY <1>1, MovesAssumption DEF LocalsOK
  <2> QED
    BY <1>1, <2>1, <2>2 DEF LocalsOK
<1>3. CASE ~Reading
  BY <1>1, <1>2, <1>3 DEF StillListed, DeparturesHide, EndIsAll, Quiet, Reading,
                          ExactWhenQuiet, OnlyDeparturesHide, Completed
<1>4. CASE Reading
  <2>1. /\ hist'.whole \subseteq hist.whole /\ hist'.whole \subseteq ToSet(list')
        /\ hist'.moved /\ hist'.gone = hist.gone + departures
    BY <1>1, <1>4
  <2>2. hist.gone \in Nat /\ hist.whole \subseteq Records /\ Missed \subseteq Records
    BY DEF LocalsOK, Missed
  <2>3. StillListed' /\ Quiet' /\ ExactWhenQuiet' /\ OnlyDeparturesHide'
    BY <1>1, <1>4, <2>1 DEF StillListed, Quiet, Reading, ExactWhenQuiet,
                            OnlyDeparturesHide, Completed
  <2>4. Cardinality(Missed') <= hist'.gone
    <3>1. PICK most \in SUBSET Records :
            /\ Missed' \subseteq most
            /\ Cardinality(most) <= Cardinality(Missed) + departures
      BY <1>4
    <3>2. Missed' \in SUBSET most
      BY <3>1
    <3>3. /\ Cardinality(Missed') <= Cardinality(most)
          /\ Cardinality(Missed') \in Nat /\ Cardinality(most) \in Nat
      BY <3>2, FewerRecords
    <3>4. Cardinality(Missed) <= hist.gone /\ Cardinality(Missed) \in Nat
      BY <1>4, <2>2, FewerRecords DEF DeparturesHide
    <3> QED
      BY <2>1, <2>2, <3>1, <3>3, <3>4
  <2>5. ~reader'.more \/ reader'.last = {} =>
          Cardinality(hist'.whole \ reader'.rows) <= hist'.gone
    <3> SUFFICES ASSUME ~reader.more \/ reader.last = {}
                 PROVE  Cardinality(hist'.whole \ reader.rows) <= hist'.gone
      BY <1>1
    <3>1. /\ hist.whole \ reader.rows \in SUBSET Records
          /\ hist'.whole \ reader.rows \in SUBSET (hist.whole \ reader.rows)
      BY <2>1, <2>2
    <3>2. /\ Cardinality(hist'.whole \ reader.rows) <= Cardinality(hist.whole \ reader.rows)
          /\ Cardinality(hist'.whole \ reader.rows) \in Nat
          /\ Cardinality(hist.whole \ reader.rows) \in Nat
      BY <3>1, FewerRecords
    <3>3. Cardinality(hist.whole \ reader.rows) <= hist.gone
      BY <1>4 DEF EndIsAll
    <3> QED
      BY <2>1, <2>2, <3>2, <3>3
  <2> QED
    BY <1>2, <2>3, <2>4, <2>5 DEF DeparturesHide, EndIsAll
<1> QED
  BY <1>3, <1>4

\* A record that leaves brings the first row of the next page over the edge.
LEMMA LeavesInv ==
  ASSUME IndInv, NEW i \in DOMAIN list, Leaves(i)
  PROVE  IndInv'
<1> USE DEF IndInv
<1> DEFINE newList == RemoveAt(list, i)
           K == reader.page * PageSize
<1>1. /\ Len(list) \in Nat /\ DOMAIN list = 1..Len(list) /\ list \in Seq(Records)
      /\ \A j \in 1..Len(list) : list[j] \in Records
      /\ K \in Nat
  <2>1. reader.page \in Nat
    BY DEF LocalsOK
  <2> QED
    BY <2>1, Pages, ElementOfSeq DEF LocalsOK
<1>2. /\ newList \in Seq(Records) /\ Len(newList) = Len(list) - 1
      /\ \A j \in 1..(Len(list) - 1) : newList[j] = IF j < i THEN list[j] ELSE list[j + 1]
  BY <1>1, RemoveAtPositions
<1>3. Moves(newList, 1)
  BY DEF Leaves
<1>4. list' = newList /\ reader' = reader
  BY <1>3 DEF Moves
<1>missed. /\ Missed = {s \in hist.whole \ reader.rows :
                      \E j \in DOMAIN list : j <= K /\ list[j] = s}
      /\ Missed' = {s \in hist'.whole \ reader.rows :
                      \E j \in DOMAIN newList : j <= K /\ newList[j] = s}
  BY <1>4 DEF Missed
<1> HIDE DEF newList, K
<1>5. DOMAIN newList = 1..(Len(list) - 1)
  BY <1>1, <1>2, LenProperties
<1>6. IsInjective(newList)
  <2> SUFFICES ASSUME NEW a \in DOMAIN newList, NEW b \in DOMAIN newList,
                      newList[a] = newList[b]
               PROVE  a = b
    BY DEF IsInjective
  <2> DEFINE at(j) == IF j < i THEN j ELSE j + 1
  <2>1. newList[a] = list[at(a)] /\ newList[b] = list[at(b)]
    BY <1>2, <1>5
  <2>2. at(a) \in DOMAIN list /\ at(b) \in DOMAIN list
    BY <1>1, <1>5
  <2>3. at(a) = at(b)
    BY <2>1, <2>2 DEF LocalsOK, IsInjective
  <2> QED
    BY <1>1, <1>5, <2>3
<1>7. ASSUME Reading
      PROVE  \E most \in SUBSET Records :
               /\ Missed' \subseteq most
               /\ Cardinality(most) <= Cardinality(Missed) + 1
  <2>1. hist'.whole \subseteq hist.whole
    BY <1>3, <1>7 DEF Moves, Reading
  <2>2. ASSUME NEW r \in Missed' 
        PROVE  r \in Missed \/ (K + 1 \in DOMAIN list /\ r = list[K + 1])
    <3>1. PICK j \in 1..(Len(list) - 1) : j <= K /\ newList[j] = r
      BY <1>5, <1>missed
    <3>2. r \in hist.whole \ reader.rows
      BY <2>1, <1>missed
    <3>3. CASE j < i
      <4>1. r = list[j] /\ j \in DOMAIN list
        BY <1>1, <1>2, <3>1, <3>3
      <4> QED
        BY <1>missed, <3>1, <3>2, <4>1
    <3>4. CASE ~(j < i)
      <4>1. r = list[j + 1] /\ j + 1 \in DOMAIN list /\ (j + 1 <= K \/ j + 1 = K + 1)
        BY <1>1, <1>2, <3>1, <3>4
      <4> QED
        BY <1>1, <1>missed, <3>2, <4>1
    <3> QED
      BY <3>3, <3>4
  <2>3. Missed \in SUBSET Records /\ IsFiniteSet(Missed)
    BY RecordsAssumption, FS_Subset DEF Missed, LocalsOK
  <2>4. Cardinality(Missed) \in Nat
    BY <2>3, FS_CardinalityType
  <2>5. CASE K + 1 \in DOMAIN list
    <3>1. Cardinality(Missed \cup {list[K + 1]}) <= Cardinality(Missed) + 1
      <4>1. Cardinality(Missed \cup {list[K + 1]}) =
              IF list[K + 1] \in Missed THEN Cardinality(Missed) ELSE Cardinality(Missed) + 1
        BY <2>3, FS_AddElement
      <4> QED
        BY <2>4, <4>1
    <3>2. /\ Missed \cup {list[K + 1]} \in SUBSET Records
          /\ Missed' \subseteq Missed \cup {list[K + 1]}
      BY <1>1, <2>2, <2>3, <2>5
    <3> QED
      BY <3>1, <3>2
  <2>6. CASE K + 1 \notin DOMAIN list
    <3>1. Missed' \subseteq Missed
      BY <2>2, <2>6
    <3> QED
      BY <2>3, <2>4, <3>1
  <2> QED
    BY <2>5, <2>6
<1> QED
  BY <1>2, <1>3, <1>6, <1>7, MovesInv

\* A record that arrives moves rows away from the pages read, onto none.
LEMMA ArrivesInv ==
  ASSUME IndInv, NEW r \in Records, NEW i \in 1..(Len(list) + 1), Arrives(r, i)
  PROVE  IndInv'
<1> USE DEF IndInv
<1> DEFINE newList == InsertAt(list, i, r)
           K == reader.page * PageSize
<1>1. /\ Len(list) \in Nat /\ DOMAIN list = 1..Len(list) /\ list \in Seq(Records)
      /\ K \in Nat
  <2>1. reader.page \in Nat
    BY DEF LocalsOK
  <2> QED
    BY <2>1, Pages DEF LocalsOK
<1>2. /\ newList \in Seq(Records) /\ Len(newList) = Len(list) + 1
      /\ \A j \in 1..(Len(list) + 1) :
           newList[j] = IF j < i THEN list[j] ELSE IF j = i THEN r ELSE list[j - 1]
  BY <1>1, InsertAtPositions
<1>3. Moves(newList, 0) /\ \A j \in DOMAIN list : list[j] # r
  BY DEF Arrives, ToSet
<1>4. list' = newList /\ reader' = reader
  BY <1>3 DEF Moves
<1>missed. /\ Missed = {s \in hist.whole \ reader.rows :
                      \E j \in DOMAIN list : j <= K /\ list[j] = s}
      /\ Missed' = {s \in hist'.whole \ reader.rows :
                      \E j \in DOMAIN newList : j <= K /\ newList[j] = s}
  BY <1>4 DEF Missed
<1> HIDE DEF newList, K
<1>5. DOMAIN newList = 1..(Len(list) + 1)
  BY <1>1, <1>2, LenProperties
<1>6. IsInjective(newList)
  <2> SUFFICES ASSUME NEW a \in DOMAIN newList, NEW b \in DOMAIN newList,
                      newList[a] = newList[b]
               PROVE  a = b
    BY DEF IsInjective
  <2> DEFINE at(j) == IF j < i THEN j ELSE j - 1
  <2>1. \A j \in {a, b} : j # i => newList[j] = list[at(j)] /\ at(j) \in DOMAIN list
    BY <1>1, <1>2, <1>5
  <2>2. newList[i] = r
    BY <1>1, <1>2
  <2>3. CASE a = i \/ b = i
    BY <1>3, <2>1, <2>2, <2>3
  <2>4. CASE a # i /\ b # i
    <3>1. at(a) = at(b)
      BY <2>1, <2>4 DEF LocalsOK, IsInjective
    <3> QED
      BY <1>1, <1>5, <2>4, <3>1
  <2> QED
    BY <2>3, <2>4
<1>7. ASSUME Reading
      PROVE  \E most \in SUBSET Records :
               /\ Missed' \subseteq most
               /\ Cardinality(most) <= Cardinality(Missed) + 0
  <2>1. hist'.whole \subseteq hist.whole
    BY <1>3, <1>7 DEF Moves, Reading
  <2>2. hist.whole \subseteq ToSet(list)
    BY <1>7 DEF StillListed
  <2>3. ASSUME NEW s \in Missed' PROVE s \in Missed
    <3>1. PICK j \in 1..(Len(list) + 1) : j <= K /\ newList[j] = s
      BY <1>5, <1>missed
    <3>2. s \in hist.whole \ reader.rows
      BY <2>1, <1>missed
    <3>3. s # r
      BY <1>3, <2>2, <3>2 DEF ToSet
    <3>4. CASE j < i
      <4>1. s = list[j] /\ j \in DOMAIN list
        BY <1>1, <1>2, <3>1, <3>3, <3>4
      <4> QED
        BY <1>missed, <3>1, <3>2, <4>1
    <3>5. CASE j > i
      <4>1. s = list[j - 1] /\ j - 1 \in DOMAIN list /\ j - 1 <= K
        BY <1>1, <1>2, <3>1, <3>5
      <4> QED
        BY <1>1, <1>missed, <3>2, <4>1
    <3> QED
      BY <1>2, <3>1, <3>3, <3>4, <3>5
  <2>4. Missed \in SUBSET Records /\ Cardinality(Missed) \in Nat
    BY RecordsAssumption, FS_Subset, FS_CardinalityType DEF Missed, LocalsOK
  <2> QED
    BY <2>3, <2>4
<1> QED
  BY <1>2, <1>3, <1>6, <1>7, MovesInv
-----------------------------------------------------------------------------
\* The inductive invariant holds in every reachable state.
THEOREM Invariance == Spec => []IndInv
<1>1. IndInv /\ [Next]_vars => IndInv'
  <2> SUFFICES ASSUME IndInv, [Next]_vars PROVE IndInv'
    OBVIOUS
  <2>1. reader.rows \in SUBSET Records /\ {} \in SUBSET Records /\ reader.pc \in {"idle", "reading"}
    BY DEF IndInv, LocalsOK
  <2>2. CASE ReadFirstPage
    BY <2>2, ReadFirstPageInv
  <2>3. CASE ReadNextPage
    <3>1. CASE reader'.pc = "reading"
      BY <2>3, <3>1, ReadNextPageInv
    <3>2. CASE reader'.pc # "reading"
      <4>1. Ends("PARTIAL", reader.rows) /\ UNCHANGED <<list, hist, moves>>
        BY <2>3, <3>2 DEF ReadNextPage, IndInv, LocalsOK
      <4> QED
        BY <2>1, <4>1, EndsInv DEF PollStatus
    <3> QED
      BY <3>1, <3>2
  <2>4. CASE Interrupted
    <3>1. Ends("PARTIAL", reader.rows) /\ UNCHANGED <<list, hist, moves>>
      BY <2>4 DEF Interrupted
    <3> QED
      BY <2>1, <3>1, EndsInv DEF PollStatus
  <2>5. CASE AuthLost
    <3>1. Ends("AUTH_REQUIRED", {}) /\ UNCHANGED <<list, hist, moves>>
      BY <2>5 DEF AuthLost
    <3> QED
      BY <2>1, <3>1, EndsInv DEF PollStatus
  <2>6. CASE LastPageReached
    <3>1. /\ Ends(IF reader.more THEN "PARTIAL" ELSE "COMPLETE", reader.rows)
          /\ Reading /\ UNCHANGED <<list, hist, moves>>
      BY <2>6 DEF LastPageReached, Reading
    <3>2. CASE reader.more
      BY <2>1, <3>1, <3>2, EndsInv DEF PollStatus
    <3>3. CASE ~reader.more
      BY <2>1, <3>1, <3>3, EndsInv DEF PollStatus
    <3> QED
      BY <3>2, <3>3
  <2>7. ASSUME NEW status \in {"AUTH_REQUIRED", "FAILED"}, ReadNothing(status) PROVE IndInv'
    BY <2>1, <2>7, EndsInv DEF ReadNothing, PollStatus
  <2>8. ASSUME NEW r \in Records, NEW i \in 1..Len(list) + 1, Arrives(r, i) PROVE IndInv'
    BY <2>8, ArrivesInv
  <2>9. ASSUME NEW i \in DOMAIN list, Leaves(i) PROVE IndInv'
    BY <2>9, LeavesInv
  <2>10. CASE UNCHANGED vars
    BY <2>10 DEF vars, IndInv, LocalsOK, Reading, Missed, StillListed, DeparturesHide, EndIsAll,
                 Quiet, ExactWhenQuiet, OnlyDeparturesHide, Completed
  <2> QED
    BY <2>2, <2>3, <2>4, <2>5, <2>6, <2>7, <2>8, <2>9, <2>10 DEF Next
<1> QED
  BY InitInv, <1>1, PTL DEF Spec

\* Every variable keeps its type; only a usable result carries rows.
THEOREM TypeCorrect == Spec => []TypeOK
<1>1. IndInv => TypeOK
  BY DEF IndInv, LocalsOK, TypeOK
<1> QED
  BY Invariance, <1>1, PTL

\* A COMPLETE read of a list that stood still returns exactly that list.
THEOREM QuietReadsAreExact == Spec => []ExactWhenQuiet
<1>1. IndInv => ExactWhenQuiet
  BY DEF IndInv
<1> QED
  BY Invariance, <1>1, PTL

\* A COMPLETE read misses no more records than left the list meanwhile.
THEOREM DeparturesBoundTheLoss == Spec => []OnlyDeparturesHide
<1>1. IndInv => OnlyDeparturesHide
  BY DEF IndInv
<1> QED
  BY Invariance, <1>1, PTL
=============================================================================
