----------------------------- MODULE PagingProofs -----------------------------
(***************************************************************************)
(* What a walk over a list returns, for every table, every number of rows  *)
(* and walks and every page size, proved with TLAPS.                       *)
(***************************************************************************)
EXTENDS Paging, FiniteSetTheorems, SequenceTheorems, TLAPS

\* The rows of a selection that come before row i, whatever the order of ties.
Newer(S, i) == {j \in S : CreatedAt[j] > CreatedAt[i]}

Distinct(s) == \A m, n \in 1 .. Len(s) : s[m] = s[n] => m = n
Has(s, i) == \E n \in 1 .. Len(s) : s[n] = i

-----------------------------------------------------------------------------
\* In a sorted list of a selection a row without ties stands right after the
\* rows that are newer (ORDER BY created_at DESC).
LEMMA Placed ==
  ASSUME NEW S \in SUBSET Ids, IsFiniteSet(S),
         NEW s \in SetToSeqs(S), InOrder(s),
         NEW i \in S, ~Tied(i)
  PROVE  \E p \in 1 .. Cardinality(S) :
           s[p] = i /\ Cardinality(Newer(S, i)) = p - 1
<1> DEFINE n == Cardinality(S)
<1>1. n \in Nat
  BY FS_CardinalityType
<1>2. s \in [1 .. n -> S] /\ \A k, l \in 1 .. n : k # l => s[k] # s[l]
  BY DEF SetToSeqs
<1>3. Len(s) = n
  BY <1>1, <1>2
<1>4. IsFiniteSet(1 .. n) /\ Cardinality(1 .. n) = n
  BY <1>1, FS_Interval
<1>5. s \in Injection(1 .. n, S)
  BY <1>2 DEF Injection, IsInjective
<1>6. s \in Surjection(1 .. n, S)
  BY <1>4, <1>5, FS_Injection
<1>7. PICK p \in 1 .. n : s[p] = i
  BY <1>6 DEF Surjection
<1> DEFINE before == [k \in 1 .. p - 1 |-> s[k]]
<1>8. \A k \in 1 .. p - 1 : s[k] \in Newer(S, i)
  <2> SUFFICES ASSUME NEW k \in 1 .. p - 1
               PROVE  s[k] \in Newer(S, i)
    OBVIOUS
  <2>1. k \in 1 .. n /\ k # p /\ k < p
    BY <1>1, <1>7
  <2>2. s[k] \in S /\ s[k] # i /\ CreatedAt[s[k]] >= CreatedAt[i]
    BY <1>2, <1>3, <1>7, <2>1 DEF InOrder, Newest
  <2>3. CreatedAt[s[k]] # CreatedAt[i]
    BY <2>2 DEF Tied
  <2>4. CreatedAt[s[k]] \in Nat /\ CreatedAt[i] \in Nat
    BY <2>2, PagingAssumption
  <2>5. QED  BY <2>2, <2>3, <2>4 DEF Newer
<1>9. \A j \in Newer(S, i) : \E k \in 1 .. p - 1 : s[k] = j
  <2> SUFFICES ASSUME NEW j \in Newer(S, i)
               PROVE  \E k \in 1 .. p - 1 : s[k] = j
    OBVIOUS
  <2>1. j \in S /\ CreatedAt[j] > CreatedAt[i]
    BY DEF Newer
  <2>2. PICK k \in 1 .. n : s[k] = j
    BY <1>6, <2>1 DEF Surjection
  <2>3. CreatedAt[j] \in Nat /\ CreatedAt[i] \in Nat
    BY <2>1, PagingAssumption
  <2>4. k # p
    BY <1>7, <2>1, <2>2, <2>3
  <2>5. ~(p < k)
    BY <1>3, <1>7, <2>1, <2>2, <2>3 DEF InOrder, Newest
  <2>6. k \in 1 .. p - 1
    BY <1>1, <2>4, <2>5
  <2>7. QED  BY <2>2, <2>6
<1>10. before \in Bijection(1 .. p - 1, Newer(S, i))
  <2>1. before \in [1 .. p - 1 -> Newer(S, i)]
    BY <1>8
  <2>2. \A k, l \in 1 .. p - 1 : before[k] = before[l] => k = l
    BY <1>1, <1>2
  <2>3. \A j \in Newer(S, i) : \E k \in 1 .. p - 1 : before[k] = j
    BY <1>9
  <2>4. QED  BY <2>1, <2>2, <2>3 DEF Bijection, Injection, Surjection, IsInjective
<1>11. ExistsBijection(1 .. p - 1, Newer(S, i))
  BY <1>10 DEF ExistsBijection
<1>12. IsFiniteSet(1 .. p - 1) /\ Cardinality(1 .. p - 1) = p - 1
  <2>1. 1 \in Int /\ p - 1 \in Int /\ p - 1 >= 0
    BY <1>1
  <2>2. /\ IsFiniteSet(1 .. p - 1)
        /\ Cardinality(1 .. p - 1) = IF 1 > p - 1 THEN 0 ELSE p - 1 - 1 + 1
    BY <2>1, FS_Interval
  <2>3. QED  BY <2>1, <2>2
<1>13. Cardinality(Newer(S, i)) = p - 1
  BY <1>11, <1>12, FS_Bijection
<1>14. QED  BY <1>7, <1>13

\* The lesser of two bounds.
LEMMA MinOfTwo ==
  ASSUME NEW a \in Int, NEW b \in Int
  PROVE  Min({a, b}) = IF a <= b THEN a ELSE b
<1>1. \A x \in {a, b} : (\A y \in {a, b} : x =< y) => x = IF a <= b THEN a ELSE b
  OBVIOUS
<1>2. \E x \in {a, b} : \A y \in {a, b} : x =< y
  OBVIOUS
<1>3. QED  BY <1>1, <1>2 DEF Min

\* A page: no row twice, no more rows than asked for, and of the rows without
\* ties those whose place in the list is in its range (LIMIT and OFFSET).
LEMMA PageHolds ==
  ASSUME NEW q, NEW limit \in Nat \ {0}, NEW from \in Nat,
         IsFiniteSet(Selected(q)), NEW pg \in Pages(q, limit, from)
  PROVE  /\ pg \in Seq(Ids) /\ Len(pg) <= limit
         /\ Distinct(pg)
         /\ \A i : Has(pg, i) => i \in Selected(q)
         /\ \A i \in Selected(q) : ~Tied(i) =>
              LET rank == Cardinality(Newer(Selected(q), i)) IN
              /\ Has(pg, i) <=> from <= rank /\ rank < from + Len(pg)
              /\ pg = <<>> => rank < from
<1> DEFINE S == Selected(q)
           n == Cardinality(S)
<1>1. PICK s \in SetToSeqs(S) : InOrder(s) /\ pg = SubSeq(s, from + 1, Min({from + limit, Len(s)}))
  BY DEF Pages
<1>2. n \in Nat
  BY FS_CardinalityType
<1>3. s \in [1 .. n -> S] /\ \A k, l \in 1 .. n : k # l => s[k] # s[l]
  BY <1>1 DEF SetToSeqs
<1>4. Len(s) = n
  BY <1>2, <1>3
<1> DEFINE last == IF from + limit <= n THEN from + limit ELSE n
<1>5. pg = SubSeq(s, from + 1, last) /\ last \in Int /\ last <= n /\ last <= from + limit
  BY <1>1, <1>2, <1>4, MinOfTwo
<1>6. \A k \in from + 1 .. last : k \in 1 .. n
  BY <1>2
<1>7. \A k \in from + 1 .. last : s[k] \in S
  BY <1>3, <1>6
<1> HIDE DEF last
<1>8. /\ pg \in Seq(S)
      /\ Len(pg) = IF from + 1 <= last THEN last - from ELSE 0
      /\ \A k \in 1 .. last - from : pg[k] = s[from + k]
  <2>1. /\ pg \in Seq(S)
        /\ Len(pg) = IF from + 1 <= last THEN last - (from + 1) + 1 ELSE 0
        /\ \A k \in 1 .. last - (from + 1) + 1 : pg[k] = s[from + 1 + k - 1]
    BY <1>5, <1>7, SubSeqProperties
  <2>2. last - (from + 1) + 1 = last - from /\ \A k \in Int : from + 1 + k - 1 = from + k
    BY <1>5
  <2>3. QED  BY <2>1, <2>2
<1>9. \A k \in 1 .. Len(pg) : pg[k] = s[from + k] /\ from + k \in 1 .. n
  <2> SUFFICES ASSUME NEW k \in 1 .. Len(pg)
               PROVE  pg[k] = s[from + k] /\ from + k \in 1 .. n
    OBVIOUS
  <2>1. k \in 1 .. last - from
    BY <1>5, <1>8
  <2>2. from + k \in 1 .. n
    BY <1>2, <1>5, <2>1
  <2>3. QED  BY <1>8, <2>1, <2>2
<1>10. pg \in Seq(Ids) /\ Len(pg) <= limit
  <2>1. S \subseteq Ids
    BY DEF Selected
  <2>2. QED  BY <1>5, <1>8, <2>1
<1>11. Distinct(pg)
  BY <1>3, <1>8, <1>9, <1>5 DEF Distinct
<1>12. ASSUME NEW i \in S, ~Tied(i)
       PROVE  /\ Has(pg, i) <=> from <= Cardinality(Newer(S, i)) /\ Cardinality(Newer(S, i)) < from + Len(pg)
              /\ pg = <<>> => Cardinality(Newer(S, i)) < from
  <2>1. S \in SUBSET Ids
    BY DEF Selected
  <2>2. PICK p \in 1 .. n : s[p] = i /\ Cardinality(Newer(S, i)) = p - 1
    BY <1>1, <1>12, <2>1, Placed
  <2>3. Has(pg, i) <=> \E k \in 1 .. Len(pg) : from + k = p
    <3>1. \A k \in 1 .. Len(pg) : pg[k] = i <=> from + k = p
      BY <1>3, <1>9, <2>2
    <3>2. QED  BY <3>1 DEF Has
  <2>4. (\E k \in 1 .. Len(pg) : from + k = p) <=> from < p /\ p <= from + Len(pg)
    <3>1. Len(pg) \in Nat
      BY <1>8
    <3>2. ASSUME from < p, p <= from + Len(pg)
          PROVE  \E k \in 1 .. Len(pg) : from + k = p
      <4>1. p - from \in 1 .. Len(pg) /\ from + (p - from) = p
        BY <1>2, <3>1, <3>2
      <4>2. QED  BY <4>1
    <3>3. QED  BY <1>2, <3>1, <3>2
  <2>5. ASSUME pg = <<>>
        PROVE  p - 1 < from
    <3>1. Len(pg) = 0
      BY <2>5
    <3>2. last <= from
      BY <1>5, <1>8, <3>1
    <3>3. last = n
      BY <1>2, <3>2 DEF last
    <3>4. QED  BY <1>2, <3>2, <3>3
  <2>6. QED  BY <1>2, <1>8, <2>2, <2>3, <2>4, <2>5
<1>13. \A i : Has(pg, i) => i \in S
  BY <1>3, <1>9 DEF Has
<1>14. QED  BY <1>10, <1>11, <1>12, <1>13
-----------------------------------------------------------------------------
\* The inductive invariant.

\* The newer rows that are in the list of walk w.
Rank(w, i)   == Cardinality(Newer(Selected(query[w]), i))
InHand(w)    == pc[w] \in {"count", "collect"}
Before(w, i, n) == i \in Selected(query[w]) => Rank(w, i) < n

\* The variables are functions, and only so many rows are ever committed.
Shapes ==
  /\ DOMAIN rows = Ids
  /\ DOMAIN query = Walks /\ DOMAIN page = Walks
  /\ DOMAIN begun = Walks /\ DOMAIN arrived = Walks /\ DOMAIN left = Walks
  /\ IsFiniteSet({i \in Ids : Here(i)})

\* Where a walk stands: it has asked for as many rows as it has yielded.
Position(w) ==
  /\ pc[w] = "idle" =>
       /\ page[w] = <<>> /\ offset[w] = 0 /\ collected[w] = 0
       /\ listed[w] = [i \in Ids |-> 0]
  /\ Underway(w) => size[w] \in PageSizes /\ offset[w] = collected[w] /\ offset[w] <= MaxItems

\* While no row leaves, a row the walk began with and has not listed is still
\* ahead: at the offset or later, in the page in hand, or after that page, and
\* then neither the page nor the total ends the walk.
StillAhead(w) ==
  left[w] = {} /\ Underway(w) =>
    /\ begun[w] \subseteq Selected(query[w])
    /\ \A i \in begun[w] : ~Tied(i) =>
         /\ listed[w][i] > 0 \/ Rank(w, i) >= offset[w]
         /\ InHand(w) =>
              \/ listed[w][i] > 0
              \/ Has(page[w], i)
              \/ /\ page[w] # <<>> /\ Rank(w, i) >= NextOffset(w)
                 /\ pc[w] = "collect" => NextOffset(w) < total[w]

\* A walk that ended listed what it began with.
Complete(w) ==
  pc[w] = "done" /\ left[w] = {} =>
    \A i \in begun[w] : listed[w][i] > 0 \/ Tied(i)

\* While no row arrives, a listed row stands before the offset, and a row of
\* the page in hand has not been listed.
Once(w) ==
  arrived[w] = {} =>
    \A i \in Ids : ~Tied(i) =>
      /\ listed[w][i] <= 1
      /\ Underway(w) /\ listed[w][i] = 1 => Before(w, i, offset[w])
      /\ InHand(w) /\ Has(page[w], i) =>
           listed[w][i] = 0 /\ Before(w, i, NextOffset(w))

\* Every item collected stands for at most one request and its retries, and the
\* request in hand for its attempts.
Budget(w) ==
  /\ sent[w] <= (Retries + 1) * (MaxItems + 1)
  /\ Underway(w) => sent[w] <= (Retries + 1) * collected[w] + tries[w] + 1

WalkInv(w) ==
  /\ Position(w) /\ Distinct(page[w]) /\ Budget(w)
  /\ StillAhead(w) /\ Complete(w) /\ Once(w)

Inv == TypeOK /\ Shapes /\ \A w \in Walks : WalkInv(w)

-----------------------------------------------------------------------------
\* While a walk may go on, the requests of the items in hand are fewer than it
\* may send at all (MAX_COLLECTED_ITEMS and DEFAULT_RETRIES).
LEMMA WithinBudget ==
  ASSUME NEW c \in 0 .. MaxItems, NEW t \in 0 .. Retries, NEW s \in Nat,
         s <= (Retries + 1) * c + t + 1
  PROVE  s <= (Retries + 1) * (MaxItems + 1)
<1>1. Retries \in Nat /\ MaxItems \in Nat
  BY PagingAssumption
<1>2. (Retries + 1) * (MaxItems - c) >= 0
  BY <1>1
<1>3. (Retries + 1) * (MaxItems + 1) = (Retries + 1) * c + (Retries + 1) * (MaxItems - c) + Retries + 1
  BY <1>1
<1> DEFINE spent == (Retries + 1) * c
           rest == (Retries + 1) * (MaxItems - c)
<1>4. spent \in Int /\ rest \in Int
  BY <1>1
<1>5. s <= spent + t + 1 /\ rest >= 0
  BY <1>2
<1> HIDE DEF spent, rest
<1>6. s <= spent + rest + Retries + 1
  BY <1>1, <1>4, <1>5
<1>7. QED  BY <1>3, <1>6 DEF spent, rest

\* A page that is not empty pays for the next request and its retries.
LEMMA PageSpends ==
  ASSUME NEW c \in Nat, NEW n \in Nat \ {0}, NEW t \in 0 .. Retries, NEW s \in Nat,
         s <= (Retries + 1) * c + t + 1
  PROVE  s + 1 <= (Retries + 1) * (c + n) + 1
<1>1. Retries \in Nat
  BY PagingAssumption
<1>2. (Retries + 1) * (n - 1) >= 0
  BY <1>1
<1> DEFINE spent == (Retries + 1) * c
           rest == (Retries + 1) * (n - 1)
<1>3. (Retries + 1) * (c + n) = spent + rest + Retries + 1
  BY <1>1
<1>4. spent \in Int /\ rest \in Int /\ rest >= 0 /\ s <= spent + t + 1
  BY <1>1, <1>2
<1> HIDE DEF spent, rest
<1>5. QED  BY <1>1, <1>3, <1>4

\* A selection is finite, and so is every part of it.
LEMMA Finite ==
  ASSUME Shapes, NEW q
  PROVE  /\ IsFiniteSet(Selected(q)) /\ Cardinality(Selected(q)) \in Nat
         /\ Selected(q) \subseteq Ids
         /\ \A i : /\ IsFiniteSet(Newer(Selected(q), i))
                   /\ Cardinality(Newer(Selected(q), i)) \in Nat
<1>1. Selected(q) \in SUBSET {i \in Ids : Here(i)}
  BY DEF Selected
<1>2. IsFiniteSet({i \in Ids : Here(i)})
  BY DEF Shapes
<1>3. IsFiniteSet(Selected(q))
  BY <1>1, <1>2, FS_Subset
<1>4. \A i : Newer(Selected(q), i) \in SUBSET Selected(q)
  BY DEF Newer
<1>5. \A i : IsFiniteSet(Newer(Selected(q), i))
  BY <1>3, <1>4, FS_Subset
<1>6. QED  BY <1>1, <1>3, <1>5, FS_CardinalityType

\* The limit a request comes with is one the handler serves (getLimit).
LEMMA Clamped ==
  ASSUME NEW n \in PageSizes
  PROVE  getLimit(n) \in 1 .. MaxLimit
<1>1. n \in Nat \ {0} /\ MaxLimit \in Nat \ {0} /\ n # NULL
  BY PagingAssumption
<1>2. CASE n > MaxLimit
  BY <1>1, <1>2 DEF getLimit
<1>3. CASE n <= MaxLimit
  BY <1>1, <1>3 DEF getLimit
<1>4. QED  BY <1>1, <1>2, <1>3

\* A fresh program satisfies the invariant.
LEMMA InitInv == Init => Inv
<1> SUFFICES ASSUME Init PROVE Inv
  OBVIOUS
<1>1. TypeOK
  BY PagingAssumption DEF Init, TypeOK
<1>2. Shapes
  <2>1. {i \in Ids : Here(i)} = {}
    BY DEF Init, Here
  <2>2. QED  BY <2>1, FS_EmptySet DEF Init, Shapes
<1>3. \A w \in Walks : WalkInv(w)
  <2>1. 0 <= (Retries + 1) * (MaxItems + 1)
    BY PagingAssumption
  <2>2. QED
    BY <2>1 DEF Init, WalkInv, Position, Distinct, Budget, StillAhead, Complete, Once,
                Underway, InHand
<1>4. QED  BY <1>1, <1>2, <1>3 DEF Inv

-----------------------------------------------------------------------------
\* The rest of the program.

\* What a change of the table is to a walk under way (Insert and Change).
LEMMA RowsMoved ==
  ASSUME Shapes, Shapes', UNCHANGED <<table, client, listed, sent>>, Notice,
         NEW w \in Walks, WalkInv(w), TypeOK
  PROVE  WalkInv(w)'
<1>1. /\ pc'[w] = pc[w] /\ page'[w] = page[w] /\ query'[w] = query[w]
      /\ listed'[w] = listed[w] /\ begun'[w] = begun[w]
      /\ offset'[w] = offset[w] /\ total'[w] = total[w] /\ size'[w] = size[w]
      /\ collected'[w] = collected[w] /\ tries'[w] = tries[w] /\ sent'[w] = sent[w]
  BY DEF client, Notice
<1>2. /\ Underway(w)' <=> Underway(w)
      /\ InHand(w)' <=> InHand(w)
      /\ NextOffset(w)' = NextOffset(w)
  BY <1>1 DEF Underway, InHand, NextOffset
<1>3. Position(w)' /\ Distinct(page[w])' /\ Budget(w)'
  BY <1>1, <1>2 DEF WalkInv, Position, Distinct, Budget
<1>4. PICK S : S = Selected(query[w])
  OBVIOUS
<1>5. PICK T : T = Selected(query[w])'
  OBVIOUS
<1>6. /\ IsFiniteSet(S) /\ IsFiniteSet(T)
      /\ \A i : /\ IsFiniteSet(Newer(S, i)) /\ IsFiniteSet(Newer(T, i))
                /\ Cardinality(Newer(S, i)) \in Nat /\ Cardinality(Newer(T, i)) \in Nat
  <2>1. IsFiniteSet(S) /\ \A i : IsFiniteSet(Newer(S, i)) /\ Cardinality(Newer(S, i)) \in Nat
    BY <1>4, Finite
  <2>2. IsFiniteSet(T)
    <3>1. T \in SUBSET {i \in Ids : Here(i)}'
      BY <1>5 DEF Selected
    <3>2. QED  BY <3>1, FS_Subset DEF Shapes
  <2>3. \A i : Newer(T, i) \in SUBSET T
    BY DEF Newer
  <2>4. QED  BY <2>1, <2>2, <2>3, FS_Subset, FS_CardinalityType
<1>7. \A i : Rank(w, i) = Cardinality(Newer(S, i)) /\ Rank(w, i)' = Cardinality(Newer(T, i))
  BY <1>4, <1>5 DEF Rank, Newer
<1>8. Underway(w) => /\ arrived'[w] = arrived[w] \cup (T \ S)
                     /\ left'[w] = left[w] \cup (S \ T)
  BY <1>4, <1>5 DEF Notice
<1>9. ~Underway(w) => arrived'[w] = arrived[w] /\ left'[w] = left[w]
  BY DEF Notice
<1>10. InHand(w) => Underway(w)
  BY DEF InHand, Underway
<1>11. StillAhead(w)'
  <2> SUFFICES ASSUME left'[w] = {}, Underway(w)
               PROVE  /\ begun[w] \subseteq T
                      /\ \A i \in begun[w] : ~Tied(i) =>
                           /\ listed[w][i] > 0 \/ Cardinality(Newer(T, i)) >= offset[w]
                           /\ InHand(w) =>
                                \/ listed[w][i] > 0
                                \/ Has(page[w], i)
                                \/ /\ page[w] # <<>> /\ Cardinality(Newer(T, i)) >= NextOffset(w)
                                   /\ pc[w] = "collect" => NextOffset(w) < total[w]
    BY <1>1, <1>2, <1>5, <1>7 DEF StillAhead, Has
  <2>1. left[w] = {} /\ S \subseteq T
    BY <1>8
  <2>2. \A i : Newer(S, i) \in SUBSET Newer(T, i)
    BY <2>1 DEF Newer
  <2>3. \A i : Cardinality(Newer(S, i)) <= Cardinality(Newer(T, i))
    BY <1>6, <2>2, FS_Subset
  <2>4. offset[w] \in Nat /\ Len(page[w]) \in Nat /\ NextOffset(w) \in Nat
    BY LenProperties, PagingAssumption DEF TypeOK, NextOffset
  <2>5. QED  BY <1>4, <1>6, <1>7, <2>1, <2>3, <2>4 DEF WalkInv, StillAhead
<1>12. Complete(w)'
  BY <1>1, <1>8, <1>9 DEF WalkInv, Complete, Underway
<1>13. Once(w)'
  <2>1. CASE ~Underway(w)
    BY <1>1, <1>2, <1>9, <1>10, <2>1 DEF WalkInv, Once
  <2>2. CASE Underway(w)
    <3> SUFFICES ASSUME arrived'[w] = {}, NEW i \in Ids, ~Tied(i)
                 PROVE  /\ listed[w][i] <= 1
                        /\ listed[w][i] = 1 => (i \in T => Cardinality(Newer(T, i)) < offset[w])
                        /\ InHand(w) /\ Has(page[w], i) =>
                             listed[w][i] = 0 /\ (i \in T => Cardinality(Newer(T, i)) < NextOffset(w))
      BY <1>1, <1>2, <1>5, <1>7, <2>2 DEF Once, Before, Has
    <3>1. arrived[w] = {} /\ T \subseteq S
      BY <1>8, <2>2
    <3>2. Newer(T, i) \in SUBSET Newer(S, i)
      BY <3>1 DEF Newer
    <3>3. Cardinality(Newer(T, i)) <= Cardinality(Newer(S, i))
      BY <1>6, <3>2, FS_Subset
    <3>4. offset[w] \in Nat /\ Len(page[w]) \in Nat /\ NextOffset(w) \in Nat
      <4>1. offset[w] \in 0 .. MaxItems /\ MaxItems \in Nat
        BY PagingAssumption DEF TypeOK
      <4>2. page[w] \in Seq(Ids)
        BY DEF TypeOK
      <4>3. Len(page[w]) \in Nat
        BY <4>2, LenProperties
      <4>4. QED  BY <4>1, <4>3 DEF NextOffset
    <3>5. QED  BY <1>4, <1>6, <1>7, <2>2, <3>1, <3>3, <3>4 DEF WalkInv, Once, Before
  <2>3. QED  BY <2>1, <2>2
<1>14. QED  BY <1>3, <1>11, <1>12, <1>13 DEF WalkInv
\* The commit of a row (the statements that insert into a listed table).
LEMMA InsertInv ==
  ASSUME Inv, NEW i \in Ids, NEW columns \in Inserted[table], Insert(i, columns)
  PROVE  Inv'
<1>1. UNCHANGED <<table, client, listed, sent>> /\ Notice /\ rows' = [rows EXCEPT ![i] = columns]
  BY DEF Insert
<1>2. TypeOK'
  BY <1>1 DEF Inv, TypeOK, client
<1>3. Shapes'
  <2>1. DOMAIN rows = Ids /\ IsFiniteSet({j \in Ids : Here(j)})
    BY DEF Inv, Shapes
  <2>2. {j \in Ids : Here(j)}' \in SUBSET ({j \in Ids : Here(j)} \cup {i})
    BY <1>1, <2>1 DEF Here
  <2>3. IsFiniteSet({j \in Ids : Here(j)} \cup {i})
    BY <2>1, FS_AddElement
  <2>4. IsFiniteSet({j \in Ids : Here(j)}')
    BY <2>2, <2>3, FS_Subset
  <2>5. QED  BY <1>1, <2>1, <2>4 DEF Inv, Shapes, client, Notice
<1>4. QED  BY <1>1, <1>2, <1>3, RowsMoved DEF Inv

\* The change of a column (the statements that update a listed table).
LEMMA ChangeInv ==
  ASSUME Inv, NEW i \in Ids, NEW change, Change(i, change)
  PROVE  Inv'
<1>1. /\ UNCHANGED <<table, client, listed, sent>> /\ Notice /\ Here(i)
      /\ rows' = [rows EXCEPT ![i][change[1]] = change[3]]
  BY DEF Change
<1>2. TypeOK'
  BY <1>1 DEF Inv, TypeOK, client
<1>3. Shapes'
  <2>1. DOMAIN rows = Ids /\ IsFiniteSet({j \in Ids : Here(j)})
    BY DEF Inv, Shapes
  <2>2. {j \in Ids : Here(j)}' \in SUBSET {j \in Ids : Here(j)}
    BY <1>1, <2>1 DEF Here
  <2>3. IsFiniteSet({j \in Ids : Here(j)}')
    BY <2>1, <2>2, FS_Subset
  <2>4. QED  BY <1>1, <2>1, <2>3 DEF Inv, Shapes, client, Notice
<1>4. QED  BY <1>1, <1>2, <1>3, RowsMoved DEF Inv

-----------------------------------------------------------------------------
\* A walk, and the handler that serves it.

\* Walk v stands where it stood.
Still(v) ==
  /\ pc'[v] = pc[v] /\ query'[v] = query[v] /\ size'[v] = size[v]
  /\ offset'[v] = offset[v] /\ page'[v] = page[v] /\ total'[v] = total[v]
  /\ collected'[v] = collected[v] /\ listed'[v] = listed[v]
  /\ tries'[v] = tries[v] /\ sent'[v] = sent[v]
  /\ begun'[v] = begun[v] /\ arrived'[v] = arrived[v] /\ left'[v] = left[v]

\* What no step of a walk touches: the table, and where the others stand.
Elsewhere(w) == UNCHANGED <<table, rows>> /\ \A v \in Walks \ {w} : Still(v)

\* A selection is the same while the table is.
LEMMA SameSelection ==
  ASSUME UNCHANGED <<table, rows>>, NEW w, query'[w] = query[w]
  PROVE  /\ Selected(query[w])' = Selected(query[w])
         /\ \A i : Rank(w, i)' = Rank(w, i)
<1>1. Selected(query[w])' = Selected(query[w])
  BY DEF Selected, Here, Passes
<1>2. QED  BY <1>1 DEF Rank, Newer

\* A walk that stands where it stood keeps the invariant.
LEMMA StillKeeps ==
  ASSUME UNCHANGED <<table, rows>>, NEW v \in Walks, Still(v), WalkInv(v)
  PROVE  WalkInv(v)'
<1>1. /\ Selected(query[v])' = Selected(query[v])
      /\ \A i : Rank(v, i)' = Rank(v, i)
  BY SameSelection DEF Still
<1>2. /\ pc'[v] = pc[v] /\ query'[v] = query[v] /\ size'[v] = size[v]
      /\ offset'[v] = offset[v] /\ page'[v] = page[v] /\ total'[v] = total[v]
      /\ collected'[v] = collected[v] /\ listed'[v] = listed[v]
      /\ tries'[v] = tries[v] /\ sent'[v] = sent[v]
      /\ begun'[v] = begun[v] /\ arrived'[v] = arrived[v] /\ left'[v] = left[v]
  BY DEF Still
<1>3. /\ Underway(v)' <=> Underway(v)
      /\ InHand(v)' <=> InHand(v)
      /\ NextOffset(v)' = NextOffset(v)
  BY <1>2 DEF Underway, InHand, NextOffset
<1>4. Position(v)' /\ Distinct(page[v])' /\ Budget(v)'
  BY <1>2, <1>3 DEF WalkInv, Position, Distinct, Budget
<1>5. StillAhead(v)'
  BY <1>1, <1>2, <1>3 DEF WalkInv, StillAhead, Has
<1>6. Complete(v)'
  BY <1>2 DEF WalkInv, Complete
<1>7. Once(v)'
  BY <1>1, <1>2, <1>3 DEF WalkInv, Once, Before, Has
<1>8. QED  BY <1>4, <1>5, <1>6, <1>7 DEF WalkInv

\* So a step of walk w is a matter of walk w.
LEMMA OnlyThisWalk ==
  ASSUME Inv, NEW w \in Walks, Elsewhere(w), TypeOK', Shapes', WalkInv(w)'
  PROVE  Inv'
  BY StillKeeps DEF Inv, Elsewhere

\* A walk begins.
LEMMA StartInv ==
  ASSUME Inv, NEW w \in Walks, NEW q \in Queries[table], NEW n \in PageSizes, Start(w, q, n)
  PROVE  Inv'
<1> USE DEF Start, history
<1>1. TypeOK'
  <2>1. q # NULL /\ table \in Tables
    BY PagingAssumption DEF Inv, TypeOK
  <2>2. /\ \A v \in Walks : query'[v] = NULL <=> pc'[v] = "idle"
        /\ pc' \in [Walks -> {"idle", "page", "count", "collect", "done", "failed"}]
        /\ size' \in [Walks -> PageSizes \cup {NULL}]
    BY <2>1 DEF Inv, TypeOK, Shapes
  <2>3. QED  BY <2>2 DEF Inv, TypeOK
<1>2. Shapes'
  BY DEF Inv, Shapes, Here
<1>3. Elsewhere(w)
  BY DEF Elsewhere, Still
<1>4. /\ pc'[w] = "page" /\ query'[w] = q /\ size'[w] = n /\ begun'[w] = Selected(q)
      /\ page'[w] = <<>> /\ offset'[w] = 0 /\ collected'[w] = 0
      /\ listed'[w] = [i \in Ids |-> 0] /\ sent'[w] = 1 /\ tries'[w] \in 0 .. Retries
  <2>1. /\ pc[w] = "idle" /\ pc'[w] = "page" /\ query'[w] = q /\ size'[w] = n
        /\ begun'[w] = Selected(q) /\ sent'[w] = 1 /\ tries'[w] \in 0 .. Retries
    BY DEF Inv, TypeOK, Shapes
  <2>2. Position(w)
    BY DEF Inv, WalkInv
  <2>3. QED  BY <2>1, <2>2 DEF Position
<1>5. Position(w)' /\ Distinct(page[w])' /\ ~InHand(w)' /\ Underway(w)'
  BY <1>4, PagingAssumption DEF Position, Distinct, InHand, Underway
<1>6. /\ Selected(query[w])' = Selected(q)
      /\ \A i : Rank(w, i)' \in Nat
  <2>1. Selected(query[w])' = Selected(q)
    BY <1>4 DEF Selected, Here, Passes
  <2>2. \A i : Rank(w, i)' = Cardinality(Newer(Selected(q), i))
    BY <2>1 DEF Rank, Newer
  <2>3. QED  BY <2>1, <2>2, Finite DEF Inv
<1>7. StillAhead(w)'
  BY <1>4, <1>5, <1>6 DEF StillAhead
<1>8. Complete(w)' /\ Once(w)'
  BY <1>4, <1>5 DEF Complete, Once
<1>9. Budget(w)'
  <2>1. 0 \in 0 .. MaxItems /\ 0 \in 0 .. Retries /\ 1 <= (Retries + 1) * 0 + 0 + 1
    BY PagingAssumption
  <2>2. 1 <= (Retries + 1) * (MaxItems + 1)
    BY <2>1, WithinBudget
  <2>3. 1 <= (Retries + 1) * 0 + tries'[w] + 1
    BY <1>4, PagingAssumption
  <2>4. QED  BY <1>4, <2>2, <2>3 DEF Budget
<1>10. QED  BY <1>1, <1>2, <1>3, <1>5, <1>7, <1>8, <1>9, OnlyThisWalk DEF WalkInv

\* The first statement: a page of the list as it is now (ListXxxPaged).
LEMMA ReadPageInv ==
  ASSUME Inv, NEW w \in Walks, ReadPage(w)
  PROVE  Inv'
<1> USE DEF ReadPage, history
<1>1. /\ pc[w] = "page" /\ pc'[w] = "count" /\ InHand(w)' /\ Underway(w) /\ Underway(w)'
  BY DEF Inv, TypeOK, InHand, Underway
<1>2. PICK pg \in Pages(query[w], getLimit(size[w]), offset[w]) : page' = [page EXCEPT ![w] = pg]
  OBVIOUS
<1>3. getLimit(size[w]) \in 1 .. MaxLimit /\ getLimit(size[w]) \in Nat \ {0} /\ offset[w] \in Nat
  <2>1. size[w] \in PageSizes
    BY <1>1 DEF Inv, WalkInv, Position
  <2>2. getLimit(size[w]) \in 1 .. MaxLimit
    BY <2>1, Clamped
  <2>3. offset[w] \in Nat /\ MaxLimit \in Nat
    BY PagingAssumption DEF Inv, TypeOK
  <2>4. QED  BY <2>2, <2>3
<1>4. /\ pg \in Seq(Ids) /\ Len(pg) <= getLimit(size[w]) /\ Distinct(pg)
      /\ \A i : Has(pg, i) => i \in Selected(query[w])
      /\ \A i \in Selected(query[w]) : ~Tied(i) =>
           /\ Has(pg, i) <=> offset[w] <= Rank(w, i) /\ Rank(w, i) < offset[w] + Len(pg)
           /\ pg = <<>> => Rank(w, i) < offset[w]
  BY <1>2, <1>3, Finite, PageHolds DEF Inv, Rank
<1>5. TypeOK'
  <2>1. Len(pg) <= MaxLimit
    BY <1>3, <1>4, LenProperties, PagingAssumption
  <2>2. \A v \in Walks : page'[v] = IF v = w THEN pg ELSE page[v]
    BY <1>2 DEF Inv, Shapes
  <2>3. \A v \in Walks : page'[v] \in Seq(Ids) /\ Len(page'[v]) <= MaxLimit
    BY <1>4, <2>1, <2>2 DEF Inv, TypeOK
  <2>4. pc' \in [Walks -> {"idle", "page", "count", "collect", "done", "failed"}]
    BY DEF Inv, TypeOK
  <2>5. \A v \in Walks : query'[v] = NULL <=> pc'[v] = "idle"
    BY <1>1 DEF Inv, TypeOK
  <2>6. QED  BY <2>3, <2>4, <2>5 DEF Inv, TypeOK
<1>6. Shapes'
  BY <1>2 DEF Inv, Shapes, Here
<1>7. Elsewhere(w)
  BY <1>2 DEF Elsewhere, Still
<1>8. /\ page'[w] = pg /\ query'[w] = query[w] /\ size'[w] = size[w] /\ offset'[w] = offset[w]
      /\ collected'[w] = collected[w] /\ listed'[w] = listed[w] /\ begun'[w] = begun[w]
      /\ arrived'[w] = arrived[w] /\ left'[w] = left[w]
      /\ tries'[w] = tries[w] /\ sent'[w] = sent[w]
      /\ NextOffset(w)' = offset[w] + Len(pg)
  BY <1>2 DEF Inv, Shapes, NextOffset
<1>9. /\ Selected(query[w])' = Selected(query[w])
      /\ \A i : Rank(w, i)' = Rank(w, i) /\ Rank(w, i) \in Nat
  BY <1>8, SameSelection, Finite DEF Inv, Rank
<1>10. Len(pg) \in Nat
  BY <1>4, LenProperties
<1>11. Position(w)' /\ Distinct(page[w])' /\ Budget(w)' /\ Complete(w)'
  BY <1>1, <1>4, <1>8 DEF Inv, WalkInv, Position, Distinct, Budget, Complete
<1>12. StillAhead(w)'
  <2> SUFFICES ASSUME left[w] = {}
               PROVE  /\ begun[w] \subseteq Selected(query[w])
                      /\ \A i \in begun[w] : ~Tied(i) =>
                           /\ listed[w][i] > 0 \/ Rank(w, i) >= offset[w]
                           /\ \/ listed[w][i] > 0
                              \/ Has(pg, i)
                              \/ pg # <<>> /\ Rank(w, i) >= offset[w] + Len(pg)
    BY <1>1, <1>8, <1>9 DEF StillAhead, Has
  <2>1. /\ begun[w] \subseteq Selected(query[w])
        /\ \A i \in begun[w] : ~Tied(i) => listed[w][i] > 0 \/ Rank(w, i) >= offset[w]
    BY <1>1 DEF Inv, WalkInv, StillAhead
  <2>2. QED  BY <1>3, <1>4, <1>9, <1>10, <2>1
<1>13. Once(w)'
  <2> SUFFICES ASSUME arrived[w] = {}, NEW i \in Ids, ~Tied(i)
               PROVE  /\ listed[w][i] <= 1
                      /\ listed[w][i] = 1 => Before(w, i, offset[w])
                      /\ Has(pg, i) => listed[w][i] = 0 /\ Before(w, i, offset[w] + Len(pg))
    BY <1>1, <1>8, <1>9 DEF Once, Before, Has
  <2>1. listed[w][i] <= 1 /\ (listed[w][i] = 1 => Before(w, i, offset[w])) /\ listed[w][i] \in Nat
    BY <1>1 DEF Inv, WalkInv, Once, TypeOK
  <2>2. QED  BY <1>3, <1>4, <1>9, <1>10, <2>1 DEF Before
<1>14. QED  BY <1>5, <1>6, <1>7, <1>11, <1>12, <1>13, OnlyThisWalk DEF WalkInv
\* The second statement: the total of the list as it is by now (CountXxx).
LEMMA CountRowsInv ==
  ASSUME Inv, NEW w \in Walks, CountRows(w)
  PROVE  Inv'
<1> USE DEF CountRows, history
<1>1. /\ pc[w] = "count" /\ pc'[w] = "collect" /\ InHand(w) /\ InHand(w)'
      /\ Underway(w) /\ Underway(w)'
  BY DEF Inv, TypeOK, InHand, Underway
<1>2. CountedOf(query[w]) = Selected(query[w])
  BY DEF CountedOf, Selected, CountedBy, ListedBy, CountOrders, ListOrdersPaged,
         CountTransactions, ListTransactionsPaged, CountAttempts, ListAttemptsPaged,
         CountMessages, ListMessagesPaged, CountDevices, ListDevicesPaged,
         CountBusinesses, ListBusinessesPaged, CountProviders, ListProvidersPaged
<1>3. Cardinality(Selected(query[w])) \in Nat
  BY Finite DEF Inv
<1>4. TypeOK'
  <2>1. total' \in [Walks -> Nat]
    BY <1>2, <1>3 DEF Inv, TypeOK
  <2>2. pc' \in [Walks -> {"idle", "page", "count", "collect", "done", "failed"}]
    BY DEF Inv, TypeOK
  <2>3. \A v \in Walks : query'[v] = NULL <=> pc'[v] = "idle"
    BY <1>1 DEF Inv, TypeOK
  <2>4. QED  BY <2>1, <2>2, <2>3 DEF Inv, TypeOK
<1>5. Shapes'
  BY DEF Inv, Shapes, Here
<1>6. Elsewhere(w)
  BY DEF Elsewhere, Still
<1>7. /\ page'[w] = page[w] /\ query'[w] = query[w] /\ size'[w] = size[w]
      /\ offset'[w] = offset[w] /\ collected'[w] = collected[w]
      /\ listed'[w] = listed[w] /\ begun'[w] = begun[w]
      /\ arrived'[w] = arrived[w] /\ left'[w] = left[w]
      /\ tries'[w] = tries[w] /\ sent'[w] = sent[w]
      /\ NextOffset(w)' = NextOffset(w)
  BY DEF NextOffset
<1>8. total'[w] = Cardinality(Selected(query[w]))
  BY <1>2 DEF Inv, TypeOK
<1>9. /\ Selected(query[w])' = Selected(query[w])
      /\ \A i : Rank(w, i)' = Rank(w, i)
  BY <1>7, SameSelection
<1>10. Position(w)' /\ Distinct(page[w])' /\ Budget(w)' /\ Complete(w)' /\ Once(w)'
  <2>1. Position(w)' /\ Distinct(page[w])' /\ Budget(w)' /\ Complete(w)'
    BY <1>1, <1>7 DEF Inv, WalkInv, Position, Distinct, Budget, Complete
  <2>2. Once(w)'
    BY <1>1, <1>7, <1>9 DEF Inv, WalkInv, Once, Before, Has
  <2>3. QED  BY <2>1, <2>2
<1>11. \A i \in Selected(query[w]) : Rank(w, i) < total'[w]
  <2> SUFFICES ASSUME NEW i \in Selected(query[w])
               PROVE  Rank(w, i) < total'[w]
    OBVIOUS
  <2> DEFINE S == Selected(query[w])
  <2>1. IsFiniteSet(S) /\ Cardinality(S) \in Nat /\ S \subseteq Ids
    BY Finite DEF Inv
  <2>2. i \notin Newer(S, i)
    <3>1. CreatedAt[i] \in Nat
      BY <2>1, PagingAssumption
    <3>2. QED  BY <3>1 DEF Newer
  <2>3. Newer(S, i) \in SUBSET S /\ Newer(S, i) # S
    BY <2>2 DEF Newer
  <2>4. /\ Cardinality(Newer(S, i)) \in Nat
        /\ Cardinality(Newer(S, i)) <= Cardinality(S)
        /\ Cardinality(Newer(S, i)) # Cardinality(S)
    BY <2>1, <2>3, FS_Subset, FS_CardinalityType
  <2>5. QED  BY <1>8, <2>1, <2>4 DEF Rank
<1>12. StillAhead(w)'
  <2> SUFFICES ASSUME left[w] = {}
               PROVE  /\ begun[w] \subseteq Selected(query[w])
                      /\ \A i \in begun[w] : ~Tied(i) =>
                           /\ listed[w][i] > 0 \/ Rank(w, i) >= offset[w]
                           /\ \/ listed[w][i] > 0
                              \/ Has(page[w], i)
                              \/ /\ page[w] # <<>> /\ Rank(w, i) >= NextOffset(w)
                                 /\ NextOffset(w) < total'[w]
    BY <1>1, <1>7, <1>9 DEF StillAhead, Has
  <2>1. /\ begun[w] \subseteq Selected(query[w])
        /\ \A i \in begun[w] : ~Tied(i) =>
             /\ listed[w][i] > 0 \/ Rank(w, i) >= offset[w]
             /\ \/ listed[w][i] > 0
                \/ Has(page[w], i)
                \/ page[w] # <<>> /\ Rank(w, i) >= NextOffset(w)
    BY <1>1 DEF Inv, WalkInv, StillAhead
  <2>2. \A i : Rank(w, i) \in Nat
    BY Finite DEF Inv, Rank
  <2>3. total'[w] \in Nat /\ NextOffset(w) \in Nat
    BY <1>3, <1>8, LenProperties, PagingAssumption DEF Inv, TypeOK, NextOffset
  <2>4. QED  BY <1>11, <2>1, <2>2, <2>3
<1>13. QED  BY <1>4, <1>5, <1>6, <1>10, <1>12, OnlyThisWalk DEF WalkInv

\* An attempt fails, or the request is given up (requestWithRetry).
LEMMA RequestFailsInv ==
  ASSUME Inv, NEW w \in Walks, RequestFails(w)
  PROVE  Inv'
<1> USE DEF RequestFails, history
<1>1. /\ pc[w] \in {"page", "count"} /\ Underway(w) /\ pc'[w] \in {"page", "failed"}
      /\ ~InHand(w)'
  BY DEF Inv, TypeOK, InHand, Underway
<1>2. TypeOK'
  <2>1. pc' \in [Walks -> {"idle", "page", "count", "collect", "done", "failed"}]
    BY DEF Inv, TypeOK
  <2>2. \A v \in Walks : query'[v] = NULL <=> pc'[v] = "idle"
    BY <1>1 DEF Inv, TypeOK
  <2>3. tries' \in [Walks -> 0 .. Retries]
    <3>1. tries \in [Walks -> 0 .. Retries] /\ Retries \in Nat
      BY PagingAssumption DEF Inv, TypeOK
    <3>2. CASE tries[w] < Retries /\ tries' = [tries EXCEPT ![w] = tries[w] + 1]
      BY <3>1, <3>2
    <3>3. CASE tries' = [tries EXCEPT ![w] = 0]
      BY <3>1, <3>3
    <3>4. QED  BY <3>2, <3>3 DEF Tried
  <2>4. \A v \in Walks : page'[v] = IF v = w THEN <<>> ELSE page[v]
    BY DEF Inv, Shapes
  <2>5. \A v \in Walks : page'[v] \in Seq(Ids) /\ Len(page'[v]) <= MaxLimit
    BY <2>4, EmptySeq, PagingAssumption DEF Inv, TypeOK
  <2>6. sent' \in [Walks -> Nat]
    <3>1. sent' = sent \/ sent' = [sent EXCEPT ![w] = sent[w] + 1]
      OBVIOUS
    <3>2. sent \in [Walks -> Nat]
      BY DEF Inv, TypeOK
    <3>3. QED  BY <3>1, <3>2
  <2>7. QED  BY <2>1, <2>2, <2>3, <2>5, <2>6 DEF Inv, TypeOK
<1>3. Shapes'
  <2>1. /\ page' = [page EXCEPT ![w] = <<>>]
        /\ UNCHANGED <<rows, query, begun, arrived, left>>
    OBVIOUS
  <2>2. {i \in Ids : Here(i)}' = {i \in Ids : Here(i)}
    BY <2>1 DEF Here
  <2>3. DOMAIN page' = Walks
    BY <2>1 DEF Inv, Shapes
  <2>4. QED  BY <2>1, <2>2, <2>3 DEF Inv, Shapes
<1>4. Elsewhere(w)
  <2>1. \A v \in Walks \ {w} : /\ pc'[v] = pc[v] /\ page'[v] = page[v]
                                /\ tries'[v] = tries[v] /\ sent'[v] = sent[v]
    BY DEF Inv, TypeOK, Shapes
  <2>2. /\ UNCHANGED <<table, rows, query, size, offset, total, collected, listed>>
        /\ UNCHANGED <<begun, arrived, left>>
    OBVIOUS
  <2>3. QED  BY <2>1, <2>2 DEF Elsewhere, Still
<1>5. /\ page'[w] = <<>> /\ query'[w] = query[w] /\ size'[w] = size[w]
      /\ offset'[w] = offset[w] /\ collected'[w] = collected[w]
      /\ listed'[w] = listed[w] /\ begun'[w] = begun[w]
      /\ arrived'[w] = arrived[w] /\ left'[w] = left[w]
  BY DEF Inv, Shapes
<1>6. /\ Selected(query[w])' = Selected(query[w])
      /\ \A i : Rank(w, i)' = Rank(w, i)
  BY <1>5, SameSelection
<1>7. Position(w)' /\ Distinct(page[w])' /\ Complete(w)'
  BY <1>1, <1>5 DEF Inv, WalkInv, Position, Distinct, Complete
<1>8. StillAhead(w)'
  BY <1>1, <1>5, <1>6 DEF Inv, WalkInv, StillAhead
<1>9. Once(w)'
  BY <1>1, <1>5, <1>6 DEF Inv, WalkInv, Once, Before
<1>10. Budget(w)'
  <2>1. /\ sent[w] <= (Retries + 1) * collected[w] + tries[w] + 1
        /\ sent[w] <= (Retries + 1) * (MaxItems + 1)
        /\ collected[w] \in 0 .. MaxItems
    <3>1. collected[w] = offset[w] /\ offset[w] \in 0 .. MaxItems
      BY <1>1 DEF Inv, TypeOK, WalkInv, Position
    <3>2. QED  BY <1>1, <3>1 DEF Inv, WalkInv, Budget
  <2>2. /\ sent[w] \in Nat /\ tries[w] \in 0 .. Retries
        /\ Retries \in Nat /\ (Retries + 1) * collected[w] \in Nat
    BY <2>1, PagingAssumption DEF Inv, TypeOK
  <2>3. CASE pc'[w] = "failed" /\ sent' = sent
    BY <2>1, <2>3 DEF Budget, Underway
  <2>4. CASE /\ tries[w] < Retries
             /\ tries' = [tries EXCEPT ![w] = tries[w] + 1]
             /\ sent' = [sent EXCEPT ![w] = @ + 1]
    <3>1. tries'[w] = tries[w] + 1 /\ sent'[w] = sent[w] + 1
      BY <2>4 DEF Inv, TypeOK
    <3>2. tries'[w] \in 0 .. Retries /\ sent'[w] \in Nat
      BY <2>2, <2>4, <3>1
    <3>3. sent'[w] <= (Retries + 1) * collected[w] + tries'[w] + 1
      <4> DEFINE spent == (Retries + 1) * collected[w]
      <4>1. spent \in Nat /\ sent[w] <= spent + tries[w] + 1
        BY <2>1, <2>2
      <4> HIDE DEF spent
      <4>2. sent'[w] <= spent + tries'[w] + 1
        BY <2>2, <3>1, <4>1
      <4>3. QED  BY <4>2 DEF spent
    <3>4. sent'[w] <= (Retries + 1) * (MaxItems + 1)
      BY <2>1, <3>2, <3>3, WithinBudget
    <3>5. QED  BY <1>5, <3>3, <3>4 DEF Budget
  <2>5. QED
    <3>1. pc[w] \in {"page", "count"} /\ DOMAIN pc = Walks
      BY <1>1 DEF Inv, TypeOK
    <3>2. QED  BY <2>3, <2>4, <3>1 DEF Tried
<1>11. QED  BY <1>2, <1>3, <1>4, <1>7, <1>8, <1>9, <1>10, OnlyThisWalk DEF WalkInv

\* How often a page holds a row: never twice.
LEMMA Held ==
  ASSUME NEW pg \in Seq(Ids), Distinct(pg), NEW i
  PROVE  Cardinality({n \in 1 .. Len(pg) : pg[n] = i}) = IF Has(pg, i) THEN 1 ELSE 0
<1>1. CASE Has(pg, i)
  <2>1. PICK n \in 1 .. Len(pg) : pg[n] = i
    BY <1>1 DEF Has
  <2>2. {m \in 1 .. Len(pg) : pg[m] = i} = {n}
    BY <2>1 DEF Distinct
  <2>3. QED  BY <1>1, <2>2, FS_Singleton
<1>2. CASE ~Has(pg, i)
  <2>1. {m \in 1 .. Len(pg) : pg[m] = i} = {}
    BY <1>2 DEF Has
  <2>2. QED  BY <1>2, <2>1, FS_EmptySet
<1>3. QED  BY <1>1, <1>2

\* The items that are yielded: the page, or its first items, the last of them
\* one too many (paginate).
LEMMA YieldedOfPage ==
  ASSUME NEW w, page[w] \in Seq(Ids), Distinct(page[w]), collected[w] \in 0 .. MaxItems
  PROVE  /\ Yielded(w) \in Seq(Ids) /\ Distinct(Yielded(w))
         /\ \A i : Has(Yielded(w), i) => Has(page[w], i)
         /\ collected[w] + Len(Yielded(w)) \in 0 .. MaxItems + 1
         /\ ~Runaway(w) => Yielded(w) = page[w]
<1>1. Len(page[w]) \in Nat /\ MaxItems \in Nat
  BY LenProperties, PagingAssumption
<1>2. CASE ~Runaway(w)
  BY <1>1, <1>2 DEF Yielded, Runaway, Collected
<1>3. CASE Runaway(w)
  <2>1. PICK k : k = MaxItems + 1 - collected[w]
    OBVIOUS
  <2>2. k \in 1 .. Len(page[w])
    BY <1>1, <1>3, <2>1 DEF Runaway, Collected
  <2>3. Yielded(w) = SubSeq(page[w], 1, k)
    BY <1>3, <2>1 DEF Yielded
  <2>4. /\ Yielded(w) \in Seq(Ids) /\ Len(Yielded(w)) = k
        /\ \A n \in 1 .. k : Yielded(w)[n] = page[w][n]
    BY <1>1, <2>2, <2>3
  <2>5. \A n \in 1 .. k : n \in 1 .. Len(page[w])
    BY <1>1, <2>2
  <2>6. Distinct(Yielded(w)) /\ \A i : Has(Yielded(w), i) => Has(page[w], i)
    BY <2>4, <2>5 DEF Distinct, Has
  <2>7. collected[w] + Len(Yielded(w)) = MaxItems + 1
    BY <1>1, <2>1, <2>4
  <2>8. QED  BY <1>1, <1>3, <2>4, <2>6, <2>7
<1>4. QED  BY <1>2, <1>3

\* The items of a page are yielded, and the walk goes on, ends or gives up
\* (paginate).
LEMMA CollectInv ==
  ASSUME Inv, NEW w \in Walks, Collect(w)
  PROVE  Inv'
<1> USE DEF Collect, history
<1>1. pc[w] = "collect" /\ InHand(w) /\ Underway(w)
  BY DEF Inv, TypeOK, InHand, Underway
<1>2. /\ page[w] \in Seq(Ids) /\ Len(page[w]) \in Nat /\ Distinct(page[w])
      /\ offset[w] = collected[w] /\ collected[w] \in 0 .. MaxItems
      /\ MaxItems \in Nat
  BY <1>1, LenProperties, PagingAssumption DEF Inv, TypeOK, WalkInv, Position
<1>3. NextOffset(w) = Collected(w) /\ NextOffset(w) \in Nat
  BY <1>2 DEF NextOffset, Collected
<1>4. \/ /\ Runaway(w)
         /\ pc' = [pc EXCEPT ![w] = "failed"] /\ offset' = offset /\ sent' = sent
      \/ /\ ~Runaway(w) /\ Ended(w)
         /\ pc' = [pc EXCEPT ![w] = "done"] /\ offset' = [offset EXCEPT ![w] = NextOffset(w)]
         /\ sent' = sent
      \/ /\ ~Runaway(w) /\ ~Ended(w)
         /\ pc' = [pc EXCEPT ![w] = "page"] /\ offset' = [offset EXCEPT ![w] = NextOffset(w)]
         /\ sent' = [sent EXCEPT ![w] = sent[w] + 1]
  OBVIOUS
<1>5. /\ pc'[w] \in {"page", "done", "failed"}
      /\ pc'[w] # "failed" => ~Runaway(w) /\ offset'[w] = NextOffset(w)
      /\ pc'[w] = "page" => ~Ended(w) /\ sent'[w] = sent[w] + 1
      /\ pc'[w] # "page" => sent'[w] = sent[w]
      /\ pc'[w] = "done" => Ended(w)
  BY <1>4 DEF Inv, TypeOK
<1>6. /\ Yielded(w) \in Seq(Ids) /\ Distinct(Yielded(w))
      /\ \A i : Has(Yielded(w), i) => Has(page[w], i)
      /\ collected[w] + Len(Yielded(w)) \in 0 .. MaxItems + 1
      /\ ~Runaway(w) => Yielded(w) = page[w]
  BY <1>2, YieldedOfPage
<1>7. \A i \in Ids : listed'[w][i] = listed[w][i] + (IF Has(Yielded(w), i) THEN 1 ELSE 0)
  <2>1. \A i \in Ids : listed'[w][i] =
          listed[w][i] + Cardinality({n \in 1 .. Len(Yielded(w)) : Yielded(w)[n] = i})
    BY DEF Inv, TypeOK
  <2>2. QED  BY <1>6, <2>1, Held
<1>8. /\ page'[w] = <<>> /\ query'[w] = query[w] /\ size'[w] = size[w]
      /\ collected'[w] = collected[w] + Len(Yielded(w)) /\ tries'[w] = 0
      /\ begun'[w] = begun[w] /\ arrived'[w] = arrived[w] /\ left'[w] = left[w]
  BY DEF Inv, Shapes, TypeOK
<1>9. pc'[w] # "failed" => /\ collected'[w] = NextOffset(w) /\ NextOffset(w) <= MaxItems
                           /\ offset'[w] = NextOffset(w)
  BY <1>2, <1>3, <1>5, <1>6, <1>8 DEF Runaway, Collected
<1>10. TypeOK'
  <2>1. \A v \in Walks : query'[v] = NULL <=> pc'[v] = "idle"
    BY <1>1, <1>4 DEF Inv, TypeOK
  <2>2. pc' \in [Walks -> {"idle", "page", "count", "collect", "done", "failed"}]
    BY <1>4 DEF Inv, TypeOK
  <2>3. \A v \in Walks : page'[v] \in Seq(Ids) /\ Len(page'[v]) <= MaxLimit
    <3>1. \A v \in Walks : page'[v] = IF v = w THEN <<>> ELSE page[v]
      BY DEF Inv, Shapes
    <3>2. QED  BY <3>1, EmptySeq, PagingAssumption DEF Inv, TypeOK
  <2>4. offset' \in [Walks -> 0 .. MaxItems]
    <3>1. offset \in [Walks -> 0 .. MaxItems]
      BY DEF Inv, TypeOK
    <3>2. CASE offset' = offset
      BY <3>1, <3>2
    <3>3. CASE ~Runaway(w) /\ offset' = [offset EXCEPT ![w] = NextOffset(w)]
      <4>1. NextOffset(w) \in 0 .. MaxItems
        BY <1>2, <1>3, <3>3 DEF Runaway
      <4>2. QED  BY <3>1, <3>3, <4>1
    <3>4. QED  BY <1>4, <3>2, <3>3
  <2>5. collected' \in [Walks -> 0 .. MaxItems + 1]
    BY <1>6 DEF Inv, TypeOK
  <2>6. tries' \in [Walks -> 0 .. Retries] /\ total' \in [Walks -> Nat]
    BY PagingAssumption DEF Inv, TypeOK
  <2>7. sent' \in [Walks -> Nat]
    <3>1. sent' = sent \/ sent' = [sent EXCEPT ![w] = sent[w] + 1]
      BY <1>4
    <3>2. sent \in [Walks -> Nat]
      BY DEF Inv, TypeOK
    <3>3. QED  BY <3>1, <3>2
  <2>8. listed' \in [Walks -> [Ids -> Nat]]
    <3> DEFINE f == [i \in Ids |->
               listed[w][i] + Cardinality({n \in 1 .. Len(Yielded(w)) : Yielded(w)[n] = i})]
    <3>1. listed' = [listed EXCEPT ![w] = f]
      OBVIOUS
    <3>2. \A i \in Ids : f[i] = listed[w][i] + (IF Has(Yielded(w), i) THEN 1 ELSE 0)
      BY <1>6, Held
    <3>3. f = [i \in Ids |-> f[i]]
      OBVIOUS
    <3> HIDE DEF f
    <3>4. listed \in [Walks -> [Ids -> Nat]]
      BY DEF Inv, TypeOK
    <3>5. \A i \in Ids : f[i] \in Nat
      <4>1. \A i \in Ids : \E m \in {0, 1} : f[i] = listed[w][i] + m
        BY <3>2
      <4>2. \A i \in Ids : listed[w][i] \in Nat
        BY <3>4
      <4>3. QED  BY <4>1, <4>2
    <3>6. f \in [Ids -> Nat]
      BY <3>3, <3>5
    <3>7. QED  BY <3>1, <3>4, <3>6
  <2>9. QED
    BY <2>1, <2>2, <2>3, <2>4, <2>5, <2>6, <2>7, <2>8 DEF Inv, TypeOK
<1>11. Shapes'
  <2>1. {i \in Ids : Here(i)}' = {i \in Ids : Here(i)}
    BY DEF Here
  <2>2. DOMAIN page' = Walks
    BY DEF Inv, Shapes
  <2>3. QED  BY <2>1, <2>2 DEF Inv, Shapes
<1>12. Elsewhere(w)
  <2>1. \A v \in Walks \ {w} : /\ pc'[v] = pc[v] /\ offset'[v] = offset[v]
                                /\ sent'[v] = sent[v]
    <3>1. \E x, y, z : /\ pc' = [pc EXCEPT ![w] = x]
                       /\ offset' = offset \/ offset' = [offset EXCEPT ![w] = y]
                       /\ sent' = sent \/ sent' = [sent EXCEPT ![w] = z]
      BY <1>4
    <3>2. DOMAIN pc = Walks /\ DOMAIN offset = Walks /\ DOMAIN sent = Walks
      BY DEF Inv, TypeOK
    <3>3. QED  BY <3>1, <3>2
  <2>2. \A v \in Walks \ {w} : /\ listed'[v] = listed[v] /\ collected'[v] = collected[v]
                                /\ tries'[v] = tries[v] /\ page'[v] = page[v]
                                /\ total'[v] = total[v]
    OBVIOUS
  <2>3. UNCHANGED <<table, rows, query, size, begun, arrived, left>>
    OBVIOUS
  <2>4. QED  BY <2>1, <2>2, <2>3 DEF Elsewhere, Still
<1>13. /\ Selected(query[w])' = Selected(query[w])
       /\ \A i : Rank(w, i)' = Rank(w, i) /\ Rank(w, i) \in Nat
  BY <1>8, SameSelection, Finite DEF Inv, Rank
<1>14. /\ ~InHand(w)' /\ pc'[w] # "idle"
       /\ Underway(w)' => pc'[w] = "page"
  BY <1>5 DEF InHand, Underway
<1>15. Position(w)' /\ Distinct(page[w])'
  BY <1>1, <1>8, <1>9, <1>14 DEF Inv, WalkInv, Position, Distinct
<1>16. Budget(w)'
  <2>1. /\ sent[w] <= (Retries + 1) * collected[w] + tries[w] + 1
        /\ sent[w] <= (Retries + 1) * (MaxItems + 1)
    BY <1>1 DEF Inv, WalkInv, Budget
  <2>2. CASE pc'[w] # "page"
    BY <1>5, <1>14, <2>1, <2>2 DEF Budget
  <2>3. CASE pc'[w] = "page"
    <3>1. /\ Len(page[w]) \in Nat \ {0} /\ collected'[w] = collected[w] + Len(page[w])
          /\ sent'[w] = sent[w] + 1
      <4>1. page[w] # <<>>
        BY <1>5, <2>3 DEF Ended
      <4>2. Len(page[w]) # 0
        BY <1>2, <4>1, EmptySeq
      <4>3. QED  BY <1>2, <1>5, <1>6, <1>8, <2>3, <4>2
    <3>2. sent[w] \in Nat /\ tries[w] \in 0 .. Retries /\ collected[w] \in Nat
      BY <1>2 DEF Inv, TypeOK
    <3>3. sent'[w] <= (Retries + 1) * collected'[w] + 1
      BY <2>1, <3>1, <3>2, PageSpends
    <3>4. sent'[w] <= (Retries + 1) * collected'[w] + 0 + 1
      BY <3>3, <3>1, <3>2, PagingAssumption
    <3>5. collected'[w] \in 0 .. MaxItems /\ sent'[w] \in Nat /\ 0 \in 0 .. Retries
      BY <1>2, <1>3, <1>9, <2>3, <3>1, <3>2, PagingAssumption
    <3>6. sent'[w] <= (Retries + 1) * (MaxItems + 1)
      BY <3>4, <3>5, WithinBudget
    <3>7. QED  BY <1>8, <3>4, <3>6 DEF Budget
  <2>4. QED  BY <2>2, <2>3
<1>17. ~Runaway(w) /\ left[w] = {} =>
         /\ begun[w] \subseteq Selected(query[w])
         /\ \A i \in begun[w] : ~Tied(i) =>
              \/ listed'[w][i] > 0
              \/ /\ page[w] # <<>> /\ Rank(w, i) >= NextOffset(w)
                 /\ NextOffset(w) < total[w]
  <2> SUFFICES ASSUME ~Runaway(w), left[w] = {}
               PROVE  /\ begun[w] \subseteq Selected(query[w])
                      /\ \A i \in begun[w] : ~Tied(i) =>
                           \/ listed'[w][i] > 0
                           \/ /\ page[w] # <<>> /\ Rank(w, i) >= NextOffset(w)
                              /\ NextOffset(w) < total[w]
    OBVIOUS
  <2>1. /\ begun[w] \subseteq Selected(query[w])
        /\ \A i \in begun[w] : ~Tied(i) =>
             \/ listed[w][i] > 0
             \/ Has(page[w], i)
             \/ /\ page[w] # <<>> /\ Rank(w, i) >= NextOffset(w)
                /\ NextOffset(w) < total[w]
    BY <1>1 DEF Inv, WalkInv, StillAhead
  <2>2. \A i \in begun[w] : i \in Ids /\ listed[w][i] \in Nat
    BY <2>1, Finite DEF Inv, TypeOK
  <2>3. ASSUME NEW i \in begun[w], listed[w][i] > 0 \/ Has(page[w], i)
        PROVE  listed'[w][i] > 0
    <3>1. listed'[w][i] = listed[w][i] + (IF Has(page[w], i) THEN 1 ELSE 0)
      <4>1. Yielded(w) = page[w]
        BY <1>6
      <4>2. Has(Yielded(w), i) <=> Has(page[w], i)
        BY <4>1
      <4>3. QED  BY <1>7, <2>2, <4>2
    <3>2. listed[w][i] \in Nat
      BY <2>2
    <3>3. QED  BY <2>3, <3>1, <3>2
  <2>4. QED  BY <2>1, <2>3
<1>18. StillAhead(w)'
  <2> SUFFICES ASSUME left'[w] = {}, Underway(w)'
               PROVE  /\ begun[w] \subseteq Selected(query[w])
                      /\ \A i \in begun[w] : ~Tied(i) =>
                           listed'[w][i] > 0 \/ Rank(w, i) >= NextOffset(w)
    <3>1. Underway(w)' => offset'[w] = NextOffset(w)
      BY <1>9, <1>14
    <3>2. QED  BY <1>8, <1>13, <1>14, <3>1 DEF StillAhead
  <2>1. pc'[w] = "page" /\ ~Runaway(w) /\ left[w] = {}
    BY <1>5, <1>8, <1>14
  <2>2. QED  BY <1>17, <2>1
<1>19. Complete(w)'
  <2>1. ASSUME Ended(w), NextOffset(w) < total[w], page[w] # <<>>
        PROVE  FALSE
    <3>1. total[w] \in Nat
      BY DEF Inv, TypeOK
    <3>2. QED  BY <1>3, <2>1, <3>1 DEF Ended
  <2>2. QED  BY <1>5, <1>8, <1>17, <2>1 DEF Complete
<1>20. Once(w)'
  <2> SUFFICES ASSUME arrived[w] = {}, NEW i \in Ids, ~Tied(i)
               PROVE  /\ listed'[w][i] <= 1
                      /\ pc'[w] = "page" /\ listed'[w][i] = 1 => Before(w, i, NextOffset(w))
    BY <1>8, <1>9, <1>13, <1>14 DEF Once, Before
  <2>1. /\ listed[w][i] <= 1 /\ listed[w][i] \in Nat
        /\ listed[w][i] = 1 => Before(w, i, offset[w])
        /\ Has(page[w], i) => listed[w][i] = 0 /\ Before(w, i, NextOffset(w))
    <3>1. Once(w)
      BY DEF Inv, WalkInv
    <3>2. listed[w][i] \in Nat
      BY DEF Inv, TypeOK
    <3>3. QED  BY <1>1, <3>1, <3>2 DEF Once
  <2>2. Before(w, i, offset[w]) => Before(w, i, NextOffset(w))
    BY <1>2, <1>13 DEF Before, NextOffset
  <2>3. CASE Has(Yielded(w), i)
    <3>1. listed'[w][i] = listed[w][i] + 1 /\ Has(page[w], i)
      BY <1>6, <1>7, <2>3
    <3>2. QED  BY <2>1, <3>1
  <2>4. CASE ~Has(Yielded(w), i)
    <3>1. listed'[w][i] = listed[w][i] + 0
      BY <1>7, <2>4
    <3>2. QED  BY <2>1, <2>2, <3>1
  <2>5. QED  BY <2>3, <2>4
<1>21. QED
  BY <1>10, <1>11, <1>12, <1>15, <1>16, <1>18, <1>19, <1>20, OnlyThisWalk DEF WalkInv

-----------------------------------------------------------------------------
\* Every step keeps the invariant.
LEMMA NextInv == Inv /\ [Next]_vars => Inv'
<1> SUFFICES ASSUME Inv, [Next]_vars PROVE Inv'
  OBVIOUS
<1>1. CASE \E i \in Ids, columns \in Inserted[table] : Insert(i, columns)
  BY <1>1, InsertInv
<1>2. CASE \E i \in Ids, change \in Changes[table] : Change(i, change)
  BY <1>2, ChangeInv
<1>3. CASE \E w \in Walks, q \in Queries[table], n \in PageSizes : Start(w, q, n)
  BY <1>3, StartInv
<1>4. CASE \E w \in Walks : Walk(w) \/ RequestFails(w)
  BY <1>4, ReadPageInv, CountRowsInv, CollectInv, RequestFailsInv DEF Walk
<1>5. CASE UNCHANGED vars
  <2>1. TypeOK'
    BY <1>5 DEF Inv, TypeOK, vars, client, history
  <2>2. Shapes'
    BY <1>5 DEF Inv, Shapes, Here, vars, client, history
  <2>3. \A w \in Walks : WalkInv(w)'
    BY <1>5, StillKeeps DEF Inv, Still, vars, client, history
  <2>4. QED  BY <2>1, <2>2, <2>3 DEF Inv
<1>6. QED  BY <1>1, <1>2, <1>3, <1>4, <1>5 DEF Next

\* The invariant holds in every state, whatever the table, the rows that come,
\* change and go, and the page sizes.
THEOREM Invariance == Spec => []Inv
  BY InitInv, NextInv, PTL DEF Spec

\* Every variable keeps its type: a walk yields one item more than
\* MAX_COLLECTED_ITEMS at most, and never asks beyond them (paginate).
THEOREM TypeCorrect == Spec => []TypeOK
<1>1. Inv => TypeOK
  BY DEF Inv
<1>2. QED  BY Invariance, <1>1, PTL

\* What was in the list when a walk began is listed by the time it ends,
\* unless a row has left meanwhile (paginate over the list handlers).
THEOREM NothingIsSkipped == Spec => []NothingSkipped
<1>1. Inv => NothingSkipped
  BY DEF Inv, WalkInv, Complete, NothingSkipped
<1>2. QED  BY Invariance, <1>1, PTL

\* No row is listed twice unless one arrived meanwhile, however often a
\* request is repeated (requestWithRetry, paginate).
THEOREM OnlyArrivalsRepeat == Spec => []RepeatsNeedArrivals
<1>1. Inv => RepeatsNeedArrivals
  <2> SUFFICES ASSUME Inv, NEW w \in Walks, NEW i \in Ids, listed[w][i] > 1,
                      arrived[w] = {}, ~Tied(i)
               PROVE  FALSE
    BY DEF RepeatsNeedArrivals
  <2>1. listed[w][i] <= 1 /\ listed[w][i] \in Nat
    BY DEF Inv, WalkInv, Once, TypeOK
  <2>2. QED  BY <2>1
<1>2. QED  BY Invariance, <1>1, PTL

\* However many rows arrive, a walk sends a bounded number of requests: the
\* guard on the items collected and the count of the retries hold it (paginate,
\* requestWithRetry).
THEOREM WalksStop == Spec => []WalksAreBounded
<1>1. Inv => WalksAreBounded
  BY DEF Inv, WalkInv, Budget, WalksAreBounded
<1>2. QED  BY Invariance, <1>1, PTL
===============================================================================
