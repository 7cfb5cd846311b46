--------------------------- MODULE Listing_proofs ---------------------------
(***************************************************************************)
(* Proofs about Listing for every number of rows, page size and number of  *)
(* changes: what a walk through the pages may miss and may repeat.         *)
(***************************************************************************)
EXTENDS Listing, FiniteSetTheorems, TLAPS

(***************************************************************************)
(* Where the rows are.                                                     *)
(***************************************************************************)

\* The tenant's rows that every answer has in front of s.
Newer(s) == {w \in Where : table[w].created > table[s].created}
Rank(s)  == Cardinality(Newer(s))

\* No other row of the tenant has the time of creation of a steady one.
Singular == \A s \in steady : \A w \in Where \ {s} : table[w].created # table[s].created

\* The steady rows that the client has not found, and those that it has not
\* found although it is past the first n rows.  S is a page about to arrive.
Unseen(S)    == {s \in steady \ S : seen[s] = 0}
Passed(S, n) == {s \in Unseen(S) : Rank(s) < n}

\* How often it has found s, and how often it will have when it gets past row
\* n unless s moves again.
Found(S, s)    == IF s \in S THEN seen[s] + 1 ELSE seen[s]
Shows(S, n, s) == IF Found(S, s) > 0 /\ Rank(s) >= n THEN Found(S, s) + 1 ELSE Found(S, s)

\* The repeats there have been and the ones on the way.
Again(S, n) == {p \in steady \X Nat : 2 <= p[2] /\ p[2] <= Shows(S, n, p[1])}

\* T has at most n elements.
AtMost(T, n) == IsFiniteSet(T) /\ Cardinality(T) <= n

-----------------------------------------------------------------------------
(***************************************************************************)
(* Types.                                                                  *)
(***************************************************************************)

\* Sets of rows are finite and have at most as many elements as there are rows.
LEMMA RowsFinite ==
  ASSUME NEW S, S \subseteq Rows
  PROVE  IsFiniteSet(S) /\ Cardinality(S) \in 0..MaxRows
<1>1. MaxRows \in Nat
  BY ListingAssumption
<1>2. IsFiniteSet(Rows) /\ Cardinality(Rows) = MaxRows
  BY <1>1, FS_Interval DEF Rows
<1>3. IsFiniteSet(S) /\ Cardinality(S) <= MaxRows
  BY <1>2, FS_Subset
<1>4. Cardinality(S) \in Nat
  BY <1>3, FS_CardinalityType
<1> QED
  BY <1>1, <1>3, <1>4

\* The tenant's rows are finitely many, and so are those newer than another.
LEMMA WhereTyped ==
  ASSUME TypeOK
  PROVE  /\ Where \subseteq DOMAIN table /\ steady \subseteq Where
         /\ Where \subseteq Rows
         /\ \A r \in Where : table[r].created \in Nat
         /\ \A S : S \subseteq Where => IsFiniteSet(S) /\ Cardinality(S) \in 0..MaxRows
         /\ \A s : Newer(s) \subseteq Where /\ IsFiniteSet(Newer(s)) /\ Rank(s) \in Nat
<1>1. used \in 0..MaxRows /\ DOMAIN table \subseteq 1..used /\ MaxRows \in Nat
  BY ListingAssumption DEF TypeOK
<1>2. Where \subseteq DOMAIN table /\ steady \subseteq Where
  BY DEF TypeOK, Where
<1>3. Where \subseteq Rows
  BY <1>1, <1>2 DEF Rows
<1>4. \A r \in Where : table[r].created \in Nat
  BY <1>2, ListingAssumption DEF TypeOK, Row
<1>5. ASSUME NEW S, S \subseteq Where
      PROVE  IsFiniteSet(S) /\ Cardinality(S) \in 0..MaxRows
  <2>1. S \subseteq Rows
    BY <1>3, <1>5
  <2> QED
    BY <2>1, RowsFinite
<1>6. ASSUME NEW s
      PROVE  Newer(s) \subseteq Where /\ IsFiniteSet(Newer(s)) /\ Rank(s) \in Nat
  <2>1. Newer(s) \subseteq Where
    BY DEF Newer
  <2> QED
    BY <2>1, <1>5, <1>1 DEF Rank
<1> QED
  BY <1>2, <1>3, <1>4, <1>5, <1>6

\* Before the first request: nothing has been found, missed or changed.
LEMMA TypesInit == Init => TypeOK
<1> SUFFICES ASSUME Init PROVE TypeOK
  OBVIOUS
<1>1. MaxRows \in Nat /\ MaxChanges \in Nat /\ MaxFailures \in Nat
  BY ListingAssumption
<1>2. page \in 0..LastPage /\ total \in 0..MaxRows /\ failures \in 0..MaxFailures
  BY <1>1 DEF Init, LastPage
<1>3. DOMAIN table \subseteq 1..used /\ \A r \in DOMAIN table : table[r] \in Row
  BY DEF Init
<1>4. joined \in Nat /\ left \in Nat /\ Changes <= MaxChanges
  BY <1>1 DEF Init, Changes
<1>5. steady \subseteq {r \in DOMAIN table : table[r].own}
  BY DEF Init, Where
<1> QED
  BY <1>2, <1>3, <1>4, <1>5 DEF Init, TypeOK

\* A page is full at most, and is a page of the tenant's rows.
LEMMA PageTyped ==
  ASSUME TypeOK, NEW S \in Pages(page)
  PROVE  S \in SUBSET Rows /\ Cardinality(S) \in Nat /\ Cardinality(S) <= Limit
<1>1. S \subseteq Where
  BY DEF Pages
<1>2. PICK front \in SUBSET (Where \ S) : Cardinality(S) = Min2(Limit, Cardinality(Where \ front))
  BY DEF Pages
<1>3. Where \ front \subseteq Where
  OBVIOUS
<1>4. Cardinality(Where \ front) \in Nat /\ Cardinality(S) \in Nat
  BY <1>1, <1>3, WhereTyped, ListingAssumption
<1> QED
  BY <1>1, <1>2, <1>4, WhereTyped, ListingAssumption DEF Min2

(***************************************************************************)
(* What one change does to the tenant's rows.                              *)
(***************************************************************************)

\* Another request that changes the table.
OtherRequest ==
  \/ \E t \in Times, own \in BOOLEAN : CreateRow(t, own)
  \/ \E r \in Rows : RemoveRow(r) \/ MoveRow(r)

\* The tenant loses a row at most, or gets one at most; the rows that it
\* keeps keep their time of creation.
Changed ==
  /\ Change /\ History
  /\ NewlyOwn \subseteq Rows
  /\ \A w \in Where \cap NewlyOwn : table'[w].created = table[w].created
  /\ \/ NewlyOwn \subseteq Where /\ \E r \in Rows : Where \ NewlyOwn \subseteq {r}
     \/ Where \subseteq NewlyOwn /\ \E r \in Rows : NewlyOwn \ Where \subseteq {r}

\* The table stays well-typed, and the client is left alone.
LEMMA TableTyped ==
  ASSUME TypeOK, OtherRequest
  PROVE  /\ used' \in 0..MaxRows /\ DOMAIN table' \subseteq 1..used'
         /\ \A r \in DOMAIN table' : table'[r] \in Row
         /\ UNCHANGED <<request, client, failures>>
         /\ Changed
<1>1. used \in 0..MaxRows /\ DOMAIN table \subseteq 1..used /\ MaxRows \in Nat
      /\ \A r \in DOMAIN table : table[r] \in Row
  BY ListingAssumption DEF TypeOK
<1>2. Where \subseteq DOMAIN table /\ NewlyOwn \subseteq DOMAIN table'
  BY DEF Where, NewlyOwn
<1>3. ASSUME NEW t \in Times, NEW own \in BOOLEAN, CreateRow(t, own)
      PROVE  /\ used' \in 0..MaxRows /\ DOMAIN table' \subseteq 1..used'
             /\ \A r \in DOMAIN table' : table'[r] \in Row
             /\ UNCHANGED <<request, client, failures>>
             /\ Changed
  <2>1. used' = used + 1 /\ used' \in 0..MaxRows /\ used' \notin DOMAIN table
    BY <1>1, <1>3 DEF CreateRow
  <2>2. /\ DOMAIN table' = DOMAIN table \cup {used'}
        /\ \A r \in DOMAIN table : table'[r] = table[r]
        /\ table'[used'] \in Row
    BY <2>1, <1>3 DEF CreateRow, Row
  <2>3. DOMAIN table' \subseteq 1..used' /\ \A r \in DOMAIN table' : table'[r] \in Row
    BY <1>1, <2>1, <2>2
  <2>4. Where \subseteq NewlyOwn /\ NewlyOwn \ Where \subseteq {used'}
    BY <2>2 DEF Where, NewlyOwn
  <2>5. NewlyOwn \subseteq Rows /\ used' \in Rows
    BY <1>1, <1>2, <2>1, <2>2, <2>3 DEF Rows
  <2>6. \A w \in Where \cap NewlyOwn : table'[w].created = table[w].created
    BY <1>2, <2>2
  <2> QED
    BY <1>3, <2>1, <2>3, <2>4, <2>5, <2>6 DEF Changed, CreateRow
<1>4. ASSUME NEW r \in Rows, RemoveRow(r)
      PROVE  /\ used' \in 0..MaxRows /\ DOMAIN table' \subseteq 1..used'
             /\ \A s \in DOMAIN table' : table'[s] \in Row
             /\ UNCHANGED <<request, client, failures>>
             /\ Changed
  <2>1. /\ used' = used
        /\ DOMAIN table' = DOMAIN table \ {r}
        /\ \A s \in DOMAIN table' : table'[s] = table[s]
    BY <1>4 DEF RemoveRow
  <2>2. NewlyOwn \subseteq Where /\ Where \ NewlyOwn \subseteq {r}
    BY <2>1 DEF Where, NewlyOwn
  <2>3. \A w \in Where \cap NewlyOwn : table'[w].created = table[w].created
    BY <1>2, <2>1
  <2>4. NewlyOwn \subseteq Rows
    BY <1>1, <1>2, <2>2 DEF Rows
  <2> QED
    BY <1>1, <1>4, <2>1, <2>2, <2>3, <2>4 DEF Changed, RemoveRow
<1>5. ASSUME NEW r \in Rows, MoveRow(r)
      PROVE  /\ used' \in 0..MaxRows /\ DOMAIN table' \subseteq 1..used'
             /\ \A s \in DOMAIN table' : table'[s] \in Row
             /\ UNCHANGED <<request, client, failures>>
             /\ Changed
  <2>1. /\ used' = used /\ r \in DOMAIN table
        /\ DOMAIN table' = DOMAIN table
        /\ \A s \in DOMAIN table \ {r} : table'[s] = table[s]
        /\ table'[r] = [table[r] EXCEPT !.own = ~@]
    BY <1>5 DEF MoveRow
  <2>2. table[r] \in Row /\ table'[r] \in Row
        /\ table'[r].created = table[r].created /\ table'[r].own = ~table[r].own
    BY <1>1, <2>1 DEF Row
  <2>3. NewlyOwn \ Where \subseteq {r} /\ Where \ NewlyOwn \subseteq {r}
    BY <2>1 DEF Where, NewlyOwn
  <2>4. NewlyOwn \subseteq Where \/ Where \subseteq NewlyOwn
    BY <2>1, <2>2, <2>3 DEF Where, NewlyOwn
  <2>5. \A w \in Where \cap NewlyOwn : table'[w].created = table[w].created
    BY <1>2, <2>1, <2>2
  <2>6. NewlyOwn \subseteq Rows
    BY <1>1, <1>2, <2>1 DEF Rows
  <2> QED
    BY <1>1, <1>5, <2>1, <2>2, <2>3, <2>4, <2>5, <2>6 DEF Changed, MoveRow
<1> QED
  BY <1>3, <1>4, <1>5 DEF OtherRequest

\* The counts of rows lost and got go up by one at most, and not both.
LEMMA HistoryCounts ==
  ASSUME TypeOK, Changed
  PROVE  /\ IsFiniteSet(Where \ NewlyOwn) /\ IsFiniteSet(NewlyOwn \ Where)
         /\ joined \in Nat /\ left \in Nat
         /\ left' = left + Cardinality(Where \ NewlyOwn)
         /\ joined' = joined + Cardinality(NewlyOwn \ Where)
         /\ \/ left' = left /\ joined' \in {joined, joined + 1}
            \/ joined' = joined /\ left' \in {left, left + 1}
<1>1. \A S : S \subseteq Rows => IsFiniteSet(S) /\ Cardinality(S) \in Nat
  BY RowsFinite, ListingAssumption
<1>2. Where \subseteq Rows /\ NewlyOwn \subseteq Rows
  BY WhereTyped DEF Changed
<1>3. ASSUME NEW S, NEW r, S \subseteq {r}
      PROVE  Cardinality(S) \in {0, 1}
  <2>1. S = {} \/ S = {r}
    BY <1>3
  <2> QED
    BY <2>1, FS_EmptySet, FS_Singleton
<1>4. ASSUME NEW S, NEW T, S \subseteq T
      PROVE  Cardinality(S \ T) = 0
  <2>1. S \ T = {}
    BY <1>4
  <2> QED
    BY <2>1, FS_EmptySet
<1>5. joined \in Nat /\ left \in Nat
  BY DEF TypeOK
<1>6. left' = left + Cardinality(Where \ NewlyOwn) /\ joined' = joined + Cardinality(NewlyOwn \ Where)
  BY DEF Changed, History
<1>7. \/ Cardinality(Where \ NewlyOwn) = 0 /\ Cardinality(NewlyOwn \ Where) \in {0, 1}
      \/ Cardinality(NewlyOwn \ Where) = 0 /\ Cardinality(Where \ NewlyOwn) \in {0, 1}
  BY <1>3, <1>4 DEF Changed
<1>8. IsFiniteSet(Where \ NewlyOwn) /\ IsFiniteSet(NewlyOwn \ Where)
  BY <1>1, <1>2
<1> QED
  BY <1>5, <1>6, <1>7, <1>8

\* Rows move up by no more than the tenant lost, and down by no more than it
\* got; whoever stays steady has stayed apart from all others.
LEMMA RanksMove ==
  ASSUME TypeOK, TypeOK', Singular, Changed
  PROVE  /\ steady' \subseteq steady /\ Singular'
         /\ \A s \in steady' : /\ Rank(s) \in Nat /\ Rank(s)' \in Nat
                               /\ Rank(s) + left <= Rank(s)' + left'
                               /\ Rank(s)' + joined <= Rank(s) + joined'
<1>1. steady' = SteadyStill /\ steady' \subseteq steady /\ steady' \subseteq NewlyOwn
  BY DEF Changed, History, SteadyStill
<1>2. Where' = NewlyOwn
  BY DEF Where, NewlyOwn
<1>3. Singular'
  BY <1>1, <1>2 DEF Singular, SteadyStill, Unlike
<1>4. ASSUME NEW s \in steady'
      PROVE  /\ Rank(s) \in Nat /\ Rank(s)' \in Nat
             /\ Rank(s) + left <= Rank(s)' + left'
             /\ Rank(s)' + joined <= Rank(s) + joined'
  <2>1. s \in Where /\ s \in NewlyOwn
    BY <1>1, WhereTyped
  <2>2. table'[s].created = table[s].created
    BY <2>1 DEF Changed
  <2>3. /\ \A w \in Newer(s) : w \in NewlyOwn => w \in Newer(s)'
        /\ \A w \in Newer(s)' : w \in Where => w \in Newer(s)
    BY <1>2, <2>2 DEF Newer, Changed
  <2>4. Newer(s) \subseteq Where /\ Newer(s)' \subseteq NewlyOwn
    BY <1>2 DEF Newer
  <2>5. /\ Newer(s) \subseteq Newer(s)' \cup (Where \ NewlyOwn)
        /\ Newer(s)' \subseteq Newer(s) \cup (NewlyOwn \ Where)
    BY <2>3, <2>4
  <2>6. IsFiniteSet(Newer(s)) /\ Rank(s) \in Nat
    BY WhereTyped
  <2>7. IsFiniteSet(Newer(s)') /\ Rank(s)' \in Nat
    <3>1. Newer(s)' \subseteq Rows
      BY <2>4 DEF Changed
    <3> QED
      BY <3>1, RowsFinite, ListingAssumption DEF Rank
  <2>8. ASSUME NEW S, NEW T, NEW D, IsFiniteSet(S), IsFiniteSet(T), IsFiniteSet(D), S \subseteq T \cup D
        PROVE  Cardinality(S) <= Cardinality(T) + Cardinality(D)
    <3>1. IsFiniteSet(T \cup D) /\ Cardinality(T \cup D) = Cardinality(T) + Cardinality(D) - Cardinality(T \cap D)
      BY <2>8, FS_Union
    <3>2. Cardinality(S) <= Cardinality(T \cup D)
      BY <2>8, <3>1, FS_Subset
    <3>3. IsFiniteSet(T \cap D)
      BY <2>8, FS_Intersection
    <3>4. Cardinality(S) \in Nat /\ Cardinality(T) \in Nat /\ Cardinality(D) \in Nat /\ Cardinality(T \cap D) \in Nat
      BY <2>8, <3>3, FS_CardinalityType
    <3> QED
      BY <3>1, <3>2, <3>4
  <2>9. IsFiniteSet(Where \ NewlyOwn) /\ IsFiniteSet(NewlyOwn \ Where)
    BY HistoryCounts
  <2>10. Cardinality(Newer(s)) <= Cardinality(Newer(s)') + Cardinality(Where \ NewlyOwn)
    BY <2>5, <2>6, <2>7, <2>8, <2>9
  <2>11. Cardinality(Newer(s)') <= Cardinality(Newer(s)) + Cardinality(NewlyOwn \ Where)
    BY <2>5, <2>6, <2>7, <2>8, <2>9
  <2>12. Cardinality(Where \ NewlyOwn) \in Nat /\ Cardinality(NewlyOwn \ Where) \in Nat
    BY <2>9, FS_CardinalityType
  <2>13. /\ Rank(s) <= Rank(s)' + Cardinality(Where \ NewlyOwn)
         /\ Rank(s)' <= Rank(s) + Cardinality(NewlyOwn \ Where)
    BY <2>10, <2>11 DEF Rank
  <2> QED
    BY <2>6, <2>7, <2>12, <2>13, HistoryCounts
<1> QED
  BY <1>1, <1>3, <1>4

(***************************************************************************)
(* Typing.                                                                 *)
(***************************************************************************)

\* Every step keeps the types; it counts the changes to the table within
\* their bound.
LEMMA TypesNext == TypeOK /\ [Next]_vars => TypeOK'
<1> SUFFICES ASSUME TypeOK, [Next]_vars
             PROVE  TypeOK'
  OBVIOUS
<1>0. MaxRows \in Nat /\ MaxChanges \in Nat /\ MaxFailures \in Nat /\ Limit \in Nat \ {0}
  BY ListingAssumption
<1>1. CASE FindMany
  <2>1. \E S \in SUBSET Rows : listed' = {S} /\ Cardinality(S) <= Limit
    BY <1>1, PageTyped DEF FindMany
  <2>2. UNCHANGED <<table, used, counted, client, steady, joined, left, failures>>
    BY <1>1 DEF FindMany
  <2> QED
    BY <2>1, <2>2 DEF TypeOK, client, Changes
<1>2. CASE Count
  <2>1. \E n \in 0..MaxRows : counted' = {n}
    BY <1>2, WhereTyped DEF Count
  <2>2. UNCHANGED <<table, used, listed, client, steady, joined, left, failures>>
    BY <1>2 DEF Count
  <2> QED
    BY <2>1, <2>2 DEF TypeOK, client, Changes
<1>3. CASE Receive
  <2>1. PICK S \in listed, n \in counted :
          /\ seen' = [r \in Rows |-> IF r \in S THEN seen[r] + 1 ELSE seen[r]]
          /\ total' = n
          /\ page' = IF Cardinality(S) < Limit THEN 0 ELSE Min2(page + 1, LastPage)
    BY <1>3 DEF Receive
  <2>2. seen' \in [Rows -> Nat]
    BY <2>1 DEF TypeOK
  <2>3. total' \in 0..MaxRows
    BY <2>1 DEF TypeOK
  <2>4. page' \in 0..LastPage
    BY <1>0, <2>1 DEF TypeOK, Min2, LastPage
  <2>5. listed' = {} /\ counted' = {} /\ UNCHANGED <<table, used, steady, joined, left, failures>>
    BY <1>3 DEF Receive
  <2> QED
    BY <2>2, <2>3, <2>4, <2>5 DEF TypeOK, Changes
<1>4. CASE Fail
  BY <1>0, <1>4 DEF Fail, TypeOK, client, Changes
<1>5. CASE OtherRequest
  <2>1. /\ used' \in 0..MaxRows /\ DOMAIN table' \subseteq 1..used'
        /\ \A r \in DOMAIN table' : table'[r] \in Row
        /\ UNCHANGED <<request, client, failures>>
        /\ Changed
    BY <1>5, TableTyped
  <2>2. steady' \subseteq {r \in DOMAIN table' : table'[r].own}
    BY <2>1 DEF Changed, History, SteadyStill, NewlyOwn
  <2>3. joined' \in Nat /\ left' \in Nat /\ Changes' <= MaxChanges
    <3>1. joined \in Nat /\ left \in Nat /\ joined + left < MaxChanges
      BY <2>1 DEF Changed, Change, Changes, TypeOK
    <3> QED
      BY <1>0, <2>1, <3>1, HistoryCounts DEF Changes
  <2> QED
    BY <2>1, <2>2, <2>3 DEF TypeOK, request, client
<1>6. CASE UNCHANGED vars
  BY <1>6 DEF vars, request, client, TypeOK, Changes
<1> QED
  BY <1>1, <1>2, <1>3, <1>4, <1>5, <1>6 DEF Next, Walk, OtherRequest

\* The pages, counters and histories of a walk have their types throughout.
THEOREM Typing == Spec => []TypeOK
BY TypesInit, TypesNext, PTL DEF Spec

(***************************************************************************)
(* Counting steady rows.                                                   *)
(***************************************************************************)

\* Fewer are no more, and one more is one more.
LEMMA Counts ==
  ASSUME NEW A, NEW B, NEW n \in Nat, AtMost(B, n)
  PROVE  /\ A \subseteq B => AtMost(A, n) /\ AtMost(A, n + 1)
         /\ \A e : A \subseteq B \cup {e} => AtMost(A, n + 1)
<1>1. IsFiniteSet(B) /\ Cardinality(B) \in Nat /\ Cardinality(B) <= n
  BY FS_CardinalityType DEF AtMost
<1>2. ASSUME A \subseteq B
      PROVE  AtMost(A, n) /\ AtMost(A, n + 1)
  <2>1. IsFiniteSet(A) /\ Cardinality(A) <= Cardinality(B)
    BY <1>1, <1>2, FS_Subset
  <2>2. Cardinality(A) \in Nat
    BY <2>1, FS_CardinalityType
  <2> QED
    BY <1>1, <2>1, <2>2 DEF AtMost
<1>3. ASSUME NEW e, A \subseteq B \cup {e}
      PROVE  AtMost(A, n + 1)
  <2>1. /\ IsFiniteSet(B \cup {e})
        /\ Cardinality(B \cup {e}) = IF e \in B THEN Cardinality(B) ELSE Cardinality(B) + 1
    BY <1>1, FS_AddElement
  <2>2. IsFiniteSet(A) /\ Cardinality(A) <= Cardinality(B \cup {e})
    BY <1>3, <2>1, FS_Subset
  <2>3. Cardinality(A) \in Nat
    BY <2>2, FS_CardinalityType
  <2>4. Cardinality(B \cup {e}) \in Nat /\ Cardinality(B \cup {e}) <= n + 1
    BY <1>1, <2>1
  <2> QED
    BY <1>1, <2>2, <2>3, <2>4 DEF AtMost
<1> QED
  BY <1>2, <1>3

\* Two steady rows are never at the same place.
LEMMA RanksDiffer ==
  ASSUME TypeOK, Singular, NEW s \in steady, NEW t \in steady, Rank(s) = Rank(t)
  PROVE  s = t
<1>1. s \in Where /\ t \in Where /\ table[s].created \in Nat /\ table[t].created \in Nat
  BY WhereTyped
<1>2. ASSUME NEW x \in steady, NEW y \in steady, table[x].created > table[y].created
      PROVE  Rank(x) < Rank(y)
  <2>1. x \in Where /\ y \in Where /\ \A r \in Where : table[r].created \in Nat
    BY WhereTyped
  <2>2. Newer(x) \cup {x} \subseteq Newer(y) /\ x \notin Newer(x)
    BY <1>2, <2>1 DEF Newer
  <2>3. IsFiniteSet(Newer(x)) /\ IsFiniteSet(Newer(y)) /\ Rank(x) \in Nat /\ Rank(y) \in Nat
    BY WhereTyped
  <2>4. Cardinality(Newer(x) \cup {x}) = Cardinality(Newer(x)) + 1
    BY <2>2, <2>3, FS_AddElement
  <2>5. Cardinality(Newer(x) \cup {x}) <= Cardinality(Newer(y))
    BY <2>2, <2>3, FS_Subset
  <2> QED
    BY <2>3, <2>4, <2>5 DEF Rank
<1>3. Rank(s) \in Nat
  BY WhereTyped
<1>4. ~(table[s].created > table[t].created) /\ ~(table[t].created > table[s].created)
  BY <1>2, <1>3
<1>5. table[s].created = table[t].created
  BY <1>1, <1>4
<1> QED
  BY <1>1, <1>5 DEF Singular

\* A change of the table makes the client pass by no more rows than the tenant
\* lost, and find again no more than it got.
LEMMA CountsMove ==
  ASSUME TypeOK, TypeOK', Singular, Changed, seen' = seen, NEW S, NEW n \in Nat
  PROVE  /\ AtMost(Unseen(S), left) => AtMost(Unseen(S)', left')
         /\ AtMost(Passed(S, n), left) => AtMost(Passed(S, n)', left')
         /\ AtMost(Again(S, n), joined) => AtMost(Again(S, n)', joined')
<1>1. /\ steady' \subseteq steady
      /\ \A s \in steady' : /\ Rank(s) \in Nat /\ Rank(s)' \in Nat
                            /\ Rank(s) + left <= Rank(s)' + left'
                            /\ Rank(s)' + joined <= Rank(s) + joined'
  BY RanksMove
<1>2. /\ joined \in Nat /\ left \in Nat
      /\ \/ left' = left /\ joined' \in {joined, joined + 1}
         \/ joined' = joined /\ left' \in {left, left + 1}
  BY HistoryCounts
<1>3. Unseen(S)' \subseteq Unseen(S)
  BY <1>1 DEF Unseen
<1>4. AtMost(Unseen(S), left) => AtMost(Unseen(S)', left')
  BY <1>2, <1>3, Counts
<1>5. ASSUME NEW k PROVE \E e : \A s \in steady : Rank(s) = k => s = e
  BY RanksDiffer
<1>6. AtMost(Passed(S, n), left) => AtMost(Passed(S, n)', left')
  <2>1. PICK e : \A s \in steady : Rank(s) = n => s = e
    BY <1>5
  <2>2. ASSUME NEW s \in Passed(S, n)'
        PROVE  s \in Passed(S, n) \/ (s = e /\ left' = left + 1)
    <3>1. s \in Unseen(S) /\ s \in steady' /\ s \in steady /\ Rank(s)' < n
      BY <1>1, <1>3, <2>2 DEF Passed, Unseen
    <3>2. Rank(s) < n \/ (Rank(s) = n /\ left' = left + 1)
      BY <1>1, <1>2, <3>1
    <3> QED
      BY <2>1, <3>1, <3>2 DEF Passed
  <2>3. CASE left' = left
    <3>1. Passed(S, n)' \subseteq Passed(S, n)
      BY <1>2, <2>2, <2>3
    <3> QED
      BY <1>2, <2>3, <3>1, Counts
  <2>4. CASE left' = left + 1
    <3>1. Passed(S, n)' \subseteq Passed(S, n) \cup {e}
      BY <2>2
    <3> QED
      BY <1>2, <2>4, <3>1, Counts
  <2> QED
    BY <1>2, <2>3, <2>4
<1>7. AtMost(Again(S, n), joined) => AtMost(Again(S, n)', joined')
  <2>1. PICK r : \A s \in steady : Rank(s) = n - 1 => s = r
    BY <1>5
  <2> DEFINE e == <<r, Shows(S, n, r) + 1>>
  <2>2. ASSUME NEW s \in steady'
        PROVE  /\ Shows(S, n, s) \in Nat /\ Shows(S, n, s)' \in Nat
               /\ \/ Shows(S, n, s)' <= Shows(S, n, s)
                  \/ /\ joined' = joined + 1 /\ s = r
                     /\ Shows(S, n, s)' <= Shows(S, n, s) + 1
    <3>1. s \in steady /\ Found(S, s) \in Nat /\ Found(S, s)' = Found(S, s)
      BY <1>1, WhereTyped DEF TypeOK, Found
    <3>2. Rank(s)' >= n => Rank(s) >= n \/ (Rank(s) = n - 1 /\ joined' = joined + 1)
      BY <1>1, <1>2
    <3> QED
      BY <2>1, <3>1, <3>2 DEF Shows
  <2>3. ASSUME NEW p \in Again(S, n)'
        PROVE  p \in Again(S, n) \/ (p = e /\ joined' = joined + 1)
    <3>1. p \in steady' \X Nat /\ 2 <= p[2] /\ \A s : s = p[1] => p[2] <= Shows(S, n, s)'
      BY <2>3 DEF Again
    <3>2. PICK s \in steady', k \in Nat : p = <<s, k>> /\ 2 <= k /\ k <= Shows(S, n, s)'
      BY <3>1
    <3>3. \/ k <= Shows(S, n, s)
          \/ s = r /\ k = Shows(S, n, r) + 1 /\ joined' = joined + 1
      BY <2>2, <3>2
    <3>4. s \in steady
      BY <1>1
    <3> QED
      BY <3>2, <3>3, <3>4 DEF Again
  <2>4. CASE joined' = joined
    <3>1. Again(S, n)' \subseteq Again(S, n)
      BY <1>2, <2>3, <2>4
    <3> QED
      BY <1>2, <2>4, <3>1, Counts
  <2>5. CASE joined' = joined + 1
    <3>1. Again(S, n)' \subseteq Again(S, n) \cup {e}
      BY <2>3
    <3> QED
      BY <1>2, <2>5, <3>1, Counts
  <2> QED
    BY <1>2, <2>4, <2>5
<1> QED
  BY <1>4, <1>6, <1>7

\* What the client has been shown, row by row; so many pairs of a row.
LEMMA ShownIs ==
  ASSUME TypeOK, NEW p
  PROVE  p \in Shown <=> \E r \in Rows, k \in Nat \ {0} : p = <<r, k>> /\ k <= seen[r]
<1>1. \A r \in Rows : seen[r] \in Nat
  BY DEF TypeOK
<1> QED
  BY <1>1 DEF Shown

\* The repeats there have been are among those that there will be.
LEMMA RepeatsWithin ==
  ASSUME TypeOK, NEW S, NEW n \in Nat, \A s \in steady : seen[s] <= Shows(S, n, s)
  PROVE  Repeats \subseteq Again(S, n)
<1> SUFFICES ASSUME NEW p \in Repeats PROVE p \in Again(S, n)
  OBVIOUS
<1>1. PICK r \in Rows, k \in Nat \ {0} : p = <<r, k>> /\ k <= seen[r]
  BY ShownIs DEF Repeats
<1>2. r \in steady /\ k > 1
  BY <1>1 DEF Repeats
<1>3. k <= Shows(S, n, r) /\ Shows(S, n, r) \in Nat
  BY <1>1, <1>2 DEF TypeOK, Shows, Found
<1> QED
  BY <1>1, <1>2, <1>3 DEF Again

(***************************************************************************)
(* Where the rows of a page are.                                           *)
(***************************************************************************)

\* Pages are cut one after the other.
LEMMA SkipIs ==
  ASSUME NEW n \in Nat \ {0}
  PROVE  Skip(n) \in Nat /\ n - 1 <= Skip(n) /\ Skip(n + 1) = Skip(n) + Limit
<1>1. \A k \in Nat, l \in Nat : k * l \in Nat
  OBVIOUS
<1>2. (n - 1) * Limit = (n - 1) + (n - 1) * (Limit - 1)
  BY ListingAssumption
<1>3. (n - 1) * Limit \in Nat /\ (n - 1) * (Limit - 1) \in Nat
  BY <1>1, ListingAssumption
<1>4. n - 1 <= Skip(n)
  BY <1>2, <1>3 DEF Skip
<1>5. (n + 1 - 1) * Limit = (n - 1) * Limit + Limit
  BY ListingAssumption
<1> QED
  BY <1>3, <1>4, <1>5 DEF Skip

\* Whatever order the database gives to rows of one millisecond: the steady
\* rows of a page are between the rows that it skips and those that it leaves
\* for later; a page that is not full leaves none.
LEMMA PageIs ==
  ASSUME TypeOK, Singular, page # 0, NEW S \in Pages(page)
  PROVE  /\ \A s \in steady : s \in S => Skip(page) <= Rank(s) /\ Rank(s) < Skip(page) + Limit
         /\ \A s \in steady : s \notin S => \/ Rank(s) < Skip(page)
                                            \/ Cardinality(S) = Limit /\ Rank(s) >= Skip(page) + Limit
         /\ Cardinality(S) = Limit => page <= MaxRows
<1>1. page \in Nat \ {0} /\ Skip(page) \in Nat /\ page - 1 <= Skip(page) /\ MaxRows \in Nat /\ Limit \in Nat \ {0}
  BY SkipIs, ListingAssumption DEF TypeOK, LastPage
<1>2. S \subseteq Where
  BY DEF Pages
<1>3. PICK front \in SUBSET (Where \ S) :
        /\ Cardinality(front) = Min2(Skip(page), Cardinality(Where))
        /\ Cardinality(S) = Min2(Limit, Cardinality(Where \ front))
        /\ NoOlder(front, Where \ front)
        /\ NoOlder(S, Where \ (front \cup S))
  BY DEF Pages
<1>4. \A T : T \subseteq Where => IsFiniteSet(T) /\ Cardinality(T) \in 0..MaxRows
  BY WhereTyped
<1>5. /\ Cardinality(front) \in Nat /\ Cardinality(S) \in Nat
      /\ Cardinality(Where) \in 0..MaxRows /\ Cardinality(Where \ front) \in Nat
      /\ IsFiniteSet(front) /\ IsFiniteSet(S) /\ IsFiniteSet(Where) /\ IsFiniteSet(Where \ front)
  BY <1>1, <1>2, <1>4
<1>6. Cardinality(front) <= Skip(page) /\ Cardinality(S) <= Limit
  BY <1>1, <1>3, <1>5 DEF Min2
<1>7. ASSUME NEW r \in Where \ front
      PROVE  Cardinality(front) = Skip(page) /\ Skip(page) < MaxRows
  <2>1. Cardinality(front) <= Cardinality(Where) /\ Cardinality(front) # Cardinality(Where)
    BY <1>5, <1>7, FS_Subset
  <2> QED
    BY <1>1, <1>3, <1>5, <2>1 DEF Min2
<1>8. ASSUME NEW r \in Where \ (front \cup S)
      PROVE  Cardinality(S) = Limit
  <2>1. S \in SUBSET (Where \ front) /\ S # Where \ front
    BY <1>2, <1>8
  <2>2. Cardinality(S) # Cardinality(Where \ front)
    BY <1>5, <2>1, FS_Subset
  <2> QED
    BY <1>1, <1>3, <1>5, <2>2 DEF Min2
<1>9. /\ IsFiniteSet(front \cup S)
      /\ Cardinality(front \cup S) = Cardinality(front) + Cardinality(S)
  <2>1. front \cap S = {}
    OBVIOUS
  <2>2. Cardinality(front \cap S) = 0
    BY <2>1, FS_EmptySet
  <2>3. /\ IsFiniteSet(front \cup S)
        /\ Cardinality(front \cup S) = Cardinality(front) + Cardinality(S) - Cardinality(front \cap S)
    BY <1>5, FS_Union
  <2> QED
    BY <1>5, <2>2, <2>3
<1>10. \A r \in Where : table[r].created \in Nat
  BY WhereTyped
<1>11. \A s \in steady : s \in Where /\ IsFiniteSet(Newer(s)) /\ Rank(s) \in Nat
  BY WhereTyped
<1>12. ASSUME NEW s \in steady, NEW T, T \subseteq Where, s \in T, NoOlder(T, Where \ T)
       PROVE  Rank(s) < Cardinality(T)
  <2>1. Newer(s) \subseteq T \ {s}
    BY <1>10, <1>11, <1>12 DEF Newer, NoOlder
  <2>2. IsFiniteSet(T) /\ Cardinality(T) \in Nat
    BY <1>1, <1>4, <1>12
  <2>3. IsFiniteSet(T \ {s}) /\ Cardinality(T \ {s}) = Cardinality(T) - 1
    BY <1>12, <2>2, FS_RemoveElement
  <2>4. Cardinality(Newer(s)) <= Cardinality(T \ {s})
    BY <2>1, <2>3, FS_Subset
  <2> QED
    BY <1>11, <2>2, <2>3, <2>4 DEF Rank
<1>13. ASSUME NEW s \in steady, NEW T, T \subseteq Where, s \notin T, NoOlder(T, Where \ T)
       PROVE  Cardinality(T) <= Rank(s)
  <2>1. ASSUME NEW w \in T PROVE w \in Newer(s)
    <3>1. w \in Where /\ s \in Where \ T /\ w \in Where \ {s}
      BY <1>11, <1>13
    <3>2. table[w].created >= table[s].created
      BY <1>13, <3>1 DEF NoOlder
    <3>3. table[w].created # table[s].created
      BY <3>1 DEF Singular
    <3> QED
      BY <1>10, <3>1, <3>2, <3>3 DEF Newer
  <2>2. T \subseteq Newer(s)
    BY <2>1
  <2> QED
    BY <1>11, <2>1, <2>2, FS_Subset DEF Rank
<1>14. NoOlder(front \cup S, Where \ (front \cup S))
  BY <1>2, <1>3 DEF NoOlder
<1>15. front \subseteq Where /\ front \cup S \subseteq Where
  BY <1>2
<1>16. ASSUME NEW s \in steady, s \in S
       PROVE  Skip(page) <= Rank(s) /\ Rank(s) < Skip(page) + Limit
  <2>1. s \notin front /\ Cardinality(front) <= Rank(s)
    BY <1>3, <1>13, <1>15, <1>16
  <2>2. Rank(s) < Cardinality(front \cup S)
    BY <1>12, <1>14, <1>15, <1>16
  <2>3. Cardinality(front) = Skip(page)
    BY <1>7, <1>11, <2>1
  <2> QED
    BY <1>1, <1>5, <1>6, <1>9, <1>11, <2>1, <2>2, <2>3
<1>17. ASSUME NEW s \in steady, s \notin S
       PROVE  \/ Rank(s) < Skip(page)
              \/ Cardinality(S) = Limit /\ Rank(s) >= Skip(page) + Limit
  <2>1. CASE s \in front
    <3>1. Rank(s) < Cardinality(front)
      BY <1>3, <1>12, <1>15, <2>1
    <3> QED
      BY <1>1, <1>5, <1>6, <1>11, <3>1
  <2>2. CASE s \notin front
    <3>1. s \in Where \ (front \cup S) /\ s \in Where \ front
      BY <1>11, <1>17, <2>2
    <3>2. Cardinality(front) = Skip(page) /\ Cardinality(S) = Limit
      BY <1>7, <1>8, <3>1
    <3>3. Cardinality(front \cup S) <= Rank(s)
      BY <1>13, <1>14, <1>15, <3>1
    <3> QED
      BY <1>1, <1>9, <1>11, <3>2, <3>3
  <2> QED
    BY <2>1, <2>2
<1>18. ASSUME Cardinality(S) = Limit
       PROVE  page <= MaxRows
  <2>1. S # {}
    BY <1>1, <1>18, FS_EmptySet
  <2>2. PICK r : r \in Where \ front
    BY <1>2, <2>1
  <2> QED
    BY <1>1, <1>7, <2>2
<1> QED
  BY <1>16, <1>17, <1>18

(***************************************************************************)
(* The inductive invariant.  What has been missed so far is not what has   *)
(* not been seen, but what has not been seen and is out of reach: ranked   *)
(* in front of the next page.  What has been repeated includes what will   *)
(* be: seen, and ranked in the next page or after it.  Both are counted    *)
(* for the page that the client is at and, once it has been read, as if it *)
(* had arrived; a request that fails goes back to the former.              *)
(***************************************************************************)
AtPage ==
  page # 0 => /\ AtMost(Passed({}, Skip(page)), left)
              /\ AtMost(Again({}, Skip(page)), joined)

\* The counts as if the page that has been read had arrived.
PageRead(S) ==
  /\ page # 0
  /\ AtMost(Again(S, Skip(page) + Limit), joined)
  /\ Cardinality(S) = Limit =>
       page <= MaxRows /\ AtMost(Passed(S, Skip(page) + Limit), left)
  /\ Cardinality(S) < Limit => AtMost(Unseen(S), left)

\* The counts after the last page.
AtEnd ==
  page = 0 => /\ listed = {}
              /\ AtMost(Unseen({}), left)
              /\ AtMost(Repeats, joined)

\* The invariant of misses and repeats.
WalkInv == Singular /\ AtPage /\ (\A S \in listed : PageRead(S)) /\ AtEnd

\* Nobody has been seen, and nobody is in front of the first page.
LEMMA WalkInit == Init => WalkInv
<1> SUFFICES ASSUME Init PROVE WalkInv
  OBVIOUS
<1>1. TypeOK
  BY TypesInit
<1>2. Singular
  BY DEF Init, Singular
<1>3. Skip(page) = 0 /\ page # 0
  BY ListingAssumption DEF Init, Skip
<1>4. \A s \in steady : seen[s] = 0 /\ Rank(s) \in Nat
  BY <1>1, WhereTyped DEF Init
<1>5. Passed({}, Skip(page)) = {} /\ Again({}, Skip(page)) = {}
  BY <1>3, <1>4 DEF Passed, Unseen, Again, Shows, Found
<1>6. left = 0 /\ joined = 0 /\ listed = {}
  BY DEF Init
<1>7. AtPage
  BY <1>5, <1>6, FS_EmptySet DEF AtPage, AtMost
<1> QED
  BY <1>2, <1>3, <1>6, <1>7 DEF WalkInv, AtEnd

\* A step that changes neither rows nor what the client has seen keeps counts.
LEMMA SameCounts ==
  ASSUME table' = table, steady' = steady, seen' = seen
  PROVE  /\ Singular' <=> Singular
         /\ \A S : Unseen(S)' = Unseen(S)
         /\ \A S, n : Passed(S, n)' = Passed(S, n) /\ Again(S, n)' = Again(S, n)
         /\ Repeats' = Repeats
BY DEF Singular, Unseen, Passed, Again, Shows, Found, Repeats, Shown, Rank, Newer, Where

\* Reading a page: its steady rows are in reach, and no others come between.
LEMMA FindManyKeeps ==
  ASSUME TypeOK, WalkInv, FindMany
  PROVE  WalkInv'
<1>1. page # 0 /\ UNCHANGED <<table, steady, page, seen, joined, left>>
  BY DEF FindMany, client
<1>2. PICK S \in Pages(page) : listed' = {S}
  BY DEF FindMany
<1>3. Singular /\ AtPage
  BY DEF WalkInv
<1>4. /\ \A s \in steady : s \in S => Skip(page) <= Rank(s) /\ Rank(s) < Skip(page) + Limit
      /\ \A s \in steady : s \notin S => \/ Rank(s) < Skip(page)
                                         \/ Cardinality(S) = Limit /\ Rank(s) >= Skip(page) + Limit
      /\ Cardinality(S) = Limit => page <= MaxRows
  BY <1>1, <1>3, PageIs
<1>5. page \in Nat \ {0} /\ Skip(page) \in Nat /\ Limit \in Nat \ {0} /\ joined \in Nat /\ left \in Nat
  BY <1>1, SkipIs, ListingAssumption DEF TypeOK, LastPage
<1>6. \A s \in steady : Rank(s) \in Nat /\ seen[s] \in Nat
  BY WhereTyped DEF TypeOK
<1>7. ASSUME NEW s \in steady
      PROVE  /\ Shows(S, Skip(page) + Limit, s) \in Nat /\ Shows({}, Skip(page), s) \in Nat
             /\ \/ Shows(S, Skip(page) + Limit, s) <= 1
                \/ Shows(S, Skip(page) + Limit, s) <= Shows({}, Skip(page), s)
  BY <1>4, <1>5, <1>6, <1>7 DEF Shows, Found
<1>8. AtMost(Again(S, Skip(page) + Limit), joined)
  <2>1. \A s \in steady : \A k \in Nat :
          <<s, k>> \in Again(S, Skip(page) + Limit) => <<s, k>> \in Again({}, Skip(page))
    BY <1>7 DEF Again
  <2>2. Again(S, Skip(page) + Limit) \subseteq Again({}, Skip(page))
    BY <2>1 DEF Again
  <2> QED
    BY <1>1, <1>3, <1>5, <2>2, Counts DEF AtPage
<1>9. ASSUME Cardinality(S) = Limit
      PROVE  AtMost(Passed(S, Skip(page) + Limit), left)
  <2>1. \A s \in Passed(S, Skip(page) + Limit) : s \in Passed({}, Skip(page))
    BY <1>4, <1>5, <1>6 DEF Passed, Unseen
  <2>2. Passed(S, Skip(page) + Limit) \subseteq Passed({}, Skip(page))
    BY <2>1
  <2> QED
    BY <1>1, <1>3, <1>5, <2>2, Counts DEF AtPage
<1>10. ASSUME Cardinality(S) < Limit
       PROVE  AtMost(Unseen(S), left)
  <2>1. Cardinality(S) # Limit
    <3>1. Cardinality(S) \in Nat
      BY PageTyped
    <3> QED
      BY <1>5, <1>10, <3>1
  <2>2. \A s \in Unseen(S) : s \in Passed({}, Skip(page))
    BY <1>4, <2>1 DEF Passed, Unseen
  <2>3. Unseen(S) \subseteq Passed({}, Skip(page))
    BY <2>2
  <2> QED
    BY <1>1, <1>3, <1>5, <2>3, Counts DEF AtPage
<1>11. PageRead(S)
  BY <1>1, <1>4, <1>8, <1>9, <1>10 DEF PageRead
<1>12. PageRead(S)'
  BY <1>1, <1>11, SameCounts DEF PageRead, Skip
<1>13. Singular' /\ AtPage'
  BY <1>1, <1>3, SameCounts DEF AtPage, Skip
<1> QED
  BY <1>1, <1>2, <1>12, <1>13 DEF WalkInv, AtEnd

\* The page arrives: what was counted as if it had is counted.
LEMMA ReceiveKeeps ==
  ASSUME TypeOK, WalkInv, Receive
  PROVE  WalkInv'
<1>1. PICK S \in listed :
        /\ seen' = [r \in Rows |-> IF r \in S THEN seen[r] + 1 ELSE seen[r]]
        /\ page' = IF Cardinality(S) < Limit THEN 0 ELSE Min2(page + 1, LastPage)
  BY DEF Receive
<1>2. listed' = {} /\ UNCHANGED <<table, steady, joined, left>>
  BY DEF Receive
<1>3. PageRead(S) /\ Singular
  BY DEF WalkInv
<1>4. page \in Nat \ {0} /\ Skip(page) \in Nat /\ Skip(page + 1) = Skip(page) + Limit
      /\ Limit \in Nat \ {0} /\ joined \in Nat /\ left \in Nat /\ MaxRows \in Nat
  BY <1>3, SkipIs, ListingAssumption DEF TypeOK, LastPage, PageRead
<1>5. Cardinality(S) \in Nat /\ Cardinality(S) <= Limit
  BY RowsFinite, ListingAssumption DEF TypeOK
<1>6. \A s \in steady : /\ seen[s] \in Nat /\ Rank(s) \in Nat
                        /\ seen'[s] = IF s \in S THEN seen[s] + 1 ELSE seen[s]
  BY <1>1, WhereTyped DEF TypeOK
<1>7. \A s : Rank(s)' = Rank(s)
  BY <1>2 DEF Rank, Newer, Where
<1>8. Singular'
  BY <1>2, <1>3 DEF Singular, Where
<1>9. Repeats' \subseteq Again(S, Skip(page) + Limit)
  <2>1. \A s \in steady : Shows(S, Skip(page) + Limit, s) \in Nat /\ seen'[s] <= Shows(S, Skip(page) + Limit, s)
    BY <1>4, <1>6 DEF Shows, Found
  <2>2. ASSUME NEW p \in Repeats' PROVE p \in Again(S, Skip(page) + Limit)
    <3>1. PICK r \in Rows : p \in {r} \X (1..seen'[r])
      BY <2>2 DEF Repeats, Shown
    <3>2. PICK k \in 1..seen'[r] : p = <<r, k>>
      BY <3>1
    <3>3. r \in steady /\ k > 1
      BY <1>2, <2>2, <3>2 DEF Repeats
    <3>4. k \in Nat /\ 2 <= k /\ k <= Shows(S, Skip(page) + Limit, r)
      BY <1>6, <2>1, <3>2, <3>3
    <3> QED
      BY <3>2, <3>3, <3>4 DEF Again
  <2> QED
    BY <2>2
<1>10. CASE Cardinality(S) < Limit
  <2>1. page' = 0
    BY <1>1, <1>10
  <2>2. Unseen({})' \subseteq Unseen(S)
    BY <1>2, <1>6 DEF Unseen
  <2>3. AtMost(Unseen(S), left)
    BY <1>3, <1>10 DEF PageRead
  <2>4. AtMost(Repeats', joined)
    BY <1>3, <1>4, <1>9, Counts DEF PageRead
  <2>5. AtMost(Unseen({})', left) /\ AtMost(Repeats', joined)
    BY <1>4, <2>2, <2>3, <2>4, Counts
  <2>6. AtEnd'
    BY <1>2, <2>5 DEF AtEnd
  <2> QED
    BY <1>2, <1>8, <2>1, <2>6 DEF WalkInv, AtPage
<1>11. CASE Cardinality(S) = Limit
  <2>1. page <= MaxRows
    BY <1>3, <1>11 DEF PageRead
  <2>2. page' = page + 1 /\ page' # 0
    BY <1>1, <1>4, <1>5, <1>11, <2>1 DEF Min2, LastPage
  <2>3. Skip(page)' = Skip(page) + Limit
    BY <1>4, <2>2 DEF Skip
  <2>4. \A n : Passed({}, n)' \subseteq Passed(S, n)
    BY <1>2, <1>6, <1>7 DEF Passed, Unseen
  <2>5. \A n : Again({}, n)' \subseteq Again(S, n)
    BY <1>2, <1>6, <1>7 DEF Again, Shows, Found
  <2>6. /\ Passed({}, Skip(page))' \subseteq Passed(S, Skip(page) + Limit)
        /\ Again({}, Skip(page))' \subseteq Again(S, Skip(page) + Limit)
    BY <2>3, <2>4, <2>5
  <2>7. /\ AtMost(Passed(S, Skip(page) + Limit), left)
        /\ AtMost(Again(S, Skip(page) + Limit), joined)
    BY <1>3, <1>11 DEF PageRead
  <2>8. /\ AtMost(Passed({}, Skip(page))', left)
        /\ AtMost(Again({}, Skip(page))', joined)
    BY <1>4, <2>6, <2>7, Counts
  <2>9. AtPage'
    BY <1>2, <2>8 DEF AtPage
  <2> QED
    BY <1>2, <1>8, <2>2, <2>9 DEF WalkInv, AtEnd
<1> QED
  BY <1>4, <1>5, <1>10, <1>11

\* The table changes at any moment of the walk, between the two statements of
\* a request too.
LEMMA OtherRequestKeeps ==
  ASSUME TypeOK, TypeOK', WalkInv, OtherRequest
  PROVE  WalkInv'
<1>1. Changed /\ UNCHANGED <<request, client, failures>>
  BY TableTyped
<1>2. page # 0 /\ page' = page /\ seen' = seen /\ listed' = listed
  BY <1>1 DEF Changed, Change, request, client
<1>3. Singular /\ AtPage /\ \A S \in listed : PageRead(S)
  BY DEF WalkInv
<1>4. page \in Nat \ {0} /\ Skip(page) \in Nat /\ Limit \in Nat
  BY <1>2, SkipIs, ListingAssumption DEF TypeOK, LastPage
<1>5. Singular'
  BY <1>1, <1>3, RanksMove
<1>6. \A S, n : n \in Nat =>
        /\ AtMost(Unseen(S), left) => AtMost(Unseen(S)', left')
        /\ AtMost(Passed(S, n), left) => AtMost(Passed(S, n)', left')
        /\ AtMost(Again(S, n), joined) => AtMost(Again(S, n)', joined')
  BY <1>1, <1>2, <1>3, CountsMove
<1>7. Skip(page)' = Skip(page) /\ Skip(page) + Limit \in Nat
  BY <1>2, <1>4 DEF Skip
<1>8. AtPage'
  <2>1. AtMost(Passed({}, Skip(page)), left) /\ AtMost(Again({}, Skip(page)), joined)
    BY <1>2, <1>3 DEF AtPage
  <2> QED
    BY <1>2, <1>4, <1>6, <1>7, <2>1 DEF AtPage
<1>9. ASSUME NEW S \in listed PROVE PageRead(S)'
  BY <1>2, <1>3, <1>4, <1>6, <1>7, <1>9 DEF PageRead
<1> QED
  BY <1>2, <1>5, <1>8, <1>9 DEF WalkInv, AtEnd

\* Every step keeps the invariant.
LEMMA WalkNext == TypeOK /\ TypeOK' /\ WalkInv /\ [Next]_vars => WalkInv'
<1> SUFFICES ASSUME TypeOK, TypeOK', WalkInv, [Next]_vars
             PROVE  WalkInv'
  OBVIOUS
<1>1. CASE FindMany
  BY <1>1, FindManyKeeps
<1>2. CASE Receive
  BY <1>2, ReceiveKeeps
<1>3. CASE OtherRequest
  BY <1>3, OtherRequestKeeps
<1>4. CASE Count \/ Fail \/ UNCHANGED vars
  <2>1. UNCHANGED <<table, steady, page, seen, joined, left>> /\ listed' \subseteq listed
    BY <1>4 DEF Count, Fail, vars, request, client
  <2>2. Singular' /\ AtPage' /\ AtEnd'
    BY <2>1, SameCounts DEF WalkInv, AtPage, AtEnd, Skip
  <2>3. ASSUME NEW S \in listed PROVE PageRead(S)'
    BY <2>1, <2>3, SameCounts DEF WalkInv, PageRead, Skip
  <2> QED
    BY <2>1, <2>2, <2>3 DEF WalkInv
<1> QED
  BY <1>1, <1>2, <1>3, <1>4 DEF Next, Walk, OtherRequest

(***************************************************************************)
(* The total.  Up to the last page, the client is shown as many rows as    *)
(* the pages hold; the last brings this to the number of the tenant's rows *)
(* when it was read, or to what the pages before held if fewer are left.   *)
(* That number and the counted one are each within the changes of the      *)
(* number of the tenant's rows at any time since.                          *)
(***************************************************************************)
Full(S) == Skip(page) + Cardinality(S)

\* The pages before this one were full.
ShownAtPage ==
  page # 0 => /\ IsFiniteSet(Shown) /\ Cardinality(Shown) = Skip(page)
              /\ Skip(page) <= Cardinality(Where) + left

\* The client will have been shown as many rows as there are, but for changes.
ReadAgrees(S) ==
  /\ Full(S) <= Cardinality(Where) + left
  /\ Cardinality(S) < Limit => Cardinality(Where) <= Full(S) + joined

\* The count is the number of rows, but for changes.
CountAgrees(n) ==
  n <= Cardinality(Where) + left /\ Cardinality(Where) <= n + joined

\* Two statements at different moments differ by what changed between them.
BothAgree(S, n) ==
  Cardinality(S) < Limit => n <= Full(S) + Changes /\ Full(S) <= n + Changes

\* The invariant of the total.
TotalInv ==
  /\ ShownAtPage
  /\ \A S \in listed : ReadAgrees(S)
  /\ \A n \in counted : CountAgrees(n)
  /\ \A S \in listed, n \in counted : BothAgree(S, n)
  /\ TotalAddsUp

\* The page and the sizes in it are numbers.
LEMMA SizesTyped ==
  ASSUME TypeOK
  PROVE  /\ Cardinality(Where) \in Nat /\ joined \in Nat /\ left \in Nat
         /\ Changes = joined + left /\ Limit \in Nat \ {0} /\ MaxRows \in Nat
         /\ \A S \in listed : S \subseteq Rows /\ Cardinality(S) \in Nat /\ Cardinality(S) <= Limit
         /\ \A n \in counted : n \in Nat
         /\ page # 0 => page \in Nat \ {0} /\ Skip(page) \in Nat /\ Skip(page + 1) = Skip(page) + Limit
<1>1. Cardinality(Where) \in 0..MaxRows /\ MaxRows \in Nat /\ Limit \in Nat \ {0}
  BY WhereTyped, ListingAssumption
<1>2. \A S \in listed : S \subseteq Rows /\ Cardinality(S) <= Limit
  BY DEF TypeOK
<1>3. \A S \in listed : Cardinality(S) \in Nat
  BY <1>1, <1>2, RowsFinite
<1>4. page # 0 => page \in Nat \ {0} /\ Skip(page) \in Nat /\ Skip(page + 1) = Skip(page) + Limit
  BY SkipIs, ListingAssumption DEF TypeOK, LastPage
<1> QED
  BY <1>1, <1>2, <1>3, <1>4 DEF TypeOK, Changes

\* Before the first page nothing has been shown.
LEMMA TotalInit == Init => TotalInv
<1> SUFFICES ASSUME Init PROVE TotalInv
  OBVIOUS
<1>1. TypeOK
  BY TypesInit
<1>2. page = 1 /\ left = 0 /\ listed = {} /\ counted = {} /\ Skip(page) = 0
  BY ListingAssumption DEF Init, Skip
<1>3. \A r \in Rows : seen[r] = 0
  BY DEF Init
<1>4. Shown = {}
  BY <1>1, <1>3, ShownIs
<1>5. Cardinality(Where) \in Nat
  BY <1>1, SizesTyped
<1> QED
  BY <1>2, <1>4, <1>5, FS_EmptySet DEF TotalInv, ShownAtPage, TotalAddsUp, Walked

\* A page that is not full takes the client to the end of the table, or the
\* table has become shorter than that.
LEMMA PageSize ==
  ASSUME TypeOK, page # 0, NEW S \in Pages(page)
  PROVE  /\ Cardinality(S) \in Nat /\ Cardinality(S) <= Limit
         /\ Full(S) <= Cardinality(Where) \/ Full(S) = Skip(page)
         /\ Cardinality(S) < Limit => Cardinality(Where) <= Full(S)
<1>1. Cardinality(Where) \in Nat /\ Skip(page) \in Nat /\ Limit \in Nat \ {0}
  BY SizesTyped
<1>2. PICK front \in SUBSET (Where \ S) :
        /\ Cardinality(front) = Min2(Skip(page), Cardinality(Where))
        /\ Cardinality(S) = Min2(Limit, Cardinality(Where \ front))
  BY DEF Pages
<1>3. IsFiniteSet(Where)
  BY WhereTyped
<1>4. Cardinality(Where \ front) = Cardinality(Where) - Cardinality(front)
  <2>1. Where \cap front = front
    OBVIOUS
  <2>2. Cardinality(Where \ front) = Cardinality(Where) - Cardinality(Where \cap front)
    BY <1>3, FS_Difference
  <2> QED
    BY <2>1, <2>2
<1> QED
  BY <1>1, <1>2, <1>4 DEF Min2, Full

\* The tenant has as many more rows as it got, less what it lost.
LEMMA SizeMoves ==
  ASSUME TypeOK, TypeOK', Changed
  PROVE  Cardinality(Where') + joined + left' = Cardinality(Where) + joined' + left
<1>1. Where' = NewlyOwn
  BY DEF Where, NewlyOwn
<1>2. IsFiniteSet(Where) /\ IsFiniteSet(NewlyOwn) /\ Cardinality(Where) \in Nat /\ Cardinality(NewlyOwn) \in Nat
  BY WhereTyped, RowsFinite, ListingAssumption DEF Changed
<1>3. Cardinality(Where \ NewlyOwn) = Cardinality(Where) - Cardinality(Where \cap NewlyOwn)
  BY <1>2, FS_Difference
<1>4. Cardinality(NewlyOwn \ Where) = Cardinality(NewlyOwn) - Cardinality(NewlyOwn \cap Where)
  BY <1>2, FS_Difference
<1>5. Where \cap NewlyOwn = NewlyOwn \cap Where
  OBVIOUS
<1>6. Cardinality(Where \cap NewlyOwn) \in Nat
  BY <1>2, FS_Intersection, FS_CardinalityType
<1>7. Cardinality(NewlyOwn \cap Where) = Cardinality(Where \cap NewlyOwn)
  BY <1>5
<1>8. /\ left' = left + Cardinality(Where \ NewlyOwn) /\ left \in Nat
      /\ joined' = joined + Cardinality(NewlyOwn \ Where) /\ joined \in Nat
  BY HistoryCounts
<1>9. Cardinality(Where') = Cardinality(NewlyOwn)
  BY <1>1
<1> QED
  BY <1>2, <1>3, <1>4, <1>6, <1>7, <1>8, <1>9

\* An answer shows as many rows more as its page has.
LEMMA ShownGrows ==
  ASSUME TypeOK, TypeOK', NEW S, S \subseteq Rows, IsFiniteSet(Shown),
         seen' = [r \in Rows |-> IF r \in S THEN seen[r] + 1 ELSE seen[r]]
  PROVE  IsFiniteSet(Shown') /\ Cardinality(Shown') = Cardinality(Shown) + Cardinality(S)
<1> DEFINE new == {<<r, seen[r] + 1>> : r \in S}
           f   == [r \in S |-> <<r, seen[r] + 1>>]
<1>1. IsFiniteSet(S) /\ Cardinality(S) \in Nat /\ Cardinality(Shown) \in Nat
  BY RowsFinite, FS_CardinalityType, ListingAssumption
<1>2. \A r \in Rows : seen[r] \in Nat
  BY DEF TypeOK
<1>3. IsFiniteSet(new) /\ Cardinality(new) = Cardinality(S)
  <2>1. f \in Bijection(S, new)
    <3>1. f \in [S -> new] /\ \A a, b \in S : f[a] = f[b] => a = b
      OBVIOUS
    <3>2. DOMAIN f = S
      OBVIOUS
    <3>3. \A t \in new : \E r \in S : f[r] = t
      OBVIOUS
    <3> HIDE DEF f, new
    <3> QED
      BY <3>1, <3>2, <3>3 DEF Bijection, Injection, IsInjective, Surjection
  <2>2. ExistsBijection(S, new)
    BY <2>1 DEF ExistsBijection
  <2> HIDE DEF f, new
  <2> QED
    BY <1>1, <2>2, FS_Bijection
<1>4. Shown' = Shown \cup new
  <2>1. ASSUME NEW p PROVE p \in Shown' <=> p \in Shown \cup new
    <3>1. p \in Shown' <=> \E r \in Rows, k \in Nat \ {0} : p = <<r, k>> /\ k <= seen'[r]
      BY <1>2 DEF Shown
    <3>2. p \in Shown <=> \E r \in Rows, k \in Nat \ {0} : p = <<r, k>> /\ k <= seen[r]
      BY ShownIs
    <3>3. p \in new <=> \E r \in Rows, k \in Nat \ {0} : p = <<r, k>> /\ r \in S /\ k = seen[r] + 1
      BY <1>2
    <3> HIDE DEF new
    <3>4. \A r \in Rows, k \in Nat \ {0} : k <= seen'[r] <=> k <= seen[r] \/ (r \in S /\ k = seen[r] + 1)
      BY <1>2
    <3> QED
      BY <3>1, <3>2, <3>3, <3>4
  <2> QED
    BY <2>1
<1>5. Shown \cap new = {}
  <2> SUFFICES ASSUME NEW p \in Shown, p \in new PROVE FALSE
    OBVIOUS
  <2>1. PICK r \in Rows, k \in Nat \ {0} : p = <<r, k>> /\ k <= seen[r]
    BY ShownIs
  <2>2. k = seen[r] + 1
    BY <2>1
  <2> QED
    BY <1>2, <2>1, <2>2
<1> HIDE DEF new, f
<1>6. Cardinality(Shown \cap new) = 0
  BY <1>5, FS_EmptySet
<1>7. /\ IsFiniteSet(Shown \cup new)
      /\ Cardinality(Shown \cup new) = Cardinality(Shown) + Cardinality(new) - Cardinality(Shown \cap new)
  BY <1>1, <1>3, FS_Union
<1> QED
  BY <1>1, <1>3, <1>4, <1>6, <1>7

\* Reading a page, before or after the count.
LEMMA FindManyAgrees ==
  ASSUME TypeOK, TypeOK', WalkInv, TotalInv, FindMany
  PROVE  TotalInv'
<1>1. page # 0 /\ UNCHANGED <<table, used, counted, page, total, seen, steady, joined, left, failures>>
  BY DEF FindMany, client
<1>2. PICK S \in Pages(page) : listed' = {S}
  BY DEF FindMany
<1>3. /\ Cardinality(Where) \in Nat /\ joined \in Nat /\ left \in Nat /\ Changes = joined + left
      /\ \A n \in counted : n \in Nat
      /\ Skip(page) \in Nat
  BY <1>1, SizesTyped
<1>4. /\ Cardinality(S) \in Nat
      /\ Full(S) <= Cardinality(Where) \/ Full(S) = Skip(page)
      /\ Cardinality(S) < Limit => Cardinality(Where) <= Full(S)
  BY <1>1, PageSize
<1>5. Full(S) \in Nat
  BY <1>3, <1>4 DEF Full
<1>6. Skip(page) <= Cardinality(Where) + left
  BY <1>1 DEF TotalInv, ShownAtPage
<1>7. ReadAgrees(S)
  BY <1>3, <1>4, <1>5, <1>6 DEF ReadAgrees
<1>8. ASSUME NEW n \in counted PROVE BothAgree(S, n)
  <2>1. n <= Cardinality(Where) + left /\ Cardinality(Where) <= n + joined
    BY DEF TotalInv, CountAgrees
  <2> QED
    BY <1>3, <1>4, <1>5, <1>6, <2>1 DEF BothAgree
<1>9. ShownAtPage' /\ (\A n \in counted : CountAgrees(n)') /\ TotalAddsUp'
  BY <1>1 DEF TotalInv, ShownAtPage, CountAgrees, TotalAddsUp, Walked, Shown, Skip, Where, Changes
<1>10. ReadAgrees(S)' /\ \A n \in counted : BothAgree(S, n)'
  BY <1>1, <1>7, <1>8 DEF ReadAgrees, BothAgree, Full, Skip, Where, Changes
<1> QED
  BY <1>1, <1>2, <1>9, <1>10 DEF TotalInv

\* Counting, before or after the page is read.
LEMMA CountKeepsAgreement ==
  ASSUME TypeOK, TypeOK', WalkInv, TotalInv, Count
  PROVE  TotalInv'
<1>1. page # 0 /\ UNCHANGED <<table, used, listed, page, total, seen, steady, joined, left, failures>>
      /\ counted' = {Cardinality(Where)}
  BY DEF Count, client
<1>2. /\ Cardinality(Where) \in Nat /\ joined \in Nat /\ left \in Nat /\ Changes = joined + left
      /\ \A S \in listed : Cardinality(S) \in Nat
      /\ Skip(page) \in Nat
  BY <1>1, SizesTyped
<1>3. CountAgrees(Cardinality(Where))
  BY <1>2 DEF CountAgrees
<1>4. ASSUME NEW S \in listed PROVE BothAgree(S, Cardinality(Where))
  <2>1. ReadAgrees(S) /\ Full(S) \in Nat
    BY <1>2 DEF TotalInv, Full
  <2> QED
    BY <1>2, <2>1 DEF ReadAgrees, BothAgree
<1>5. ShownAtPage' /\ (\A S \in listed : ReadAgrees(S)') /\ TotalAddsUp'
  BY <1>1 DEF TotalInv, ShownAtPage, ReadAgrees, Full, TotalAddsUp, Walked, Shown, Skip, Where, Changes
<1>6. \A n \in counted' : CountAgrees(n)' /\ \A S \in listed : BothAgree(S, n)'
  BY <1>1, <1>3, <1>4 DEF CountAgrees, BothAgree, Full, Skip, Where, Changes
<1> QED
  BY <1>1, <1>5, <1>6 DEF TotalInv

\* The answer is shown.
LEMMA ReceiveAddsUp ==
  ASSUME TypeOK, TypeOK', WalkInv, TotalInv, Receive
  PROVE  TotalInv'
<1>1. PICK S \in listed, n \in counted :
        /\ seen' = [r \in Rows |-> IF r \in S THEN seen[r] + 1 ELSE seen[r]]
        /\ total' = n
        /\ page' = IF Cardinality(S) < Limit THEN 0 ELSE Min2(page + 1, LastPage)
  BY DEF Receive
<1>2. listed' = {} /\ counted' = {} /\ UNCHANGED <<table, joined, left>>
  BY DEF Receive
<1>3. PageRead(S) /\ ReadAgrees(S) /\ BothAgree(S, n) /\ page # 0
  BY DEF WalkInv, PageRead, TotalInv
<1>4. /\ Cardinality(Where) \in Nat /\ joined \in Nat /\ left \in Nat /\ Limit \in Nat \ {0} /\ MaxRows \in Nat
      /\ S \subseteq Rows /\ Cardinality(S) \in Nat /\ Cardinality(S) <= Limit /\ n \in Nat
      /\ page \in Nat \ {0} /\ Skip(page) \in Nat /\ Skip(page + 1) = Skip(page) + Limit
  BY <1>3, SizesTyped
<1>5. IsFiniteSet(Shown') /\ Cardinality(Shown') = Full(S)
  BY <1>1, <1>3, <1>4, ShownGrows DEF TotalInv, ShownAtPage, Full
<1>6. CASE Cardinality(S) < Limit
  <2>1. page' = 0
    BY <1>1, <1>6
  <2>2. n <= Full(S) + Changes /\ Full(S) <= n + Changes
    BY <1>3, <1>6 DEF BothAgree
  <2>3. TotalAddsUp'
    BY <1>1, <1>2, <1>5, <2>2 DEF TotalAddsUp, Changes
  <2> QED
    BY <1>2, <2>1, <2>3 DEF TotalInv, ShownAtPage
<1>7. CASE Cardinality(S) = Limit
  <2>1. page' = page + 1 /\ page' # 0
    BY <1>1, <1>3, <1>4, <1>7 DEF PageRead, Min2, LastPage
  <2>2. Skip(page)' = Full(S)
    BY <1>4, <1>7, <2>1 DEF Skip, Full
  <2>3. Full(S) <= Cardinality(Where) + left
    BY <1>3 DEF ReadAgrees
  <2>4. ShownAtPage'
    BY <1>2, <1>5, <2>2, <2>3 DEF ShownAtPage, Where
  <2> QED
    BY <1>2, <2>1, <2>4 DEF TotalInv, TotalAddsUp, Walked
<1> QED
  BY <1>4, <1>6, <1>7

\* The table changes: what it gains and loses is counted.
LEMMA OtherRequestAgrees ==
  ASSUME TypeOK, TypeOK', WalkInv, TotalInv, OtherRequest
  PROVE  TotalInv'
<1>1. Changed /\ UNCHANGED <<request, client, failures>>
  BY TableTyped
<1>2. page # 0 /\ page' = page /\ seen' = seen /\ listed' = listed /\ counted' = counted
  BY <1>1 DEF Changed, Change, request, client
<1>3. /\ Cardinality(Where) \in Nat /\ joined \in Nat /\ left \in Nat /\ Changes = joined + left
      /\ \A S \in listed : Cardinality(S) \in Nat
      /\ \A n \in counted : n \in Nat
      /\ Skip(page) \in Nat
  BY <1>2, SizesTyped
<1>4. Cardinality(Where') \in Nat /\ Changes' = joined' + left'
  BY SizesTyped, WhereTyped, RowsFinite, ListingAssumption, <1>1 DEF Changed, Where, NewlyOwn, Changes
<1>5. Cardinality(Where') + joined + left' = Cardinality(Where) + joined' + left
  BY <1>1, SizeMoves
<1>6. joined' \in Nat /\ left' \in Nat /\ joined <= joined' /\ left <= left'
  BY <1>1, <1>3, HistoryCounts
<1>7. /\ Cardinality(Where) + left <= Cardinality(Where') + left'
      /\ \A k \in Nat : Cardinality(Where) <= k + joined => Cardinality(Where') <= k + joined'
      /\ Changes <= Changes'
  <2>1. Cardinality(Where) + left <= Cardinality(Where') + left'
    BY <1>3, <1>4, <1>5, <1>6
  <2>2. Cardinality(Where') + joined <= Cardinality(Where) + joined'
    BY <1>3, <1>4, <1>5, <1>6
  <2>3. \A k \in Nat : Cardinality(Where) <= k + joined => Cardinality(Where') <= k + joined'
    BY <1>3, <1>4, <1>6, <2>2
  <2>4. joined \in Nat /\ left \in Nat
    BY <1>3
  <2>5. joined + left <= joined' + left'
    <3>1. \A a, b, c, d \in Nat : a <= c /\ b <= d => a + b <= c + d
      OBVIOUS
    <3> QED
      BY <1>6, <2>4, <3>1
  <2>6. Changes <= Changes'
    BY <2>5 DEF Changes
  <2> QED
    BY <2>1, <2>3, <2>6
<1>8. Skip(page)' = Skip(page) /\ Shown' = Shown
  BY <1>2 DEF Skip, Shown
<1>9. \A S : Full(S)' = Full(S)
  BY <1>2 DEF Full, Skip
<1>10. ShownAtPage'
  <2>1. IsFiniteSet(Shown) /\ Cardinality(Shown) = Skip(page) /\ Skip(page) <= Cardinality(Where) + left
    BY <1>2 DEF TotalInv, ShownAtPage
  <2> QED
    BY <1>3, <1>4, <1>6, <1>7, <1>8, <2>1 DEF ShownAtPage
<1>11. ASSUME NEW S \in listed PROVE ReadAgrees(S)'
  <2>1. ReadAgrees(S) /\ Full(S) \in Nat
    BY <1>3 DEF TotalInv, Full
  <2> QED
    BY <1>3, <1>4, <1>6, <1>7, <1>9, <2>1 DEF ReadAgrees
<1>12. ASSUME NEW n \in counted PROVE CountAgrees(n)'
  <2>1. CountAgrees(n) /\ n \in Nat
    BY <1>3 DEF TotalInv
  <2> QED
    BY <1>3, <1>4, <1>6, <1>7, <2>1 DEF CountAgrees
<1>13. ASSUME NEW S \in listed, NEW n \in counted PROVE BothAgree(S, n)'
  <2>1. BothAgree(S, n) /\ Full(S) \in Nat /\ n \in Nat
    BY <1>3 DEF TotalInv, Full
  <2> QED
    BY <1>3, <1>4, <1>6, <1>7, <1>9, <2>1 DEF BothAgree
<1> QED
  BY <1>2, <1>10, <1>11, <1>12, <1>13 DEF TotalInv, TotalAddsUp, Walked

\* Every step keeps the agreement.
LEMMA TotalNext == TypeOK /\ TypeOK' /\ WalkInv /\ TotalInv /\ [Next]_vars => TotalInv'
<1> SUFFICES ASSUME TypeOK, TypeOK', WalkInv, TotalInv, [Next]_vars
             PROVE  TotalInv'
  OBVIOUS
<1>1. CASE FindMany
  BY <1>1, FindManyAgrees
<1>2. CASE Count
  BY <1>2, CountKeepsAgreement
<1>3. CASE Receive
  BY <1>3, ReceiveAddsUp
<1>4. CASE OtherRequest
  BY <1>4, OtherRequestAgrees
<1>5. CASE Fail \/ UNCHANGED vars
  <2>1. /\ UNCHANGED <<table, page, total, seen, joined, left>>
        /\ listed' \subseteq listed /\ counted' \subseteq counted
    BY <1>5 DEF Fail, vars, request, client
  <2>2. ShownAtPage' /\ TotalAddsUp'
    BY <2>1 DEF TotalInv, ShownAtPage, TotalAddsUp, Walked, Shown, Skip, Where, Changes
  <2>3. \A S \in listed', n \in counted' : BothAgree(S, n)'
    BY <2>1 DEF TotalInv, BothAgree, Full, Skip, Changes
  <2>4. (\A S \in listed' : ReadAgrees(S)') /\ \A n \in counted' : CountAgrees(n)'
    BY <2>1 DEF TotalInv, ReadAgrees, CountAgrees, Full, Skip, Where
  <2> QED
    BY <2>2, <2>3, <2>4 DEF TotalInv
<1> QED
  BY <1>1, <1>2, <1>3, <1>4, <1>5 DEF Next, Walk, OtherRequest

-----------------------------------------------------------------------------
(***************************************************************************)
(* Theorems.                                                               *)
(***************************************************************************)

\* The invariants hold throughout a walk.
LEMMA WalkAlways == Spec => [](TypeOK /\ WalkInv /\ TotalInv)
<1>1. Init => TypeOK /\ WalkInv /\ TotalInv
  BY TypesInit, WalkInit, TotalInit
<1>2. TypeOK /\ WalkInv /\ TotalInv /\ [Next]_vars => (TypeOK /\ WalkInv /\ TotalInv)'
  BY TypesNext, WalkNext, TotalNext
<1> QED
  BY <1>1, <1>2, PTL DEF Spec

\* When the client has walked through the pages that findAll answers with, it
\* has missed no more of the rows that were there all the time than the tenant
\* lost while it walked.
THEOREM Misses == Spec => []MissesNoMoreThanLeft
<1>1. WalkInv => MissesNoMoreThanLeft
  <2>1. Unseen({}) = {r \in steady : seen[r] = 0}
    BY DEF Unseen
  <2> QED
    BY <2>1 DEF WalkInv, AtEnd, AtMost, MissesNoMoreThanLeft, Walked
<1> QED
  BY <1>1, WalkAlways, PTL

\* At every moment of the walk, the answers of findAll have repeated rows that
\* were there all the time no more often than the tenant got rows.
THEOREM Repeated == Spec => []RepeatsNoMoreThanJoined
<1>1. TypeOK /\ WalkInv => RepeatsNoMoreThanJoined
  <2> SUFFICES ASSUME TypeOK, WalkInv PROVE Cardinality(Repeats) <= joined
    BY DEF RepeatsNoMoreThanJoined
  <2>1. CASE page = 0
    BY <2>1 DEF WalkInv, AtEnd, AtMost
  <2>2. CASE page # 0
    <3>1. page \in Nat \ {0} /\ Skip(page) \in Nat /\ joined \in Nat
      BY <2>2, SkipIs DEF TypeOK, LastPage
    <3>2. \A s \in steady : seen[s] \in Nat /\ Rank(s) \in Nat
      BY WhereTyped DEF TypeOK
    <3>3. \A s \in steady : seen[s] <= Shows({}, Skip(page), s)
      BY <3>1, <3>2 DEF Shows, Found
    <3>4. Repeats \subseteq Again({}, Skip(page))
      BY <3>1, <3>3, RepeatsWithin
    <3>5. AtMost(Again({}, Skip(page)), joined)
      BY <2>2 DEF WalkInv, AtPage
    <3> QED
      BY <3>1, <3>4, <3>5, Counts DEF AtMost
  <2> QED
    BY <2>1, <2>2
<1> QED
  BY <1>1, WalkAlways, PTL

\* The total in the last answer of a walk differs from the number of rows that
\* the answers showed by no more than the changes to the table meanwhile.
THEOREM AddsUp == Spec => []TotalAddsUp
<1>1. TotalInv => TotalAddsUp
  BY DEF TotalInv
<1> QED
  BY <1>1, WalkAlways, PTL
=============================================================================
