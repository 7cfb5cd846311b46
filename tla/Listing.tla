------------------------------ MODULE Listing -------------------------------
(***************************************************************************)
(* findAll of users, projects, tasks and organizations: pages of a table   *)
(* that changes while a client walks through them.                         *)
(*                                                                         *)
(* A request runs two statements at the same time, the page and the total, *)
(* on connections of their own: either may be first, and the table may     *)
(* change in between.  Pages are cut by position from the newest row to    *)
(* the oldest.  The order of rows created in the same millisecond is left  *)
(* to the database, which need not answer alike twice.                     *)
(*                                                                         *)
(* For tasks, a row is the tenant's if its project is; for organizations,  *)
(* every row is.  Filters narrow what is the tenant's and are left out.    *)
(***************************************************************************)
EXTENDS Naturals, FiniteSets

CONSTANTS
  MaxRows,       \* bound on the rows ever created; they are numbered in that order
  Times,         \* of creation
  Limit,         \* rows of a page
  MaxChanges,    \* bound on the changes to the table
  MaxFailures    \* bound on the requests that fail

ASSUME ListingAssumption ==
  /\ MaxRows \in Nat
  /\ Times \subseteq Nat
  /\ Limit \in Nat \ {0}
  /\ MaxChanges \in Nat /\ MaxFailures \in Nat

VARIABLES
  table,     \* table[r]: r's time of creation, and whether it is the tenant's
  used,      \* number of rows created so far
  page,      \* the page the client is at, 0 after the last
  listed,    \* {} or {result of findMany}
  counted,   \* {} or {result of count}
  total,     \* the total in the last answer
  seen,      \* seen[r]: in how many answers the client found r
  steady,    \* rows that the tenant had all the time, at a time of their own (history)
  joined,    \* rows that the tenant got since the walk began (history)
  left,      \* rows that the tenant lost since the walk began (history)
  failures

request == <<listed, counted>>
client  == <<page, total, seen>>
vars    == <<table, used, request, client, steady, joined, left, failures>>

Rows    == 1..MaxRows
Row     == [created : Times, own : BOOLEAN]
Changes == joined + left

\* Every page from this one on is empty: page numbers stop there.
LastPage == MaxRows + 1

TypeOK ==
  /\ used \in 0..MaxRows /\ DOMAIN table \subseteq 1..used
  /\ \A r \in DOMAIN table : table[r] \in Row
  /\ page \in 0..LastPage
  /\ listed = {} \/ \E S \in SUBSET Rows : listed = {S} /\ Cardinality(S) <= Limit
  /\ counted = {} \/ \E n \in 0..MaxRows : counted = {n}
  /\ total \in 0..MaxRows
  /\ seen \in [Rows -> Nat]
  /\ steady \subseteq {r \in DOMAIN table : table[r].own}
  /\ joined \in Nat /\ left \in Nat /\ Changes <= MaxChanges
  /\ failures \in 0..MaxFailures

-----------------------------------------------------------------------------
(* Queries *)

Min2(a, b) == IF a < b THEN a ELSE b

\* where: {organizationId}
Where == {r \in DOMAIN table : table[r].own}

NoOlder(S, R) == \A s \in S, r \in R : table[s].created >= table[r].created

\* Mutant: pages are counted from 0.
SkipFromZero(n) == n * Limit

\* Mutant: pages overlap.
SkipOverlapping(n) == (n - 1) * (Limit - 1)

Skip(n) == (n - 1) * Limit

\* Mutant: findMany is not told how many rows to take.
PagesUntaken(n) ==
  {S \in SUBSET Where :
     /\ Cardinality(Where \ S) = Min2(Skip(n), Cardinality(Where))
     /\ NoOlder(Where \ S, S)}

\* The results that findMany may have for page n: some rows in front of it are
\* as many as it skips, its own are as many as it takes, the others follow.
Pages(n) ==
  {S \in SUBSET Where :
     \E front \in SUBSET (Where \ S) :
       /\ Cardinality(front) = Min2(Skip(n), Cardinality(Where))
       /\ Cardinality(S) = Min2(Limit, Cardinality(Where \ front))
       /\ NoOlder(front, Where \ front)
       /\ NoOlder(S, Where \ (front \cup S))}

-----------------------------------------------------------------------------
(* The request *)

FindMany ==
  /\ page # 0 /\ listed = {}
  /\ \E S \in Pages(page) : listed' = {S}
  /\ UNCHANGED <<table, used, counted, client, steady, joined, left, failures>>

\* Mutant: the count is not scoped.
CountAll ==
  /\ page # 0 /\ counted = {}
  /\ counted' = {Cardinality(DOMAIN table)}
  /\ UNCHANGED <<table, used, listed, client, steady, joined, left, failures>>

Count ==
  /\ page # 0 /\ counted = {}
  /\ counted' = {Cardinality(Where)}
  /\ UNCHANGED <<table, used, listed, client, steady, joined, left, failures>>

\* The answer arrives; a page that is not full is the last.
Receive ==
  /\ \E S \in listed, n \in counted :
       /\ seen' = [r \in Rows |-> IF r \in S THEN seen[r] + 1 ELSE seen[r]]
       /\ total' = n
       /\ page' = IF Cardinality(S) < Limit THEN 0 ELSE Min2(page + 1, LastPage)
  /\ listed' = {} /\ counted' = {}
  /\ UNCHANGED <<table, used, steady, joined, left, failures>>

\* One of the statements fails, and with it the request; it is sent again.
Fail ==
  /\ page # 0
  /\ failures < MaxFailures
  /\ failures' = failures + 1
  /\ listed' = {} /\ counted' = {}
  /\ UNCHANGED <<table, used, client, steady, joined, left>>

-----------------------------------------------------------------------------
(* Other requests change the table *)

Change == page # 0 /\ Changes < MaxChanges

\* The tenant's rows become those of the new table.
Unlike(r, rows)  == \A s \in rows \ {r} : table'[s].created # table'[r].created
NewlyOwn         == {r \in DOMAIN table' : table'[r].own}
SteadyStill      == {r \in steady \cap NewlyOwn : Unlike(r, NewlyOwn)}
History ==
  /\ steady' = SteadyStill
  /\ joined' = joined + Cardinality(NewlyOwn \ Where)
  /\ left' = left + Cardinality(Where \ NewlyOwn)

\* createdAt: now
CreateRow(t, own) ==
  /\ Change
  /\ used < MaxRows
  /\ \A r \in DOMAIN table : table[r].created <= t
  /\ used' = used + 1
  /\ table' = [r \in DOMAIN table \cup {used'} |->
                 IF r = used' THEN [created |-> t, own |-> own] ELSE table[r]]
  /\ History
  /\ UNCHANGED <<request, client, failures>>

RemoveRow(r) ==
  /\ Change
  /\ r \in DOMAIN table
  /\ table' = [s \in DOMAIN table \ {r} |-> table[s]]
  /\ History
  /\ UNCHANGED <<used, request, client, failures>>

\* An update gives the row to another tenant, or to this one.
MoveRow(r) ==
  /\ Change
  /\ r \in DOMAIN table
  /\ table' = [table EXCEPT ![r].own = ~@]
  /\ History
  /\ UNCHANGED <<used, request, client, failures>>

Init ==
  /\ used \in 0..MaxRows
  /\ table \in [1..used -> Row]
  /\ \A r, s \in 1..used : r < s => table[r].created <= table[s].created
  /\ page = 1 /\ total = 0 /\ seen = [r \in Rows |-> 0]
  /\ listed = {} /\ counted = {}
  /\ steady = {r \in Where : \A s \in Where \ {r} : table[s].created # table[r].created}
  /\ joined = 0 /\ left = 0 /\ failures = 0

Walk == FindMany \/ Count \/ Receive

Next ==
  \/ Walk \/ Fail
  \/ \E t \in Times, own \in BOOLEAN : CreateRow(t, own)
  \/ \E r \in Rows : RemoveRow(r) \/ MoveRow(r)

Spec == Init /\ [][Next]_vars

-----------------------------------------------------------------------------
(* Properties *)

Walked == page = 0

\* A walk misses at most as many of the rows that were there all the time as
\* the tenant lost meanwhile: without removals it misses none.  (Of rows with
\* a common time of creation it may miss any.)
MissesNoMoreThanLeft ==
  Walked => Cardinality({r \in steady : seen[r] = 0}) <= left

\* <<r, k>>: the client found r for the kth time.
Shown   == UNION {{r} \X (1..seen[r]) : r \in Rows}
Repeats == {p \in Shown : p[1] \in steady /\ p[2] > 1}

\* A walk shows rows that were there all the time again at most as many times
\* as the tenant got rows meanwhile: without new ones it repeats none.
RepeatsNoMoreThanJoined == Cardinality(Repeats) <= joined

\* The total in the last answer differs from the number of rows that the client
\* was shown by no more than the changes, although it was counted at another
\* time than the rows were listed and ties may be listed in any order.
TotalAddsUp ==
  Walked => /\ total <= Cardinality(Shown) + Changes
            /\ Cardinality(Shown) <= total + Changes
=============================================================================
