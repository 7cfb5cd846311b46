---------------------- MODULE AccountsAtomicity_proofs ----------------------
(***************************************************************************)
(* Proofs that requests to Accounts are all or nothing, for every set of   *)
(* requests and every interleaving, abort, crash and removal, and that the *)
(* account tables implement a directory that enrols atomically.            *)
(***************************************************************************)
EXTENDS Accounts_proofs

(***************************************************************************)
(* The inductive invariant.  What a request has committed is complete      *)
(* because what it was about to commit was complete, item by item, and an  *)
(* account that is missing later went with its organization, which cannot  *)
(* come back: whoever was to create it is past its commit.                 *)
(***************************************************************************)
Committed(r) == pc[r] \in {"email", "done"}
Past(o)      == o \in Requests => Committed(o)

\* The transaction of r has inserted its ith account, uncommitted.
PendingRow(r, i) == \E u \in pendUsers[r] : u.id = <<r, i>> /\ u.org = OrgAt(r, i)

\* Every account of r is there, or went with an organization that is gone for good.
Complete(r) ==
  \A i \in DOMAIN input[r].items :
    RowOf(r, i) \/ (OrgAt(r, i) \notin orgs /\ Past(OrgAt(r, i)))

\* A request that has not ended has left no trace yet.
Untouched(r) == ~Committed(r) => ~TraceOf(r) /\ result[r] = "none"

\* Only an open transaction has pending writes, all of them its own.
PendingOwn(r) ==
  /\ pc[r] \notin DbSteps => pendOrgs[r] = {} /\ pendUsers[r] = {}
  /\ pc[r] \in {"countUsers", "countOrgs", "newOrg"} \/ pendOrgs[r] # {} => Kind(r) \in Founders
  /\ pendOrgs[r] \subseteq {r}
  /\ \A u \in pendUsers[r] : u.id[1] = r

\* It has inserted a row for every item that it is done with.
PendingAll(r) ==
  /\ pc[r] \in DbSteps => \A i \in 1..(pos[r] - 1) : PendingRow(r, i)
  /\ pc[r] = "commit" => pos[r] = LastItem(r) /\ PendingRow(r, pos[r])

\* What has left a trace or is reported to have succeeded is complete, and
\* what is reported to have failed has left none.
Finished(r) ==
  /\ result[r] \in Failures => ~TraceOf(r)
  /\ TraceOf(r) \/ result[r] = "ok" \/ pc[r] = "email" => Complete(r)

\* All of this for one request.
OneRequest(r) == Untouched(r) /\ PendingOwn(r) /\ PendingAll(r) /\ Finished(r)

\* The request that created an organization has committed.
OrgsPast == \A o \in orgs : Past(o)

\* The inductive invariant.
Atomic == OrgsPast /\ \A r \in Requests : OneRequest(r)

-----------------------------------------------------------------------------
(***************************************************************************)
(* Bystanders.                                                             *)
(***************************************************************************)

\* A step preserves accounts if rows go only with their organization and no
\* organization comes back.
Preserving ==
  /\ \A o : Past(o) => Past(o)'
  /\ \A u \in users : u \in users' \/ (u.org \notin orgs' /\ Past(u.org)')
  /\ \A o \in orgs' : o \in orgs \/ ~Past(o)

\* Such a step leaves complete what was complete.
LEMMA CompleteStays ==
  ASSUME NEW r \in Requests, Preserving, input'[r] = input[r], Complete(r)
  PROVE  Complete(r)'
<1> SUFFICES ASSUME NEW i \in DOMAIN input[r].items
             PROVE  RowOf(r, i)' \/ (OrgAt(r, i)' \notin orgs' /\ Past(OrgAt(r, i))')
  BY DEF Complete
<1> DEFINE o == OrgAt(r, i)
<1>1. OrgAt(r, i)' = o
  BY DEF OrgAt, Kind
<1>2. RowOf(r, i) \/ (o \notin orgs /\ Past(o))
  BY DEF Complete
<1>3. CASE o \notin orgs /\ Past(o)
  BY <1>1, <1>3 DEF Preserving, Past, Committed
<1>4. CASE RowOf(r, i)
  <2>1. PICK u \in users : u.id = <<r, i>> /\ u.org = o
    BY <1>4 DEF RowOf
  <2>2. CASE u \in users'
    BY <1>1, <2>1, <2>2 DEF RowOf
  <2>3. CASE u.org \notin orgs' /\ Past(u.org)'
    BY <1>1, <2>1, <2>3 DEF Past, Committed
  <2> QED
    BY <2>2, <2>3 DEF Preserving
<1> QED
  BY <1>2, <1>3, <1>4

\* A request that does not take part in a step stays as it is.
LEMMA Bystander ==
  ASSUME NEW r \in Requests, Preserving, OneRequest(r),
         input'[r] = input[r], pc'[r] = pc[r], pos'[r] = pos[r], result'[r] = result[r],
         pendOrgs'[r] = pendOrgs[r], pendUsers'[r] = pendUsers[r],
         r \in orgs' => r \in orgs,
         \A u \in users' : u.id[1] = r => u \in users
  PROVE  OneRequest(r)'
<1>1. TraceOf(r)' => TraceOf(r)
  BY DEF TraceOf, RowsOf
<1>2. Complete(r) => Complete(r)'
  BY CompleteStays
<1>3. Untouched(r)'
  BY <1>1 DEF OneRequest, Untouched, Committed
<1>4. PendingOwn(r)'
  BY DEF OneRequest, PendingOwn, Kind
<1>5. PendingAll(r)'
  BY DEF OneRequest, PendingAll, PendingRow, OrgAt, Kind, LastItem
<1>6. Finished(r)'
  BY <1>1, <1>2 DEF OneRequest, Finished
<1> QED
  BY <1>3, <1>4, <1>5, <1>6 DEF OneRequest

-----------------------------------------------------------------------------
(***************************************************************************)
(* The steps of one request.                                               *)
(***************************************************************************)

\* A step of one request that leaves the tables alone is nobody else's
\* business.
LEMMA OthersStay ==
  ASSUME Atomic, NEW r \in Requests, UNCHANGED <<orgs, users>>,
         Committed(r) => Committed(r)',
         \A q \in Requests \ {r} :
           /\ input'[q] = input[q] /\ pc'[q] = pc[q] /\ pos'[q] = pos[q]
           /\ result'[q] = result[q]
           /\ pendOrgs'[q] = pendOrgs[q] /\ pendUsers'[q] = pendUsers[q],
         Preserving => OneRequest(r)'
  PROVE  Atomic'
<1>1. Preserving
  BY DEF Preserving, Past, Committed
<1>2. ASSUME NEW q \in Requests, q # r PROVE OneRequest(q)'
  BY <1>1, <1>2, Bystander DEF Atomic
<1>3. OrgsPast'
  BY <1>1 DEF Atomic, OrgsPast, Preserving
<1> QED
  BY <1>1, <1>2, <1>3 DEF Atomic

\* A transaction that goes on to its next look-up is as far as it was.
LEMMA GoesOn ==
  ASSUME TypeInv, Atomic, NEW r \in Requests, pc[r] \in DbSteps,
         NEW step \in DbSteps \ {"commit"}, Goto(r, step),
         step \in {"countOrgs", "newOrg"} => Kind(r) \in Founders,
         step # "countUsers",
         UNCHANGED <<orgs, users, pendOrgs, pendUsers, input, pos, result>>
  PROVE  Atomic'
<1>1. pc'[r] = step /\ \A q \in Requests \ {r} : pc'[q] = pc[q]
  BY DEF Goto, TypeInv, TypeOK
<1>2. ~Committed(r) /\ ~Committed(r)'
  BY <1>1 DEF Committed, DbSteps, TxSteps
<1>3. OneRequest(r)
  BY DEF Atomic
<1>4. Untouched(r)'
  BY <1>2, <1>3 DEF OneRequest, Untouched, TraceOf, RowsOf
<1>5. PendingOwn(r)'
  BY <1>1, <1>3 DEF OneRequest, PendingOwn, Kind
<1>6. PendingAll(r)'
  BY <1>1, <1>3 DEF OneRequest, PendingAll, PendingRow, OrgAt, Kind, LastItem
<1>7. Finished(r)'
  <2>1. ~TraceOf(r)' /\ result'[r] = "none" /\ pc'[r] # "email"
    BY <1>1, <1>2, <1>3, <1>4 DEF OneRequest, Untouched, Committed
  <2> QED
    BY <2>1 DEF Finished, Failures
<1>8. OneRequest(r)'
  BY <1>4, <1>5, <1>6, <1>7 DEF OneRequest
<1> QED
  BY <1>1, <1>2, <1>8, OthersStay

\* A request that fails rolls back and leaves no trace.
LEMMA FailLeavesNothing ==
  ASSUME TypeInv, Atomic, NEW r \in Requests, pc[r] \in DbSteps,
         NEW why \in Failures, Fail(r, why)
  PROVE  Atomic'
<1>1. /\ pc'[r] = "done" /\ result'[r] = why
      /\ pendOrgs'[r] = {} /\ pendUsers'[r] = {}
      /\ UNCHANGED <<orgs, users, input, pos>>
      /\ \A q \in Requests \ {r} :
           /\ pc'[q] = pc[q] /\ result'[q] = result[q]
           /\ pendOrgs'[q] = pendOrgs[q] /\ pendUsers'[q] = pendUsers[q]
  BY DEF Fail, Goto, TypeInv, TypeOK
<1>2. ~TraceOf(r)
  BY DEF Atomic, OneRequest, Untouched, Committed, DbSteps, TxSteps
<1>3. ~TraceOf(r)' /\ Committed(r)'
  BY <1>1, <1>2 DEF TraceOf, RowsOf, Committed
<1>4. Untouched(r)' /\ PendingOwn(r)' /\ PendingAll(r)'
  BY <1>1, <1>3 DEF Untouched, PendingOwn, PendingAll, DbSteps, TxSteps
<1>5. Finished(r)'
  BY <1>1, <1>3 DEF Finished, Failures
<1>6. OneRequest(r)'
  BY <1>4, <1>5 DEF OneRequest
<1> QED
  BY <1>1, <1>3, <1>6, OthersStay

\* A request that is submitted starts with nothing written, and ends at once
\* if it is refused.
LEMMA SubmitFromScratch ==
  ASSUME TypeInv, Atomic, NEW r \in Requests, Submit(r)
  PROVE  Atomic'
<1>1. PICK in \in Inputs :
        /\ input' = [input EXCEPT ![r] = in]
        /\ result' = [result EXCEPT ![r] = Refusal(in)]
        /\ Goto(r, IF Refusal(in) = "none" THEN FirstStep(in.kind) ELSE "done")
  BY DEF Submit
<1>2. /\ pc[r] = "idle" /\ pos[r] = 1
      /\ UNCHANGED <<orgs, users, pendOrgs, pendUsers, pos>>
  BY DEF Submit, txVars, TypeInv, Cursor
<1>3. /\ input'[r] = in /\ result'[r] = Refusal(in)
      /\ pc'[r] = IF Refusal(in) = "none" THEN FirstStep(in.kind) ELSE "done"
      /\ \A q \in Requests \ {r} :
           input'[q] = input[q] /\ result'[q] = result[q] /\ pc'[q] = pc[q]
  BY <1>1 DEF Goto, TypeInv, TypeOK
<1>4. ~TraceOf(r) /\ pendOrgs[r] = {} /\ pendUsers[r] = {}
  BY <1>2 DEF Atomic, OneRequest, Untouched, PendingOwn, Committed, DbSteps, TxSteps
<1>5. ~TraceOf(r)'
  BY <1>2, <1>4 DEF TraceOf, RowsOf
<1>6. CASE Refusal(in) = "none"
  <2>1. /\ pc'[r] \in {"countUsers", "newOrg", "findOrg"}
        /\ pc'[r] # "findOrg" => in.kind \in Founders
    BY <1>3, <1>6 DEF FirstStep, Founders
  <2>2. Untouched(r)' /\ PendingOwn(r)'
    BY <1>2, <1>3, <1>4, <1>5, <1>6, <2>1
    DEF Untouched, PendingOwn, Kind, DbSteps, TxSteps
  <2>3. PendingAll(r)'
    BY <1>2, <2>1 DEF PendingAll
  <2>4. Finished(r)'
    BY <1>3, <1>5, <1>6, <2>1 DEF Finished, Failures
  <2>5. OneRequest(r)'
    BY <2>2, <2>3, <2>4 DEF OneRequest
  <2> QED
    BY <1>2, <1>3, <2>5, OthersStay DEF Committed
<1>7. CASE Refusal(in) # "none"
  <2>1. pc'[r] = "done" /\ result'[r] \in Failures
    BY <1>3, <1>7 DEF Refusal, Failures
  <2>2. Untouched(r)' /\ PendingOwn(r)' /\ PendingAll(r)'
    BY <1>2, <1>4, <2>1 DEF Untouched, PendingOwn, PendingAll, Committed, DbSteps, TxSteps
  <2>3. Finished(r)'
    BY <1>5, <2>1 DEF Finished, Failures
  <2>4. OneRequest(r)'
    BY <2>2, <2>3 DEF OneRequest
  <2> QED
    BY <1>2, <1>3, <2>4, OthersStay DEF Committed
<1> QED
  BY <1>6, <1>7

\* An organization that is created is the request's own.
LEMMA NewOrgIsOwn ==
  ASSUME TypeInv, Atomic, NEW r \in Requests, NewOrg(r)
  PROVE  Atomic'
<1>1. /\ pc[r] = "newOrg" /\ pc'[r] = AfterOrg(Kind(r)) /\ pc'[r] \in {"insert", "findUser"}
      /\ \A q \in Requests \ {r} : pc'[q] = pc[q] /\ pendOrgs'[q] = pendOrgs[q]
      /\ pendOrgs'[r] = pendOrgs[r] \cup {Org(r)}
      /\ UNCHANGED <<orgs, users, pendUsers, input, pos, seen, result>>
  BY DEF NewOrg, Goto, AfterOrg, TypeInv, TypeOK
<1>2. OneRequest(r)
  BY DEF Atomic
<1>3. Kind(r) \in Founders /\ Org(r) = r
  BY <1>1, <1>2 DEF OneRequest, PendingOwn, Org, OrgAt
<1>4. ~TraceOf(r)' /\ result'[r] = "none"
  BY <1>1, <1>2 DEF OneRequest, Untouched, Committed, TraceOf, RowsOf
<1>5. Untouched(r)' /\ Finished(r)'
  BY <1>1, <1>4 DEF Untouched, Finished, Failures
<1>6. PendingOwn(r)'
  BY <1>1, <1>2, <1>3 DEF OneRequest, PendingOwn, Kind, DbSteps, TxSteps
<1>7. PendingAll(r)'
  BY <1>1, <1>2 DEF OneRequest, PendingAll, PendingRow, OrgAt, Kind, DbSteps, TxSteps
<1>8. OneRequest(r)'
  BY <1>5, <1>6, <1>7 DEF OneRequest
<1> QED
  BY <1>1, <1>8, OthersStay DEF Committed

\* An insert adds the row of the item that the loop is at, and the loop ends
\* when no item is left.
LEMMA InsertAddsItem ==
  ASSUME TypeInv, Atomic, NEW r \in Requests, pc[r] = "insert",
         pendUsers' = [pendUsers EXCEPT ![r] = @ \cup {Row(r)}],
         \/ /\ pos[r] < LastItem(r)
            /\ pos' = [pos EXCEPT ![r] = @ + 1]
            /\ Goto(r, "findOrg")
         \/ /\ pos[r] = LastItem(r)
            /\ Goto(r, "commit")
            /\ pos' = pos,
         UNCHANGED <<orgs, users, pendOrgs, input, result>>
  PROVE  Atomic'
<1>1. /\ pc'[r] \in {"findOrg", "commit"}
      /\ pc'[r] = "findOrg" => pos'[r] = pos[r] + 1
      /\ pc'[r] = "commit" => pos'[r] = pos[r] /\ pos[r] = LastItem(r)
      /\ \A q \in Requests \ {r} : pc'[q] = pc[q] /\ pos'[q] = pos[q] /\ pendUsers'[q] = pendUsers[q]
      /\ pendUsers'[r] = pendUsers[r] \cup {Row(r)}
      /\ pos[r] \in Nat \ {0}
  BY DEF Goto, TypeInv, TypeOK
<1>2. OneRequest(r)
  BY DEF Atomic
<1>3. Row(r).id = <<r, pos[r]>> /\ Row(r).org = OrgAt(r, pos[r])
  BY DEF Row, Org
<1>4. ~TraceOf(r)' /\ result'[r] = "none"
  BY <1>1, <1>2 DEF OneRequest, Untouched, Committed, TraceOf, RowsOf
<1>5. Untouched(r)' /\ Finished(r)'
  BY <1>1, <1>4 DEF Untouched, Finished, Failures
<1>6. PendingOwn(r)'
  <2>1. \A u \in pendUsers'[r] : u.id[1] = r
    BY <1>1, <1>2, <1>3 DEF OneRequest, PendingOwn
  <2> QED
    BY <1>1, <1>2, <2>1 DEF OneRequest, PendingOwn, Kind, DbSteps, TxSteps
<1>7. \A i : OrgAt(r, i)' = OrgAt(r, i)
  BY DEF OrgAt, Kind
<1>8. \A i : i = pos[r] => PendingRow(r, i)'
  BY <1>1, <1>3, <1>7 DEF PendingRow
<1>9. \A i \in 1..(pos[r] - 1) : PendingRow(r, i)'
  BY <1>1, <1>2, <1>7 DEF OneRequest, PendingAll, PendingRow, DbSteps, TxSteps
<1>10. PendingAll(r)'
  <2>1. CASE pc'[r] = "findOrg"
    <3>1. ASSUME NEW i \in 1..(pos'[r] - 1) PROVE PendingRow(r, i)'
      <4>1. i = pos[r] \/ i \in 1..(pos[r] - 1)
        BY <1>1, <2>1
      <4> QED
        BY <1>8, <1>9, <4>1
    <3> QED
      BY <2>1, <3>1 DEF PendingAll
  <2>2. CASE pc'[r] = "commit"
    <3>1. pos'[r] = pos[r]
      BY <1>1, <2>2
    <3>2. \A i \in 1..(pos'[r] - 1) : PendingRow(r, i)'
      BY <1>9, <3>1
    <3>3. PendingRow(r, pos[r])'
      BY <1>8, <3>1
    <3>4. pos'[r] = LastItem(r)'
      BY <1>1, <2>2 DEF LastItem
    <3> QED
      BY <3>2, <3>3, <3>4 DEF PendingAll
  <2> QED
    BY <1>1, <2>1, <2>2
<1>11. OneRequest(r)'
  BY <1>5, <1>6, <1>10 DEF OneRequest
<1> QED
  BY <1>1, <1>11, OthersStay DEF Committed

\* What the transaction of r holds when it commits: a row for every item.
LEMMA CommitHasAll ==
  ASSUME TypeInv, Atomic, NEW r \in Requests, pc[r] = "commit"
  PROVE  /\ \A i \in DOMAIN input[r].items : PendingRow(r, i)
         /\ 1 \in DOMAIN input[r].items
<1>1. input[r] \in Input /\ pos[r] \in 1..Len(input[r].items)
  BY DEF TypeInv, Cursor, LastItem, Active, DbSteps, TxSteps
<1>2. DOMAIN input[r].items = 1..Len(input[r].items) /\ Len(input[r].items) \in Nat
  BY <1>1 DEF Input
<1>3. /\ \A i \in 1..(pos[r] - 1) : PendingRow(r, i)
      /\ pos[r] = Len(input[r].items) /\ PendingRow(r, pos[r])
  BY DEF Atomic, OneRequest, PendingAll, LastItem, DbSteps, TxSteps
<1>4. ASSUME NEW i \in 1..Len(input[r].items) PROVE PendingRow(r, i)
  <2>1. i = pos[r] \/ i \in 1..(pos[r] - 1)
    BY <1>2, <1>3
  <2> QED
    BY <1>3, <2>1
<1> QED
  BY <1>1, <1>2, <1>4

\* A commit makes the request complete, whether or not its answer arrives.
LEMMA CommitCompletes ==
  ASSUME TypeInv, Atomic, NEW r \in Requests, Commit(r) \/ CommitUnacked(r)
  PROVE  Atomic'
<1>1. /\ pc[r] = "commit" /\ pc'[r] \in {"email", "done"}
      /\ result'[r] \in {result[r], "ok", "lost"}
      /\ orgs' = orgs \cup pendOrgs[r] /\ users' = users \cup pendUsers[r]
      /\ pendOrgs'[r] = {} /\ pendUsers'[r] = {}
      /\ input' = input /\ pos' = pos
      /\ \A q \in Requests \ {r} :
           /\ pc'[q] = pc[q] /\ result'[q] = result[q]
           /\ pendOrgs'[q] = pendOrgs[q] /\ pendUsers'[q] = pendUsers[q]
  BY DEF Commit, CommitUnacked, Apply, Goto, TypeInv, TypeOK
<1>2. OneRequest(r) /\ pendOrgs[r] \subseteq {r} /\ \A u \in pendUsers[r] : u.id[1] = r
  BY DEF Atomic, OneRequest, PendingOwn
<1>3. ~Past(r) /\ Past(r)'
  BY <1>1 DEF Past, Committed
<1>4. Preserving
  <2>1. \A o : Past(o) => Past(o)'
    BY <1>1 DEF Past, Committed
  <2> QED
    BY <1>1, <1>2, <1>3, <2>1 DEF Preserving
<1>5. ASSUME NEW q \in Requests, q # r PROVE OneRequest(q)'
  BY <1>1, <1>2, <1>4, <1>5, Bystander DEF Atomic
<1>6. OrgsPast'
  BY <1>1, <1>2, <1>3, <1>4 DEF Atomic, OrgsPast, Preserving
<1>7. Complete(r)'
  <2>1. \A i \in DOMAIN input[r].items : PendingRow(r, i)
    BY <1>1, CommitHasAll
  <2>2. ASSUME NEW i \in DOMAIN input'[r].items PROVE RowOf(r, i)'
    <3>1. PICK u \in pendUsers[r] : u.id = <<r, i>> /\ u.org = OrgAt(r, i)
      BY <1>1, <2>1, <2>2 DEF PendingRow
    <3>2. OrgAt(r, i)' = OrgAt(r, i)
      BY <1>1 DEF OrgAt, Kind
    <3> QED
      BY <1>1, <3>1, <3>2 DEF RowOf
  <2> QED
    BY <2>2 DEF Complete
<1>8. result'[r] \notin Failures
  BY <1>1, <1>2 DEF OneRequest, Untouched, Committed, Failures
<1>9. Untouched(r)' /\ PendingOwn(r)' /\ PendingAll(r)' /\ Finished(r)'
  BY <1>1, <1>7, <1>8
  DEF Untouched, PendingOwn, PendingAll, Finished, Committed, DbSteps, TxSteps
<1> QED
  BY <1>5, <1>6, <1>9 DEF Atomic, OneRequest

\* A crash takes open transactions with it and leaves commits alone.
LEMMA CrashKeepsCommits ==
  ASSUME TypeInv, Atomic, Crash
  PROVE  Atomic'
<1>1. /\ UNCHANGED <<orgs, users, input, pos>>
      /\ \A q \in Requests :
           /\ pendOrgs'[q] = {} /\ pendUsers'[q] = {}
           /\ pc[q] \in Active => pc'[q] = "done" /\ result'[q] = "lost"
           /\ pc[q] \notin Active => pc'[q] = pc[q] /\ result'[q] = result[q]
  BY DEF Crash
<1>2. \A o : Past(o) => Past(o)'
  BY <1>1 DEF Past, Committed
<1>3. Preserving
  BY <1>1, <1>2 DEF Preserving
<1>4. ASSUME NEW q \in Requests PROVE OneRequest(q)'
  <2>1. OneRequest(q)
    BY DEF Atomic
  <2>2. CASE pc[q] \notin Active
    <3>1. pc[q] \notin DbSteps
      BY <2>2 DEF Active
    <3>2. pendOrgs'[q] = pendOrgs[q] /\ pendUsers'[q] = pendUsers[q]
      BY <1>1, <2>1, <3>1 DEF OneRequest, PendingOwn
    <3> QED
      BY <1>1, <1>3, <2>1, <2>2, <3>2, Bystander
  <2>3. CASE pc[q] \in Active
    <3>1. pc'[q] = "done" /\ result'[q] = "lost"
      BY <1>1, <2>3
    <3>2. Untouched(q)' /\ PendingOwn(q)' /\ PendingAll(q)'
      BY <1>1, <3>1 DEF Untouched, PendingOwn, PendingAll, Committed, DbSteps, TxSteps
    <3>3. TraceOf(q)' => TraceOf(q)
      BY <1>1 DEF TraceOf, RowsOf
    <3>4. TraceOf(q) => Complete(q)
      BY <2>1 DEF OneRequest, Finished
    <3>5. Complete(q) => Complete(q)'
      BY <1>1, <1>3, CompleteStays
    <3>6. Finished(q)'
      BY <3>1, <3>3, <3>4, <3>5 DEF Finished, Failures
    <3> QED
      BY <3>2, <3>6 DEF OneRequest
  <2> QED
    BY <2>2, <2>3
<1>5. OrgsPast'
  BY <1>1, <1>2 DEF Atomic, OrgsPast
<1> QED
  BY <1>4, <1>5 DEF Atomic

\* A removal takes the accounts of an organization that cannot come back.
LEMMA RemovalIsFinal ==
  ASSUME TypeInv, Atomic, NEW o \in OrgIds, RemoveOrg(o)
  PROVE  Atomic'
<1>1. /\ o \in orgs /\ orgs' = orgs \ {o} /\ users' = {u \in users : u.org # o}
      /\ UNCHANGED <<pendOrgs, pendUsers, input, pc, pos, result>>
  BY DEF RemoveOrg, txVars, reqVars
<1>2. \A p : Past(p) <=> Past(p)'
  BY <1>1 DEF Past, Committed
<1>3. Past(o)
  BY <1>1 DEF Atomic, OrgsPast
<1>4. Preserving
  BY <1>1, <1>2, <1>3 DEF Preserving
<1>5. ASSUME NEW q \in Requests PROVE OneRequest(q)'
  BY <1>1, <1>4, Bystander DEF Atomic
<1>6. OrgsPast'
  BY <1>1, <1>2 DEF Atomic, OrgsPast
<1> QED
  BY <1>5, <1>6 DEF Atomic

\* Every step of every request, every crash and every removal.
LEMMA AtomicStep == TypeInv /\ Atomic /\ [Next]_vars => Atomic'
<1> SUFFICES ASSUME TypeInv, Atomic, [Next]_vars PROVE Atomic'
  OBVIOUS
<1>1. ASSUME NEW r \in Requests, Submit(r) PROVE Atomic'
  BY <1>1, SubmitFromScratch
<1>2. ASSUME NEW r \in Requests, CountUsers(r) PROVE Atomic'
  <2>1. Kind(r) \in Founders
    BY <1>2 DEF CountUsers, Atomic, OneRequest, PendingOwn
  <2> QED
    BY <1>2, <2>1, GoesOn DEF CountUsers, txVars, DbSteps, TxSteps
<1>3. ASSUME NEW r \in Requests, CountOrgs(r) PROVE Atomic'
  <2>1. pc[r] \in DbSteps /\ Kind(r) \in Founders
    BY <1>3 DEF CountOrgs, Atomic, OneRequest, PendingOwn, DbSteps
  <2>2. CASE Fail(r, "forbidden")
    BY <2>1, <2>2, FailLeavesNothing DEF Failures
  <2>3. CASE Goto(r, "newOrg") /\ UNCHANGED <<orgs, users, txVars, input, pos, seen, result, isMockMode, crashes>>
    BY <2>1, <2>3, GoesOn DEF txVars, DbSteps, TxSteps
  <2> QED
    BY <1>3, <2>2, <2>3 DEF CountOrgs
<1>4. ASSUME NEW r \in Requests, NewOrg(r) PROVE Atomic'
  BY <1>4, NewOrgIsOwn
<1>5. ASSUME NEW r \in Requests, FindOrg(r) PROVE Atomic'
  <2>1. pc[r] \in DbSteps
    BY <1>5 DEF FindOrg, DbSteps, TxSteps
  <2>2. CASE Fail(r, "no_org")
    BY <2>1, <2>2, FailLeavesNothing DEF Failures
  <2>3. CASE /\ Goto(r, AfterOrg(Kind(r)))
             /\ UNCHANGED <<orgs, users, txVars, input, pos, seen, result, isMockMode, crashes>>
    <3>1. AfterOrg(Kind(r)) \in {"insert", "findUser"}
      BY DEF AfterOrg
    <3> QED
      BY <2>1, <2>3, <3>1, GoesOn DEF txVars, DbSteps, TxSteps
  <2> QED
    BY <1>5, <2>2, <2>3 DEF FindOrg
<1>6. ASSUME NEW r \in Requests, FindUser(r) PROVE Atomic'
  <2>1. pc[r] \in DbSteps
    BY <1>6 DEF FindUser, DbSteps, TxSteps
  <2>2. CASE Fail(r, "email_taken")
    BY <2>1, <2>2, FailLeavesNothing DEF Failures
  <2>3. CASE Goto(r, "insert") /\ UNCHANGED <<orgs, users, txVars, input, pos, seen, result, isMockMode, crashes>>
    BY <2>1, <2>3, GoesOn DEF txVars, DbSteps, TxSteps
  <2> QED
    BY <1>6, <2>2, <2>3 DEF FindUser
<1>7. ASSUME NEW r \in Requests, Insert(r) PROVE Atomic'
  <2>1. pc[r] = "insert" /\ pc[r] \in DbSteps
    BY <1>7 DEF Insert, DbSteps, TxSteps
  <2>2. CASE Fail(r, "email_taken") \/ Fail(r, "no_org")
    BY <2>1, <2>2, FailLeavesNothing DEF Failures
  <2>3. CASE /\ pendUsers' = [pendUsers EXCEPT ![r] = @ \cup {Row(r)}]
             /\ \/ /\ pos[r] < LastItem(r)
                   /\ pos' = [pos EXCEPT ![r] = @ + 1]
                   /\ Goto(r, "findOrg")
                \/ /\ pos[r] = LastItem(r)
                   /\ Goto(r, "commit")
                   /\ pos' = pos
             /\ UNCHANGED <<orgs, users, pendOrgs, input, seen, result, isMockMode, crashes>>
    BY <2>1, <2>3, InsertAddsItem
  <2> QED
    BY <1>7, <2>2, <2>3 DEF Insert
<1>8. ASSUME NEW r \in Requests, Commit(r) \/ CommitUnacked(r) PROVE Atomic'
  BY <1>8, CommitCompletes
<1>9. ASSUME NEW r \in Requests, WelcomeEmail(r) PROVE Atomic'
  <2>1. /\ pc[r] = "email" /\ pc'[r] = "done" /\ result'[r] = "ok"
        /\ UNCHANGED <<orgs, users, pendOrgs, pendUsers, input, pos>>
        /\ \A q \in Requests \ {r} : pc'[q] = pc[q] /\ result'[q] = result[q]
    BY <1>9 DEF WelcomeEmail, Goto, txVars, TypeInv, TypeOK
  <2>2. OneRequest(r) /\ Complete(r)
    BY <2>1 DEF Atomic, OneRequest, Finished
  <2>3. Untouched(r)' /\ PendingOwn(r)' /\ PendingAll(r)'
    BY <2>1, <2>2
    DEF OneRequest, Untouched, PendingOwn, PendingAll, Kind, Committed, DbSteps, TxSteps
  <2>4. ASSUME Preserving PROVE OneRequest(r)'
    <3>1. Complete(r)'
      BY <2>1, <2>2, <2>4, CompleteStays
    <3>2. Finished(r)'
      BY <2>1, <3>1 DEF Finished, Failures
    <3> QED
      BY <2>3, <3>2 DEF OneRequest
  <2> QED
    BY <2>1, <2>4, OthersStay DEF Committed
<1>10. ASSUME NEW r \in Requests, Abort(r) PROVE Atomic'
  BY <1>10, FailLeavesNothing DEF Abort, Failures
<1>11. CASE Crash
  BY <1>11, CrashKeepsCommits
<1>12. ASSUME NEW o \in OrgIds, RemoveOrg(o) PROVE Atomic'
  BY <1>12, RemovalIsFinal
<1>13. CASE UNCHANGED vars
  <2>1. UNCHANGED <<orgs, users, pendOrgs, pendUsers, input, pc, pos, result>>
    BY <1>13 DEF vars, txVars, reqVars
  <2>2. Preserving
    BY <2>1 DEF Preserving, Past, Committed
  <2>3. \A q \in Requests : OneRequest(q)'
    BY <2>1, <2>2, Bystander DEF Atomic
  <2> QED
    BY <2>1, <2>3 DEF Atomic, OrgsPast, Past, Committed
<1> QED
  BY <1>1, <1>2, <1>3, <1>4, <1>5, <1>6, <1>7, <1>8, <1>9, <1>10, <1>11, <1>12, <1>13 DEF Next, Step

\* Requests are atomic at all times, those under way included.
THEOREM Atomicity == Spec => []Atomic
<1>1. Init => Atomic
  <2> SUFFICES ASSUME Init PROVE Atomic
    OBVIOUS
  <2>1. OrgsPast
    BY AccountsAssumption DEF Init, OrgsPast, Past
  <2>2. ASSUME NEW r \in Requests PROVE OneRequest(r)
    <3>1. ~TraceOf(r)
      BY AccountsAssumption DEF Init, TraceOf, RowsOf
    <3>2. pc[r] = "idle" /\ result[r] = "none" /\ pendOrgs[r] = {} /\ pendUsers[r] = {}
      BY DEF Init
    <3> QED
      BY <3>1, <3>2
      DEF OneRequest, Untouched, PendingOwn, PendingAll, Finished, Committed, DbSteps, TxSteps, Failures
  <2> QED
    BY <2>1, <2>2 DEF Atomic
<1> QED
  BY <1>1, AtomicStep, TypeInvariance, PTL DEF Spec

\* If anything of a request is in the database then all of it is that belongs
\* to an organization that still exists, and the caller was not told that it
\* failed.
THEOREM WholeRequests == Spec => []AllOrNothing
<1>1. Atomic => AllOrNothing
  BY DEF Atomic, OneRequest, Finished, Complete, AllOrNothing
<1> QED
  BY <1>1, Atomicity, PTL

\* An answer below 500 is given only to requests of which nothing is in the
\* database: those that failed, since a lost acknowledgement is answered 500.
THEOREM Verdicts == Spec => []ClientErrorsAreFinal
<1>1. TypeInv /\ AllOrNothing => ClientErrorsAreFinal
  <2> SUFFICES ASSUME TypeInv, AllOrNothing, NEW r \in Requests, NEW e \in Thrown(r), Status(e) < 500
               PROVE  ~TraceOf(r)
    BY DEF ClientErrorsAreFinal
  <2>1. result[r] \in Failures \/ result[r] \in {"none", "ok", "lost"}
    BY DEF TypeInv, TypeOK, Results
  <2>2. result[r] \notin {"none", "ok"}
    BY DEF Thrown
  <2>3. ASSUME result[r] = "lost" PROVE FALSE
    <3>1. e \in Unacknowledged
      BY <2>3 DEF Thrown
    <3>2. Status(e) = 500
      BY <3>1 DEF Unacknowledged, Prisma, PlainError, Status, PrismaStatus, Conflicts, Missing, BadData
    <3> QED
      BY <3>2
  <2> QED
    BY <2>1, <2>2, <2>3 DEF AllOrNothing
<1> QED
  BY <1>1, TypeInvariance, WholeRequests, PTL

\* No crash and no later request undoes what a caller was told succeeded.
THEOREM Durability == Spec => []AckedIsDurable
<1>1. Atomic => AckedIsDurable
  BY DEF Atomic, OneRequest, Finished, Complete, AckedIsDurable
<1> QED
  BY <1>1, Atomicity, PTL

-----------------------------------------------------------------------------
(***************************************************************************)
(* The account tables implement the directory: a commit enrols, a removal  *)
(* dissolves, and no other step is visible.                                *)
(***************************************************************************)

\* A commit is one step of the directory: all the accounts of one request at
\* once, with addresses nobody has and organizations that exist.
LEMMA CommitEnrols ==
  ASSUME TypeInv, Integrity, Atomic, NEW r \in Requests, Commit(r) \/ CommitUnacked(r)
  PROVE  Dir!Enroll(r)
<1>1. /\ pc[r] = "commit"
      /\ orgs' = orgs \cup pendOrgs[r] /\ users' = users \cup pendUsers[r]
  BY DEF Commit, CommitUnacked, Apply
<1>2. OneRequest(r)
  BY DEF Atomic
<1>3. orgs' = orgs \/ orgs' = orgs \cup {r}
  BY <1>1, <1>2 DEF OneRequest, PendingOwn
<1>4. r \notin orgs /\ \A u \in users : u.id[1] # r
  BY <1>1, <1>2 DEF OneRequest, Untouched, TraceOf, RowsOf, Committed
<1>5. r \in orgs' => \E u \in users' : u.org = r
  <2> SUFFICES ASSUME r \in orgs' PROVE \E u \in users' : u.org = r
    OBVIOUS
  <2>1. Kind(r) \in Founders
    BY <1>1, <1>2, <1>4 DEF OneRequest, PendingOwn
  <2>2. PICK u \in pendUsers[r] : u.org = OrgAt(r, 1)
    BY <1>1, CommitHasAll DEF PendingRow
  <2> QED
    BY <1>1, <2>1, <2>2 DEF OrgAt
<1>6. ASSUME NEW u \in users' \ users
      PROVE  /\ u.id[1] = r
             /\ u.org \in orgs'
             /\ \A v \in users' : v.email = u.email => v = u
  <2>1. u \in pendUsers[r]
    BY <1>1
  <2>2. u.id[1] = r
    BY <1>2, <2>1 DEF OneRequest, PendingOwn
  <2>3. u.org \in orgs'
    BY <1>1, <2>1 DEF Integrity, PendingHosted, VisibleOrgs
  <2>4. ASSUME NEW v \in users', v.email = u.email PROVE v = u
    BY <1>1, <2>1, <2>4 DEF Integrity, PendingUncommitted, PendingApart
  <2> QED
    BY <2>2, <2>3, <2>4
<1>7. users \subseteq users'
  BY <1>1
<1> QED
  BY <1>3, <1>4, <1>5, <1>6, <1>7 DEF Dir!Enroll

\* Every step is a step of the directory or invisible to it.
LEMMA DirectoryStep ==
  TypeInv /\ Integrity /\ Atomic /\ [Next]_vars => [Dir!Next]_(Dir!dirVars)
<1> SUFFICES ASSUME TypeInv, Integrity, Atomic, [Next]_vars
             PROVE  Dir!Next \/ UNCHANGED Dir!dirVars
  OBVIOUS
<1>1. ASSUME NEW r \in Requests, Commit(r) \/ CommitUnacked(r) PROVE Dir!Next
  BY <1>1, CommitEnrols DEF Dir!Next
<1>2. ASSUME NEW o \in OrgIds, RemoveOrg(o) PROVE Dir!Next
  <2>1. Dir!Dissolve(o)
    BY <1>2 DEF RemoveOrg, Dir!Dissolve
  <2> QED
    BY <2>1 DEF Dir!Next, Dir!OrgIds, OrgIds
<1>3. ASSUME NEW r \in Requests,
             Submit(r) \/ CountUsers(r) \/ CountOrgs(r) \/ NewOrg(r) \/ FindOrg(r)
             \/ FindUser(r) \/ Insert(r) \/ WelcomeEmail(r) \/ Abort(r)
      PROVE  UNCHANGED <<orgs, users>>
  BY <1>3
  DEF Submit, CountUsers, CountOrgs, NewOrg, FindOrg, FindUser, Insert, WelcomeEmail, Abort, Fail
<1>4. CASE Crash \/ UNCHANGED vars
  BY <1>4 DEF Crash, vars, Dir!dirVars
<1> QED
  BY <1>1, <1>2, <1>3, <1>4 DEF Next, Step, Dir!dirVars

\* To a caller who never sees a transaction, requests enrol in one step each.
THEOREM Directory == Spec => ImplementsDirectory
<1>1. Init => Dir!Init
  BY DEF Init, Dir!Init
<1> QED
  BY <1>1, DirectoryStep, TypeInvariance, Consistent, Atomicity, PTL
  DEF Spec, ImplementsDirectory, Dir!Spec
=============================================================================
