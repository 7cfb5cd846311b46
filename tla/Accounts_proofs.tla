-------------------------- MODULE Accounts_proofs --------------------------
(***************************************************************************)
(* Proofs about Accounts for every set of requests, addresses and seeded   *)
(* organizations, every batch size and any number of crashes.              *)
(***************************************************************************)
EXTENDS Accounts, TLAPS

(***************************************************************************)
(* Type correctness.  TypeOK alone is not inductive: the row an INSERT     *)
(* writes is read from the item the loop is at, so the cursor must be      *)
(* inside the batch for as long as the request runs.                       *)
(***************************************************************************)
Cursor == \A r \in Requests :
            /\ pc[r] = "idle"  => pos[r] = 1
            /\ pc[r] \in Active => input[r] \in Input /\ pos[r] \in 1..LastItem(r)

TypeInv == TypeOK /\ Cursor

\* A request that passes the checks before its first database call starts at
\* a database call and has an item to work on.
LEMMA Accepted ==
  ASSUME NEW in \in Inputs, isMockMode \in BOOLEAN
  PROVE  /\ in \in Input
         /\ Refusal(in) \in Results
         /\ FirstStep(in.kind) \in DbSteps
         /\ Refusal(in) = "none" => Len(in.items) \in Nat /\ 1 <= Len(in.items)
<1>1. in \in Input /\ (in.kind # "bulk" => Len(in.items) = 1)
  BY AccountsAssumption
<1>2. Len(in.items) \in Nat
  BY <1>1 DEF Input
<1>3. Refusal(in) = "none" /\ in.kind = "bulk" => Len(in.items) \in 1..MaxBatch
  BY DEF Refusal
<1>4. Refusal(in) \in Results
  BY DEF Refusal, Results, Failures
<1>5. FirstStep(in.kind) \in DbSteps
  BY DEF FirstStep, DbSteps, TxSteps
<1>6. ASSUME Refusal(in) = "none" PROVE 1 <= Len(in.items)
  <2>1. CASE in.kind = "bulk"
    <3>1. Len(in.items) \in 1..MaxBatch /\ MaxBatch \in Nat
      BY <1>3, <1>6, <2>1, AccountsAssumption
    <3> QED
      BY <1>2, <3>1
  <2>2. CASE in.kind # "bulk"
    <3>1. Len(in.items) = 1
      BY <1>1, <2>2
    <3> QED
      BY <1>2, <3>1
  <2> QED
    BY <2>1, <2>2
<1> QED
  BY <1>1, <1>2, <1>4, <1>5, <1>6

\* The row written by a running request is a row of the user table, and its
\* organization an organization id.
LEMMA RowTyped ==
  ASSUME TypeInv, NEW r \in Requests, pc[r] \in Active
  PROVE  Row(r) \in UserRow /\ Org(r) \in OrgIds
<1>1. input[r] \in Input /\ pos[r] \in 1..Len(input[r].items)
  BY DEF TypeInv, Cursor, LastItem
<1>2. input[r].items[pos[r]] \in Item
  BY <1>1 DEF Input
<1>3. Org(r) \in OrgIds
  BY <1>2 DEF Org, OrgAt, OrgIds, Item
<1>4. Email(r) \in Emails
  BY <1>2 DEF Email, Item
<1>5. pos[r] \in Nat \ {0}
  BY DEF TypeInv, TypeOK
<1> QED
  BY <1>3, <1>4, <1>5 DEF Row, UserRow

\* A failed call leaves every variable typed and the cursor of a finished
\* request unconstrained.
LEMMA FailTyped ==
  ASSUME TypeInv, NEW r \in Requests, NEW why \in Failures, Fail(r, why)
  PROVE  TypeInv'
<1>1. TypeOK'
  BY DEF Fail, Goto, TypeInv, TypeOK, Results
<1>2. Cursor'
  <2> SUFFICES ASSUME NEW q \in Requests
               PROVE  /\ pc'[q] = "idle"  => pos'[q] = 1
                      /\ pc'[q] \in Active => input'[q] \in Input /\ pos'[q] \in 1..Len(input'[q].items)
    BY DEF Cursor, LastItem
  <2>1. pc'[q] = pc[q] \/ pc'[q] = "done"
    BY DEF Fail, Goto, TypeInv, TypeOK
  <2>2. input' = input /\ pos' = pos
    BY DEF Fail
  <2> QED
    BY <2>1, <2>2 DEF TypeInv, Cursor, LastItem, Active, DbSteps, TxSteps
<1> QED
  BY <1>1, <1>2 DEF TypeInv

\* A request that goes on to another step without moving its cursor keeps it
\* inside the batch.
LEMMA GotoKeepsCursor ==
  ASSUME TypeInv, NEW r \in Requests, pc[r] \in Active,
         NEW step \in Active \cup {"done"}, Goto(r, step),
         UNCHANGED <<input, pos>>
  PROVE  Cursor' /\ pc' \in [Requests -> Active \cup {"idle", "done"}]
<1>1. pc' \in [Requests -> Active \cup {"idle", "done"}]
  BY DEF Goto, TypeInv, TypeOK
<1>2. ASSUME NEW q \in Requests
      PROVE  /\ pc'[q] = "idle"  => pos[q] = 1
             /\ pc'[q] \in Active => input[q] \in Input /\ pos[q] \in 1..Len(input[q].items)
  <2>1. CASE q = r
    BY <2>1 DEF Goto, TypeInv, TypeOK, Cursor, LastItem, Active, DbSteps, TxSteps
  <2>2. CASE q # r
    BY <2>2 DEF Goto, TypeInv, TypeOK, Cursor, LastItem
  <2> QED
    BY <2>1, <2>2
<1> QED
  BY <1>1, <1>2 DEF Cursor, LastItem

\* Every request, row and flag keeps its type through all interleavings,
\* aborts, crashes and removals.
LEMMA TypeStep == TypeInv /\ [Next]_vars => TypeInv'
<1> SUFFICES ASSUME TypeInv, [Next]_vars PROVE TypeInv'
  OBVIOUS
<1>0. TypeOK /\ Cursor
  BY DEF TypeInv
<1>1. ASSUME NEW r \in Requests, Submit(r) PROVE TypeInv'
  <2>1. PICK in \in Inputs :
          /\ input' = [input EXCEPT ![r] = in]
          /\ result' = [result EXCEPT ![r] = Refusal(in)]
          /\ Goto(r, IF Refusal(in) = "none" THEN FirstStep(in.kind) ELSE "done")
    BY <1>1 DEF Submit
  <2>2. /\ in \in Input
        /\ Refusal(in) \in Results
        /\ FirstStep(in.kind) \in DbSteps
        /\ Refusal(in) = "none" => Len(in.items) \in Nat /\ 1 <= Len(in.items)
    BY <1>0, Accepted DEF TypeOK
  <2>3. TypeOK'
    BY <1>0, <1>1, <2>1, <2>2 DEF TypeOK, Submit, Goto, txVars, Active
  <2>4. ASSUME NEW q \in Requests
        PROVE  /\ pc'[q] = "idle"  => pos'[q] = 1
               /\ pc'[q] \in Active => input'[q] \in Input /\ pos'[q] \in 1..Len(input'[q].items)
    <3>1. pos' = pos /\ pos[r] = 1
      BY <1>0, <1>1 DEF Submit, Cursor
    <3>2. CASE q = r
      BY <1>0, <2>1, <2>2, <3>1, <3>2 DEF TypeOK, Goto, Active, DbSteps, TxSteps
    <3>3. CASE q # r
      BY <1>0, <2>1, <3>1, <3>3 DEF TypeOK, Cursor, LastItem, Goto
    <3> QED
      BY <3>2, <3>3
  <2> QED
    BY <2>3, <2>4 DEF TypeInv, Cursor, LastItem
<1>2. ASSUME NEW r \in Requests, CountUsers(r) PROVE TypeInv'
  <2>1. Cursor' /\ pc' \in [Requests -> Active \cup {"idle", "done"}]
    BY <1>2, GotoKeepsCursor DEF CountUsers, Active, DbSteps
  <2> QED
    BY <1>0, <1>2, <2>1 DEF CountUsers, TypeInv, TypeOK, txVars
<1>3. ASSUME NEW r \in Requests, CountOrgs(r) PROVE TypeInv'
  <2>1. CASE Fail(r, "forbidden")
    BY <2>1, FailTyped DEF Failures
  <2>2. CASE Goto(r, "newOrg") /\ UNCHANGED <<orgs, users, txVars, input, pos, seen, result, isMockMode, crashes>>
    <3>1. Cursor' /\ pc' \in [Requests -> Active \cup {"idle", "done"}]
      BY <1>3, <2>2, GotoKeepsCursor DEF CountOrgs, Active, DbSteps, TxSteps
    <3> QED
      BY <1>0, <2>2, <3>1 DEF TypeInv, TypeOK, txVars
  <2> QED
    BY <1>3, <2>1, <2>2 DEF CountOrgs
<1>4. ASSUME NEW r \in Requests, NewOrg(r) PROVE TypeInv'
  <2>1. Cursor' /\ pc' \in [Requests -> Active \cup {"idle", "done"}]
    BY <1>4, GotoKeepsCursor DEF NewOrg, AfterOrg, Active, DbSteps, TxSteps
  <2>2. Org(r) \in OrgIds
    BY <1>4, RowTyped DEF NewOrg, Active, DbSteps, TxSteps
  <2> QED
    BY <1>0, <1>4, <2>1, <2>2 DEF NewOrg, TypeInv, TypeOK
<1>5. ASSUME NEW r \in Requests, FindOrg(r) PROVE TypeInv'
  <2>1. CASE Fail(r, "no_org")
    BY <2>1, FailTyped DEF Failures
  <2>2. CASE Goto(r, AfterOrg(Kind(r))) /\ UNCHANGED <<orgs, users, txVars, input, pos, seen, result, isMockMode, crashes>>
    <3>1. Cursor' /\ pc' \in [Requests -> Active \cup {"idle", "done"}]
      BY <1>5, <2>2, GotoKeepsCursor DEF FindOrg, AfterOrg, Active, DbSteps, TxSteps
    <3> QED
      BY <1>0, <2>2, <3>1 DEF TypeInv, TypeOK, txVars
  <2> QED
    BY <1>5, <2>1, <2>2 DEF FindOrg
<1>6. ASSUME NEW r \in Requests, FindUser(r) PROVE TypeInv'
  <2>1. CASE Fail(r, "email_taken")
    BY <2>1, FailTyped DEF Failures
  <2>2. CASE Goto(r, "insert") /\ UNCHANGED <<orgs, users, txVars, input, pos, seen, result, isMockMode, crashes>>
    <3>1. Cursor' /\ pc' \in [Requests -> Active \cup {"idle", "done"}]
      BY <1>6, <2>2, GotoKeepsCursor DEF FindUser, Active, DbSteps, TxSteps
    <3> QED
      BY <1>0, <2>2, <3>1 DEF TypeInv, TypeOK, txVars
  <2> QED
    BY <1>6, <2>1, <2>2 DEF FindUser
<1>7. ASSUME NEW r \in Requests, Insert(r) PROVE TypeInv'
  <2>1. CASE Fail(r, "email_taken") \/ Fail(r, "no_org")
    BY <2>1, FailTyped DEF Failures
  <2>2. ASSUME pendUsers' = [pendUsers EXCEPT ![r] = @ \cup {Row(r)}],
               UNCHANGED <<orgs, users, pendOrgs, input, seen, result, isMockMode, crashes>>,
               pc[r] = "insert"
        PROVE  pendUsers' \in [Requests -> SUBSET UserRow]
    <3>1. Row(r) \in UserRow
      BY <2>2, RowTyped DEF Active, DbSteps, TxSteps
    <3> QED
      BY <1>0, <2>2, <3>1 DEF TypeOK
  <2>3. CASE /\ pendUsers' = [pendUsers EXCEPT ![r] = @ \cup {Row(r)}]
             /\ UNCHANGED <<orgs, users, pendOrgs, input, seen, result, isMockMode, crashes>>
             /\ pos[r] < LastItem(r)
             /\ pos' = [pos EXCEPT ![r] = @ + 1]
             /\ Goto(r, "findOrg")
    <3>1. pc[r] \in Active /\ pc[r] = "insert"
      BY <1>7 DEF Insert, Active, DbSteps, TxSteps
    <3>2. input[r] \in Input /\ pos[r] \in Nat \ {0} /\ Len(input[r].items) \in Nat
      BY <1>0, <3>1 DEF Cursor, TypeOK, Input
    <3>3. TypeOK'
      BY <1>0, <2>2, <2>3, <3>1, <3>2 DEF TypeOK, Goto, Active, DbSteps, TxSteps
    <3>4. ASSUME NEW q \in Requests
          PROVE  /\ pc'[q] = "idle"  => pos'[q] = 1
                 /\ pc'[q] \in Active => input'[q] \in Input /\ pos'[q] \in 1..Len(input'[q].items)
      <4>1. CASE q = r
        BY <1>0, <2>3, <3>1, <3>2, <4>1 DEF TypeOK, Goto, LastItem
      <4>2. CASE q # r
        BY <1>0, <2>3, <4>2 DEF TypeOK, Goto, Cursor, LastItem
      <4> QED
        BY <4>1, <4>2
    <3> QED
      BY <3>3, <3>4 DEF TypeInv, Cursor, LastItem
  <2>4. CASE /\ pendUsers' = [pendUsers EXCEPT ![r] = @ \cup {Row(r)}]
             /\ UNCHANGED <<orgs, users, pendOrgs, input, seen, result, isMockMode, crashes>>
             /\ Goto(r, "commit")
             /\ pos' = pos
    <3>1. pc[r] \in Active /\ pc[r] = "insert"
      BY <1>7 DEF Insert, Active, DbSteps, TxSteps
    <3>2. Cursor' /\ pc' \in [Requests -> Active \cup {"idle", "done"}]
      BY <2>4, <3>1, GotoKeepsCursor DEF Active, DbSteps, TxSteps
    <3> QED
      BY <1>0, <2>2, <2>4, <3>1, <3>2 DEF TypeInv, TypeOK
  <2> QED
    BY <1>7, <2>1, <2>3, <2>4 DEF Insert
<1>8. ASSUME NEW r \in Requests, Commit(r) \/ CommitUnacked(r) PROVE TypeInv'
  <2>1. Apply(r) /\ pc[r] = "commit"
    BY <1>8 DEF Commit, CommitUnacked
  <2>2. /\ orgs' \subseteq OrgIds /\ users' \subseteq UserRow
        /\ pendOrgs' \in [Requests -> SUBSET OrgIds]
        /\ pendUsers' \in [Requests -> SUBSET UserRow]
    BY <1>0, <2>1 DEF Apply, TypeOK
  <2>3. Cursor' /\ pc' \in [Requests -> Active \cup {"idle", "done"}]
    BY <1>8, <2>1, GotoKeepsCursor DEF Commit, CommitUnacked, Apply, Active, DbSteps, TxSteps
  <2>4. result' \in [Requests -> Results]
    BY <1>0, <1>8 DEF Commit, CommitUnacked, TypeOK, Results
  <2> QED
    BY <1>0, <2>1, <2>2, <2>3, <2>4 DEF TypeInv, TypeOK, Apply
<1>9. ASSUME NEW r \in Requests, WelcomeEmail(r) PROVE TypeInv'
  <2>1. Cursor' /\ pc' \in [Requests -> Active \cup {"idle", "done"}]
    BY <1>9, GotoKeepsCursor DEF WelcomeEmail, Active
  <2> QED
    BY <1>0, <1>9, <2>1 DEF WelcomeEmail, TypeInv, TypeOK, txVars, Results
<1>10. ASSUME NEW r \in Requests, Abort(r) PROVE TypeInv'
  BY <1>10, FailTyped DEF Abort, Failures
<1>11. CASE Crash
  <2>1. TypeOK'
    BY <1>0, <1>11, AccountsAssumption DEF Crash, TypeOK, Results
  <2>2. \A q \in Requests : pc'[q] = pc[q] \/ pc'[q] = "done"
    BY <1>11 DEF Crash
  <2>3. Cursor'
    BY <1>0, <1>11, <2>2 DEF Crash, Cursor, LastItem, Active, DbSteps, TxSteps
  <2> QED
    BY <2>1, <2>3 DEF TypeInv
<1>12. ASSUME NEW o \in OrgIds, RemoveOrg(o) PROVE TypeInv'
  BY <1>0, <1>12 DEF RemoveOrg, TypeInv, TypeOK, Cursor, LastItem, txVars, reqVars
<1>13. CASE UNCHANGED vars
  BY <1>0, <1>13 DEF vars, txVars, reqVars, TypeInv, TypeOK, Cursor, LastItem
<1> QED
  BY <1>1, <1>2, <1>3, <1>4, <1>5, <1>6, <1>7, <1>8, <1>9, <1>10, <1>11, <1>12, <1>13 DEF Next, Step

\* The types and the cursor together are invariant.
LEMMA TypeInvariance == Spec => []TypeInv
<1>1. Init => TypeInv
  BY AccountsAssumption
  DEF Init, TypeInv, TypeOK, Cursor, OrgIds, Results, Active, DbSteps, TxSteps
<1> QED
  BY <1>1, TypeStep, PTL DEF Spec

\* Requests, rows, organizations and flags keep to their types whatever
\* interleaves, aborts, crashes or is removed.
THEOREM Typing == Spec => []TypeOK
<1>1. TypeInv => TypeOK
  BY DEF TypeInv
<1> QED
  BY <1>1, TypeInvariance, PTL

-----------------------------------------------------------------------------
(***************************************************************************)
(* Integrity of the tables.  What is committed is only as good as what is  *)
(* about to be: the inductive invariant speaks of the rows of the open     *)
(* transactions as well.                                                   *)
(***************************************************************************)

\* No open transaction holds an address that is committed, ...
PendingUncommitted ==
  \A r \in Requests : \A u \in pendUsers[r], v \in users : u.email # v.email

\* ... no two of them, and no two rows of one, hold the same address, ...
PendingApart ==
  \A r, q \in Requests : \A u \in pendUsers[r], v \in pendUsers[q] :
    u.email = v.email => u = v /\ r = q

\* ... and each of their rows has an organization they can see.
PendingHosted ==
  \A r \in Requests : \A u \in pendUsers[r] : u.org \in VisibleOrgs(r)

Integrity ==
  EmailsUnique /\ PendingUncommitted /\ PendingApart /\ NoOrphanUsers /\ PendingHosted

\* Any exception rolls back, which disturbs nobody.
LEMMA FailKeepsIntegrity ==
  ASSUME TypeInv, Integrity, NEW r \in Requests, NEW why, Fail(r, why)
  PROVE  Integrity'
<1>1. \A q \in Requests : /\ pendUsers'[q] = {} \/ (pendUsers'[q] = pendUsers[q] /\ q # r)
                          /\ q # r => pendOrgs'[q] = pendOrgs[q]
  BY DEF Fail, TypeInv, TypeOK
<1>2. UNCHANGED <<orgs, users>>
  BY DEF Fail
<1> QED
  BY <1>1, <1>2
  DEF Integrity, EmailsUnique, PendingUncommitted, PendingApart, NoOrphanUsers, PendingHosted, VisibleOrgs

\* An insert that neither failed nor waited took an address nobody has.
LEMMA InsertKeepsIntegrity ==
  ASSUME TypeInv, Integrity, NEW r \in Requests,
         ~Taken(r), ~Contended(r), Org(r) \in VisibleOrgs(r),
         pendUsers' = [pendUsers EXCEPT ![r] = @ \cup {Row(r)}],
         UNCHANGED <<orgs, users, pendOrgs>>
  PROVE  Integrity'
<1>1. \A q \in Requests : pendUsers'[q] = IF q = r THEN pendUsers[r] \cup {Row(r)} ELSE pendUsers[q]
  BY DEF TypeInv, TypeOK
<1>2. Row(r).email = Email(r) /\ Row(r).org = Org(r)
  BY DEF Row
<1>3. \A v \in users \cup pendUsers[r] : v.email # Email(r)
  BY DEF Taken, VisibleUsers
<1>4. \A q \in Requests \ {r} : \A v \in pendUsers[q] : v.email # Email(r)
  BY DEF Contended
<1>5. PendingUncommitted'
  BY <1>1, <1>2, <1>3 DEF Integrity, PendingUncommitted
<1>6. PendingApart'
  BY <1>1, <1>2, <1>3, <1>4 DEF Integrity, PendingApart
<1>7. PendingHosted'
  BY <1>1, <1>2 DEF Integrity, PendingHosted, VisibleOrgs
<1>8. EmailsUnique' /\ NoOrphanUsers'
  BY DEF Integrity, EmailsUnique, NoOrphanUsers
<1> QED
  BY <1>5, <1>6, <1>7, <1>8 DEF Integrity

\* A commit, acknowledged or not, moves rows that clash with no others.
LEMMA ApplyKeepsIntegrity ==
  ASSUME TypeInv, Integrity, NEW r \in Requests, Apply(r)
  PROVE  Integrity'
<1>1. \A q \in Requests : /\ pendUsers'[q] = IF q = r THEN {} ELSE pendUsers[q]
                          /\ pendOrgs'[q] = IF q = r THEN {} ELSE pendOrgs[q]
  BY DEF Apply, TypeInv, TypeOK
<1>2. orgs' = orgs \cup pendOrgs[r] /\ users' = users \cup pendUsers[r]
  BY DEF Apply
<1>3. EmailsUnique'
  BY <1>2 DEF Integrity, EmailsUnique, PendingUncommitted, PendingApart
<1>4. PendingUncommitted'
  BY <1>1, <1>2 DEF Integrity, PendingUncommitted, PendingApart
<1>5. PendingApart'
  BY <1>1 DEF Integrity, PendingApart
<1>6. NoOrphanUsers' /\ PendingHosted'
  BY <1>1, <1>2 DEF Integrity, NoOrphanUsers, PendingHosted, VisibleOrgs
<1> QED
  BY <1>3, <1>4, <1>5, <1>6 DEF Integrity

\* Every step of every request, every crash and every removal keeps the
\* tables and the open transactions consistent.
LEMMA IntegrityStep == TypeInv /\ Integrity /\ [Next]_vars => Integrity'
<1> SUFFICES ASSUME TypeInv, Integrity, [Next]_vars PROVE Integrity'
  OBVIOUS
<1>1. ASSUME UNCHANGED <<orgs, users, pendOrgs, pendUsers>> PROVE Integrity'
  BY <1>1
  DEF Integrity, EmailsUnique, PendingUncommitted, PendingApart, NoOrphanUsers, PendingHosted, VisibleOrgs
<1>2. ASSUME NEW r \in Requests, Submit(r) \/ CountUsers(r) \/ WelcomeEmail(r) PROVE Integrity'
  BY <1>1, <1>2 DEF Submit, CountUsers, WelcomeEmail, txVars
<1>3. ASSUME NEW r \in Requests, CountOrgs(r) \/ FindOrg(r) \/ FindUser(r) \/ Abort(r)
      PROVE  Integrity'
  BY <1>1, <1>3, FailKeepsIntegrity DEF CountOrgs, FindOrg, FindUser, Abort, txVars
<1>4. ASSUME NEW r \in Requests, NewOrg(r) PROVE Integrity'
  <2>1. \A q \in Requests : pendOrgs[q] \subseteq pendOrgs'[q]
    BY <1>4 DEF NewOrg, TypeInv, TypeOK
  <2> QED
    BY <1>4, <2>1
    DEF NewOrg, Integrity, EmailsUnique, PendingUncommitted, PendingApart, NoOrphanUsers, PendingHosted, VisibleOrgs
<1>5. ASSUME NEW r \in Requests, Insert(r) PROVE Integrity'
  BY <1>5, FailKeepsIntegrity, InsertKeepsIntegrity DEF Insert
<1>6. ASSUME NEW r \in Requests, Commit(r) \/ CommitUnacked(r) PROVE Integrity'
  BY <1>6, ApplyKeepsIntegrity DEF Commit, CommitUnacked
<1>7. CASE Crash
  <2>1. (\A q \in Requests : pendUsers'[q] = {}) /\ UNCHANGED <<orgs, users>>
    BY <1>7 DEF Crash
  <2> QED
    BY <2>1
    DEF Integrity, EmailsUnique, PendingUncommitted, PendingApart, NoOrphanUsers, PendingHosted
<1>8. ASSUME NEW o \in OrgIds, RemoveOrg(o) PROVE Integrity'
  <2>1. /\ users' = {u \in users : u.org # o} /\ orgs' = orgs \ {o}
        /\ UNCHANGED <<pendOrgs, pendUsers>>
        /\ \A r \in Requests : \A u \in pendUsers[r] : u.org # o
    BY <1>8 DEF RemoveOrg, txVars
  <2> QED
    BY <2>1
    DEF Integrity, EmailsUnique, PendingUncommitted, PendingApart, NoOrphanUsers, PendingHosted, VisibleOrgs
<1>9. CASE UNCHANGED vars
  BY <1>1, <1>9 DEF vars, txVars
<1> QED
  BY <1>2, <1>3, <1>4, <1>5, <1>6, <1>7, <1>8, <1>9 DEF Next, Step

\* The tables and the open transactions are consistent at all times.
THEOREM Consistent == Spec => []Integrity
<1>1. Init => Integrity
  BY DEF Init, Integrity, EmailsUnique, PendingUncommitted, PendingApart, NoOrphanUsers, PendingHosted
<1> QED
  BY <1>1, IntegrityStep, TypeInvariance, PTL DEF Spec

\* No two accounts ever share an email address, whichever registration paths
\* race.
THEOREM Uniqueness == Spec => []EmailsUnique
<1>1. Integrity => EmailsUnique
  BY DEF Integrity
<1> QED
  BY <1>1, Consistent, PTL

\* No account ever outlives its organization.
THEOREM Hosting == Spec => []NoOrphanUsers
<1>1. Integrity => NoOrphanUsers
  BY DEF Integrity
<1> QED
  BY <1>1, Consistent, PTL

\* The two counts of setupSystem are as good as one: when the second lets the
\* set-up go ahead, both tables are empty at that moment.
THEOREM CountsAgree == Spec => SetupChecksFresh
<1>1. TypeInv /\ Integrity /\ [Next]_vars =>
        [\A r \in Requests : pc[r] = "countOrgs" /\ pc'[r] = "newOrg"
           => orgs = {} /\ users = {}]_vars
  <2> SUFFICES ASSUME TypeInv, Integrity, Next,
                      NEW r \in Requests, pc[r] = "countOrgs", pc'[r] = "newOrg"
               PROVE  orgs = {} /\ users = {}
    OBVIOUS
  <2>1. ASSUME NEW q \in Requests, NEW step, Goto(q, step)
        PROVE  q = r /\ step = "newOrg"
    BY <2>1 DEF Goto, TypeInv, TypeOK
  <2>2. CountOrgs(r)
    <3>1. ASSUME NEW q \in Requests, Submit(q) PROVE FALSE
      BY <2>1, <3>1 DEF Submit
    <3>2. ASSUME NEW q \in Requests, Step(q) PROVE CountOrgs(r)
      BY <2>1, <3>2
      DEF Step, CountUsers, NewOrg, FindOrg, FindUser, Insert, Commit, WelcomeEmail, CountOrgs, Fail
    <3>3. ASSUME NEW q \in Requests, CommitUnacked(q) \/ Abort(q) PROVE FALSE
      BY <2>1, <3>3 DEF CommitUnacked, Abort, Fail
    <3>4. ASSUME NEW o \in OrgIds, RemoveOrg(o) PROVE FALSE
      BY <3>4 DEF RemoveOrg, reqVars
    <3>5. CASE Crash
      BY <3>5 DEF Crash, TypeInv, TypeOK
    <3> QED
      BY <3>1, <3>2, <3>3, <3>4, <3>5 DEF Next
  <2>3. orgs = {}
    BY <2>1, <2>2 DEF CountOrgs, Fail
  <2> QED
    BY <2>3 DEF Integrity, NoOrphanUsers
<1> QED
  BY <1>1, TypeInvariance, Consistent, PTL DEF Spec, SetupChecksFresh
=============================================================================
