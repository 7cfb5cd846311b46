------------------------------ MODULE Accounts ------------------------------
(***************************************************************************)
(* Creation of organizations and user accounts: the set-up of a fresh      *)
(* system (BootstrapService.setupSystem), the four ways to register users  *)
(* (AuthService.register, bulkRegister, registerWithOrganization and       *)
(* PrismaUsersRepository.create) and the removal of an organization.       *)
(*                                                                         *)
(* A request runs as a sequence of awaited database calls; between two of  *)
(* them any other request, a crash of the server or an abort of the        *)
(* transaction may happen.  The interactive transactions run at            *)
(* PostgreSQL's default isolation level (no call passes another one): a    *)
(* statement sees what is committed when it runs, plus the transaction's   *)
(* own writes, which stay private in pendOrgs and pendUsers until commit.  *)
(***************************************************************************)
EXTENDS ErrorMapping, FiniteSets, Sequences

CONSTANTS
  Requests,    \* HTTP requests, each submitted at most once
  Emails,      \* email addresses
  SeedOrgs,    \* organizations a system in use starts with
  Inputs,      \* what requests may carry: [kind, items], items : Seq([email, org])
  MaxBatch,    \* most users one bulkRegister accepts (100 in the code)
  MaxCrashes   \* bound on the crashes of the server process

(***************************************************************************)
(* "join" and "found" are registerWithOrganization without and with an     *)
(* organizationDto.  A request that creates an organization lends it its   *)
(* own identity (a fresh cuid); the org of its only item is not used.      *)
(***************************************************************************)
Kinds    == {"setup", "register", "create", "bulk", "join", "found"}
Founders == {"setup", "found"}
OrgIds   == SeedOrgs \cup Requests
Item     == [email : Emails, org : OrgIds]
Input    == [kind : Kinds, items : Seq(Item)]
NoInput  == [kind |-> "none", items |-> <<>>]   \* not submitted yet

ASSUME AccountsAssumption ==
  /\ SeedOrgs \cap Requests = {}
  /\ MaxBatch \in Nat
  /\ MaxCrashes \in Nat
  /\ \A in \in Inputs : /\ in \in Input
                        /\ in.kind # "bulk" => Len(in.items) = 1

VARIABLES
  orgs,        \* committed organizations
  users,       \* committed user rows
  pendOrgs,    \* pendOrgs[r]: organizations inserted by r's open transaction
  pendUsers,   \* pendUsers[r]: user rows inserted by r's open transaction
  input,       \* input[r]: what the request carries
  pc,          \* pc[r]: the awaited call the request is at
  pos,         \* pos[r]: the item a registration is working on
  seen,        \* seen[r]: set-up's count of the users was positive
  result,      \* result[r]: the answer
  isMockMode,  \* PrismaService: the connection failed when the server started
  crashes      \* crashes so far (bounded by MaxCrashes)

txVars  == <<pendOrgs, pendUsers>>
reqVars == <<input, pc, pos, seen, result>>
vars    == <<orgs, users, txVars, reqVars, isMockMode, crashes>>

TxSteps == {"newOrg", "findOrg", "findUser", "insert", "commit"}
DbSteps == TxSteps \cup {"countUsers", "countOrgs"}
Active  == DbSteps \cup {"email"}

Failures == {"mock_mode", "forbidden", "rejected", "no_org", "email_taken", "db_error"}
Results  == Failures \cup {"none", "ok", "lost"}

UserRow == [id : Requests \X (Nat \ {0}), email : Emails, org : OrgIds,
            role : {"SUPER_ADMIN", "USER"}, hashed : BOOLEAN]

TypeOK ==
  /\ orgs \subseteq OrgIds
  /\ users \subseteq UserRow
  /\ pendOrgs \in [Requests -> SUBSET OrgIds]
  /\ pendUsers \in [Requests -> SUBSET UserRow]
  /\ input \in [Requests -> Input \cup {NoInput}]
  /\ pc \in [Requests -> Active \cup {"idle", "done"}]
  /\ pos \in [Requests -> Nat \ {0}]
  /\ seen \in [Requests -> BOOLEAN]
  /\ result \in [Requests -> Results]
  /\ isMockMode \in BOOLEAN
  /\ crashes \in 0..MaxCrashes

-----------------------------------------------------------------------------
(* Helpers *)

Kind(r)     == input[r].kind
Email(r)    == input[r].items[pos[r]].email
OrgAt(r, i) == IF Kind(r) \in Founders THEN r ELSE input[r].items[i].org
Org(r)      == OrgAt(r, pos[r])

\* Mutant: the role is taken from the caller.
RowWithCallersRole(r) ==
  [id |-> <<r, pos[r]>>, email |-> Email(r), org |-> Org(r), role |-> "ADMIN", hashed |-> TRUE]

\* The row that request r inserts for its current item.
Row(r) == [id     |-> <<r, pos[r]>>,
           email  |-> Email(r),
           org    |-> Org(r),
           role   |-> IF Kind(r) = "setup" THEN "SUPER_ADMIN" ELSE "USER",
           hashed |-> Kind(r) # "create"]

\* What a statement of r's transaction can see.
VisibleOrgs(r)  == orgs \cup pendOrgs[r]
VisibleUsers(r) == users \cup pendUsers[r]
Taken(r)        == \E u \in VisibleUsers(r) : u.email = Email(r)

\* Mutant: no unique index, open transactions do not see each other.
NeverContended(r) == FALSE

\* Another open transaction has inserted the same address: the unique index
\* makes this insert wait until that transaction ends.
Contended(r) == \E q \in Requests \ {r} : \E u \in pendUsers[q] : u.email = Email(r)
Blocked(r)   == pc[r] = "insert" /\ ~Taken(r) /\ Contended(r)

FirstStep(kind) == CASE kind = "setup" -> "countUsers"
                     [] kind = "found" -> "newOrg"
                     [] OTHER          -> "findOrg"

\* setupSystem and register insert without looking for the address first.
AfterOrg(kind) == IF kind \in {"setup", "register"} THEN "insert" ELSE "findUser"

Goto(r, step) == pc' = [pc EXCEPT ![r] = step]

\* An exception leaves the transaction callback: rollback, error answer.
Fail(r, why) ==
  /\ pendOrgs'  = [pendOrgs EXCEPT ![r] = {}]
  /\ pendUsers' = [pendUsers EXCEPT ![r] = {}]
  /\ result' = [result EXCEPT ![r] = why]
  /\ Goto(r, "done")
  /\ UNCHANGED <<orgs, users, input, pos, seen, isMockMode, crashes>>

-----------------------------------------------------------------------------
(* Actions *)

Init ==
  /\ orgs \in {{}, SeedOrgs}     \* a fresh database, or one in use
  /\ users = {}
  /\ pendOrgs  = [r \in Requests |-> {}]
  /\ pendUsers = [r \in Requests |-> {}]
  /\ input  = [r \in Requests |-> NoInput]
  /\ pc     = [r \in Requests |-> "idle"]
  /\ pos    = [r \in Requests |-> 1]
  /\ seen   = [r \in Requests |-> FALSE]
  /\ result = [r \in Requests |-> "none"]
  /\ isMockMode \in BOOLEAN
  /\ crashes = 0

\* The checks a request meets before its first database call.
Refusal(in) == CASE in.kind = "setup" /\ isMockMode -> "mock_mode"
                 [] in.kind = "bulk" /\ Len(in.items) \notin 1..MaxBatch -> "rejected"
                 [] OTHER -> "none"

Submit(r) ==
  /\ pc[r] = "idle"
  /\ \E in \in Inputs :
       /\ input' = [input EXCEPT ![r] = in]
       /\ result' = [result EXCEPT ![r] = Refusal(in)]
       /\ Goto(r, IF Refusal(in) = "none" THEN FirstStep(in.kind) ELSE "done")
  /\ UNCHANGED <<orgs, users, txVars, pos, seen, isMockMode, crashes>>

\* setupSystem counts the users and then, in a second query, the
\* organizations; neither query is part of the transaction that follows.
CountUsers(r) ==
  /\ pc[r] = "countUsers"
  /\ seen' = [seen EXCEPT ![r] = users # {}]
  /\ Goto(r, "countOrgs")
  /\ UNCHANGED <<orgs, users, txVars, input, pos, result, isMockMode, crashes>>

\* Mutant: only the users are counted.
CountUsersOnly(r) ==
  /\ pc[r] = "countOrgs"
  /\ \/ seen[r] /\ Fail(r, "forbidden")
     \/ /\ ~seen[r]
        /\ Goto(r, "newOrg")
        /\ UNCHANGED <<orgs, users, txVars, input, pos, seen, result, isMockMode, crashes>>

CountOrgs(r) ==
  /\ pc[r] = "countOrgs"
  /\ \/ /\ seen[r] \/ orgs # {}
        /\ Fail(r, "forbidden")
     \/ /\ ~seen[r] /\ orgs = {}
        /\ Goto(r, "newOrg")
        /\ UNCHANGED <<orgs, users, txVars, input, pos, seen, result, isMockMode, crashes>>

\* Mutant: the organization is created outside the transaction.
NewOrgOutsideTransaction(r) ==
  /\ pc[r] = "newOrg"
  /\ orgs' = orgs \cup {Org(r)}
  /\ Goto(r, AfterOrg(Kind(r)))
  /\ UNCHANGED <<users, txVars, input, pos, seen, result, isMockMode, crashes>>

NewOrg(r) ==
  /\ pc[r] = "newOrg"
  /\ pendOrgs' = [pendOrgs EXCEPT ![r] = @ \cup {Org(r)}]
  /\ Goto(r, AfterOrg(Kind(r)))
  /\ UNCHANGED <<orgs, users, pendUsers, input, pos, seen, result, isMockMode, crashes>>

\* The look-up of the organization; for register it is Prisma's own, which
\* resolves the nested connect before it inserts.
FindOrg(r) ==
  /\ pc[r] = "findOrg"
  /\ \/ /\ Org(r) \notin VisibleOrgs(r)
        /\ Fail(r, "no_org")
     \/ /\ Org(r) \in VisibleOrgs(r)
        /\ Goto(r, AfterOrg(Kind(r)))
        /\ UNCHANGED <<orgs, users, txVars, input, pos, seen, result, isMockMode, crashes>>

FindUser(r) ==
  /\ pc[r] = "findUser"
  /\ \/ /\ Taken(r)
        /\ Fail(r, "email_taken")
     \/ /\ ~Taken(r)
        /\ Goto(r, "insert")
        /\ UNCHANGED <<orgs, users, txVars, input, pos, seen, result, isMockMode, crashes>>

\* Mutant: the loop over the batch returns after its first user.
FirstItem(r) == 1

LastItem(r) == Len(input[r].items)

(***************************************************************************)
(* The INSERT.  The unique index on email refuses an address that is taken *)
(* and waits for an open transaction that inserted it; the foreign key     *)
(* refuses a user whose organization is gone.                              *)
(***************************************************************************)
Insert(r) ==
  /\ pc[r] = "insert"
  /\ \/ /\ Taken(r)
        /\ Fail(r, "email_taken")
     \/ /\ ~Taken(r) /\ ~Contended(r)
        /\ Org(r) \notin VisibleOrgs(r)
        /\ Fail(r, "no_org")
     \/ /\ ~Taken(r) /\ ~Contended(r)
        /\ Org(r) \in VisibleOrgs(r)
        /\ pendUsers' = [pendUsers EXCEPT ![r] = @ \cup {Row(r)}]
        /\ \/ /\ pos[r] < LastItem(r)
              /\ pos' = [pos EXCEPT ![r] = @ + 1]
              /\ Goto(r, "findOrg")
           \/ /\ pos[r] = LastItem(r)
              /\ Goto(r, "commit")
              /\ pos' = pos
        /\ UNCHANGED <<orgs, users, pendOrgs, input, seen, result, isMockMode, crashes>>

\* Mutant: the users are written by a client that is not the transaction's.
ApplyOrgsOnly(r) ==
  /\ orgs'  = orgs \cup pendOrgs[r]
  /\ pendOrgs'  = [pendOrgs EXCEPT ![r] = {}]
  /\ pendUsers' = [pendUsers EXCEPT ![r] = {}]
  /\ UNCHANGED <<users, input, pos, seen, isMockMode, crashes>>

\* r's writes reach the tables.
Apply(r) ==
  /\ orgs'  = orgs \cup pendOrgs[r]
  /\ users' = users \cup pendUsers[r]
  /\ pendOrgs'  = [pendOrgs EXCEPT ![r] = {}]
  /\ pendUsers' = [pendUsers EXCEPT ![r] = {}]
  /\ UNCHANGED <<input, pos, seen, isMockMode, crashes>>

Commit(r) ==
  /\ pc[r] = "commit"
  /\ Apply(r)
  /\ \/ /\ Kind(r) = "register"
        /\ Goto(r, "email")
        /\ result' = result
     \/ /\ Kind(r) # "register"
        /\ Goto(r, "done")
        /\ result' = [result EXCEPT ![r] = "ok"]

\* The commit took effect but the connection broke before its
\* acknowledgement: the caller gets an error it cannot interpret.
CommitUnacked(r) ==
  /\ pc[r] = "commit"
  /\ Apply(r)
  /\ Goto(r, "done")
  /\ result' = [result EXCEPT ![r] = "lost"]

\* The welcome mail is sent after the commit; sent or not, register succeeds.
WelcomeEmail(r) ==
  /\ pc[r] = "email"
  /\ Goto(r, "done")
  /\ result' = [result EXCEPT ![r] = "ok"]
  /\ UNCHANGED <<orgs, users, txVars, input, pos, seen, isMockMode, crashes>>

\* Mutant: a transaction may wait for a lock without limit.
AbortUnlessWaiting(r) == pc[r] \in DbSteps \ {"insert"} /\ Fail(r, "db_error")

(***************************************************************************)
(* A database call fails for a reason of its own: the 5 s timeout of an    *)
(* interactive transaction (bcrypt runs inside it), a deadlock victim, a   *)
(* lost connection.  Whatever the transaction wrote is rolled back.        *)
(***************************************************************************)
Abort(r) == pc[r] \in DbSteps /\ Fail(r, "db_error")

\* The process dies and is started again: open transactions are rolled back,
\* the requests in progress get no answer, the connection is tried afresh.
Crash ==
  /\ crashes < MaxCrashes
  /\ crashes' = crashes + 1
  /\ pc'     = [r \in Requests |-> IF pc[r] \in Active THEN "done" ELSE pc[r]]
  /\ result' = [r \in Requests |-> IF pc[r] \in Active THEN "lost" ELSE result[r]]
  /\ pendOrgs'  = [r \in Requests |-> {}]
  /\ pendUsers' = [r \in Requests |-> {}]
  /\ isMockMode' \in BOOLEAN
  /\ UNCHANGED <<orgs, users, input, pos, seen>>

\* Mutant: no lock keeps the organization of an open insert.
RemoveOrgAtOnce(o) ==
  /\ o \in orgs
  /\ orgs'  = orgs \ {o}
  /\ users' = {u \in users : u.org # o}
  /\ UNCHANGED <<txVars, reqVars, isMockMode, crashes>>

\* OrganizationsService.remove: the row and, by ON DELETE CASCADE, its users.
\* Only an ADMIN may call it, an account that is provisioned by hand.  The
\* delete waits for open transactions that reference the row.
RemoveOrg(o) ==
  /\ o \in orgs
  /\ \A r \in Requests : \A u \in pendUsers[r] : u.org # o
  /\ orgs'  = orgs \ {o}
  /\ users' = {u \in users : u.org # o}
  /\ UNCHANGED <<txVars, reqVars, isMockMode, crashes>>

\* What a request does on its own account once it is submitted.
Step(r) == \/ CountUsers(r) \/ CountOrgs(r) \/ NewOrg(r)  \/ FindOrg(r)
           \/ FindUser(r)   \/ Insert(r)    \/ Commit(r)  \/ WelcomeEmail(r)

Next == \/ \E r \in Requests : Submit(r) \/ Step(r) \/ CommitUnacked(r) \/ Abort(r)
        \/ \E o \in OrgIds : RemoveOrg(o)
        \/ Crash

Spec == Init /\ [][Next]_vars

\* The event loop runs every pending continuation and the database answers;
\* a transaction that waits for a lock forever is ended by its timeout or by
\* the deadlock detector.
Fairness == \A r \in Requests : /\ WF_vars(Step(r))
                               /\ WF_vars(Blocked(r) /\ Abort(r))

FairSpec == Spec /\ Fairness

-----------------------------------------------------------------------------
(* What the handlers throw; the filter answers it.  Two of the five paths  *)
(* have no controller yet, theirs is what one would pass on.               *)

\* A failure of the database itself; the repository makes a 503 of one.
DatabaseErrors == {Prisma("P2028"), Prisma("P2034"), NoDatabase, Http(503), PlainError}

\* The answer to the commit got lost.
Unacknowledged == {Prisma("P1017"), Prisma("P2028"), PlainError}

\* A missing organization or a taken address, found by a look-up or refused by
\* a constraint: register has an Error for every code, create an HttpException,
\* setupSystem looks nothing up, the others pass the code on.
RefusedWith(kind, lookUp, code) ==
  CASE kind = "register" -> {PlainError}
    [] kind = "create"   -> {lookUp, Http(409)}
    [] kind = "setup"    -> {Prisma(code)}
    [] OTHER             -> {PlainError, Prisma(code)}

\* The exceptions that request r can have ended with.
Thrown(r) ==
  CASE result[r] \in {"none", "ok"}            -> {}
    [] result[r] \in {"mock_mode", "rejected"} -> {PlainError}
    [] result[r] = "forbidden"                 -> {Http(403)}
    [] result[r] = "no_org"                    -> RefusedWith(Kind(r), Http(400), "P2003")
    [] result[r] = "email_taken"               -> RefusedWith(Kind(r), Http(409), "P2002")
    [] result[r] = "db_error"                  -> DatabaseErrors
    [] result[r] = "lost"                      -> Unacknowledged

-----------------------------------------------------------------------------
(* Properties *)

\* No two accounts have one email address, whichever of the registration
\* paths raced each other (three of them look the address up first, two rely
\* on the unique index alone).
EmailsUnique == \A u, v \in users : u.email = v.email => u = v

\* No account is left without its organization when an organization is
\* removed between a registration's look-up and its insert or commit.
NoOrphanUsers == \A u \in users : u.org \in orgs

RowOf(r, i) == \E u \in users : u.id = <<r, i>> /\ u.org = OrgAt(r, i)
RowsOf(r)   == {u \in users : u.id[1] = r}
TraceOf(r)  == r \in orgs \/ RowsOf(r) # {}

\* A request is all or nothing: if anything it created is in the database,
\* then so is everything else it was to create in an organization that still
\* exists (no administrator without organization, no half of a bulk), and it
\* was not answered with a failure.
AllOrNothing ==
  \A r \in Requests : TraceOf(r) =>
    /\ result[r] \notin Failures
    /\ \A i \in DOMAIN input[r].items : OrgAt(r, i) \in orgs => RowOf(r, i)

\* What a caller was told succeeded is there, for as long as the
\* organizations concerned are: no crash or later request undoes it.
AckedIsDurable ==
  \A r \in Requests : result[r] = "ok" =>
    \A i \in DOMAIN input[r].items : OrgAt(r, i) \in orgs => RowOf(r, i)

\* An answer that blames the caller is final: whatever status below 500 the
\* exception filter makes of a failure, nothing of the request is in the
\* database.  Only the answers from 500 on leave it open, among them those to
\* requests that took effect and whose acknowledgement got lost.
ClientErrorsAreFinal ==
  \A r \in Requests : \A e \in Thrown(r) : Status(e) < 500 => ~TraceOf(r)

\* The two counts of setupSystem, taken at different times, amount to one
\* look at both tables: when set-up goes ahead neither held a row at the
\* moment of the second count, because no user exists without organization.
SetupChecksFresh ==
  [][\A r \in Requests : pc[r] = "countOrgs" /\ pc'[r] = "newOrg"
        => orgs = {} /\ users = {}]_vars

\* Every request that was submitted is answered, or its connection breaks:
\* transactions that wait for each other's addresses do not wait forever.
EveryRequestAnswered ==
  \A r \in Requests : pc[r] \in Active ~> pc[r] = "done"

\* All of this implements an account directory that enrols atomically.
Dir == INSTANCE AccountDirectory
ImplementsDirectory == Dir!Spec

(***************************************************************************)
(* What the code says of itself and does not do.                           *)
(***************************************************************************)

\* bootstrap.service.ts: "Setup endpoint can only be used on a fresh
\* database": no set-up commits its organization into one that is not.
SetupOnlyOnFresh ==
  [][\A r \in Requests : Kind(r) = "setup" /\ r \in orgs' \ orgs
        => orgs = {} /\ users = {}]_vars


\* CHANGELOG.md: "Password hashing with bcrypt": every stored password is a
\* bcrypt hash, so AuthService.validateUser, which compares with
\* bcrypt.compare, accepts every account that was created.
EveryAccountCanLogIn == \A u \in users : u.hashed
=============================================================================
