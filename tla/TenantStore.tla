---------------------------- MODULE TenantStore -----------------------------
(***************************************************************************)
(* The four tables behind the controllers of organizations, users,         *)
(* projects and tasks, with the foreign keys between them, and the tokens  *)
(* by which requests are scoped.                                           *)
(*                                                                         *)
(* A request is judged by its token alone and its handler runs a single    *)
(* statement, so a request is one step.  What a request comes to is an     *)
(* outcome: Done, or the exception that the handler throws; requests that  *)
(* throw change nothing.  Log-in takes two steps, because the row it reads *)
(* is compared with the password before the token is signed.               *)
(*                                                                         *)
(* Registration is one step here; Accounts.tla models its transactions and *)
(* shows that they amount to one.                                          *)
(***************************************************************************)
EXTENDS ErrorMapping, FiniteSets

CONSTANTS
  Orgs, Users, Projects, Tasks,   \* identities, each used once (cuid)
  Role,                           \* Role[u]: no statement changes the role of a row
  None                            \* no organization, no user

ASSUME TenantStoreAssumption ==
  /\ Role \in [Users -> {"SUPER_ADMIN", "ADMIN", "USER"}]
  /\ None \notin Orgs \cup Users
  /\ Users \cap Projects = {} /\ Users \cap Tasks = {} /\ Projects \cap Tasks = {}

VARIABLES
  orgs,       \* rows of organizations
  users,      \* users[u]: the organization of row u
  projects,   \* projects[p]: the organization of row p
  tasks,      \* tasks[k]: the project and the assignee of row k
  fresh,      \* identities that were not used yet
  login,      \* login[u]: the organization in the row that a log-in of u has read
  tokens      \* unexpired tokens; the role in a token is its user's for good

rows == <<orgs, users, projects, tasks, fresh>>
vars == <<rows, login, tokens>>

Ids   == Orgs \cup Users \cup Projects \cup Tasks
Token == [sub : Users, org : Orgs]
Task  == [project : Projects, user : Users \cup {None}]

Table(Keys, Values) == UNION {[keys -> Values] : keys \in SUBSET Keys}

TypeOK ==
  /\ orgs \subseteq Orgs
  /\ users \in Table(Users, Orgs)
  /\ projects \in Table(Projects, Orgs)
  /\ tasks \in Table(Tasks, Task)
  /\ fresh \subseteq Ids
  /\ fresh \cap (orgs \cup DOMAIN users \cup DOMAIN projects \cup DOMAIN tasks) = {}
  /\ login \in [Users -> Orgs \cup {None}]
  /\ tokens \subseteq Token

\* A system in use: organizations and their staff, no project yet.
Init ==
  /\ orgs \in SUBSET Orgs \ {{}}
  /\ \E staff \in SUBSET Users : users \in [staff -> orgs]
  /\ projects = [p \in {} |-> None]
  /\ tasks = [k \in {} |-> None]
  /\ fresh = Ids \ (orgs \cup DOMAIN users)
  /\ login = [u \in Users |-> None]
  /\ tokens = {}

-----------------------------------------------------------------------------
(* Tables *)

With(table, key, row) == [x \in DOMAIN table \cup {key} |-> IF x = key THEN row ELSE table[x]]
Without(table, keys)  == [x \in DOMAIN table \ keys |-> table[x]]

ProjectsOf(o)      == {p \in DOMAIN projects : projects[p] = o}
UsersOf(o)         == {u \in DOMAIN users : users[u] = o}
TasksOf(someProjs) == {k \in DOMAIN tasks : tasks[k].project \in someProjs}

\* Mutant: the assignees of the tasks that remain are not cleared.
RestKeepingAssignees(lostProjects, lostUsers) == Without(tasks, TasksOf(lostProjects))

\* The tasks that remain without some projects and users.
Rest(lostProjects, lostUsers) ==
  [k \in DOMAIN tasks \ TasksOf(lostProjects) |->
     IF tasks[k].user \in lostUsers THEN [tasks[k] EXCEPT !.user = None] ELSE tasks[k]]

\* The rows a token's organization reaches: where: {id, organizationId}.
MyUsers(t)    == UsersOf(t.org)
MyProjects(t) == ProjectsOf(t.org)
MyTasks(t)    == TasksOf(ProjectsOf(t.org))

-----------------------------------------------------------------------------
(* What requests come to *)

Done      == [class |-> "done", status |-> 0, code |-> "none"]
Forbidden == Http(403)
NotFound  == Http(404)

RolesGuard(t) == Role[t.sub] = "ADMIN"

OrgsOutcome(t, found) ==
  CASE ~RolesGuard(t) -> Forbidden
    [] ~found         -> Prisma("P2025")
    [] OTHER          -> Done

\* req.user.id is never set (JwtStrategy.validate calls it userId), so that
\* the own-profile exception of the check applies to nobody.
OwnProfile(t, u) == FALSE

UpdateUserOutcome(t, u, o) ==
  CASE ~OwnProfile(t, u) /\ Role[t.sub] # "ADMIN" -> PlainError
    [] u \notin MyUsers(t)                        -> NotFound
    [] o \notin orgs                              -> Prisma("P2003")
    [] OTHER                                      -> Done

CreateProjectOutcome(t) == IF t.org \in orgs THEN Done ELSE Prisma("P2003")

UpdateProjectOutcome(t, p, o) ==
  CASE p \notin MyProjects(t) -> Prisma("P2025")
    [] o \notin orgs          -> Prisma("P2003")
    [] OTHER                  -> Done

\* Mutant: the organization of the token is not part of the condition.
RemoveProjectOutcomeUnscoped(t, p) ==
  IF p \in DOMAIN projects THEN Done ELSE Prisma("P2025")

RemoveProjectOutcome(t, p) == IF p \in MyProjects(t) THEN Done ELSE Prisma("P2025")

Refers(p, u) == p \in DOMAIN projects /\ u \in DOMAIN users \cup {None}

CreateTaskOutcome(p, u) == IF Refers(p, u) THEN Done ELSE Prisma("P2003")

\* updateMany and deleteMany: to match no row is no error, and no row is then
\* checked for its references.
UpdateTaskOutcome(t, k, p, u) ==
  IF k \in MyTasks(t) /\ ~Refers(p, u) THEN Prisma("P2003") ELSE Done

RemoveTaskOutcome(t, k) == Done

-----------------------------------------------------------------------------
(* Requests *)

CreateOrg(t, o) ==
  /\ o \in fresh \cap Orgs
  /\ OrgsOutcome(t, TRUE) = Done
  /\ orgs' = orgs \cup {o}
  /\ fresh' = fresh \ {o}
  /\ UNCHANGED <<users, projects, tasks, login, tokens>>

\* DELETE with the cascade over users, projects and their tasks.
RemoveOrg(t, o) ==
  /\ OrgsOutcome(t, o \in orgs) = Done
  /\ orgs' = orgs \ {o}
  /\ users' = Without(users, UsersOf(o))
  /\ projects' = Without(projects, ProjectsOf(o))
  /\ tasks' = Rest(ProjectsOf(o), UsersOf(o))
  /\ UNCHANGED <<fresh, login, tokens>>

\* POST /auth/register and POST /users, from anybody.
Register(u, o) ==
  /\ u \in fresh \cap Users
  /\ Role[u] = "USER"
  /\ o \in orgs
  /\ users' = With(users, u, o)
  /\ fresh' = fresh \ {u}
  /\ UNCHANGED <<orgs, projects, tasks, login, tokens>>

UpdateUser(t, u, o) ==
  /\ UpdateUserOutcome(t, u, o) = Done
  /\ users' = With(users, u, o)
  /\ UNCHANGED <<orgs, projects, tasks, fresh, login, tokens>>

CreateProject(t, p) ==
  /\ p \in fresh \cap Projects
  /\ CreateProjectOutcome(t) = Done
  /\ projects' = With(projects, p, t.org)
  /\ fresh' = fresh \ {p}
  /\ UNCHANGED <<orgs, users, tasks, login, tokens>>

UpdateProject(t, p, o) ==
  /\ UpdateProjectOutcome(t, p, o) = Done
  /\ projects' = With(projects, p, o)
  /\ UNCHANGED <<orgs, users, tasks, fresh, login, tokens>>

RemoveProject(t, p) ==
  /\ RemoveProjectOutcome(t, p) = Done
  /\ projects' = Without(projects, {p})
  /\ tasks' = Rest({p}, {})
  /\ UNCHANGED <<orgs, users, fresh, login, tokens>>

\* Neither the project nor the assignee is compared with the token.
CreateTask(k, p, u) ==
  /\ k \in fresh \cap Tasks
  /\ CreateTaskOutcome(p, u) = Done
  /\ tasks' = With(tasks, k, [project |-> p, user |-> u])
  /\ fresh' = fresh \ {k}
  /\ UNCHANGED <<orgs, users, projects, login, tokens>>

UpdateTask(t, k, p, u) ==
  /\ k \in MyTasks(t)
  /\ UpdateTaskOutcome(t, k, p, u) = Done
  /\ tasks' = With(tasks, k, [project |-> p, user |-> u])
  /\ UNCHANGED <<orgs, users, projects, fresh, login, tokens>>

RemoveTask(t, k) ==
  /\ k \in MyTasks(t)
  /\ RemoveTaskOutcome(t, k) = Done
  /\ tasks' = Without(tasks, {k})
  /\ UNCHANGED <<orgs, users, projects, fresh, login, tokens>>

-----------------------------------------------------------------------------
(* Log-in and the life of a token *)

\* validateUser finds the row and the password matches.
ReadUser(u) ==
  /\ u \in DOMAIN users
  /\ login[u] = None
  /\ login' = [login EXCEPT ![u] = users[u]]
  /\ UNCHANGED <<rows, tokens>>

\* Mutant: the check for a row that was not found is dropped.
SignUnchecked(u) ==
  /\ tokens' = tokens \cup {[sub |-> u, org |-> login[u]]}
  /\ login' = [login EXCEPT ![u] = None]
  /\ UNCHANGED rows

\* Mutant: the row that was read is kept and signed again.
SignKeepingRow(u) ==
  /\ login[u] # None
  /\ tokens' = tokens \cup {[sub |-> u, org |-> login[u]]}
  /\ UNCHANGED <<rows, login>>

\* login signs what the row contained.
Sign(u) ==
  /\ login[u] # None
  /\ tokens' = tokens \cup {[sub |-> u, org |-> login[u]]}
  /\ login' = [login EXCEPT ![u] = None]
  /\ UNCHANGED rows

Expire(t) ==
  /\ t \in tokens
  /\ tokens' = tokens \ {t}
  /\ UNCHANGED <<rows, login>>

\* There is no removal of users: its route has no JwtAuthGuard, so that reading
\* req.user.organizationId throws before anything is done.
Request(t) ==
  \/ \E o \in Orgs : CreateOrg(t, o) \/ RemoveOrg(t, o)
  \/ \E u \in Users, o \in Orgs : UpdateUser(t, u, o)
  \/ \E p \in Projects : CreateProject(t, p) \/ RemoveProject(t, p)
  \/ \E p \in Projects, o \in Orgs : UpdateProject(t, p, o)
  \/ \E k \in Tasks : RemoveTask(t, k)
  \/ \E k \in Tasks, p \in Projects, u \in Users \cup {None} :
       CreateTask(k, p, u) \/ UpdateTask(t, k, p, u)

Next ==
  \/ \E t \in tokens : Request(t)
  \/ \E u \in Users, o \in Orgs : Register(u, o)
  \/ \E u \in Users : ReadUser(u) \/ Sign(u)
  \/ \E t \in Token : Expire(t)

Spec == Init /\ [][Next]_vars

\* A log-in that found its row is answered, and every token expires
\* (ignoreExpiration is false, and a token cannot be renewed); nobody has to
\* send a request.
Fairness == /\ \A u \in Users : WF_vars(Sign(u))
            /\ \A t \in Token : WF_vars(Expire(t))

FairSpec == Spec /\ Fairness

-----------------------------------------------------------------------------
(* Properties *)

\* Whatever is removed, moved or created at the same time, every row refers to
\* rows that exist: the cascades of the migration reach everything.
NoDangling ==
  /\ \A u \in DOMAIN users : users[u] \in orgs
  /\ \A p \in DOMAIN projects : projects[p] \in orgs
  /\ \A k \in DOMAIN tasks : Refers(tasks[k].project, tasks[k].user)

\* A user who is still in the organization of the token can edit the own row
\* (comment in UsersController.update).
OwnProfileEditable ==
  \A t \in tokens :
    t.sub \in MyUsers(t) => UpdateUserOutcome(t, t.sub, t.org) = Done

\* The organization that a user has left, or that is gone, forgets the user:
\* there is a last moment at which a token for it is accepted, although a
\* log-in may be under way with the old row in its hands.
OldTenantForgotten ==
  \A u \in Users, o \in Orgs :
    <>[](u \notin UsersOf(o)) => <>[]([sub |-> u, org |-> o] \notin tokens)

\* The store implements the ledger: an item belongs to its row's tenant, a
\* task to the tenant of its project, and is worked on by its assignee.
Owner == [i \in DOMAIN users \cup DOMAIN projects \cup DOMAIN tasks |->
            IF i \in DOMAIN users THEN users[i]
            ELSE IF i \in DOMAIN projects THEN projects[i]
            ELSE projects[tasks[i].project]]

Worker == [k \in {j \in DOMAIN tasks : tasks[j].user # None} |-> tasks[k].user]

Ledger == INSTANCE TenantLedger WITH
  Tenants  <- Orgs,
  Holders  <- Users,
  Admins   <- {u \in Users : Role[u] = "ADMIN"},
  NoWorker <- None,
  tenants  <- orgs,
  owner    <- Owner,
  worker   <- Worker,
  promised <- {[sub |-> u, org |-> login[u]] : u \in {v \in Users : login[v] # None}},
  badges   <- tokens

\* Every request does what the ledger allows to the badge of the one who asks,
\* whoever else holds which badge: it removes and hands over what belongs to
\* the tenant in its token, and takes a whole tenant only for an administrator,
\* then with all of its rows, with none of another's, and with its users gone
\* from the tasks of others.  Tokens are for an organization one belonged to.
ImplementsLedger ==
  /\ Ledger!Spec
  /\ [][\A t \in tokens : Request(t) => Ledger!Request(t)]_vars

\* ReadMe.md, "Every database operation is scoped to the authenticated tenant":
\* what a request takes away, or gives to somebody else, belongs to the tenant
\* in its token.
TakesFromOwnTenant ==
  [][\A t \in tokens : Request(t) =>
       \A i \in DOMAIN Owner :
         \/ Owner[i] = t.org
         \/ i \in DOMAIN Owner' /\ Owner'[i] = Owner[i]]_vars
=============================================================================
