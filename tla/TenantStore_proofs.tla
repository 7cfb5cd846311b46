------------------------- MODULE TenantStore_proofs -------------------------
(***************************************************************************)
(* Proofs about TenantStore for every set of organizations, users,         *)
(* projects and tasks and every assignment of roles.                       *)
(***************************************************************************)
EXTENDS TenantStore, TLAPS

(***************************************************************************)
(* Requests that succeed.  An outcome is Done only if the row asked for is *)
(* within reach of the token and what it is to refer to exists.            *)
(***************************************************************************)

\* What the controllers and the foreign keys have checked when a request
\* succeeds.
LEMMA WhatDoneMeans ==
  /\ \A t, u, o : UpdateUserOutcome(t, u, o) = Done =>
                    Role[t.sub] = "ADMIN" /\ u \in MyUsers(t) /\ o \in orgs
  /\ \A t : CreateProjectOutcome(t) = Done => t.org \in orgs
  /\ \A t, p, o : UpdateProjectOutcome(t, p, o) = Done => p \in MyProjects(t) /\ o \in orgs
  /\ \A t, p : RemoveProjectOutcome(t, p) = Done => p \in MyProjects(t)
  /\ \A p, u : CreateTaskOutcome(p, u) = Done => Refers(p, u)
  /\ \A t, k, p, u : UpdateTaskOutcome(t, k, p, u) = Done /\ k \in MyTasks(t) => Refers(p, u)
<1> USE DEF Done, Forbidden, NotFound, PlainError, Http, Prisma
<1>1. ASSUME NEW t, NEW u, NEW o, UpdateUserOutcome(t, u, o) = Done
      PROVE  Role[t.sub] = "ADMIN" /\ u \in MyUsers(t) /\ o \in orgs
  BY <1>1 DEF UpdateUserOutcome, OwnProfile
<1>2. ASSUME NEW t, CreateProjectOutcome(t) = Done PROVE t.org \in orgs
  BY <1>2 DEF CreateProjectOutcome
<1>3. ASSUME NEW t, NEW p, NEW o, UpdateProjectOutcome(t, p, o) = Done
      PROVE  p \in MyProjects(t) /\ o \in orgs
  BY <1>3 DEF UpdateProjectOutcome
<1>4. ASSUME NEW t, NEW p, RemoveProjectOutcome(t, p) = Done PROVE p \in MyProjects(t)
  BY <1>4 DEF RemoveProjectOutcome
<1>5. ASSUME NEW p, NEW u, CreateTaskOutcome(p, u) = Done PROVE Refers(p, u)
  BY <1>5 DEF CreateTaskOutcome
<1>6. ASSUME NEW t, NEW k, NEW p, NEW u,
             UpdateTaskOutcome(t, k, p, u) = Done, k \in MyTasks(t)
      PROVE  Refers(p, u)
  BY <1>6 DEF UpdateTaskOutcome
<1> QED
  BY <1>1, <1>2, <1>3, <1>4, <1>5, <1>6

-----------------------------------------------------------------------------
(***************************************************************************)
(* Tables                                                                  *)
(***************************************************************************)

\* A table is a function from some keys to rows.
LEMMA TableMembers ==
  ASSUME NEW Keys, NEW Values, NEW f
  PROVE  f \in Table(Keys, Values) <=> DOMAIN f \subseteq Keys /\ f \in [DOMAIN f -> Values]
BY DEF Table

\* The keys and the rows of a table after an insertion or a replacement, ...
LEMMA WithRows ==
  ASSUME NEW f, NEW key, NEW row
  PROVE  /\ DOMAIN With(f, key, row) = DOMAIN f \cup {key}
         /\ With(f, key, row)[key] = row
         /\ \A x \in DOMAIN f : x # key => With(f, key, row)[x] = f[x]
BY DEF With

\* ... and after deletions.
LEMMA WithoutRows ==
  ASSUME NEW f, NEW keys
  PROVE  /\ DOMAIN Without(f, keys) = DOMAIN f \ keys
         /\ \A x \in DOMAIN f \ keys : Without(f, keys)[x] = f[x]
BY DEF Without

\* Both leave a table a table.
LEMMA TableOps ==
  ASSUME NEW Keys, NEW Values, NEW f \in Table(Keys, Values)
  PROVE  /\ \A key \in Keys, row \in Values : With(f, key, row) \in Table(Keys, Values)
         /\ \A keys : Without(f, keys) \in Table(Keys, Values)
<1>1. DOMAIN f \subseteq Keys /\ f \in [DOMAIN f -> Values]
  BY TableMembers
<1>2. ASSUME NEW key \in Keys, NEW row \in Values
      PROVE  With(f, key, row) \in Table(Keys, Values)
  <2>1. With(f, key, row) \in [DOMAIN f \cup {key} -> Values]
    BY <1>1 DEF With
  <2> QED
    BY <1>1, <2>1, TableMembers
<1>3. ASSUME NEW keys PROVE Without(f, keys) \in Table(Keys, Values)
  <2>1. Without(f, keys) \in [DOMAIN f \ keys -> Values]
    BY <1>1 DEF Without
  <2> QED
    BY <1>1, <2>1, TableMembers
<1> QED
  BY <1>2, <1>3

\* ON DELETE CASCADE and SET NULL: a task stays unless its project is lost;
\* it keeps its project, and its assignee unless that is lost.
LEMMA RestRows ==
  ASSUME TypeOK, NEW ps, NEW us
  PROVE  \A k :
           /\ k \in DOMAIN Rest(ps, us) <=> k \in DOMAIN tasks /\ tasks[k].project \notin ps
           /\ k \in DOMAIN Rest(ps, us) =>
                   /\ Rest(ps, us)[k] \in Task
                   /\ Rest(ps, us)[k].project = tasks[k].project
                   /\ \/ tasks[k].user \in us /\ Rest(ps, us)[k].user = None
                      \/ tasks[k].user \notin us /\ Rest(ps, us)[k].user = tasks[k].user
<1>1. tasks \in [DOMAIN tasks -> Task]
  BY TableMembers DEF TypeOK
<1>2. ASSUME NEW k \in DOMAIN tasks \ TasksOf(ps)
      PROVE  /\ Rest(ps, us)[k] \in Task
             /\ Rest(ps, us)[k].project = tasks[k].project
             /\ \/ tasks[k].user \in us /\ Rest(ps, us)[k].user = None
                \/ tasks[k].user \notin us /\ Rest(ps, us)[k].user = tasks[k].user
  <2>1. tasks[k] \in Task
    BY <1>1
  <2>2. CASE tasks[k].user \in us
    BY <2>1, <2>2 DEF Rest, Task
  <2>3. CASE tasks[k].user \notin us
    BY <2>1, <2>3 DEF Rest
  <2> QED
    BY <2>2, <2>3
<1>3. \A k : k \in DOMAIN Rest(ps, us) <=> k \in DOMAIN tasks \ TasksOf(ps)
  BY DEF Rest
<1> QED
  BY <1>2, <1>3 DEF TasksOf

\* What is left is a table of tasks.
LEMMA RestTyped ==
  ASSUME TypeOK, NEW ps, NEW us
  PROVE  Rest(ps, us) \in Table(Tasks, Task)
<1>1. DOMAIN tasks \subseteq Tasks
  BY TableMembers DEF TypeOK
<1>2. \A k \in DOMAIN Rest(ps, us) : Rest(ps, us)[k] \in Task
  BY RestRows
<1>3. Rest(ps, us) = [k \in DOMAIN Rest(ps, us) |-> Rest(ps, us)[k]]
  BY DEF Rest
<1>4. DOMAIN Rest(ps, us) \subseteq Tasks /\ Rest(ps, us) \in [DOMAIN Rest(ps, us) -> Task]
  BY <1>1, <1>2, <1>3, RestRows
<1> QED
  BY <1>4, TableMembers

\* Identities that were used stay used, rows keep their columns, tokens name a
\* user and an organization.
LEMMA TypeStep == TypeOK /\ [Next]_vars => TypeOK'
<1> SUFFICES ASSUME TypeOK, [Next]_vars PROVE TypeOK'
  OBVIOUS
<1> USE DEF TypeOK, rows
<1>1. ASSUME NEW t \in tokens, Request(t) PROVE TypeOK'
  <2>0. t.org \in Orgs /\ t.sub \in Users
    BY DEF Token
  <2>1. ASSUME NEW o \in Orgs, CreateOrg(t, o) PROVE TypeOK'
    BY <2>1 DEF CreateOrg
  <2>2. ASSUME NEW o \in Orgs, RemoveOrg(t, o) PROVE TypeOK'
    <3>1. /\ users' \in Table(Users, Orgs) /\ DOMAIN users' \subseteq DOMAIN users
          /\ projects' \in Table(Projects, Orgs) /\ DOMAIN projects' \subseteq DOMAIN projects
      BY <2>2, TableOps, WithoutRows DEF RemoveOrg
    <3>2. tasks' \in Table(Tasks, Task) /\ DOMAIN tasks' \subseteq DOMAIN tasks
      <4>1. tasks' = Rest(ProjectsOf(o), UsersOf(o))
        BY <2>2 DEF RemoveOrg
      <4>2. DOMAIN tasks' \subseteq DOMAIN tasks
        BY <4>1, RestRows
      <4> QED
        BY <4>1, <4>2, RestTyped
    <3> QED
      BY <2>2, <3>1, <3>2 DEF RemoveOrg
  <2>3. ASSUME NEW u \in Users, NEW o \in Orgs, UpdateUser(t, u, o) PROVE TypeOK'
    <3>1. u \in DOMAIN users
      BY <2>3, WhatDoneMeans DEF UpdateUser, MyUsers, UsersOf
    <3>2. users' \in Table(Users, Orgs) /\ DOMAIN users' = DOMAIN users \cup {u}
      BY <2>3, TableOps, WithRows DEF UpdateUser
    <3> QED
      BY <2>3, <3>1, <3>2 DEF UpdateUser
  <2>4. ASSUME NEW p \in Projects, CreateProject(t, p) PROVE TypeOK'
    <3>1. projects' \in Table(Projects, Orgs) /\ DOMAIN projects' = DOMAIN projects \cup {p}
      BY <2>0, <2>4, TableOps, WithRows DEF CreateProject
    <3> QED
      BY <2>4, <3>1 DEF CreateProject
  <2>5. ASSUME NEW p \in Projects, RemoveProject(t, p) PROVE TypeOK'
    <3>1. projects' \in Table(Projects, Orgs) /\ DOMAIN projects' \subseteq DOMAIN projects
      BY <2>5, TableOps, WithoutRows DEF RemoveProject
    <3>2. tasks' \in Table(Tasks, Task) /\ DOMAIN tasks' \subseteq DOMAIN tasks
      <4>1. tasks' = Rest({p}, {})
        BY <2>5 DEF RemoveProject
      <4>2. DOMAIN tasks' \subseteq DOMAIN tasks
        BY <4>1, RestRows
      <4> QED
        BY <4>1, <4>2, RestTyped
    <3> QED
      BY <2>5, <3>1, <3>2 DEF RemoveProject
  <2>6. ASSUME NEW p \in Projects, NEW o \in Orgs, UpdateProject(t, p, o) PROVE TypeOK'
    <3>1. p \in DOMAIN projects
      BY <2>6, WhatDoneMeans DEF UpdateProject, MyProjects, ProjectsOf
    <3>2. projects' \in Table(Projects, Orgs) /\ DOMAIN projects' = DOMAIN projects \cup {p}
      BY <2>6, TableOps, WithRows DEF UpdateProject
    <3> QED
      BY <2>6, <3>1, <3>2 DEF UpdateProject
  <2>7. ASSUME NEW k \in Tasks, RemoveTask(t, k) PROVE TypeOK'
    <3>1. tasks' \in Table(Tasks, Task) /\ DOMAIN tasks' \subseteq DOMAIN tasks
      BY <2>7, TableOps, WithoutRows DEF RemoveTask
    <3> QED
      BY <2>7, <3>1 DEF RemoveTask
  <2>8. ASSUME NEW k \in Tasks, NEW p \in Projects, NEW u \in Users \cup {None},
               CreateTask(k, p, u) \/ UpdateTask(t, k, p, u)
        PROVE  TypeOK'
    <3>1. [project |-> p, user |-> u] \in Task
      BY DEF Task
    <3>2. tasks' = With(tasks, k, [project |-> p, user |-> u])
      BY <2>8 DEF CreateTask, UpdateTask
    <3>5. tasks' \in Table(Tasks, Task) /\ DOMAIN tasks' = DOMAIN tasks \cup {k}
      BY <3>1, <3>2, TableOps, WithRows
    <3>3. CASE CreateTask(k, p, u)
      BY <3>5, <3>3 DEF CreateTask
    <3>4. CASE UpdateTask(t, k, p, u)
      BY <3>5, <3>4 DEF UpdateTask, MyTasks, TasksOf
    <3> QED
      BY <2>8, <3>3, <3>4
  <2> QED
    BY <1>1, <2>1, <2>2, <2>3, <2>4, <2>5, <2>6, <2>7, <2>8 DEF Request
<1>2. ASSUME NEW u \in Users, NEW o \in Orgs, Register(u, o) PROVE TypeOK'
  <2>1. users' \in Table(Users, Orgs) /\ DOMAIN users' = DOMAIN users \cup {u}
    BY <1>2, TableOps, WithRows DEF Register
  <2> QED
    BY <1>2, <2>1 DEF Register
<1>3. ASSUME NEW u \in Users, ReadUser(u) PROVE TypeOK'
  <2>1. users[u] \in Orgs
    BY <1>3, TableMembers DEF ReadUser
  <2> QED
    BY <1>3, <2>1 DEF ReadUser
<1>4. ASSUME NEW u \in Users, Sign(u) PROVE TypeOK'
  BY <1>4 DEF Sign, Token
<1>5. ASSUME NEW t \in Token, Expire(t) PROVE TypeOK'
  BY <1>5 DEF Expire
<1>6. CASE UNCHANGED vars
  BY <1>6 DEF vars
<1> QED
  BY <1>1, <1>2, <1>3, <1>4, <1>5, <1>6 DEF Next

\* Rows, log-ins and tokens keep to their types, and no identity in use is
\* ever given out again.
THEOREM Typing == Spec => []TypeOK
<1>1. Init => TypeOK
  <2> SUFFICES ASSUME Init PROVE TypeOK
    OBVIOUS
  <2>1. users \in Table(Users, Orgs)
    <3>1. PICK staff \in SUBSET Users : users \in [staff -> orgs]
      BY DEF Init
    <3>2. users \in [staff -> Orgs] /\ DOMAIN users = staff
      BY <3>1 DEF Init
    <3> QED
      BY <3>2, TableMembers
  <2>2. projects \in Table(Projects, Orgs) /\ tasks \in Table(Tasks, Task)
    BY TableMembers DEF Init
  <2> QED
    BY <2>1, <2>2 DEF Init, TypeOK, Ids
<1> QED
  BY <1>1, TypeStep, PTL DEF Spec

-----------------------------------------------------------------------------
(***************************************************************************)
(* References.  NoDangling is inductive with the types: what is removed    *)
(* takes along or clears what refers to it.                                *)
(***************************************************************************)

\* The three foreign keys by name.
LEMMA ForeignKeys ==
  NoDangling <=> /\ \A u \in DOMAIN users : users[u] \in orgs
                 /\ \A p \in DOMAIN projects : projects[p] \in orgs
                 /\ \A k \in DOMAIN tasks : /\ tasks[k].project \in DOMAIN projects
                                            /\ tasks[k].user \in DOMAIN users \cup {None}
BY DEF NoDangling, Refers

\* A row that is written refers to rows that exist.
LEMMA WrittenTaskRefers ==
  ASSUME NoDangling, NEW k, NEW p, NEW u, Refers(p, u),
         tasks' = With(tasks, k, [project |-> p, user |-> u]),
         UNCHANGED <<orgs, users, projects>>
  PROVE  NoDangling'
<1>1. ASSUME NEW j \in DOMAIN tasks' PROVE Refers(tasks'[j].project, tasks'[j].user)
  <2>1. CASE j = k
    BY <2>1 DEF With
  <2>2. CASE j # k
    <3>1. j \in DOMAIN tasks /\ tasks'[j] = tasks[j]
      BY <1>1, <2>2 DEF With
    <3> QED
      BY <3>1 DEF NoDangling
  <2> QED
    BY <2>1, <2>2
<1> QED
  BY <1>1 DEF NoDangling, Refers

\* Every request leaves every reference whole.
LEMMA NoDanglingStep == TypeOK /\ NoDangling /\ [Next]_vars => NoDangling'
<1> SUFFICES ASSUME TypeOK, NoDangling, [Next]_vars PROVE NoDangling'
  OBVIOUS
<1> USE DEF rows
<1>1. ASSUME NEW t \in tokens, Request(t) PROVE NoDangling'
  <2>1. ASSUME NEW o \in Orgs, CreateOrg(t, o) PROVE NoDangling'
    BY <2>1 DEF CreateOrg, NoDangling, Refers
  <2>2. ASSUME NEW o \in Orgs, RemoveOrg(t, o) PROVE NoDangling'
    <3>1. orgs' = orgs \ {o}
      BY <2>2 DEF RemoveOrg
    <3>2. /\ DOMAIN users' = DOMAIN users \ UsersOf(o)
          /\ \A u \in DOMAIN users' : users'[u] = users[u]
      BY <2>2 DEF Without, RemoveOrg
    <3>3. /\ DOMAIN projects' = DOMAIN projects \ ProjectsOf(o)
          /\ \A p \in DOMAIN projects' : projects'[p] = projects[p]
      BY <2>2 DEF Without, RemoveOrg
    <3>4. \A u \in DOMAIN users' : users'[u] \in orgs'
      BY <3>1, <3>2 DEF NoDangling, UsersOf
    <3>5. \A p \in DOMAIN projects' : projects'[p] \in orgs'
      BY <3>1, <3>3 DEF NoDangling, ProjectsOf
    <3>6. ASSUME NEW k \in DOMAIN tasks'
          PROVE  /\ tasks'[k].project \in DOMAIN projects'
                 /\ tasks'[k].user \in DOMAIN users' \cup {None}
      <4>1. tasks' = Rest(ProjectsOf(o), UsersOf(o))
        BY <2>2 DEF RemoveOrg
      <4>2. /\ k \in DOMAIN tasks /\ tasks[k].project \notin ProjectsOf(o)
            /\ tasks'[k].project = tasks[k].project
            /\ \/ tasks'[k].user = None
               \/ tasks[k].user \notin UsersOf(o) /\ tasks'[k].user = tasks[k].user
        BY <3>6, <4>1, RestRows
      <4> QED
        BY <3>2, <3>3, <4>2, ForeignKeys
    <3> QED
      BY <3>4, <3>5, <3>6 DEF NoDangling, Refers
  <2>3. ASSUME NEW u \in Users, NEW o \in Orgs, UpdateUser(t, u, o) PROVE NoDangling'
    <3>1. u \in DOMAIN users /\ o \in orgs
      BY <2>3, WhatDoneMeans DEF UpdateUser, MyUsers, UsersOf
    <3>2. /\ DOMAIN users' = DOMAIN users \cup {u}
          /\ users'[u] = o
          /\ \A v \in DOMAIN users : v # u => users'[v] = users[v]
      BY <2>3 DEF With, UpdateUser
    <3> QED
      BY <2>3, <3>1, <3>2 DEF UpdateUser, NoDangling, Refers
  <2>4. ASSUME NEW p \in Projects, CreateProject(t, p) PROVE NoDangling'
    <3>1. t.org \in orgs
      BY <2>4, WhatDoneMeans DEF CreateProject
    <3>2. /\ DOMAIN projects' = DOMAIN projects \cup {p}
          /\ projects'[p] = t.org
          /\ \A q \in DOMAIN projects : q # p => projects'[q] = projects[q]
      BY <2>4 DEF With, CreateProject
    <3> QED
      BY <2>4, <3>1, <3>2 DEF CreateProject, NoDangling, Refers
  <2>5. ASSUME NEW p \in Projects, RemoveProject(t, p) PROVE NoDangling'
    <3>1. /\ DOMAIN projects' = DOMAIN projects \ {p}
          /\ \A q \in DOMAIN projects' : projects'[q] = projects[q]
      BY <2>5 DEF Without, RemoveProject
    <3>2. ASSUME NEW k \in DOMAIN tasks'
          PROVE  /\ tasks'[k].project \in DOMAIN projects'
                 /\ tasks'[k].user \in DOMAIN users' \cup {None}
      <4>1. tasks' = Rest({p}, {}) /\ users' = users
        BY <2>5 DEF RemoveProject
      <4>2. /\ k \in DOMAIN tasks /\ tasks[k].project # p
            /\ tasks'[k].project = tasks[k].project
            /\ tasks'[k].user = tasks[k].user
        BY <3>2, <4>1, RestRows
      <4> QED
        BY <3>1, <4>1, <4>2, ForeignKeys
    <3> QED
      BY <2>5, <3>1, <3>2 DEF RemoveProject, NoDangling, Refers
  <2>6. ASSUME NEW p \in Projects, NEW o \in Orgs, UpdateProject(t, p, o) PROVE NoDangling'
    <3>1. p \in DOMAIN projects /\ o \in orgs
      BY <2>6, WhatDoneMeans DEF UpdateProject, MyProjects, ProjectsOf
    <3>2. /\ DOMAIN projects' = DOMAIN projects \cup {p}
          /\ projects'[p] = o
          /\ \A q \in DOMAIN projects : q # p => projects'[q] = projects[q]
      BY <2>6 DEF With, UpdateProject
    <3> QED
      BY <2>6, <3>1, <3>2 DEF UpdateProject, NoDangling, Refers
  <2>7. ASSUME NEW k \in Tasks, RemoveTask(t, k) PROVE NoDangling'
    <3>1. /\ DOMAIN tasks' = DOMAIN tasks \ {k}
          /\ \A j \in DOMAIN tasks' : tasks'[j] = tasks[j]
      BY <2>7 DEF Without, RemoveTask
    <3> QED
      BY <2>7, <3>1 DEF RemoveTask, NoDangling, Refers
  <2>8. ASSUME NEW k \in Tasks, NEW p \in Projects, NEW u \in Users \cup {None},
               CreateTask(k, p, u) \/ UpdateTask(t, k, p, u)
        PROVE  NoDangling'
    <3>1. Refers(p, u)
      BY <2>8, WhatDoneMeans DEF CreateTask, UpdateTask
    <3> QED
      BY <2>8, <3>1, WrittenTaskRefers DEF CreateTask, UpdateTask
  <2> QED
    BY <1>1, <2>1, <2>2, <2>3, <2>4, <2>5, <2>6, <2>7, <2>8 DEF Request
<1>2. ASSUME NEW u \in Users, NEW o \in Orgs, Register(u, o) PROVE NoDangling'
  <2>1. /\ DOMAIN users' = DOMAIN users \cup {u}
        /\ users'[u] = o
        /\ \A v \in DOMAIN users : v # u => users'[v] = users[v]
    BY <1>2 DEF With, Register
  <2> QED
    BY <1>2, <2>1 DEF Register, NoDangling, Refers
<1>3. ASSUME NEW u \in Users, ReadUser(u) \/ Sign(u) PROVE NoDangling'
  BY <1>3 DEF ReadUser, Sign, NoDangling, Refers
<1>4. ASSUME NEW t \in Token, Expire(t) PROVE NoDangling'
  BY <1>4 DEF Expire, NoDangling, Refers
<1>5. CASE UNCHANGED vars
  BY <1>5 DEF vars, NoDangling, Refers
<1> QED
  BY <1>1, <1>2, <1>3, <1>4, <1>5 DEF Next

\* Every user and project belongs to an organization that exists, every task to
\* a project that exists, and its assignee, if any, exists: no order of
\* removals, moves and creations leaves a reference behind.
THEOREM References == Spec => []NoDangling
<1>1. Init => NoDangling
  BY DEF Init, NoDangling
<1> QED
  BY <1>1, NoDanglingStep, Typing, PTL DEF Spec

-----------------------------------------------------------------------------
(***************************************************************************)
(* The store implements the ledger.  The proof needs the references whole: *)
(* the owner of a task is read through its project, a row is taken from an *)
(* organization that exists, and an assignee is a user.                    *)
(***************************************************************************)

\* What Owner and Worker are, table by table.
LedgerView ==
  /\ Owner = [i \in DOMAIN Owner |-> Owner[i]]
  /\ \A i : i \in DOMAIN Owner <=> i \in DOMAIN users \/ i \in DOMAIN projects \/ i \in DOMAIN tasks
  /\ \A u \in DOMAIN users : Owner[u] = users[u]
  /\ \A p \in DOMAIN projects : Owner[p] = projects[p]
  /\ \A k \in DOMAIN tasks : Owner[k] = projects[tasks[k].project]
  /\ \A i \in DOMAIN Owner : Owner[i] \in orgs
  /\ Worker = [k \in DOMAIN Worker |-> Worker[k]]
  /\ \A k : k \in DOMAIN Worker <=> k \in DOMAIN tasks /\ tasks[k].user # None
  /\ \A k \in DOMAIN Worker : Worker[k] = tasks[k].user

\* No identity is in two tables.
LEMMA TablesApart ==
  ASSUME TypeOK
  PROVE  /\ DOMAIN users \subseteq Users /\ DOMAIN projects \subseteq Projects
         /\ DOMAIN tasks \subseteq Tasks
         /\ \A u \in Users : u \notin Projects /\ u \notin Tasks
         /\ \A p \in Projects : p \notin Users /\ p \notin Tasks
         /\ \A k \in Tasks : k \notin Users /\ k \notin Projects
<1>1. DOMAIN users \subseteq Users /\ DOMAIN projects \subseteq Projects /\ DOMAIN tasks \subseteq Tasks
  BY TableMembers DEF TypeOK
<1> QED
  BY <1>1, TenantStoreAssumption

\* Every item has the owner that its row names, and that owner exists; every
\* task with an assignee has that worker.
LEMMA ViewNow == TypeOK /\ NoDangling => LedgerView
<1> SUFFICES ASSUME TypeOK, NoDangling PROVE LedgerView
  OBVIOUS
<1>1. \A i : i \in DOMAIN Owner <=> i \in DOMAIN users \/ i \in DOMAIN projects \/ i \in DOMAIN tasks
  BY DEF Owner
<1>2. \A u \in DOMAIN users : Owner[u] = users[u]
  BY DEF Owner
<1>3. \A p \in DOMAIN projects : Owner[p] = projects[p]
  BY TablesApart DEF Owner
<1>4. \A k \in DOMAIN tasks : Owner[k] = projects[tasks[k].project]
  BY TablesApart DEF Owner
<1>5. \A i \in DOMAIN Owner : Owner[i] \in orgs
  BY <1>1, <1>2, <1>3, <1>4, ForeignKeys
<1>6. Owner = [i \in DOMAIN Owner |-> Owner[i]]
  BY DEF Owner
<1>7. /\ Worker = [k \in DOMAIN Worker |-> Worker[k]]
      /\ \A k : k \in DOMAIN Worker <=> k \in DOMAIN tasks /\ tasks[k].user # None
      /\ \A k \in DOMAIN Worker : Worker[k] = tasks[k].user
  BY DEF Worker
<1> QED
  BY <1>1, <1>2, <1>3, <1>4, <1>5, <1>6, <1>7 DEF LedgerView

\* The same of the state after a step.
LEMMA ViewNext == (TypeOK /\ NoDangling)' => LedgerView'
BY ViewNow, PTL

\* A removal leaves the owner of everything that stays, ...
LEMMA OwnerWithout ==
  ASSUME LedgerView', NEW lost,
         \A i : i \in DOMAIN Owner' <=> i \in DOMAIN Owner /\ i \notin lost,
         \A i \in DOMAIN Owner' : Owner'[i] = Owner[i]
  PROVE  Owner' = Ledger!OwnedBut(lost)
<1>1. Owner' = [i \in DOMAIN Owner' |-> Owner'[i]]
  BY DEF LedgerView
<1>2. DOMAIN Owner' = DOMAIN Owner \ lost
  OBVIOUS
<1>3. [i \in DOMAIN Owner' |-> Owner'[i]] = [i \in DOMAIN Owner \ lost |-> Owner[i]]
  BY <1>2
<1> QED
  BY <1>1, <1>3 DEF Ledger!OwnedBut

\* ... and the worker, unless that is removed.
LEMMA WorkersWithout ==
  ASSUME LedgerView', NEW lost,
         \A k : k \in DOMAIN Worker' <=> k \in DOMAIN Worker /\ k \notin lost /\ Worker[k] \notin lost,
         \A k \in DOMAIN Worker' : Worker'[k] = Worker[k]
  PROVE  Worker' = Ledger!WorkersBut(lost)
<1> DEFINE rest == {j \in DOMAIN Worker : j \notin lost /\ Worker[j] \notin lost}
<1>1. Worker' = [i \in DOMAIN Worker' |-> Worker'[i]]
  BY DEF LedgerView
<1>2. DOMAIN Worker' = rest
  OBVIOUS
<1>3. [i \in DOMAIN Worker' |-> Worker'[i]] = [i \in rest |-> Worker[i]]
  BY <1>2
<1> QED
  BY <1>1, <1>3 DEF Ledger!WorkersBut

\* A hand-over changes the owner of what is moved and of nothing else.
LEMMA OwnerMoved ==
  ASSUME LedgerView', NEW moved, NEW b,
         \A i : i \in DOMAIN Owner' <=> i \in DOMAIN Owner,
         \A i \in DOMAIN Owner : i \in moved => Owner'[i] = b,
         \A i \in DOMAIN Owner : i \notin moved => Owner'[i] = Owner[i]
  PROVE  Owner' = [i \in DOMAIN Owner |-> IF i \in moved THEN b ELSE Owner[i]]
<1>1. Owner' = [i \in DOMAIN Owner' |-> Owner'[i]]
  BY DEF LedgerView
<1>2. DOMAIN Owner' = DOMAIN Owner
  OBVIOUS
<1>3. [i \in DOMAIN Owner' |-> Owner'[i]] = [i \in DOMAIN Owner |-> IF i \in moved THEN b ELSE Owner[i]]
  BY <1>2
<1> QED
  BY <1>1, <1>3

\* One item, new or not, is given an owner, and no other is, ...
LEMMA OwnerAdded ==
  ASSUME LedgerView', NEW i, NEW a,
         \A j : j \in DOMAIN Owner' <=> j \in DOMAIN Owner \/ j = i,
         Owner'[i] = a,
         \A j \in DOMAIN Owner : j # i => Owner'[j] = Owner[j]
  PROVE  Owner' = Ledger!OwnedWith(i, a)
<1>1. Owner' = [j \in DOMAIN Owner' |-> Owner'[j]]
  BY DEF LedgerView
<1>2. DOMAIN Owner' = DOMAIN Owner \cup {i}
  OBVIOUS
<1>3. [j \in DOMAIN Owner' |-> Owner'[j]] = [j \in DOMAIN Owner \cup {i} |-> IF j = i THEN a ELSE Owner[j]]
  BY <1>2
<1> QED
  BY <1>1, <1>3 DEF Ledger!OwnedWith

\* ... or a worker, or none.
LEMMA WorkerGiven ==
  ASSUME LedgerView, LedgerView', NEW k, NEW w,
         k \in DOMAIN tasks', tasks'[k].user = w,
         \A j : j # k => (j \in DOMAIN tasks' <=> j \in DOMAIN tasks),
         \A j \in DOMAIN tasks : j # k => tasks'[j] = tasks[j]
  PROVE  Worker' = Ledger!WorkersWith(k, w)
<1>1. Worker' = [j \in DOMAIN Worker' |-> Worker'[j]]
  BY DEF LedgerView
<1>2. \A j : j # k => (j \in DOMAIN Worker' <=> j \in DOMAIN Worker)
  BY DEF LedgerView
<1>3. \A j \in DOMAIN Worker : j # k => Worker'[j] = Worker[j]
  BY <1>2 DEF LedgerView
<1>4. CASE w = None
  <2>1. k \notin DOMAIN Worker'
    BY <1>4 DEF LedgerView
  <2>2. DOMAIN Worker' = DOMAIN Worker \ {k}
    BY <1>2, <2>1
  <2>3. [j \in DOMAIN Worker' |-> Worker'[j]] = [j \in DOMAIN Worker \ {k} |-> Worker[j]]
    BY <1>3, <2>2
  <2> QED
    BY <1>1, <1>4, <2>3 DEF Ledger!WorkersWith
<1>5. CASE w # None
  <2>1. k \in DOMAIN Worker' /\ Worker'[k] = w
    BY <1>5 DEF LedgerView
  <2>2. DOMAIN Worker' = DOMAIN Worker \cup {k}
    BY <1>2, <2>1
  <2>3. [j \in DOMAIN Worker' |-> Worker'[j]]
          = [j \in DOMAIN Worker \cup {k} |-> IF j = k THEN w ELSE Worker[j]]
    BY <1>3, <2>1, <2>2
  <2> QED
    BY <1>1, <1>5, <2>3 DEF Ledger!WorkersWith
<1> QED
  BY <1>4, <1>5

\* Badges in the making stay as they are while log-ins do.
LEMMA SamePromises ==
  login' = login => UNCHANGED {[sub |-> u, org |-> login[u]] : u \in {v \in Users : login[v] # None}}
OBVIOUS

\* The worker of a task is a user.
LEMMA WorkersAreUsers ==
  ASSUME TypeOK, NoDangling, LedgerView
  PROVE  \A k \in DOMAIN Worker : Worker[k] \in DOMAIN users /\ Worker[k] \in Users
BY TablesApart, ForeignKeys DEF LedgerView

\* A token that lets go of projects and tasks of its own tenant.
LEMMA DropIs ==
  ASSUME LedgerView', NEW t, NEW lost,
         \A i \in lost : i \in DOMAIN Owner /\ Owner[i] = t.org /\ i \notin Users,
         \A i : i \in DOMAIN Owner' <=> i \in DOMAIN Owner /\ i \notin lost,
         \A i \in DOMAIN Owner' : Owner'[i] = Owner[i],
         Worker' = Ledger!WorkersBut(lost),
         orgs' = orgs, login' = login, tokens' = tokens
  PROVE  Ledger!Request(t)
<1>1. lost \in SUBSET (Ledger!Belongings(t.org) \ Users)
  BY DEF Ledger!Belongings
<1>2. Ledger!Drop(lost)
  BY OwnerWithout, SamePromises DEF Ledger!Drop
<1> QED
  BY <1>1, <1>2 DEF Ledger!Request

\* A token that hands projects and tasks of its own tenant over.
LEMMA HandOverIs ==
  ASSUME LedgerView', NEW t, NEW a \in orgs, NEW moved,
         \A i \in moved : i \in DOMAIN Owner /\ Owner[i] = t.org /\ i \notin Users,
         \A i : i \in DOMAIN Owner' <=> i \in DOMAIN Owner,
         \A i \in DOMAIN Owner : i \in moved => Owner'[i] = a,
         \A i \in DOMAIN Owner : i \notin moved => Owner'[i] = Owner[i],
         Worker' = Worker,
         orgs' = orgs, login' = login, tokens' = tokens
  PROVE  Ledger!Request(t)
<1>1. moved \in SUBSET (Ledger!Belongings(t.org) \ Users)
  BY DEF Ledger!Belongings
<1>2. Ledger!HandOver(moved, a)
  BY OwnerMoved, SamePromises DEF Ledger!HandOver
<1> QED
  BY <1>1, <1>2 DEF Ledger!Request

\* Every request does what the ledger allows to the badge of the one who asks.
LEMMA RequestStep ==
  ASSUME TypeOK, NoDangling, LedgerView, LedgerView', NEW t \in tokens, Request(t)
  PROVE  Ledger!Request(t)
<1> USE DEF LedgerView
<1>0. /\ t \in Token /\ t.sub \in Users /\ t.org \in Orgs /\ orgs \subseteq Orgs
      /\ DOMAIN users \subseteq Users /\ DOMAIN projects \subseteq Projects /\ DOMAIN tasks \subseteq Tasks
  BY TablesApart DEF TypeOK, Token
<1>1. ASSUME NEW o \in Orgs, CreateOrg(t, o) PROVE Ledger!Request(t)
  <2>1. o \notin orgs /\ Role[t.sub] = "ADMIN"
    BY <1>1 DEF CreateOrg, TypeOK, OrgsOutcome, RolesGuard, Done, Forbidden, Http
  <2>2. Owner' = Owner /\ Worker' = Worker
    BY <1>1 DEF CreateOrg, Owner, Worker
  <2>3. Ledger!Open(t, o)
    BY <1>0, <1>1, <2>1, <2>2, SamePromises DEF CreateOrg, Ledger!Open
  <2> QED
    BY <2>3 DEF Ledger!Request
<1>2. ASSUME NEW o \in Orgs, RemoveOrg(t, o) PROVE Ledger!Request(t)
  <2>1. o \in orgs /\ orgs' = orgs \ {o} /\ Role[t.sub] = "ADMIN"
    BY <1>2 DEF RemoveOrg, OrgsOutcome, RolesGuard, Done, Forbidden, Http, Prisma
  <2>2. /\ \A u : u \in DOMAIN users' <=> u \in DOMAIN users /\ users[u] # o
        /\ \A u \in DOMAIN users' : users'[u] = users[u]
        /\ \A p : p \in DOMAIN projects' <=> p \in DOMAIN projects /\ projects[p] # o
        /\ \A p \in DOMAIN projects' : projects'[p] = projects[p]
    BY <1>2 DEF RemoveOrg, Without, UsersOf, ProjectsOf
  <2>3. /\ \A k : k \in DOMAIN tasks' <=> k \in DOMAIN tasks /\ tasks[k].project \notin ProjectsOf(o)
        /\ \A k \in DOMAIN tasks' :
             /\ tasks'[k].project = tasks[k].project
             /\ \/ tasks[k].user \in UsersOf(o) /\ tasks'[k].user = None
                \/ tasks[k].user \notin UsersOf(o) /\ tasks'[k].user = tasks[k].user
    <3>1. tasks' = Rest(ProjectsOf(o), UsersOf(o))
      BY <1>2 DEF RemoveOrg
    <3> QED
      BY <3>1, RestRows
  <2>4. \A k \in DOMAIN tasks :
          /\ tasks[k].project \in DOMAIN projects
          /\ tasks[k].project \notin ProjectsOf(o) <=> projects[tasks[k].project] # o
    BY ForeignKeys DEF ProjectsOf
  <2> DEFINE lost == Ledger!Belongings(o)
  <2>lost. \A i : i \in lost <=> i \in DOMAIN Owner /\ Owner[i] = o
    BY DEF Ledger!Belongings
  <2> HIDE DEF lost
  <2>5. \A i : i \in DOMAIN Owner' <=> i \in DOMAIN Owner /\ i \notin lost
    BY <2>2, <2>3, <2>4, <2>lost, TablesApart
  <2>6. \A i \in DOMAIN Owner' : Owner'[i] = Owner[i]
    BY <2>2, <2>3, <2>4
  <2>7. Owner' = Ledger!OwnedBut(lost)
    BY <2>5, <2>6, OwnerWithout
  <2>8. \A k \in DOMAIN tasks : tasks[k].user # None =>
          (tasks[k].user \in UsersOf(o) <=> tasks[k].user \in lost)
    BY <2>lost, ForeignKeys DEF UsersOf
  <2>9. \A k : k \in DOMAIN tasks' <=> k \in DOMAIN tasks /\ k \notin lost
    BY <2>3, <2>4, <2>lost
  <2>10. \A k : k \in DOMAIN Worker' <=> k \in DOMAIN Worker /\ k \notin lost /\ Worker[k] \notin lost
    <3>1. ASSUME NEW k \in DOMAIN tasks'
          PROVE  tasks'[k].user # None <=> tasks[k].user # None /\ tasks[k].user \notin lost
      <4>1. k \in DOMAIN tasks
        BY <2>9, <3>1
      <4>2. None \notin UsersOf(o)
        BY <1>0, TenantStoreAssumption DEF UsersOf
      <4> QED
        BY <2>3, <2>8, <3>1, <4>1, <4>2
    <3> QED
      BY <2>9, <3>1
  <2>11. \A k \in DOMAIN Worker' : Worker'[k] = Worker[k]
    BY <2>3, <2>9
  <2>12. Worker' = Ledger!WorkersBut(lost)
    BY <2>10, <2>11, WorkersWithout
  <2>13. Ledger!Close(t, o)
    BY <1>0, <1>2, <2>1, <2>7, <2>12, SamePromises DEF RemoveOrg, Ledger!Close, lost
  <2> QED
    BY <2>13 DEF Ledger!Request
<1>3. ASSUME NEW u \in Users, NEW o \in Orgs, UpdateUser(t, u, o) PROVE Ledger!Request(t)
  <2>1. u \in DOMAIN users /\ users[u] = t.org /\ o \in orgs /\ Role[t.sub] = "ADMIN"
    BY <1>3, WhatDoneMeans DEF UpdateUser, MyUsers, UsersOf
  <2>2. /\ \A v : v \in DOMAIN users' <=> v \in DOMAIN users
        /\ users'[u] = o
        /\ \A v \in DOMAIN users : v # u => users'[v] = users[v]
    BY <1>3, <2>1 DEF UpdateUser, With
  <2>3. projects' = projects /\ tasks' = tasks
    BY <1>3 DEF UpdateUser
  <2>4. u \in Ledger!Belongings(t.org)
    BY <2>1 DEF Ledger!Belongings
  <2>5. \A i : i \in DOMAIN Owner' <=> i \in DOMAIN Owner \/ i = u
    BY <2>1, <2>2, <2>3
  <2>6. \A i \in DOMAIN Owner : i # u => Owner'[i] = Owner[i]
    BY <2>2, <2>3
  <2>7. Owner'[u] = o
    BY <2>1, <2>2
  <2>8. Owner' = Ledger!OwnedWith(u, o)
    BY <2>5, <2>6, <2>7, OwnerAdded
  <2>9. Worker' = Worker
    BY <2>3 DEF Worker
  <2>10. Ledger!Transfer(t, u, o)
    BY <1>0, <1>3, <2>1, <2>4, <2>8, <2>9, SamePromises DEF UpdateUser, Ledger!Transfer
  <2> QED
    BY <2>1, <2>10 DEF Ledger!Request
<1>4. ASSUME NEW p \in Projects, CreateProject(t, p) PROVE Ledger!Request(t)
  <2>1. t.org \in orgs /\ p \notin DOMAIN projects
    BY <1>4, WhatDoneMeans DEF CreateProject, TypeOK
  <2>2. /\ \A q : q \in DOMAIN projects' <=> q \in DOMAIN projects \/ q = p
        /\ projects'[p] = t.org
        /\ \A q \in DOMAIN projects : projects'[q] = projects[q]
    BY <1>4, <2>1 DEF CreateProject, With
  <2>3. users' = users /\ tasks' = tasks
    BY <1>4 DEF CreateProject
  <2>4. p \notin DOMAIN Owner
    BY <2>1, TablesApart
  <2>5. \A i : i \in DOMAIN Owner' <=> i \in DOMAIN Owner \/ i = p
    BY <2>2, <2>3
  <2>6. \A i \in DOMAIN Owner : i # p => Owner'[i] = Owner[i]
    BY <2>2, <2>3, ForeignKeys
  <2>7. Owner'[p] = t.org
    BY <2>2
  <2>8. Owner' = Ledger!OwnedWith(p, t.org)
    BY <2>5, <2>6, <2>7, OwnerAdded
  <2>9. Worker' = Worker
    BY <2>3 DEF Worker
  <2>10. Ledger!Start(t, p)
    BY <1>4, <2>1, <2>4, <2>8, <2>9, SamePromises DEF CreateProject, Ledger!Start
  <2> QED
    BY <2>10 DEF Ledger!Request
<1>5. ASSUME NEW p \in Projects, RemoveProject(t, p) PROVE Ledger!Request(t)
  <2>1. p \in DOMAIN projects /\ projects[p] = t.org
    BY <1>5, WhatDoneMeans DEF RemoveProject, MyProjects, ProjectsOf
  <2>2. /\ \A q : q \in DOMAIN projects' <=> q \in DOMAIN projects /\ q # p
        /\ \A q \in DOMAIN projects' : projects'[q] = projects[q]
    BY <1>5 DEF RemoveProject, Without
  <2>3. users' = users
    BY <1>5 DEF RemoveProject
  <2>4. /\ \A k : k \in DOMAIN tasks' <=> k \in DOMAIN tasks /\ tasks[k].project # p
        /\ \A k \in DOMAIN tasks' : tasks'[k].project = tasks[k].project /\ tasks'[k].user = tasks[k].user
    <3>1. tasks' = Rest({p}, {})
      BY <1>5 DEF RemoveProject
    <3> QED
      BY <3>1, RestRows
  <2> DEFINE lost == {i \in DOMAIN Owner : i = p \/ i \in TasksOf({p})}
  <2>5. \A i : i \in lost <=> i = p \/ (i \in DOMAIN tasks /\ tasks[i].project = p)
    BY <2>1 DEF TasksOf
  <2> HIDE DEF lost
  <2>6. \A i : i \in DOMAIN Owner' <=> i \in DOMAIN Owner /\ i \notin lost
    BY <2>2, <2>3, <2>4, <2>5, TablesApart
  <2>7. \A i \in DOMAIN Owner' : Owner'[i] = Owner[i]
    BY <2>2, <2>3, <2>4, ForeignKeys
  <2>8. \A i \in lost : i \in DOMAIN Owner /\ Owner[i] = t.org /\ i \notin Users
    BY <2>1, <2>5, TablesApart
  <2>9. \A k \in DOMAIN tasks : k \in DOMAIN tasks' <=> k \notin lost
    BY <1>0, <2>4, <2>5, TablesApart
  <2>10. \A k : k \in DOMAIN Worker' <=> k \in DOMAIN Worker /\ k \notin lost /\ Worker[k] \notin lost
    BY <2>4, <2>8, <2>9, WorkersAreUsers
  <2>11. \A k \in DOMAIN Worker' : Worker'[k] = Worker[k]
    BY <2>4, <2>10
  <2>12. Worker' = Ledger!WorkersBut(lost)
    BY <2>10, <2>11, WorkersWithout
  <2> QED
    BY <1>5, <2>6, <2>7, <2>8, <2>12, DropIs DEF RemoveProject
<1>6. ASSUME NEW p \in Projects, NEW o \in Orgs, UpdateProject(t, p, o) PROVE Ledger!Request(t)
  <2>1. p \in DOMAIN projects /\ projects[p] = t.org /\ o \in orgs
    BY <1>6, WhatDoneMeans DEF UpdateProject, MyProjects, ProjectsOf
  <2>2. /\ \A q : q \in DOMAIN projects' <=> q \in DOMAIN projects
        /\ projects'[p] = o
        /\ \A q \in DOMAIN projects : q # p => projects'[q] = projects[q]
    BY <1>6, <2>1 DEF UpdateProject, With
  <2>3. users' = users /\ tasks' = tasks
    BY <1>6 DEF UpdateProject
  <2> DEFINE moved == {i \in DOMAIN Owner : i = p \/ i \in TasksOf({p})}
  <2>4. \A i : i \in moved <=> i = p \/ (i \in DOMAIN tasks /\ tasks[i].project = p)
    BY <2>1 DEF TasksOf
  <2> HIDE DEF moved
  <2>5. \A i : i \in DOMAIN Owner' <=> i \in DOMAIN Owner
    BY <2>2, <2>3
  <2>6. \A i \in DOMAIN Owner : i \in moved => Owner'[i] = o
    BY <2>1, <2>2, <2>3, <2>4
  <2>7. \A i \in DOMAIN Owner : i \notin moved => Owner'[i] = Owner[i]
    BY <2>2, <2>3, <2>4, ForeignKeys
  <2>8. \A i \in moved : i \in DOMAIN Owner /\ Owner[i] = t.org /\ i \notin Users
    BY <2>1, <2>4, TablesApart
  <2>9. Worker' = Worker
    BY <2>3 DEF Worker
  <2> QED
    BY <1>6, <2>1, <2>5, <2>6, <2>7, <2>8, <2>9, HandOverIs DEF UpdateProject
<1>7. ASSUME NEW k \in Tasks, RemoveTask(t, k) PROVE Ledger!Request(t)
  <2>1. k \in DOMAIN tasks /\ projects[tasks[k].project] = t.org
    BY <1>7 DEF RemoveTask, MyTasks, TasksOf, ProjectsOf
  <2>2. /\ \A j : j \in DOMAIN tasks' <=> j \in DOMAIN tasks /\ j # k
        /\ \A j \in DOMAIN tasks' : tasks'[j] = tasks[j]
    BY <1>7 DEF RemoveTask, Without
  <2>3. users' = users /\ projects' = projects
    BY <1>7 DEF RemoveTask
  <2> DEFINE lost == {k}
  <2>lost. \A i : i \in lost <=> i = k
    OBVIOUS
  <2> HIDE DEF lost
  <2>4. \A i : i \in DOMAIN Owner' <=> i \in DOMAIN Owner /\ i \notin lost
    BY <2>1, <2>2, <2>3, <2>lost, TablesApart
  <2>5. \A i \in DOMAIN Owner' : Owner'[i] = Owner[i]
    BY <2>2, <2>3
  <2>6. \A i \in lost : i \in DOMAIN Owner /\ Owner[i] = t.org /\ i \notin Users
    BY <2>1, <2>lost, TablesApart
  <2>7. \A j : j \in DOMAIN Worker' <=> j \in DOMAIN Worker /\ j \notin lost /\ Worker[j] \notin lost
    BY <2>2, <2>6, <2>lost, WorkersAreUsers
  <2>8. \A j \in DOMAIN Worker' : Worker'[j] = Worker[j]
    BY <2>2
  <2>9. Worker' = Ledger!WorkersBut(lost)
    BY <2>7, <2>8, WorkersWithout
  <2> QED
    BY <1>7, <2>4, <2>5, <2>6, <2>9, DropIs DEF RemoveTask
<1>8. ASSUME NEW k \in Tasks, NEW p \in Projects, NEW u \in Users \cup {None}, CreateTask(k, p, u)
      PROVE  Ledger!Request(t)
  <2>1. /\ p \in DOMAIN projects /\ projects[p] \in orgs /\ k \notin DOMAIN tasks
        /\ u = None \/ u \in Users \cap DOMAIN Owner
    BY <1>8, WhatDoneMeans DEF CreateTask, Refers, TypeOK, NoDangling
  <2>2. /\ \A j : j \in DOMAIN tasks' <=> j \in DOMAIN tasks \/ j = k
        /\ tasks'[k].project = p /\ tasks'[k].user = u
        /\ \A j \in DOMAIN tasks : tasks'[j] = tasks[j]
    BY <1>8, <2>1 DEF CreateTask, With
  <2>3. users' = users /\ projects' = projects
    BY <1>8 DEF CreateTask
  <2>4. k \notin DOMAIN Owner
    BY <2>1, TablesApart
  <2>5. \A i : i \in DOMAIN Owner' <=> i \in DOMAIN Owner \/ i = k
    BY <2>2, <2>3
  <2>6. \A i \in DOMAIN Owner : i # k => Owner'[i] = Owner[i]
    BY <2>2, <2>3
  <2>7. Owner'[k] = projects[p]
    BY <2>2, <2>3
  <2>8. Owner' = Ledger!OwnedWith(k, projects[p])
    BY <2>5, <2>6, <2>7, OwnerAdded
  <2>9. Worker' = Ledger!WorkersWith(k, u)
    BY <2>2, WorkerGiven
  <2>10. Ledger!Post(k, projects[p], u)
    BY <1>8, <2>1, <2>4, <2>8, <2>9, SamePromises DEF CreateTask, Ledger!Post, Ledger!CanWork
  <2> QED
    BY <2>1, <2>10 DEF Ledger!Request
<1>9. ASSUME NEW k \in Tasks, NEW p \in Projects, NEW u \in Users \cup {None}, UpdateTask(t, k, p, u)
      PROVE  Ledger!Request(t)
  <2>1. /\ k \in DOMAIN tasks /\ projects[tasks[k].project] = t.org
        /\ p \in DOMAIN projects /\ projects[p] \in orgs
        /\ u = None \/ u \in Users \cap DOMAIN Owner
    BY <1>9, WhatDoneMeans DEF UpdateTask, Refers, MyTasks, TasksOf, ProjectsOf, NoDangling
  <2>2. /\ \A j : j \in DOMAIN tasks' <=> j \in DOMAIN tasks
        /\ tasks'[k].project = p /\ tasks'[k].user = u
        /\ \A j \in DOMAIN tasks : j # k => tasks'[j] = tasks[j]
    BY <1>9, <2>1 DEF UpdateTask, With
  <2>3. users' = users /\ projects' = projects
    BY <1>9 DEF UpdateTask
  <2>4. k \in Ledger!Belongings(t.org)
    BY <2>1 DEF Ledger!Belongings
  <2>5. \A i : i \in DOMAIN Owner' <=> i \in DOMAIN Owner \/ i = k
    BY <2>1, <2>2, <2>3
  <2>6. \A i \in DOMAIN Owner : i # k => Owner'[i] = Owner[i]
    BY <2>2, <2>3
  <2>7. Owner'[k] = projects[p]
    BY <2>1, <2>2, <2>3
  <2>8. Owner' = Ledger!OwnedWith(k, projects[p])
    BY <2>5, <2>6, <2>7, OwnerAdded
  <2>9. Worker' = Ledger!WorkersWith(k, u)
    BY <2>1, <2>2, WorkerGiven
  <2>10. Ledger!Reassign(t, k, projects[p], u)
    BY <1>9, <2>1, <2>4, <2>8, <2>9, SamePromises DEF UpdateTask, Ledger!Reassign, Ledger!CanWork
  <2> QED
    BY <2>1, <2>10 DEF Ledger!Request
<1> QED
  BY <1>1, <1>2, <1>3, <1>4, <1>5, <1>6, <1>7, <1>8, <1>9 DEF Request

\* Registration lets a user join, log-in promises and issues a badge of the
\* organization in the row that it read, and tokens expire one at a time.
LEMMA LedgerStep ==
  TypeOK /\ NoDangling /\ LedgerView /\ LedgerView' /\ [Next]_vars => [Ledger!Next]_Ledger!ledgerVars
<1> SUFFICES ASSUME TypeOK, NoDangling, LedgerView, LedgerView', [Next]_vars
             PROVE  Ledger!Next \/ UNCHANGED Ledger!ledgerVars
  OBVIOUS
<1> USE DEF rows
<1> DEFINE Promised == {[sub |-> v, org |-> login[v]] : v \in {w \in Users : login[w] # None}}
<1>1. ASSUME NEW t \in tokens, Request(t) PROVE Ledger!Next
  BY <1>1, RequestStep DEF Ledger!Next
<1>2. ASSUME NEW u \in Users, NEW o \in Orgs, Register(u, o) PROVE Ledger!Next
  <2>1. o \in orgs /\ u \notin DOMAIN users /\ Role[u] # "ADMIN"
    BY <1>2 DEF Register, TypeOK
  <2>2. /\ \A v : v \in DOMAIN users' <=> v \in DOMAIN users \/ v = u
        /\ users'[u] = o
        /\ \A v \in DOMAIN users : users'[v] = users[v]
    BY <1>2, <2>1 DEF Register, With
  <2>3. projects' = projects /\ tasks' = tasks
    BY <1>2 DEF Register
  <2>4. u \notin DOMAIN Owner
    BY <2>1, TablesApart DEF LedgerView
  <2>5. \A i : i \in DOMAIN Owner' <=> i \in DOMAIN Owner \/ i = u
    BY <2>2, <2>3 DEF LedgerView
  <2>6. \A i \in DOMAIN Owner : i # u => Owner'[i] = Owner[i]
    BY <2>2, <2>3 DEF LedgerView
  <2>7. Owner'[u] = o
    BY <2>2 DEF LedgerView
  <2>8. Owner' = Ledger!OwnedWith(u, o)
    BY <2>5, <2>6, <2>7, OwnerAdded
  <2>9. Worker' = Worker
    BY <2>3 DEF Worker
  <2>10. Ledger!Join(u, o)
    BY <1>2, <2>1, <2>4, <2>8, <2>9, SamePromises DEF Register, Ledger!Join
  <2> QED
    BY <2>1, <2>10 DEF Ledger!Next
<1>3. ASSUME NEW u \in Users, ReadUser(u) PROVE Ledger!Next
  <2>1. u \in DOMAIN users /\ users[u] \in Orgs /\ users[u] # None /\ login[u] = None
    BY <1>3, TableMembers, TenantStoreAssumption DEF ReadUser, TypeOK
  <2>2. /\ login' = [login EXCEPT ![u] = users[u]] /\ login \in [Users -> Orgs \cup {None}]
        /\ rows' = rows /\ tokens' = tokens
    BY <1>3 DEF ReadUser, TypeOK
  <2>3. Promised' = Promised \cup {[sub |-> u, org |-> users[u]]}
    BY <2>1, <2>2
  <2>4. Owner[u] = users[u] /\ u \in DOMAIN Owner /\ Owner' = Owner /\ Worker' = Worker
    BY <2>1, <2>2 DEF LedgerView, Owner, Worker
  <2>5. Ledger!Promise(u)
    BY <2>2, <2>3, <2>4 DEF Ledger!Promise
  <2> QED
    BY <2>5 DEF Ledger!Next
<1>4. ASSUME NEW u \in Users, Sign(u) PROVE Ledger!Next
  <2>0. PICK new : new = [sub |-> u, org |-> login[u]]
    OBVIOUS
  <2>1. /\ login[u] # None /\ login' = [login EXCEPT ![u] = None]
        /\ login \in [Users -> Orgs \cup {None}]
        /\ rows' = rows /\ tokens' = tokens \cup {new}
    BY <1>4, <2>0 DEF Sign, TypeOK
  <2>2. new \in Promised
    BY <2>0, <2>1
  <2>3. Promised' = Promised \ {new}
    BY <2>0, <2>1
  <2>4. Owner' = Owner /\ Worker' = Worker /\ orgs' = orgs
    BY <2>1 DEF Owner, Worker
  <2>5. Ledger!Issue(new)
    BY <2>1, <2>2, <2>3, <2>4 DEF Ledger!Issue
  <2> QED
    BY <2>2, <2>5 DEF Ledger!Next
<1>5. ASSUME NEW t \in Token, Expire(t) PROVE Ledger!Next
  <2>1. t \in tokens /\ tokens' = tokens \ {t} /\ rows' = rows /\ login' = login
    BY <1>5 DEF Expire
  <2>2. Owner' = Owner /\ Worker' = Worker /\ orgs' = orgs
    BY <2>1 DEF Owner, Worker
  <2>3. Ledger!Expire(t)
    BY <2>1, <2>2, SamePromises DEF Ledger!Expire
  <2> QED
    BY <2>1, <2>3 DEF Ledger!Next
<1>6. CASE UNCHANGED vars
  BY <1>6, SamePromises DEF vars, Owner, Worker, Ledger!ledgerVars
<1> QED
  BY <1>1, <1>2, <1>3, <1>4, <1>5, <1>6 DEF Next

\* The store starts as a ledger whose items are the staff.
LEMMA LedgerInit == Init /\ TypeOK /\ NoDangling => Ledger!Init
<1> SUFFICES ASSUME Init, TypeOK, NoDangling PROVE Ledger!Init
  OBVIOUS
<1>1. DOMAIN projects = {} /\ DOMAIN tasks = {}
  BY DEF Init
<1>2. Owner \in [DOMAIN Owner -> orgs] /\ DOMAIN Owner \in SUBSET Users
  BY <1>1, ViewNow, TablesApart DEF LedgerView
<1>3. \E staff \in SUBSET Users : Owner \in [staff -> orgs]
  BY <1>2
<1>4. {[sub |-> u, org |-> login[u]] : u \in {v \in Users : login[v] # None}} = {}
  BY DEF Init
<1>5. Worker = [i \in {} |-> None]
  BY <1>1 DEF Worker
<1> QED
  BY <1>3, <1>4, <1>5 DEF Init, TypeOK, Ledger!Init

\* Whatever is asked of the store, by whom and with however old a token, the
\* badge of the one who asks is good for it: it changes and removes what
\* belongs to the tenant in the token, except that an administrator's removes
\* any tenant, with the rows of that tenant only, and anybody's posts a task to
\* any tenant.
THEOREM Refinement == Spec => ImplementsLedger
<1> DEFINE AsAllowed == \A t \in tokens : Request(t) => Ledger!Request(t)
<1>1. Spec => [](TypeOK /\ NoDangling)
  BY Typing, References, PTL
<1>2. Init /\ TypeOK /\ NoDangling => Ledger!Init
  BY LedgerInit
<1>3. TypeOK /\ NoDangling /\ (TypeOK /\ NoDangling)' /\ [Next]_vars
        => [Ledger!Next]_Ledger!ledgerVars
  BY LedgerStep, ViewNow, ViewNext
<1>4. TypeOK /\ NoDangling /\ (TypeOK /\ NoDangling)' /\ [Next]_vars => [AsAllowed]_vars
  BY RequestStep, ViewNow, ViewNext
<1>5. Spec => Ledger!Spec
  BY <1>1, <1>2, <1>3, PTL DEF Spec, Ledger!Spec
<1>6. Spec => [][AsAllowed]_vars
  BY <1>1, <1>4, PTL DEF Spec
<1> QED
  BY <1>5, <1>6 DEF ImplementsLedger
=============================================================================
