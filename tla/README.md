# A verification project for the multi-tenant B2B SaaS back end

TLA+ specifications of the NestJS/Prisma server in `src/`, model-checked with
TLC on small instances, and theorems about them proved with TLAPS for all
values of the constants. `PROJECT.json` maps every definition to the lines it
models and lists the runs, the mutants, the findings, the hazards and the
theorems.

## The system and its parts

| Part | State | Operations | Modelled in |
|---|---|---|---|
| Set-up and registration (`auth/bootstrap.service.ts`, `auth/auth.service.ts`, `users/repository/`) | rows of `organizations` and `users`; one interactive transaction per request | `setupSystem`, `register`, `bulkRegister`, `registerWithOrganization`, `PrismaUsersRepository.create` | `Accounts` |
| Database schema (`prisma/`) | unique index on `users.email`, foreign keys with `ON DELETE CASCADE`/`SET NULL` | statement execution, commit, rollback | `Accounts` (transactions), `TenantStore` (all four tables) |
| Prisma connection (`prisma.service.ts`) | `isMockMode` | `onModuleInit`, `getIsMockMode` | `Accounts` |
| Organizations, users, projects, tasks | the four tables | CRUD, most of it with `organizationId` in its condition | `TenantStore`, `TenantLedger`; lists in `Listing` |
| Log-in, tokens, guards | the signed token | `validateUser`, `login`, `JwtStrategy.validate`, `RolesGuard`, checks in controllers | `TenantStore` |
| Circuit breaker | `state`, `failureCount`, `lastFailureTime` | `execute`, `isOpen`, `onSuccess`, `onFailure` | `BreakerOps`, `CircuitBreaker` |
| LRU cache | the `Map` of entries | `set`, `get`, `has`, `delete`, `clear`, `getStats`/`cleanup`, `evictLRU` | `LRUCache`, `TTLStore` |
| Resilience service, retry policy | two caches of breakers and policies | `execute`, `forceCleanup`, `clearCache` | `Resilience` |
| Payments | none | `createPaymentIntent`, `handleWebhook`, validation | its calls of `execute` in `Resilience` |
| Health | none | `getResilienceStatus`, cache endpoints, readiness | the first two in `Resilience` |
| Exception filter | none | `catch`, `handlePrismaError`; `sanitizeMessage` is left out | the status of an answer in `ErrorMapping`, `Accounts` |
| Mock database, mock Redis | a `Map` each | everything guarded by `isAvailable`, which is never true | not modelled |
| DTO validation, module wiring, configuration | none | declarative | not modelled |

How they interact. Controllers call services; services call Prisma, whose
calls are awaited, so other requests run between any two of them. Payments
calls `ResilienceService.execute`, which fetches a breaker and a retry policy
from two LRU caches and runs the operation under both. Health reads the
breakers' states and can clear the caches. `isMockMode` is written when the
server starts and read by set-up alone.

What is hard: races between requests across awaits, uniqueness and
all-or-nothing under aborts and crashes, transactions that wait for each other
(`Accounts`); results that reach a breaker after it changed its state
(`CircuitBreaker`); a clock that does not move during a call, and one that
does (`LRUCache`); calls that hold on to a breaker which the cache has dropped
(`Resilience`); tokens that outlive the rows they were made from, and cascades
(`TenantStore`); a table that changes under a client who reads it in pages
(`Listing`). What makes each part correct is stated below with its
runs; the hazards, each at its line, are in `PROJECT.json`.

## The modules

* `Accounts` — the five creation paths and the removal of an organization.
  A request is a record spread over `pc`, `pos`, `input`, `seen`, `result`;
  each action is one awaited call (`CountUsers`, `CountOrgs`, `NewOrg`,
  `FindOrg`, `FindUser`, `Insert`, `Commit`, `WelcomeEmail`). The paths are
  told apart by `Kind(r)` and share actions where their code does the same:

  | path | steps |
  |---|---|
  | `setupSystem` | countUsers, countOrgs, newOrg, insert, commit |
  | `register` | findOrg (Prisma's nested `connect`), insert, commit, email |
  | `PrismaUsersRepository.create` and `registerWithOrganization` without organization | findOrg, findUser, insert, commit |
  | `registerWithOrganization` with organization | newOrg, findUser, insert, commit |
  | `bulkRegister` | (findOrg, findUser, insert) per item, commit |

  Transactions run at READ COMMITTED, the default, because no call passes an
  isolation level: a statement sees `orgs`/`users` as committed plus its own
  `pendOrgs[r]`/`pendUsers[r]`. The unique index is the pair `Taken` (fail) and
  `Contended` (wait); the foreign key is `VisibleOrgs` at the insert and the
  guard of `RemoveOrg`, which waits for open inserts into the organization.
  `Abort` stands for every database failure of its own (timeout of the
  interactive transaction, deadlock victim, lost connection), `CommitUnacked`
  for a commit whose acknowledgement is lost, `Crash` for the death and restart
  of the process. What a request ends with is `result`; `Thrown` are the
  exceptions that this may be in the code, and `ErrorMapping` what the filter
  answers to them. `bulkRegister` and `registerWithOrganization` have no
  controller yet; they are public methods and modelled as such.
* `AccountDirectory` — what the above promises: an enrolment is one atomic
  step. `Accounts!Dir` instantiates it with the committed tables.
* `BreakerOps` — the breaker as a value, its methods as operators, without
  variables, so that other modules can keep breakers in a cache.
  `failures` stops at the threshold and `age` (time since the last failure) at
  the recovery timeout, because the code only compares them with these.
* `CircuitBreaker` — one breaker, any number of callers. `Admit`/`Refuse` are
  the synchronous part of `execute`, `Succeed`/`FailCall` the part after the
  await. `spared` is a history variable.
* `LRUCache` — a call of `set` is `Set` (first loop of `cleanup`), `Trim`
  (one turn of its second loop), `Trimmed` and `Put`, with `Tick` possible in
  between because each step reads the clock again. Which of several entries
  used last in the same millisecond goes first is decided by the order of the
  `Map` in the code and left open in the model. `written` and `usedAt` are
  history variables.
* `TTLStore` — what the cache promises: it may forget, but never answers with
  a value that was replaced, deleted or has expired.
* `Resilience` — the composition: calls of `execute`, each with the turns of
  `RetryPolicy`, over breakers (`BreakerOps`) that live in a cache with expiry.
  Breakers are objects on a heap: a call keeps its own while the cache may hand
  a new one to the next call. `Refuse`, `Begin` and `Create` are the synchronous
  part of `execute` up to the start of the operation, `Succeed` and
  `FailAttempt` what follows its end, `Retry` and `RetryRefused` what follows
  the sleep; `Cleanup`, `ClearCache` and `ResilienceStatus` are what `/health`
  does. `execute` is modelled for operations that may fail; the two that payments
  gives it today cannot. `struck` is a history variable.
* `ErrorMapping` — `GlobalExceptionFilter` as an operator from what a handler
  throws to the status of the answer.
* `TenantStore` — the tables, the tokens and the requests on them. What a
  request comes to is an operator (`UpdateProjectOutcome`, ...) with the
  controller's checks and the database's refusals in the order of the code; the
  action of the request requires `Done` and changes the rows. A handler runs one
  statement, so it is one step; log-in reads the row (`ReadUser`) and signs it
  later (`Sign`). `Register` is one step because `Accounts` implements
  `AccountDirectory`, where it is one. `fresh` makes identities unique over
  time. `Role` is constant: no statement changes a role. Administrators are in
  the initial tables, since no request makes one. Reads change nothing and are
  no actions: nothing is said here of what a token can read.
* `TenantLedger` — what `TenantStore` keeps to: every item has one owner, some
  items a worker, and `Request(b)` is what the badge `b` is good for. That is
  less than `ReadMe.md` promises: items of one's own tenant are changed,
  handed over and removed by its badges only, but an administrator's badge closes
  any tenant and anybody's posts tasks to any. A tenant that closes takes its own
  items along and no others, and its holders stop being workers elsewhere.
  Badges are for a tenant one belonged to when asking for it.
  `TenantStore!Ledger` maps a task to the tenant of its project, its assignee
  to its worker and a token to a badge; `ImplementsLedger` asks of each request
  what the badge of its own sender allows, not of any badge that is about.
* `Listing` — `findAll` of all four services (they differ in the table and the
  condition): `FindMany` and `Count` are its two statements, `Receive` the
  answer, after which the client asks for the next page until one is not full.
  The client is no part of the repository; walking pages is what they are for.
  `steady`, `joined` and `left` are history variables. A repeat is the pair of a
  row and the number of times it was found, so that misses do not make up for repeats.
* `MC*` — instances for TLC; `*_proofs` — theorems.

Definitions marked *Mutant* are variants of the definition below them with a
plausible mistake; they are used only to confirm that each property would
notice (`PROJECT.json`, `mutants`).

## What the runs check

| Run | What it shows | Bounds |
|---|---|---|
| `accounts` | tables consistent, requests all or nothing, acknowledged results durable, nothing left of a request answered as its caller's mistake (a status below 500), the two counts of set-up as good as one; refinement of `AccountDirectory` | 3 requests of every kind, 2 addresses, 2 organizations, batches of 2, 1 crash, database fresh or in use |
| `accounts_live` | every submitted request ends although batches deadlock | 3 requests, batches in both orders |
| `breaker` | count and state agree whatever late results arrive; a failed probe reopens; closing takes a probe; recovery, tripping and probing under traffic | 4 callers, threshold 3, timeout of 2 ticks |
| `cache` | at most one entry too many; eviction is least recently used; refinement of `TTLStore`; `cleanup` ends | 3 keys, 2 values, limit 1, clock to 3 |
| `resilience` | a failing dependency gets at most the threshold of failures plus the calls under way between two probes; protection ends by time alone and is prolonged by failures alone; health reports every refusal; every call ends | 2 calls of one operation, 2 attempts, threshold 2, recovery after 2 ticks, life time of 3 |
| `tenants` | references stay whole under cascades; refinement of `TenantLedger`, each request within what its sender's token is good for there; tokens for a tenant one has left run out. It does not show that tenants are isolated: see `foreign_removal` below | administrator and user, 2 organizations, 2 projects, 1 task, any initial staff |
| `listing` | a walk misses no more than was removed, repeats no more than was added, and its total adds up but for the changes | 4 rows, 3 creation times, pages of 2, 3 changes, 1 failed request |

Why the bounds are enough. Three requests give a race of two with a third in
the way; two addresses give every order of two locks, hence a deadlock, and two
organizations a batch that loses one of its own to a removal. A request may
also register into the organization another request is creating. The real batch
limit is 100, but the loop treats all items alike, so two items show first and
last; a batch that is refused is refused before its first call, whether it is
empty or over the limit. Four callers over a threshold of three allow a full
threshold of late failures plus a probe. A cache of one place and three keys
can be empty, full, over-full by one and, were a check missing, by two; with a
clock of four values, entries of one time to live expire while others live. Two calls suffice for one to hold a
breaker that the other has replaced; a life time longer than the recovery lets
a breaker be opened, probed and then expire, and the numbers of attempts and of
breakers alive (one in the cache, one for each call) are small because calls
do not look at each other. Two organizations and two users make an
own and a foreign side for every request, the second project a place for a task
to move to. Four rows in pages of two make up to three pages, enough for a row
to slip over both kinds of border, with common creation times among them.

Clock, crashes and the number of requests are
bounded by `MaxTime`, `MaxCrashes` and `Requests`; in `Listing`, rows, changes and
failures by `MaxRows`, `MaxChanges` and `MaxFailures`, and page numbers stop
behind the last that can have rows; nothing else is. The safety
run of `Accounts` uses the symmetry of the requests, which the specification
treats alike; the runs with liveness use none. Deadlock checking is
off in the `Accounts` runs, where every request is answered in the end, and in
the `LRUCache` runs, where the bounded clock stops, in `TenantStore`, which may
end with no organization and no token, and in `Listing`, where the walk ends.

### Where the code and its words differ

| Run | What TLC finds |
|---|---|
| `setup_race` | Two set-ups both count zero and both succeed; the message of `bootstrap.service.ts:23` says set-up works on a fresh database only. The counts are not part of the transaction, and `IMPLEMENTATION_SUMMARY.md:221` speaks of serializable transactions that no call asks for. |
| `log_in` | `CHANGELOG.md:63` promises bcrypt hashes; `PrismaUsersRepository.create` stores the password as it came, so log-in rejects the account. |
| `own_profile` | `users.controller.ts:64` says a user may edit the own profile; the check compares `req.user.id`, which `JwtStrategy.validate` never sets, so only an `ADMIN` passes it. |
| `foreign_removal` | `ReadMe.md:110`: every database operation is scoped to the authenticated tenant. `OrganizationsController.remove` looks at the role only, so an administrator's token of one organization removes another with its rows. |
| `cache_limit` | `lru-cache.service.ts:42` claims strict enforcement of the limit; within one millisecond there is no victim and the limit is exceeded (by one, as `SizeBound` proves). |

Three more differences are plain from the code and have no run; the models follow
the code in the first two, and have no reads to show the third: `prisma.service.ts:22` announces simulated operations in mock
mode, while only set-up asks for the flag; `ReadMe.md:120` trusts no tenant ID
of a client, while `TasksService.create` takes the project from the body,
whoever's it is (`Post` in `TenantLedger`); and `ReadMe.md:27` keeps another
organization's resources out of reach, while a task is returned with its
assignee, who may belong to another one.

## Fairness

* `Accounts!FairSpec`: weak fairness of each request's own steps (the event
  loop runs every continuation, the database answers every statement that need
  not wait) and of aborting a request that waits for another transaction's
  address: PostgreSQL's deadlock detector and Prisma's transaction timeout end
  such a wait. Nothing forces a submission, a crash, a removal or a spurious abort.
* `CircuitBreaker!FairSpec`: the clock advances and started operations settle
  (the breaker itself sets no timeout, so this is an assumption about the
  operations it is given). That callers keep coming is no fairness but the
  hypothesis `Traffic` of the properties, as is the health of the dependency.
* `LRUCache!FairSpec`: a synchronous call goes on, and the clock with it.
* `Resilience!FairSpec`: the clock goes on, and each call's own steps
  (operations settle, timers fire). Nobody has to call or to look at `/health`,
  and the dependency need not be repaired.
* `TenantStore!FairSpec`: a log-in that has read its row is answered, and every
  token expires (`expiresIn` is set, `ignoreExpiration` is false and nothing
  renews a token). No request has to be sent.

## What is proved

Every invariant, action property and refinement that a passing run checks is also a
theorem, for all values of the constants. The assumptions are those named in
the modules: numbers are naturals (page size, cache limit, threshold, recovery
timeout and attempts at least one); the sets of calls, operation names and keys
are finite; the operation names fit in the cache of breakers (there are two names
and a thousand places); the organizations a database starts with are not those
that requests create, and rows of different tables have different identities;
a single registration carries one item.

`Accounts_proofs` — for all requests, addresses, batch limits and any number of
crashes.

* `Typing` — needs `Cursor`: the position in the batch stays inside it.
* `Consistent` — the inductive invariant `Integrity`. Uniqueness of committed
  rows is not inductive, since a commit adds rows that were checked long
  before. What holds step by step is that the committed and all uncommitted
  rows together hold each address once (`PendingUncommitted`, `PendingApart`),
  and that uncommitted rows have a visible organization (`PendingHosted`).
  `Uniqueness`, `Hosting` and `CountsAgree` follow.

`AccountsAtomicity_proofs` — a request is one step.

* `Atomicity` — the inductive invariant `Atomic`. `AllOrNothing` speaks of
  committed rows only; what makes a commit complete is that the transaction has
  an uncommitted row for every item the cursor has passed (`PendingAll`), all of
  its own (`PendingOwn`). Rows may be missing later because their organization
  was removed; then nobody can bring it back, since its creator is past the
  commit (`OrgsPast`).
* `WholeRequests` and `Durability` follow. `Verdicts` (`ClientErrorsAreFinal`)
  follows from `WholeRequests`: of the results that may stand for an effect,
  only a lost acknowledgement is thrown as an exception, and the filter answers each of its
  forms with 500. `Directory` is the refinement of
  `AccountDirectory`, action by action: `Commit` and `CommitUnacked` are the
  enrolment, `RemoveOrg` the removal, everything else a stutter.

`BreakerOps_proofs` has the facts about the breaker's methods that both of its
users need. `CircuitBreaker_proofs`, for every threshold, timeout and set of
callers: `Typing`; `Counting`, where `ClosedBelowThreshold` and
`ArmedUntilSpared` hold each other up; from it `ProbeReopens`; and
`ClosesByProbe`.

`Resilience_proofs` — for every finite set of calls, all operations, attempts
and life times.

* `Typing` — with it, that the heap holds the breakers that the cache or a call
  refers to and no others. Which those are is a matter of all calls at once, so
  each action is first shown to keep the references of everybody else
  (`SameReferences`, `KeepsOnly`).
* `BreakerStep` — whatever happens in the system, one breaker sees one of six
  things: it is made, spared, asked, worked, failed on, or waited for. The
  theorems below look at these instead of the actions.
* `Window` — `FailuresPerWindow` alone is not inductive: the last failure of a
  window may come from a call that started before the breaker opened. While a
  breaker is not open the failures are no more than its count, which is below
  the threshold or would have opened it. Then `WindowInv` adds to the failures of an open breaker the calls still running
  on it: that sum cannot grow while it is open, because an open breaker starts
  no call.
* `Reported`, `TimeLifts`, `FailuresProlong` — from `Typing` and the clock's
  part in each action.

`LRUCache_proofs` — for every finite set of keys, every limit and clock bound:
`Typing`; `SizeBound`, by the fact that nothing is added between the end of
`cleanup` and the insertion; `EvictionIsLRU` and `Refinement`, both from
`Mirror`: what the Map holds is the last set that counts, with its last use.

`TenantStore_proofs` — for all organizations, users, projects, tasks and
tokens.

* `Typing` — with it, that an identity once given out is not given out again.
* `References` — `NoDangling`, inductive with the types: each action that
  removes a row removes or clears what refers to it.
* `Refinement` — of `TenantLedger`. The owner of a task is derived (through its
  project), so one statement can change the owner of many items, and a removal
  of users changes the workers of tasks that stay. `OwnerWithout`, `OwnerMoved`,
  `OwnerAdded`, `WorkersWithout` and `WorkerGiven` turn what a statement does to
  each row into what it does to the ledger; with them `RequestStep` shows, for
  every request and the badge of its sender, which of the ledger's actions it is,
  and `LedgerStep` adds registration, log-in and expiry.

`Listing_proofs` — for every number of rows and changes and every page size.

* `Typing` — the count of changes stays within its bound because a request
  gains or loses one row at most (`HistoryCounts`).
* `Misses`, `Repeated` — what a walk has missed is only known at its end; before
  that, a row counts as missed when it has not been seen and is ranked in front
  of the next page (`Passed`), and as repeated again when it has been seen and
  is ranked behind it (`Again`). `WalkInv` bounds both by the rows lost and got.
  One change moves every rank by at most one (`RanksMove`), no two steady rows
  have the same (`RanksDiffer`), so one row at most slips over the border
  (`CountsMove`). `PageIs` says where the steady rows of a page are,
  however the database orders rows of one millisecond. Both bounds hold twice,
  for the page the client is at and for the page already read, because a failed
  request goes back to the first.
* `AddsUp` — `TotalInv`: pages before the last were full, so what was shown is
  known from the page number; the page read last and the count are each within
  the changes of the number of rows since.

TLC checked the strengthened invariants `Atomic`, `WindowInv`, `WalkInv` and
`TotalInv` on the bounds of their modules' runs too.

Model-checked only: the liveness properties (`EveryRequestAnswered`,
`RecoversForGood`, `KeepsTripping`, `KeepsProbing`, `CleanupEnds`, `CallsEnd`,
`OldTenantForgotten`), since fairness rests on ENABLED, which the prover does
not handle; the absence of deadlock in the runs that check it, for the same
reason; and the violations above, which are about single behaviours.

## Not modelled

* Mock database and mock Redis: dead code, every operation returns before it
  touches state.
* Validation of payments and of DTOs, decorators, wiring, configuration:
  stateless, declarative.
* Readiness, liveness and memory checks of health, figures that are only
  reported (`getPerformanceMetrics`, sizes, access counts), logging.
* The texts and stacks of the filter's answers. In production the stack is left
  out and `sanitizeMessage` replaces six words; any other text of an exception
  that has a status goes out as it came.
* The usage of the cache of retry policies in the health status, an entry of the
  LRU cache under the empty string (chosen by `evictLRU`, and kept), a clock that
  is set back.
* The cache of retry policies: one operation name always comes with the same
  options, so its entries are equal whenever they are made.
* Names, titles, descriptions, statuses of tasks, filters of lists; a change of
  a user's address or password by an update.
* Time as such: milliseconds are ticks, and only comparisons the code makes
  are kept.

## Plan

What is left is proof, of facts that the liveness properties rest on and that
are safety: that a request to `Accounts` which waits for an address waits for a
transaction that is open, that every turn of `cleanup` makes the cache smaller,
that each step of a call of `execute` uses up an attempt or brings the call
nearer to its end.
