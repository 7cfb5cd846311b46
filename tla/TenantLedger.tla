---------------------------- MODULE TenantLedger ----------------------------
(***************************************************************************)
(* Who may do what to whose belongings.  Every item (a holder of badges, a *)
(* project, a task) belongs to one tenant that exists; some items have a   *)
(* worker.  What a badge is good for:                                      *)
(*                                                                         *)
(*   its own tenant's items   to remove, hand over or reassign them; the   *)
(*                            holders among them only if the badge is an   *)
(*                            administrator's, and then to hand over only  *)
(*   its own tenant           to start projects in it                      *)
(*   any tenant               to post tasks to it, for any worker          *)
(*   any tenant               to close it, if the badge is an              *)
(*                            administrator's, of whatever tenant          *)
(*                                                                         *)
(* The last two lines are not what a tenant would ask for; they are what   *)
(* TenantStore.tla, the detailed specification, does.                      *)
(***************************************************************************)
CONSTANTS Tenants, Holders, Admins, Projects, Tasks, NoWorker

VARIABLES tenants,   \* those that exist
          owner,     \* the owner of every item that exists
          worker,    \* the worker of every item that has one
          promised,  \* badges being made
          badges     \* badges in use

ledgerVars == <<tenants, owner, worker, promised, badges>>

Init ==
  /\ tenants \in SUBSET Tenants
  /\ \E staff \in SUBSET Holders : owner \in [staff -> tenants]
  /\ worker = [i \in {} |-> NoWorker]
  /\ promised = {} /\ badges = {}

-----------------------------------------------------------------------------
(* Items *)

Belongings(a)   == {i \in DOMAIN owner : owner[i] = a}
OwnedWith(i, a) == [j \in DOMAIN owner \cup {i} |-> IF j = i THEN a ELSE owner[j]]
OwnedBut(lost)  == [i \in DOMAIN owner \ lost |-> owner[i]]

\* An item that goes needs no worker, one that stays loses a worker who goes.
WorkersBut(lost) ==
  [i \in {j \in DOMAIN worker : j \notin lost /\ worker[j] \notin lost} |-> worker[i]]

\* The task k is done by w from now on, or by nobody.
WorkersWith(k, w) ==
  IF w = NoWorker
  THEN [i \in DOMAIN worker \ {k} |-> worker[i]]
  ELSE [i \in DOMAIN worker \cup {k} |-> IF i = k THEN w ELSE worker[i]]

CanWork(w) == w = NoWorker \/ w \in Holders \cap DOMAIN owner

-----------------------------------------------------------------------------
(* By requests; b is the badge of the one who asks *)

Open(b, a) ==
  /\ b.sub \in Admins
  /\ a \in Tenants \ tenants
  /\ tenants' = tenants \cup {a}
  /\ UNCHANGED <<owner, worker, promised, badges>>

\* A tenant that closes takes along what it owns, and nothing else.
Close(b, a) ==
  /\ b.sub \in Admins
  /\ a \in tenants
  /\ tenants' = tenants \ {a}
  /\ owner' = OwnedBut(Belongings(a))
  /\ worker' = WorkersBut(Belongings(a))
  /\ UNCHANGED <<promised, badges>>

Start(b, p) ==
  /\ p \in Projects \ DOMAIN owner
  /\ b.org \in tenants
  /\ owner' = OwnedWith(p, b.org)
  /\ UNCHANGED <<tenants, worker, promised, badges>>

Post(k, a, w) ==
  /\ k \in Tasks \ DOMAIN owner
  /\ a \in tenants /\ CanWork(w)
  /\ owner' = OwnedWith(k, a)
  /\ worker' = WorkersWith(k, w)
  /\ UNCHANGED <<tenants, promised, badges>>

\* The holder h changes sides and goes on working on whatever it works on.
Transfer(b, h, a) ==
  /\ b.sub \in Admins
  /\ h \in Holders \cap Belongings(b.org)
  /\ a \in tenants
  /\ owner' = OwnedWith(h, a)
  /\ UNCHANGED <<tenants, worker, promised, badges>>

\* Projects and tasks go over together, with their workers.
HandOver(moved, a) ==
  /\ a \in tenants
  /\ owner' = [i \in DOMAIN owner |-> IF i \in moved THEN a ELSE owner[i]]
  /\ UNCHANGED <<tenants, worker, promised, badges>>

Reassign(b, k, a, w) ==
  /\ k \in Tasks \cap Belongings(b.org)
  /\ a \in tenants /\ CanWork(w)
  /\ owner' = OwnedWith(k, a)
  /\ worker' = WorkersWith(k, w)
  /\ UNCHANGED <<tenants, promised, badges>>

Drop(lost) ==
  /\ owner' = OwnedBut(lost)
  /\ worker' = WorkersBut(lost)
  /\ UNCHANGED <<tenants, promised, badges>>

Request(b) ==
  \/ \E a \in Tenants : Open(b, a) \/ Close(b, a)
  \/ \E p \in Projects : Start(b, p)
  \/ \E h \in Holders, a \in tenants : Transfer(b, h, a)
  \/ \E k \in Tasks, a \in tenants, w \in Holders \cup {NoWorker} :
       Post(k, a, w) \/ Reassign(b, k, a, w)
  \/ \E some \in SUBSET (Belongings(b.org) \ Holders) :
       Drop(some) \/ \E a \in tenants : HandOver(some, a)

-----------------------------------------------------------------------------
(* Without a badge *)

\* Anybody may join any tenant, but not as an administrator.
Join(h, a) ==
  /\ h \in Holders \ (Admins \cup DOMAIN owner)
  /\ a \in tenants
  /\ owner' = OwnedWith(h, a)
  /\ UNCHANGED <<tenants, worker, promised, badges>>

\* A badge is for the tenant its holder belonged to when it was asked for.
Promise(h) ==
  /\ h \in DOMAIN owner
  /\ promised' = promised \cup {[sub |-> h, org |-> owner[h]]}
  /\ UNCHANGED <<tenants, owner, worker, badges>>

Issue(b) ==
  /\ b \in promised
  /\ promised' = promised \ {b}
  /\ badges' = badges \cup {b}
  /\ UNCHANGED <<tenants, owner, worker>>

Expire(b) ==
  /\ badges' = badges \ {b}
  /\ UNCHANGED <<tenants, owner, worker, promised>>

Next ==
  \/ \E h \in Holders : Promise(h)
  \/ \E b \in promised : Issue(b)
  \/ \E b \in badges : Expire(b)
  \/ \E h \in Holders, a \in tenants : Join(h, a)
  \/ \E b \in badges : Request(b)

Spec == Init /\ [][Next]_ledgerVars
=============================================================================
