----------------------------- MODULE MCAccounts -----------------------------
(* Small instances of Accounts for TLC. *)
EXTENDS Accounts, TLC

CONSTANTS o1, o2, a, b

One(kind, e, o) == [kind |-> kind, items |-> <<[email |-> e, org |-> o]>>]
Two(e, o, f, p) == [kind |-> "bulk", items |-> <<[email |-> e, org |-> o],
                                                 [email |-> f, org |-> p]>>]

\* Set-ups, registrations into an organization that another request creates,
\* batches over two organizations that take two addresses in opposite orders
\* or one address twice, an empty batch, and single registrations by each path.
AllInputs ==
  {One("setup", a, o1), One("setup", b, o1), One("found", a, o1),
   Two(a, o1, b, o2), Two(b, o2, a, o1), Two(a, o1, a, o2),
   [kind |-> "bulk", items |-> <<>>],
   One("create", b, o1), One("join", a, o2)}
  \cup {One("register", b, r) : r \in Requests \cup {o1}}

\* Batches that deadlock, a registration in their way, and a set-up.
LockInputs == {Two(a, o1, b, o1), Two(b, o1, a, o1),
               One("register", a, o1), One("setup", b, o1)}

\* Set-ups of one system by two administrators.
SetupInputs == {One("setup", a, o1), One("setup", b, o1)}

\* One account by each way to create one.
PathInputs == {One(kind, a, o1) : kind \in Kinds}

RequestSymmetry == Permutations(Requests)
=============================================================================
