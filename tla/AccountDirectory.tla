-------------------------- MODULE AccountDirectory --------------------------
(***************************************************************************)
(* What the account tables promise to a caller who never sees a            *)
(* transaction: organizations and user accounts appear all at once, for    *)
(* one request at a time, and disappear only with their organization.      *)
(* Accounts.tla is the detailed specification that implements this one.    *)
(***************************************************************************)
EXTENDS Naturals

CONSTANTS Requests, Emails, SeedOrgs

VARIABLES orgs,    \* organizations that exist
          users    \* accounts: [id, email, org, role, hashed], id = <<request, n>>

dirVars == <<orgs, users>>

OrgIds == SeedOrgs \cup Requests

Init == /\ orgs \in {{}, SeedOrgs}
        /\ users = {}

(***************************************************************************)
(* One request r adds its accounts, and at most the one organization named *)
(* r with its first account, in a single step it takes once.  No email     *)
(* address is used twice and every account belongs to an organization that *)
(* exists.                                                                 *)
(***************************************************************************)
Enroll(r) ==
  /\ orgs' = orgs \/ orgs' = orgs \cup {r}
  /\ users \subseteq users'
  /\ r \notin orgs /\ \A u \in users : u.id[1] # r
  /\ r \in orgs' => \E u \in users' : u.org = r
  /\ \A u \in users' \ users : /\ u.id[1] = r
                               /\ u.org \in orgs'
                               /\ \A v \in users' : v.email = u.email => v = u

(***************************************************************************)
(* An organization goes away and takes exactly its own accounts with it.   *)
(***************************************************************************)
Dissolve(o) ==
  /\ o \in orgs
  /\ orgs' = orgs \ {o}
  /\ users' = {u \in users : u.org # o}

Next == \/ \E r \in Requests : Enroll(r)
        \/ \E o \in OrgIds : Dissolve(o)

Spec == Init /\ [][Next]_dirVars
=============================================================================
