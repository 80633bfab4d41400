----------------------------- MODULE Membership -----------------------------
(***************************************************************************)
(* The members of one organization and the requests that add them, change  *)
(* their roles and remove them.                                            *)
(*                                                                         *)
(* A request reads its actor's role, an admin's request then reads the     *)
(* target's, and only after that is the change made: in memory under the   *)
(* store's lock, over Postgres by a read, a count of the other owners and  *)
(* a write, each a statement of its own.                                   *)
(***************************************************************************)
EXTENDS FiniteSets

CONSTANTS
  Users, Founder,
  Requests,
  Deployments   \* over which storage, and whether requests come one by one

NoRole == "none"
Roles == {"owner", "admin", "analyst", "viewer"}

ASSUME FounderAssumption == Founder \in Users
ASSUME DeploymentsAssumption ==
  Deployments \subseteq [storage: {"postgres", "memory"}, serial: BOOLEAN]

VARIABLES
  deployment,
  role,    \* organization_members: the role of a user, or none
  pc,
  req,     \* what a request asks for; it asks for no role when it removes
  acting,  \* the actor's role, as it was read
  unseen   \* the requests whose read of the target's role failed

vars == <<deployment, role, pc, req, acting, unseen>>

Storage == deployment.storage   \* DATABASE_URL is set and reachable, or not
Serial == deployment.serial     \* a request waits for the one before it

Request ==
  [kind: {"add", "update", "delete"}, target: Users, role: Roles \cup {NoRole}]

Nothing == [kind |-> "delete", target |-> Founder, role |-> NoRole]

TypeOK ==
  /\ deployment \in Deployments
  /\ role \in [Users -> Roles \cup {NoRole}]
  /\ pc \in [Requests -> {"new", "checked", "cleared", "counting", "writing", "done"}]
  /\ req \in [Requests -> Request]
  /\ acting \in [Requests -> Roles \cup {NoRole}]
  /\ unseen \subseteq Requests

(* CreateUserWithDefaultOrganization.                                      *)
Init ==
  /\ deployment \in Deployments
  /\ role = [u \in Users |-> IF u = Founder THEN "owner" ELSE NoRole]
  /\ pc = [q \in Requests |-> "new"]
  /\ req = [q \in Requests |-> Nothing]
  /\ acting = [q \in Requests |-> NoRole]
  /\ unseen = {}

-----------------------------------------------------------------------------
CanManageMembers(r) == r \in {"owner", "admin"}

(* Mutant: an admin may grant any role.                                    *)
CanGrantAny(actor, r) == CanManageMembers(actor) /\ r \in Roles

CanGrantRole(actor, r) ==
  \/ actor = "owner" /\ r \in Roles
  \/ actor = "admin" /\ r \in Roles \ {"owner"}

(* Mutant: the target counts as another owner.                             *)
AnyOwner(u) == \E v \in Users : role[v] = "owner"

OtherOwner(u) == \E v \in Users \ {u} : role[v] = "owner"

AtWork(q) == pc[q] \notin {"new", "done"}

Goto(q, label) == pc' = [pc EXCEPT ![q] = label]

(* requireOrgRole and CanGrantRole; a refused request changes nothing.     *)
Authorize(q, actor, m) ==
  /\ pc[q] = "new"
  /\ Serial => \A o \in Requests : ~ AtWork(o)
  /\ CanManageMembers(role[actor])
  /\ IF m.kind = "delete" THEN m.role = NoRole ELSE CanGrantRole(role[actor], m.role)
  /\ Goto(q, "checked")
  /\ req' = [req EXCEPT ![q] = m]
  /\ acting' = [acting EXCEPT ![q] = role[actor]]
  /\ UNCHANGED <<deployment, role, unseen>>

(* An admin is to change a member that there is.                           *)
LooksAtTarget(q) == pc[q] = "checked" /\ acting[q] = "admin" /\ req[q].kind # "add"

(* Mutant: owners are not spared.                                          *)
ClearAnyTarget(q) ==
  /\ LooksAtTarget(q)
  /\ Goto(q, "cleared")
  /\ UNCHANGED <<deployment, role, req, acting, unseen>>

(* An admin's change of an owner is refused.                               *)
CheckTarget(q) ==
  /\ LooksAtTarget(q)
  /\ Goto(q, IF role[req[q].target] = "owner" THEN "done" ELSE "cleared")
  /\ UNCHANGED <<deployment, role, req, acting, unseen>>

(* The check refuses if err == nil && current.Role == owner: a target that *)
(* could not be read is as good as one that is no owner.                   *)
MissTarget(q) ==
  /\ Storage = "postgres" /\ LooksAtTarget(q)
  /\ Goto(q, "cleared")
  /\ unseen' = unseen \cup {q}
  /\ UNCHANGED <<deployment, role, req, acting>>

Ready(q) ==
  \/ pc[q] = "checked" /\ (acting[q] = "owner" \/ req[q].kind = "add")
  \/ pc[q] = "cleared"

SetRole(u, r) == role' = [role EXCEPT ![u] = r]

(* The unique key, or the lock: a member is not added again.               *)
AddMember(q) ==
  /\ Ready(q) /\ req[q].kind = "add"
  /\ Goto(q, "done")
  /\ IF role[req[q].target] = NoRole
     THEN SetRole(req[q].target, req[q].role) ELSE UNCHANGED role
  /\ UNCHANGED <<deployment, req, acting, unseen>>

(* The target is an owner who would no longer be one.                      *)
LosesOwner(q) == role[req[q].target] = "owner" /\ req[q].role # "owner"

(* updateMemberRole and removeMember under the lock.                       *)
ChangeInMemory(q) ==
  /\ Storage = "memory" /\ Ready(q) /\ req[q].kind # "add"
  /\ Goto(q, "done")
  /\ IF role[req[q].target] # NoRole /\ (LosesOwner(q) => OtherOwner(req[q].target))
     THEN SetRole(req[q].target, req[q].role) ELSE UNCHANGED role
  /\ UNCHANGED <<deployment, req, acting, unseen>>

(* GetMembership in UpdateOrganizationMemberRole, RemoveOrganizationMember. *)
ReadMember(q) ==
  /\ Storage = "postgres" /\ Ready(q) /\ req[q].kind # "add"
  /\ Goto(q, IF role[req[q].target] = NoRole THEN "done"
             ELSE IF LosesOwner(q) THEN "counting" ELSE "writing")
  /\ UNCHANGED <<deployment, role, req, acting, unseen>>

(* ensureNotLastOwner.                                                     *)
CountOwners(q) ==
  /\ pc[q] = "counting"
  /\ Goto(q, IF OtherOwner(req[q].target) THEN "writing" ELSE "done")
  /\ UNCHANGED <<deployment, role, req, acting, unseen>>

(* An UPDATE or DELETE of one row, which may be gone.                      *)
WriteRole(q) ==
  /\ pc[q] = "writing"
  /\ Goto(q, "done")
  /\ IF role[req[q].target] # NoRole
     THEN SetRole(req[q].target, req[q].role) ELSE UNCHANGED role
  /\ UNCHANGED <<deployment, req, acting, unseen>>

(* A statement of the change fails, or the API stops; a failed read of the *)
(* target alone ends nothing (MissTarget).                                 *)
Abandon(q) ==
  /\ Storage = "postgres" /\ AtWork(q)
  /\ Goto(q, "done")
  /\ UNCHANGED <<deployment, role, req, acting, unseen>>

(* createOrganizationV1 in memory gives the founder the organization there *)
(* is, and its ownership if the founder is no member.                      *)
FounderReturns ==
  /\ Storage = "memory" /\ role[Founder] = NoRole
  /\ Serial => \A o \in Requests : ~ AtWork(o)
  /\ SetRole(Founder, "owner")
  /\ UNCHANGED <<deployment, pc, req, acting, unseen>>

RequestStep(q) ==
  \/ \E actor \in Users, m \in Request : Authorize(q, actor, m)
  \/ CheckTarget(q) \/ MissTarget(q) \/ AddMember(q) \/ ChangeInMemory(q)
  \/ ReadMember(q) \/ CountOwners(q) \/ WriteRole(q) \/ Abandon(q)

Next == FounderReturns \/ \E q \in Requests : RequestStep(q)

Spec == Init /\ [][Next]_vars

-----------------------------------------------------------------------------
SomeOwner == \E u \in Users : role[u] = "owner"

(* What keeps a check and its write together: the lock of the memory       *)
(* store, or requests that come one by one.                                *)
Undisturbed == Storage = "memory" \/ Serial

(* "cannot remove the last owner": whatever the requests, the organization *)
(* has an owner (ensureNotLastOwner, otherOwnerCountLocked).               *)
LastOwnerStays == Undisturbed => SomeOwner

(* The request that makes this step.                                       *)
Moves(q) == pc'[q] # pc[q]

(* Over Postgres only who was an owner when the request was authorized     *)
(* makes owners (CanGrantRole); in memory the founder may come back.       *)
OwnersMakeOwners ==
  [][\A u \in Users : Storage = "postgres" /\ role[u] # "owner" /\ role'[u] = "owner" =>
       \E q \in Requests : Moves(q) /\ acting[q] = "owner"]_vars

(* The read of the target's role failed, as only Postgres's may.           *)
CouldNotSee(q) == Storage = "postgres" /\ q \in unseen

TakesByOwnersOnly ==
  \A u \in Users : role[u] = "owner" /\ role'[u] # "owner" =>
    \E q \in Requests : Moves(q) /\ (acting[q] = "owner" \/ CouldNotSee(q))

(* "admin cannot modify an owner", "admin cannot remove an owner": if      *)
(* requests come one by one, an admin's request takes an ownership away    *)
(* only if its own read of the target failed, and in memory none does.     *)
AdminsSpareOwners == [][Serial => TakesByOwnersOnly]_vars

-----------------------------------------------------------------------------
(* A request that has counted left another owner, who is still there when  *)
(* no other request may come in between.                                   *)
CountHolds ==
  Serial => \A q \in Requests : pc[q] = "writing" /\ LosesOwner(q) => OtherOwner(req[q].target)

OneAtATime ==
  Serial => \A q, o \in Requests : AtWork(q) /\ AtWork(o) => q = o

StagesAreOfStorage ==
  Storage = "memory" => \A q \in Requests : pc[q] \notin {"counting", "writing"}

IInv == TypeOK /\ LastOwnerStays /\ CountHolds /\ OneAtATime /\ StagesAreOfStorage

(* What a request was authorized for, and for an admin's: nothing that     *)
(* makes an owner.                                                         *)
GrantedInv ==
  /\ TypeOK
  /\ \A q \in Requests : AtWork(q) =>
       /\ CanManageMembers(acting[q])
       /\ req[q].role = "owner" => acting[q] = "owner"

(* Only Postgres fails to tell a target's role.                            *)
MemorySees == Storage = "memory" => unseen = {}

(* An admin's request that has seen its target is not about an owner.      *)
OwnersSpared ==
  Serial => \A q \in Requests \ unseen :
    pc[q] \in {"cleared", "counting", "writing"} /\ acting[q] # "owner" =>
      role[req[q].target] # "owner"
=============================================================================
