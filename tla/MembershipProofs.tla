-------------------------- MODULE MembershipProofs --------------------------
(***************************************************************************)
(* Proofs about Membership, for any users and any number of requests: an   *)
(* owner is left as long as the check and the write it is for are not      *)
(* interleaved, and ownership is given by owners only.                     *)
(***************************************************************************)
EXTENDS Membership, TLAPS

LEMMA InitIInv == Init => IInv
<1> SUFFICES ASSUME Init PROVE IInv
  OBVIOUS
<1> USE FounderAssumption
<1>1. TypeOK
  BY DEF Init, TypeOK, Roles, NoRole, Request, Nothing
<1>2. SomeOwner
  BY DEF Init, SomeOwner
<1>2a. LastOwnerStays
  BY <1>2 DEF LastOwnerStays
<1>3. CountHolds /\ OneAtATime /\ StagesAreOfStorage
  BY DEF Init, CountHolds, OneAtATime, StagesAreOfStorage, AtWork
<1> QED BY <1>1, <1>2a, <1>3 DEF IInv

(* A deployment stays what it is.                                          *)
LEMMA SameDeployment == [Next]_vars => deployment' = deployment
BY DEF Next, RequestStep, FounderReturns, Authorize, CheckTarget, MissTarget, AddMember, ChangeInMemory,
       ReadMember, CountOwners, WriteRole, Abandon, vars

LEMMA SameStorage == [Next]_vars => Storage' = Storage /\ Serial' = Serial /\ Undisturbed' = Undisturbed
BY SameDeployment DEF Storage, Serial, Undisturbed

LEMMA TypeStep == TypeOK /\ [Next]_vars => TypeOK'
<1> SUFFICES ASSUME TypeOK, [Next]_vars PROVE TypeOK'
  OBVIOUS
<1> USE FounderAssumption, SameDeployment DEF TypeOK, SetRole, Goto
<1>1. CASE FounderReturns
  BY <1>1 DEF FounderReturns, Roles
<1>2. ASSUME NEW q \in Requests, RequestStep(q) PROVE TypeOK'
  <2>0. req[q] \in Request /\ req[q].target \in Users /\ req[q].role \in Roles \cup {NoRole}
    BY DEF Request
  <2>1. ASSUME NEW actor \in Users, NEW m \in Request, Authorize(q, actor, m) PROVE TypeOK'
    BY <2>1 DEF Authorize
  <2>2. CASE CheckTarget(q) \/ MissTarget(q)
    BY <2>2 DEF CheckTarget, MissTarget
  <2>3. CASE AddMember(q) \/ ChangeInMemory(q) \/ WriteRole(q)
    <3>1. role' \in [Users -> Roles \cup {NoRole}]
      BY <2>0, <2>3 DEF AddMember, ChangeInMemory, WriteRole
    <3>2. pc' = [pc EXCEPT ![q] = "done"] /\ UNCHANGED <<req, acting, unseen>>
      BY <2>3 DEF AddMember, ChangeInMemory, WriteRole
    <3> QED BY <3>1, <3>2
  <2>4. CASE ReadMember(q)
    BY <2>4 DEF ReadMember
  <2>5. CASE CountOwners(q) \/ Abandon(q)
    BY <2>5 DEF CountOwners, Abandon
  <2> QED BY <1>2, <2>1, <2>2, <2>3, <2>4, <2>5 DEF RequestStep
<1>3. CASE UNCHANGED vars
  BY <1>3 DEF vars
<1> QED BY <1>1, <1>2, <1>3 DEF Next

-----------------------------------------------------------------------------
(* A change of a role leaves an owner when it takes the ownership of none, *)
(* or of one beside whom there is another.                                 *)
LEMMA ChangeLeavesAnOwner ==
  ASSUME TypeOK, SomeOwner, NEW u \in Users, NEW r, SetRole(u, r),
         role[u] = "owner" /\ r # "owner" => OtherOwner(u)
  PROVE  SomeOwner'
<1>1. PICK v \in Users : role[v] = "owner" /\ (v = u => r = "owner")
  <2>1. CASE role[u] = "owner" /\ r # "owner"
    BY <2>1 DEF OtherOwner
  <2>2. CASE ~ (role[u] = "owner" /\ r # "owner")
    BY <2>2 DEF SomeOwner
  <2> QED BY <2>1, <2>2
<1>2. role'[v] = "owner"
  BY <1>1 DEF SetRole, TypeOK
<1> QED BY <1>2 DEF SomeOwner

LEMMA OwnerStep == IInv /\ [Next]_vars => LastOwnerStays'
<1> SUFFICES ASSUME IInv, Undisturbed, [Next]_vars PROVE SomeOwner'
  BY SameStorage DEF LastOwnerStays
<1>0. TypeOK /\ SomeOwner
  BY DEF IInv, LastOwnerStays
<1>1. CASE FounderReturns
  BY <1>0, <1>1, FounderAssumption, ChangeLeavesAnOwner DEF FounderReturns
<1>2. ASSUME NEW q \in Requests, RequestStep(q) PROVE SomeOwner'
  <2>0. req[q].target \in Users
    BY <1>0 DEF TypeOK, Request
  <2>1. CASE AddMember(q) /\ role' # role
    <3>1. SetRole(req[q].target, req[q].role) /\ role[req[q].target] # "owner"
      BY <2>1 DEF AddMember, NoRole
    <3> QED BY <1>0, <2>0, <3>1, ChangeLeavesAnOwner
  <2>2. CASE ChangeInMemory(q) /\ role' # role
    BY <1>0, <2>0, <2>2, ChangeLeavesAnOwner DEF ChangeInMemory, LosesOwner
  <2>3. CASE WriteRole(q) /\ role' # role
    <3>1. pc[q] = "writing" /\ Serial
      BY <2>3 DEF WriteRole, IInv, StagesAreOfStorage, Undisturbed
    <3>2. LosesOwner(q) => OtherOwner(req[q].target)
      BY <3>1 DEF IInv, CountHolds
    <3>3. SetRole(req[q].target, req[q].role)
      BY <2>3 DEF WriteRole
    <3> QED BY <1>0, <2>0, <3>2, <3>3, ChangeLeavesAnOwner DEF LosesOwner
  <2>4. CASE role' = role
    BY <1>0, <2>4 DEF SomeOwner
  <2> QED BY <1>2, <2>1, <2>2, <2>3, <2>4
          DEF RequestStep, Authorize, CheckTarget, MissTarget, ReadMember, CountOwners, Abandon
<1>3. CASE UNCHANGED vars
  BY <1>0, <1>3 DEF vars, SomeOwner
<1> QED BY <1>1, <1>2, <1>3 DEF Next

-----------------------------------------------------------------------------
(* The rest of the invariant: whose turn it is, and what the count saw.    *)
LEMMA TurnStep ==
  IInv /\ [Next]_vars => OneAtATime' /\ StagesAreOfStorage'
<1> SUFFICES ASSUME IInv, [Next]_vars PROVE OneAtATime' /\ StagesAreOfStorage'
  OBVIOUS
<1> USE SameStorage DEF IInv, TypeOK, OneAtATime, StagesAreOfStorage, AtWork, Goto
<1>1. CASE FounderReturns
  BY <1>1 DEF FounderReturns
<1>2. ASSUME NEW q \in Requests, RequestStep(q) PROVE OneAtATime' /\ StagesAreOfStorage'
  <2>1. ASSUME NEW actor \in Users, NEW m \in Request, Authorize(q, actor, m)
        PROVE  OneAtATime' /\ StagesAreOfStorage'
    BY <2>1 DEF Authorize
  <2>2. \/ CheckTarget(q) \/ MissTarget(q) \/ AddMember(q) \/ ChangeInMemory(q)
        \/ WriteRole(q) \/ Abandon(q)
        => OneAtATime' /\ StagesAreOfStorage'
    <3> SUFFICES ASSUME \/ CheckTarget(q) \/ MissTarget(q) \/ AddMember(q) \/ ChangeInMemory(q)
                        \/ WriteRole(q) \/ Abandon(q)
                 PROVE  OneAtATime' /\ StagesAreOfStorage'
      OBVIOUS
    <3>1. /\ AtWork(q)
          /\ pc' \in {[pc EXCEPT ![q] = "done"], [pc EXCEPT ![q] = "cleared"]}
      BY DEF CheckTarget, MissTarget, LooksAtTarget, AddMember, ChangeInMemory, WriteRole, Abandon, Ready
    <3> QED BY <3>1
  <2>3. CASE ReadMember(q)
    BY <2>3 DEF ReadMember, Ready
  <2>4. CASE CountOwners(q)
    BY <2>4 DEF CountOwners
  <2> QED BY <1>2, <2>1, <2>2, <2>3, <2>4 DEF RequestStep
<1>3. CASE UNCHANGED vars
  BY <1>3 DEF vars
<1> QED BY <1>1, <1>2, <1>3 DEF Next

LEMMA CountStep == IInv /\ [Next]_vars => CountHolds'
<1> SUFFICES ASSUME IInv, [Next]_vars, Serial,
                    NEW o \in Requests, (pc[o] = "writing" /\ LosesOwner(o))'
             PROVE  OtherOwner(req[o].target)'
  BY SameStorage DEF CountHolds
<1> USE DEF IInv, TypeOK, Goto
<1>1. CASE FounderReturns
  BY <1>1 DEF FounderReturns, StagesAreOfStorage
<1>2. ASSUME NEW q \in Requests, RequestStep(q) PROVE OtherOwner(req[o].target)'
  <2>1. CASE q = o
    <3>1. CASE ReadMember(q)
      BY <2>1, <3>1 DEF ReadMember, LosesOwner
    <3>2. CASE CountOwners(q)
      BY <2>1, <3>2 DEF CountOwners, OtherOwner
    <3>3. pc'[q] # "writing" \/ ReadMember(q) \/ CountOwners(q)
      BY <1>2 DEF RequestStep, Authorize, CheckTarget, MissTarget, AddMember, ChangeInMemory, WriteRole, Abandon
    <3> QED BY <2>1, <3>1, <3>2, <3>3
  <2>2. CASE q # o
    <3>1. pc[o] = "writing" /\ AtWork(o)
      BY <1>2, <2>2 DEF RequestStep, Authorize, CheckTarget, MissTarget, AddMember, ChangeInMemory,
                        ReadMember, CountOwners, WriteRole, Abandon, AtWork
    <3>2. ~ AtWork(q)
      BY <2>2, <3>1 DEF OneAtATime
    <3>3. PICK actor \in Users, m \in Request : Authorize(q, actor, m)
      BY <1>2, <3>2 DEF RequestStep, CheckTarget, MissTarget, AddMember, ChangeInMemory, ReadMember,
                        CountOwners, WriteRole, Abandon, Ready, LooksAtTarget, AtWork
    <3> QED BY <3>1, <3>3 DEF Authorize
  <2> QED BY <2>1, <2>2
<1>3. CASE UNCHANGED vars
  BY <1>3 DEF vars, CountHolds, LosesOwner, OtherOwner
<1> QED BY <1>1, <1>2, <1>3 DEF Next

(* The inductive invariant, of every deployment.                           *)
THEOREM Invariance == Spec => []IInv
<1>1. IInv /\ [Next]_vars => IInv'
  BY TypeStep, OwnerStep, CountStep, TurnStep DEF IInv
<1> QED BY InitIInv, <1>1, PTL DEF Spec

(* "cannot remove the last owner" holds in memory, and over Postgres when  *)
(* requests do not overlap.                                                *)
THEOREM OwnerIsKept == Spec => []LastOwnerStays
<1>1. IInv => LastOwnerStays
  BY DEF IInv
<1> QED BY Invariance, <1>1, PTL

-----------------------------------------------------------------------------
(* A request goes on under the role it was authorized with.                *)
THEOREM Granted == Spec => []GrantedInv
<1>1. Init => GrantedInv
  BY InitIInv DEF IInv, GrantedInv, Init, AtWork
<1>2. GrantedInv /\ [Next]_vars => GrantedInv'
  <2> SUFFICES ASSUME GrantedInv, [Next]_vars, NEW o \in Requests, AtWork(o)'
               PROVE  (/\ CanManageMembers(acting[o])
                       /\ req[o].role = "owner" => acting[o] = "owner")'
    BY TypeStep DEF GrantedInv
  <2> USE DEF GrantedInv, TypeOK, AtWork, Goto
  <2>1. CASE FounderReturns
    BY <2>1 DEF FounderReturns
  <2>2. ASSUME NEW q \in Requests, RequestStep(q)
        PROVE  (/\ CanManageMembers(acting[o])
                /\ req[o].role = "owner" => acting[o] = "owner")'
    <3>1. ASSUME NEW actor \in Users, NEW m \in Request, Authorize(q, actor, m), q = o
          PROVE  (/\ CanManageMembers(acting[o])
                  /\ req[o].role = "owner" => acting[o] = "owner")'
      BY <3>1 DEF Authorize, CanManageMembers, CanGrantRole, NoRole, Roles
    <3>2. CASE AtWork(o) /\ req'[o] = req[o] /\ acting'[o] = acting[o]
      BY <3>2
    <3>3. \/ AtWork(o) /\ req'[o] = req[o] /\ acting'[o] = acting[o]
          \/ q = o /\ \E actor \in Users, m \in Request : Authorize(q, actor, m)
      BY <2>2 DEF RequestStep, Authorize, CheckTarget, MissTarget, AddMember, ChangeInMemory,
                  ReadMember, CountOwners, WriteRole, Abandon, Ready, LooksAtTarget
    <3> QED BY <3>1, <3>2, <3>3
  <2>3. CASE UNCHANGED vars
    BY <2>3 DEF vars
  <2> QED BY <2>1, <2>2, <2>3 DEF Next
<1> QED BY <1>1, <1>2, PTL DEF Spec

(* Over Postgres only who was an owner when authorized makes owners, even  *)
(* with requests that overlap.                                             *)
THEOREM OwnersOnly == Spec => OwnersMakeOwners
<1>1. GrantedInv /\ [Next]_vars =>
        [\A u \in Users : Storage = "postgres" /\ role[u] # "owner" /\ role'[u] = "owner" =>
           \E q \in Requests : Moves(q) /\ acting[q] = "owner"]_vars
  <2> SUFFICES ASSUME GrantedInv, Next, NEW u \in Users, Storage = "postgres", role[u] # "owner", role'[u] = "owner"
               PROVE  \E q \in Requests : Moves(q) /\ acting[q] = "owner"
    OBVIOUS
  <2>1. PICK q \in Requests : RequestStep(q)
    BY DEF Next, FounderReturns
  <2>2. AddMember(q) \/ WriteRole(q)
    BY <2>1 DEF RequestStep, Authorize, CheckTarget, MissTarget, ChangeInMemory, ReadMember, CountOwners, Abandon
  <2>3. AtWork(q) /\ pc'[q] = "done" /\ req[q].role = "owner"
    BY <2>2 DEF AddMember, WriteRole, Ready, AtWork, SetRole, Goto, GrantedInv, TypeOK
  <2> QED BY <2>3 DEF GrantedInv, Moves, AtWork
<1> QED BY Granted, <1>1, PTL DEF Spec, OwnersMakeOwners

-----------------------------------------------------------------------------
(* In memory every target is seen.                                         *)
LEMMA SeenStep == TypeOK /\ MemorySees /\ [Next]_vars => MemorySees'
<1> SUFFICES ASSUME TypeOK, MemorySees, [Next]_vars, Storage = "memory" PROVE unseen' = {}
  BY SameStorage DEF MemorySees
<1>1. unseen = {}
  BY DEF MemorySees
<1>2. unseen' = unseen
  BY DEF Next, RequestStep, FounderReturns, Authorize, CheckTarget, MissTarget, AddMember,
         ChangeInMemory, ReadMember, CountOwners, WriteRole, Abandon, vars
<1> QED BY <1>1, <1>2

(* Who is not acting as an owner has seen the target, and nobody came in   *)
(* between.                                                                *)
LEMMA SparedStep == IInv /\ GrantedInv /\ OwnersSpared /\ [Next]_vars => OwnersSpared'
<1> SUFFICES ASSUME IInv, GrantedInv, OwnersSpared, [Next]_vars, Serial,
                    NEW o \in Requests, o \notin unseen',
                    (pc[o] \in {"cleared", "counting", "writing"} /\ acting[o] # "owner")'
             PROVE  (role[req[o].target] # "owner")'
  BY SameStorage DEF OwnersSpared
<1> USE DEF IInv, TypeOK, Goto
<1>1. CASE FounderReturns
  BY <1>1 DEF FounderReturns, AtWork
<1>2. ASSUME NEW q \in Requests, RequestStep(q) PROVE (role[req[o].target] # "owner")'
  <2>1. CASE q = o
    <3>1. CASE CheckTarget(q) \/ MissTarget(q)
      BY <2>1, <3>1 DEF CheckTarget, MissTarget
    <3>2. CASE ReadMember(q) \/ CountOwners(q)
      <4>1. /\ pc[q] \in {"cleared", "counting"}
            /\ acting[q] # "owner"
            /\ UNCHANGED <<role, req, unseen>>
        BY <2>1, <3>2 DEF ReadMember, CountOwners, Ready
      <4> QED BY <2>1, <4>1 DEF OwnersSpared
    <3>3. \/ pc'[q] \notin {"cleared", "counting", "writing"}
          \/ CheckTarget(q) \/ MissTarget(q) \/ ReadMember(q) \/ CountOwners(q)
      BY <1>2 DEF RequestStep, Authorize, AddMember, ChangeInMemory, WriteRole, Abandon
    <3> QED BY <2>1, <3>1, <3>2, <3>3
  <2>2. CASE q # o
    <3>1. AtWork(o)
      BY <1>2, <2>2 DEF RequestStep, Authorize, CheckTarget, MissTarget, AddMember, ChangeInMemory,
                        ReadMember, CountOwners, WriteRole, Abandon, AtWork
    <3>2. ~ AtWork(q)
      BY <2>2, <3>1 DEF OneAtATime
    <3>3. PICK actor \in Users, m \in Request : Authorize(q, actor, m)
      BY <1>2, <3>2 DEF RequestStep, CheckTarget, MissTarget, AddMember, ChangeInMemory, ReadMember,
                        CountOwners, WriteRole, Abandon, Ready, LooksAtTarget, AtWork
    <3> QED BY <3>1, <3>3 DEF Authorize
  <2> QED BY <2>1, <2>2
<1>3. CASE UNCHANGED vars
  BY <1>3 DEF vars, OwnersSpared
<1> QED BY <1>1, <1>2, <1>3 DEF Next

(* "admin cannot modify an owner", "admin cannot remove an owner": with    *)
(* requests one by one, an ownership is taken only by who was an owner     *)
(* when authorized, or over Postgres by a request that could not read its  *)
(* target's role.                                                          *)
THEOREM OwnersAreSpared == Spec => AdminsSpareOwners
<1>1. Init => OwnersSpared /\ MemorySees
  BY DEF Init, OwnersSpared, MemorySees
<1>2. IInv /\ GrantedInv /\ OwnersSpared /\ MemorySees /\ [Next]_vars =>
        [Serial => TakesByOwnersOnly]_vars
  <2> SUFFICES ASSUME IInv, GrantedInv, OwnersSpared, MemorySees, Next, Serial,
                      NEW u \in Users, role[u] = "owner", role'[u] # "owner"
               PROVE  \E q \in Requests : Moves(q) /\ (acting[q] = "owner" \/ CouldNotSee(q))
    BY DEF TakesByOwnersOnly
  <2> USE DEF IInv, TypeOK, Goto, SetRole
  <2>1. PICK q \in Requests : RequestStep(q)
    BY FounderAssumption DEF Next, FounderReturns
  <2>2. ChangeInMemory(q) \/ WriteRole(q)
    BY <2>1 DEF RequestStep, Authorize, CheckTarget, MissTarget, AddMember, ReadMember, CountOwners,
                Abandon, Request, NoRole
  <2>3. /\ AtWork(q) /\ pc'[q] = "done"
        /\ req[q].target = u
        /\ pc[q] \in {"cleared", "writing"} \/ acting[q] = "owner"
    BY <2>2 DEF ChangeInMemory, WriteRole, Ready, AtWork, Request
  <2>4. acting[q] = "owner" \/ CouldNotSee(q)
    <3>1. CASE q \in unseen
      BY <3>1, DeploymentsAssumption DEF MemorySees, CouldNotSee, Storage
    <3>2. CASE q \notin unseen
      BY <2>3, <3>2 DEF OwnersSpared
    <3> QED BY <3>1, <3>2
  <2> QED BY <2>3, <2>4 DEF Moves, AtWork
<1>3. IInv => TypeOK
  BY DEF IInv
<1> QED BY Invariance, Granted, SparedStep, SeenStep, <1>1, <1>3, <1>2, PTL DEF Spec, AdminsSpareOwners
=============================================================================
