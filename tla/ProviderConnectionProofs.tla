---------------------- MODULE ProviderConnectionProofs ----------------------
(***************************************************************************)
(* Proofs about ProviderConnection: what the OAuth state protects, for any *)
(* states, requests and organizations and under every fault.               *)
(***************************************************************************)
EXTENDS ProviderConnection, TLAPS

(* Every callback and every disconnect is a request, and never both.       *)
LEMMA CallbackSort ==
  \A c \in Callbacks : c \in Requests /\ c \notin Disconnects /\ StateOf[c] \in States
BY DisconnectAssumption, CallbackAssumption DEF Requests

LEMMA DisconnectSort == \A x \in Disconnects : x \in Requests /\ x \notin Callbacks
BY DisconnectAssumption DEF Requests

(* A deployment stays what it is.                                          *)
LEMMA SameDeployment == [Next]_vars => deployment' = deployment /\ Storage' = Storage
<1>1. [Next]_vars => deployment' = deployment
  BY DEF Next, Issue, Expire, CallbackStep, CheckState, MarkUsed, Refuse, ExchangeCode,
         UpsertConnection, DisconnectStep, ReadConnection, Revoke, RevokeFails,
         MarkDisconnected, DatabaseError, StripeError, TokenError, Crash, RestartInMemory, vars
<1> QED BY <1>1 DEF Storage

(* At the start no state is issued and nothing is granted.                 *)
LEMMA InitBaseInv == Init => BaseInv
BY DEF Init, BaseInv, TypeOK, BurntBeforeExchange, PastCheck, Requests,
       Connection, Absent

(* Issuing or expiring a state: a used one stays used.                     *)
LEMMA StateStep ==
  ASSUME BaseInv, NEW s \in States, Issue(s) \/ Expire(s)
  PROVE  BaseInv'
BY CallbackSort DEF BaseInv, TypeOK, BurntBeforeExchange, PastCheck, Issue, Expire

(* The callback before the exchange: to be past the check is to have       *)
(* marked the state.                                                       *)
LEMMA CheckStep ==
  ASSUME BaseInv, NEW c \in Callbacks, CheckState(c) \/ MarkUsed(c) \/ Refuse(c)
  PROVE  BaseInv'
<1>1. CASE CheckState(c)
  <2>1. TypeOK'
    BY CallbackSort, <1>1 DEF CheckState, Goto, BaseInv, TypeOK
  <2>2. BurntBeforeExchange'
    BY CallbackSort, <1>1, DeploymentsAssumption
       DEF CheckState, Goto, BaseInv, TypeOK, BurntBeforeExchange, PastCheck, Storage
  <2> QED BY <2>1, <2>2 DEF BaseInv
<1>2. CASE MarkUsed(c)
  <2>1. TypeOK'
    BY CallbackSort, <1>2 DEF MarkUsed, Goto, BaseInv, TypeOK
  <2>2. BurntBeforeExchange'
    BY CallbackSort, <1>2 DEF MarkUsed, Goto, BaseInv, TypeOK, BurntBeforeExchange, PastCheck
  <2> QED BY <2>1, <2>2 DEF BaseInv
<1>3. CASE Refuse(c)
  BY CallbackSort, <1>3 DEF Refuse, Goto, BaseInv, TypeOK, BurntBeforeExchange, PastCheck
<1> QED BY <1>1, <1>2, <1>3

LEMMA ExchangeStep ==
  ASSUME BaseInv, NEW c \in Callbacks, ExchangeCode(c) \/ UpsertConnection(c)
  PROVE  BaseInv'
<1>1. TypeOK'
  <2>1. CASE ExchangeCode(c)
    BY <2>1, CallbackSort DEF ExchangeCode, Goto, BaseInv, TypeOK
  <2>2. CASE UpsertConnection(c)
    <3>1. [status |-> "connected", grant |-> c, deferred |-> FALSE] \in Connection
      BY DEF Connection
    <3> QED BY <2>2, <3>1, CallbackSort DEF UpsertConnection, Goto, BaseInv, TypeOK
  <2> QED BY <2>1, <2>2
<1>2. BurntBeforeExchange'
  BY CallbackSort DEF ExchangeCode, UpsertConnection, Goto, BaseInv, TypeOK,
         BurntBeforeExchange, PastCheck
<1> QED BY <1>1, <1>2 DEF BaseInv

(* A disconnect touches neither states nor callbacks.                      *)
LEMMA DisconnectTypes ==
  ASSUME TypeOK, NEW x \in Disconnects, DisconnectStep(x)
  PROVE  /\ TypeOK'
         /\ UNCHANGED <<state, granted>>
         /\ \A c \in Callbacks : pc'[c] = pc[c]
<1>1. CASE ReadConnection(x)
  BY <1>1, DisconnectSort, DisconnectAssumption
     DEF ReadConnection, Goto, TypeOK, Requests
<1>2. CASE Revoke(x)
  BY <1>2, DisconnectSort DEF Revoke, Grants, Goto, TypeOK, Requests
<1>3. CASE RevokeFails(x)
  BY <1>3, DisconnectSort DEF RevokeFails, Goto, TypeOK, Requests, Connection
<1>4. CASE MarkDisconnected(x)
  <2>1. conn' \in [Orgs -> Connection]
    <3>1. conn[OrgOf[x]] \in Connection /\ saw[x] \in Connection
      BY DisconnectAssumption DEF TypeOK
    <3>2. [conn[OrgOf[x]] EXCEPT !.status = "disconnected", !.deferred = saw[x].deferred]
            \in Connection
      BY <3>1 DEF Connection
    <3>3. \/ conn' = conn
          \/ conn' = [conn EXCEPT ![OrgOf[x]] =
               [conn[OrgOf[x]] EXCEPT !.status = "disconnected", !.deferred = saw[x].deferred]]
      BY <1>4, DisconnectAssumption DEF MarkDisconnected, TypeOK, Connection
    <3> QED BY <3>2, <3>3 DEF TypeOK
  <2> QED BY <1>4, <2>1, DisconnectSort DEF MarkDisconnected, Goto, TypeOK, Requests
<1> QED BY <1>1, <1>2, <1>3, <1>4 DEF DisconnectStep

(* A fault ends a request, or lets it go on as if it had read nothing; a   *)
(* lost grant is of a callback that had consumed its state.                *)
LEMMA FaultStep ==
  ASSUME TypeOK, NEW r \in Requests,
         DatabaseError(r) \/ StripeError(r) \/ TokenError(r) \/ Crash(r)
  PROVE  /\ TypeOK'
         /\ UNCHANGED state
         /\ \A c \in Callbacks : PastCheck(c)' => PastCheck(c)
         /\ \A c \in Callbacks : pc'[c] = "checked" => pc[c] = "checked"
<1>1. CASE DatabaseError(r)
  BY <1>1, CallbackSort, DisconnectSort DEF DatabaseError, Goto, TypeOK, PastCheck
<1>2. CASE Crash(r)
  BY <1>2, CallbackSort DEF Crash, Goto, TypeOK, PastCheck
<1>3. CASE StripeError(r)
  <2>1. CASE r \in Callbacks
    BY <1>3, <2>1, CallbackSort, DisconnectSort DEF StripeError, Goto, TypeOK, PastCheck, Requests
  <2>2. CASE r \in Disconnects
    <3>1. saw' \in [Disconnects -> Connection]
      <4>1. saw' = [saw EXCEPT ![r].deferred = TRUE]
        BY <1>3, <2>2, DisconnectSort DEF StripeError
      <4> QED BY <4>1 DEF TypeOK, Connection
    <3> QED
      BY <1>3, <2>2, <3>1, CallbackSort, DisconnectSort
         DEF StripeError, Goto, TypeOK, PastCheck, Grants
  <2> QED BY <1>3, <2>1, <2>2 DEF StripeError
<1>4. CASE TokenError(r)
  <2>1. CASE r \in Callbacks
    BY <1>4, <2>1, CallbackSort DEF TokenError, Goto, TypeOK, PastCheck
  <2>2. CASE r \in Disconnects
    <3>1. saw[r].grant \in Callbacks \cup {NoGrant}
      BY <2>2 DEF TypeOK, Connection
    <3>2. unread' \subseteq Callbacks \cup {NoGrant}
      BY <1>4, <2>2, <3>1, DisconnectSort DEF TokenError, TypeOK
    <3> QED BY <1>4, <2>2, <3>2, CallbackSort, DisconnectSort DEF TokenError, Goto, TypeOK, PastCheck
  <2> QED BY <1>4, <2>1, <2>2 DEF TokenError
<1> QED BY <1>1, <1>2, <1>3, <1>4

(* A restart in memory uses up every state.                                *)
LEMMA RestartStep ==
  ASSUME TypeOK, RestartInMemory
  PROVE  /\ TypeOK'
         /\ BurntBeforeExchange => BurntBeforeExchange'
         /\ \A c \in Callbacks : PastCheck(c)' => PastCheck(c)
         /\ \A c \in Callbacks : pc'[c] = "checked" => pc[c] = "checked"
<1>1. /\ \A r \in Requests : pc'[r] = IF AtWork(r) THEN "done" ELSE pc[r]
      /\ \A s \in States : state'[s] = IF state[s] = "unissued" THEN "unissued" ELSE "used"
      /\ UNCHANGED <<deployment, expired, granted, revoked, saw, unread>>
  BY DEF RestartInMemory
<1>2. TypeOK'
  BY <1>1 DEF RestartInMemory, TypeOK, Connection, Absent
<1>3. \A c \in Callbacks : PastCheck(c)' => PastCheck(c)
  BY <1>1, CallbackSort DEF PastCheck, AtWork
<1>4. BurntBeforeExchange => BurntBeforeExchange'
  BY <1>1, <1>3, CallbackSort DEF BurntBeforeExchange
<1> QED BY <1>1, <1>2, <1>3, <1>4, CallbackSort DEF AtWork

LEMMA StepBaseInv == BaseInv /\ [Next]_vars => BaseInv'
<1> SUFFICES ASSUME BaseInv, [Next]_vars PROVE BaseInv'
  OBVIOUS
<1>1. ASSUME NEW s \in States, Issue(s) \/ Expire(s) PROVE BaseInv'
  BY <1>1, StateStep
<1>2. ASSUME NEW c \in Callbacks, CallbackStep(c) PROVE BaseInv'
  BY <1>2, CheckStep, ExchangeStep DEF CallbackStep
<1>3. ASSUME NEW x \in Disconnects, DisconnectStep(x) PROVE BaseInv'
  BY <1>3, DisconnectTypes DEF BaseInv, BurntBeforeExchange, PastCheck
<1>4. ASSUME NEW r \in Requests,
             DatabaseError(r) \/ StripeError(r) \/ TokenError(r) \/ Crash(r)
      PROVE  BaseInv'
  BY <1>4, FaultStep DEF BaseInv, BurntBeforeExchange
<1>6. CASE RestartInMemory
  BY <1>6, RestartStep DEF BaseInv
<1>5. CASE UNCHANGED vars
  BY <1>5 DEF vars, BaseInv, TypeOK, BurntBeforeExchange, PastCheck
<1> QED BY <1>1, <1>2, <1>3, <1>4, <1>5, <1>6 DEF Next

THEOREM BaseInvariance == Spec => []BaseInv
BY InitBaseInv, StepBaseInv, PTL DEF Spec

(* The code of a callback is exchanged, and a grant given, only when its   *)
(* state has been marked used: a callback that ends early leaves no state  *)
(* behind with which it could be repeated.                                 *)
THEOREM StateIsBurnt == Spec => []BurntBeforeExchange
<1>1. BaseInv => BurntBeforeExchange
  BY DEF BaseInv
<1> QED BY <1>1, BaseInvariance, PTL

(* Without a database a state admits one callback: check and mark are one  *)
(* step under the store's lock.                                            *)
THEOREM StateIsUsedOnce == Spec => []LockedExchange
<1>1. Init => OnceInv
  BY InitBaseInv DEF Init, OnceInv, OneExchangePerState, PastCheck, Requests
<1>2. OnceInv /\ [Next]_vars => OnceInv'
  <2> SUFFICES ASSUME OnceInv, [Next]_vars, Storage = "memory"
               PROVE  (OneExchangePerState /\ \A c \in Callbacks : pc[c] # "checked")'
    BY StepBaseInv, SameDeployment DEF OnceInv
  <2> DEFINE Once == OneExchangePerState /\ \A c \in Callbacks : pc[c] # "checked"
  <2>1. Once
    BY DEF OnceInv
  <2>2. TypeOK
    BY DEF OnceInv, BaseInv
  <2>3. ASSUME NEW s \in States, Issue(s) \/ Expire(s) PROVE Once'
    BY <2>1, <2>3 DEF OnceInv, OneExchangePerState, PastCheck, Issue, Expire
  <2>4. ASSUME NEW c \in Callbacks, CheckState(c) PROVE Once'
    <3>1. \A d \in Callbacks : PastCheck(d) => StateOf[d] # StateOf[c]
      BY <2>4 DEF OnceInv, BaseInv, BurntBeforeExchange, CheckState, Valid
    <3>2. pc' = [pc EXCEPT ![c] = "consumed"] /\ UNCHANGED granted
      BY <2>4 DEF CheckState, Goto
    <3> QED
      BY <2>1, <2>2, <3>1, <3>2, CallbackSort DEF OnceInv, OneExchangePerState, PastCheck, TypeOK
  <2>5. ASSUME NEW c \in Callbacks,
               MarkUsed(c) \/ Refuse(c) \/ ExchangeCode(c) \/ UpsertConnection(c)
        PROVE  Once'
    BY <2>1, <2>2, <2>5, CallbackSort
       DEF MarkUsed, Refuse, ExchangeCode, UpsertConnection, Goto, OnceInv,
           OneExchangePerState, PastCheck, TypeOK
  <2>6. ASSUME NEW x \in Disconnects, DisconnectStep(x) PROVE Once'
    BY <2>1, <2>2, <2>6, DisconnectTypes DEF OnceInv, OneExchangePerState, PastCheck
  <2>7. ASSUME NEW r \in Requests,
               DatabaseError(r) \/ StripeError(r) \/ TokenError(r) \/ Crash(r)
        PROVE  Once'
    BY <2>1, <2>2, <2>7, FaultStep DEF OnceInv, OneExchangePerState
  <2>9. CASE RestartInMemory
    BY <2>1, <2>2, <2>9, RestartStep DEF OnceInv, OneExchangePerState
  <2>8. CASE UNCHANGED vars
    BY <2>1, <2>8 DEF vars, OnceInv, OneExchangePerState, PastCheck
  <2> QED BY <2>3, <2>4, <2>5, <2>6, <2>7, <2>8, <2>9 DEF Next, CallbackStep
<1>3. OnceInv => LockedExchange
  BY DEF OnceInv, LockedExchange
<1> QED BY <1>1, <1>2, <1>3, PTL DEF Spec
-----------------------------------------------------------------------------
(* What a calm deployment keeps.                                           *)
LEMMA CalmIs ==
  ASSUME BaseInv, HonestInv, Calm
  PROVE  /\ TypeOK /\ Serial /\ OneAtWork /\ GrantsFit
         /\ \A x \in Disconnects : Knows(x)
         /\ \A o \in Orgs : (\A x \in Disconnects : pc[x] = "revoked" => OrgOf[x] # o) => Honest(o)
         /\ \A x \in Disconnects : Org(x) = OrgOf[x] /\ OrgOf[x] \in Orgs
         /\ \A c \in Callbacks : Org(c) = OrgOfState[StateOf[c]] /\ Org(c) \in Orgs
BY DisconnectAssumption, CallbackAssumption DEF BaseInv, HonestInv, Calm, Org

LEMMA WorkStep ==
  ASSUME TypeOK, OneAtWork, Serial, NEW r \in Requests, AtWork(r) \/ Start(r),
         \A q \in Requests \ {r} : pc'[q] = pc[q]
  PROVE  OneAtWork'
BY DEF OneAtWork, AtWork, Start, Org

(* A callback that stores nothing.                                         *)
LEMMA CallbackIsQuiet ==
  ASSUME BaseInv, HonestInv, Calm, NEW c \in Callbacks, NEW label, Goto(c, label),
         AtWork(c) \/ Start(c),
         UNCHANGED <<deployment, conn, revoked, saw, unread>>,
         \/ granted' = granted /\ (c \notin granted \/ label = "done") /\ label # "exchanged"
         \/ granted' = granted \cup {c} /\ c \notin granted /\ label \in {"exchanged", "done"}
  PROVE  HonestInv'
<1>0. c \in Requests /\ \A q \in Requests : pc'[q] = IF q = c THEN label ELSE pc[q]
  BY CallbackSort DEF Goto, BaseInv, TypeOK
<1>1. OneAtWork'
  BY <1>0, CalmIs, WorkStep
<1>2. GrantsFit'
  <2>1. revoked \subseteq granted /\ granted \subseteq granted'
    BY CalmIs DEF GrantsFit
  <2>2. ASSUME NEW d \in granted' PROVE pc'[d] \in {"exchanged", "done"}
    BY <1>0, CallbackSort, CalmIs DEF GrantsFit, TypeOK
  <2>3. ASSUME NEW d \in Callbacks, pc'[d] = "exchanged" PROVE d \in granted' \ revoked
    BY <1>0, <2>1, <2>3, CallbackSort, CalmIs DEF GrantsFit
  <2>4. ASSUME NEW o \in Orgs
        PROVE  /\ conn[o].grant # NoGrant => conn[o].grant \in granted' /\ Org(conn[o].grant) = o
               /\ conn[o].status = "connected" => conn[o].grant # NoGrant
               /\ conn[o].status = "none" => conn[o] = Absent
    BY <2>1, CalmIs DEF GrantsFit
  <2> QED BY <2>1, <2>2, <2>3, <2>4 DEF GrantsFit, Org
<1>3. \A x \in Disconnects : pc'[x] = pc[x]
  BY <1>0, DisconnectSort
<1>4. \A x \in Disconnects : Knows(x)'
  BY <1>3, CalmIs DEF Knows
<1>5. \A o \in Orgs : (\A x \in Disconnects : pc'[x] = "revoked" => OrgOf[x] # o) => Honest(o)'
  BY <1>3, CalmIs DEF Honest
<1> QED BY <1>1, <1>2, <1>4, <1>5 DEF HonestInv

(* The grant that is stored is the callback's own; nobody else of the      *)
(* organization is at work to have revoked or read.                        *)
LEMMA UpsertIsHonest ==
  ASSUME BaseInv, HonestInv, Calm, NEW c \in Callbacks, UpsertConnection(c)
  PROVE  HonestInv'
<1>0. /\ c \in Requests /\ pc[c] = "exchanged" /\ AtWork(c) /\ c # NoGrant
      /\ \A q \in Requests : pc'[q] = IF q = c THEN "done" ELSE pc[q]
      /\ \A o \in Orgs : conn'[o] = IF o = Org(c)
                                    THEN [status |-> "connected", grant |-> c, deferred |-> FALSE]
                                    ELSE conn[o]
      /\ UNCHANGED <<deployment, granted, revoked, saw, unread>>
  BY CallbackSort, CallbackAssumption DEF UpsertConnection, Goto, BaseInv, TypeOK, AtWork
<1>1. OneAtWork'
  BY <1>0, CalmIs, WorkStep
<1>2. c \in granted \ revoked
  BY <1>0, CalmIs DEF GrantsFit
<1>3. GrantsFit'
  <2>1. \A d \in granted : pc'[d] \in {"exchanged", "done"}
    BY <1>0, CallbackSort, CalmIs DEF GrantsFit, TypeOK
  <2>2. \A d \in Callbacks : pc'[d] = "exchanged" => d \in granted \ revoked
    BY <1>0, CallbackSort, CalmIs DEF GrantsFit
  <2>3. ASSUME NEW o \in Orgs
        PROVE  /\ conn'[o].grant # NoGrant => conn'[o].grant \in granted /\ Org(conn'[o].grant) = o
               /\ conn'[o].status = "connected" => conn'[o].grant # NoGrant
               /\ conn'[o].status = "none" => conn'[o] = Absent
    BY <1>0, <1>2, CalmIs DEF GrantsFit
  <2> QED BY <1>0, <2>1, <2>2, <2>3, CalmIs DEF GrantsFit, Org
<1>4. ASSUME NEW x \in Disconnects PROVE Knows(x)'
  <2>1. pc'[x] = pc[x] /\ x \in Requests /\ x # c
    BY <1>0, DisconnectSort
  <2>2. AtWork(x) => conn'[OrgOf[x]] = conn[OrgOf[x]]
    BY <1>0, <2>1, CalmIs DEF OneAtWork
  <2> QED BY <1>0, <2>1, <2>2, CalmIs DEF Knows, AtWork
<1>5. \A o \in Orgs : (\A x \in Disconnects : pc'[x] = "revoked" => OrgOf[x] # o) => Honest(o)'
  <2> SUFFICES ASSUME NEW o \in Orgs, \A x \in Disconnects : pc'[x] = "revoked" => OrgOf[x] # o
               PROVE  Honest(o)'
    OBVIOUS
  <2>1. CASE o = Org(c)
    BY <1>0, <1>2, <2>1 DEF Honest
  <2>2. CASE o # Org(c)
    BY <1>0, <2>2, DisconnectSort, CalmIs DEF Honest
  <2> QED BY <2>1, <2>2
<1> QED BY <1>1, <1>3, <1>4, <1>5 DEF HonestInv

(* A disconnect up to its revocation: what it deauthorizes is its own      *)
(* organization's.                                                         *)
LEMMA DisconnectIsHonest ==
  ASSUME BaseInv, HonestInv, Calm, NEW x \in Disconnects, AtWork(x) \/ Start(x), pc[x] # "revoked",
         NEW label \in {"read", "revoked"}, Goto(x, label), Knows(x)',
         UNCHANGED <<deployment, conn, granted>>, \A y \in Disconnects \ {x} : saw'[y] = saw[y],
         unread \subseteq unread',
         \/ revoked' = revoked
         \/ /\ pc[x] = "read" /\ label = "revoked" /\ saw[x].status = "connected"
            /\ revoked' = revoked \cup Grants(Account[saw[x].grant])
  PROVE  HonestInv'
<1>0. x \in Requests /\ \A q \in Requests : pc'[q] = IF q = x THEN label ELSE pc[q]
  BY DisconnectSort DEF Goto, BaseInv, TypeOK
<1>1. OneAtWork'
  BY <1>0, CalmIs, WorkStep
<1>2. revoked \subseteq revoked' /\ revoked' \subseteq granted
  BY CalmIs DEF GrantsFit, Grants
<1>3. ASSUME NEW d \in revoked' \ revoked PROVE Org(d) = OrgOf[x] /\ AtWork(x) /\ label = "revoked"
  <2>1. /\ pc[x] = "read" /\ saw[x].status = "connected" /\ label = "revoked"
        /\ d \in granted /\ Account[d] = Account[saw[x].grant]
    BY <1>3 DEF Grants
  <2>2. /\ saw[x] = conn[OrgOf[x]] /\ saw[x].grant \in granted /\ Org(saw[x].grant) = OrgOf[x]
    BY <2>1, CalmIs DEF Knows, GrantsFit
  <2>3. d \in Callbacks /\ saw[x].grant \in Callbacks
    BY <2>1, <2>2, CalmIs DEF TypeOK
  <2> QED BY <2>1, <2>2, <2>3, CalmIs DEF Calm, Unshared, AtWork
<1>4. GrantsFit'
  <2>1. \A d \in granted : pc'[d] \in {"exchanged", "done"}
    BY <1>0, CallbackSort, CalmIs DEF GrantsFit, TypeOK
  <2>2. ASSUME NEW d \in Callbacks, pc'[d] = "exchanged" PROVE d \in granted \ revoked'
    <3>1. pc[d] = "exchanged" /\ d \in Requests /\ d # x
      BY <1>0, <2>2, CallbackSort
    <3>2. d \in granted \ revoked /\ AtWork(d)
      BY <3>1, CalmIs DEF GrantsFit, AtWork
    <3> QED BY <1>0, <1>3, <3>1, <3>2, CalmIs DEF OneAtWork
  <2>3. \A o \in Orgs :
          /\ conn[o].grant # NoGrant => conn[o].grant \in granted /\ Org(conn[o].grant) = o
          /\ conn[o].status = "connected" => conn[o].grant # NoGrant
          /\ conn[o].status = "none" => conn[o] = Absent
    BY CalmIs DEF GrantsFit
  <2> QED BY <1>2, <2>1, <2>2, <2>3 DEF GrantsFit, Org
<1>5. ASSUME NEW y \in Disconnects PROVE Knows(y)'
  <2>1. CASE y # x
    <3>1. pc'[y] = pc[y] /\ saw'[y] = saw[y]
      BY <1>0, <2>1, DisconnectSort
    <3> QED BY <1>2, <3>1, CalmIs DEF Knows
  <2> QED BY <2>1
<1>6. \A o \in Orgs : (\A y \in Disconnects : pc'[y] = "revoked" => OrgOf[y] # o) => Honest(o)'
  <2> SUFFICES ASSUME NEW o \in Orgs, \A y \in Disconnects : pc'[y] = "revoked" => OrgOf[y] # o
               PROVE  Honest(o)'
    OBVIOUS
  <2>1. Honest(o)
    BY <1>0, DisconnectSort, CalmIs
  <2>2. conn[o].status = "connected" => conn[o].grant \notin revoked' \ revoked
    <3> SUFFICES ASSUME conn[o].status = "connected", conn[o].grant \in revoked' \ revoked PROVE FALSE
      OBVIOUS
    <3>1. Org(conn[o].grant) = o
      BY CalmIs DEF GrantsFit
    <3> QED BY <1>0, <1>3, <3>1
  <2> QED BY <1>2, <2>1, <2>2 DEF Honest
<1> QED BY <1>1, <1>4, <1>5, <1>6 DEF HonestInv

LEMMA RevokeIsHonest ==
  ASSUME BaseInv, HonestInv, Calm, NEW x \in Disconnects,
         \/ ReadConnection(x) \/ Revoke(x) \/ RevokeFails(x)
         \/ StripeError(x) \/ TokenError(x)
  PROVE  HonestInv'
<1>0. /\ x \in Requests /\ x \notin Callbacks /\ OrgOf[x] \in Orgs
      /\ saw[x] \in Connection
  BY DisconnectSort, CalmIs DEF TypeOK
<1>1. CASE ReadConnection(x)
  <2>1. /\ Goto(x, "read") /\ Start(x) /\ pc[x] = "new" /\ UNCHANGED <<deployment, conn, granted, revoked>>
        /\ saw'[x] = conn[OrgOf[x]] /\ \A y \in Disconnects \ {x} : saw'[y] = saw[y]
        /\ unread' = unread
    BY <1>1, CalmIs DEF ReadConnection, Start, TypeOK
  <2>2. Knows(x)'
    BY <1>0, <2>1, CalmIs DEF Knows, Goto, TypeOK
  <2> QED BY <2>1, <2>2, DisconnectIsHonest
<1>2. CASE pc[x] = "read" /\ ~ ReadConnection(x)
  <2> DEFINE k == conn[OrgOf[x]]
  <2>1. /\ Goto(x, "revoked") /\ AtWork(x) /\ UNCHANGED <<deployment, conn, granted>>
        /\ \A y \in Disconnects \ {x} : saw'[y] = saw[y]
        /\ unread \subseteq unread'
        /\ \/ /\ saw[x].status = "connected" /\ saw' = saw
              /\ revoked' = revoked \cup Grants(Account[saw[x].grant])
           \/ saw[x].status # "connected" /\ saw' = saw /\ revoked' = revoked
           \/ saw'[x].deferred /\ revoked' = revoked
           \/ saw[x].grant \in unread' /\ saw' = saw /\ revoked' = revoked
           \/ /\ saw'[x].deferred /\ saw[x].status = "connected"
              /\ revoked' = revoked \cup Grants(Account[saw[x].grant])
    <3>1. CASE Revoke(x)
      BY <1>2, <3>1 DEF Revoke, AtWork
    <3>2. CASE RevokeFails(x)
      BY <1>2, <3>2, <1>0, CalmIs DEF RevokeFails, AtWork, TypeOK, Connection
    <3>3. CASE StripeError(x)
      BY <1>2, <3>3, <1>0, CalmIs DEF StripeError, AtWork, TypeOK, Connection
    <3>4. CASE TokenError(x)
      BY <1>2, <3>4, <1>0, CalmIs DEF TokenError, AtWork
    <3> QED BY <1>2, <3>1, <3>2, <3>3, <3>4
  <2>2. saw[x] = k
    BY <1>2, CalmIs DEF Knows
  <2>3. k.grant = NoGrant \/ k.grant \in revoked' \/ saw'[x].deferred \/ k.grant \in unread'
    <3>1. CASE saw[x].status = "connected"
      <4>1. k.grant \in granted
        BY <1>0, <2>2, <3>1, CalmIs DEF GrantsFit
      <4> QED BY <2>1, <2>2, <3>1, <4>1 DEF Grants
    <3>2. CASE saw[x].status = "none"
      BY <1>0, <2>2, <3>2, CalmIs DEF GrantsFit, Absent
    <3>3. CASE saw[x].status = "disconnected"
      <4>1. \A y \in Disconnects : pc[y] = "revoked" => OrgOf[y] # OrgOf[x]
        BY <1>0, <1>2, <2>1, DisconnectSort, CalmIs DEF OneAtWork, AtWork
      <4>2. Honest(OrgOf[x])
        BY <1>0, <4>1, CalmIs
      <4> QED BY <2>1, <2>2, <3>3, <4>2 DEF Honest
    <3> QED BY <1>0, <3>1, <3>2, <3>3 DEF Connection
  <2>4. Knows(x)'
    BY <1>0, <2>1, <2>3, CalmIs DEF Knows, Goto, TypeOK
  <2> QED BY <1>2, <2>1, <2>4, DisconnectIsHonest
<1> QED BY <1>0, <1>1, <1>2 DEF Revoke, RevokeFails, StripeError, TokenError

(* The connection is marked with what the disconnect knows.                *)
LEMMA MarkIsHonest ==
  ASSUME BaseInv, HonestInv, Calm, NEW x \in Disconnects, MarkDisconnected(x)
  PROVE  HonestInv'
<1> DEFINE o == OrgOf[x]
<1>0. /\ x \in Requests /\ o \in Orgs /\ pc[x] = "revoked" /\ AtWork(x)
      /\ \A q \in Requests : pc'[q] = IF q = x THEN "done" ELSE pc[q]
      /\ UNCHANGED <<deployment, granted, revoked, saw, unread>>
  BY DisconnectSort, CalmIs DEF MarkDisconnected, Goto, TypeOK, AtWork
<1>1. /\ \A p \in Orgs \ {o} : conn'[p] = conn[p]
      /\ \/ conn[o] = Absent /\ conn'[o] = Absent
         \/ /\ conn'[o].status = "disconnected" /\ conn'[o].grant = conn[o].grant
            /\ conn'[o].deferred = saw[x].deferred
  BY <1>0, CalmIs DEF MarkDisconnected, TypeOK, Connection
<1>2. OneAtWork'
  BY <1>0, CalmIs, WorkStep
<1>3. GrantsFit'
  <2>1. \A d \in granted : pc'[d] \in {"exchanged", "done"}
    BY <1>0, CallbackSort, CalmIs DEF GrantsFit, TypeOK
  <2>2. \A d \in Callbacks : pc'[d] = "exchanged" => d \in granted \ revoked
    BY <1>0, CallbackSort, CalmIs DEF GrantsFit
  <2>3. \A p \in Orgs :
          /\ conn'[p].grant # NoGrant => conn'[p].grant \in granted /\ Org(conn'[p].grant) = p
          /\ conn'[p].status = "connected" => conn'[p].grant # NoGrant
          /\ conn'[p].status = "none" => conn'[p] = Absent
    <3> SUFFICES ASSUME NEW p \in Orgs
                 PROVE  /\ conn'[p].grant # NoGrant => conn'[p].grant \in granted /\ Org(conn'[p].grant) = p
                        /\ conn'[p].status = "connected" => conn'[p].grant # NoGrant
                        /\ conn'[p].status = "none" => conn'[p] = Absent
      OBVIOUS
    <3>1. /\ conn[p].grant # NoGrant => conn[p].grant \in granted /\ Org(conn[p].grant) = p
          /\ conn[p].status = "connected" => conn[p].grant # NoGrant
          /\ conn[p].status = "none" => conn[p] = Absent
      BY CalmIs DEF GrantsFit
    <3>2. CASE conn'[p] = conn[p]
      BY <3>1, <3>2
    <3>3. CASE conn'[p] # conn[p]
      <4>1. conn'[p].status = "disconnected" /\ conn'[p].grant = conn[p].grant
        BY <1>1, <3>3
      <4> QED BY <3>1, <4>1
    <3> QED BY <3>2, <3>3
  <2> QED BY <1>0, <2>1, <2>2, <2>3, CalmIs DEF GrantsFit, Org
<1>4. ASSUME NEW y \in Disconnects PROVE Knows(y)'
  <2>1. CASE y = x
    BY <1>0, <2>1 DEF Knows
  <2>2. CASE y # x
    <3>1. pc'[y] = pc[y] /\ y \in Requests
      BY <1>0, <2>2, DisconnectSort
    <3>2. AtWork(y) => OrgOf[y] \in Orgs \ {o}
      BY <1>0, <2>2, <3>1, CalmIs DEF OneAtWork
    <3> QED BY <1>0, <1>1, <3>1, <3>2, CalmIs DEF Knows, AtWork
  <2> QED BY <2>1, <2>2
<1>5. \A p \in Orgs : (\A y \in Disconnects : pc'[y] = "revoked" => OrgOf[y] # p) => Honest(p)'
  <2> SUFFICES ASSUME NEW p \in Orgs, \A y \in Disconnects : pc'[y] = "revoked" => OrgOf[y] # p
               PROVE  Honest(p)'
    OBVIOUS
  <2>1. CASE p = o
    <3>1. \/ conn[o].grant = NoGrant \/ conn[o].grant \in revoked \/ saw[x].deferred
          \/ conn[o].grant \in unread
      BY <1>0, CalmIs DEF Knows
    <3> QED BY <1>0, <1>1, <2>1, <3>1 DEF Honest, Absent
  <2>2. CASE p # o
    <3>1. \A y \in Disconnects : pc[y] = "revoked" => OrgOf[y] # p
      BY <1>0, <2>2, DisconnectSort
    <3> QED BY <1>0, <1>1, <2>2, <3>1, CalmIs DEF Honest
  <2> QED BY <2>1, <2>2
<1> QED BY <1>2, <1>3, <1>4, <1>5 DEF HonestInv

LEMMA HonestStep == BaseInv /\ HonestInv /\ [Next]_vars => HonestInv'
<1> SUFFICES ASSUME BaseInv, HonestInv, [Next]_vars PROVE HonestInv'
  OBVIOUS
<1>1. CASE ~ Calm
  BY <1>1, SameDeployment DEF HonestInv, Calm, Serial, Faults
<1>2. CASE Calm
  <2>1. CASE UNCHANGED <<deployment, conn, granted, revoked, pc, saw, unread>>
    <3>1. OneAtWork' /\ GrantsFit'
      BY <1>2, <2>1, CalmIs DEF OneAtWork, AtWork, Org, GrantsFit
    <3> QED BY <1>2, <2>1, <3>1, CalmIs DEF HonestInv, Knows, Honest
  <2>2. ASSUME NEW c \in Callbacks, CallbackStep(c) \/ StripeError(c) \/ TokenError(c)
        PROVE  HonestInv'
    <3>0. c \notin Disconnects /\ c \in Requests
      BY CallbackSort
    <3>1. pc[c] \notin {"exchanged", "done"} => c \notin granted
      BY <1>2, CalmIs DEF GrantsFit
    <3>2. CASE CheckState(c)
      BY <1>2, <3>1, <3>2, CallbackIsQuiet DEF CheckState, Start
    <3>3. CASE MarkUsed(c)
      BY <1>2, <3>1, <3>3, CallbackIsQuiet DEF MarkUsed, AtWork
    <3>4. CASE Refuse(c)
      BY <1>2, <3>4, CallbackIsQuiet DEF Refuse, AtWork
    <3>5. CASE ExchangeCode(c)
      BY <1>2, <3>1, <3>5, CallbackIsQuiet DEF ExchangeCode, AtWork
    <3>6. CASE UpsertConnection(c)
      BY <1>2, <3>6, UpsertIsHonest
    <3>7. CASE StripeError(c)
      <4>1. /\ pc[c] = "consumed" /\ AtWork(c) /\ Goto(c, "done") /\ granted' \in {granted, granted \cup {c}}
            /\ UNCHANGED <<deployment, conn, revoked, saw, unread>>
        BY <3>0, <3>7 DEF StripeError, AtWork
      <4> QED BY <1>2, <3>1, <4>1, CallbackIsQuiet
    <3>8. CASE TokenError(c)
      <4>1. /\ AtWork(c) /\ Goto(c, "done")
            /\ UNCHANGED <<deployment, conn, granted, revoked, saw, unread>>
        BY <3>0, <3>8 DEF TokenError, AtWork
      <4> QED BY <1>2, <4>1, CallbackIsQuiet
    <3> QED BY <2>2, <3>2, <3>3, <3>4, <3>5, <3>6, <3>7, <3>8 DEF CallbackStep
  <2>3. ASSUME NEW x \in Disconnects, DisconnectStep(x) \/ StripeError(x) \/ TokenError(x)
        PROVE  HonestInv'
    BY <1>2, <2>3, RevokeIsHonest, MarkIsHonest DEF DisconnectStep
  <2>4. ~ RestartInMemory /\ \A r \in Requests : ~ DatabaseError(r) /\ ~ Crash(r)
    BY <1>2 DEF Calm, DatabaseError, Crash, RestartInMemory
  <2> QED BY <2>1, <2>2, <2>3, <2>4 DEF Next, vars, Issue, Expire, Requests
<1> QED BY <1>1, <1>2

LEMMA InitHonest == Init => HonestInv
<1> SUFFICES ASSUME Init PROVE HonestInv
  OBVIOUS
<1>1. OneAtWork /\ \A x \in Disconnects : Knows(x)
  BY DisconnectSort DEF Init, OneAtWork, AtWork, Knows
<1>2. GrantsFit /\ \A o \in Orgs : Honest(o)
  BY CallbackSort DEF Init, GrantsFit, Honest, Absent
<1> QED BY <1>1, <1>2 DEF HonestInv

(* An organization's connection says the truth between its requests: the   *)
(* token of a connected one works, that of a disconnected one is revoked   *)
(* or its revocation is said to be open - unless the disconnect could not  *)
(* decrypt it - after any connects, disconnects and failures of Stripe, in *)
(* either store.                                                           *)
THEOREM ConnectionsAreHonest == Spec => []ConnectionIsHonest
<1>1. HonestInv => ConnectionIsHonest
  BY DisconnectSort DEF HonestInv, ConnectionIsHonest, AtWork, Org
<1> QED BY <1>1, BaseInvariance, InitHonest, HonestStep, PTL DEF Spec
=============================================================================
