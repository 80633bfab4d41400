------------------------- MODULE ProviderConnection -------------------------
(***************************************************************************)
(* Connecting an organization to Stripe by OAuth, and disconnecting it.    *)
(*                                                                         *)
(* stripeConnectURLV1 issues a state; the callback that brings it back     *)
(* consumes it, exchanges the code for a token at Stripe and stores the    *)
(* connection; stripeDisconnectV1 reads the connection, revokes it at      *)
(* Stripe and marks it disconnected.  Each call to the store or to Stripe  *)
(* is one step.  A grant at Stripe is named by the callback that got it.   *)
(***************************************************************************)
EXTENDS Naturals, FiniteSets

CONSTANTS
  States,       \* OAuth states
  Orgs,
  OrgOfState,
  Callbacks,    \* requests to the callback
  StateOf,      \* the state a callback carries
  Account,      \* the Stripe account its user chose
  Disconnects,  \* requests to disconnect
  OrgOf,        \* of which organization
  Deployments   \* the storages, loads and faults considered

NoGrant == "none"

ASSUME CallbackAssumption ==
  /\ StateOf \in [Callbacks -> States] /\ OrgOfState \in [States -> Orgs]
  /\ NoGrant \notin Callbacks
ASSUME DisconnectAssumption ==
  OrgOf \in [Disconnects -> Orgs] /\ Disconnects \cap Callbacks = {}
ASSUME DeploymentsAssumption ==
  Deployments \subseteq [storage: {"postgres", "memory"}, serial: BOOLEAN,
                         faults: SUBSET {"database", "stripe", "key", "crash"}]

VARIABLES
  deployment,
  state,     \* oauth_states: used_at is NULL in a fresh one
  expired,   \* the states whose ten minutes are over
  conn,      \* provider_connections: status, token and last_error by organization
  granted,   \* grants that Stripe gave
  revoked,   \* grants that Stripe no longer honours
  pc,
  saw,       \* the connection that a disconnect read
  unread     \* grants whose token a disconnect could not decrypt: history

vars == <<deployment, state, expired, conn, granted, revoked, pc, saw, unread>>

Storage == deployment.storage   \* DATABASE_URL is set and reachable, or not
Serial == deployment.serial     \* an organization's requests wait for each other
Faults == deployment.faults

Requests == Callbacks \cup Disconnects

Connection ==
  [status: {"none", "connected", "disconnected"},
   grant: Callbacks \cup {NoGrant},
   deferred: BOOLEAN]   \* last_error: "remote Stripe revocation deferred"

Absent == [status |-> "none", grant |-> NoGrant, deferred |-> FALSE]

TypeOK ==
  /\ deployment \in Deployments
  /\ state \in [States -> {"unissued", "fresh", "used"}]
  /\ expired \subseteq States
  /\ conn \in [Orgs -> Connection]
  /\ granted \subseteq Callbacks
  /\ revoked \subseteq Callbacks
  /\ pc \in [Requests -> {"new", "checked", "consumed", "exchanged",
                          "read", "revoked", "done"}]
  /\ saw \in [Disconnects -> Connection]
  /\ unread \subseteq Callbacks \cup {NoGrant}

Init ==
  /\ deployment \in Deployments
  /\ state = [s \in States |-> "unissued"]
  /\ expired = {}
  /\ conn = [o \in Orgs |-> Absent]
  /\ granted = {}
  /\ revoked = {}
  /\ pc = [r \in Requests |-> "new"]
  /\ saw = [x \in Disconnects |-> Absent]
  /\ unread = {}

-----------------------------------------------------------------------------
Goto(r, label) == pc' = [pc EXCEPT ![r] = label]

AtWork(r) == pc[r] \notin {"new", "done"}

Org(r) == IF r \in Disconnects THEN OrgOf[r] ELSE OrgOfState[StateOf[r]]

Start(r) ==
  /\ pc[r] = "new"
  /\ Serial => \A q \in Requests : AtWork(q) => Org(q) # Org(r)

(* stripeConnectURLV1.                                                     *)
Issue(s) ==
  /\ state[s] = "unissued"
  /\ state' = [state EXCEPT ![s] = "fresh"]
  /\ UNCHANGED <<deployment, expired, conn, granted, revoked, pc, saw, unread>>

Expire(s) ==
  /\ s \notin expired
  /\ expired' = expired \cup {s}
  /\ UNCHANGED <<deployment, state, conn, granted, revoked, pc, saw, unread>>

Valid(s) == state[s] = "fresh" /\ s \notin expired

(* Mutant: a state that passes is not marked.                              *)
CheckWithoutMark(c) ==
  /\ Start(c) /\ Valid(StateOf[c])
  /\ Goto(c, "consumed")
  /\ UNCHANGED <<deployment, state, expired, conn, granted, revoked, saw, unread>>

(* Memory checks the state and marks it under one lock; Postgres reads the *)
(* row, and marks it in a second statement.                                *)
CheckState(c) ==
  /\ Start(c) /\ Valid(StateOf[c])
  /\ \/ /\ Storage = "memory"
        /\ state' = [state EXCEPT ![StateOf[c]] = "used"]
        /\ Goto(c, "consumed")
     \/ /\ Storage = "postgres"
        /\ Goto(c, "checked")
        /\ UNCHANGED state
  /\ UNCHANGED <<deployment, expired, conn, granted, revoked, saw, unread>>

(* Mutant: used_at is not set.                                             *)
MarkNothing(c) ==
  /\ pc[c] = "checked"
  /\ Goto(c, "consumed")
  /\ UNCHANGED <<deployment, state, expired, conn, granted, revoked, saw, unread>>

(* UPDATE ... WHERE id = $1 AND used_at IS NULL: how many rows it changed  *)
(* is not looked at.                                                       *)
MarkUsed(c) ==
  /\ pc[c] = "checked"
  /\ state' = [state EXCEPT ![StateOf[c]] = "used"]
  /\ Goto(c, "consumed")
  /\ UNCHANGED <<deployment, expired, conn, granted, revoked, saw, unread>>

(* An unknown, used or expired state; then, with the state consumed,       *)
(* another organization in the URL.                                        *)
Refuse(c) ==
  /\ (Start(c) /\ ~ Valid(StateOf[c])) \/ pc[c] = "consumed"
  /\ Goto(c, "done")
  /\ UNCHANGED <<deployment, state, expired, conn, granted, revoked, saw, unread>>

ExchangeCode(c) ==
  /\ pc[c] = "consumed"
  /\ granted' = granted \cup {c}
  /\ Goto(c, "exchanged")
  /\ UNCHANGED <<deployment, state, expired, conn, revoked, saw, unread>>

(* INSERT ... ON CONFLICT (organization_id, provider) DO UPDATE: whatever  *)
(* was there is replaced.                                                  *)
UpsertConnection(c) ==
  /\ pc[c] = "exchanged"
  /\ conn' = [conn EXCEPT ![Org(c)] =
       [status |-> "connected", grant |-> c, deferred |-> FALSE]]
  /\ Goto(c, "done")
  /\ UNCHANGED <<deployment, state, expired, granted, revoked, saw, unread>>

ReadConnection(x) ==
  /\ Start(x)
  /\ saw' = [saw EXCEPT ![x] = conn[OrgOf[x]]]
  /\ Goto(x, "read")
  /\ UNCHANGED <<deployment, state, expired, conn, granted, revoked, unread>>

(* Stripe is asked only about a connection that was read as connected and  *)
(* whose token could be decrypted; it deauthorizes the account, not the    *)
(* token.                                                                  *)
Grants(account) == {c \in granted : Account[c] = account}

Revoke(x) ==
  /\ pc[x] = "read"
  /\ IF saw[x].status = "connected"
       THEN revoked' = revoked \cup Grants(Account[saw[x].grant])
       ELSE UNCHANGED revoked
  /\ Goto(x, "revoked")
  /\ UNCHANGED <<deployment, state, expired, conn, granted, saw, unread>>

(* Mutant: a failed revocation is not noted.                               *)
RevokeFailsSilently(x) ==
  /\ "stripe" \in Faults
  /\ pc[x] = "read" /\ saw[x].status = "connected"
  /\ Goto(x, "revoked")
  /\ UNCHANGED <<deployment, state, expired, conn, granted, revoked, saw, unread>>

(* The revocation failed: this becomes the connection's last_error.        *)
RevokeFails(x) ==
  /\ "stripe" \in Faults
  /\ pc[x] = "read" /\ saw[x].status = "connected"
  /\ saw' = [saw EXCEPT ![x].deferred = TRUE]
  /\ Goto(x, "revoked")
  /\ UNCHANGED <<deployment, state, expired, conn, granted, revoked, unread>>

(* UPDATE of the row, if there is one; memory makes one.  What else is in  *)
(* the row stays.                                                          *)
MarkDisconnected(x) ==
  LET o == OrgOf[x] IN
  /\ pc[x] = "revoked"
  /\ IF conn[o] = Absent /\ Storage = "postgres"
       THEN UNCHANGED conn
       ELSE conn' = [conn EXCEPT ![o].status = "disconnected",
                                 ![o].deferred = saw[x].deferred]
  /\ Goto(x, "done")
  /\ UNCHANGED <<deployment, state, expired, granted, revoked, saw, unread>>

-----------------------------------------------------------------------------
(* Faults.                                                                 *)

(* A statement fails and with it the request; a failed read of the         *)
(* connection is ignored, as if there were none.                           *)
DatabaseError(r) ==
  /\ "database" \in Faults
  /\ \/ r \in Callbacks /\ Start(r) /\ Goto(r, "done")
     \/ r \in Disconnects /\ Start(r) /\ Goto(r, "read")
     \/ pc[r] \in {"checked", "exchanged", "revoked"} /\ Goto(r, "done")
  /\ UNCHANGED <<deployment, state, expired, conn, granted, revoked, saw, unread>>

(* The exchange fails, though Stripe may have given the grant; or the      *)
(* answer to a revocation that took place is lost.                         *)
StripeError(r) ==
  /\ "stripe" \in Faults
  /\ \/ /\ r \in Callbacks /\ pc[r] = "consumed"
        /\ granted' \in {granted, granted \cup {r}}
        /\ Goto(r, "done")
        /\ UNCHANGED <<revoked, saw>>
     \/ /\ r \in Disconnects /\ pc[r] = "read" /\ saw[r].status = "connected"
        /\ revoked' = revoked \cup Grants(Account[saw[r].grant])
        /\ saw' = [saw EXCEPT ![r].deferred = TRUE]
        /\ Goto(r, "revoked")
        /\ UNCHANGED granted
  /\ UNCHANGED <<deployment, state, expired, conn, unread>>

(* The key is missing or is not the one that the token was stored with, or *)
(* Stripe's answer held no token: a callback ends with its grant alive; a  *)
(* disconnect goes on without asking Stripe, and notes nothing.            *)
TokenError(r) ==
  /\ "key" \in Faults
  /\ \/ /\ r \in Callbacks /\ pc[r] = "exchanged"
        /\ Goto(r, "done")
        /\ UNCHANGED unread
     \/ /\ r \in Disconnects /\ pc[r] = "read" /\ saw[r].status = "connected"
        /\ unread' = unread \cup {saw[r].grant}
        /\ Goto(r, "revoked")
  /\ UNCHANGED <<deployment, state, expired, conn, granted, revoked, saw>>

(* The API process stops in the middle of a request; the database stays.   *)
Crash(r) ==
  /\ "crash" \in Faults /\ Storage = "postgres"
  /\ AtWork(r)
  /\ Goto(r, "done")
  /\ UNCHANGED <<deployment, state, expired, conn, granted, revoked, saw, unread>>

(* In memory the states and the connections go with the process; a state   *)
(* that is gone passes no more than a used one.                            *)
RestartInMemory ==
  /\ "crash" \in Faults /\ Storage = "memory"
  /\ state' = [s \in States |-> IF state[s] = "unissued" THEN "unissued" ELSE "used"]
  /\ conn' = [o \in Orgs |-> Absent]
  /\ pc' = [r \in Requests |-> IF AtWork(r) THEN "done" ELSE pc[r]]
  /\ UNCHANGED <<deployment, expired, granted, revoked, saw, unread>>

-----------------------------------------------------------------------------
CallbackStep(c) ==
  \/ CheckState(c) \/ MarkUsed(c) \/ Refuse(c)
  \/ ExchangeCode(c) \/ UpsertConnection(c)

DisconnectStep(x) ==
  ReadConnection(x) \/ Revoke(x) \/ RevokeFails(x) \/ MarkDisconnected(x)

Next ==
  \/ \E s \in States : Issue(s) \/ Expire(s)
  \/ \E c \in Callbacks : CallbackStep(c)
  \/ \E x \in Disconnects : DisconnectStep(x)
  \/ \E r \in Requests :
       DatabaseError(r) \/ StripeError(r) \/ TokenError(r) \/ Crash(r)
  \/ RestartInMemory

Spec == Init /\ [][Next]_vars

-----------------------------------------------------------------------------
(* Properties.                                                             *)

(* A code is never exchanged on a state that could still pass the check:   *)
(* however the callback ends, its state is burnt first.                    *)
PastCheck(c) == pc[c] \in {"consumed", "exchanged"} \/ c \in granted

BurntBeforeExchange ==
  \A c \in Callbacks : PastCheck(c) => state[StateOf[c]] = "used"

(* "Reused OAuth state": of several callbacks with one state, also at      *)
(* once, one at most reaches Stripe.  The lock of the memory store sees to *)
(* it; two statements over Postgres do not.                                *)
OneExchangePerState ==
  \A c, d \in Callbacks :
    PastCheck(c) /\ PastCheck(d) /\ StateOf[c] = StateOf[d] => c = d

LockedExchange == Storage = "memory" => OneExchangePerState

(* A connected organization has a token that works.  A disconnected one    *)
(* either has its token revoked, or says that it was not - or it had a     *)
(* token that the disconnect could not decrypt, and says nothing.          *)
Honest(o) ==
  LET k == conn[o] IN
  /\ k.status = "connected" => k.grant \in granted \ revoked
  /\ k.status = "disconnected" /\ k.grant # NoGrant =>
       k.grant \in revoked \/ k.deferred \/ k.grant \in unread

(* No Stripe account is connected by two organizations: what is revoked    *)
(* for one would be for the other.                                         *)
Unshared ==
  \A c, d \in Callbacks : Account[c] = Account[d] => OrgOfState[StateOf[c]] = OrgOfState[StateOf[d]]

(* Requests of an organization do not overlap, and none stops half way.    *)
Calm == Serial /\ Faults \subseteq {"stripe", "key"} /\ Unshared

(* "Rotate provider credentials by disconnecting/reconnecting": between an *)
(* organization's requests its connection is honest, through any sequence  *)
(* of connects, disconnects, failures of Stripe and tokens that cannot be  *)
(* decrypted (stripeDisconnectV1, DisconnectProviderConnection).           *)
ConnectionIsHonest ==
  Calm => \A o \in Orgs : (\A r \in Requests : AtWork(r) => Org(r) # o) => Honest(o)

-----------------------------------------------------------------------------
(* The inductive invariants.                                               *)
BaseInv == TypeOK /\ BurntBeforeExchange

(* In memory nobody waits between the check and the mark.                  *)
OnceInv ==
  /\ BaseInv
  /\ Storage = "memory" => OneExchangePerState /\ \A c \in Callbacks : pc[c] # "checked"

(* One request of an organization at a time ...                            *)
OneAtWork == \A q, r \in Requests : AtWork(q) /\ AtWork(r) /\ Org(q) = Org(r) => q = r

(* ... stores a grant of its own that works, ...                           *)
GrantsFit ==
  /\ revoked \subseteq granted
  /\ \A c \in granted : pc[c] \in {"exchanged", "done"}
  /\ \A c \in Callbacks : pc[c] = "exchanged" => c \in granted \ revoked
  /\ \A o \in Orgs :
       /\ conn[o].grant # NoGrant => conn[o].grant \in granted /\ Org(conn[o].grant) = o
       /\ conn[o].status = "connected" => conn[o].grant # NoGrant
       /\ conn[o].status = "none" => conn[o] = Absent

(* ... and, past the revocation, still knows how it ended; but for that,   *)
(* the connection is honest all along.                                     *)
Knows(x) ==
  LET k == conn[OrgOf[x]] IN
  /\ pc[x] = "read" => saw[x] = k
  /\ pc[x] = "revoked" =>
       k.grant = NoGrant \/ k.grant \in revoked \/ saw[x].deferred \/ k.grant \in unread

HonestInv == Calm =>
  /\ OneAtWork /\ GrantsFit
  /\ \A x \in Disconnects : Knows(x)
  /\ \A o \in Orgs : (\A x \in Disconnects : pc[x] = "revoked" => OrgOf[x] # o) => Honest(o)
=============================================================================
