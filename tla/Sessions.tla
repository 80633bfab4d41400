------------------------------ MODULE Sessions ------------------------------
(***************************************************************************)
(* Refresh sessions: logging in, rotating a refresh token, logging out and *)
(* revoking a session from the list of sessions.                           *)
(*                                                                         *)
(* A session stands for the token it was made with.  A rotation reads the  *)
(* session, revokes it and makes the next one, and a logout reads it and   *)
(* revokes it; each is a statement of its own over Postgres and a hold of  *)
(* the lock of its own in memory.  Access tokens, which no table keeps,    *)
(* are left out.                                                           *)
(***************************************************************************)
CONSTANTS
  Ids,        \* the sessions there can be
  Requests,   \* rotations and logouts
  Loads       \* whether the requests come one by one: one Boolean or both

None == "none"

ASSUME NoneAssumption == None \notin Ids
ASSUME LoadsAssumption == Loads \subseteq BOOLEAN

VARIABLES
  serial,     \* a request waits for the one before it
  made,       \* refresh_tokens
  revoked,    \* the rows with a revoked_at
  expired,    \* the rows whose expires_at is past
  parent,     \* rotated_from_id
  known,      \* the sessions whose token some client was given
  line,       \* the login a session descends from
  ended,      \* lines whose session a logout or its user has revoked
  pc, kind, tok, next

rows == <<made, revoked, expired, parent, line>>
request == <<kind, tok, next>>
vars == <<serial, rows, known, ended, pc, request>>

TypeOK ==
  /\ serial \in Loads
  /\ made \subseteq Ids /\ revoked \subseteq made /\ expired \subseteq made
  /\ known \subseteq made
  /\ parent \in [Ids -> Ids \cup {None}]
  /\ line \in [Ids -> Ids]
  /\ ended \subseteq Ids
  /\ pc \in [Requests -> {"new", "read", "revoked", "created", "done"}]
  /\ kind \in [Requests -> {"refresh", "logout"}]
  /\ tok \in [Requests -> Ids \cup {None}]
  /\ next \in [Requests -> Ids \cup {None}]

Init ==
  /\ serial \in Loads
  /\ made = {} /\ revoked = {} /\ expired = {} /\ known = {}
  /\ ended = {}
  /\ parent = [s \in Ids |-> None]
  /\ line = [s \in Ids |-> s]
  /\ pc = [q \in Requests |-> "new"]
  /\ kind = [q \in Requests |-> "refresh"]
  /\ tok = [q \in Requests |-> None]
  /\ next = [q \in Requests |-> None]

-----------------------------------------------------------------------------
AtWork(q) == pc[q] \notin {"new", "done"}

MayBegin == serial => \A q \in Requests : ~ AtWork(q)

Goto(q, label) == pc' = [pc EXCEPT ![q] = label]

(* issueAuthTokens; a response may be lost.                                *)
Login(s) ==
  /\ s \notin made
  /\ made' = made \cup {s}
  /\ \/ known' = known \cup {s}
     \/ UNCHANGED known
  /\ UNCHANGED <<serial, revoked, expired, parent, line, ended, pc, request>>

(* The 30 days are over.                                                   *)
Expire(s) ==
  /\ s \in made \ expired
  /\ expired' = expired \cup {s}
  /\ UNCHANGED <<serial, made, revoked, parent, line, known, ended, pc, request>>

(* Mutant: revoked_at is not looked at.                                    *)
PresentRevoked(q, k, s) ==
  /\ pc[q] = "new" /\ MayBegin
  /\ s \in known
  /\ k = "refresh" => s \notin expired
  /\ Goto(q, "read")
  /\ kind' = [kind EXCEPT ![q] = k]
  /\ tok' = [tok EXCEPT ![q] = s]
  /\ UNCHANGED <<serial, rows, known, ended, next>>

(* Mutant: a token that was not followed by another is taken again, for    *)
(* clients whose rotation failed halfway.                                  *)
PresentUnfollowed(q, k, s) ==
  /\ pc[q] = "new" /\ MayBegin
  /\ s \in known
  /\ k = "refresh" => s \notin expired /\ (s \in revoked => \A t \in made : parent[t] # s)
  /\ Goto(q, "read")
  /\ kind' = [kind EXCEPT ![q] = k]
  /\ tok' = [tok EXCEPT ![q] = s]
  /\ UNCHANGED <<serial, rows, known, ended, next>>

(* The session is looked up by its token; a rotation is refused one that   *)
(* is revoked or expired, and changes nothing.                             *)
Present(q, k, s) ==
  /\ pc[q] = "new" /\ MayBegin
  /\ s \in known
  /\ k = "refresh" => s \notin revoked \cup expired
  /\ Goto(q, "read")
  /\ kind' = [kind EXCEPT ![q] = k]
  /\ tok' = [tok EXCEPT ![q] = s]
  /\ UNCHANGED <<serial, rows, known, ended, next>>

(* A line is ended by who revokes the session of it that is in use.        *)
Ends(s) == IF s \in revoked THEN {} ELSE {line[s]}

(* A logout is answered 204 once the statement has run.                    *)
Revoke(q) ==
  /\ pc[q] = "read"
  /\ Goto(q, IF kind[q] = "logout" THEN "done" ELSE "revoked")
  /\ revoked' = revoked \cup {tok[q]}
  /\ ended' = IF kind[q] = "logout" THEN ended \cup Ends(tok[q]) ELSE ended
  /\ UNCHANGED <<serial, made, expired, parent, line, known, request>>

(* The statement fails: a rotation is answered 500, a logout 204.          *)
RevokeFails(q) ==
  /\ pc[q] = "read"
  /\ Goto(q, "done")
  /\ UNCHANGED <<serial, rows, known, ended, request>>

(* Mutant: the next session is made before the last is revoked.            *)
CreateEarly(q, s) ==
  /\ pc[q] \in {"read", "revoked"} /\ kind[q] = "refresh"
  /\ s \notin made
  /\ Goto(q, "created")
  /\ made' = made \cup {s}
  /\ parent' = [parent EXCEPT ![s] = tok[q]]
  /\ line' = [line EXCEPT ![s] = line[tok[q]]]
  /\ next' = [next EXCEPT ![q] = s]
  /\ UNCHANGED <<serial, revoked, expired, known, ended, kind, tok>>

CreateNext(q, s) ==
  /\ pc[q] = "revoked"
  /\ s \notin made
  /\ Goto(q, "created")
  /\ made' = made \cup {s}
  /\ parent' = [parent EXCEPT ![s] = tok[q]]
  /\ line' = [line EXCEPT ![s] = line[tok[q]]]
  /\ next' = [next EXCEPT ![q] = s]
  /\ UNCHANGED <<serial, revoked, expired, known, ended, kind, tok>>

AnswerRefresh(q) ==
  /\ pc[q] = "created"
  /\ Goto(q, "done")
  /\ known' = known \cup {next[q]}
  /\ UNCHANGED <<serial, rows, ended, request>>

(* The insert fails, the API stops, or the response is lost.               *)
Stop(q) ==
  /\ AtWork(q)
  /\ Goto(q, "done")
  /\ UNCHANGED <<serial, rows, known, ended, request>>

(* The user of a session revokes it from the list, in one statement.       *)
RevokeForUser(s) ==
  /\ s \in made /\ MayBegin
  /\ revoked' = revoked \cup {s}
  /\ ended' = ended \cup Ends(s)
  /\ UNCHANGED <<serial, made, expired, parent, line, known, pc, request>>

RequestStep(q) ==
  \/ \E k \in {"refresh", "logout"}, s \in Ids : Present(q, k, s)
  \/ Revoke(q) \/ RevokeFails(q)
  \/ \E s \in Ids : CreateNext(q, s)
  \/ AnswerRefresh(q) \/ Stop(q)

Next ==
  \/ \E s \in Ids : Login(s) \/ Expire(s) \/ RevokeForUser(s)
  \/ \E q \in Requests : RequestStep(q)

Spec == Init /\ [][Next]_vars

-----------------------------------------------------------------------------
(* A session is followed by another only once it can no longer be used     *)
(* itself, whatever fails in between (refreshToken revokes, then creates). *)
PredecessorRevoked == \A s \in Ids : parent[s] # None => parent[s] \in revoked

(* Of the sessions that descend from one login at most one can be used, if *)
(* requests do not overlap.                                                *)
OneInUse == serial =>
  \A s, t \in made \ revoked : line[s] = line[t] => s = t

(* A logout, or a revocation from the list, ends what descends from the    *)
(* login, for good, if requests do not overlap.                            *)
EndedStaysEnded == serial => \A s \in made : line[s] \in ended => s \in revoked

(* "expected old refresh token to fail": a token is exchanged once.        *)
OneSuccessor ==
  \A s, t \in Ids : parent[s] # None /\ parent[s] = parent[t] => s = t

-----------------------------------------------------------------------------
(* The state of a request, under any interleaving.                         *)
RequestsInOrder ==
  \A q \in Requests :
    /\ AtWork(q) => tok[q] \in made
    /\ pc[q] = "revoked" => tok[q] \in revoked
    /\ pc[q] = "created" => next[q] \in made

(* Rows that are not there descend from nothing.                           *)
NoRowsAhead ==
  /\ \A s \in Ids \ made : parent[s] = None /\ line[s] = s
  /\ \A s \in made : line[s] \in made
  /\ ended \subseteq made

BaseInv == TypeOK /\ PredecessorRevoked /\ RequestsInOrder /\ NoRowsAhead

OneAtATime == \A q, o \in Requests : AtWork(q) /\ AtWork(o) => q = o

(* While a rotation is between its revocation and its insert nothing of    *)
(* its line can be used, and its line has not been ended.                  *)
Alone(q) ==
  /\ kind[q] = "refresh" /\ pc[q] = "read" => tok[q] \notin revoked
  /\ pc[q] = "revoked" =>
       /\ \A s \in made \ revoked : line[s] # line[tok[q]]
       /\ line[tok[q]] \notin ended
       /\ \A s \in made : parent[s] # tok[q]

SerialInv ==
  /\ BaseInv /\ OneInUse /\ EndedStaysEnded
  /\ serial => OneAtATime /\ OneSuccessor /\ \A q \in Requests : Alone(q)
=============================================================================
