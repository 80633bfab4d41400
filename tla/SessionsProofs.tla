--------------------------- MODULE SessionsProofs ---------------------------
(***************************************************************************)
(* Proofs about Sessions, for any number of sessions and requests: a       *)
(* session is revoked before it is followed, and, when requests do not     *)
(* overlap, a login has one session in use and ends for good.              *)
(***************************************************************************)
EXTENDS Sessions, TLAPS

LEMMA InitBase == Init => BaseInv /\ SerialInv
<1> SUFFICES ASSUME Init PROVE BaseInv /\ SerialInv
  OBVIOUS
<1>1. TypeOK
  BY DEF Init, TypeOK
<1>2. PredecessorRevoked /\ RequestsInOrder /\ NoRowsAhead
  BY DEF Init, PredecessorRevoked, RequestsInOrder, NoRowsAhead, AtWork
<1>3. OneAtATime /\ OneInUse /\ EndedStaysEnded /\ OneSuccessor /\ \A q \in Requests : Alone(q)
  BY DEF Init, OneAtATime, OneInUse, EndedStaysEnded, OneSuccessor, Alone, AtWork
<1> QED BY <1>1, <1>2, <1>3 DEF BaseInv, SerialInv

-----------------------------------------------------------------------------
LEMMA SameLoad == [Next]_vars => serial' = serial
BY DEF Next, Login, Expire, RevokeForUser, RequestStep, Present, Revoke, RevokeFails,
       CreateNext, AnswerRefresh, Stop, vars

LEMMA TypeStep == BaseInv /\ [Next]_vars => TypeOK'
<1> SUFFICES ASSUME BaseInv, [Next]_vars PROVE TypeOK'
  OBVIOUS
<1> USE SameLoad DEF BaseInv, TypeOK, Goto, rows, request
<1>1. ASSUME NEW s \in Ids, Login(s) \/ Expire(s) \/ RevokeForUser(s) PROVE TypeOK'
  BY <1>1 DEF Login, Expire, RevokeForUser, Ends
<1>2. ASSUME NEW q \in Requests, RequestStep(q) PROVE TypeOK'
  <2>1. ASSUME NEW k \in {"refresh", "logout"}, NEW s \in Ids, Present(q, k, s) PROVE TypeOK'
    BY <2>1 DEF Present
  <2>2. CASE Revoke(q)
    <3>1. tok[q] \in made
      BY <2>2 DEF Revoke, RequestsInOrder, AtWork
    <3> QED BY <2>2, <3>1 DEF Revoke, Ends
  <2>3. CASE RevokeFails(q) \/ Stop(q)
    BY <2>3 DEF RevokeFails, Stop
  <2>4. ASSUME NEW s \in Ids, CreateNext(q, s) PROVE TypeOK'
    <3>1. tok[q] \in Ids
      BY <2>4 DEF CreateNext, RequestsInOrder, AtWork
    <3> QED BY <2>4, <3>1 DEF CreateNext
  <2>5. CASE AnswerRefresh(q)
    BY <2>5 DEF AnswerRefresh, RequestsInOrder
  <2> QED BY <1>2, <2>1, <2>2, <2>3, <2>4, <2>5 DEF RequestStep
<1>3. CASE UNCHANGED vars
  BY <1>3 DEF vars
<1> QED BY <1>1, <1>2, <1>3 DEF Next

(* Rows stay, and stay revoked; what a row descends from is written once.  *)
LEMMA RowsStay ==
  ASSUME BaseInv, [Next]_vars
  PROVE  /\ made \subseteq made' /\ revoked \subseteq revoked'
         /\ \A s \in made : parent'[s] = parent[s] /\ line'[s] = line[s]
<1> USE DEF BaseInv, TypeOK, rows
<1>1. ASSUME NEW s \in Ids, Login(s) \/ Expire(s) \/ RevokeForUser(s)
      PROVE  /\ made \subseteq made' /\ revoked \subseteq revoked'
             /\ UNCHANGED <<parent, line>>
  BY <1>1 DEF Login, Expire, RevokeForUser
<1>2. ASSUME NEW q \in Requests, RequestStep(q)
      PROVE  /\ made \subseteq made' /\ revoked \subseteq revoked'
             /\ \A s \in made : parent'[s] = parent[s] /\ line'[s] = line[s]
  BY <1>2 DEF RequestStep, Present, Revoke, RevokeFails, CreateNext, AnswerRefresh, Stop
<1>3. CASE UNCHANGED vars
  BY <1>3 DEF vars
<1> QED BY <1>1, <1>2, <1>3 DEF Next

LEMMA BaseStep == BaseInv /\ [Next]_vars => BaseInv'
<1> SUFFICES ASSUME BaseInv, [Next]_vars PROVE BaseInv'
  OBVIOUS
<1>0. TypeOK'
  BY TypeStep
<1>00. /\ made \subseteq made' /\ revoked \subseteq revoked'
       /\ \A s \in made : parent'[s] = parent[s] /\ line'[s] = line[s]
  BY RowsStay
<1> USE NoneAssumption DEF BaseInv, TypeOK, Goto, rows, request
<1>1. PredecessorRevoked'
  <2>1. ASSUME NEW q \in Requests, NEW s \in Ids, CreateNext(q, s) PROVE PredecessorRevoked'
    BY <2>1, <1>00 DEF CreateNext, PredecessorRevoked, RequestsInOrder
  <2>2. CASE UNCHANGED parent
    BY <2>2, <1>00 DEF PredecessorRevoked
  <2> QED BY <2>1, <2>2 DEF Next, vars, Login, Expire, RevokeForUser, RequestStep, Present,
                            Revoke, RevokeFails, AnswerRefresh, Stop
<1>2. NoRowsAhead'
  <2>1. ASSUME NEW q \in Requests, NEW s \in Ids, CreateNext(q, s) PROVE NoRowsAhead'
    <3>1. tok[q] \in made
      BY <2>1 DEF CreateNext, RequestsInOrder, AtWork
    <3> QED BY <2>1, <3>1 DEF CreateNext, NoRowsAhead
  <2>2. ASSUME NEW s \in Ids, Login(s) PROVE NoRowsAhead'
    BY <2>2 DEF Login, NoRowsAhead
  <2>3. ASSUME NEW s \in Ids, Expire(s) \/ RevokeForUser(s) PROVE NoRowsAhead'
    BY <2>3 DEF Expire, RevokeForUser, NoRowsAhead, Ends
  <2>4. ASSUME NEW q \in Requests, Revoke(q) PROVE NoRowsAhead'
    <3>1. tok[q] \in made
      BY <2>4 DEF Revoke, RequestsInOrder, AtWork
    <3> QED BY <2>4, <3>1 DEF Revoke, NoRowsAhead, Ends
  <2>5. CASE UNCHANGED <<rows, ended>>
    BY <2>5 DEF NoRowsAhead
  <2> QED BY <2>1, <2>2, <2>3, <2>4, <2>5 DEF Next, vars, RequestStep, Present, RevokeFails,
                                             AnswerRefresh, Stop
<1>3. RequestsInOrder'
  <2> SUFFICES ASSUME NEW o \in Requests
               PROVE  (/\ AtWork(o) => tok[o] \in made
                       /\ pc[o] = "revoked" => tok[o] \in revoked
                       /\ pc[o] = "created" => next[o] \in made)'
    BY DEF RequestsInOrder
  <2> USE DEF RequestsInOrder, AtWork
  <2>1. ASSUME NEW s \in Ids, Login(s) \/ Expire(s) \/ RevokeForUser(s)
        PROVE  UNCHANGED <<pc, request>>
    BY <2>1 DEF Login, Expire, RevokeForUser
  <2>2. CASE UNCHANGED <<pc, request>>
    BY <2>2, <1>00
  <2>3. ASSUME NEW q \in Requests, RequestStep(q)
        PROVE  (/\ AtWork(o) => tok[o] \in made
                /\ pc[o] = "revoked" => tok[o] \in revoked
                /\ pc[o] = "created" => next[o] \in made)'
    <3>1. ASSUME NEW k \in {"refresh", "logout"}, NEW s \in Ids, Present(q, k, s)
          PROVE  (/\ AtWork(o) => tok[o] \in made
                  /\ pc[o] = "revoked" => tok[o] \in revoked
                  /\ pc[o] = "created" => next[o] \in made)'
      BY <3>1 DEF Present
    <3>2. CASE Revoke(q)
      BY <3>2 DEF Revoke
    <3>3. CASE RevokeFails(q)
      BY <3>3 DEF RevokeFails
    <3>4. ASSUME NEW s \in Ids, CreateNext(q, s)
          PROVE  (/\ AtWork(o) => tok[o] \in made
                  /\ pc[o] = "revoked" => tok[o] \in revoked
                  /\ pc[o] = "created" => next[o] \in made)'
      BY <3>4 DEF CreateNext
    <3>5. CASE AnswerRefresh(q) \/ Stop(q)
      BY <3>5 DEF AnswerRefresh, Stop
    <3> QED BY <2>3, <3>1, <3>2, <3>3, <3>4, <3>5 DEF RequestStep
  <2>4. CASE UNCHANGED vars
    BY <2>4, <2>2 DEF vars
  <2> QED BY <2>1, <2>2, <2>3, <2>4 DEF Next
<1> QED BY <1>0, <1>1, <1>2, <1>3

(* Under any interleaving and any failure.                                 *)
THEOREM Invariance == Spec => []BaseInv
BY InitBase, BaseStep, PTL DEF Spec

(* A session that was followed can no longer be used.                      *)
THEOREM RevokedFirst == Spec => []PredecessorRevoked
<1>1. BaseInv => PredecessorRevoked
  BY DEF BaseInv
<1> QED BY Invariance, <1>1, PTL

-----------------------------------------------------------------------------
(* What follows is about requests that do not overlap.                     *)
LEMMA TurnStep ==
  SerialInv /\ serial /\ [Next]_vars => OneAtATime'
<1> SUFFICES ASSUME SerialInv, serial, [Next]_vars PROVE OneAtATime'
  OBVIOUS
<1> USE DEF SerialInv, BaseInv, TypeOK, OneAtATime, AtWork, Goto, MayBegin
<1>1. ASSUME NEW q \in Requests, RequestStep(q) PROVE OneAtATime'
  <2>1. ASSUME NEW k \in {"refresh", "logout"}, NEW s \in Ids, Present(q, k, s)
        PROVE  OneAtATime'
    BY <2>1 DEF Present
  <2>2. CASE Revoke(q) \/ RevokeFails(q) \/ AnswerRefresh(q) \/ Stop(q)
    <3>1. AtWork(q)
      BY <2>2 DEF Revoke, RevokeFails, AnswerRefresh, Stop
    <3>2. \A o \in Requests \ {q} : pc'[o] = pc[o]
      BY <2>2 DEF Revoke, RevokeFails, AnswerRefresh, Stop
    <3> QED BY <3>1, <3>2
  <2>3. ASSUME NEW s \in Ids, CreateNext(q, s) PROVE OneAtATime'
    BY <2>3 DEF CreateNext
  <2> QED BY <1>1, <2>1, <2>2, <2>3 DEF RequestStep
<1>2. CASE UNCHANGED pc
  BY <1>2
<1> QED BY <1>1, <1>2 DEF Next, vars, Login, Expire, RevokeForUser

(* A rotation makes the one session its line has in use.                   *)
LEMMA LineStep ==
  SerialInv /\ serial /\ [Next]_vars
    => OneInUse' /\ EndedStaysEnded' /\ OneSuccessor'
<1> SUFFICES ASSUME SerialInv, serial, [Next]_vars
             PROVE  OneInUse' /\ EndedStaysEnded' /\ OneSuccessor'
  OBVIOUS
<1>0. /\ made \subseteq made' /\ revoked \subseteq revoked'
      /\ \A s \in made : parent'[s] = parent[s] /\ line'[s] = line[s]
  BY RowsStay DEF SerialInv
<1> USE NoneAssumption
    DEF SerialInv, BaseInv, TypeOK, OneInUse, EndedStaysEnded, OneSuccessor, rows, request
<1>1. ASSUME NEW s \in Ids, Login(s) PROVE OneInUse' /\ EndedStaysEnded' /\ OneSuccessor'
  <2>1. \A t \in made : line[t] # s /\ line[s] = s /\ s \notin ended
    BY <1>1 DEF Login, NoRowsAhead
  <2>2. line[s] = s /\ s \notin ended
    BY <1>1 DEF Login, NoRowsAhead
  <2> QED BY <1>1, <2>1, <2>2 DEF Login
<1>2. ASSUME NEW s \in Ids, RevokeForUser(s)
      PROVE  OneInUse' /\ EndedStaysEnded' /\ OneSuccessor'
  BY <1>2 DEF RevokeForUser, Ends
<1>3. ASSUME NEW q \in Requests, Revoke(q)
      PROVE  OneInUse' /\ EndedStaysEnded' /\ OneSuccessor'
  <2>1. tok[q] \in made
    BY <1>3 DEF Revoke, RequestsInOrder, AtWork
  <2> QED BY <1>3, <2>1 DEF Revoke, Ends
<1>4. ASSUME NEW q \in Requests, NEW s \in Ids, CreateNext(q, s)
      PROVE  OneInUse' /\ EndedStaysEnded' /\ OneSuccessor'
  <2>1. /\ \A t \in made \ revoked : line[t] # line[tok[q]]
        /\ line[tok[q]] \notin ended
        /\ \A t \in made : parent[t] # tok[q]
    BY <1>4 DEF CreateNext, Alone
  <2>2. tok[q] \in made /\ s \notin made /\ s # tok[q]
    BY <1>4 DEF CreateNext, RequestsInOrder, AtWork
  <2>3. /\ made' = made \cup {s} /\ revoked' = revoked /\ ended' = ended
        /\ line' = [line EXCEPT ![s] = line[tok[q]]]
        /\ parent' = [parent EXCEPT ![s] = tok[q]]
    BY <1>4 DEF CreateNext
  <2>4. OneInUse'
    BY <2>1, <2>2, <2>3
  <2>5. EndedStaysEnded'
    BY <2>1, <2>2, <2>3
  <2>6. OneSuccessor'
    <3>1. \A t \in Ids : parent[t] # tok[q]
      BY <2>1, <2>2 DEF NoRowsAhead
    <3> QED BY <2>3, <3>1
  <2> QED BY <2>4, <2>5, <2>6
<1>5. CASE UNCHANGED <<made, revoked, parent, line, ended>>
  BY <1>5
<1> QED BY <1>1, <1>2, <1>3, <1>4, <1>5
        DEF Next, vars, Expire, RequestStep, Present, RevokeFails, AnswerRefresh, Stop

(* Nothing comes between the steps of a rotation.                          *)
LEMMA AloneStep ==
  SerialInv /\ serial /\ [Next]_vars => \A q \in Requests : Alone(q)'
<1> SUFFICES ASSUME SerialInv, serial, [Next]_vars, NEW o \in Requests
             PROVE  Alone(o)'
  OBVIOUS
<1> USE NoneAssumption DEF SerialInv, BaseInv, TypeOK, Goto, MayBegin, AtWork, rows, request
<1>1. ASSUME NEW s \in Ids, Login(s) PROVE Alone(o)'
  <2>1. CASE pc[o] = "revoked"
    <3>1. tok[o] \in made
      BY <2>1 DEF RequestsInOrder
    <3>2. line[s] = s /\ parent[s] = None /\ s \notin made /\ line[tok[o]] # s
      BY <1>1, <3>1 DEF Login, NoRowsAhead
    <3> QED BY <1>1, <2>1, <3>1, <3>2 DEF Login, Alone
  <2>2. CASE ~ (pc[o] = "revoked")
    BY <1>1, <2>2 DEF Login, Alone
  <2> QED BY <2>1, <2>2
<1>2. ASSUME NEW s \in Ids, RevokeForUser(s) PROVE Alone(o)'
  BY <1>2 DEF RevokeForUser, Alone
<1>3. ASSUME NEW s \in Ids, Expire(s) PROVE Alone(o)'
  BY <1>3 DEF Expire, Alone
<1>4. ASSUME NEW q \in Requests, RequestStep(q) PROVE Alone(o)'
  <2>1. CASE q = o
    <3>1. ASSUME NEW k \in {"refresh", "logout"}, NEW s \in Ids, Present(q, k, s) PROVE Alone(o)'
      BY <2>1, <3>1 DEF Present, Alone
    <3>2. CASE Revoke(q) /\ kind[q] = "refresh"
      <4>1. tok[q] \in made \ revoked
        BY <2>1, <3>2 DEF Revoke, RequestsInOrder, Alone
      <4>2. line[tok[q]] \notin ended
        BY <4>1 DEF EndedStaysEnded
      <4>3. \A t \in made \ (revoked \cup {tok[q]}) : line[t] # line[tok[q]]
        BY <4>1 DEF OneInUse
      <4>4. \A t \in made : parent[t] # tok[q]
        BY <4>1 DEF PredecessorRevoked
      <4> QED BY <2>1, <3>2, <4>2, <4>3, <4>4 DEF Revoke, Alone
    <3>3. CASE pc'[q] \notin {"read", "revoked"}
      BY <2>1, <3>3 DEF Alone
    <3>4. CASE Revoke(q) /\ kind[q] # "refresh"
      <4>1. kind[q] = "logout"
        BY <3>4
      <4>2. pc'[q] = "done"
        BY <3>4, <4>1 DEF Revoke
      <4> QED BY <3>3, <4>2
    <3>5. ASSUME NEW s \in Ids, CreateNext(q, s) PROVE Alone(o)'
      BY <3>3, <3>5 DEF CreateNext
    <3>6. CASE RevokeFails(q) \/ AnswerRefresh(q) \/ Stop(q)
      BY <3>3, <3>6 DEF RevokeFails, AnswerRefresh, Stop
    <3> QED BY <1>4, <3>1, <3>2, <3>4, <3>5, <3>6 DEF RequestStep
  <2>2. CASE q # o
    <3>1. ~ AtWork(o)
      BY <1>4, <2>2 DEF RequestStep, Present, Revoke, RevokeFails, CreateNext, AnswerRefresh,
                        Stop, OneAtATime
    <3>2. pc'[o] = pc[o]
      BY <1>4, <2>2 DEF RequestStep, Present, Revoke, RevokeFails, CreateNext, AnswerRefresh,
                        Stop
    <3> QED BY <3>1, <3>2 DEF Alone
  <2> QED BY <2>1, <2>2
<1>5. CASE UNCHANGED vars
  BY <1>5 DEF vars, Alone
<1> QED BY <1>1, <1>2, <1>3, <1>4, <1>5 DEF Next

(* The inductive invariant when requests do not overlap.                   *)
THEOREM SerialInvariance == Spec => []SerialInv
<1>1. SerialInv /\ [Next]_vars => SerialInv'
  <2> SUFFICES ASSUME SerialInv, [Next]_vars PROVE SerialInv'
    OBVIOUS
  <2>1. BaseInv'
    BY BaseStep DEF SerialInv
  <2>2. CASE serial
    BY <2>1, <2>2, TurnStep, LineStep, AloneStep DEF SerialInv
  <2>3. CASE ~ serial
    BY <2>1, <2>3, SameLoad DEF SerialInv, OneInUse, EndedStaysEnded
  <2> QED BY <2>2, <2>3
<1> QED BY InitBase, <1>1, PTL DEF Spec

(* Then a login has one session in use.                                    *)
THEOREM OneSessionPerLogin == Spec => []OneInUse
<1>1. SerialInv => OneInUse
  BY DEF SerialInv
<1> QED BY SerialInvariance, <1>1, PTL

(* And a login that was ended stays so.                                    *)
THEOREM LoggedOutForGood == Spec => []EndedStaysEnded
<1>1. SerialInv => EndedStaysEnded
  BY DEF SerialInv
<1> QED BY SerialInvariance, <1>1, PTL
=============================================================================
