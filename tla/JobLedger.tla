----------------------------- MODULE JobLedger -----------------------------
(***************************************************************************)
(* What the sync_jobs queue promises about executions, whatever operators, *)
(* crashes and resets do to the rows: every attempt of a job is numbered,  *)
(* the numbers are handed out one by one up to the job's allowance, each   *)
(* to exactly one worker, and a worker runs one attempt at a time.         *)
(***************************************************************************)
EXTENDS Naturals

CONSTANTS
  Jobs,         \* job identities
  Workers,      \* worker processes
  MaxAttempts   \* attempts allowed for one job

VARIABLES
  started,      \* started[j]: how many attempts of j were ever started
  live          \* the attempts in progress, as <<worker, job, number>>

ledgerVars == <<started, live>>

Busy(w) == \E e \in live : e[1] = w

Init ==
  /\ started = [j \in Jobs |-> 0]
  /\ live = {}

(* Worker w starts the next attempt of job j.                              *)
Begin(w, j) ==
  /\ ~ Busy(w)
  /\ started[j] < MaxAttempts
  /\ started' = [started EXCEPT ![j] = @ + 1]
  /\ live' = live \cup {<<w, j, started[j] + 1>>}

(* The attempt that w is running ends, by success, failure or crash.       *)
End(w) ==
  /\ Busy(w)
  /\ live' = {e \in live : e[1] # w}
  /\ UNCHANGED started

Next == \E w \in Workers : End(w) \/ \E j \in Jobs : Begin(w, j)

Spec == Init /\ [][Next]_ledgerVars
=============================================================================
