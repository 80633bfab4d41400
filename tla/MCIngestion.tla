---------------------------- MODULE MCIngestion ----------------------------
(* Two requests over each storage and type of organization, with the loads *)
(* that meet: syncs, runs and resets; resets and reports; onboarding.      *)
EXTENDS Ingestion

CONSTANTS q1, q2

MCRequests == {q1, q2}
Symmetry == Permutations(MCRequests)

Over(storage, type, currency, load) ==
  [storage |-> storage, type |-> type, currency |-> currency, load |-> load]
Load(storage, type, load) == Over(storage, type, "USD", load)

MCDeployments ==
  {Load("postgres", "student", {"stripe", "bank", "reconcile", "reset"}),
   Load("postgres", "student", {"explain", "reset"}),
   Load("postgres", "student", {"stripe", "bank", "explain", "days"}),
   Load("postgres", "restaurant", {"stripe", "bank", "explain", "cash", "days"}),
   Load("postgres", "restaurant", {"reset", "month"}),
   Load("postgres", "restaurant", {"stripe", "stripe_job", "reset"}),
   Load("postgres", "restaurant", {"stripe", "stripe_job", "bank_job", "explain"}),
   Load("postgres", "restaurant", {"stripe", "stripe_job", "month"}),
   Over("postgres", "student", "CAD", {"stripe", "bank_job", "reconcile", "explain", "days"}),
   Over("postgres", "student", "usd", {"stripe_job", "bank", "bank_job", "explain", "days"}),
   Load("memory", "student", {"stripe", "bank", "reset", "seed", "reconcile"}),
   Load("memory", "student", {"stripe", "bank", "explain", "cash", "month", "days"}),
   Load("postgres", "student", {"setup"}), Load("memory", "student", {"setup"})}

MCDays == <<0, 65>>

MCAnswers ==
  [scenario : {"", "dues"}, business : {"", "club"}, checklist : {"", "bank"}, done : BOOLEAN]
=============================================================================
