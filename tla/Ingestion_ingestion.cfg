SPECIFICATION Spec
CONSTANTS
  q1 = q1
  q2 = q2
  Requests <- MCRequests
  Deployments <- MCDeployments
  Days <- MCDays
  Answers <- MCAnswers
  MaxIds = 6
  MaxRuns = 2
  MaxRefunds = 3
SYMMETRY Symmetry
INVARIANTS
  
  ReportsAddUp
  MatchingAgrees
  CashAgrees
PROPERTIES
  
  ResetRepairs
