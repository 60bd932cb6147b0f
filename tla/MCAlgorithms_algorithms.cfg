SPECIFICATION Spec
CONSTANTS
  None = none
INVARIANTS
  VerdictsAreHonest
  ResultsAreTrue
  OverviewsAgree
  ChoicesAreSafe
  EvidenceIsFair
  HelpIsHonest
  EveryoneArrives
