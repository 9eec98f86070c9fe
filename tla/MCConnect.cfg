CONSTANTS
  Items <- MCItems
  MaxAnswers <- MCAnswers
  ResolutionDelay = 1
  AttemptDelay = 1
  FirstFamilyCount = 1
  ResolveBound = 1
SPECIFICATION ConnectSpec
INVARIANTS ConnectIsSound FamiliesTakeTurns
PROPERTIES EndsOnceLookupsDo KnownV4IsTried
