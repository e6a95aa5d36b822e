SPECIFICATION Spec
CONSTANTS
  MaxStartup = 1
  MaxLag = 7
  MaxDuration = 28
  ResultAfter = 25
  QuitAfter = 27
INVARIANTS
  TypeOK
  GuestSurvives
  ResultIsFinal
PROPERTIES
  BackAndForth
