SPECIFICATION FSpec
INVARIANTS
  TypeOK
  DeckTellsWheel
  RadioReckonsRight
PROPERTIES
  IsLiveTapeWheel
  RadioIsServed
  WorkerRunsUnlessSpinning
