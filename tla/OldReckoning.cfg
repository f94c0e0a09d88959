SPECIFICATION RFairSpec
INVARIANTS
  DeckTellsWheel
  RadioReckonsRight
PROPERTIES
  IsLiveTapeWheel
  RadioIsServed
