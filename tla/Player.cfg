CONSTANT
  Eqs = 2
SPECIFICATION PlayerFairSpec
INVARIANTS
  PlayerTypeOK
PROPERTIES
  KeysMatchPresses
  SeekCompletes
