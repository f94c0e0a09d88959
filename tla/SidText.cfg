CONSTANTS
  Texts = {eq1, eq2}
  Songs = {song10, song20}
  SONG = SONG
  NONE = NONE
  Bursts = 3
SPECIFICATION SidFairSpec
INVARIANTS
  ScreenIsRight
PROPERTIES
  SendingEnds
