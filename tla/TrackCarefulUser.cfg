CONSTANTS
  Radix = 2
  Skip = 3
  MaxDigits = 3
  ByteBase = 4
  MinPress = 0
  ReStamp = 1
  LongPress = 2
  Settle = 1
  DigitGap = 0
  Busy = 3
  MaxTrack = 11
  User = "careful"
SPECIFICATION FairSpec
INVARIANTS
  SoundIsBack
PROPERTIES
  PressesCount
