CONSTANTS
  Radix = 2
  Skip = 2
  MaxDigits = 3
  ByteBase = 64
  MinPress = 0
  ReStamp = 1
  LongPress = 2
  Settle = 1
  DigitGap = 0
  Busy = 3
  MaxTrack = 2
  User = "any"
SPECIFICATION FairSpec
PROPERTIES
  EveryPressMoves
