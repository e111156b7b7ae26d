CONSTANTS
  IntBits = 8
  LongBits = 16
  MemSize = 5
  Chars = {0, 1, 255}
  EdgeWords = {0, 1, 2, 3, 127, 128, 129, 255}
  FmtChars = {37, 100, 99, 115, 120, 9, 97}
  MaxFmt = 4
  MaxN = 4
SPECIFICATION Spec
INVARIANTS DivisionExact BitCountsExact OrderAgrees DigitsDenote BoundedPrefix PrintfAgrees
PROPERTY StoresExact
