SPECIFICATION Spec
CONSTANTS
  alice = alice
  padded = padded
  blank = blank
  Names <- MCNames
  Strip <- MCStrip
  Blank = blank
  short = short
  Passwords <- MCPasswords
  LongEnough = {first, second}
  Tokens = {t1, t2}
  Requests = {r1, r2}
  TTL = 1
  MaxTime = 3
  MaxBack = 1
  NoRow = NoRow
  NoSession = NoSession
SYMMETRY Symmetry
PROPERTIES
  EndedForGood
  AccessEndsWithThePassword
