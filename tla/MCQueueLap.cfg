SPECIFICATION Spec
CONSTANTS
  x = x
  y = y
  NULL = NULL
  Junk = Junk
  Elements = {x, y}
  howmany = 3
  MaxReads = 4
PROPERTY GetsWhatWasSet
