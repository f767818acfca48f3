SPECIFICATION CacheSpec
CONSTANTS
  r1 = r1
  r2 = r2
  w1 = w1
  Readers = {r1, r2}
  Writers = {w1}
  NoReader = NoReader
  MaxVersion = 1
SYMMETRY ReaderSymmetry
INVARIANTS AnswersAreCurrent SingleFlight
CHECK_DEADLOCK FALSE
