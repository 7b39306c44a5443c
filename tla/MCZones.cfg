\* One query and one sender, three versions, zones of every kind.
SPECIFICATION MCSpec
CONSTANTS
  Readers = {r1} Senders = {s1} Kinds = {"db", "file", "secondary"} MaxVer = 3 Bytes <- MCBytes
INVARIANTS NoUseAfterFree Accounted UpdateStays AnswersRight DecisionsRight
PROPERTIES EvictedIsFinal
CHECK_DEADLOCK FALSE
