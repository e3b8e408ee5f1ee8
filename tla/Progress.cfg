SPECIFICATION FairSpec
CONSTANTS
  c1 = c1
  a1 = a1
  a2 = a2
  none = none
  t1 = t1
  cp1 = cp1
  m1 = m1
  own1 = own1
  foreign = foreign
  p1 = p1
PROPERTIES
  CallsAreAnswered EndedSessionIsDropped OutcomeIsLearned StartsSettle
CHECK_DEADLOCK FALSE
