CONSTANTS
  A = A  B = B  uni = 1  word = word  books = books  won = won  None = None
  Regions = {A, B}
  Universities = {1}
  Words = {word}
  Currencies = {won}
  Categories = {books}
  StartDb <- Start
  FirstSecond = 4
  Horizon = 5
  BatchSize = 1
  Plans <- AllPlans
  MaxFailures = 1
SPECIFICATION Spec
INVARIANT ParticipantsMayRead
CHECK_DEADLOCK FALSE
