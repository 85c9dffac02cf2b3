CONSTANTS
  A = A  B = B  uni = 1  word = word  books = books  won = won  None = None
  Regions = {A, B}
  Universities = {1}
  Words = {word}
  Currencies = {won}
  Categories = {books}
  StartDb <- Start
  FirstSecond = 4
  Horizon = 5
  BatchSize = 1
  Plans <- AllPlans
  MaxFailures = 1
SPECIFICATION Spec
INVARIANTS
  TypeOK
  FanoutIsTrue
  ImagesFollowPost
  ChecksHold
  ListsComplete
  AnswersAgree
  EveryMessageArrives
  ClosedPostsAreQuiet
\* every request ends: the state with nothing left to do is legal
CHECK_DEADLOCK FALSE
