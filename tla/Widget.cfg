SPECIFICATION FairSpec
CONSTANTS
  pin = pin
  face = face
  Types = {pin, face}
  Sessions <- OneAndTwoTypes
  Attempts = 2
  MaxReloads = 1
INVARIANTS AnsweredOnce OneAttemptPerType NoOrphanChild
PROPERTIES SessionIsReleased SuccessIsAnswered
\* a session that is over has nothing left to do
CHECK_DEADLOCK FALSE
