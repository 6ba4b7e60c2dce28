CONSTANTS
  Guests <- MCGuests
  LongSize = 1073741824
  Levels <- MCLevels
  Counts = {0, 3}
  MaxRunInstructions = 3
SPECIFICATION Spec
INVARIANTS TypeOK PrefetchCoherent AnswersTellTheMachine
PROPERTIES InterruptsAreInvisible UserStaysUser FailedEntriesLeaveNoTrace GuestsFinish
CHECK_DEADLOCK FALSE
