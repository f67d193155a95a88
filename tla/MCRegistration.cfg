SPECIFICATION Spec
CONSTANT MaxNotices = 2
INVARIANTS AnswersThePrompt SuccessIsTrue
PROPERTIES RegistrationEnds
CHECK_DEADLOCK FALSE
