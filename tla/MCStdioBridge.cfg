CONSTANTS
  MaxLines = 2
  Auth = TRUE
SPECIFICATION Spec
INVARIANTS Answered CancelFinds NothingLeftBehind
PROPERTY Terminates
