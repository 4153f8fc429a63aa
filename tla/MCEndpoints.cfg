SPECIFICATION Spec
CONSTANTS
  Scenes <- MCScenes
  Asks <- MCAsks
INVARIANTS OnlyAllowed HooksBalanced PreparedAccepted BindingsAgree
PROPERTY Replied
CHECK_DEADLOCK FALSE
