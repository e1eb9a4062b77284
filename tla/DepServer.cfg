CONSTANTS
  Requests = {q1, q2}
  Names = {"go", "Go", "tini"}
  Keys = {"go", "tini"}
  Lower <- MCLower
  NoName = ""
  Chunks = 2
  MaxGeneration = 2
SPECIFICATION Spec
SYMMETRY Symmetry
CHECK_DEADLOCK FALSE
INVARIANTS
  AnswerWasCurrent
  PublishedIsServed
  AnswerIsWholeOrMarked
