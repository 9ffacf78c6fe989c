CONSTANTS
  HALF = 2
  NoOp = NoOp
  FirstOps <- MCFirst
  NextOps <- MCNext
SPECIFICATION Spec
INVARIANT OverflowMatches
