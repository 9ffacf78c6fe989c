CONSTANTS
  HALF = 3
  NoOp = NoOp
  FirstOps <- MCFirst
  NextOps <- MCNext
SPECIFICATION Spec
INVARIANTS ValueMatches LoopInvariant
PROPERTY KeepsPromise
