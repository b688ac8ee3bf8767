\* Two High callers and a Low one, one call each; a token fills in one or two ms,
\* a throttle window is two ms and recovery three.
CONSTANTS
  High = {h1, h2}
  Low = {l1}
  Floor = 1
  Ceil = 3
  Start = 2
  StepDown = 1
  StepUp = 1
  DownWindow = 2
  RecoverInterval = 3
  MaxBurst = 3
  Token = 2
  Timeout = 1
  Calls = 1
  Watch = 2
SPECIFICATION RateSpec
INVARIANTS RateTypeOK IssueBounded RateGlides
PROPERTIES AllServed
