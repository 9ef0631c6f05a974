SPECIFICATION Spec
CONSTANTS
  Workers = {w1, w2}
  MaxRetry = 1
  NoWorker = NoWorker
  Loaded = {}
PROPERTIES
  TerminalIsFinal
