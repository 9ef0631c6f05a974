SPECIFICATION Spec
CONSTANTS
  Workers = {w1, w2}
  MaxRetry = 2
  NoWorker = NoWorker
  Loaded = {}
PROPERTIES
  RetryOnDifferentWorker
