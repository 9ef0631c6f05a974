SPECIFICATION Spec
CONSTANTS
  SampleCap = 5
  RangeCap = 40
  LengthCap = 3
  SizeCap = 4
  WorkerPrimes = 2
  JobPrimes = 3
  MaxWorkers = 4
  Texts <- MCTexts
  Arrays <- MCArrays
  Lefts <- MCLefts
  Rights <- MCRights
  Samples = {0, 1, 2, 3, 4, 5, 6}
  Lines <- MCLines
  Froms <- MCFroms
  Tos <- MCTos
  Charsets <- MCCharsets
  Hashes <- MCHashes
  MaxLens = {1, 2, 3, 4}
INVARIANTS
  PositiveSamplesSuffice
CHECK_DEADLOCK FALSE
