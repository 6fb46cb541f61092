\* 120 ms of quiet, 600 ms at most, in samples of 25 ms.
SPECIFICATION TurnSpec
CONSTANTS
  QuietSamples = 5
  CapSamples = 24
  MaxSamples = 30
INVARIANT AnsweredByCap
CHECK_DEADLOCK FALSE
