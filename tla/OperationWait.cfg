\* Timeouts below, at and above the first interval, on and between the sums
\* 150 and 350 of two and three sleeps; 0 waits without a limit.
CONSTANTS
  FirstInterval = 50
  Timeouts = {0, 20, 50, 100, 150, 349}
SPECIFICATION WaitSpec
INVARIANTS ReturnsOnlyFinished RaisesInTime
PROPERTIES TimeoutEndsWait FinishedEndsWait
