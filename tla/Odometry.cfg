CONSTANTS
  SAMPLE_DELTA = 3
  CounterSize = 10
  TickSize = 23
  MaxPass = 4
  MaxStart = 2
  MaxTicks = 1
SPECIFICATION Spec
INVARIANTS MeasuredIsTrue ElapsedIsPositive
