CONSTANTS
  MaxRuns = 3
  MaxSpans <- SpansOf
  MaxFileBytes = 7
  MaxFaults = 2
SPECIFICATION Spec
INVARIANTS SpanTree SavedRunIsOver NothingVanishes FileHoldsNewest
