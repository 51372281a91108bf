SPECIFICATION Spec
CONSTANTS
  Asked <- MCAsked
  Chunk = 2
  MaxBytes = 5
  Kinds <- MCKinds
INVARIANTS CleanEndIsWhole ErrorIsTheProducers Backpressure
PROPERTIES OutcomeIsTold WritesGoThrough StopsWhenDropped
\* A response that is over leaves nothing to do.
CHECK_DEADLOCK FALSE
