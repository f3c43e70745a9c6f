\* One engine and one model file; four configurations, one with a zero
\* batch size; one or three samples.
CONSTANTS
  ConfigChoices <- Configured
  SampleCounts = {1, 3}
SPECIFICATION Spec
INVARIANT TypeOK
PROPERTY TrainTerminates
