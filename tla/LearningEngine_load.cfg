\* Save, crash, load: the same configurations and sample counts as
\* LearningEngine.cfg.
CONSTANTS
  ConfigChoices <- Configured
  SampleCounts = {1, 3}
SPECIFICATION Spec
INVARIANT PredictOnlyTrained
