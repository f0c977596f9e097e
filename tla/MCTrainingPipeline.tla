------------------------- MODULE MCTrainingPipeline -------------------------
\* Two findings and a built-in sample, which is clean.
EXTENDS TrainingPipeline
MCClean == {3}
=============================================================================
