CONSTANTS
  Procs = {timer, admin}
  Versions = {1, 2}
  MaxRuns = 3
  MaxInterrupts = 2
SPECIFICATION Spec
INVARIANTS BootableUnlessBetweenRenames OnlyVerifiedImages PrevRetained SomeImageSurvives
