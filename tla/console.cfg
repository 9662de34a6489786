SPECIFICATION Spec
CONSTANTS
  MaxJobs = 2
  MaxRev = 2
  MaxClicks = 2
PROPERTIES
  NeverStepsBack
  LoadingEnds
CHECK_DEADLOCK FALSE
