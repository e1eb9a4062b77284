SPECIFICATION ValidateSpec
CHECK_DEADLOCK FALSE
INVARIANT PassedMeansNoError
