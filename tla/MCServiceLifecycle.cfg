SPECIFICATION FairSpec
CONSTANTS
  CrashPoints <- AllPoints
  FailurePoints <- FalliblePoints
  GuidKinds = {"plain", "binary"}
INVARIANTS TypeOK InstanceFileMatchesRoot FailuresAreExcused
PROPERTIES SuccessMeansStopped StopIsHonoured
