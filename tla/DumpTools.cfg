CONSTANTS
  Builds <- MCBuilds
  Breaking = {TRUE, FALSE}
  StemOf <- MCStemOf
  Safe <- MCSafe
SPECIFICATION Spec
CHECK_DEADLOCK FALSE
INVARIANTS
  NothingMovedUnsaid
  ReportAddsUp
  DualIsTrue
  LintTellsLayout
  SdkCompiles
  SdkLaysOut
  WrappersReach
