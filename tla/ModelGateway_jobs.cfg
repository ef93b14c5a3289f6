\* Calls of jobs and of threads, whatever model the deployment is set up with.
SPECIFICATION GatewaySpec
CONSTANTS
  DefaultModels <- OneOfEach
  JobModels <- Chosen
  SdkRetries = 2
INVARIANTS DefaultRunsAreServed
CHECK_DEADLOCK FALSE
