SPECIFICATION ContextSpec
CONSTANTS
  Configurations <- MCConfigurations
  Requests <- MCRequests
  Parameters <- MCParameters
  VaryOn = "V"
  MaxStores = 2
INVARIANT AnswerMatches SharedAsConfigured MutationsReachUpstream
CHECK_DEADLOCK FALSE
