\* The configured endpoint is also the second of three fallbacks.
CONSTANTS
  a = a
  b = b
  c = c
  NoUrl = NoUrl
  NoOutcome = NoOutcome
  Failed = Failed
  Raised = Raised
  Urls = {a, b, c}
  Configured = b
  Fallbacks <- ThreeFallbacks
  MaxRequests = 2
SPECIFICATION Spec
CHECK_DEADLOCK FALSE
INVARIANTS
  OutcomeJustified
PROPERTIES
  ImplementsRpcCall
