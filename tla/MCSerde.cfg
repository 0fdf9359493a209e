CONSTANTS
  None = None
  Uses <- MCUses
SPECIFICATION Spec
CHECK_DEADLOCK FALSE
INVARIANTS
  HiddenOnce
  RoundTrip
  SchemasFit
  RefusalsHonoured
  
