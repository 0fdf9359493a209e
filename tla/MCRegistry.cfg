SPECIFICATION Spec
CONSTANTS
  Subjects = {"s1", "s2"}
  Schemas = {"a", "b"}
  PropsOf <- MCPropsOf
  Resources = {"r1"}
  Goroutines = {"t1", "t2"}
  Deleters = {"t2"}
  HttpSubjects = {"s1"}
  HttpSchemas = {"a"}
  AssocSubjects = {"s1", "s2"}
  AssocLists <- MCAssocLists
  Capacity = 1
  MaxIds = 2
  MaxAssocs = 2
INVARIANTS
  SingleFlight
  StaleOnlyByRace
  
PROPERTIES
  CallsReturn
