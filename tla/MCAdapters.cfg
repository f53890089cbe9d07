SPECIFICATION AdaptersFairSpec
CONSTANTS
  Name <- MCName
  GraphQLName <- MCGraphQL
  HttpName <- MCGraphQL
  Requests <- MCRequests
  e1 = e1
  e2 = e2
  Endpoint = {e1, e2}
  Missing = unset
  MaxEvents = 3
  MaxCycles = 2
INVARIANTS
  SchemaFollows
  HealthAgrees
PROPERTIES
  QueueDrains
CHECK_DEADLOCK FALSE
