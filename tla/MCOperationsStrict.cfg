CONSTANTS
  Clients <- MCClients
  Names <- MCNames
  Collated <- MCCollated
  Plans <- MCPlans
  Tables <- MCTables
  MaxTries = 2
  MaxNow = 1
  TicksPerDay = 2
  MaxDuration = 10
SPECIFICATION Spec
PROPERTIES RegistrationSucceeds
CHECK_DEADLOCK FALSE
