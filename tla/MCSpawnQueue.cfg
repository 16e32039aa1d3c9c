SPECIFICATION FairSpec
CONSTANTS
  MAX_CLIENTS = 4
  maxclients = 3
  Team = {"aliens"}
  stickySpec <- MCSticky
INVARIANTS
  TypeOK
  WaitsWhereItShould
PROPERTIES
  BehavesAsLine
  Served
