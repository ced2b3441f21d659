SPECIFICATION AddOnSpec
INVARIANTS NoChildLeft MarkedHaveARoute
PROPERTIES DeathEndsAddon PathComesBack
CONSTANTS
  MaxTries = 2
  MaxFlushes = 2
  MaxFailures = 2
CHECK_DEADLOCK FALSE
