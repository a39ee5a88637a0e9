\* One instance and one alert with two channels.
SPECIFICATION AlertSpec
CONSTANTS
  MaxTime = 3
  AlertIDs = {"alert"}
  Channels = {"email", "slack"}
  CheckerInstances = {"i1"}
  AlertPeriod = 2
  MaxFirings = 2
  MaxFailures = 1
INVARIANT
  EveryDeliveryRecorded
CHECK_DEADLOCK FALSE
