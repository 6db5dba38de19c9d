\* the panel stops what MPC has handed over
SPECIFICATION Spec
CONSTANTS
  Clients <- MCClients
  Executions = {"e1", "e2"}
  MaxIterations = 1
  MaxFaults = 1
  PosePlanner = "mpc"
  MaxMoves = 1
  MaxAttempts = 1
  MaxClicks = 1
PROPERTIES CancelledIsNotSuccess
CHECK_DEADLOCK FALSE
