\* the backend with MPC beside the panel, a call or a callback that fails
SPECIFICATION Spec
CONSTANTS
  Clients <- MCClients
  Executions = {"e1", "e2"}
  MaxIterations = 1
  MaxFaults = 1
  PosePlanner = "mpc"
  MaxMoves = 1
  MaxAttempts = 1
  MaxClicks = 1
INVARIANTS CamerasTellTheWorld SelectionsHold MovesFollowTheirPlan TrackingHasExecution
PROPERTIES ExecutionsEnd
CHECK_DEADLOCK FALSE
