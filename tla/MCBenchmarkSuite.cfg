\* three jobs, the first with a second try and a wait that ends too soon
SPECIFICATION SuiteSpec
CONSTANTS
  SimplePlanners <- MCPlanners
  SimpleCases <- MCCases
  HybridCases <- MCCases
  HybridProfiles <- MCProfiles
  PickPlanners <- MCPlanners
  Runs = 1
  MaxStacks = 5
  MaxLingering = 1
  MaxSlow = 1
PROPERTIES MeasuredOnOwnStack SuiteEnds
CHECK_DEADLOCK FALSE
