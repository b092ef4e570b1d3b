CONSTANTS
  h1 = h1
  h2 = h2
  Hosts <- MCHosts
  Workloads <- MCWorkloads
SPECIFICATION Spec
INVARIANTS SameTrees SamePaths SameOutcome RefusalsJustified
CHECK_DEADLOCK FALSE
