SPECIFICATION FairSpec
CONSTANTS
  a = a
  b = b
  c = c
  dev = dev
  prod = prod
  Models = {a, b, c}
  Database = Database
  Unnamed = Unnamed
  Workspaces <- MCWorkspaces
  WorkspaceOf <- MCWorkspaceOf
  Tenant = Tenant
  Nobody = Nobody
  Worlds <- MCCycle
  Bare <- MCBare
  MaxDepth = 2
PROPERTIES
  CyclesDoNotDeadlock
CHECK_DEADLOCK FALSE
