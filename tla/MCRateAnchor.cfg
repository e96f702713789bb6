SPECIFICATION Spec
CONSTANTS
  Protocols <- MCProtocols
  Candidates = {"tight", "wide"}
  Roots <- MCRoots
  LaterRoles = {"GUARD", "EVALUATION"}
  QModes = {"Q0", "Q95"}
  Domains = {"domain"}
  Cases = {"calm", "loaded"}
  MaxFlow = 5
  PolicyDigest <- MCPolicyDigest
  Rosters <- MCRosters
  RoleFiles <- MCRoleFiles
  LaterOrder <- MCLaterOrder
  RootDigest <- MCRootDigest
  Physics <- MCPhysics
  MaxExecutions = 2
  MaxCommands = 2
INVARIANTS
  AttestedAnchorRatesItsPolicy
CHECK_DEADLOCK FALSE
