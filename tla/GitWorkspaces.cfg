\* One server, one MCP call with a registry of its own, one integration.
SPECIFICATION GitSpec
CONSTANTS
  Workspaces = {w1}
  Integrations = {i1}
  Agents = {agent}
  Tasks = {task}
  AgentEdits = {e1, e2}
  OutOfScope = {e2}
  HumanEdits = {h1}
  Calls = {c1}
  NoLabel = NoLabel
  MaxPublished = 2
INVARIANTS
  GitTypeOK
  TargetInScope
  MergeIsReal
  RetiredIsGone
PROPERTY MergedFromAuditedTarget
