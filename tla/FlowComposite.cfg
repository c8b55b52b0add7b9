\* Two callers, one callee each, and one composite around the callees.
SPECIFICATION Spec
CONSTANTS
  c1 = c1
  c2 = c2
  solve = solve
  report = report
  assemble = assemble
  format = format
  u = u
  v = v
  Functions = {solve, report, assemble, format}
  Spare = {u, v}
  PortNames = {"p"}
  Kinds = {"data"}
  Evidence <- MCTwoPairs
  Clients = {c1}
  None = None
  MaxDepth = 8
  Allowances <- MCOnce
INVARIANT
  EncapsulationStaysTruthful
CHECK_DEADLOCK FALSE
