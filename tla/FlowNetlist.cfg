\* One client with three requests, or two with one each, on a flow projected from three functions.
SPECIFICATION Spec
CONSTANTS
  c1 = c1
  c2 = c2
  solve = solve
  report = report
  assemble = assemble
  format = format
  u = u
  v = v
  Functions = {solve, report, assemble}
  Spare = {u, v}
  PortNames = {"p"}
  Kinds = {"data"}
  Evidence <- MCTriangle
  Clients = {c1, c2}
  None = None
  MaxDepth = 8
  Allowances <- MCAllowances
SYMMETRY MCSymmetry
INVARIANTS
  FlowTypeOK
  HierarchyIsAcyclic
  EncapsulationIsSound
CHECK_DEADLOCK FALSE
