CONSTANTS
  None = None
  Boxes = {b1, b2}
SPECIFICATION Spec
CHECK_DEADLOCK FALSE
SYMMETRY Symmetry
CONSTRAINT FewRows
INVARIANTS DowngradesRestore RolesAreConfined GuardsHoldForOldRows QueueIsExact NoMigrationWidens
