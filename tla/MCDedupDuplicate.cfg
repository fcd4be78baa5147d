SPECIFICATION Spec
CONSTANTS
  Ids = {e1}
  Acqs = {a1, a2, a3}
  None = None
SYMMETRY Symmetry
INVARIANTS
  NoDuplicateExecution
