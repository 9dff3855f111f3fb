SPECIFICATION Spec
CONSTANTS
  Nodes = {n1, n2}
  Slots = {s1, s2}
  MaxTerms = 2
  MaxRequest = 2
  None = None
SYMMETRY Alike
INVARIANTS PanelFits OrdersFit
PROPERTY CancelledIsOver
VIEW View
