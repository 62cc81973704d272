SPECIFICATION Spec
CONSTANTS
  Resource = "unit"
  Individuals = {"unit", "b1", "b2"}
  Params = {"p", "q"}
  Markers = {"mqtt", "opcua"}
  Levels <- MCLevels
  Ontologies <- MCOntologies
  Graphs <- MCGraphs
  Installs <- MCInstalls
  Addresses = {"here"}
  None = None
  MaxMoves = 1
CHECK_DEADLOCK FALSE
INVARIANTS NothingSouthboundServed PathsMeet TransportFirst
