\* Two displays, replugged at any time; clocks that are no whole kHz.
SPECIFICATION Spec
CONSTANTS
  Displays <- MCDisplays
  Requests <- MCRequests
  Highs <- MCHighs
  Kilo = 10
  EdidSize = 3
  Attempts = 3
  None = None
INVARIANTS ProposalFits  
