SPECIFICATION Spec
CONSTANT MaxSteps = 3
INVARIANTS HistoryKeepsQuery
PROPERTIES EndsEarlyOverAnAnswer RunEnds ImplementsAgentAnswers
