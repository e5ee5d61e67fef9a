SPECIFICATION VerdictsSpec
CONSTANTS
  Runs = {r1}
  Slots = {s1, s2}
  MaxAttempts = 3
  Workload = w1
INVARIANTS
  TypeOK
  CancelWins
PROPERTIES
  FencedVerdict
  TerminalStays
  CancelEnds
  CrashedReturns
  EveryCommandDecided
