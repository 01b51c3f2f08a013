SPECIFICATION Spec
CONSTANTS
  Temps = {250, 449, 450, 599, 600}
  Stale = Stale
  Offers = {0, 16, 64}
  Socs = {49, 50, 80}
  Targets = {0, 80}
INVARIANTS CurrentWithinLimits ChargedAfterHandshake FaultDelayBounded
PROPERTY FaultIsLatched
