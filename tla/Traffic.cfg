CONSTANTS
    BufferSize = 2
    Threshold = 2
    CarRange = 2
    None = None
SPECIFICATION Spec
INVARIANTS MutexExcludes TokensMatchCars WaitsAreSafe
PROPERTIES ImplementsZone EveryCarLeaves
