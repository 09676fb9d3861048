CONSTANTS
    Caller = {ui, radio}
    MaxNest = 3
    Nobody = Nobody
SPECIFICATION Spec
INVARIANTS ReconfigExclusive NeverTerminates QuietMeansConsistent
PROPERTY CallsReturn
