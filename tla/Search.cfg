CONSTANT
    Caller = {ui, info}
SPECIFICATION Spec
INVARIANTS NoOrphan RecorderKnown StuckOnlyByRace
PROPERTY SearchGoesOn
CHECK_DEADLOCK FALSE
