CONSTANTS
    User = {u1, u2}
    MaxVersion = 3
SPECIFICATION Spec
INVARIANTS OneCopyReadable ExitSavesAll
PROPERTIES RecoversKnownVersion ChangesAreSaved
