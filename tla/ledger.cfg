SPECIFICATION Spec
CONSTANTS
    MaxLog = 3
    MaxBatch = 2
INVARIANTS
    BasisExact
    WitnessExact
    DecisionSeesAll
PROPERTIES
    ReadIsFresh
    StageWhole
