CONSTANTS
    Estimators = {1, 2}
    Artifacts <- MCArtifacts
    N = 3
    DataSets <- MCDataSets
    Masks <- MCMasks
    Noises <- MCNoises
SPECIFICATION Spec
INVARIANTS
    TypeOK
    MaskCarriedOnce
    ExactOrNothing
    AllGroups
PROPERTY AloneEnds
CHECK_DEADLOCK FALSE
