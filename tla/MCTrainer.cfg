SPECIFICATION Spec
CONSTANTS
    Grid = 8
    Eps = 2
    DepthPenalty = 20
    Threshold = 4
    Worst = 1000
    StepDepth = 1
    CheckDepth = 1
    AlphaDivisor = 2
    InitDelta <- MCInitDelta
    Finds <- MCFinds
    TrainRows <- MCTrainRows
    TestRows <- MCTestRows
    Divisions <- MCDivisions
    Noise <- MCNoise
    HugeLoss = 100000
    MinCovers = {1, 2}
    TrainPruned = FALSE
    MaxSteps = 2
INVARIANTS
    SearchesOnModel
    SearchExact
    ScoredAsPredicted
    ModelsLoadBack
PROPERTIES
    ImplementsSearch
    PredictionsAdd
    TrainingEnds
CHECK_DEADLOCK FALSE
