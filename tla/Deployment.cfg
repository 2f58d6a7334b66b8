CONSTANTS
    Operator = {o1, o2}
    Indices <- MCIndices
    Migrations = 1
    Env <- MCEnv
    CliFlags = {"ES_API_KEY"}
    OptionSets <- MCOptions
    Origins <- HalfIndexed
SPECIFICATION FairSpec
INVARIANTS TypeOK PreexistingIndicesSurvive PreflightIsEnough
PROPERTIES RerunsConverge
