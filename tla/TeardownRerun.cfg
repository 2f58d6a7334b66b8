CONSTANTS
    Operator = {o1}
    Indices <- MCIndices
    Migrations = 2
    Env <- OneEnv
    CliFlags = {}
    OptionSets <- EveryOption
    Origins <- HalfMigrated
SPECIFICATION Spec
INVARIANTS PreexistingMigrationsSurvive
