\* Every order of up to four entries, nested and doubled; buildpacks whose names
\* are keys of others, are there twice or are missing.
SPECIFICATION RecipeSpec
CONSTANTS
    Paths <- MCPaths
    Modes <- MCModes
    MaxEntries = 4
    Names = {"ruby", "java", "go"}
    MaxProvided = 3
    MaxUsed = 2
CHECK_DEADLOCK FALSE
INVARIANTS
    ExtractedAsArchived
    UnzipInv
    ReplacedOnce
    FailsWhenUnknown
    ModifierInv
PROPERTY
    ImplementsStagingRecipe
