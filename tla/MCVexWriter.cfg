CONSTANTS
    Blocks <- MCBlocks
    MaxCalls = 9
    MaxFiles = 1
SPECIFICATION Spec
INVARIANT FlagsAgree
PROPERTY FilesAreDocuments
CHECK_DEADLOCK FALSE
