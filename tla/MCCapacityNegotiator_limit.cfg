CONSTANTS
    GB = 4
    SSDStepSizeGB = 1
    BulkStepSizeGB = 3
    IntModulus = 65536
    MaxBytes = 30
SPECIFICATION Spec
INVARIANTS
    MatchesReference
