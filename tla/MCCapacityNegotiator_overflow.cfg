CONSTANTS
    GB = 4
    SSDStepSizeGB = 1
    BulkStepSizeGB = 3
    IntModulus = 256
    MaxBytes = 127
SPECIFICATION Spec
INVARIANTS
    RespectsLimit
