CONSTANTS
    p1 = p1  p2 = p2  n1 = n1  n2 = n2  i1 = i1  i2 = i2  s1 = s1  s2 = s2
    GB = 4
    SSDStepSizeGB = 1
    BulkStepSizeGB = 3
    IntModulus = 65536
    Procs <- MCProcs
    Names = {n1}
    Ids <- MCIds
    Nodes = {s1}
    Servers = {s1}
    Zone = "rma1"
    MaxVolumesPerNode = 1
    CapSets <- MCCapSets
    ZoneReqs <- MCZoneReqs
    TypeParams <- MCTypeParams
    CapRanges <- MCCapRanges
    CreateRequest <- MCCreateRequest
    SerializedCalls = TRUE
    BackendFaults = TRUE
SPECIFICATION Spec
SYMMETRY Symmetry
INVARIANTS
    PublishIdempotent
