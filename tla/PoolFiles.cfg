SPECIFICATION FilesSpec
CONSTANTS
    d1 = d1
    d2 = d2
    q1 = q1
    base = base
    clone = clone
    image = image
    full = full
    zero = zero
    text = text
    other = other
    None = None
    Absent = Absent
    Torn = Torn
    Disk <- MCDisk
    Pool <- MCPool
    Path <- MCPath
    PoolOf <- MCPoolOf
    Image <- MCImage
    Contents <- MCContents
    Block <- MCBlock
    Zero = zero
    Plan <- MCPlan
    Data <- MCData
    Config <- MCConfig
    SeedPool = q1
INVARIANTS TypeOK RecordedIsWhole OrphanOnlyAfterFailure NothingOutlivesPool SeedAsPlanned
SYMMETRY MCSymmetry
