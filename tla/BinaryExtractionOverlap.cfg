SPECIFICATION Spec
CONSTANTS
    Process = {p1, p2}
    Inode = {i1, i2, i3}
    oldRelease = oldRelease
    newRelease = newRelease
    Version <- Releases
    MaxSize = 2
    Size <- SizeOf
    None = None
PROPERTY ReturnedIsWhole
