SPECIFICATION Spec
CONSTANTS
    n1 = n1
    n2 = n2
    bad = bad
    small = small
    large = large
    huge = huge
    Names <- MCNames
    BadNames <- MCBadNames
    Values <- MCValues
    Size <- MCSize
    NoValue = NoValue
    MaxFile = 6
    MaxData = 2
    HeaderSize = 1
    Overhead = 1
    PowerFails = TRUE
INVARIANTS
    TypeOK
    UniqueNames
    WithinLimit
PROPERTIES
    ImplementsEvStore
