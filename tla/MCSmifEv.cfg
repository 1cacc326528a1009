SPECIFICATION SmifSpec
CONSTANTS
    n1 = n1
    n2 = n2
    small = small
    large = large
    Names <- MCNames
    BadNames = {}
    Values <- MCValues
    Size <- MCSize
    NoValue = NoValue
    MaxFile = 6
    MaxData = 2
    HeaderSize = 1
    Overhead = 1
    PowerFails = TRUE
    Requests <- MCRequests
    MaxIndex = 2
SYMMETRY MCSymmetry
INVARIANTS
    ReadYourWrites
    SurvivesRestart
PROPERTIES
    SuccessIsDurable
