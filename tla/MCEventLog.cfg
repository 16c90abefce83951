CONSTANTS
    Sessions = {s1, s2, s3}
    NoSession = NoSession
    NoRow = NoRow
    MaxSequence = 6
SPECIFICATION Spec
SYMMETRY SessionSymmetry
INVARIANT TypeOK
PROPERTY RefinesTimeline
PROPERTY RefinesFeed
PROPERTY StaleIsRefused
