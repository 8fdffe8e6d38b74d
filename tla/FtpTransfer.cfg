\* Two sessions, two commands, every method.
CONSTANTS
    Session = {s1, s2}
    present = present
    absent = absent
    File = {present, absent}
    Missing = Missing
    MCLength = 2
    FirstContent <- MCFirstContent
    UseSendfile = TRUE
    UseMmap = TRUE
    Chunk = 2
    Page = 2
    Quota = 3
    MaxUp = 1
    MaxRest = 1
    MaxJobs = 2
SPECIFICATION FairSpec
INVARIANTS
    DownloadsAreInOrder
    DownloadsAreWhole
    BytesAreInPlace
    UploadsAreStored
    AppendsSurvive
    QuotaOvershoot
PROPERTY TransfersEnd
