SPECIFICATION FairSpec
CONSTANTS
    broadcast = broadcast
    own = own
    c1 = c1
    c2 = c2
    Ips = {broadcast, own}
    Cams = {c1, c2}
    Reaches <- ReachesBoth
    MaxRequests = 3
    MaxFailures = 2
INVARIANTS TypeOK OneBlastPerTarget DoneMeansWholeFile
PROPERTIES TargetIsFound CaptureEnds
CHECK_DEADLOCK FALSE
