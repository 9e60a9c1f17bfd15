SPECIFICATION Spec
CONSTANTS
    c1 = c1
    c2 = c2
    info = info
    trace = trace
    bcast = bcast
    host = host
    Null = Null
    Scrap = Scrap
    Garbage = Garbage
    Devs = {c1, c2}
    Levels = {info, trace}
    Ips = {bcast, host}
    Files <- FilesValue
    Posts <- PostsValue
    Edits <- EditsValue
    MaxRequests = 5
INVARIANTS TypeOK EntriesComplete
PROPERTIES  NullStays DiscoveredSurvivesPage
CHECK_DEADLOCK FALSE
