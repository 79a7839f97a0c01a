SPECIFICATION FairSpec
CONSTANTS
    h1 = h1
    h2 = h2
    h3 = h3
    Hosts <- MCHosts
    Service <- MCService
    Workers = {w1}
    MaxFaults = 2
INVARIANTS
    RecordedIsApplied
    ServesMigrated
PROPERTIES
    StartSucceeds
