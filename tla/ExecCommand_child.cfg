SPECIFICATION FairSpec
CONSTANTS
    exec1 = exec1
    Execs = {exec1}
    MaxFaults = 2
INVARIANTS TypeOK GivesBack ChildKeepsAccess CleanExit
PROPERTIES SignalsArrive
