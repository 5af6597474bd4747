SPECIFICATION Spec
CONSTANTS
    starter = starter
    request1 = request1
    request2 = request2
    Starter = starter
    Requests = {request1, request2}
    Missing = Missing
    Torn = Torn
    MaxFaults = 2
SYMMETRY Symmetry
INVARIANTS TypeOK OneAuthority
