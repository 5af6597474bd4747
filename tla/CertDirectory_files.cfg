SPECIFICATION FairSpec
CONSTANTS
    api = api
    agent = agent
    Agents = {agent}
    Apis = {api}
    Missing = Missing
    Torn = Torn
    NoConfig = NoConfig
    MaxFaults = 1
INVARIANTS TypeOK OneGeneration PeersAgree
PROPERTIES KeysAreKept AgentServes
