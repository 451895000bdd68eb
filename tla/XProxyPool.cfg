SPECIFICATION FairSpec
CONSTANTS
    Clients = {c1, c2, c3}
    NEndpoints = 1
    PoolSize = 2
    ServerMaxRouting = 1
    MaxMsgs = 1
INVARIANTS TypeOK WaitersCounted ServersHeld WaitersQueued NoSleepOnSignal
PROPERTY WaiterWoken
