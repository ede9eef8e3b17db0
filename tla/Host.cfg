CONSTANTS
    Agents = {packaged, instance}
    Packaged = packaged
    Instance = instance
    Upgraders = {u1}
    Installer = installer
    NoAgent = NoAgent
    NoState = NoState
    MaxVersion = 2
    MaxFaults = 1
SPECIFICATION HostFairSpec
INVARIANTS HostTypeOK Recoverable IdentitiesApart
PROPERTIES ServiceReturns
CONSTRAINTS NoIdleUpdates WithinPromise
CHECK_DEADLOCK FALSE
