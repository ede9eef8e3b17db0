CONSTANTS
    Files <- TwoFiles
    MaxRevision = 3
    MaxFaults = 3
    Nothing = Nothing
SPECIFICATION Spec
PROPERTY AckedIsRunning
