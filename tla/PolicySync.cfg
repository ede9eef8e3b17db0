CONSTANTS
    Files <- TwoFiles
    MaxRevision = 3
    MaxFaults = 3
    Nothing = Nothing
SPECIFICATION FairSpec
INVARIANTS BinaryRecoverable PinHasAnswered
PROPERTIES RollbackRestores AckedFilesAreOnDisk CatchesUp
