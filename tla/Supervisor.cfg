CONSTANTS
    Callers = {c1}
    Threshold = 2
SPECIFICATION FairSpec
CHECK_DEADLOCK FALSE
INVARIANTS TypeOK NoStrayWhenCalm
PROPERTIES CrashIsHealed RestartEnds
