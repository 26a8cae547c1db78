SPECIFICATION Spec
CONSTANTS
    CmdUsers = {"none", "zorp", "0xffffffff"}
    ProgramUser = "nobody"
    restart_max_opt = 2
    restart_interval_opt = 2
    PROC_RESTART_MAX = 3
    Shift = 2
    CheckEnabled = TRUE
    PidfileMayFail = FALSE
    TwiceAge = 0
    SecondStarts = 1
CHECK_DEADLOCK FALSE
INVARIANTS
    
    StartSound
    RestartLimit
PROPERTIES
    Recovers
    StartupEnds
