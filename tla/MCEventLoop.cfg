SPECIFICATION ESpec
CONSTANTS
    Users = {u1,u2}
    Creator = u1
    Loop = loop
    NoOne = none
    MAX_ACCEPTS_AT_A_TIME = 2
    MaxArrivals = 1
    MaxErrors = 1
    MaxStarts = 2
CHECK_DEADLOCK FALSE
INVARIANTS
    SocketSettled
    ObjectsLive
PROPERTIES
    CallbackWanted
    ConnectAnswered
    QuitEnds
    ConnectionAccepted
