SPECIFICATION Spec
CONSTANTS
    Threads = {t1, t2}
    Admins = {a1}
    Tags <- MCTags
    Mapped <- MCMapped
    LogSpecs <- MCLogSpecs
    Steps = {1}
    MaxLevel = 2
    GUCHAR = 256
    MaxChanges = 2
    Senders = {s1, s2, s3}
    MaxFd = 3
    MaxFlaps = 2
    MaxLines = 2
CHECK_DEADLOCK FALSE
INVARIANTS
    AnswersCurrent
    OneConnection
PROPERTIES
    ReaderEnds
