SPECIFICATION FairSpec
CONSTANTS
    Workers = {w1, w2}
    Servers <- MCServers
    Malformed = {"bad"}
    Addresses <- MCAddresses
    Answers <- MCAnswers
    Private = {"p"}
    Star = "0"
    Silent = {"a2"}
    MaxAttempts = 3
    Free = Free
    NoJob = NoJob
    Junk = Junk
INVARIANTS
    TypeOK
    NoLostWakeup
PROPERTIES
    JobEnds
    QueueSpec
CHECK_DEADLOCK FALSE
