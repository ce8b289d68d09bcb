SPECIFICATION FairSpec
CONSTANTS
    c1 = c1
    c2 = c2
    c3 = c3
    chA = chA
    nickA = nickA
    topicA = topicA
    NoConn = NoConn
    NoChannel = NoChannel
    NoNick = NoNick
    NoTopic = NoTopic
    Channels = {chA}
    Nicks = {nickA}
    Topics = {topicA}
    Conns = {c1, c2, c3}
    MaxClients = 2
    Input <- RoundCommands
    Closers = {c1}
    StrayFd = 2
    MaxFailures = 1
    MaxSends = 3
CHECK_DEADLOCK FALSE
INVARIANTS
    TypeOK
    TablesAgree
    RoundServed
    ChannelsListed
    UsersCountMembers
PROPERTIES
    CommandsRead
