SPECIFICATION Spec
CONSTANTS
    c1 = c1
    c2 = c2
    c3 = c3
    chA = chA
    nickA = nickA
    topicA = topicA
    NoConn = NoConn
    NoChannel = NoChannel
    NoNick = NoNick
    NoTopic = NoTopic
    Channels = {chA}
    Nicks = {nickA}
    Topics = {topicA}
    Conns = {c1, c2}
    MaxClients = 2
    Input <- JoinQuit
    Closers = {}
    StrayFd = 2
    MaxFailures = 0
    MaxSends = 3
CHECK_DEADLOCK FALSE
PROPERTIES
    JoinSucceeds
