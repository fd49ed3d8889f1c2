SPECIFICATION PairSpec
CONSTANTS
    s1 = s1
    k1 = k1
    m1 = m1
    m2 = m2
    m3 = m3
    None = None
    Sub = {s1}
    Key = {k1}
    Topic = {"top"}
    KeyOf <- MCKeyOf
    TopicOf <- MCTopicOf
    Message = {m1, m2, m3}
    PriorityOf <- MCPriorityOf
    Accepts <- MCAccepts
    Publisher = {"p1"}
    Caller = {"c1"}
    Runner = {}
    MayStart = TRUE
    MayUnsubscribe <- MCMayUnsubscribe
    MaxQueue = 2
    MaxAttempts = 2
CHECK_DEADLOCK FALSE
PROPERTIES
    SubscribersCannotDeadlock
