SPECIFICATION MCSpec
CONSTANTS
    Conversations <- MCConversations
    CustomerOf <- MCCustomerOf
    Members <- MCMembers
    CONVERSATION_STATUSES <- MCStatuses
    HIDDEN_STATUSES = {"closed", "deleted"}
    Clock = 1
    None = None
    NoRow = NoRow
    Keep = Keep
    Gone = Gone
    a = a
    b = b
    c = c
    x = x
    y = y
    m1 = m1
    m2 = m2
    s1 = s1
    s2 = s2
    h1 = h1
    v1 = v1
    v2 = v2
    v3 = v3
    t1 = t1
    ann = ann
    ben = ben
SYMMETRY Symmetry
INVARIANTS PolledMeansCurrent BoardHasTheLastWord MarksVouch PartsAddUp
PROPERTIES NeverOverLent SessionsHold ImplementsBoard
CHECK_DEADLOCK FALSE
