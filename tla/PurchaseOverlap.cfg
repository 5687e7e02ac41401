SPECIFICATION FairSpec
CONSTANTS
    None = None
    Admin = dora
    Users = {ann, ben, dora}
    Board = {ann, ben}
    Requests = {r1}
    Handlers = {h1, h2}
INVARIANTS FourEyesHold NoSelfApproval
PROPERTIES SettledForGood EveryRequestAnswered
