SPECIFICATION Spec
CONSTANTS
    None = None
    Admin = dora
    Users = {ann, ben, cid, dora}
    Board = {ann, ben, cid}
    Requests = {r1}
    Handlers = {h1, h2}
INVARIANT ThresholdSwitches
