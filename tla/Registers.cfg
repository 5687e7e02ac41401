SPECIFICATION MCSpec
CONSTANTS
    ann = ann
    ben = ben
    cid = cid
    dora = dora
    r1 = r1
    h1 = h1
    None = None
    Nil = Nil
    Admin = dora
    Users <- MCUsers
    Board <- MCBoard
    Requests <- MCRequests
    Handlers <- MCOneHandler
INVARIANTS ApprovalsStayOnRecord BooksHold HoursBookAddsUp
PROPERTY PromisedSpec
