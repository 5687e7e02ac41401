SPECIFICATION MCSpec
CONSTANTS
    r1 = r1
    r2 = r2
    y1 = y1
    y2 = y2
    h = h
    h1 = h1
    h2 = h2
    p1 = p1
    p2 = p2
    p3 = p3
    m1 = m1
    m2 = m2
    bank = bank
    e1 = e1
    e2 = e2
    bill = bill
    incoming = incoming
    c1 = c1
    c2 = c2
    Null = Null
    Runs = {r1, r2}
    Years = {y1, y2}
    Parcels = {p1}
    Members = {m1}
    Items = {{p1}, {p1, m1}}
    Handlers = {h}
    Overlap = FALSE
    Formats = {TRUE, FALSE}
    Starts = {2, 3}
    Removable = {}
    MaxSequence = 6
SYMMETRY Symmetry
INVARIANTS FinalizedAsDefined NumbersHold CrowdHolds BilledInFull DeliveryHolds
PROPERTIES StartDecidesNextRun BooksBalance
