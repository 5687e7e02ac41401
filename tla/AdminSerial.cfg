SPECIFICATION MCSpec
CONSTANTS
    root = root
    ann = ann
    ben = ben
    seeded = seeded
    extra = extra
    h1 = h1
    a1 = a1
    c1 = c1
    c2 = c2
    c3 = c3
    e1 = e1
    e2 = e2
    i1 = i1
    i2 = i2
    NoRow = NoRow
    None = None
    Bootstrap = root
    Administrators = seeded
    Users <- MCUsers
    Groups <- MCGroups
    Handlers <- MCOneHandler
SYMMETRY Symmetry
INVARIANTS AdminRemains AccountsHold DirectoryHolds SettingsHold
