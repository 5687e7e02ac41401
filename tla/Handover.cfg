SPECIFICATION MCSpec
CONSTANTS
    p = p
    q = q
    a = a
    b = b
    x = x
    ax = ax
    aa = aa
    ab = ab
    x1 = x1
    x2 = x2
    h1 = h1
    NoRow = NoRow
    NoFolder = NoFolder
    Parts = {"handover", "two plots", "hours"}
    Parcels = {p}
    People = {a, b, x}
    Lets <- Couple
    Applications = {ax, ab}
    Applicant <- ByWhom
    Notice = {0, 1, 2}
    Folders = TRUE
    Allowed = {"start ahead"}
SYMMETRY Symmetry
INVARIANTS FolderNotInherited MembershipFollowsOneTenancy TenantsAndHoursHold
PROPERTIES TurnsOverOnTheDay GivingKeepsFulfilled
