SPECIFICATION MCSpec
CONSTANTS
    p = p
    q = q
    a = a
    b = b
    x = x
    ax = ax
    aa = aa
    ab = ab
    x1 = x1
    x2 = x2
    h1 = h1
    NoRow = NoRow
    NoFolder = NoFolder
    Parts = {"handover"}
    Parcels = {p, q}
    People = {a, x}
    Lets <- Single
    Applications = {ax, aa}
    Applicant <- ByWhom
    Notice = {0, 1, 2}
    Folders = FALSE
    Allowed = {}
INVARIANT MembershipFollowsTenancy
