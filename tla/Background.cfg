SPECIFICATION MCFairSpec
CONSTANTS
    None = None
    loop = loop
    button = button
    download = download
    picture = picture
    other = other
    logo = logo
    f1 = f1
    f2 = f2
    Files <- MCFiles
    Logos <- MCFiles
    Forms <- MCForms
    Runs <- MCRuns
    Loop = loop
    Download = download
    retention_count = 1
    Period = 1
    LastHour = 0
    MaxRuns = 2
    MaxTroubles = 2
    a1 = a1
    x1 = x1
    x2 = x2
    x3 = x3
    h1 = h1
    h2 = h2
    Members = {1, 2, 3}
    Required = 1
    LastDay = 2
    Corrections = FALSE
    Parts = {"logo", "pictures", "schedule", "transfers", "applicants"}
    Plots = {1, 2}
    Clubs <- MCPerMember
    Transfers <- MCThreeTransfers
    Handlers <- MCHandlers
    MaxHours = 2
INVARIANTS RowsHaveTheirFiles NewestSurvives
PROPERTIES ScheduledBackupsRun TransfersKeepFulfilled TransfersAnswered ApplicationsExpire
CHECK_DEADLOCK FALSE
