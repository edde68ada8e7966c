CONSTANTS
    Calls = {c1, c2}
    Reports = {r1, r2, bad}
    Unreadable = {bad}
    d = d
    g = g
    DefaultSetups = {d}
    CustomSetups = {g}
    Method <- MCMethod
    NoSetup = NoSetup
    Launches = 2
SPECIFICATION FairUploadSpec
PROPERTIES
    DeletesSent
    Completes
CHECK_DEADLOCK FALSE
