\* Short passwords of three sets; four presses of the server form's buttons; two pages of
\* a tab and a vault of two credentials that is changed twice; five requests in six seconds,
\* of which two may pass in any two seconds.
SPECIFICATION FormsSpec
CONSTANTS
    Order <- Boxes
    Least = 2
    Most = 3
    Typed = {0, 1, 9, NaN}
    NotANumber = NaN
    MaxPresses = 4
    Unset = Unset
    Credentials = {c1, c2}
    Sites = {s1, s2}
    NoSite = NoSite
    BrowserTabs = {b1}
    MaxPages = 2
    MaxEdits = 2
    Limit = 2
    Window = 2
    Pipes = {p1, p2}
    MaxDelay = 1
    MaxTime = 5
    MaxRequests = 5
INVARIANTS TypesOK OutputFitsControls MissingOnlyIfDisplaced LengthsAgree MessageStays FillsItsOwnPage
    LimitHolds RefusedForAReason
PROPERTIES MessageGoes
CHECK_DEADLOCK FALSE
