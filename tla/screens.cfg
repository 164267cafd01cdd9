\* Three calls of auth(); two conversations; a job; an invited member; the
\* stock of a product.
SPECIFICATION ScreensSpec
CONSTANTS
    r1 = r1
    r2 = r2
    r3 = r3
    p1 = p1
    p2 = p2
    p3 = p3
    m1 = m1
    m2 = m2
    l1 = l1
    l2 = l2
    n1 = n1
    n2 = n2
    Calls = {r1, r2, r3}
    Pairs = {p1, p2, p3}
    NoPair = NoPair
    Conversations = {c1, c2}
    NoConversation = NoConversation
    Messages = {m1, m2}
    NoMessage = NoMessage
    MaxLoads = 2
    Jobs = {j1}
    MaxRuns = 2
    MaxHistories = 1
    MaxWire = 2
    Screens = {a1, a2}
    Visits = {v1, v2}
    Members = {e1}
    Stores = {b1}
    Links = {l1, l2}
    NoLink = NoLink
    Desks = {d1, d2}
    Notes = {n1, n2}
    NoNote = NoNote
    Opening = 1
    MaxUnits = 2
INVARIANTS
    ScreensTypeOK
    SessionLostForCause
    OneHeirUnlessCrossed
    NothingElseMissed
    ThreadUnmixed
    FinishedIsFinal
    PanelSettles
    OustedStaysOut
    LastSaveDecides
    BookMatchesShelf
CHECK_DEADLOCK FALSE
