SPECIFICATION Spec
CONSTANTS
    Alert = {a1}
    Configured = {"generic", "sentinel", "pagerduty"}
    MaxAttempts = 3
    Caller = {c1, c2}
    IdKey = {k1}
    MaxCalls = 4
    Capacity = 2
    Refill = 1
    MaxNow = 3
    Domain = {d1, d2, d3}
    Infra = {i1, i2}
    Large = {"gpt-5", "gemini-3"}
    Composites <- McComposites
    ClaudeSays <- McClaude
    Region = {r1, r2, r3, r4, r5}
    Content = {h1, h2, h3}
    Feedback <- McFeedback
    MaxFeedback = 4
    MinSamples = 6
    Threshold = 650
    Visual <- McVisual
    RawAux <- McRawAux
    MaxDay = 2
    Host <- McHost
    Canon <- McCanon
    Surface = {1, 2}
    MaxLeads = 3
    MaxFindings = 4
    Uncertain = {0, 1}
    Budgets = {1, 3}
    Anchor <- McAnchor
    Entity <- McEntity
    Depths = {1, 2}
    Writer = {w1, w2}
    Blob = {b1}
    Kind = {"detection_summary", "board_pack"}
    Family = {"m365"}
    MaxSecond = 1
    MaxWrites = 3
    MaxEvents = 3
    Member = {m1, m2}
    Stored <- McStored
    MaxNotices = 1
    Pages <- McPages
    Plans <- McPlans
    Calls <- McCalls
    Hit <- McHit
    MaxPerPlatform = 1
    MaxHits = 3
INVARIANTS
    CopiesAreExplained
    NobodyIsSkipped
    GuardsHold
    GroupsAreComponents
    AnswersMeetReferences
    LeadsMeetReferences
    FilesAreWhole
    NoticesReach
    HarvestIsHonest
PROPERTIES
    WorkEnds
CHECK_DEADLOCK FALSE
