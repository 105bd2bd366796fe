SPECIFICATION FairSpec
CONSTANTS
    on = on
    off = off
    default = default
    bad = bad
    pot = pot
    page = page
    server = server
    None = None
    NoKnob = NoKnob
    Forms = {on}
    MeshForms = {on}
    DefaultForm = on
    PinSets = {default, bad}
    Bad = {bad}
    DefaultPins = default
    Knobs <- TwoKnobs
    DefaultKnob = pot
    Clash <- OneClash
    Savers = {page, server}
    Remote = {server}
    Levels = {1, 2}
    LocalInput = {FALSE}
    TrialBootsMax = 2
    FailThreshold = 2
    GraceWindow = 1
    MinUptime = 1
    ConfirmChecks = 1
    LocalQuiet = 1
    MaxTrouble = 1
    MaxPosts = 2
    MaxJoins = 1
    MaxFaults = 1
INVARIANTS TypeOK BadPinsDropped ConfirmedCameUp KnobApart
PROPERTIES FallbackEarned ComesUp
