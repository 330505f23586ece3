CONSTANTS
    Tasks = {t1, t2}
    MaxCrashes = 0
    MaxFailures = 0
    MaxDecisions = 2
    AskNamed = FALSE
SPECIFICATION SponsoredSpec
SYMMETRY Symmetry
INVARIANTS
    AnnouncedOnce
    RequestsFollowWindow
