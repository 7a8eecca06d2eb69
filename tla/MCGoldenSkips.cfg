SPECIFICATION Spec
CONSTANTS
    Texts = {"refund", "praise"}
    Models = {"m1", "m2"}
    NoModel = "none"
    Thresholds = {"lax", "strict"}
    Decisions = {"auto_route", "human_review"}
    Ruling <- MCRuling
    Headers <- MCHeaders
INVARIANT
    GreenMeansCompared
