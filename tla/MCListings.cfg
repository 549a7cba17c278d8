SPECIFICATION ListingsSpec
CONSTANTS
    MaxRows = 3
    Moving = {2}
    Horizon = 2
INVARIANTS PagesExact FeedSoonest CountsAgree
CHECK_DEADLOCK FALSE
