SPECIFICATION Spec
CONSTANTS
    Item = {"i1", "i2"}
    Editor = {e1, e2}
    Combo = {"bw"}
    Offered = {"bw"}
    Tiered = {"bw"}
    Rate <- MCRate
    PageCount <- MCPageCount
    Copies = {1, 2}
    QuotedPrice = {4}
    MaxSwitches = 1
SYMMETRY Symmetry
CHECK_DEADLOCK FALSE
INVARIANTS
    TypeOK
    PlacesDistinct
    TotalIsSum
PROPERTIES
    AmountsFollowOrder
