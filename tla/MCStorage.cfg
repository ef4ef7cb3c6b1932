SPECIFICATION MCSpec
CONSTANTS
    Slots = {"a", "b"}
    Parts = {"a1", "b1"}
    Arrays = {"m"}
    Parent <- MCParent
    Rank <- MCRank
    Removable = {}
    Media = {"raid", "mate", "blank"}
    Content <- MCContent
    Stores <- MCStores
    MaxEvents = 2
INVARIANTS
    InventoryCoexisted
    OpenedAreFree
    TrueAtOnce
    OneBroker
