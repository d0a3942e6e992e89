\* Four invalidations, of which two fit on the largest page.
SPECIFICATION Spec
CONSTANTS
    IDs <- SomeIDs
    Times <- SomeTimes
    MaxItems <- SomeMaxItems
    NoMarker = 0
    Markers <- SomeMarkers
    listMaxItemsDefault = 2
    listMaxItemsCap = 2
INVARIANTS
    EveryRecordOnce
PROPERTY
    ListingEnds
