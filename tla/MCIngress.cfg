SPECIFICATION FairSpec
CONSTANTS
    m1 = m1
    m2 = m2
    m3 = m3
    w1 = w1
    w2 = w2
    p1 = p1
    p2 = p2
    g1 = g1
    c1 = c1
    c2 = c2
    NoAlbum = NoAlbum
    Legacy = Legacy
    Messages = {m1, m2, m3}
    Revisions = {w1}
    AlbumOf <- MCAlbumOf
    EligiblePlans <- MCEligiblePlans
    ContentOf <- MCContentOf
    Limit = 1
    MaxUpsets = 1
INVARIANTS RoutedExactlyAsPinned WaitingPartsAreHeld NothingIsDoneTwice
CHECK_DEADLOCK FALSE
PROPERTY AcceptedIsDecided
