SPECIFICATION Spec
CONSTANTS
    IdOrder <- MCIdOrder
    ForbiddenTexts <- MCForbiddenTexts
    PeerNames <- MCPeerNames
    WireIds <- MCWireIds
    WireLevels <- MCWireLevels
    Registrable <- MCRegistrable
    MaxEpoch = 1
    MaxSurfaces = 2
    MaxReports = 1
INVARIANT TypeOK
INVARIANT SilentDowngradeShows
INVARIANT ClaimIsExact
INVARIANT NoForbiddenWords
INVARIANT PanicsOverQuotesOnly
INVARIANT ListingAgrees
