CONSTANTS
    Coins = 4
    Changes <- MCChanges
    NoChange = NoChange
    TopN = 2
    MaxLength = 17
    LeastPoints = 2
    MostPoints = 5
SPECIFICATION MarketSpec
INVARIANTS MarketTypeOK MatchIsTheFirst EmptyIsHonest FallbackOnlyWhenForbidden MoversAreExtreme SeriesKeepsItsEnd
