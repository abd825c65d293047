SPECIFICATION FairSpec
CONSTANTS
    b1 = b1  b2 = b2  x1 = x1  x2 = x2
    btc = btc  eth = eth
    w1 = w1  w2 = w2  id1 = id1  id2 = id2
    Signals = {b1}
    Symbols = {btc}
    Workers = {w1}
    Identities = {id1}
    Environment = "TESTNET"
    MaxQuantity = 2
    MaxAggregate = 2
    MaxReserved = 2
    MaxPositions = 1
    MaxSubmissions = 2
    UnknownFeeSymbols = {}
    MaxGeneration = 3
    MaxRestarts = 0
    MaxDay = 1
    VenueResets = FALSE
    Intent <- MCIntent
    Symbol <- OneSymbol
PROPERTIES
    
    RevokedNeverSent
    NoOrderWhileBarred
